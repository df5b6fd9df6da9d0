------------------------------- MODULE Loader -------------------------------
(***************************************************************************)
(* LibraryLoader::load (source/library/Loader.cpp): the sections of an RPL *)
(* are copied into one block of memory, the relocations of the library     *)
(* itself and those against imported functions are carried out, and the    *)
(* exports are given their addresses.  One action per iteration of a loop  *)
(* or per call.                                                            *)
(*                                                                         *)
(* An RPL lives in a virtual address space of three parts: text from TEXT, *)
(* data from DATA, imports from IMPORTS (0x02000000, 0x10000000 and        *)
(* 0xC0000000 in the code).  Addresses are plain integers; they are cut to *)
(* the machine's width where the linker stores or compares them.           *)
(***************************************************************************)
EXTENDS ElfLink, Sequences, FiniteSets

CONSTANTS
    TEXT, DATA, IMPORTS,
    PAGE,           \* 0x100: the slack and the granularity of the block
    LORESERVE, ABS, \* SHN_LORESERVE and SHN_ABS, cut to HALF
    Libraries,      \* the RPLs to load, as the ELF reader presents them
    Blocks,         \* what MEMAllocFromMappedMemoryEx may return
    OldLibrary,     \* the values handle->library may have before
    Garbage,        \* what an unset destinations[] element may hold
    Imported        \* the addresses OSDynLoad_FindExport may answer with

NULL == 0

ASSUME AddressAssumption ==
    /\ TEXT \in Nat /\ DATA \in Nat /\ IMPORTS \in Nat
    /\ 0 < TEXT /\ TEXT < DATA /\ DATA < IMPORTS /\ IMPORTS < WORD
    /\ PAGE \in Nat \ {0}
    /\ Blocks \subseteq Nat \ {NULL}
    /\ OldLibrary \subseteq Blocks \cup {NULL}
    /\ Garbage \subseteq Int

(* A library is a sequence of sections [kind, addr, size, info, hasData,    *)
(* entries], where kind says what load does with the section: "progbits"    *)
(* and "nobits" (.bss, .sbss) for the allocated ones, "rel" for SHT_REL and *)
(* SHT_RELA, "imports" (whose name tells the RPL to import from),           *)
(* "exports", "other".  hasData is false when get_data() is null although   *)
(* size is not 0.  Relocation entries are records [ok, type, offset,        *)
(* addend, symbol]: ok when get_entry finds the entry and its symbol.       *)
(* Export entries are addresses.  A relocation table names a section of the *)
(* file, which load takes on trust.                                         *)
RelocationTyped(e) ==
    /\ e.ok \in BOOLEAN
    /\ e.offset \in Nat /\ e.addend \in Int /\ e.symbol \in Nat

(* (The section count of a file has 16 bits, so its addresses, a byte per   *)
(* section and a page fit the machine's word.)                              *)
ASSUME LibraryAssumption == \A l \in Libraries :
    /\ Len(l) \in Nat /\ (IMPORTS - TEXT) + Len(l) + PAGE < WORD
    /\ \A s \in 1..Len(l) :
        /\ l[s].addr \in Nat /\ l[s].size \in Nat /\ Len(l[s].entries) \in Nat
        /\ DOMAIN l[s].entries = 1..Len(l[s].entries)
        /\ l[s].kind = "rel" =>
              /\ l[s].info \in 1..Len(l)
              /\ \A i \in 1..Len(l[s].entries) : RelocationTyped(l[s].entries[i])
        /\ l[s].kind = "exports" =>
              \A i \in 1..Len(l[s].entries) : l[s].entries[i] \in Nat

(* Operators named Bug... are mutated forms of the definition that follows  *)
(* them, each a slip the code could have; no action uses one.               *)
VARIABLES
    lib,        \* the library being loaded
    pc,         \* the call load() has reached
    error,      \* why it failed
    library,    \* handle->library
    size,       \* parse_library_metadata's sum of the sizes
    codeSize,   \* code_size
    base,       \* base_offset and data_offset, which always agree
    origin,     \* destinations[]: where address 0 of a section's part went
    placed,     \* the sections that were copied or cleared
    sec, tab, ent,  \* the loop counters over sections, tables and entries
    fixups,     \* the relocations carried out or counted as failures
    pending,    \* library_data's relocation list
    dirty,      \* the sections written since they were flushed
    exports     \* handle->exports

vars == <<lib, pc, error, library, size, codeSize, base, origin, placed, sec, tab, ent,
          fixups, pending, dirty, exports>>
cursor == <<sec, tab, ent>>
result == <<error, exports>>

Contract == INSTANCE LoadContract WITH
    exported <- pc \in {"flush", "clear", "loaded"},
    outcome  <- IF pc \in {"failed", "loaded"} THEN pc ELSE "running"

Sections == 1..Len(lib)
Code     == {s \in Sections : lib[s].kind \in {"progbits", "nobits"}}
Tables   == {s \in Sections : lib[s].kind = "rel"}

InText(a)    == TEXT <= a /\ a < DATA
InData(a)    == DATA <= a /\ a < IMPORTS
InImports(a) == IMPORTS <= a

Init ==
    /\ lib \in Libraries
    /\ pc = "parse"
    /\ error = ""
    /\ library \in OldLibrary
    /\ size = 0
    /\ codeSize = 0
    /\ base = 0
    /\ \E g \in Garbage : origin = [s \in Sections |-> g]
    /\ placed = {}
    /\ sec = 1 /\ tab = 1 /\ ent = 1
    /\ fixups = {}
    /\ pending = <<>>
    /\ dirty = {}
    /\ exports = <<>>

Fail(why) ==
    /\ pc' = "failed"
    /\ error' = why
    /\ UNCHANGED <<lib, library, size, codeSize, base, origin, placed, cursor,
                   fixups, pending, dirty, exports>>

(* A read through the null pointer of a section without data *)
Crash == /\ pc' = "crashed"
         /\ UNCHANGED <<lib, library, size, codeSize, base, origin, placed, cursor,
                        fixups, pending, dirty, result>>

(* code_size: a page more, rounded down, so never zero unless the sum wraps *)
BugCodeSize(sum) == Wrap(sum) - (Wrap(sum) % PAGE)
CodeSize(sum) == Wrap(sum + PAGE) - (Wrap(sum + PAGE) % PAGE)

(* parse_library_metadata: one byte more than each section has *)
ParseSection ==
    /\ pc = "parse" /\ sec \in Sections
    /\ \/ lib[sec].kind = "exports" /\ ~ lib[sec].hasData /\ Crash
       \/ /\ lib[sec].kind = "exports" => lib[sec].hasData
          /\ size' = IF sec \in Code THEN size + lib[sec].size + 1 ELSE size
          /\ sec' = sec + 1
          /\ UNCHANGED <<lib, pc, library, codeSize, base, origin, placed, tab, ent,
                         fixups, pending, dirty, result>>

ParseDone ==
    /\ pc = "parse" /\ sec \notin Sections
    /\ codeSize' = CodeSize(size)
    /\ pc' = "allocate" /\ sec' = 1
    /\ UNCHANGED <<lib, library, size, base, origin, placed, tab, ent, fixups,
                   pending, dirty, result>>

BugAllocateMemory ==
    /\ pc = "allocate" /\ codeSize # 0
    /\ library' \in Blocks
    /\ base' = library'
    /\ pc' = "init"
    /\ UNCHANGED <<lib, size, codeSize, origin, placed, cursor, fixups, pending, dirty, result>>

AllocateMemory ==
    /\ pc = "allocate"
    /\ \/ library # NULL /\ Fail("already allocated")
       \/ library = NULL /\ codeSize = 0 /\ Fail("no code")
       \/ library = NULL /\ codeSize # 0 /\ Fail("out of memory")
       \/ /\ library = NULL /\ codeSize # 0
          /\ library' \in Blocks
          /\ base' = library'
          /\ pc' = "init"
          /\ UNCHANGED <<lib, size, codeSize, origin, placed, cursor, fixups,
                         pending, dirty, result>>

(* init_sections: the copy of one section.  A text section moves the base   *)
(* for the sections after it.                                               *)
BugOrigin(a) == IF InText(a) THEN base - TEXT ELSE IF InData(a) THEN library - DATA ELSE base
Origin(a) == IF InText(a) THEN base - TEXT ELSE IF InData(a) THEN base - DATA ELSE base

InitSection ==
    /\ pc = "init" /\ sec \in Sections
    /\ LET s == lib[sec] IN
       \/ s.kind = "progbits" /\ ~ InImports(s.addr) /\ ~ s.hasData /\ Crash
       \/ /\ sec \in Code => InImports(s.addr) \/ s.hasData \/ s.kind = "nobits"
          /\ sec' = sec + 1    \* (its bytes are flushed at once)
          /\ origin' = IF sec \in Code THEN [origin EXCEPT ![sec] = Origin(s.addr)] ELSE origin
          /\ base' = IF sec \in Code /\ InText(s.addr) THEN base + s.size ELSE base
          /\ placed' = IF sec \in Code /\ ~ InImports(s.addr) THEN placed \cup {sec} ELSE placed
          /\ UNCHANGED <<lib, pc, library, size, codeSize, tab, ent, fixups, pending, dirty, result>>

Enter(call) ==
    /\ pc' = call
    /\ sec' = 1 /\ tab' = 1 /\ ent' = 1
    /\ UNCHANGED <<lib, library, size, codeSize, base, origin, placed, fixups, pending,
                   dirty, result>>

InitDone == pc = "init" /\ sec \notin Sections /\ Enter("link")

(* link_section: the entries of every section whose sh_info names the code  *)
(* section, up to the first that cannot be read                             *)
(* A table without data has the entries its size tells, and get_entry reads *)
(* them through the null pointer.                                           *)
NullTable == /\ tab \in Tables /\ ~ lib[tab].hasData /\ lib[tab].entries # <<>>
             /\ pc = "link" => sec \in Code /\ lib[tab].info = sec

ReadNullTable == pc \in {"link", "imports"} /\ NullTable /\ Crash

BugTableOpen ==
    /\ tab \in Sections
    /\ lib[tab].kind = "rel" /\ lib[tab].info = sec
    /\ ent < Len(lib[tab].entries) /\ lib[tab].entries[ent].ok

TableOpen ==
    /\ tab \in Sections
    /\ lib[tab].kind = "rel" /\ lib[tab].info = sec
    /\ ent <= Len(lib[tab].entries) /\ lib[tab].entries[ent].ok

(* Where a symbol of the library is, in the block *)
Rebase(v) == IF InText(v) THEN v - TEXT + library
             ELSE IF InData(v) THEN v - DATA + base ELSE v

(* The seventh result of get_entry, which load takes for the index of the   *)
(* symbol's section: a value computed for the relocation types of the i386, *)
(* of which these have the numbers of R_386_32, GLOB_DAT and RELATIVE.      *)
CalcValue(e) ==
    CASE e.type = "ADDR32"       -> e.symbol + e.addend
      [] e.type = "ADDR16_HA"    -> e.symbol
      [] e.type = "ADDR14_TAKEN" -> e.addend
      [] OTHER                   -> 0

Reserved(index) == Wrap(index) % HALF >= LORESERVE /\ Wrap(index) # ABS

Fixup(t, target, type, value, import) ==
    [table |-> t, entry |-> ent, target |-> target, value |-> Wrap(value),
     import |-> import, ok |-> LinksDirectly(type, target, value)]

LinkEntry ==
    /\ pc = "link" /\ sec \in Code /\ TableOpen /\ ~ NullTable
    /\ LET e == lib[tab].entries[ent]
           f == Fixup(tab, origin[sec] + e.offset, e.type, Rebase(e.symbol) + e.addend, FALSE)
           local == ~ InImports(e.symbol)
           bad   == (0 < e.symbol /\ e.symbol < TEXT) \/ Reserved(CalcValue(e))
       IN  \/ local /\ bad /\ Fail("not linked")
           \/ /\ local => ~ bad
              /\ fixups' = IF local THEN fixups \cup {f} ELSE fixups
              /\ dirty' = IF local /\ f.ok THEN dirty \cup {sec} ELSE dirty
              /\ ent' = ent + 1
              /\ UNCHANGED <<lib, pc, library, size, codeSize, base, origin, placed, sec, tab,
                             pending, result>>

Advance(next) ==
    /\ IF next THEN sec' = sec + 1 /\ tab' = 1 ELSE tab' = tab + 1 /\ UNCHANGED sec
    /\ ent' = 1
    /\ UNCHANGED <<lib, pc, library, size, codeSize, base, origin, placed, fixups,
                   pending, dirty, result>>

BugLinkNext ==
    /\ pc = "link" /\ sec \in Sections
    /\ ~ (sec \in Code /\ TableOpen) /\ ~ NullTable
    /\ Advance(sec \notin Code)

LinkNext ==
    /\ pc = "link" /\ sec \in Sections
    /\ ~ (sec \in Code /\ TableOpen) /\ ~ NullTable
    /\ Advance(sec \notin Code \/ tab \notin Sections)

LinkDone == pc = "link" /\ sec \notin Sections /\ Enter("imports")

(* add_relocation_data: the entries against imports.  An entry whose import *)
(* section is not found ends its table.                                     *)
ImportSection(index) == index \in Sections /\ lib[index].kind = "imports"

ImportOpen ==
    /\ tab \in Tables
    /\ ent <= Len(lib[tab].entries)
    /\ LET e == lib[tab].entries[ent]
       IN  e.ok /\ (InImports(e.symbol) => ImportSection(Wrap(CalcValue(e))))

AddRelocation ==
    /\ pc = "imports" /\ ImportOpen /\ ~ NullTable
    /\ LET e == lib[tab].entries[ent]
           r == [table |-> tab, entry |-> ent, type |-> e.type, addend |-> e.addend,
                 target |-> origin[lib[tab].info] + e.offset]
       IN  pending' = IF InImports(e.symbol) THEN Append(pending, r) ELSE pending
    /\ ent' = ent + 1
    /\ UNCHANGED <<lib, pc, library, size, codeSize, base, origin, placed, sec, tab, fixups,
                   dirty, result>>

BugImportNext ==
    pc = "imports" /\ tab \in Sections /\ ~ ImportOpen /\ ~ NullTable /\ Enter("imports")

ImportNext ==
    pc = "imports" /\ tab \in Sections /\ ~ ImportOpen /\ ~ NullTable /\ Advance(FALSE)

ImportsDone == pc = "imports" /\ tab \notin Sections /\ Enter("bind")

(* process_relocations: one pending relocation; address is what             *)
(* OSDynLoad_FindExport leaves, 0 when the RPL or the name is not found.    *)
BindImport(address) ==
    /\ pc = "bind" /\ pending # <<>>
    /\ LET r == Head(pending)
           f == [table |-> r.table, entry |-> r.entry, target |-> r.target,
                 value |-> Wrap(address + r.addend), import |-> TRUE,
                 ok |-> LinksDirectly(r.type, r.target, address + r.addend)]
       IN  \/ address = 0 /\ Fail("no such export")
           \/ address # 0 /\ ~ f.ok /\ Fail("import not linked")
           \/ /\ address # 0 /\ f.ok
              /\ fixups' = fixups \cup {f}
              /\ dirty' = dirty \cup {lib[r.table].info}
              /\ pending' = Tail(pending)
              /\ UNCHANGED <<lib, pc, library, size, codeSize, base, origin, placed, cursor, result>>

BindDone == pc = "bind" /\ pending = <<>> /\ Enter("exports")

(* resolve_exports, with the offsets the constructor of ExportData computes *)
Exports == UNION {{lib[s].entries[i] : i \in DOMAIN lib[s].entries} :
                    s \in {t \in Sections : lib[t].kind = "exports"}}

BugFunctionOffset(v) == IF TEXT <= v /\ v < IMPORTS THEN v - DATA ELSE v
FunctionOffset(v) == IF TEXT < v /\ v < DATA THEN v - TEXT
                     ELSE IF InData(v) THEN v - DATA ELSE v

ResolveExports ==
    /\ pc = "exports"
    /\ exports' = [v \in Exports |-> library + FunctionOffset(v)]
    /\ pc' = "flush"
    /\ UNCHANGED <<lib, error, library, size, codeSize, base, origin, placed, cursor, fixups,
                   pending, dirty>>

(* The end of load(): the caches are flushed over the whole block, and the  *)
(* bss is cleared, relocated or not.                                        *)
Dest(s) == origin[s] + lib[s].addr
InBlock(s) == library <= Dest(s) /\ Dest(s) + lib[s].size <= library + codeSize

BugFlushCaches ==
    /\ pc = "flush"
    /\ pc' = "clear"
    /\ UNCHANGED <<lib, library, size, codeSize, base, origin, placed, cursor, fixups,
                   pending, dirty, result>>

FlushCaches ==
    /\ pc = "flush"
    /\ dirty' = {s \in dirty : ~ InBlock(s)}
    /\ pc' = "clear"
    /\ UNCHANGED <<lib, library, size, codeSize, base, origin, placed, cursor, fixups,
                   pending, result>>

Bss == {s \in placed : lib[s].kind = "nobits"}

ClearBss ==
    /\ pc = "clear"
    /\ fixups' = {f \in fixups : lib[f.table].info \notin Bss}
    /\ dirty' = dirty \cup Bss
    /\ pc' = "loaded"
    /\ UNCHANGED <<lib, library, size, codeSize, base, origin, placed, cursor, pending, result>>

Next ==
    \/ ParseSection
    \/ ParseDone
    \/ AllocateMemory
    \/ InitSection
    \/ InitDone
    \/ ReadNullTable
    \/ LinkEntry
    \/ LinkNext
    \/ LinkDone
    \/ AddRelocation
    \/ ImportNext
    \/ ImportsDone
    \/ \E address \in Imported \cup {0} : BindImport(address)
    \/ BindDone
    \/ ResolveExports
    \/ FlushCaches
    \/ ClearBss

Spec == Init /\ [][Next]_vars /\ WF_vars(Next)

-----------------------------------------------------------------------------
TypeOK ==
    /\ lib \in Libraries
    /\ pc \in {"parse", "allocate", "init", "link", "imports", "bind", "exports",
               "flush", "clear", "loaded", "failed", "crashed"}
    /\ library \in Blocks \cup {NULL}
    /\ size \in Nat /\ codeSize \in Nat /\ codeSize % PAGE = 0
    /\ base \in Nat
    /\ origin \in [Sections -> Int]
    /\ placed \subseteq Code /\ dirty \subseteq Sections
    /\ sec \in 1..(Len(lib) + 1) /\ tab \in 1..(Len(lib) + 1) /\ ent \in Nat \ {0}

Initialised == pc \in {"link", "imports", "bind", "exports", "flush", "clear", "loaded"}
LinkedAll   == pc \in {"imports", "bind", "exports", "flush", "clear", "loaded"}

(* The layouts load() was written for: a text section is the only one, and  *)
(* comes before all data.                                                   *)
TextFirst == \A s, t \in Code :
    InText(lib[t].addr) /\ lib[t].size > 0 /\ s # t =>
        ~ InText(lib[s].addr) /\ (InData(lib[s].addr) => t < s)

(* The sections of a file do not overlap, and none crosses the border of    *)
(* two parts of the address space.                                          *)
Disjoint(a, m, b, n) == a + m <= b \/ b + n <= a
Parted ==
    /\ \A s, t \in Code : s # t => Disjoint(lib[s].addr, lib[s].size, lib[t].addr, lib[t].size)
    /\ \A s \in Code : \A border \in {TEXT, DATA, IMPORTS} :
          lib[s].addr < border => lib[s].addr + lib[s].size <= border

(* As a linker leaves them: one text section, at TEXT, and the data after   *)
(* it in the order of its addresses, with any gaps.                         *)
Ordered ==
    /\ TextFirst /\ Parted
    /\ \A s \in Code : TEXT <= lib[s].addr /\ lib[s].addr < IMPORTS
    /\ \A s \in Code : InText(lib[s].addr) => lib[s].addr = TEXT
    /\ \A s, t \in Code : InData(lib[s].addr) /\ InData(lib[t].addr) /\ s < t =>
            lib[s].addr + lib[s].size <= lib[t].addr

(* With no gap wider than a byte: a data section starts at DATA, or that    *)
(* far behind one before it.                                                *)
Follows(s, t) ==
    t < s /\ InData(lib[t].addr) /\ lib[s].addr <= lib[t].addr + lib[t].size + 1

Tight ==
    /\ Ordered
    /\ \A s \in Code : InData(lib[s].addr) => lib[s].addr = DATA \/ \E t \in Code : Follows(s, t)

(* Where the loader put the byte the library has at address a *)
Holds(s, a) == lib[s].addr <= a /\ a < lib[s].addr + lib[s].size
Image(a) == LET s == CHOOSE t \in placed : Holds(t, a) IN Dest(s) + (a - lib[s].addr)
HasImage(a) == \E s \in placed : Holds(s, a)

(* Symbols are rebased in link_section to where init_sections put their     *)
(* sections (Loader.cpp:129-137 against 205-210), in every library whose    *)
(* text comes first.                                                        *)
RebaseMeetsPlacement == Initialised /\ TextFirst =>
    \A s \in placed : lib[s].addr >= TEXT => Rebase(lib[s].addr) = Dest(s)

(* No copy overwrites another, however wide the gaps; the text is in the    *)
(* block, and without wide gaps everything is (code_size, Loader.cpp:78 and *)
(* 95, against the placement, 127-137).                                     *)
SectionsApart == Initialised =>
    /\ Ordered =>
          /\ \A s, t \in placed : s # t => Disjoint(Dest(s), lib[s].size, Dest(t), lib[t].size)
          /\ \A s \in placed : InText(lib[s].addr) => InBlock(s)
    /\ Tight => \A s \in placed : InBlock(s)

(* The same for every gap: the block whose size the handle keeps            *)
(* (Loader.cpp:66), and which load flushes as the library (29), holds all   *)
(* of it.                                                                   *)
CopiesInBlock == Initialised /\ Ordered => \A s \in placed : InBlock(s)

(* The entries link_section has to see: local symbols, in the readable part *)
(* of the tables of code sections that are not cleared afterwards           *)
Readable(t) == {i \in DOMAIN lib[t].entries : \A k \in 1..i : lib[t].entries[k].ok}
LocalEntries == UNION {
    {<<t, i>> : i \in {k \in Readable(t) : ~ InImports(lib[t].entries[k].symbol)}} :
        t \in {u \in Tables : lib[u].info \in Code /\ lib[lib[u].info].kind = "progbits"}}

(* Every relocation against the library itself was carried out or counted   *)
(* as a failure, and no other was, at the copy of its place and with the    *)
(* address of the copy of its symbol (link_section's three nested loops).   *)
LocalsLinked == LinkedAll =>
    LET Done == {f \in fixups : ~ f.import /\ lib[lib[f.table].info].kind = "progbits"}
    IN  /\ {<<f.table, f.entry>> : f \in Done} = LocalEntries
        /\ TextFirst /\ Parted => \A f \in Done :
              LET s == lib[f.table].info
                  e == lib[f.table].entries[f.entry]
              IN  /\ s \in placed /\ Holds(s, e.offset) => f.target = Image(e.offset)
                  /\ e.symbol # 0 /\ HasImage(e.symbol) =>
                        f.value = Wrap(Image(e.symbol) + e.addend)

(* When load() succeeds, the instruction cache agrees with the memory: the  *)
(* text was not written after its last flush, however wide the gaps of the  *)
(* data, and without wide gaps nothing was but the bss (Loader.cpp:29-43,   *)
(* 165-166).                                                                *)
CodeCoherent == pc = "loaded" =>
    \A s \in {t \in dirty \cap placed : lib[t].kind # "nobits"} :
        ~ Tight /\ (Ordered => ~ InText(lib[s].addr))

(* dlsym's address of an exported function is where the function was copied *)
(* (the offsets of ExportData.h:12 against the placement).                  *)
CodeExportsMeetSections == pc = "loaded" /\ TextFirst /\ Parted =>
    \A v \in Exports : TEXT < v /\ v < DATA /\ HasImage(v) => exports[v] = Image(v)

(* The same of every export, as a client of dlsym expects (main.cpp:54-69   *)
(* reads and calls what it was given).                                      *)
ExportsMeetSections == pc = "loaded" =>
    \A v \in Exports : HasImage(v) => exports[v] = Image(v)

(* link_section skips the imports (Loader.cpp:212) because they are bound   *)
(* later: a library that loads has every import bound.                      *)
ImportsBound == pc = "loaded" => \A t \in Tables : \A i \in Readable(t) :
    InImports(lib[t].entries[i].symbol) =>
        \E f \in fixups : f.import /\ f.table = t /\ f.entry = i

(* load() returns, unless it reads through a null pointer. *)
LoadEnds == <>(pc \in {"loaded", "failed", "crashed"})

(* load() keeps its promise to dlopen. *)
ImplementsContract == Contract!Spec
=============================================================================
