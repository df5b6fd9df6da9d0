# A TLA+ verification of rpl_hello_world

`rpl_hello_world` is a Wii U homebrew program that opens a dynamic library
(`my_first_rpl.rpl`) at run time, looks an exported function up in it, calls it
and closes it again.  The interesting part is not the program but the loader it
carries: `dlopen`, `dlsym`, `dlerror` and `dlclose` written over a private copy
of the ELFIO reader, a zlib adapter for the compressed sections of an RPL, a
loader that copies the sections into memory and relocates them, and a linker for
single PowerPC relocations.  This directory holds TLA+ modules that model those
parts, TLC configurations that check them on small instances, and proofs.

## 1. The system and its parts

| Part | Source | State it keeps | Operations |
|---|---|---|---|
| Program | `source/main.cpp` | nothing of its own | `main`, `test_dlopen` |
| Logging | `source/logger.c`, `logger.h` | which log back ends were opened | `initLogging`, `deinitLogging` |
| dlfcn interface | `source/dlfcn.cpp`, `library/Loader.h` (`dl_handle`), `library/SymbolResolver.*` | the last error and its flag; per handle the library's memory, entry point and exports | `dlopen`, `dlsym`, `dlerror`, `dlclose`, the constructor and destructor of `dl_handle` |
| Loader | `library/Loader.cpp`, `ExportData.h`, `ImportRPLInformation.h`, `LibraryData.h`, `RelocationData.h` | cursors over sections, text and data offset, where each section went, the pending import relocations, the exports | `LibraryLoader::load` and the eight functions it calls |
| Linker | `library/ElfUtils.cpp` | the trampoline slots of its caller | `elfLinkOne` |
| zlib adapter | `source/wiiu_zlib.hpp` | none | `inflate`, `deflate` |
| ELF reader and writer | `elfio/elfio.hpp`, `elfio_header.hpp`, `elfio_section.hpp`, `elfio_segment.hpp` | header, sections with their buffers, segments, the layout's position | `create`, `load`, `save`, `validate`, adding sections and segments, `set_data`, `append_data` |
| ELF accessors | `elfio_strings.hpp`, `elfio_symbols.hpp`, `elfio_relocation.hpp`, `elfio_dynamic.hpp`, `elfio_note.hpp`, `elfio_versym.hpp`, `elfio_modinfo.hpp`, `elfio_array.hpp` | what they have counted or found when they were opened; the rest is in the sections | reading, finding and adding entries, `arrange_local_symbols` |

All paths below are relative to `source/` of the repository.

**How they interact.** Everything is a chain of calls in one thread. `dlopen`
allocates a `dl_handle`, has `elfio::load` read the file (which calls
`wiiu_zlib::inflate` for each compressed section), gives handle and reader to a
`LibraryLoader`, and returns or deletes the handle. The loader reads sections,
relocations and symbols through the accessors of the ELF reader, calls
`elfLinkOne` for every relocation, asks the system for memory
(`MEMAllocFromMappedMemoryEx`) and for the addresses of imports
(`OSDynLoad_Acquire`, `OSDynLoad_FindExport`), and leaves memory and exports in
the handle, which `dlsym` reads and the destructor frees. The other half of
ELFIO, which builds and writes ELF files, is carried along and not called by the
program: an `elfio` object owns the sections, accessors read and change them in
place and append to their buffers, several accessors may be open on one section,
and `save` gives sections and segments their places and writes them.

**What is hard about it.** Not concurrency, of which there is none, but

* *failure in the middle*: each of the steps above may fail after earlier ones
  took memory, wrote into it or consumed part of a stream;
* *agreement between functions that compute the same thing*: where a section is
  copied, where its relocations are applied and where its symbols are taken to
  be are computed in three places from two moving bases; the size of the block
  is computed in a fourth, the addresses of exports in a fifth;
* *stale and unset values*: fields a constructor leaves alone, an array filled
  for some sections only, a result read as something else than it is, a size
  that changes while it is being used;
* *order*: code linked after it was flushed, memory cleared after it was linked,
  messages overwritten while a client holds them, slots reused within a launch;
* *arithmetic at the edges*: signed distances between unsigned addresses, high
  halves rounded up for a negative low half, masks, comparisons off by one,
  distances between offsets that wrap, padding computed in two ways;
* *long sequences of legal calls*: tables that share a string table, a hash table
  that is as old as the file, relocations that follow symbols from exchange to
  exchange, segments inside segments, an object saved again after a save.

`PROJECT.json` lists these hazards, each at its line, with the properties that
watch it.

**What makes each part correct.**

* *dlfcn*: every block of memory belongs to exactly one handle that exists and
  is loaded into it, and is returned once; nothing else is freed or called; a
  message is handed out once and not lost; seen from outside every call is atomic.
* *Loader*: the copies lie in the block, apart from each other; relocations,
  symbols and exports meet the copies; every readable relocation is carried out
  or counted; no relocated code stays unflushed; the contract with
  `dlopen` holds on every path.
* *Linker*: a linked branch lands where it was linked to, now and after any
  other relocation; the halves of an address make up the address; a slot serves
  the branch it was given to, and for good if that is the module's own.
* *ELF reader*: what a section has is whole, plain and as long as its size says;
  an intact file loads; a failed read is not papered over by later ones.
* *ELF writer*: what is saved is whole and nothing lies over anything else; a
  segment covers its sections, at the same distance in the file and in memory,
  and can be mapped; `validate` agrees with `save`; saving twice makes no
  difference.
* *ELF accessors*: buffers hold what they are said to hold; names, symbols and
  relocations keep their meaning while tables grow and symbols move; what was
  added is read back, and no accessor counts what is not there.

## 2. The modules

| Module | What it is | Lines of code it stands for |
|---|---|---|
| `DlfcnApi` | abstract: the calls of the dlfcn interface as atomic steps | `dlfcn.h`, as `dlfcn.cpp` fulfils it |
| `Dlfcn` | the same calls in their steps, over handles, blocks and the heap | `dlfcn.cpp`, `library/Loader.h`, `library/SymbolResolver.cpp` |
| `DlfcnProofs` | proofs about `Dlfcn` | |
| `ElfLink` | the arithmetic of one relocation, as operators | `library/ElfUtils.cpp:25-98`, `ElfUtils.h` |
| `ElfLinkProofs` | lemmas about that arithmetic, for the proofs of both modules that use it | |
| `Trampolines` | `elfLinkOne` over launches, with trampoline slots; extends `ElfLink` | `library/ElfUtils.cpp:25-167` |
| `TrampolinesProofs` | proofs about `Trampolines` | |
| `LoadContract` | abstract: what `load()` promises `dlopen` | `library/Loader.cpp`, seen from `dlfcn.cpp` |
| `Loader` | `LibraryLoader::load`, one action per loop iteration or call; extends `ElfLink` | `library/Loader.cpp`, `ExportData.h`, `elfio/elfio_relocation.hpp` |
| `LoaderProofs` | proofs about `Loader` | |
| `ElfReader` | `elfio::load` with sections, names, segments and `inflate` | `elfio/elfio.hpp`, `elfio_section.hpp`, `elfio_segment.hpp`, `elfio_strings.hpp`, `wiiu_zlib.hpp` |
| `ElfReaderProofs` | proofs about `ElfReader` | |
| `ElfData` | the sections of an object with their buffers; `append_data`, `set_data` | `elfio/elfio_section.hpp` |
| `ElfTables` | names, symbols with hash tables, relocations, and the lists; extends `ElfData` | `elfio_strings.hpp`, `elfio_symbols.hpp`, `elfio_relocation.hpp`, `elfio_dynamic.hpp`, `elfio_note.hpp`, `elfio_versym.hpp`, `elfio_modinfo.hpp`, `elfio_array.hpp` |
| `ElfWriter` | `elfio::save` and `validate`, segments; extends `ElfData` | `elfio/elfio.hpp`, `elfio_section.hpp`, `elfio_segment.hpp`, `elfio_header.hpp`, `wiiu_zlib.hpp` |
| `ElfObject` | an object and its client: composes `ElfTables` and `ElfWriter` | `elfio/elfio.hpp` |
| `ElfObjectProofs` | proofs about `ElfObject` | |
| `ElfWriterProofs` | proofs about `ElfWriter`: each step of `save`; extends `ElfObjectProofs` | |
| `ElfTablesProofs` | proofs about `ElfTables` and `ElfWriter`, as `ElfObject` runs them; extends `ElfWriterProofs` | |
| `MCDlfcn`, `MCTrampolines`, `MCLoader`, `MCElfReader`, `MCElfObject` | values of the constants for TLC | |

The modules meet where the code does. `Dlfcn` implements `DlfcnApi` and has the
loader as an outcome: refused before it has memory, failed or succeeded after.
`Loader` implements `LoadContract`, which states exactly that freedom for every
library. `Loader` and `Trampolines` share `ElfLink`: the loader calls
`elfLinkOne` without trampolines, `Trampolines` has the whole function with its
caller. `ElfReader` ends in the sections `Loader` begins with: a section whose
`data` has no room there is one without `hasData` here. `ElfTables` and
`ElfWriter` work on the same `sections`, which `ElfData` declares, and `ElfObject`
interleaves them as one client does. A section lost by the reader is one with a
size and without room here.

Operators whose names begin with `Bug` are not part of any specification. Each
is a mutated form of the definition after it, and shows that the property it is
paired with in `PROJECT.json` would notice.

### 2.1 Dlfcn

State: the handles that exist (`live`), the three fields of each, the handle each
block was handed out for (`owner`), the two static variables behind `dlerror`, and
`wild`, which turns true when the destructor frees what was not handed out for its
handle, or calls an entry point, which no code sets. After that nothing is known of
the program, and the model ends. `DlopenNew`,
`DlopenRead`/`DlopenRejected`, `LoadAllocated`/`LoadRefused`,
`LoadFailed`/`LoadSucceeded` are `dlopen` from top to bottom; a failure goes
through `DlopenFails`, which is message, `delete handle` and `return nullptr`,
with the destructor in `Destroy`. The constructor sets neither `library` nor
`entrypoint`; what a new handle finds there comes from `HeapFill`, which in the runs
is null or a pointer to a block, as an earlier handle leaves it. `LoadSucceeded`
takes any `Addresses` for the exports, in the block or not: where they lie is a
question to `Loader`, which answers it with two of the findings. A client uses a
handle only until it closes it, or passes NULL.

### 2.2 ElfLink and Trampolines

The word, the half word and the reach of branches are parameters with the
relations the real ones have (`WidthAssumption`). `Trampolines` keeps per place
the bits stored there and the address the last successful link was for, per slot
its status and destination. `LinkOne` is one call of `elfLinkOne`; `Launch`
begins the next launch of the caller, in which every place is linked again, for
other symbols perhaps. The order of the far-branch branch is the code's: search,
reach of the slot, fill the slot, and only then the test of the new distance. The
addend counts twice there, in what the slot jumps to and in the distance to the
slot. `FixedBranchesLand` therefore says of a branch that it enters its slot as far
behind the first instruction as its addend is: it ends where it should only if that
is none.
The two tests of one condition the code makes in a row (distance and alignment,
then the field) are one operator where nothing happens between them.

### 2.3 Loader

`lib` is the library as the reader presents it: sections with kind, address,
size, `sh_info`, whether they have data, and entries (relocations or exports).
`pc` names the function `load()` is in; `sec`, `tab`, `ent` are the loop
variables of `link_sections`, `link_section` and `add_relocation_data`.
`ParseSection` is one round of the loop of `parse_library_metadata`, which adds up
`size`, and `ParseDone` its last line, `code_size`. `origin`
is `destinations[]` and begins as garbage, as the array does. `base` is the
member that `init_sections` moves as text sections are placed. `fixups` is the
set of relocations carried out or refused, with place and value: this is what
the memory contains, as far as the properties ask. `dirty` are the sections
written since their last flush. `TextFirst` (the only text section comes before
the data), `Parted` (the sections of a file do not overlap, nor cross a border of
the address space), `Ordered` (both, with the text at its base and the data
ascending, with any padding between the sections) and `Tight` (ordered, and no gap
is wider than a byte) name kinds of libraries by where their sections lie in the
file; the properties say which they need. A linker produces ordered ones; tight
ones are those for which `code_size` is enough whatever their sizes are, since it
counts one byte more for each section. `CopiesInBlock` asks the same of all
ordered ones and is violated. `CalcValue` is the seventh result of
`get_entry`, which `load` takes for a section index and which is not one.
`Crash` is a read through a null `get_data()`; a crash ends the model.

### 2.4 ElfReader

A file is the words of its headers, what lies where the sections point to, and a
length, which cuts it. One action reads one section or segment. The stream's
failbit (`good`) is not cleared anywhere in `load()`, so after a short read every
`seekg` fails, `tellg` answers -1, and headers come out as zeros. Every
allocation with `std::nothrow` may fail (`starved` remembers that one did).
`inflate` is its outcome: no room for the prefix, no memory for `inflateInit_`, a
broken stream, more bytes than the prefix promises, or the promised size; its
`new`, of the size the file states, may also throw, which nobody catches
(`InflateThrows`).

### 2.5 ElfData, ElfTables, ElfWriter and ElfObject

`sections` is the vector of sections, from 1 on; a section is what its header
says, `cap` (`data_size`), `room` (what was allocated, 0 for a null pointer),
`stream` (`stream_size`) and `entries`. The last is the content, entry by entry:
strings with their offsets, symbols with the offset of their name and with the
name they were given, relocations with the index they have and the symbol they
were made for, attributes of `modinfo` with place and length. What an entry is
meant to be stands beside what the bytes say, and the properties compare the two.
`HashLookup` and `GnuLookup` walk a chain of a hash table for as many steps as it
has entries; the code has no such limit, so `Answers` tells whether it has come to
an end by then. If it has not, the lookup never returns (a SysV chain that goes
round) or reads behind the table (a GNU chain without an end), and the properties
say nothing of it.

An append gives one of several results, `Stored`, `Moved` to a larger buffer, or
`Denied` by `new (std::nothrow)`; operators that may fail therefore return sets.
Reading through a null pointer, or writing where there is no room, ends in
`Crash`. `ArrangeStep` is a round of the outer loop of
`generic_arrange_local_symbols`, with the exchange in the symbols and in every
linked relocation table. `views` are open accessors and the entries they have
seen; adding through one is seen by it and not by another.

`save` is one action per round of each of its loops: `OrderStep` takes a segment
from the work list, `BeginSegment`, `PlaceMember` and `EndSegment` are
`layout_segments_and_their_sections` with `write_segment_data`, `LooseSection`
and `PlaceTable` the rest of the layout, `SaveHeader`, `SaveSection` and
`SaveSegments` the writing, in which the stream may fail at any point. Offsets
and addresses are words that wrap, 2^64 of them in the code. (The header of an
Elf32 file keeps 32 bits of each; that matters to files of 4 GiB only, and is left
out.) `regular` and `last` are history variables:
whether the object was `Regular` when its save began and nothing has wrapped
since, and the layout an earlier save gave it.

`Regular` names the objects `save` has to lay out well; each of its conditions is
there because the code does not do well without it:

* segments are disjoint or nested (`Apart`), and list their sections in ascending
  order: a segment that shares a part of its sections with an earlier one gets a
  size that wraps, and `std::includes` expects sorted lists;
* in a segment, the sections that take memory come before those that do not, which
  count for its file size only; and none is of type `SHT_NULL`, or without bytes
  both in the file and in memory: it counts for neither, and is not found again;
* without addresses only the last section of a segment may be without bytes
  (`.bss`): such sections take memory and leave the position as it is, so the
  next one gets an address inside them. With addresses there is no gap before
  one without bytes, because the code leaves none in the file;
* addresses ascend from the segment's: a smaller one is a distance of nearly a
  word, and an overlap makes `save` give up;
* a nested segment starts with a section, and its alignment divides the outer
  one's: only the segment laid out first is aligned. Its first section is not
  behind one without bytes, unless it has some (`Straight`), for behind such a
  section file and memory drift apart. Alignments are powers of two, as the number
  of words is: the code aligns with unsigned words that wrap;
* one segment at most with sections is loaded from offset 0; it keeps its first
  section behind the headers, and none without an offset comes before it:
  `get_ordered_segments` takes the latter for one at offset 0 and leaves it in
  front. With a second one the two would both hold the headers.

## 3. What the runs check

| Run | Question | Result |
|---|---|---|
| `dlfcn` | do all orders of calls and failures, over two handles and two blocks with stale fields in new handles, keep memory and messages, free nothing that is not the handle's unless a field was never set, and implement the atomic interface until then? | holds |
| `dlfcn_used_heap` | is a new handle unallocated when its fields hold heap contents, as they do? | violated |
| `trampolines` | do the branches of a module reach their symbol or their slot, are addresses rebuilt, do slots serve a branch and stay with it, over all orders of linking and launches? | holds |
| `tramp_imports` | do branches to imports land until the next launch? | violated |
| `tramp_mask` | does relocating a 14-bit branch keep to its mask? | violated |
| `loader` | does `load()` place, link, flush, export and answer as it should, for every order of up to three of six sections and twelve odd layouts? | holds |
| `loader_imports` | is every import bound when `load()` succeeds? | violated |
| `loader_exports` | are all exports, of functions and of data, where their sections were copied? | violated |
| `loader_padding` | does the block hold all copies of a library with padding? | violated |
| `elf_reader` | are sections whole, plain and as long as they say, intact files loaded, failed reads final, in files cut anywhere? | holds |
| `elf_reader_missing` | has a file that loads all of its sections? | violated |
| `elf_object` | are objects laid out, saved and saved again as they should be, and do tables, symbols and relocations keep their meaning under a client's changes? | holds |

### 3.1 What the violated properties say of the code

1. `library/Loader.h:22`: the constructor of `dl_handle_t` initialises neither
   `library` nor `entrypoint`. A handle on used heap is refused as "already
   allocated", and its destructor frees and calls what was there.
2. `library/ElfUtils.cpp:136`: the slot of an import is marked
   `RELOC_TRAMP_IMPORT_DONE` at once, not after the launch as the comment at
   103-105 says, so a second import takes it in the same launch.
3. `library/ElfUtils.cpp:85`: the mask for 14-bit branches clears 0x00400000, a
   bit of the branch's condition, which `PPC_LOW14` does not contain.
4. `library/Loader.cpp:78`: the size of the block counts one byte more than each
   section has, but not the padding between sections, which the copies keep; with
   ordinary alignment the last copies end behind the block.
5. `library/Loader.cpp:259`: imports are looked up by a value that is not their
   section; an ordinary import is never bound, and `load()` succeeds.
6. `library/ExportData.h:12`: `>` where the loader has `>=`; a function at the
   very start of the text is exported with its base added.
7. `library/Loader.cpp:302`: the export of a variable, an offset in the data, is
   added to the address of the text.
8. `elfio/elfio.hpp:491`: the result of `section::load` is dropped; a library
   that is cut short or does not decompress is "loaded successfully" with
   sections that have no data, which the loader then reads.

Two more are in the models as the code has them, without a run of their own. At
`library/ElfUtils.cpp:139` the addend, which the slot's target has in it already, is
added to the address of the slot as well (2.2). At `library/Loader.cpp:219` the
value of finding 5 is tested for a reserved section index, so that an address whose
low half is large fails the whole library (`Reserved` in `LinkEntry`).

### 3.2 Bounds, and why they are enough

* `dlfcn`: two handles, two blocks, two names that resolve to one of two addresses
  or to none, and new handles whose fields are null or point to a block. A leak, a
  double free or a shared block involves two handles and one block; a second block
  makes reuse after a close possible. The state is finite without any bound on the number of calls.
* `trampolines`: words of 8 bits in halves of 4, a 24-bit branch reaching 28
  bytes, a 14-bit branch 12. The relations between those numbers are those of
  the real ones; one of the four branches has an addend, and the chosen symbols are
  in reach, at both ends of it, one step beyond, misaligned, far, and across the end
  of the address space. Three slots: out of reach, in reach, behind the branch.
  Launches are unbounded.
* `loader`: text from 32, data from 64, imports from 192, a page of 8, blocks at
  96 and 160, `handle->library` null or not. Every order of up to three of six
  sections (two text sections, three data sections of which one leaves a gap,
  one bss) with a relocation table each, and twelve layouts with what those
  lack: imports that bind and that do not, exports, sections without data,
  addresses below text or above imports, tables without data. The gaps between the
  data sections are of a byte, which is tight, and of more, which is not. The runs
  that are violated have one to three libraries each, with what they ask about.
* `elf_reader`: a null section, two of nine kinds of section, a string table,
  up to two segments; files that end inside the ELF header, inside a section
  header before and after its size, inside a section's contents, inside the
  string table, inside the segment headers, or nowhere. Sections that lie in
  front of and behind the failing one are both there. Lengths are in bytes and
  header sizes are those of ELF32.

* `elf_object`: words of 4096 values, ELF32 structure sizes. For the layout, all
  pairs of six kinds of section (aligned to 4 and to 8, empty, `.bss`, `.tbss`,
  not allocated) behind a text section, without addresses or with gaps of 0, 2
  and 5 bytes, under ten arrangements of segments (none, one, apart, nested once
  and twice, overlapping, program headers, one at offset 0 before or after
  another one, congruent to their alignment or not); every object is saved twice.
  One more object has a segment that lies across the end of the words, where
  distances wrap.
  Two segments suffice for an order that matters, three for one that is waited
  for twice. For the tables, clients make two to four changes in any order to
  objects with symbols (with both kinds of hash table, relocations, compressed,
  lost, empty, under an address translation), to each kind of list with two
  accessors, and to objects built from nothing: a fault in a table needs an
  addition, something that moves or shares it, and a use. Among the hash tables
  are one whose chain goes round, one whose chain does not end, and one without
  data.

`CHECK_DEADLOCK FALSE` is set for `Loader` and `ElfReader`, whose single call
returns and leaves nothing to do, for `ElfObject`, whose client has made all
its changes in the end or whose program has crashed, and for `Dlfcn`, which ends
when the destructor has freed or called what is not its handle's. `Trampolines`
never stops.

### 3.3 Fairness

The code is sequential: once called, a function keeps executing. `Loader` is one
call and has `WF_vars(Next)`. In `ElfObject` the steps of `arrange_local_symbols`
and of `save` are weakly fair, the client's calls are not. The others state no
liveness and have no fairness: the loops of `ElfReader` count, and `dlopen` and
`elfLinkOne` have none. Calls into the system return.

## 4. What is proved

The proofs hold for all constants that satisfy the named assumptions. Every safety
property of the runs is proved but one (`SaveAgainSame`), and both refinements.

| Theorem | Says | Argument |
|---|---|---|
| `DlfcnProofs!TypeCorrect` | `[]TypeOK`, whatever the heap holds | `TypeOK` with "in `link`, the current handle has a block" is inductive |
| `DlfcnProofs!MemoryIsAccounted` | `[]MemoryAccounted`, whatever the heap holds | `Ownership`, which is the property with the types and the empty fields of handles that do not exist; `DeleteAccounted` shows that a destructor returns the block of its handle and no other, or goes wild |
| `DlfcnProofs!WildIsStale` | `WildOnlyByStale`, whatever the heap holds | a loaded handle owns the block in its `library` (`Ownership`), so its destructor is at fault only through the entry point (`DeleteWild`) |
| `DlfcnProofs!MessagesStay` | `MessageStable`, whatever the heap holds | every failure goes through `FailsTells`; every other step but `dlerror` leaves the message alone |
| `DlfcnProofs!CallsAreAtomic` | `Dlfcn` implements `DlfcnApi`, up to and with the call that goes wild, whatever the heap holds and wherever exports resolve | `Ownership` again: each last step of a call is the call of the interface, each other one a stutter (`QuietStep`) |
| `TrampolinesProofs!SlotsAreServing` | `SlotsServeBranches`, for every list of relocations, buffer and word size | every call fills at most one slot, and none that is FIXED; a slot within reach of an aligned place passes the test of the distance as well (`ReachedFits`), so the branch is linked to it (`FillServes`) |
| `TrampolinesProofs!LinksAreTyped`, `OwnBranchesLand`, `AddressesMeet` | `[]TypeOK`, `[]FixedBranchesLand`, `[]AddressesRebuilt`, for every word size | `LinkInv`: a half holds what its type takes of the address it was linked for, and a branch of the module's own leads to its symbol or, its addend away, to a FIXED slot that jumps there. Such slots are not filled again, so no later link disturbs it. `BranchArrives` and `HalvesAdd` (`ElfLinkProofs`) are the arithmetic |
| `LoaderProofs!LoadIsTyped` | `[]TypeOK` | with `pending` a sequence of requests that tables of the library make |
| `LoaderProofs!SymbolsMeetSections` | `[]RebaseMeetsPlacement` for every library, address map and block | `PlacementInv`: the text base is still the block as long as only empty text was seen, text sections seen have origin `library - TEXT`, data sections `base - DATA`, and with the text first the base no longer moves |
| `LoaderProofs!CopiesStayApart` | `[]SectionsApart`, for ordered libraries with any padding; in the block for tight ones | Apart: with `PlacementInv` the text is copied to the start of the block and each data section behind it as far as it is from `DATA` (`OrderedSection`, `OrderedApart`). In the block: `SizeInv` (every section that was counted is covered by `size`), `TightInv` (what was counted up to a data section covers the text and the data up to its end, as each section counts a byte for the gap behind it) and `RoomInv` (the sum keeps within the address map, so `code_size` does not wrap) give `BlockCovers` |
| `LoaderProofs!CodeStaysCoherent`, `CodeExportsMeet` | `[]CodeCoherent`, `[]CodeExportsMeetSections` | the text of an ordered library and all of a tight one is in the block, and all that is in the block is flushed after the last link (`CacheInv`); an address in a section's reach has one copy, where `Rebase` has it (`ImageOf`) |
| `LoaderProofs!LocalsAreLinked` | `[]LocalsLinked`: nested loops over tables and entries reach all local relocations, with place and value of the copies | `LinkInv`: every relocation carried out comes from an entry (`FromEntry`), and every one that the three cursors have passed was carried out |
| `LoaderProofs!LoadKeepsContract` | `Loader` implements `LoadContract` | `BlockInv`: past `allocate` there is a block; each action is then a step of the contract or a stutter |
| `ElfReaderProofs!LoadIsTyped`, `BuffersFit`, `ContentsWhole` | `[]TypeOK`, `[]BuffersHoldSizes` and `[]NeverPartial` for every file | each section is appended once and sound (`Sound`) when appended; `KeepPreserves` is the one step that matters, and all ways through a section's load are instances of it |
| `ElfReaderProofs!FailureBlanksTheRest` | `[]NothingAfterFailure` | `StreamInv`: without a good stream there are no segments, and behind a section that is cut short the stream is not good and all are blank |
| `ElfReaderProofs!IntactFilesAreLoaded` | `[]IntactFilesLoad` | `IntactInv`: as long as memory lasts the stream of an intact file is good, and what was read has its contents |
| `ElfObjectProofs!BuffersHold` | `[]DataFits` for every object, client and failing allocation; of a section from its failed append on (`starved`) nothing is claimed | `Sound`: the sections are a sequence, and each has the fields of its buffer, with a sound one unless it has no bytes in the file. It is a list over its own elements, as entries are of any kind; `AppendedKeeps` and `ReplacedKeeps` are the steps that matter, and what tables, arrangement and layout do besides leaves the buffers alone (`ChangesKeep`) |
| `ElfTablesProofs!ObjectIsTyped`, `PartsComeLater` | `[]TypeOK`, `[]SegmentsOrdered`, for any segments in any order | `Typed` and `OrdInv`: the work list and the order hold each segment once, and none in the order is part of one behind it, there or in the work list. `IncludesIs` shows what `std::includes` finds in sorted lists |
| `ElfTablesProofs!SegmentsCoverSections`, `SegmentsAreMappable`, `FileStaysIntact`, `SavedIsValid`, `RegularIsSaved` | `[]SegmentsHoldSections`, `[]SegmentsCongruent`, `[]FileIntact`, `[]SavedValidates`, `RegularSaves`, for objects of any size and segments nested to any depth | `Laying`, see below |
| `ElfTablesProofs!NamesAreKept`, `SymbolsAreFound`, `RelocationsFollow`, `AccessorsAgree`, `LocalsComeFirst` | `[]NamesKept`, `[]SymbolsFound`, `[]RelocationsKeepSymbols`, `[]ListsAgree`, `ArrangedLocalsFirst` | `TablesInv`, see below |

**The invariant of the tables.** None of the five properties is inductive. A name
is kept only if strings lie apart and in order; a symbol is found only if its table
has as many bytes as its symbols take, or `get_symbols_num` would count fewer, and
whenever the lookup comes to an end (`Answers`) its answer has the name; an
accessor counts the attributes of `modinfo` only if they lie one behind the other; a
relocation keeps its symbol only if the table it is linked to is a symbol table,
and stays the same one. `Consistent` (in `ElfObject`) says all of this of an
object: each table has the size of its entries (`Measured`), unless an append to
it failed or its contents were not read; links lead from symbols and dynamic entries to strings, and
from relocations to symbols (`Linkage`, `Naming`); and every entry means what it
was given to mean (`Means`, `SectionNames`). `TablesInv` adds that the symbols
`arrange_local_symbols` has passed are local and that open accessors have seen
nothing their section does not have. The proof has one lemma for each way a table
changes: an entry more (`Later`: those before it stay where they are), and two
symbols exchanged, with all the relocation tables that are linked to theirs.

**The invariant of the layout.** That segments hold their sections, that nothing
lies over anything else and that `save` does not give up are one argument.
`LayInv` says of each moment of a save of a regular object:

* what has its place (`Settled`) lies between the headers and `pos`, and apart
  (`Settles`);
* every segment that is finished (`Laid`) covers its sections, at the same distance
  in file and memory, is congruent to its address, and nothing else is under its
  bytes except at its own address (`LaidOut`, `Foreign`);
* of those that are not: whether their sections have addresses (`Rows`), which one
  is part of which (`Families`), and that nothing is laid out before the one loaded
  from offset 0 (`Heads`, `HeadFirst`, `NothingYet`);
* of the segment at hand, either that its sections are new and it grows at `pos`
  (`CurFresh`, with `Ready`: the next section is as far in memory as `pos` is in the
  file, or farther), or that all of them have their places in a segment that is
  finished (`CurNested`). That it is one or the other rests on the order of the
  segments, which is why `OrdInv` comes first, and on `Owned`: every section that
  has its place is in a finished segment, which no other contained at the time.

`Strays` carries the last of these into `layout_sections_without_segments`, and
`StoredInv` says what has been written. `SpaceTaken` is the lemma both kinds of
placement use: one more section gets its place at the end. `EndSegmentLays` is the
longest: a nested segment lies within the bytes of the outer one, and inherits from
it that nothing else is there.

**What is assumed.**

* Nothing of what new handles find in the heap: the theorems about `Dlfcn` speak of
  the program up to the step in which a field nobody set is freed or called, and
  `WildIsStale` says that there is no other way there.
* `SlotAssumption`: the slots are an array of the caller's, apart from each other
  and from what symbols name; `WidthAssumption`: the relations between word, half
  word and reach.
* `LibraryAssumption`, `FileAssumption`: sizes and addresses of libraries and files
  are numbers, relocations name a section the library has; the part of the address
  space from text to imports, a byte for each section and a page fit into a word, as
  they do with a section count of 16 bits. Nothing is assumed of how
  a file was cut, or of the order of sections.
* `ObjectAssumption`, `TableAssumption`: the client starts from an object whose
  buffers hold what they say (as the constructors leave them and, by
  `ElfReaderProofs!BuffersFit`, `load`), and whose tables are `Consistent`, as they
  are in a well-formed file. That a malformed one stays malformed is no fault of
  the code under proof. Hash tables are not assumed to be right, nor complete.
* `LayoutAssumption`: its segments name sections it has, their places are words, and
  the first section of an object with a header is the null section, as `create` and
  every ELF file have it. `WordAssumption`: a word holds the size of a header.
* `Regular`, in the properties of `save` (2.5). It is a condition on the object when
  `save` is called, but for "nothing wraps", which is recorded as it is laid out.
* `TextFirst`, `Parted`, `Ordered` and `Tight`, in the loader's properties, are
  conditions on where the sections of the file lie, and say nothing of the loader's
  sums. The first three are what an RPL linker produces (one text section, before
  the data; no section over another). With several text sections the code itself
  computes other places for symbols than for copies. `Tight` is needed only for
  what lies in the block: with wider gaps it does not, as `loader_padding` shows.

**What proving changed in the models.** Attempts that failed for a reason:

* `SectionsApart`, `LocalsLinked` and the properties of exports held in TLC's
  libraries because their sections do not overlap; for all libraries they need
  `Parted`. `LocalsLinked` counted `fixups`; but that is a set, in which a
  relocation carried out twice with the same result is there once, so it now says
  which entries were carried out, and with which result.
* `IntactFilesLoad` asked every segment of an intact file for contents; the
  loader reads none for `PT_NULL`, which no file of the run had.
* `ListsAgree` is about dynamic sections whose entry size is that of an entry. With
  a larger one the code counts fewer than there are.
* `parse_library_metadata` was a sum in one step and is now its loop, so that a
  bound on the sum can be an invariant; the places of notes are stated by what lies
  before each one and no longer by recursion.
* Whether copies are in the block was asked of libraries for which `code_size` is
  enough. Asked of ordered libraries it is false, and asked of tight ones it needs
  that `code_size` does not wrap.
* A slot is not wasted on a branch that is then refused, unless the branch has an
  addend or an odd place: the test of the slot's distance is not the one that follows.
* `Regular` was too weak, in ways no object of the run showed. Two segments with
  sections loaded from offset 0 hold the headers twice; a nested segment behind a
  `.bss` is not where its address says; an alignment that is no power of two fails
  where the distance wraps; a section without bytes in file and memory is in no
  segment after a reload. The run's objects now include one at the end of the words.
* The layout did not wrap everywhere the code does.
* `SegmentsOrdered` holds of sorted lists of members only: the client may add
  sections to a segment in any order, and `std::includes` then answers as it likes.

**Only model-checked.**

* Liveness (`LoadEnds`, `CallsEnd`), which rests on fairness and
  on ENABLED, neither of which the prover treats.
* `SaveAgainSame`, which compares two runs of `save`: its invariant would have to
  say how the first one came to each place, in the order of the first one.
* What a walk along a hash chain returns is a recursive definition, and nothing is
  proved about it but what the code tests afterwards: `SymbolsFound` needs no more.

## 5. What the models leave out

* Only relocation sections name a code section in `sh_info`. The loader does not
  look at the kind of the section, so a symbol table whose number of local
  symbols happens to be a code section's index would be read as relocations.
* Relocation types 2 and 7 of PowerPC have no name in `ElfUtils.h` and are not
  enumerated; their `calcValue` is another number, with the same consequences.
* At most one `.bss` counts: the code keeps one pair of address and size.
* The 64-bit and the little-endian form of ELF: the classes differ in widths, and
  an RPL is a big-endian ELF32. `std::bad_alloc` out of `std::vector` and
  `new dl_handle`, which nobody catches; that of `inflate` is modelled.
* The program, the logging, and the printing of `elfio_dump.hpp`.
* Of the ELF accessors: those for version needs and definitions, which only read;
  the search for a symbol by its value; relocations with addends, which differ in
  size. Types and values of entries, hash values and the byte order are abstract.
* What a lookup does that does not come to an end, or that reads a hash section
  without data or divides by its zero buckets: `Answers` is false of it, and nothing
  is claimed.
* `add_note` with a null description and a size for it, which adds the size and not
  the bytes; attributes of `modinfo` with a zero byte in them, which are read back
  as two.
* Moving an `elfio` object, after which its sections point into the old one; and
  setting an address translation after something was built.
* Of `deflate`, what it writes: the model has only how much. The code skips the
  first four bytes of its input and overwrites the size in front of its output,
  so that what is compressed is not what `inflate` expects.

## 6. The plan

Written in this order, most important first; all of it is done but the last.

1. `Dlfcn` against `DlfcnApi`; memory and messages. *Done, proved.*
2. `Loader` against `LoadContract`, over `ElfLink`. *Done, proved but for `LoadEnds`.*
3. `Trampolines`. *Done, proved.*
4. `ElfReader`: `load()`. *Done, proved.*
5. `ElfWriter`: `save` and `validate`. *Done, proved but for `SaveAgainSame`.*
6. `ElfData`, `ElfTables`, `ElfObject`: buffers, names, symbols, relocations and
   lists, and a client that mixes all of it. *Done, buffers and tables proved.*
7. Proofs about the tables, the linker and the loader. *Done.*
8. Proofs about `save`: types, order, layout. *Done.*
9. `SaveAgainSame`, as a refinement: `save` computes a function of the object, and
   that function is idempotent on regular ones.

Runs are kept to one for each question, and a run is added only with a module
that asks a new one.
