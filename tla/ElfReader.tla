----------------------------- MODULE ElfReader -----------------------------
(***************************************************************************)
(* elfio::load (source/elfio/elfio.hpp:132-187): the header, the sections  *)
(* with their contents, their names and the segments are read from a file, *)
(* which may be cut short or broken, in an order the file itself gives.    *)
(* Compressed sections go through wiiu_zlib::inflate.                      *)
(*                                                                         *)
(* A file is what its headers say and how long it is.  Header words have   *)
(* small values here: a header cut by the end of the file has the words    *)
(* that are whole, and zeros after them (header = { 0 }, section.hpp:197). *)
(*                                                                         *)
(* Operators named Bug... are mutated forms of the definition that follows *)
(* them, each a slip the code could have; nothing uses them.               *)
(***************************************************************************)
EXTENDS Integers, Sequences

CONSTANTS Files     \* what dlopen may be asked to load

IDENT == 16         \* bytes of e_ident, and of the ELF, section and segment
EHDR  == 52         \* headers of an Elf32 file
SHDR  == 40
PHDR  == 32
Broken == -1        \* the contents are no deflate stream
Types == {"null", "nobits", "bits"}    \* SHT_NULL, SHT_NOBITS, the others

(* A file: [exists, magic: is e_ident an ELF32 or ELF64 one, length, shoff, *)
(* shentsize, shstrndx, sections, phoff, phentsize, segments].  A section   *)
(* header of a file: [name, type, alloc, deflate, addr, offset, size], and  *)
(* of what lies at offset: prefix, the size in front of a deflate stream,   *)
(* body, the bytes the stream yields, and nul, the last zero of the plain   *)
(* contents (-1 if there is none).                                          *)
ASSUME FileAssumption == \A f \in Files :
    /\ f.length \in Nat /\ f.shoff \in Nat /\ f.shentsize \in Nat
    /\ f.phoff \in Nat /\ f.phentsize \in Nat
    /\ f.sections \in Seq([name: Nat, type: Types, alloc: BOOLEAN, deflate: BOOLEAN,
            addr: Nat, offset: Nat, size: Nat, prefix: Nat, body: Int, nul: Int])
    /\ f.segments \in Seq([type: {"null", "load"}, offset: Nat, vaddr: Nat,
            filesz: Nat, memsz: Nat])

VARIABLES
    file,
    zlib,       \* whether the elfio object was given an adapter
    pc,         \* the part load is reading
    good,       \* the stream has no failbit; nothing in load clears it
    starved,    \* an allocation failed (new, or zlib's own)
    sections,   \* sections_: the header (head) as it is now, and of data
                \* its bytes (room, 0 for no buffer), how many of them hold
                \* contents (filled) and whether those are plain
    named,      \* the sections that got a name
    segments,   \* segments_: the header, hasData and the member sections
    reply       \* the result of load

vars == <<file, zlib, pc, good, starved, sections, named, segments, reply>>
stream == <<good, starved>>

Init ==
    /\ file \in Files
    /\ zlib \in BOOLEAN
    /\ pc = "ident"
    /\ good = TRUE /\ starved = FALSE
    /\ sections = <<>> /\ named = {} /\ segments = <<>>
    /\ reply = FALSE

Return(result) ==
    /\ pc' = "done"
    /\ reply' = result
    /\ UNCHANGED <<file, zlib, stream, sections, named, segments>>

(* The signature and the ELF header *)
ReadHeader ==
    /\ pc = "ident"
    /\ LET readable == file.exists /\ file.length >= IDENT /\ file.magic /\ file.length >= EHDR
       IN  \/ ~ readable /\ Return(FALSE)
           \/ readable /\ file.sections # <<>> /\ file.shentsize < SHDR /\ Return(FALSE)
           \/ /\ readable /\ (file.sections # <<>> => file.shentsize >= SHDR)
              /\ pc' = "sections"
              /\ UNCHANGED <<file, zlib, stream, sections, named, segments, reply>>

-----------------------------------------------------------------------------
(* section_impl::load *)
HeaderAt(i) == file.shoff + (i - 1) * file.shentsize

(* Its words are name, type, flags, addr, offset and size, four more follow *)
BugHasWord(i, word) == HeaderAt(i) + 4 * word <= file.length
HasWord(i, word) == good /\ HeaderAt(i) + 4 * word <= file.length

Header(i) ==
    LET h == file.sections[i]
        Has(word) == HasWord(i, word)
    IN  [name    |-> IF Has(1) THEN h.name ELSE 0,
         type    |-> IF Has(2) THEN h.type ELSE "null",
         alloc   |-> Has(3) /\ h.alloc,
         deflate |-> Has(3) /\ h.deflate,
         addr    |-> IF Has(4) THEN h.addr ELSE 0,
         offset  |-> IF Has(5) THEN h.offset ELSE 0,
         size    |-> IF Has(6) THEN h.size ELSE 0]

HeaderRead(i) == good /\ HeaderAt(i) + SHDR <= file.length

(* A section's data is read when it may be shorter than the file; a failed  *)
(* stream tells no size (tellg is -1), which passes for the largest.        *)
HasContents(h) == h.type \notin {"null", "nobits"} /\ (good => h.size < file.length)

BugInFile(h) == h.offset + h.size < file.length
InFile(h) == h.offset + h.size <= file.length

(* wiiu_zlib::inflate: the prefix is there, the stream is sound and yields  *)
(* no more than the prefix says (less is filled up with zeros).             *)
Inflates(i, h) ==
    LET z == file.sections[i] IN h.size >= 4 /\ z.body # Broken /\ z.body <= z.prefix

Buffer(room, filled, plain) == [room |-> room, filled |-> filled, plain |-> plain]
NoData == Buffer(0, 0, TRUE)

Keep(h, data, ok) ==
    /\ sections' = Append(sections, [head |-> h, data |-> data])
    /\ good' = ok
    /\ UNCHANGED <<file, zlib, pc, named, segments, reply>>

(* data = nullptr; what load returns here nobody asks for (elfio.hpp:491)   *)
BugDiscard(h, ok) == Keep(h, Buffer(h.size + 1, h.size, FALSE), ok)
Discard(h, ok) == Keep(h, NoData, ok)

BugInflated(h, prefix) == h
Inflated(h, prefix) == [h EXCEPT !.size = prefix]

ReadContents(i, h) ==
    LET there == HeaderRead(i) /\ InFile(h)
        prefix == file.sections[i].prefix
    IN  \/ /\ UNCHANGED starved
           /\ \/ ~ there /\ Discard(h, FALSE)
              \/ there /\ ~ h.deflate /\ Keep(h, Buffer(h.size + 1, h.size, TRUE), TRUE)
              \/ there /\ h.deflate /\ ~ (zlib /\ Inflates(i, h)) /\ Discard(h, TRUE)
              \/ /\ there /\ h.deflate /\ zlib /\ Inflates(i, h)
                 /\ Keep(Inflated(h, prefix), Buffer(prefix + 1, prefix, TRUE), TRUE)
        \/ /\ there /\ h.deflate /\ zlib /\ Inflates(i, h)    \* inflateInit_ fails
           /\ Discard(h, TRUE) /\ starved' = TRUE

LoadSection ==
    /\ pc = "sections" /\ Len(sections) < Len(file.sections)
    /\ LET i == Len(sections) + 1
           h == Header(i)
       IN  \/ ~ HasContents(h) /\ Keep(h, NoData, HeaderRead(i)) /\ UNCHANGED starved
           \/ HasContents(h) /\ Keep(h, NoData, HeaderRead(i)) /\ starved' = TRUE
           \/ /\ HasContents(h) /\ h.size = 0
              /\ Keep(h, Buffer(1, 0, TRUE), HeaderRead(i)) /\ UNCHANGED starved
           \/ HasContents(h) /\ h.size > 0 /\ ReadContents(i, h)

(* The new of inflate (wiiu_zlib.hpp:26) throws instead of answering null,   *)
(* for memory is short or the prefix asks for too much.  Nothing catches it. *)
InflateThrows ==
    /\ pc = "sections" /\ Len(sections) < Len(file.sections)
    /\ LET i == Len(sections) + 1
           h == Header(i)
       IN  HasContents(h) /\ HeaderRead(i) /\ InFile(h) /\ h.deflate /\ zlib /\ h.size >= 4
    /\ pc' = "done" /\ starved' = TRUE
    /\ UNCHANGED <<file, zlib, good, sections, named, segments, reply>>

(* load_sections ends: every section is given the name the string table     *)
(* has for it, if that table was read and ends the name with a zero.        *)
Names(i) ==
    /\ file.shstrndx # 0 /\ file.shstrndx < Len(sections)
    /\ LET table == sections[file.shstrndx + 1]
           name  == sections[i].head.name
       IN  /\ table.data.room > 0 /\ name < table.head.size
           /\ name <= file.sections[file.shstrndx + 1].nul

BugNameSections ==
    /\ pc = "sections" /\ Len(sections) = Len(file.sections)
    /\ named' = {i - 1 : i \in {k \in 1..Len(sections) : Names(k)}}
    /\ pc' = "segments"
    /\ UNCHANGED <<file, zlib, stream, sections, segments, reply>>

NameSections ==
    /\ pc = "sections" /\ Len(sections) = Len(file.sections)
    /\ named' = {i \in 1..Len(sections) : Names(i)}
    /\ pc' = "segments"
    /\ UNCHANGED <<file, zlib, stream, sections, segments, reply>>

-----------------------------------------------------------------------------
(* load_segments: a segment header has type, offset, vaddr, paddr, filesz,  *)
(* memsz.  Here a failed stream makes load fail.                            *)
SegmentAt(i) == file.phoff + (i - 1) * file.phentsize
SegmentRead(i) == good /\ SegmentAt(i) + PHDR <= file.length

Within(begin, size, first, end) ==
    first <= begin /\ begin + size <= end /\ begin < end

(* Sections that live in memory are matched by address, others by offset *)
Members(g) == {i \in 1..Len(sections) :
    LET s == sections[i].head
    IN  IF s.alloc THEN Within(s.addr, s.size, g.vaddr, g.vaddr + g.memsz)
                   ELSE Within(s.offset, s.size, g.offset, g.offset + g.filesz)}

Needs(g) == g.type # "null" /\ g.filesz # 0 /\ g.filesz <= file.length

AddSegment(g, hasData) ==
    /\ segments' = Append(segments,
          [offset |-> g.offset, filesz |-> g.filesz, vaddr |-> g.vaddr, memsz |-> g.memsz,
           hasData |-> hasData, members |-> Members(g)])
    /\ UNCHANGED <<file, zlib, pc, stream, sections, named, reply>>

LoadSegment ==
    /\ pc = "segments" /\ Len(segments) < Len(file.segments)
    /\ LET i == Len(segments) + 1
           g == file.segments[i]
           sound == file.phentsize >= PHDR /\ SegmentRead(i)
       IN  \/ (~ sound \/ (Needs(g) /\ ~ InFile([offset |-> g.offset, size |-> g.filesz])))
                /\ Return(FALSE)
           \/ /\ sound /\ Needs(g)    \* no memory for its contents
              /\ pc' = "done" /\ starved' = TRUE
              /\ UNCHANGED <<file, zlib, good, sections, named, segments, reply>>
           \/ /\ sound /\ (Needs(g) => InFile([offset |-> g.offset, size |-> g.filesz]))
              /\ AddSegment(g, Needs(g))

SegmentsDone == pc = "segments" /\ Len(segments) = Len(file.segments) /\ Return(TRUE)

Next ==
    \/ ReadHeader
    \/ LoadSection
    \/ InflateThrows
    \/ NameSections
    \/ LoadSegment
    \/ SegmentsDone

Spec == Init /\ [][Next]_vars

-----------------------------------------------------------------------------
Heads == [name: Nat, type: Types, alloc: BOOLEAN, deflate: BOOLEAN,
          addr: Nat, offset: Nat, size: Nat]
Buffers == [room: Nat, filled: Nat, plain: BOOLEAN]
Loaded == [offset: Nat, filesz: Nat, vaddr: Nat, memsz: Nat, hasData: BOOLEAN,
           members: SUBSET Nat]

TypeOK ==
    /\ zlib \in BOOLEAN
    /\ pc \in {"ident", "sections", "segments", "done"}
    /\ good \in BOOLEAN /\ starved \in BOOLEAN /\ reply \in BOOLEAN
    /\ sections \in Seq([head: Heads, data: Buffers])
    /\ Len(sections) <= Len(file.sections)
    /\ named \subseteq 1..Len(sections)
    /\ segments \in Seq(Loaded) /\ Len(segments) <= Len(file.segments)

HasData(i) == sections[i].data.room > 0

(* Readers of a section go by get_size() and may look at one byte more, the *)
(* terminating zero: the buffer has exactly these bytes, although the size  *)
(* changes while the section is decompressed (section.hpp:213, 235-243).    *)
BuffersHoldSizes == \A i \in 1..Len(sections) :
    HasData(i) => sections[i].data.room = sections[i].head.size + 1

(* A section has all of its contents, and plain, or no data at all; a read  *)
(* cut short and a broken stream leave none (section.hpp:219-233).          *)
NeverPartial == \A i \in 1..Len(sections) : HasData(i) =>
    /\ sections[i].data.plain
    /\ sections[i].data.filled = sections[i].head.size

(* Files nothing is wrong with: complete headers, every section and segment *)
(* smaller than the file and in it, compressed contents that inflate.       *)
Intact ==
    /\ file.exists /\ file.magic /\ file.length >= EHDR
    /\ file.shentsize >= SHDR /\ file.phentsize >= PHDR
    /\ \A i \in 1..Len(file.sections) :
        LET h == file.sections[i]
        IN  /\ HeaderAt(i) + SHDR <= file.length
            /\ h.type \notin {"null", "nobits"} =>
                  /\ h.size < file.length /\ h.offset + h.size <= file.length
                  /\ h.deflate => zlib /\ h.size > 0 /\ Inflates(i, h)
    /\ \A i \in 1..Len(file.segments) :
        LET g == file.segments[i]
        IN  SegmentAt(i) + PHDR <= file.length /\ g.offset + g.filesz <= file.length

(* An intact file is loaded, with the contents of all of its sections and   *)
(* segments, unless memory runs out.                                        *)
IntactFilesLoad == pc = "done" /\ Intact /\ ~ starved =>
    /\ reply
    /\ Len(sections) = Len(file.sections) /\ Len(segments) = Len(file.segments)
    /\ \A i \in 1..Len(sections) :
            sections[i].head.type \notin {"null", "nobits"} => HasData(i)
    /\ \A i \in 1..Len(segments) : file.segments[i].type # "null" /\ segments[i].filesz > 0 =>
            segments[i].hasData

(* Once a read failed nothing more is read: every section after the one     *)
(* whose header or contents the file does not hold is blank (the failbit    *)
(* stays, section.hpp:199-207), and load succeeds only if there are no      *)
(* segments to miss.                                                        *)
LostSection(i) ==
    LET h == sections[i].head
    IN  h.size > 0 /\ h.type \notin {"null", "nobits"} /\ ~ HasData(i)
CutShort(i) ==
    \/ HeaderAt(i) + SHDR > file.length
    \/ /\ LostSection(i) /\ sections[i].head.size < file.length
       /\ sections[i].head.offset + sections[i].head.size > file.length
NothingAfterFailure ==
    /\ ~ good => segments = <<>> /\ (reply => file.segments = <<>>)
    /\ ~ starved => \A i, k \in 1..Len(sections) : i < k /\ CutShort(i) =>
            sections[k].head.type = "null" /\ ~ HasData(k)

(* dlopen refuses what is no library (dlfcn.cpp:20-23) and goes on, with    *)
(* "Loaded library successfully" (line 27), only when every section of the  *)
(* file was read.                                                           *)
LoadedMeansRead == reply /\ zlib => \A i \in 1..Len(sections) : ~ LostSection(i)
=============================================================================
