-------------------------- MODULE ElfReaderProofs --------------------------
(***************************************************************************)
(* What elfio::load leaves behind, proved for every file: buffers have the *)
(* sizes their readers go by and hold whole contents (IInv); after a read  *)
(* that failed there are only blanks (StreamInv); an intact file is loaded *)
(* with all of its contents (IntactInv).                                   *)
(***************************************************************************)
EXTENDS ElfReader, TLAPS

IInv == file \in Files /\ TypeOK /\ BuffersHoldSizes /\ NeverPartial

(* The numbers, sections and segments of a file *)
LEMMA FileTyped ==
    ASSUME NEW f \in Files
    PROVE  /\ f.length \in Nat /\ f.shoff \in Nat /\ f.shentsize \in Nat
           /\ f.phoff \in Nat /\ f.phentsize \in Nat
           /\ Len(f.sections) \in Nat /\ Len(f.segments) \in Nat
           /\ f.segments = <<>> <=> Len(f.segments) = 0
           /\ \A i \in 1..Len(f.sections) :
                LET h == f.sections[i]
                IN  /\ h.name \in Nat /\ h.type \in Types
                    /\ h.alloc \in BOOLEAN /\ h.deflate \in BOOLEAN
                    /\ h.addr \in Nat /\ h.offset \in Nat /\ h.size \in Nat
                    /\ h.prefix \in Nat /\ h.body \in Int
           /\ \A i \in 1..Len(f.segments) :
                LET g == f.segments[i]
                IN  /\ g.offset \in Nat /\ g.filesz \in Nat
                    /\ g.vaddr \in Nat /\ g.memsz \in Nat
<1> DEFINE SecT == [name: Nat, type: Types, alloc: BOOLEAN, deflate: BOOLEAN,
                    addr: Nat, offset: Nat, size: Nat, prefix: Nat, body: Int, nul: Int]
           SegT == [type: {"null", "load"}, offset: Nat, vaddr: Nat, filesz: Nat, memsz: Nat]
<1>1. \A h \in SecT : /\ h.name \in Nat /\ h.type \in Types
                      /\ h.alloc \in BOOLEAN /\ h.deflate \in BOOLEAN
                      /\ h.addr \in Nat /\ h.offset \in Nat /\ h.size \in Nat
                      /\ h.prefix \in Nat /\ h.body \in Int
  OBVIOUS
<1>2. \A g \in SegT : /\ g.offset \in Nat /\ g.filesz \in Nat
                      /\ g.vaddr \in Nat /\ g.memsz \in Nat
  OBVIOUS
<1>3. f.sections \in Seq(SecT) /\ f.segments \in Seq(SegT)
  BY FileAssumption
<1>4. /\ f.length \in Nat /\ f.shoff \in Nat /\ f.shentsize \in Nat
      /\ f.phoff \in Nat /\ f.phentsize \in Nat
  BY FileAssumption
<1> HIDE DEF SecT, SegT
<1>5. /\ \A i \in 1..Len(f.sections) : f.sections[i] \in SecT
      /\ \A i \in 1..Len(f.segments) : f.segments[i] \in SegT
      /\ Len(f.sections) \in Nat /\ Len(f.segments) \in Nat
      /\ f.segments = <<>> <=> Len(f.segments) = 0
  BY <1>3
<1> QED BY <1>1, <1>2, <1>4, <1>5

(* The header of a section of a file, cut or not, is a header. *)
LEMMA HeaderTyped ==
    ASSUME file \in Files, NEW i \in 1..Len(file.sections)
    PROVE  Header(i) \in Heads
<1> DEFINE h == file.sections[i]
<1>1. /\ h.name \in Nat /\ h.type \in Types /\ h.alloc \in BOOLEAN
      /\ h.deflate \in BOOLEAN /\ h.addr \in Nat /\ h.offset \in Nat /\ h.size \in Nat
  BY FileTyped
<1> DEFINE Has(word) == HasWord(i, word)
<1> HIDE DEF h, Has
<1>2. /\ (IF Has(1) THEN h.name ELSE 0) \in Nat
      /\ (IF Has(2) THEN h.type ELSE "null") \in Types
      /\ (IF Has(4) THEN h.addr ELSE 0) \in Nat
      /\ (IF Has(5) THEN h.offset ELSE 0) \in Nat
      /\ (IF Has(6) THEN h.size ELSE 0) \in Nat
  <2>1. 0 \in Nat
    OBVIOUS
  <2>2. "null" \in Types
    BY DEF Types
  <2> QED BY <1>1, <2>1, <2>2, Zenon
<1>4. (Has(3) /\ h.alloc) \in BOOLEAN /\ (Has(3) /\ h.deflate) \in BOOLEAN
  BY Zenon
<1>3. Header(i) = [name    |-> IF Has(1) THEN h.name ELSE 0,
                   type    |-> IF Has(2) THEN h.type ELSE "null",
                   alloc   |-> Has(3) /\ h.alloc,
                   deflate |-> Has(3) /\ h.deflate,
                   addr    |-> IF Has(4) THEN h.addr ELSE 0,
                   offset  |-> IF Has(5) THEN h.offset ELSE 0,
                   size    |-> IF Has(6) THEN h.size ELSE 0]
  BY Zenon DEF Header, Has, h
<1> QED BY <1>2, <1>3, <1>4 DEF Heads

(* A section that is kept with no data, or with its whole and plain         *)
(* contents, disturbs no section before it.                                 *)
Sound(h, data) == data.room > 0 =>
    data.room = h.size + 1 /\ data.plain /\ data.filled = h.size

LEMMA KeepPreserves ==
    ASSUME IInv, NEW h \in Heads, NEW data \in Buffers, NEW ok \in BOOLEAN,
           Sound(h, data), starved' \in BOOLEAN,
           Len(sections) < Len(file.sections), Keep(h, data, ok)
    PROVE  IInv'
<1> DEFINE s == [head |-> h, data |-> data]
<1>1. /\ sections \in Seq([head: Heads, data: Buffers])
      /\ s \in [head: Heads, data: Buffers]
      /\ sections' = Append(sections, s)
  BY DEF IInv, TypeOK, Keep
<1>2. /\ sections' \in Seq([head: Heads, data: Buffers])
      /\ Len(sections') = Len(sections) + 1
      /\ Len(sections) \in Nat
      /\ \A i \in 1..Len(sections) : sections'[i] = sections[i]
      /\ sections'[Len(sections) + 1] = s
  <2> HIDE DEF s
  <2> QED BY <1>1
<1>3. file' = file /\ file' \in Files /\ Len(file.sections) \in Nat
  BY FileTyped DEF IInv, Keep
<1>4. \A i \in 1..Len(sections') : i \in 1..Len(sections) \/ i = Len(sections) + 1
  BY <1>2
<1>5. TypeOK'
  BY <1>2, <1>3 DEF IInv, TypeOK, Keep
<1>6. BuffersHoldSizes' /\ NeverPartial'
  <2> SUFFICES ASSUME NEW i \in 1..Len(sections'), HasData(i)'
               PROVE  /\ sections'[i].data.room = sections'[i].head.size + 1
                      /\ sections'[i].data.plain
                      /\ sections'[i].data.filled = sections'[i].head.size
    BY DEF BuffersHoldSizes, NeverPartial
  <2>1. CASE i \in 1..Len(sections)
    BY <2>1, <1>2 DEF IInv, BuffersHoldSizes, NeverPartial, HasData
  <2>2. CASE i = Len(sections) + 1
    <3>1. sections'[i].head = h /\ sections'[i].data = data
      BY <2>2, <1>2
    <3> QED BY <3>1 DEF Sound, HasData
  <2> QED BY <2>1, <2>2, <1>4
<1> QED BY <1>3, <1>5, <1>6 DEF IInv

LEMMA InitHolds == Init => IInv
<1> SUFFICES ASSUME Init PROVE IInv
  OBVIOUS
<1>1. /\ file \in Files /\ Len(file.sections) \in Nat /\ Len(file.segments) \in Nat
      /\ sections = <<>> /\ Len(sections) = 0 /\ 1..Len(sections) = {}
      /\ segments = <<>> /\ Len(segments) = 0 /\ named = {}
  BY FileTyped DEF Init
<1>2. sections \in Seq([head: Heads, data: Buffers])
  BY <1>1
<1>3. TypeOK
  <2>1. named \subseteq 1..Len(sections) /\ Len(sections) <= Len(file.sections)
    BY <1>1
  <2>2. segments \in Seq(Loaded) /\ Len(segments) <= Len(file.segments)
    BY <1>1
  <2> QED BY <1>2, <2>1, <2>2, Zenon DEF Init, TypeOK
<1>4. BuffersHoldSizes /\ NeverPartial
  BY <1>1, Zenon DEF BuffersHoldSizes, NeverPartial
<1> QED BY <1>1, <1>3, <1>4 DEF IInv

(* Reading one section, whichever way it goes *)
LEMMA SectionKeeps == IInv /\ LoadSection => IInv'
<1> SUFFICES ASSUME IInv, LoadSection PROVE IInv'
  OBVIOUS
<1> DEFINE i == Len(sections) + 1
           h == Header(i)
<1>1. /\ file \in Files /\ Len(file.sections) \in Nat /\ starved \in BOOLEAN
      /\ Len(sections) \in Nat /\ Len(sections) < Len(file.sections)
  BY FileTyped DEF IInv, TypeOK, LoadSection
<1>2. i \in 1..Len(file.sections)
  BY <1>1
<1>3. h \in Heads /\ h.size \in Nat
  BY <1>1, <1>2, HeaderTyped DEF Heads
<1>4. HeaderRead(i) \in BOOLEAN
  BY DEF HeaderRead
<1> HIDE DEF i, h
<1>5. \/ Keep(h, NoData, HeaderRead(i)) /\ starved' \in BOOLEAN
      \/ h.size = 0 /\ Keep(h, Buffer(1, 0, TRUE), HeaderRead(i)) /\ UNCHANGED starved
      \/ h.size > 0 /\ ReadContents(i, h)
  BY <1>1, Zenon DEF LoadSection, i, h
<1>6. NoData \in Buffers /\ \A g : Sound(g, NoData)
  BY DEF NoData, Buffer, Buffers, Sound
<1>7. CASE Keep(h, NoData, HeaderRead(i)) /\ starved' \in BOOLEAN
  BY <1>1, <1>3, <1>4, <1>6, <1>7, KeepPreserves
<1>8. CASE h.size = 0 /\ Keep(h, Buffer(1, 0, TRUE), HeaderRead(i)) /\ UNCHANGED starved
  <2>1. Buffer(1, 0, TRUE) \in Buffers /\ Sound(h, Buffer(1, 0, TRUE))
    BY <1>8 DEF Buffer, Buffers, Sound
  <2> QED BY <1>1, <1>3, <1>4, <1>8, <2>1, KeepPreserves
<1>9. CASE h.size > 0 /\ ReadContents(i, h)
  <2> DEFINE prefix == file.sections[i].prefix
             whole  == Buffer(h.size + 1, h.size, TRUE)
             plain  == Buffer(prefix + 1, prefix, TRUE)
  <2>1. /\ starved' \in BOOLEAN
        /\ \/ Keep(h, NoData, FALSE)
           \/ Keep(h, whole, TRUE)
           \/ Keep(h, NoData, TRUE)
           \/ Keep(Inflated(h, prefix), plain, TRUE)
    BY <1>1, <1>9 DEF ReadContents, Discard
  <2>2. prefix \in Nat
    BY <1>1, <1>2, FileTyped DEF i
  <2>3. whole \in Buffers /\ Sound(h, whole)
    BY <1>3 DEF Buffer, Buffers, Sound
  <2>4. plain \in Buffers /\ Inflated(h, prefix) \in Heads /\ Sound(Inflated(h, prefix), plain)
    BY <1>3, <2>2 DEF Buffer, Buffers, Sound, Inflated, Heads
  <2> HIDE DEF prefix, whole, plain
  <2>5. CASE Keep(h, NoData, FALSE) \/ Keep(h, NoData, TRUE)
    BY <1>1, <1>3, <1>6, <2>1, <2>5, KeepPreserves
  <2>6. CASE Keep(h, whole, TRUE)
    BY <1>1, <1>3, <2>1, <2>3, <2>6, KeepPreserves
  <2>7. CASE Keep(Inflated(h, prefix), plain, TRUE)
    BY <1>1, <2>1, <2>4, <2>7, KeepPreserves
  <2> QED BY <2>1, <2>5, <2>6, <2>7
<1> QED BY <1>5, <1>7, <1>8, <1>9

(* A segment is kept as its header is, with members out of the sections. *)
Entry(g, hasData) ==
    [offset |-> g.offset, filesz |-> g.filesz, vaddr |-> g.vaddr, memsz |-> g.memsz,
     hasData |-> hasData, members |-> Members(g)]

LEMMA EntryTyped ==
    ASSUME TypeOK, file \in Files, NEW i \in 1..Len(file.segments), NEW b \in BOOLEAN
    PROVE  Entry(file.segments[i], b) \in Loaded
<1> DEFINE g == file.segments[i]
<1>1. /\ g.offset \in Nat /\ g.filesz \in Nat /\ g.vaddr \in Nat /\ g.memsz \in Nat
  BY FileTyped
<1>2. Members(g) \in SUBSET Nat
  <2>1. Members(g) \subseteq 1..Len(sections)
    BY DEF Members
  <2>2. Len(sections) \in Nat
    BY DEF TypeOK
  <2> QED BY <2>1, <2>2
<1> HIDE DEF g
<1> QED BY <1>1, <1>2 DEF Entry, Loaded, g

(* Nothing but LoadSection touches the sections. *)
LEMMA NextHolds == IInv /\ [Next]_vars => IInv'
<1> SUFFICES ASSUME IInv, [Next]_vars PROVE IInv'
  OBVIOUS
<1> USE DEF IInv
<1>1. CASE UNCHANGED <<file, sections>> /\ TypeOK'
  BY <1>1 DEF BuffersHoldSizes, NeverPartial, HasData
<1>2. \A result \in BOOLEAN : Return(result) =>
        UNCHANGED <<file, sections>> /\ TypeOK'
  BY DEF Return, TypeOK, stream
<1>3. CASE ReadHeader
  <2>1. \/ Return(FALSE)
        \/ /\ pc' = "sections"
           /\ UNCHANGED <<file, zlib, stream, sections, named, segments, reply>>
    BY <1>3 DEF ReadHeader
  <2>2. UNCHANGED <<file, sections>> /\ TypeOK'
    BY <1>2, <2>1 DEF TypeOK, stream
  <2> QED BY <1>1, <2>2
<1>4. CASE LoadSection
  BY <1>4, SectionKeeps
<1>5. CASE NameSections
  <2>1. UNCHANGED <<file, sections>> /\ TypeOK'
    BY <1>5 DEF NameSections, TypeOK, stream
  <2> QED BY <1>1, <2>1
<1>6. CASE LoadSegment
  <2>1. UNCHANGED <<file, sections>> /\ TypeOK'
    <3> DEFINE i == Len(segments) + 1
               g == file.segments[i]
    <3>1. \/ Return(FALSE)
          \/ /\ pc' = "done" /\ starved' = TRUE
             /\ UNCHANGED <<file, zlib, good, sections, named, segments, reply>>
          \/ AddSegment(g, Needs(g))
      BY <1>6 DEF LoadSegment
    <3>2. CASE AddSegment(g, Needs(g))
      <4>1. /\ segments' = Append(segments, Entry(g, Needs(g)))
            /\ UNCHANGED <<file, zlib, pc, stream, sections, named, reply>>
        BY <3>2, Zenon DEF AddSegment, Entry
      <4>2. Len(segments) < Len(file.segments) /\ file \in Files
            /\ segments \in Seq(Loaded)
        BY <1>6 DEF LoadSegment, TypeOK
      <4>3. Entry(g, Needs(g)) \in Loaded
        <5>1. i \in 1..Len(file.segments)
          BY <4>2, FileTyped
        <5>2. Needs(g) \in BOOLEAN
          BY DEF Needs
        <5> QED BY <4>2, <5>1, <5>2, EntryTyped
      <4> HIDE DEF g, i
      <4>4. segments' \in Seq(Loaded) /\ Len(segments') = Len(segments) + 1
        BY <4>1, <4>2, <4>3
      <4> QED BY <4>1, <4>2, <4>4, FileTyped DEF TypeOK, stream
    <3> QED BY <1>2, <3>1, <3>2 DEF TypeOK
  <2> QED BY <1>1, <2>1
<1>7. CASE SegmentsDone
  BY <1>1, <1>2, <1>7 DEF SegmentsDone
<1>8. CASE UNCHANGED vars
  BY <1>1, <1>8 DEF vars, stream, TypeOK
<1>9. CASE InflateThrows
  <2>1. UNCHANGED <<file, sections>> /\ TypeOK'
    BY <1>9, Zenon DEF InflateThrows, TypeOK
  <2> QED BY <1>1, <2>1
<1> QED BY <1>3, <1>4, <1>5, <1>6, <1>7, <1>8, <1>9 DEF Next

(* Whatever file is loaded, and however often a read, an allocation or the  *)
(* decompression of a section fails: a section that has data has a buffer   *)
(* of get_size() + 1 bytes (section.hpp:213, 235-243).                      *)
THEOREM BuffersFit == Spec => []BuffersHoldSizes
<1>1. IInv => BuffersHoldSizes
  BY DEF IInv
<1> QED BY <1>1, InitHolds, NextHolds, PTL DEF Spec

(* And the buffer is full of plain contents: no section is left with part   *)
(* of its bytes or with compressed ones (section.hpp:219-233).              *)
THEOREM ContentsWhole == Spec => []NeverPartial
<1>1. IInv => NeverPartial
  BY DEF IInv
<1> QED BY <1>1, InitHolds, NextHolds, PTL DEF Spec
-----------------------------------------------------------------------------
(* The variables of load keep their types: a section for each header at     *)
(* most, names for sections there are, and numbers in every header, however *)
(* it was cut.                                                              *)
THEOREM LoadIsTyped == Spec => []TypeOK
<1>1. IInv => TypeOK
  BY DEF IInv
<1> QED BY <1>1, InitHolds, NextHolds, PTL DEF Spec

(* What create_section leaves: one section more, and those before as they were *)
LEMMA KeepAppends ==
    ASSUME IInv, NEW h, NEW data, NEW ok, Keep(h, data, ok)
    PROVE  /\ UNCHANGED <<file, zlib, pc, named, segments, reply>>
           /\ good' = ok
           /\ Len(sections) \in Nat /\ Len(sections') = Len(sections) + 1
           /\ \A i \in 1..Len(sections) : sections'[i] = sections[i]
           /\ sections'[Len(sections) + 1].head = h
           /\ sections'[Len(sections) + 1].data = data
<1> DEFINE s == [head |-> h, data |-> data]
           T == [head: Heads, data: Buffers]
           S == T \cup {s}
<1>1. sections \in Seq(T) /\ sections' = Append(sections, s)
  BY DEF IInv, TypeOK, Keep
<1>2. s \in S /\ T \subseteq S
  OBVIOUS
<1>3. s.head = h /\ s.data = data
  OBVIOUS
<1> HIDE DEF s, T
<1>4. sections \in Seq(S)
  <2>1. DOMAIN sections = 1..Len(sections) /\ Len(sections) \in Nat
    BY <1>1
  <2>2. \A i \in 1..Len(sections) : sections[i] \in S
    <3> HIDE DEF S
    <3> QED BY <1>1, <1>2
  <2> QED BY <1>1, <2>1, <2>2
<1> HIDE DEF S
<1>5. /\ Len(sections) \in Nat /\ Len(sections') = Len(sections) + 1
      /\ \A i \in 1..Len(sections) : sections'[i] = sections[i]
      /\ sections'[Len(sections) + 1] = s
  BY <1>1, <1>2, <1>4
<1> QED BY <1>3, <1>5 DEF Keep

(* What one turn of the loop of load_sections does to the new section,      *)
(* number n, and to the stream                                              *)
LEMMA SectionOutcome ==
    ASSUME IInv, LoadSection, NEW n, n = Len(sections) + 1
    PROVE  LET h == Header(n)
               s == sections'[n]
           IN  /\ n \in 1..Len(file.sections) /\ h \in Heads /\ pc = "sections"
               /\ UNCHANGED <<file, zlib, pc, named, segments, reply>>
               /\ Len(sections') = n
               /\ \A i \in 1..Len(sections) : sections'[i] = sections[i]
               /\ \/ /\ s.head = h /\ s.data = NoData /\ good' = HeaderRead(n)
                     /\ ~ HasContents(h) /\ starved' = starved
                  \/ /\ s.head = h /\ s.data = NoData /\ good' = HeaderRead(n)
                     /\ HasContents(h) /\ starved' = TRUE
                  \/ /\ s.head = h /\ s.data = Buffer(1, 0, TRUE) /\ good' = HeaderRead(n)
                     /\ HasContents(h) /\ starved' = starved
                  \/ /\ s.head = h /\ s.data = NoData /\ good' = FALSE
                     /\ HasContents(h) /\ ~ (HeaderRead(n) /\ InFile(h)) /\ starved' = starved
                  \/ /\ s.head = h /\ s.data = Buffer(h.size + 1, h.size, TRUE) /\ good' = TRUE
                     /\ HasContents(h) /\ HeaderRead(n) /\ InFile(h) /\ starved' = starved
                  \/ /\ s.head = h /\ s.data = NoData /\ good' = TRUE
                     /\ HasContents(h) /\ HeaderRead(n) /\ InFile(h) /\ h.size > 0
                     /\ h.deflate /\ ~ (zlib /\ Inflates(n, h)) /\ starved' = starved
                  \/ \E prefix \in Nat :
                     /\ s.head = Inflated(h, prefix) /\ good' = TRUE
                     /\ s.data = Buffer(prefix + 1, prefix, TRUE)
                     /\ HasContents(h) /\ HeaderRead(n) /\ InFile(h) /\ starved' = starved
<1> DEFINE h == Header(n)
<1>1. /\ file \in Files /\ Len(file.sections) \in Nat /\ Len(sections) \in Nat
      /\ Len(sections) < Len(file.sections) /\ pc = "sections"
  BY FileTyped DEF IInv, TypeOK, LoadSection
<1>2. n \in 1..Len(file.sections)
  BY <1>1
<1>3. h \in Heads
  BY <1>1, <1>2, HeaderTyped
<1> DEFINE prefix == file.sections[n].prefix
<1>4. prefix \in Nat
  BY <1>1, <1>2, FileTyped
<1>5. \A g, data, ok : Keep(g, data, ok) =>
         /\ UNCHANGED <<file, zlib, pc, named, segments, reply>>
         /\ good' = ok
         /\ Len(sections') = n
         /\ \A i \in 1..Len(sections) : sections'[i] = sections[i]
         /\ sections'[n].head = g /\ sections'[n].data = data
  BY KeepAppends
<1> HIDE DEF h, prefix
<1>6. \/ ~ HasContents(h) /\ Keep(h, NoData, HeaderRead(n)) /\ starved' = starved
      \/ HasContents(h) /\ Keep(h, NoData, HeaderRead(n)) /\ starved' = TRUE
      \/ HasContents(h) /\ Keep(h, Buffer(1, 0, TRUE), HeaderRead(n)) /\ starved' = starved
      \/ HasContents(h) /\ h.size > 0 /\ ReadContents(n, h)
  BY Zenon DEF LoadSection, h
<1>7. ASSUME HasContents(h), h.size > 0, ReadContents(n, h)
      PROVE  \/ /\ starved' = starved
                /\ \/ ~ (HeaderRead(n) /\ InFile(h)) /\ Keep(h, NoData, FALSE)
                   \/ /\ HeaderRead(n) /\ InFile(h)
                      /\ \/ Keep(h, Buffer(h.size + 1, h.size, TRUE), TRUE)
                         \/ h.deflate /\ ~ (zlib /\ Inflates(n, h)) /\ Keep(h, NoData, TRUE)
                         \/ Keep(Inflated(h, prefix), Buffer(prefix + 1, prefix, TRUE), TRUE)
             \/ HeaderRead(n) /\ Keep(h, NoData, TRUE) /\ starved' = TRUE
  BY <1>7, Zenon DEF ReadContents, Discard, prefix
<1>8. CASE HasContents(h) /\ h.size > 0 /\ ReadContents(n, h)
  <2>1. CASE /\ ~ (HeaderRead(n) /\ InFile(h)) /\ Keep(h, NoData, FALSE)
             /\ starved' = starved
    BY <1>1, <1>2, <1>3, <1>5, <1>8, <2>1, Zenon DEF h
  <2>2. CASE /\ HeaderRead(n) /\ InFile(h) /\ starved' = starved
             /\ Keep(h, Buffer(h.size + 1, h.size, TRUE), TRUE)
    BY <1>1, <1>2, <1>3, <1>5, <1>8, <2>2, Zenon DEF h
  <2>3. CASE /\ HeaderRead(n) /\ InFile(h) /\ h.deflate /\ ~ (zlib /\ Inflates(n, h))
             /\ Keep(h, NoData, TRUE) /\ starved' = starved
    BY <1>1, <1>2, <1>3, <1>5, <1>8, <2>3, Zenon DEF h
  <2>4. CASE /\ HeaderRead(n) /\ InFile(h) /\ starved' = starved
             /\ Keep(Inflated(h, prefix), Buffer(prefix + 1, prefix, TRUE), TRUE)
    BY <1>1, <1>2, <1>3, <1>4, <1>5, <1>8, <2>4, Zenon DEF h
  <2>5. CASE HeaderRead(n) /\ Keep(h, NoData, TRUE) /\ starved' = TRUE
    <3>1. HeaderRead(n) = TRUE
      BY <2>5 DEF HeaderRead
    <3> QED BY <1>1, <1>2, <1>3, <1>5, <1>8, <2>5, <3>1, Zenon DEF h
  <2> QED BY <1>7, <1>8, <2>1, <2>2, <2>3, <2>4, <2>5
<1>9. CASE ~ HasContents(h) /\ Keep(h, NoData, HeaderRead(n)) /\ starved' = starved
  BY <1>1, <1>2, <1>3, <1>5, <1>9, Zenon DEF h
<1>10. CASE HasContents(h) /\ Keep(h, NoData, HeaderRead(n)) /\ starved' = TRUE
  BY <1>1, <1>2, <1>3, <1>5, <1>10, Zenon DEF h
<1>11. CASE HasContents(h) /\ Keep(h, Buffer(1, 0, TRUE), HeaderRead(n)) /\ starved' = starved
  BY <1>1, <1>2, <1>3, <1>5, <1>11, Zenon DEF h
<1> QED BY <1>6, <1>8, <1>9, <1>10, <1>11
-----------------------------------------------------------------------------
(* A section the file does not hold has set the failbit, and from then on   *)
(* only blank sections follow; segments come after the sections.            *)
CutFails == ~ starved => \A i \in 1..Len(sections) : CutShort(i) =>
    /\ ~ good
    /\ \A k \in 1..Len(sections) : i < k => sections[k].head.type = "null" /\ ~ HasData(k)

StreamInv ==
    /\ pc \in {"ident", "sections"} => segments = <<>> /\ ~ reply
    /\ ~ good => segments = <<>> /\ (reply => file.segments = <<>>)
    /\ CutFails

(* After a failure the next header reads as zeros and has no contents. *)
LEMMA BlankAfterFailure ==
    ASSUME IInv, LoadSection, ~ good, NEW n, n = Len(sections) + 1
    PROVE  ~ good' /\ sections'[n].head.type = "null" /\ ~ (sections'[n].data.room > 0)
<1> DEFINE h == Header(n)
<1>1. h.type = "null"
  BY DEF Header, HasWord
<1>2. ~ HasContents(h) /\ ~ HeaderRead(n)
  BY <1>1 DEF HasContents, HeaderRead
<1>3. sections'[n].head = h /\ sections'[n].data = NoData /\ good' = HeaderRead(n)
  BY <1>2, SectionOutcome
<1> QED BY <1>1, <1>2, <1>3 DEF NoData, Buffer

(* A section that is cut short when it is read sets the failbit. *)
LEMMA CutSetsFailbit ==
    ASSUME IInv, LoadSection, ~ starved', NEW n, n = Len(sections) + 1, CutShort(n)'
    PROVE  ~ good'
<1> DEFINE h == Header(n)
           s == sections'[n]
<1>1. file' = file /\ h \in Heads /\ h.size \in Nat
  BY SectionOutcome DEF Heads
<1>2. \/ HeaderAt(n) + SHDR > file.length
      \/ /\ s.head.size > 0 /\ s.head.type \notin {"null", "nobits"}
         /\ ~ (s.data.room > 0) /\ s.head.size < file.length
         /\ s.head.offset + s.head.size > file.length
  BY <1>1 DEF CutShort, LostSection, HasData, HeaderAt
<1>3. CASE HeaderAt(n) + SHDR > file.length
  <2>1. file \in Files /\ HeaderAt(n) + SHDR \in Int /\ file.length \in Int
    <3>1. n \in Int /\ file \in Files
      BY DEF IInv, TypeOK
    <3>2. file.shoff \in Int /\ file.shentsize \in Int /\ file.length \in Int
      BY <3>1, FileTyped
    <3> QED BY <3>1, <3>2 DEF HeaderAt, SHDR
  <2>2. ~ HeaderRead(n)
    BY <1>3, <2>1 DEF HeaderRead
  <2> QED BY <2>2, SectionOutcome
<1>4. CASE /\ s.head.size > 0 /\ s.head.type \notin {"null", "nobits"}
           /\ ~ (s.data.room > 0) /\ s.head.size < file.length
           /\ s.head.offset + s.head.size > file.length
  <2> DEFINE lost == /\ h.size > 0 /\ h.type \notin {"null", "nobits"}
                     /\ h.size < file.length /\ ~ InFile(h)
  <2>1. s.head = h => lost
    <3>1. h.offset \in Nat /\ h.size \in Nat /\ file.length \in Nat
      BY <1>1, FileTyped DEF Heads, IInv
    <3> QED BY <1>4, <3>1 DEF InFile
  <2>2. CASE /\ s.head = h /\ s.data = NoData /\ good' = HeaderRead(n)
             /\ ~ HasContents(h)
    BY <2>1, <2>2 DEF HasContents, HeaderRead
  <2>3. CASE s.data = Buffer(1, 0, TRUE)
    BY <1>4, <2>3 DEF Buffer
  <2>4. CASE s.head = h /\ InFile(h)
    BY <2>1, <2>4
  <2>5. CASE \E prefix \in Nat : s.data = Buffer(prefix + 1, prefix, TRUE)
    BY <1>4, <2>5 DEF Buffer
  <2> HIDE DEF lost, h, s
  <2>6. \/ s.head = h /\ s.data = NoData /\ good' = HeaderRead(n) /\ ~ HasContents(h)
        \/ s.data = Buffer(1, 0, TRUE)
        \/ good' = FALSE
        \/ s.head = h /\ InFile(h)
        \/ \E prefix \in Nat : s.data = Buffer(prefix + 1, prefix, TRUE)
    BY SectionOutcome, Zenon DEF h, s
  <2> QED BY <2>2, <2>3, <2>4, <2>5, <2>6
<1> QED BY <1>2, <1>3, <1>4

LEMMA StreamSection == IInv /\ StreamInv /\ LoadSection => StreamInv'
<1> SUFFICES ASSUME IInv, StreamInv, LoadSection PROVE StreamInv'
  OBVIOUS
<1>0. PICK n : n = Len(sections) + 1
  OBVIOUS
<1>1. /\ UNCHANGED <<file, pc, segments, reply>> /\ pc = "sections"
      /\ Len(sections) \in Nat /\ Len(sections') = n
      /\ \A i \in 1..Len(sections) : sections'[i] = sections[i]
      /\ starved => starved'
  <2>1. Len(sections) \in Nat
    BY DEF IInv, TypeOK
  <2> QED BY <1>0, <2>1, SectionOutcome, Zenon
<1>2. segments' = <<>> /\ ~ reply'
  BY <1>1 DEF StreamInv
<1>3. ~ good => ~ good' /\ sections'[n].head.type = "null" /\ ~ (sections'[n].data.room > 0)
  BY <1>0, BlankAfterFailure
<1>4. ~ starved' /\ CutShort(n)' => ~ good'
  BY <1>0, CutSetsFailbit
<1>5. CutFails'
  <2> SUFFICES ASSUME ~ starved', NEW i \in 1..Len(sections'), CutShort(i)'
               PROVE  /\ ~ good'
                      /\ \A k \in 1..Len(sections') : i < k =>
                            sections'[k].head.type = "null" /\ ~ (sections'[k].data.room > 0)
    BY DEF CutFails, HasData
  <2>1. CASE i \in 1..Len(sections)
    <3>1. CutShort(i)
      BY <1>1, <2>1 DEF CutShort, LostSection, HasData, HeaderAt
    <3>2. /\ ~ good
          /\ \A k \in 1..Len(sections) : i < k =>
                sections[k].head.type = "null" /\ ~ (sections[k].data.room > 0)
      BY <1>1, <2>1, <3>1 DEF StreamInv, CutFails, HasData
    <3> QED BY <1>0, <1>1, <1>3, <3>2
  <2>2. CASE i = n
    BY <1>0, <1>1, <1>4, <2>2
  <2> QED BY <1>0, <1>1, <2>1, <2>2
<1> QED BY <1>1, <1>2, <1>5 DEF StreamInv

LEMMA StreamInit == Init => StreamInv
BY DEF Init, StreamInv, CutFails

LEMMA StreamNext == IInv /\ StreamInv /\ [Next]_vars => StreamInv'
<1> SUFFICES ASSUME IInv, StreamInv, [Next]_vars PROVE StreamInv'
  OBVIOUS
<1>1. ASSUME UNCHANGED <<file, good, sections>>, starved' = starved \/ starved' = TRUE
      PROVE  CutFails'
  BY <1>1 DEF StreamInv, CutFails, CutShort, LostSection, HasData, HeaderAt
<1>2. ASSUME Return(FALSE) PROVE StreamInv'
  BY <1>1, <1>2 DEF Return, StreamInv, stream
<1>3. CASE ReadHeader
  <2>1. CASE /\ pc = "ident" /\ pc' = "sections"
             /\ UNCHANGED <<file, zlib, stream, sections, named, segments, reply>>
    BY <1>1, <2>1 DEF StreamInv, stream
  <2> QED BY <1>2, <1>3, <2>1 DEF ReadHeader
<1>4. CASE LoadSection
  BY <1>4, StreamSection
<1>5. CASE NameSections
  BY <1>1, <1>5 DEF NameSections, StreamInv, stream
<1>6. CASE LoadSegment
  <2> DEFINE g == file.segments[Len(segments) + 1]
  <2>1. CASE /\ pc = "segments" /\ pc' = "done" /\ starved' = TRUE
             /\ UNCHANGED <<file, zlib, good, sections, named, segments, reply>>
    BY <1>1, <2>1 DEF StreamInv
  <2>2. CASE /\ pc = "segments" /\ SegmentRead(Len(segments) + 1) /\ AddSegment(g, Needs(g))
    BY <1>1, <2>2 DEF SegmentRead, AddSegment, StreamInv, stream
  <2> QED BY <1>2, <1>6, <2>1, <2>2 DEF LoadSegment
<1>7. CASE SegmentsDone
  <2>1. /\ pc = "segments" /\ Len(segments) = Len(file.segments) /\ Return(TRUE)
        /\ file \in Files
    BY <1>7 DEF SegmentsDone, IInv
  <2>2. ~ good => file.segments = <<>>
    BY <2>1, FileTyped DEF StreamInv
  <2> QED BY <1>1, <2>1, <2>2 DEF Return, StreamInv, stream
<1>8. CASE UNCHANGED vars
  BY <1>1, <1>8 DEF vars, stream, StreamInv
<1>9. CASE InflateThrows
  <2>1. /\ pc = "sections" /\ pc' = "done" /\ starved' = TRUE
        /\ UNCHANGED <<file, zlib, good, sections, named, segments, reply>>
    BY <1>9 DEF InflateThrows
  <2> QED BY <1>1, <2>1 DEF StreamInv
<1> QED BY <1>3, <1>4, <1>5, <1>6, <1>7, <1>8, <1>9 DEF Next

(* In every file: behind the first section that is cut short all sections   *)
(* are blank, and no file with segments loads after such a failure          *)
(* (section.hpp:199-207, elfio.hpp:566-569).                                *)
THEOREM FailureBlanksTheRest == Spec => []NothingAfterFailure
<1>1. StreamInv => NothingAfterFailure
  BY DEF StreamInv, CutFails, NothingAfterFailure
<1>2. IInv /\ StreamInv /\ [Next]_vars => (IInv /\ StreamInv)'
  BY NextHolds, StreamNext
<1> QED BY <1>1, <1>2, InitHolds, StreamInit, PTL DEF Spec
-----------------------------------------------------------------------------
(* An intact file never sets the failbit: as long as memory lasts, what was *)
(* read so far has its contents, and load only ends with success.           *)
IntactInv == Intact /\ ~ starved =>
    /\ good
    /\ pc \in {"segments", "done"} => Len(sections) = Len(file.sections)
    /\ pc = "done" => reply /\ Len(segments) = Len(file.segments)
    /\ \A i \in 1..Len(sections) :
            sections[i].head.type \notin {"null", "nobits"} => HasData(i)
    /\ \A i \in 1..Len(segments) :
            /\ segments[i].filesz = file.segments[i].filesz
            /\ segments[i].hasData = Needs(file.segments[i])

(* The whole header of a section of an intact file is read, with contents   *)
(* that are there and, where they are compressed, inflate.                  *)
LEMMA IntactHeader ==
    ASSUME file \in Files, Intact, good, NEW i \in 1..Len(file.sections)
    PROVE  /\ HeaderRead(i)
           /\ Header(i).type \notin {"null", "nobits"} =>
                /\ HasContents(Header(i)) /\ InFile(Header(i))
                /\ Header(i).deflate /\ Header(i).size > 0 => zlib /\ Inflates(i, Header(i))
<1> DEFINE h == file.sections[i]
           g == Header(i)
<1>1. HeaderAt(i) \in Int /\ file.length \in Int /\ HeaderAt(i) + SHDR <= file.length
  <2>1. file.shoff \in Int /\ file.shentsize \in Int /\ file.length \in Int /\ i \in Int
    BY FileTyped
  <2>2. HeaderAt(i) \in Int
    BY <2>1 DEF HeaderAt
  <2> QED BY <2>1, <2>2 DEF Intact
<1>2. HasWord(i, 1) /\ HasWord(i, 2) /\ HasWord(i, 3) /\ HasWord(i, 4) /\ HasWord(i, 5) /\ HasWord(i, 6)
  BY <1>1 DEF HasWord, SHDR
<1>3. g.type = h.type /\ g.offset = h.offset /\ g.size = h.size /\ g.deflate = h.deflate
  <2>1. /\ g.type = IF HasWord(i, 2) THEN h.type ELSE "null"
        /\ g.deflate = (HasWord(i, 3) /\ h.deflate)
        /\ g.offset = IF HasWord(i, 5) THEN h.offset ELSE 0
        /\ g.size = IF HasWord(i, 6) THEN h.size ELSE 0
    BY DEF Header
  <2>2. h.deflate \in BOOLEAN
    BY FileTyped
  <2> QED BY <1>2, <2>1, <2>2
<1>4. h.type \notin {"null", "nobits"} =>
        /\ h.size < file.length /\ h.offset + h.size <= file.length
        /\ h.deflate => zlib /\ Inflates(i, h)
  BY DEF Intact
<1>5. Inflates(i, h) = Inflates(i, g)
  BY <1>3 DEF Inflates
<1>6. HeaderRead(i)
  BY <1>1 DEF HeaderRead
<1> HIDE DEF g, h
<1>7. g.type \notin {"null", "nobits"} =>
        /\ HasContents(g) /\ InFile(g)
        /\ g.deflate /\ g.size > 0 => zlib /\ Inflates(i, g)
  BY <1>3, <1>4, <1>5 DEF HasContents, InFile
<1> QED BY <1>6, <1>7 DEF g

LEMMA IntactSection == IInv /\ IntactInv /\ LoadSection => IntactInv'
<1> SUFFICES ASSUME IInv, IntactInv, LoadSection, Intact', ~ starved' PROVE IntactInv'
  BY DEF IntactInv
<1>1. PICK n : n = Len(sections) + 1
  OBVIOUS
<1> DEFINE h == Header(n)
           s == sections'[n]
<1>2. /\ file \in Files /\ n \in 1..Len(file.sections) /\ h \in Heads /\ pc = "sections"
      /\ UNCHANGED <<file, zlib, pc, named, segments, reply>>
      /\ Len(sections') = n /\ Len(sections) \in Nat
      /\ \A i \in 1..Len(sections) : sections'[i] = sections[i]
      /\ starved => starved'
  <2>1. file \in Files /\ Len(sections) \in Nat
    BY DEF IInv, TypeOK
  <2> QED BY <1>1, <2>1, SectionOutcome, Zenon
<1>3. Intact /\ ~ starved
  BY <1>2 DEF Intact, HeaderAt, SegmentAt, Inflates
<1>4. /\ good
      /\ \A i \in 1..Len(sections) :
            sections[i].head.type \notin {"null", "nobits"} => HasData(i)
  BY <1>3 DEF IntactInv
<1>5. /\ HeaderRead(n)
      /\ h.type \notin {"null", "nobits"} =>
            /\ HasContents(h) /\ InFile(h)
            /\ h.deflate /\ h.size > 0 => zlib /\ Inflates(n, h)
  BY <1>2, <1>3, <1>4, IntactHeader
<1>6. HasContents(h) => h.type \notin {"null", "nobits"}
  BY DEF HasContents
<1>7. good' /\ (s.head.type \notin {"null", "nobits"} => s.data.room > 0)
  <2> HIDE DEF h, s
  <2>1. \/ s.head = h /\ good' /\ ~ HasContents(h)
        \/ s.data = Buffer(1, 0, TRUE) /\ good'
        \/ s.data = Buffer(h.size + 1, h.size, TRUE) /\ good'
        \/ \E prefix \in Nat : s.data = Buffer(prefix + 1, prefix, TRUE) /\ good'
    BY <1>1, <1>2, <1>3, <1>5, <1>6, SectionOutcome, Zenon DEF h, s
  <2>2. h.size \in Nat
    BY <1>2 DEF Heads
  <2>3. \A room, filled : Buffer(room, filled, TRUE).room = room
    BY DEF Buffer
  <2>4. /\ good'
        /\ \/ s.head = h /\ ~ HasContents(h)
           \/ s.data.room = 1
           \/ s.data.room = h.size + 1
           \/ \E prefix \in Nat : s.data.room = prefix + 1
    BY <2>1, <2>3, Zenon
  <2> QED BY <1>5, <2>2, <2>4
<1>8. \A i \in 1..Len(sections') :
        sections'[i].head.type \notin {"null", "nobits"} => sections'[i].data.room > 0
  <2> HIDE DEF s
  <2>1. \A i \in 1..Len(sections') : i \in 1..Len(sections) \/ i = n
    BY <1>1, <1>2
  <2> QED BY <1>2, <1>4, <1>7, <2>1 DEF HasData, s
<1>9. \A i \in 1..Len(segments') :
        /\ segments'[i].filesz = file'.segments[i].filesz
        /\ segments'[i].hasData = Needs(file.segments[i])'
  BY <1>2, <1>3 DEF IntactInv, Needs
<1> QED BY <1>2, <1>7, <1>8, <1>9 DEF IntactInv, HasData

LEMMA IntactInit == Init => IntactInv
BY DEF Init, IntactInv

LEMMA IntactNext == IInv /\ IntactInv /\ [Next]_vars => IntactInv'
<1> SUFFICES ASSUME IInv, IntactInv, [Next]_vars PROVE IntactInv'
  OBVIOUS
<1>1. file \in Files /\ (UNCHANGED <<file, zlib>> => Intact' = Intact)
  BY DEF IInv, Intact, HeaderAt, SegmentAt, Inflates
<1>2. ASSUME UNCHANGED <<file, zlib, stream, sections, segments, pc, reply>> PROVE IntactInv'
  BY <1>1, <1>2 DEF IntactInv, stream, HasData, Needs
<1>3. CASE ReadHeader
  <2>1. CASE /\ pc = "ident" /\ pc' = "sections"
             /\ UNCHANGED <<file, zlib, stream, sections, named, segments, reply>>
    BY <1>1, <2>1 DEF IntactInv, stream, HasData, Needs
  <2>2. CASE ~ (file.exists /\ file.length >= IDENT /\ file.magic /\ file.length >= EHDR)
             /\ Return(FALSE)
    <3>1. ~ Intact
      BY <1>1, <2>2, FileTyped DEF Intact, IDENT, EHDR
    <3> QED BY <1>1, <2>2, <3>1 DEF IntactInv, Return
  <2>3. CASE file.shentsize < SHDR /\ Return(FALSE)
    <3>1. ~ Intact
      BY <1>1, <2>3, FileTyped DEF Intact, SHDR
    <3> QED BY <1>1, <2>3, <3>1 DEF IntactInv, Return
  <2> QED BY <1>3, <2>1, <2>2, <2>3 DEF ReadHeader
<1>4. CASE LoadSection
  BY <1>4, IntactSection
<1>5. CASE NameSections
  BY <1>1, <1>5 DEF NameSections, IntactInv, stream, HasData, Needs
<1>6. CASE LoadSegment
  <2>1. PICK i : i = Len(segments) + 1
    OBVIOUS
  <2> DEFINE g == file.segments[i]
             whole == InFile([offset |-> g.offset, size |-> g.filesz])
             sound == file.phentsize >= PHDR /\ SegmentRead(i)
  <2>2. i \in 1..Len(file.segments) /\ Len(segments) \in Nat /\ segments \in Seq(Loaded)
    <3>1. segments \in Seq(Loaded) /\ Len(segments) < Len(file.segments)
          /\ Len(file.segments) \in Nat
      BY <1>1, <1>6, FileTyped DEF LoadSegment, IInv, TypeOK
    <3> QED BY <2>1, <3>1
  <2>3. ASSUME Intact, good PROVE sound /\ whole
    <3>1. /\ SegmentAt(i) + PHDR <= file.length /\ g.offset + g.filesz <= file.length
          /\ file.phentsize >= PHDR
      BY <2>2, <2>3 DEF Intact
    <3> QED BY <2>3, <3>1 DEF SegmentRead, InFile
  <2>4. /\ pc = "segments"
        /\ \/ (~ sound \/ (Needs(g) /\ ~ whole)) /\ Return(FALSE)
           \/ starved' /\ UNCHANGED <<file, zlib>>
           \/ AddSegment(g, Needs(g))
    BY <1>6, <2>1, Zenon DEF LoadSegment
  <2>5. CASE (~ sound \/ (Needs(g) /\ ~ whole)) /\ Return(FALSE)
    <3>1. ~ (Intact /\ good)
      BY <2>3, <2>5
    <3> QED BY <1>1, <2>5, <3>1 DEF IntactInv, Return, stream
  <2>6. CASE starved' /\ UNCHANGED <<file, zlib>>
    BY <2>6 DEF IntactInv
  <2>7. CASE AddSegment(g, Needs(g))
    <3>1. /\ segments' = Append(segments, Entry(g, Needs(g)))
          /\ UNCHANGED <<file, zlib, pc, stream, sections, named, reply>>
      BY <2>7, Zenon DEF AddSegment, Entry
    <3>2. Entry(g, Needs(g)) \in Loaded
      <4>1. Needs(g) \in BOOLEAN
        BY DEF Needs
      <4> QED BY <1>1, <2>2, <4>1, EntryTyped DEF IInv
    <3>3. Entry(g, Needs(g)).filesz = g.filesz /\ Entry(g, Needs(g)).hasData = Needs(g)
      BY DEF Entry
    <3>4. /\ Len(segments') = i
          /\ \A k \in 1..Len(segments) : segments'[k] = segments[k]
          /\ segments'[i] = Entry(g, Needs(g))
      <4> HIDE DEF g
      <4> QED BY <2>1, <2>2, <3>1, <3>2
    <3>5. \A k \in 1..Len(segments') : k \in 1..Len(segments) \/ k = i
      BY <2>1, <2>2, <3>4
    <3>6. ASSUME Intact, ~ starved, NEW k \in 1..Len(segments')
          PROVE  /\ segments'[k].filesz = file.segments[k].filesz
                 /\ segments'[k].hasData = Needs(file.segments[k])
      <4>1. CASE k = i
        BY <3>3, <3>4, <4>1
      <4>2. CASE k \in 1..Len(segments)
        BY <3>4, <3>6, <4>2 DEF IntactInv
      <4> QED BY <3>5, <4>1, <4>2
    <3>7. /\ pc' = pc /\ reply' = reply /\ good' = good /\ starved' = starved
          /\ sections' = sections /\ file' = file /\ zlib' = zlib
      BY <3>1 DEF stream
    <3>8. \A f \in {file.segments[k] : k \in 1..Len(segments')} : Needs(f)' = Needs(f)
      BY <3>7 DEF Needs
    <3> HIDE DEF g, sound, whole
    <3> QED BY <1>1, <2>4, <3>6, <3>7, <3>8 DEF IntactInv, HasData, Needs
  <2> QED BY <2>4, <2>5, <2>6, <2>7
<1>7. CASE SegmentsDone
  BY <1>1, <1>7 DEF SegmentsDone, Return, IntactInv, stream, HasData, Needs
<1>8. CASE UNCHANGED vars
  BY <1>2, <1>8 DEF vars, stream
<1>9. CASE InflateThrows
  <2>1. starved' = TRUE
    BY <1>9 DEF InflateThrows
  <2> QED BY <2>1 DEF IntactInv
<1> QED BY <1>3, <1>4, <1>5, <1>6, <1>7, <1>8, <1>9 DEF Next

(* Whatever is in it, a file nothing is wrong with is loaded, with the      *)
(* contents of all of its sections and segments, unless memory runs out.    *)
THEOREM IntactFilesAreLoaded == Spec => []IntactFilesLoad
<1>1. IInv /\ IntactInv => IntactFilesLoad
  <2> SUFFICES ASSUME IInv, IntactInv, pc = "done", Intact, ~ starved
               PROVE  /\ reply
                      /\ Len(sections) = Len(file.sections)
                      /\ Len(segments) = Len(file.segments)
                      /\ \A i \in 1..Len(sections) :
                            sections[i].head.type \notin {"null", "nobits"} => HasData(i)
                      /\ \A i \in 1..Len(segments) :
                            /\ file.segments[i].type # "null"
                            /\ segments[i].filesz > 0
                            => segments[i].hasData
    BY DEF IntactFilesLoad
  <2>1. /\ reply /\ Len(sections) = Len(file.sections) /\ Len(segments) = Len(file.segments)
        /\ \A i \in 1..Len(sections) :
              sections[i].head.type \notin {"null", "nobits"} => HasData(i)
    BY DEF IntactInv
  <2>2. ASSUME NEW i \in 1..Len(segments), file.segments[i].type # "null", segments[i].filesz > 0
        PROVE  segments[i].hasData
    <3> DEFINE g == file.segments[i]
    <3>1. /\ g.offset \in Nat /\ g.filesz \in Nat /\ file.length \in Nat
          /\ g.offset + g.filesz <= file.length
      BY <2>1, FileTyped DEF IInv, Intact
    <3>2. segments[i].filesz = g.filesz /\ segments[i].hasData = Needs(g)
      BY DEF IntactInv
    <3>3. Needs(g)
      BY <2>2, <3>1, <3>2 DEF Needs
    <3> QED BY <3>2, <3>3, Zenon
  <2> QED BY <2>1, <2>2
<1>2. IInv /\ IntactInv /\ [Next]_vars => (IInv /\ IntactInv)'
  BY NextHolds, IntactNext
<1> QED BY <1>1, <1>2, InitHolds, IntactInit, PTL DEF Spec
=============================================================================
