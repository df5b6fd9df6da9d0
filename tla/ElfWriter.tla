----------------------------- MODULE ElfWriter -----------------------------
(***************************************************************************)
(* elfio::save (source/elfio/elfio.hpp:203-236): segments are put into an  *)
(* order, the sections of each are given their places in the file and in   *)
(* memory, the other sections follow, then the section table, and all of   *)
(* it is written.  One step per round of each loop; nothing else runs      *)
(* meanwhile.                                                              *)
(*                                                                         *)
(* Segments are counted from 1 and name their sections by position.        *)
(* Offsets and addresses are unsigned words and wrap.                      *)
(***************************************************************************)
EXTENDS ElfData, FiniteSetsExt

CONSTANTS WORD      \* the number of values an offset has (2^64 in the code)

EHDR == 52          \* bytes of the ELF header and of a segment's and a
PHDR == 32          \* section's header in an Elf32 file
SHDR == 40

ASSUME WordAssumption == WORD \in Nat /\ WORD > EHDR

VARIABLES
    segments,   \* type, members, align, vaddr, offset, offsetSet, filesz, memsz
    work,       \* the segments get_ordered_segments has left
    order,      \* and those it has put in order
    turn,       \* the segment (its place in order) or the section at hand
    pos,        \* current_file_pos
    cur,        \* that segment's start, memory size, file size and member
    generated,  \* the sections that have their place
    table,      \* where the section table goes
    good,       \* the stream saved to has not failed yet
    stored,     \* the bytes written of each section
    regular,    \* history: whether the object was Regular before its save
                \* and no offset or address has come to the end of the words,
    last        \* and the layout an earlier save gave it, if it was then

plan   == <<work, order>>
place  == <<pos, cur, generated, table>>
disk   == <<good, stored>>
past   == <<regular, last>>
layout == <<segments, plan, turn, place, disk, past>>
client == <<edits, saves, elf>>

SegmentTypes == {"load", "phdr", "tls", "other"}

Plus(a, b) == (a + b) % WORD
Minus(a, b) == (a - b) % WORD

(* The distance from p to the next multiple of align                        *)
Gap(p, align) == IF align > 1 THEN (align - (p % align)) % align ELSE 0

-----------------------------------------------------------------------------
(* What the client does: segments.add() and its fields, add_section, and    *)
(* set_address of a section                                                 *)
AddSegment(shape) ==
    /\ Edit
    /\ IF elf.header THEN segments' = Append(segments, shape) /\ UNCHANGED <<pc, elf, sections>>
       ELSE Crash /\ UNCHANGED segments
    /\ UNCHANGED <<plan, turn, place, disk, past>>

AddToSegment(g, i) ==
    /\ Edit
    /\ segments' = [segments EXCEPT ![g].members = Append(@, i),
                                    ![g].align = Max({@, sections[i].align})]
    /\ UNCHANGED <<pc, elf, sections, plan, turn, place, disk, past>>

SetAddress(i, a) ==
    /\ Edit
    /\ sections' = [sections EXCEPT ![i].addr = a, ![i].addrSet = TRUE]
    /\ UNCHANGED <<pc, elf, layout>>

-----------------------------------------------------------------------------
(* Objects save has to lay out well.  Their segments are disjoint, or one   *)
(* is part of the other.  Each lists its sections in ascending order, those *)
(* that take memory first; they have no addresses, and only the last may be *)
(* without bytes in the file; or all have addresses, which ascend from the  *)
(* segment's without overlap, with no gap before one without bytes.  A part *)
(* of another segment, or one with the same sections, starts at the address *)
(* of its first section, which is not behind one without bytes unless it    *)
(* has some itself, and its alignment divides the other's.  At most one     *)
(* with sections is loaded from offset 0: it is aligned there, has          *)
(* addresses, leaves room for the headers, is no part of another, and       *)
(* follows none that has no offset yet (ToFront takes such a one to be at   *)
(* 0).  Alignments are powers of two, as WORD is.                           *)
InFile(s) == s.type \notin {"null", "nobits"} /\ s.size # 0

(* .tbss takes no memory but in the segment of thread local storage         *)
InMemory(s, g) == s.alloc /\ ~ (s.tls /\ g.type # "tls" /\ s.type = "nobits")

Span(g) == {g.members[k] : k \in 1..Len(g.members)}

Rising(g) == \A j, k \in 1..Len(g.members) : j < k => g.members[j] < g.members[k]

End(g, k) ==
    IF k = 0 THEN g.vaddr
    ELSE LET s == sections[g.members[k]]
         IN  s.addr + IF s.alloc /\ ~ InMemory(s, g) THEN 0 ELSE s.size

Unplaced(g) == \A k \in 1..Len(g.members) : LET s == sections[g.members[k]] IN
    ~ s.addrSet /\ (s.type = "nobits" => k = Len(g.members))

Rowed(g) == \A k \in 1..Len(g.members) : LET s == sections[g.members[k]] IN
    /\ s.addrSet
    /\ \A j \in 0..k - 1 : End(g, j) <= s.addr
    /\ InFile(s) \/ s.addr = End(g, k - 1)

InRow(g) ==
    /\ Rising(g)
    /\ \A k \in 1..Len(g.members) : LET s == sections[g.members[k]] IN
        /\ g.members[k] > 1 /\ s.type # "null" /\ (s.type = "nobits" => s.alloc)
        /\ \A j \in 1..k - 1 : s.alloc => sections[g.members[j]].alloc
    /\ Unplaced(g) \/ Rowed(g)

AtSectionStart(g) ==
    LET s == sections[g.members[1]] IN s.addrSet /\ s.addr = g.vaddr

AtZero(g) == g.offsetSet /\ g.offset = 0
Headed(g) == AtZero(g) /\ g.members # <<>>

Pages(g) == Max({g.align, 1})

(* As far from the segment's start in the file as in memory                 *)
Straight(i, g) ==
    InFile(sections[i]) \/ \A j \in Span(g) : j < i => sections[j].type # "nobits"

PartOf(g, h) ==
    /\ Span(g) \subseteq Span(h) /\ ~ AtZero(g)
    /\ AtSectionStart(g) /\ Straight(g.members[1], h)
    /\ Pages(h) % Pages(g) = 0

Apart(g, h) ==
    \/ Span(g) \cap Span(h) = {}
    \/ Span(g) # Span(h) /\ (PartOf(g, h) \/ PartOf(h, g))
    \/ Span(g) = Span(h) /\ PartOf(g, h) /\ PartOf(h, g)

RoomForHeaders(g) ==
    LET s == sections[g.members[1]]
    IN  s.addrSet /\ s.addr >= g.vaddr + EHDR + PHDR * Len(segments)

Regular ==
    /\ \A i \in 1..Len(sections) : sections[i].type = "null" => sections[i].size = 0
    /\ \A g \in 1..Len(segments) : InRow(segments[g]) /\ WORD % Pages(segments[g]) = 0
    /\ \A g, h \in 1..Len(segments) :
            /\ g # h => Apart(segments[g], segments[h])
            /\ g # h => ~ (Headed(segments[g]) /\ Headed(segments[h]))
            /\ g < h /\ AtZero(segments[h]) => segments[g].offsetSet
    /\ \A g \in 1..Len(segments) : Headed(segments[g]) =>
            segments[g].vaddr % Pages(segments[g]) = 0 /\ RoomForHeaders(segments[g])

(* What is laid out comes to the places or sizes in reached.                *)
Reach(reached) == regular' = (regular /\ \A n \in reached : n < WORD) /\ UNCHANGED last

Offsets ==
    <<[i \in 1..Len(sections) |-> sections[i].offset], [g \in 1..Len(segments) |-> segments[g].offset], table>>

-----------------------------------------------------------------------------
Return(result) == pc' = "edit" /\ reply' = result

(* calc_segment_alignment                                                   *)
Aligned(g) ==
    [g EXCEPT !.align = Max({@} \cup {sections[g.members[k]].align : k \in 1..Len(g.members)})]

(* The segments at offset 0 change places with the first ones: i and        *)
(* nextSlot (slot) run through the list.                                    *)
Swapped(list, i, k) ==
    [n \in 1..Len(list) |-> IF n = i THEN list[k] ELSE IF n = k THEN list[i] ELSE list[n]]

BugToFront(list) == list
ToFront(list) ==
    LET step[i \in 0..Len(list)] ==
            IF i = 0 THEN [list |-> list, slot |-> 1]
            ELSE LET was == step[i - 1]
                     to  == IF segments[was.list[was.slot]].offset = 0 THEN was.slot + 1
                            ELSE was.slot
                 IN  IF i # was.slot /\ AtZero(segments[was.list[i]])
                     THEN [list |-> Swapped(was.list, i, to), slot |-> to + 1]
                     ELSE was
    IN  step[Len(list)].list

SaveBegin ==
    /\ pc = "edit" /\ saves > 0
    /\ saves' = saves - 1
    /\ UNCHANGED <<edits, elf, sections>>
    /\ \/ reply' = "failed"    \* the stream had failed, or there is no header
          /\ UNCHANGED <<pc, layout>>
       \/ /\ elf.header
          /\ pc' = "order" /\ reply' = "none"
          /\ segments' = [g \in 1..Len(segments) |-> Aligned(segments[g])]
          /\ work' = ToFront([g \in 1..Len(segments) |-> g]) /\ order' = <<>>
          /\ pos' = Plus(EHDR, PHDR * Len(segments)) /\ generated' = {} /\ table' = 0
          /\ good' = TRUE /\ stored' = <<>>
          /\ regular' = (Regular' /\ EHDR + PHDR * Len(segments) < WORD)
          /\ last' = IF reply = "ok" /\ regular THEN Offsets ELSE <<>>
          /\ UNCHANGED <<turn, cur>>

(* is_subsequence_of: std::includes on the two lists of members             *)
BugIncludes(b, a) == SubSeq(b, 1, Len(a)) = a
Includes(b, a) ==
    LET from[i \in 1..Len(b) + 1] == [j \in 1..Len(a) + 1 |->
            IF j > Len(a) THEN TRUE
            ELSE IF i > Len(b) \/ a[j] < b[i] THEN FALSE
            ELSE from[i + 1][IF a[j] = b[i] THEN j + 1 ELSE j]]
    IN  from[1][1]

BugSubsequence(g, h) == Includes(segments[h].members, segments[g].members)
Subsequence(g, h) ==
    /\ Len(segments[g].members) < Len(segments[h].members)
    /\ Includes(segments[h].members, segments[g].members)

(* A segment whose sections are all in another one waits until that one is  *)
(* in order.                                                                *)
BugOrderStep ==
    /\ pc = "order" /\ work # <<>>
    /\ LET g == Head(work)
           rest == Tail(work)
       IN  /\ work' = rest
           /\ order' = IF \E i \in 1..Len(rest) : Subsequence(g, rest[i]) THEN order
                       ELSE Append(order, g)
    /\ UNCHANGED <<core, segments, turn, place, disk, past>>
OrderStep ==
    /\ pc = "order" /\ work # <<>>
    /\ LET g == Head(work)
           rest == Tail(work)
           waits == \E i \in 1..Len(rest) : Subsequence(g, rest[i])
       IN  /\ work' = IF waits THEN Append(rest, g) ELSE rest
           /\ order' = IF waits THEN order ELSE Append(order, g)
    /\ UNCHANGED <<core, segments, turn, place, disk, past>>

Turn(from, to) ==
    /\ pc = from /\ pc' = to /\ turn' = 1
    /\ UNCHANGED <<client, reply, sections, segments, plan, place, disk, past>>

Ordered == work = <<>> /\ Turn("order", "segment")

-----------------------------------------------------------------------------
(* layout_segments_and_their_sections: where the segment at hand starts,    *)
(* and what it holds before any of its sections                             *)
Segment == segments[order[turn]]

Start(p, size) ==
    /\ pc' = "members"
    /\ cur' = [start |-> p, mem |-> size, file |-> size, member |-> 1]
    /\ UNCHANGED <<client, reply, sections, segments, plan, turn, generated, table, disk>>

Program == Segment.type = "phdr" /\ Segment.members = <<>>
Fresh == Segment.members # <<>> /\ Segment.members[1] \notin generated

BugToPage == Gap(pos, Segment.align)
ToPage ==
    LET align == Pages(Segment)
        error == Minus(Segment.vaddr % align, pos % align)
    IN  Plus(Segment.align, error) % align

BeginSegment ==
    /\ pc = "segment" /\ turn <= Len(order)
    /\ LET g == Segment
       IN  \/ /\ Program
              /\ Start(EHDR, Plus(0, PHDR * Len(segments))) /\ UNCHANGED <<pos, past>>
           \/ /\ ~ Program /\ AtZero(g)
              /\ Start(0, IF g.members = <<>> THEN 0 ELSE pos) /\ UNCHANGED <<pos, past>>
           \/ /\ ~ Program /\ ~ AtZero(g) /\ Fresh
              /\ pos' = Plus(pos, ToPage) /\ Start(pos', 0) /\ Reach({pos + ToPage})
           \/ /\ ~ Program /\ ~ AtZero(g) /\ ~ Fresh
              /\ Start(IF g.members = <<>> THEN pos ELSE sections[g.members[1]].offset, 0)
              /\ UNCHANGED <<pos, past>>

(* write_segment_data, one section at a time.  The bytes to leave before it *)
(* come from its address, its alignment, or the place it already has.       *)
Addressed(i) == sections[i].addrSet /\ sections[i].type # "nobits" /\ sections[i].size # 0
Distance(i) == Minus(sections[i].addr, Segment.vaddr)

Backwards(i) == i \notin generated /\ Addressed(i) /\ Distance(i) < Minus(pos, cur.start)

BugLeave(i) == IF i \in generated THEN 0 ELSE Gap(pos, sections[i].align)
Leave(i) ==
    IF i \in generated THEN Minus(Minus(sections[i].offset, cur.start), cur.file)
    ELSE IF Addressed(i) THEN Minus(Distance(i), Minus(pos, cur.start))
    ELSE IF sections[i].addrSet THEN 0
    ELSE Gap(pos, sections[i].align)

BugExtended(i) ==
    [cur EXCEPT !.member = @ + 1,
                !.mem  = IF InMemory(sections[i], Segment) THEN Plus(@, sections[i].size) ELSE @,
                !.file = IF sections[i].type # "nobits" THEN Plus(@, sections[i].size) ELSE @]
Extended(i) ==
    LET more == sections[i].size + Leave(i)
    IN  [cur EXCEPT !.member = @ + 1,
                    !.mem  = IF InMemory(sections[i], Segment) THEN Plus(@, more) ELSE @,
                    !.file = IF sections[i].type # "nobits" THEN Plus(@, more) ELSE @]

BugPlaced(s, at) ==
    [s EXCEPT !.offset = at, !.addrSet = TRUE,
              !.addr = IF s.addrSet THEN @ ELSE Plus(Segment.vaddr, cur.mem)]
Placed(s, at) ==
    [s EXCEPT !.offset = at, !.addrSet = TRUE,
              !.addr = IF s.addrSet THEN @ ELSE Plus(Segment.vaddr, Minus(at, cur.start))]

BugAfter(s, at) == IF s.type = "nobits" THEN pos ELSE Plus(pos, s.size)
After(s, at) == IF s.type = "nobits" THEN at ELSE Plus(at, s.size)

PlaceMember ==
    /\ pc = "members" /\ cur.member <= Len(Segment.members)
    /\ LET i == Segment.members[cur.member]
           at == Plus(pos, Leave(i))
           more == sections[i].size + Leave(i)
           null == sections[i].type = "null"
       IN  \/ /\ null
              /\ generated' = generated \cup {i} /\ cur' = [cur EXCEPT !.member = @ + 1]
              /\ UNCHANGED <<pc, reply, sections, pos, past>>
           \/ /\ ~ null /\ Backwards(i)
              /\ Return("failed")
              /\ UNCHANGED <<sections, pos, cur, generated, past>>
           \/ /\ ~ null /\ i \in generated
              /\ cur' = Extended(i) /\ Reach({cur.mem + more})
              /\ UNCHANGED <<pc, reply, sections, pos, generated>>
           \/ /\ ~ null /\ i \notin generated /\ ~ Backwards(i)
              /\ cur' = Extended(i)
              /\ Reach({pos + more, cur.mem + more, Segment.vaddr + Minus(pos, cur.start) + more})
              /\ sections' = [sections EXCEPT ![i] = Placed(@, at)]
              /\ pos' = After(sections[i], at)
              /\ generated' = generated \cup {i}
              /\ UNCHANGED <<pc, reply>>
    /\ UNCHANGED <<client, segments, plan, turn, table, disk>>

(* A memory size the file had does not shrink.                              *)
EndSegment ==
    /\ pc = "members" /\ cur.member > Len(Segment.members)
    /\ pc' = "segment" /\ turn' = turn + 1
    /\ segments' = [segments EXCEPT ![order[turn]] =
          [Segment EXCEPT !.filesz = cur.file, !.memsz = Max({@, cur.mem}),
                          !.offset = cur.start, !.offsetSet = TRUE]]
    /\ UNCHANGED <<client, reply, sections, plan, place, disk, past>>

SegmentsPlaced == turn > Len(order) /\ Turn("segment", "loose")

-----------------------------------------------------------------------------
(* layout_sections_without_segments                                         *)
LooseSection ==
    /\ pc = "loose" /\ turn <= Len(sections)
    /\ turn' = turn + 1
    /\ LET s == sections[turn]
           gap == Gap(pos, s.align)
           more == gap + IF s.type \in {"null", "nobits"} THEN 0 ELSE s.size
           member == \E g \in 1..Len(segments) : turn \in Span(segments[g])
       IN  \/ member /\ UNCHANGED <<sections, pos, past>>
           \/ /\ ~ member
              /\ sections' = IF turn = 1 THEN sections
                             ELSE [sections EXCEPT ![turn].offset = Plus(pos, gap)]
              /\ pos' = Plus(pos, more) /\ Reach({pos + more})
    /\ UNCHANGED <<pc, client, reply, segments, plan, cur, generated, table, disk>>

(* layout_section_table                                                     *)
PlaceTable ==
    /\ pc = "loose" /\ turn > Len(sections)
    /\ table' = Plus(pos, Gap(pos, 4)) /\ pos' = table' /\ Reach({pos + Gap(pos, 4)})
    /\ pc' = "header"
    /\ UNCHANGED <<client, reply, sections, segments, plan, turn, cur, generated, disk>>

(* The header is written, and only if it cannot be does save fail.          *)
SaveHeader ==
    /\ pc = "header"
    /\ \/ Return("failed") /\ good' = FALSE
       \/ pc' = "write" /\ UNCHANGED <<reply, good>>
    /\ UNCHANGED <<client, sections, segments, plan, turn, place, stored, past>>

(* save_sections: from some write on nothing may get written.  deflate      *)
(* gives any number of bytes up to the section's size, none if it fails.    *)
Deflated(s) == {0, s.size \div 2, s.size}

Bytes(s) ==
    IF ~ (InFile(s) /\ s.room > 0) THEN {0}
    ELSE IF s.deflate /\ elf.zlib THEN Deflated(s)
    ELSE {s.size}

SaveSection ==
    /\ pc = "write" /\ Len(stored) < Len(sections)
    /\ \/ /\ good /\ UNCHANGED good
          /\ \E n \in Bytes(sections[Len(stored) + 1]) : stored' = Append(stored, n)
       \/ good' = FALSE /\ stored' = Append(stored, 0)
    /\ UNCHANGED <<core, segments, plan, turn, place, past>>

SaveSegments ==
    /\ pc = "write" /\ Len(stored) = Len(sections)
    /\ Return("ok")
    /\ \/ UNCHANGED good
       \/ good' = FALSE
    /\ UNCHANGED <<client, sections, segments, plan, turn, place, stored, past>>

SaveStep ==
    \/ OrderStep \/ Ordered
    \/ BeginSegment \/ PlaceMember \/ EndSegment \/ SegmentsPlaced
    \/ LooseSection \/ PlaceTable \/ SaveHeader
    \/ SaveSection \/ SaveSegments

-----------------------------------------------------------------------------
(* validate(): its two tests                                                *)
Holds(s, at) == s.offset <= at /\ at < s.offset + s.size

(* The type is masked with SHT_NOBITS (8): other types that have this bit   *)
(* (an array is one of constructors or destructors) are left out too.       *)
Masked(s) == s.type \in {"nobits", "rel", "versym", "array"}

Overlap(a, b) ==
    /\ ~ Masked(a) /\ ~ Masked(b)
    /\ a.size > 0 /\ b.size > 0 /\ a.offset > 0 /\ b.offset > 0
    /\ \/ Holds(b, a.offset) \/ Holds(b, a.offset + a.size - 1)
       \/ Holds(a, b.offset) \/ Holds(a, b.offset + b.size - 1)

Conflict(g) ==
    LET found == {i \in 1..Len(sections) :
                    sections[i].type = "progbits" /\ Holds(sections[i], g.offset)}
        s == sections[Min(found)]
    IN  /\ g.type = "load" /\ g.filesz > 0 /\ found # {}
        /\ Minus(Plus(s.addr, g.offset), s.offset) # g.vaddr

Validates ==
    /\ \A a, b \in 1..Len(sections) : a < b => ~ Overlap(sections[a], sections[b])
    /\ \A g \in 1..Len(segments) : ~ Conflict(segments[g])

-----------------------------------------------------------------------------
Saved == pc = "edit" /\ reply = "ok"

(* What a save that succeeds has put in the file is whole, if the stream    *)
(* never failed, but for what had been lost before and what is compressed;  *)
(* and it is not under anything else: the headers, the two tables and the   *)
(* contents of the sections are apart (elfio.hpp:600-628, 708-917).         *)
Extents ==
    <<<<0, EHDR>>, <<EHDR, PHDR * Len(segments)>>, <<table, SHDR * Len(sections)>>>>
    \o [i \in 1..Len(sections) |-> <<sections[i].offset, stored[i]>>]
FileIntact ==
    /\ Saved /\ good => \A i \in 1..Len(sections) : LET s == sections[i] IN
            InFile(s) /\ ~ Lost(s) /\ ~ s.deflate => stored[i] = s.size
    /\ Saved /\ regular => \A a, b \in 1..Len(sections) + 3 :
            LET x == Extents[a] y == Extents[b]
            IN  a < b /\ x[2] > 0 /\ y[2] > 0 => x[1] + x[2] <= y[1] \/ y[1] + y[2] <= x[1]

(* A saved segment covers its sections in the file and in memory, and each  *)
(* section is as far from its start in one as in the other, also in a       *)
(* segment that is part of another; in memory they are apart too            *)
(* (elfio.hpp:833-913).                                                     *)
SegmentsHoldSections == Saved /\ regular => \A n \in 1..Len(segments) :
    LET g == segments[n]
    IN  \A i \in Span(g) : LET s == sections[i] IN s.size > 0 =>
            /\ InFile(s) => /\ s.offset - g.offset = s.addr - g.vaddr
                            /\ g.offset <= s.offset /\ s.offset + s.size <= g.offset + g.filesz
            /\ InMemory(s, g) =>
                    s.addr >= g.vaddr /\ s.addr + s.size <= g.vaddr + g.memsz
            /\ \A k \in Span(g) : k > i /\ InMemory(s, g) /\ sections[k].alloc =>
                    s.addr + s.size <= sections[k].addr

(* The offset and the address of a saved segment are equal modulo its       *)
(* alignment, or it could not be mapped (elfio.hpp:776-790).                *)
SegmentsCongruent == Saved /\ regular => \A n \in 1..Len(segments) :
    LET g == segments[n]
    IN  g.members # <<>> => (g.offset - g.vaddr) % Pages(g) = 0

(* elfio's own validate() finds nothing wrong with what save made.          *)
SavedValidates == Saved /\ regular => Validates

(* No segment comes before one that has all of its sections and more, if    *)
(* both list their sections in ascending order, as std::includes requires.  *)
SegmentsOrdered == pc = "segment" => \A i, k \in 1..Len(order) :
    LET g == segments[order[i]] h == segments[order[k]]
    IN  i < k /\ Rising(g) /\ Rising(h) => ~ (Span(g) \subseteq Span(h) /\ Span(g) # Span(h))

(* An object that is saved again without a change is laid out as before.    *)
SaveAgainSame == Saved /\ regular /\ last # <<>> => Offsets = last

(* "something has gone awfully wrong" (elfio.hpp:856) is for objects that   *)
(* are not regular.                                                         *)
RegularSaves == [][pc = "members" /\ reply' = "failed" => ~ regular]_<<pc, reply>>
=============================================================================
