----------------------------- MODULE ElfObject -----------------------------
(***************************************************************************)
(* An elfio object and its client: sections, segments and the entries of   *)
(* tables are added in any order, symbols arranged, and the object saved   *)
(* as often as its client likes.                                           *)
(***************************************************************************)
EXTENDS ElfTables, ElfWriter

CONSTANTS
    Objects,        \* what the client starts with
    SectionShapes,  \* the fields of sections it adds,
    SegmentShapes,  \* and of segments
    Addresses,      \* the addresses it sets
    Chunks          \* the sizes of data it sets or appends

(* Objects and the sections clients add have buffers of the sizes they say, *)
(* as load and the constructor of a section leave them.                     *)
BufferFields == {"type", "starved", "size", "cap", "room"}

Buffered(s) ==
    /\ BufferFields \subseteq DOMAIN s
    /\ s.size \in Nat /\ s.cap \in Nat /\ s.room \in Nat
    /\ s.type # "nobits" => BufferSound(s)

BufferedList(all) ==
    /\ all \in Seq({all[i] : i \in DOMAIN all})
    /\ \A i \in DOMAIN all : Buffered(all[i])

(* What a table that is whole measures: each entry its bytes; strings apart *)
(* from each other; notes one behind the other, attributes with zeros       *)
(* between them; every symbol once.                                         *)
NoteEnd(s, k) == IF k = 0 THEN 0 ELSE s.entries[k].at + NoteBytes(s.entries[k])

AttributeEnd(s, k) == IF k = 0 THEN 0 ELSE s.entries[k].at + s.entries[k].length + 1

Measured(s) ==
    LET n == Len(s.entries)
    IN  /\ s.type = "symtab" => s.size = SYM * n /\ {s.entries[k].is : k \in 1..n} = 0..n - 1
        /\ s.type = "dynamic" => s.size = DYN * n
        /\ s.type = "versym" => s.size = VERSYM * n
        /\ s.type = "array" => s.size = ADDRESS * n
        /\ s.type = "strtab" => \A k \in 1..n : /\ s.entries[k].at \in 0..s.size - 1
                /\ \A j \in 1..k - 1 : s.entries[j].at < s.entries[k].at
        /\ s.type = "note" =>
                /\ s.size = NoteEnd(s, n)
                /\ \A k \in 1..n : /\ s.entries[k].namesz \in Nat /\ s.entries[k].descsz \in Nat
                                   /\ s.entries[k].at \in Nat /\ s.entries[k].at = NoteEnd(s, k - 1)
                                   /\ NoteEnd(s, k) <= s.size
        /\ s.type = "modinfo" => \A k \in 1..n :
                /\ s.entries[k].at \in Nat /\ s.entries[k].length \in Nat \ {0}
                /\ AttributeEnd(s, k - 1) <= s.entries[k].at /\ AttributeEnd(s, k) <= s.size

(* Places are words, and a segment's sections are there.                    *)
PlaceFields == {"align", "alloc", "tls", "addr", "addrSet", "offset"}
Placeable(s) ==
    /\ s.type \in Types \cup Lists /\ s.align \in Nat
    /\ s.addr \in 0..WORD - 1 /\ s.offset \in 0..WORD - 1

SegmentFields == {"type", "members", "align", "vaddr", "offset", "offsetSet", "filesz", "memsz"}

Segmented(g, n) ==
    /\ SegmentFields \subseteq DOMAIN g
    /\ g.type \in SegmentTypes /\ g.members \in Seq(1..n) /\ g.align \in Nat
    /\ g.vaddr \in 0..WORD - 1 /\ g.offset \in 0..WORD - 1
    /\ g.filesz \in 0..WORD - 1 /\ g.memsz \in 0..WORD - 1

SegmentList(all, n) ==
    /\ all \in Seq({all[k] : k \in DOMAIN all})
    /\ \A k \in DOMAIN all : Segmented(all[k], n)

TableFields == BufferFields \cup PlaceFields
               \cup {"entries", "link", "entsize", "name", "nameAt", "stream", "deflate", "info"}

Tabular(s, translated) ==
    /\ TableFields \subseteq DOMAIN s
    /\ Placeable(s)
    /\ s.entries \in Seq({s.entries[k] : k \in DOMAIN s.entries})
    /\ s.size \in Nat /\ s.stream \in Nat /\ s.entsize \in Nat /\ s.nameAt \in Nat
    /\ Whole(s) => Measured(s)
    /\ Whole(s) /\ s.type = "symtab" /\ ~ s.deflate /\ ~ translated => s.size <= s.stream

(* Symbols and dynamic entries go with a string table, relocations with     *)
(* symbols, or with nothing; and section names with a string table, or with *)
(* the null section, or with one there will never be.                       *)
Linkage(all) == \A i \in 1..Len(all) :
    /\ all[i].link \in 0..Len(all)
    /\ all[i].link # 0 /\ all[i].type \in {"symtab", "dynamic"} => all[all[i].link].type = "strtab"
    /\ all[i].link # 0 /\ all[i].type = "rel" => all[all[i].link].type = "symtab"

Naming(all, strings) ==
    \/ strings > Len(all)
    \/ strings \in 1..Len(all) - 1 /\ all[strings + 1].type = "strtab"
    \/ strings = 0 /\ Len(all) > 0 /\ all[1].type = "null"

(* The k-th entry of a table means what it says, in the table y it is       *)
(* linked to.                                                               *)
HasString(s, at, n) == \E k \in 1..Len(s.entries) : s.entries[k].at = at /\ s.entries[k].is = n

Meant(type, k, e, y) ==
    /\ type = "symtab" /\ k > 1 => HasString(y, e.name, e.called)
    /\ type = "dynamic" /\ e.tag = "needed" => HasString(y, e.value, e.called)
    /\ type = "rel" =>
            /\ {"symbol", "wants"} \subseteq DOMAIN e
            /\ e.symbol \in 0..Len(y.entries) - 1 /\ y.entries[e.symbol + 1].is = e.wants

Means(x, y) == Whole(x) /\ Whole(y) => \A k \in 1..Len(x.entries) : Meant(x.type, k, x.entries[k], y)

SectionNames(all, strings) ==
    strings \in 1..Len(all) - 1 /\ Whole(all[strings + 1]) => \A i \in 1..Len(all) :
        all[i].nameAt # 0 => HasString(all[strings + 1], all[i].nameAt, all[i].name)

Consistent(all, header, strings, translated) ==
    /\ \A i \in 1..Len(all) : Tabular(all[i], translated)
    /\ Linkage(all)
    /\ \A i \in 1..Len(all) : all[i].link # 0 => Means(all[i], all[all[i].link])
    /\ header => strings \in Nat /\ Naming(all, strings) /\ SectionNames(all, strings)

ASSUME TableAssumption ==
    /\ \A o \in Objects : Consistent(o.sections, o.header, o.strings, o.translated)
    /\ \A shape \in SectionShapes : Tabular(shape, FALSE) /\ shape.link = 0 /\ shape.nameAt = 0

ASSUME LayoutAssumption ==
    /\ \A o \in Objects :
        /\ SegmentList(o.segments, Len(o.sections))
        /\ o.header => Len(o.sections) > 0 /\ o.sections[1].type = "null"
    /\ \A shape \in SegmentShapes : Segmented(shape, 0)
    /\ Addresses \subseteq 0..WORD - 1

ASSUME ObjectAssumption ==
    /\ \A o \in Objects : BufferedList(o.sections)
    /\ \A shape \in SectionShapes : Buffered(shape)
    /\ Descs \subseteq Nat /\ Chunks \subseteq Nat

vars == <<core, tables, layout>>

Init ==
    /\ \E o \in Objects :
        /\ edits = o.edits /\ saves = o.saves
        /\ elf = [header |-> o.header, strings |-> o.strings,
                  translated |-> o.translated, zlib |-> o.zlib]
        /\ sections = o.sections /\ segments = o.segments
    /\ pc = "edit" /\ reply = "none"
    /\ job = [table |-> 0, first |-> 0] /\ views = <<>>
    /\ work = <<>> /\ order = <<>> /\ turn = 0
    /\ pos = 0 /\ cur = [start |-> 0, mem |-> 0, file |-> 0, member |-> 0]
    /\ generated = {} /\ table = 0 /\ good = TRUE /\ stored = <<>>
    /\ regular = FALSE /\ last = <<>>

(* create(), after which no accessor may be used.  For a class it does not  *)
(* know there is no header, and no null section to set the index of.        *)
Create ==
    /\ Edit
    /\ \/ /\ elf' = [elf EXCEPT !.header = TRUE, !.strings = 1]
          /\ sections' \in Mandatory
          /\ segments' = <<>> /\ views' = <<>>
          /\ UNCHANGED pc
       \/ Crash /\ UNCHANGED <<segments, views>>
    /\ UNCHANGED <<job, plan, turn, place, disk, past>>

SetData(i, n) ==
    /\ Edit
    /\ \E s \in Replaced(sections[i], n) : sections' = [sections EXCEPT ![i] = s]
    /\ UNCHANGED <<pc, elf, tables, layout>>

AppendData(i, n) ==
    /\ Edit
    /\ UNCHANGED <<tables, layout>>
    /\ \/ Faults({i})
       \/ /\ \E s \in Appended(sections[i], n, n) : sections' = [sections EXCEPT ![i] = s]
          /\ UNCHANGED <<pc, elf>>

TableEdit ==
    \/ \E n \in Names, shape \in SectionShapes : AddSection(n, shape)
    \/ \E t \in Tables("symtab"), n \in Names \ {""}, b \in {"local", "global"} :
          \E r \in {{}} \cup {{i} : i \in Linked(t)} : AddSymbol(t, n, b, r)
    \/ \E r \in Tables("rel") : \E k \in 0..Len(sections[sections[r].link].entries) - 1 :
          \/ AddRelocation(r, k)
          \/ \E e \in 1..Len(sections[r].entries) : SetRelocation(r, e, k)
    \/ \E t \in Tables("symtab") : ArrangeBegin(t)
    \/ \E v \in 1..Len(views), n \in Names, d \in Descs : AddNote(v, n, d) \/ AddAttribute(v, n, d)
    \/ \E v \in 1..Len(views) : AddVersion(v) \/ \E k \in 1..Len(views[v].seen) : ModifyVersion(v, k)
    \/ \E i \in Tables("array") : AddAddress(i)
    \/ \E i \in Tables("dynamic"), n \in Names : AddDynamic(i, n)

LayoutEdit ==
    \/ \E shape \in SegmentShapes : AddSegment(shape)
    \/ \E g \in 1..Len(segments), i \in 2..Len(sections) : AddToSegment(g, i)
    \/ \E i \in Tables("progbits"), a \in Addresses : SetAddress(i, a)
    \/ \E i \in Tables("progbits"), n \in Chunks : SetData(i, n)
    \/ \E i \in Tables("progbits"), n \in Chunks : AppendData(i, n)

Read ==
    \/ \E i \in 1..Len(sections) : sections[i].type \in Lists /\ OpenList(i)
    \/ \E v \in 1..Len(views) : CountDynamic(v)

Next ==
    \/ Create
    \/ TableEdit /\ UNCHANGED layout
    \/ ArrangeStep /\ UNCHANGED layout
    \/ Read /\ UNCHANGED layout
    \/ LayoutEdit /\ UNCHANGED tables
    \/ SaveBegin /\ UNCHANGED tables
    \/ SaveStep /\ UNCHANGED tables

(* A call that has begun goes on; what the client calls next is its own.    *)
Spec == Init /\ [][Next]_vars
        /\ WF_vars(ArrangeStep /\ UNCHANGED layout)
        /\ WF_vars(SaveStep /\ UNCHANGED tables)

-----------------------------------------------------------------------------
SectionOK(s) ==
    /\ Placeable(s) /\ s.entsize \in Nat /\ s.link \in 0..Len(sections)
    /\ s.size \in Nat /\ s.cap \in Nat /\ s.room \in Nat /\ s.stream \in Nat

TypeOK ==
    /\ pc \in {"edit", "arrange", "order", "segment", "members", "loose", "header", "write", "crashed"}
    /\ reply \in {"none", "ok", "failed"}
    /\ \A i \in 1..Len(sections) : SectionOK(sections[i])
    /\ \A g \in 1..Len(segments) : Segmented(segments[g], Len(sections))
    /\ pc \in {"segment", "members"} => generated \subseteq 1..Len(sections)
    /\ pc \in {"order", "segment"} => {work[k] : k \in 1..Len(work)}
            \cup {order[k] : k \in 1..Len(order)} = 1..Len(segments)
    /\ pc = "write" => Len(stored) <= Len(sections)

(* arrange_local_symbols and save return (or the program ends).             *)
CallsEnd == pc # "edit" ~> pc \in {"edit", "crashed"}
=============================================================================
