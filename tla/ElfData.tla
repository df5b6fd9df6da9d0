------------------------------ MODULE ElfData ------------------------------
(***************************************************************************)
(* The ELF file an elfio object holds in memory: its sections with their   *)
(* buffers, and what append_data and set_data make of a buffer             *)
(* (source/elfio/elfio_section.hpp).  ElfTables and ElfWriter extend this  *)
(* module and work on the same sections.                                   *)
(*                                                                         *)
(* Sections are counted from 1, so that section i has the index i - 1 in   *)
(* the code; link names a section by its position here, 0 none.            *)
(*                                                                         *)
(* Operators named Bug... are mutated forms of the definition that follows *)
(* them, each a slip the code could have; nothing uses them.               *)
(***************************************************************************)
EXTENDS Integers, Sequences

CONSTANTS NameSize      \* the names in use, with their length in bytes

Names == DOMAIN NameSize

ASSUME NameAssumption ==
    /\ \A n \in Names : NameSize[n] \in Nat
    /\ ".shstrtab" \in Names

VARIABLES
    pc,         \* "edit" between two calls, else what the call is doing
    edits,      \* how many more changes the client makes
    saves,      \* and how often it saves
    elf,        \* the object: header (is there one), strings (the section of
                \* section names), translated (an address translation is
                \* set), zlib (an adapter was given)
    sections,
    reply       \* what the last save returned, until something changes

core == <<pc, edits, saves, elf, sections, reply>>

Types == {"null", "nobits", "progbits", "strtab", "symtab", "rel", "hash", "gnu_hash", "array"}
Lists == {"dynamic", "note", "versym", "modinfo"}

(* A section as its constructor leaves it.  Of its data: size (sh_size),    *)
(* cap (data_size, the bytes the code takes the buffer to have), room (the  *)
(* bytes it has, 0 for no buffer), stream (stream_size), starved (an        *)
(* append found no memory) and entries, what the client or the file put in. *)
Blank == [type |-> "null", alloc |-> FALSE, tls |-> FALSE, deflate |-> FALSE,
          align |-> 0, entsize |-> 0, link |-> 0, info |-> 0, name |-> "", nameAt |-> 0,
          addr |-> 0, addrSet |-> FALSE, offset |-> 0, size |-> 0, cap |-> 0, room |-> 0,
          stream |-> 0, starved |-> FALSE, entries |-> <<>>]

(* A section that has a size and no data, because it could not be read      *)
Lost(s) == s.size > 0 /\ s.room = 0 /\ s.type # "nobits"

(* append_data: n bytes, which hold the entry e, are added.  The result is  *)
(* one of a set, since a larger buffer may not be had (new (std::nothrow)); *)
(* cap grows nevertheless.  For a lost section see Faults.                  *)
BugFits(s, n) == s.size < s.cap
Fits(s, n) == s.size + n < s.cap

Grown(s, n) == 2 * (s.cap + n)

Stored(s, n, e) ==
    [s EXCEPT !.size = @ + n, !.entries = Append(@, e),
              !.stream = IF elf.translated THEN @ ELSE @ + n]

Moved(s, n, e) == [Stored(s, n, e) EXCEPT !.cap = Grown(s, n), !.room = Grown(s, n)]
Denied(s, n) == [s EXCEPT !.cap = Grown(s, n), !.starved = TRUE]

Appended(s, n, e) ==
    IF s.type = "nobits" THEN {s}
    ELSE (IF Lost(s) THEN {} ELSE IF Fits(s, n) THEN {Stored(s, n, e)} ELSE {Moved(s, n, e)})
         \cup (IF Fits(s, n) THEN {} ELSE {Denied(s, n)})

(* set_data: a new buffer of n bytes, or none.  A section without bytes in  *)
(* the file takes the size of its (empty) buffer.                           *)
Resized(s, n) == [s EXCEPT !.size = n, !.stream = IF elf.translated THEN @ ELSE n]

Replaced(s, n) ==
    IF s.type = "nobits" THEN {Resized(s, s.cap)}
    ELSE LET new == [Resized(s, n) EXCEPT !.entries = <<>>, !.starved = FALSE]
         IN  {[new EXCEPT !.cap = n, !.room = n], [Resized(new, 0) EXCEPT !.cap = 0, !.room = 0]}

(* A change made by the client, and one that reads through a null pointer   *)
Edit ==
    /\ pc = "edit" /\ edits > 0
    /\ edits' = edits - 1
    /\ reply' = "none"
    /\ UNCHANGED saves

Crash ==
    /\ pc' = "crashed"
    /\ UNCHANGED <<elf, sections>>

(* What a lost section had is copied from a null pointer; and after an      *)
(* append found no memory the next one may write where there is none.       *)
Faults(used) ==
    /\ \E i \in used : Lost(sections[i]) \/ (sections[i].starved /\ sections[i].cap > sections[i].room)
    /\ Crash

(* Buffers hold what they are said to hold: no append wrote past the end of *)
(* one, and none takes a buffer to be larger than it is (append_data,       *)
(* elfio_section.hpp), unless an allocation failed, after which data_size   *)
(* is wrong for good.                                                       *)
BufferSound(s) == ~ s.starved => s.cap <= s.room /\ (s.size <= s.cap \/ s.room = 0)
DataFits == \A i \in 1..Len(sections) : sections[i].type # "nobits" => BufferSound(sections[i])
=============================================================================
