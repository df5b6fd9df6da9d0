----------------------------- MODULE ElfTables -----------------------------
(***************************************************************************)
(* The tables in an elfio object and the accessors that read and extend    *)
(* them: names (elfio_strings.hpp), symbols with their hash tables, sorted *)
(* so that local ones come first (elfio_symbols.hpp), relocations that     *)
(* follow them (elfio_relocation.hpp), and dynamic entries, notes, symbol  *)
(* versions, module attributes and arrays of addresses (elfio_dynamic.hpp, *)
(* elfio_note.hpp, elfio_versym.hpp, elfio_modinfo.hpp, elfio_array.hpp).  *)
(* ELF32 structures throughout.                                            *)
(*                                                                         *)
(* The entries of a section are records:                                   *)
(*   a string    [at, is]          its offset, and which string it is      *)
(*   a symbol    [name, bind, is, called]   st_name, the binding, and the  *)
(*                                 symbol meant: its number and its name   *)
(*   a relocation  [symbol, wants] the index it has, the symbol it meant   *)
(*   a hash table  [buckets, chains], for GNU also [bloom, symoffset]      *)
(*   a dynamic entry  [tag, value, called]  DT_NULL or DT_NEEDED           *)
(*   a note      [at, namesz, descsz]                                      *)
(*   an attribute  [at, length]    "field=value", and a zero behind it     *)
(* and of symbol versions and arrays of addresses only the number of       *)
(* entries matters.                                                        *)
(***************************************************************************)
EXTENDS ElfData, FiniteSetsExt

CONSTANTS
    Hash,       \* what elf_hash and elf_gnu_hash make of a name
    Descs,      \* the sizes of the descriptions given to notes
    VIEWS       \* a bound on the accessors open at a time

VARIABLES
    job,        \* arrange_local_symbols: its table and first_not_local
    views       \* open list accessors: their section and the entries seen

tables == <<job, views>>

SYM == 16       \* bytes of a symbol, of a relocation without addend, of a
REL == 8        \* dynamic entry, a symbol's version and an address
DYN == 8
VERSYM == 2
ADDRESS == 4

NoString == "?" \* what no string in use is

-----------------------------------------------------------------------------
(* Strings                                                                  *)
BugPosition(s) == s.size
Position(s) == IF s.size = 0 THEN 1 ELSE s.size

WithString(s, n) ==
    LET Add(t, name, bytes) == Appended(t, bytes, [at |-> t.size, is |-> name])
    IN  UNION {Add(t, n, NameSize[n] + 1) : t \in IF s.size = 0 THEN Add(s, "", 1) ELSE {s}}

GetString(s, at) ==
    LET found == {k \in 1..Len(s.entries) : s.entries[k].at = at}
    IN  IF s.room > 0 /\ at < s.size /\ found # {} THEN s.entries[Min(found)].is
        ELSE NoString

(* Sections::add with what the caller then sets; the name goes to the       *)
(* section e_shstrndx names, whatever that is.  One of a set of results.    *)
Added(all, strings, n, shape) ==
    LET new == [shape EXCEPT !.name = n, !.nameAt = Position((all \o <<shape>>)[strings + 1])]
        more == Append(all, new)
    IN  {[more EXCEPT ![strings + 1] = t] : t \in WithString(more[strings + 1], n)}

AddSection(n, shape) ==
    /\ Edit
    /\ UNCHANGED tables
    /\ \/ (~ elf.header \/ elf.strings > Len(sections)) /\ Crash
       \/ elf.strings < Len(sections) /\ Faults({elf.strings + 1})
       \/ /\ elf.header /\ elf.strings <= Len(sections)
          /\ sections' \in Added(sections, elf.strings, n, shape)
          /\ UNCHANGED <<pc, elf>>

(* create(): the null section, and a table for the names                    *)
Mandatory == {[i \in 1..2 |-> IF i = 1 THEN s[1] ELSE [s[2] EXCEPT !.type = "strtab", !.align = 1]] :
                 s \in Added(<<Blank>>, 1, ".shstrtab", Blank)}

-----------------------------------------------------------------------------
(* Symbols.  Their indices count from 0, as in the code.                    *)
Count(s) == IF s.entsize >= SYM /\ s.size <= s.stream THEN s.size \div s.entsize ELSE 0

HasSymbol(s, k) == s.room > 0 /\ k < Count(s)

NameAt(s, k) ==
    IF HasSymbol(s, k) /\ s.link # 0 THEN GetString(sections[s.link], s.entries[k + 1].name)
    ELSE NoString

(* find_hash_section: the first that is linked to the table, 0 for none; of *)
(* index 0 it counts as none                                                *)
HashTable(t) ==
    LET tabs == {i \in 1..Len(sections) :
                    sections[i].link = t /\ sections[i].type \in {"hash", "gnu_hash"}}
    IN  IF tabs = {} \/ 1 \in tabs THEN 0 ELSE Min(tabs)

Bucket(h, n) == h.buckets[Hash[n] % Cardinality(DOMAIN h.buckets)]

(* A walk along the chain of the name's bucket ends at the name, at symbol  *)
(* 0 or out of the chains.  HashLookup is where it is after as many steps   *)
(* as there are chains: if that is no end, it goes round for ever.          *)
AtEnd(s, h, n, y) == NameAt(s, y) = n \/ y = 0 \/ y >= Cardinality(DOMAIN h.chains)

HashLookup(s, h, n) ==
    LET steps == Cardinality(DOMAIN h.chains)
        walk[k \in 0..steps] ==
            IF k = 0 THEN Bucket(h, n)
            ELSE LET y == walk[k - 1] IN IF AtEnd(s, h, n, y) THEN y ELSE h.chains[y]
    IN  walk[steps]

(* The GNU form: a filter first, then the symbols of a bucket in a row, up  *)
(* to the name or one that is marked as the last; without one it runs off   *)
(* the table.  0 for none.                                                  *)
GnuPasses(h, n) == Hash[n] \in h.bloom /\ Bucket(h, n) >= h.symoffset
GnuIs(s, h, n, i) == h.chains[i].hash = Hash[n] /\ NameAt(s, i + h.symoffset) = n

GnuEnd(s, h, n) ==
    LET first == Bucket(h, n) - h.symoffset
        ends == {i \in DOMAIN h.chains : i >= first /\ (GnuIs(s, h, n, i) \/ h.chains[i].last)}
    IN  IF ends = {} THEN Cardinality(DOMAIN h.chains) ELSE Min(ends)

GnuLookup(s, h, n) ==
    LET i == GnuEnd(s, h, n)
    IN  IF GnuPasses(h, n) /\ i \in DOMAIN h.chains /\ GnuIs(s, h, n, i) THEN i + h.symoffset ELSE 0

(* Symbols the hash table does not lead to are looked for one by one        *)
LinearSearch(s, n) ==
    LET found == {k \in 0..Count(s) - 1 : NameAt(s, k) = n}
    IN  IF found = {} THEN 0 ELSE Min(found)

Hashed(t, n) ==
    LET h == sections[HashTable(t)]
    IN  IF HashTable(t) = 0 THEN 0
        ELSE IF h.type = "hash" THEN HashLookup(sections[t], h.entries[1], n)
        ELSE GnuLookup(sections[t], h.entries[1], n)

(* Whether get_symbol(name) answers: nothing bounds a walk, and a hash      *)
(* section without data or buckets is read all the same                     *)
Answers(t, n) ==
    LET x == sections[HashTable(t)]
        h == x.entries[1]
    IN  HashTable(t) # 0 =>
            /\ x.room > 0 /\ DOMAIN h.buckets # {}
            /\ x.type = "hash" => AtEnd(sections[t], h, n, HashLookup(sections[t], h, n))
            /\ x.type = "gnu_hash" /\ GnuPasses(h, n) => GnuEnd(sections[t], h, n) \in DOMAIN h.chains

(* get_symbol(name): the index of a symbol of that name, or another one     *)
BugGetSymbol(t, n) == IF HashTable(t) # 0 THEN Hashed(t, n) ELSE LinearSearch(sections[t], n)
GetSymbol(t, n) ==
    IF NameAt(sections[t], Hashed(t, n)) = n THEN Hashed(t, n) ELSE LinearSearch(sections[t], n)

WithSymbol(s, at, bind, n) ==
    LET Add(t, name, b, called) ==
            Appended(t, SYM, [name |-> name, bind |-> b, is |-> Len(t.entries), called |-> called])
    IN  UNION {Add(t, at, bind, n) : t \in IF s.size = 0 THEN Add(s, 0, "local", "") ELSE {s}}

(* What add_symbol returns                                                  *)
NewIndex(s) == s.size \div SYM - 1

Tables(type) == {i \in 1..Len(sections) : sections[i].type = type}

(* add_entry: the relocation goes to one of rels (none if there is none)    *)
Related(all, rels, entry) ==
    IF rels = {} THEN {all}
    ELSE UNION {{[all EXCEPT ![i] = r] : r \in Appended(all[i], REL, entry)} : i \in rels}

(* add_symbol with its name, alone or with a relocation for it              *)
AddSymbol(t, n, bind, rels) ==
    LET s == sections[t]
        strings == sections[s.link]
    IN  /\ Edit
        /\ UNCHANGED tables
        /\ \/ Faults({s.link, t} \cup rels)
           \/ /\ \E u \in WithString(strings, n), v \in WithSymbol(s, Position(strings), bind, n) :
                    sections' \in Related([sections EXCEPT ![s.link] = u, ![t] = v], rels,
                                     [symbol |-> NewIndex(v), wants |-> Len(v.entries) - 1])
              /\ UNCHANGED <<pc, elf>>

AddRelocation(r, k) ==
    /\ Edit
    /\ UNCHANGED tables
    /\ \/ Faults({r})
       \/ /\ sections' \in Related(sections, {r},
                [symbol |-> k, wants |-> sections[sections[r].link].entries[k + 1].is])
          /\ UNCHANGED <<pc, elf>>

(* set_entry, of an entry the table has                                     *)
SetRelocation(r, e, k) ==
    LET entry == [symbol |-> k, wants |-> sections[sections[r].link].entries[k + 1].is]
    IN  /\ Edit
        /\ sections[r].room > 0 /\ e * REL <= sections[r].size
        /\ sections' = [sections EXCEPT ![r].entries[e] = entry]
        /\ UNCHANGED <<pc, elf, tables>>

-----------------------------------------------------------------------------
(* arrange_local_symbols, called with swap_symbols of every relocation      *)
(* table linked to the symbols                                              *)
Renumbered(e, first, second) ==
    [e EXCEPT !.symbol = IF @ = first THEN second ELSE IF @ = second THEN first ELSE @]

BugSwapSymbols(r, first, second) ==
    [r EXCEPT !.entries = [k \in DOMAIN @ |->
        IF @[k].symbol = first THEN Renumbered(@[k], first, second) ELSE @[k]]]
SwapSymbols(r, first, second) ==
    [r EXCEPT !.entries = [k \in DOMAIN @ |-> Renumbered(@[k], first, second)]]

Linked(t) == {r \in Tables("rel") : sections[r].link = t}

SwappedIn(t, first, second) ==
    LET e == sections[t].entries
    IN  [i \in 1..Len(sections) |->
            IF i = t
            THEN [sections[t] EXCEPT !.entries =
                    [e EXCEPT ![first + 1] = e[second + 1], ![second + 1] = e[first + 1]]]
            ELSE IF i \in Linked(t)
            THEN SwapSymbols(sections[i], first, second) ELSE sections[i]]

ArrangeBegin(t) ==
    /\ Edit
    /\ pc' = "arrange" /\ job' = [table |-> t, first |-> 1]
    /\ UNCHANGED <<elf, sections, views>>

(* One round of the outer loop: the first symbol that is not local, and the *)
(* next local one after it                                                  *)
NextLocal(s, n, p) == {k \in p + 1..n - 1 : s.entries[k + 1].bind = "local"}

BugFirstNotLocal(s, n, p) ==
    LET others == {k \in p..n - 1 : s.entries[k + 1].bind # "local"}
    IN  IF others = {} THEN p ELSE Min(others)
FirstNotLocal(s, n, p) ==
    LET others == {k \in p..n - 1 : s.entries[k + 1].bind # "local"}
    IN  IF others = {} THEN Max({p, n}) ELSE Min(others)

(* swap_symbols reads every relocation, also those of a table that was lost.*)
ArrangeStep ==
    LET t == job.table
        s == sections[t]
        n == Count(s)
        p == FirstNotLocal(s, n, job.first)
        locals == NextLocal(s, n, p)
    IN  /\ pc = "arrange"
        /\ UNCHANGED <<edits, saves, reply, views>>
        /\ IF n > 1 /\ s.room = 0 THEN Crash /\ UNCHANGED job
           ELSE \/ /\ locals # {} /\ \E r \in Linked(t) : Lost(sections[r])
                   /\ Crash /\ UNCHANGED job
                \/ /\ locals # {} /\ \A r \in Linked(t) : ~ Lost(sections[r])
                   /\ sections' = SwappedIn(t, p, Min(locals))
                   /\ job' = [job EXCEPT !.first = p]
                   /\ UNCHANGED <<pc, elf>>
                \/ /\ locals = {}
                   /\ sections' = [sections EXCEPT ![t].info = p]
                   /\ pc' = "edit"
                   /\ UNCHANGED <<job, elf>>

-----------------------------------------------------------------------------
(* Lists and their accessors.  note_section_accessor::add_note pads names   *)
(* and descriptions to words, process_section skips as much.                *)
Padded(n) == IF (n % 4) # 0 THEN n + 4 - (n % 4) ELSE n
NoteBytes(e) == 12 + Padded(e.namesz) + Padded(e.descsz)
BugAdvance(e) == 12 + ((e.namesz + 3) \div 4) * 4 + e.descsz
Advance(e) == 12 + ((e.namesz + 3) \div 4) * 4 + ((e.descsz + 3) \div 4) * 4

FirstEntries(n) == [k \in 1..n |-> k]

(* Where the k-th note should be, by what is stepped over before it         *)
NoteStart(s, k) == IF k = 1 THEN 0 ELSE s.entries[k - 1].at + Advance(s.entries[k - 1])

NotesIn(s) ==
    LET Found(k) == LET e == s.entries[k]
                    IN  e.at = NoteStart(s, k) /\ e.namesz < s.size /\ e.descsz < s.size
                        /\ NoteStart(s, k + 1) <= s.size
    IN  FirstEntries(Max({k \in 0..Len(s.entries) : \A j \in 1..k : Found(j)}))

(* A section without data counts as one that ends at once.                  *)
TagAt(s, k) == IF s.room = 0 THEN "null" ELSE s.entries[k].tag

DynamicIn(s) ==
    LET n == IF s.entsize >= DYN THEN s.size \div s.entsize ELSE 0
    IN  FirstEntries(Min({n} \cup {k \in 1..n : TagAt(s, k) = "null"}))

AddressesIn(s) == FirstEntries(s.size \div ADDRESS)

(* Attributes are what lies between zeros: one that follows another without *)
(* a zero between them belongs to it.                                       *)
AttributesIn(s) ==
    LET Begins(k) == LET e == s.entries[k]
                         before == s.entries[k - 1]
                     IN  e.at < s.size /\ (k = 1 \/ before.at + before.length < e.at)
    IN  FirstEntries(Cardinality({k \in 1..Len(s.entries) : Begins(k)}))

(* What the constructor of an accessor finds; a dynamic one does not look   *)
Opened(s) ==
    CASE s.type = "note"    -> IF s.room > 0 THEN NotesIn(s) ELSE <<>>
      [] s.type = "versym"  -> FirstEntries(s.size \div VERSYM)
      [] s.type = "modinfo" -> IF s.room > 0 THEN AttributesIn(s) ELSE <<>>
      [] s.type = "dynamic" -> <<>>

OpenList(i) ==
    /\ pc = "edit" /\ Len(views) < VIEWS
    /\ views' = Append(views, [sec |-> i, seen |-> Opened(sections[i])])
    /\ UNCHANGED <<core, job>>

(* dynamic get_entries_num: counted once, and again as long as it is none   *)
CountDynamic(v) ==
    /\ pc = "edit" /\ sections[views[v].sec].type = "dynamic" /\ views[v].seen = <<>>
    /\ views' = [views EXCEPT ![v].seen = DynamicIn(sections[views[v].sec])]
    /\ UNCHANGED <<core, job>>

(* An entry is appended through an accessor, which counts it whether or not *)
(* it could be: add_note, add_entry of versions, add_attribute              *)
AddItem(v, type, bytes, e, seen) ==
    LET i == views[v].sec
    IN  /\ Edit
        /\ sections[i].type = type
        /\ \/ Faults({i})
           \/ /\ \E new \in Appended(sections[i], bytes, e) : sections' = [sections EXCEPT ![i] = new]
              /\ UNCHANGED <<pc, elf>>
        /\ views' = [views EXCEPT ![v].seen = Append(@, seen)]
        /\ UNCHANGED job

Entries(v) == sections[views[v].sec].entries

AddNote(v, n, d) ==
    LET note == [at |-> sections[views[v].sec].size, namesz |-> NameSize[n] + 1, descsz |-> d]
    IN  AddItem(v, "note", NoteBytes(note), note, Len(Entries(v)) + 1)

AddVersion(v) == AddItem(v, "versym", VERSYM, "version", Len(views[v].seen) + 1)

(* modify_entry trusts the number of entries the accessor has counted.      *)
ModifyVersion(v, k) ==
    LET i == views[v].sec
    IN  /\ Edit
        /\ sections[i].type = "versym" /\ k <= Len(views[v].seen)
        /\ \/ (VERSYM * k > sections[i].room) /\ Crash
           \/ /\ VERSYM * k <= sections[i].room
              /\ sections' = [sections EXCEPT ![i].entries =
                    [j \in DOMAIN @ |-> IF j = k THEN "modified" ELSE @[j]]]
              /\ UNCHANGED <<pc, elf>>
        /\ UNCHANGED tables

AddAttribute(v, n, d) ==
    LET e == [at |-> sections[views[v].sec].size, length |-> NameSize[n] + 1 + d]
    IN  AddItem(v, "modinfo", e.length + 1, e, Len(Entries(v)) + 1)

(* Entries no accessor counts: add_entry of dynamic sections, for DT_NEEDED *)
(* with its string, and of arrays of addresses                              *)
DynamicEntry(tag, value, n) ==
    [tag |-> tag, value |-> IF tag = "null" THEN 0 ELSE value, called |-> n]

AddDynamic(i, n) ==
    LET s == sections[i]
        strings == sections[s.link]
    IN  /\ Edit
        /\ UNCHANGED tables
        /\ \/ Faults({i} \cup IF n = "" THEN {} ELSE {s.link})
           \/ /\ n = ""
              /\ \E new \in Appended(s, DYN, DynamicEntry("null", 0, n)) :
                    sections' = [sections EXCEPT ![i] = new]
              /\ UNCHANGED <<pc, elf>>
           \/ /\ n # ""
              /\ \E u \in WithString(strings, n),
                    new \in Appended(s, DYN, DynamicEntry("needed", Position(strings), n)) :
                    sections' = [sections EXCEPT ![s.link] = u, ![i] = new]
              /\ UNCHANGED <<pc, elf>>

AddAddress(i) ==
    /\ Edit
    /\ UNCHANGED tables
    /\ \/ Faults({i})
       \/ /\ \E new \in Appended(sections[i], ADDRESS, "address") :
                sections' = [sections EXCEPT ![i] = new]
          /\ UNCHANGED <<pc, elf>>

-----------------------------------------------------------------------------
(* A table all of whose entries were stored where the code thinks           *)
Whole(s) == ~ s.starved /\ ~ Lost(s)
Kept(i) == Whole(sections[i])
KeptTable(t) == Kept(t) /\ sections[t].link # 0 /\ Kept(sections[t].link)

(* Every section, symbol and dynamic entry has, in the string table it goes *)
(* by, the name it was given, however many strings were added after it, and *)
(* whichever table was empty before (elfio_strings.hpp:60-82); unless names *)
(* of sections go to the null section, which is never written.              *)
NamesKept ==
    /\ elf.header /\ elf.strings \in 1..Len(sections) - 1 /\ Kept(elf.strings + 1) =>
        \A i \in 1..Len(sections) : sections[i].nameAt # 0 =>
            GetString(sections[elf.strings + 1], sections[i].nameAt) = sections[i].name
    /\ \A t \in Tables("symtab") : KeptTable(t) => \A k \in 2..Len(sections[t].entries) :
            GetString(sections[sections[t].link], sections[t].entries[k].name)
                = sections[t].entries[k].called
    /\ \A t \in Tables("dynamic") : KeptTable(t) => \A k \in 1..Len(sections[t].entries) :
            LET e == sections[t].entries[k]
            IN  e.tag = "needed" => GetString(sections[sections[t].link], e.value) = e.called

(* Every symbol of a table built or read whole is what get_symbol answers   *)
(* for its name, if it answers at all, although the hash table is the one   *)
(* the file had and symbols were added and moved since                      *)
(* (elfio_symbols.hpp:102-132).  Not so for a compressed table, or one      *)
(* built under an address translation: these have more bytes than their     *)
(* stream is said to have.  And the empty name is found anywhere (319).     *)
Searchable(t) == KeptTable(t) /\ sections[t].entsize = SYM /\ ~ sections[t].deflate /\ ~ elf.translated
SymbolsFound == \A t \in Tables("symtab") : Searchable(t) =>
    \A k \in 2..Len(sections[t].entries) :
        LET n == sections[t].entries[k].called
        IN  n # "" /\ Answers(t, n) => NameAt(sections[t], GetSymbol(t, n)) = n

(* Relocations go on meaning the symbols they were made for, while these    *)
(* move (elfio_relocation.hpp:295-310).                                     *)
RelocationsKeepSymbols == \A r \in Tables("rel") :
    LET t == sections[r].link
    IN  Kept(r) /\ t # 0 /\ KeptTable(t) => \A k \in 1..Len(sections[r].entries) :
            LET e == sections[r].entries[k]
            IN  e.symbol < Len(sections[t].entries) /\ sections[t].entries[e.symbol + 1].is = e.wants

(* When arrange_local_symbols returns, exactly the symbols before sh_info   *)
(* are local, and no symbol was lost or doubled (elfio_symbols.hpp:501-546).*)
ArrangedLocalsFirst == [][pc = "arrange" /\ pc' = "edit" /\ Searchable(job.table) =>
    LET s == sections'[job.table]
    IN  /\ \A k \in 2..Len(s.entries) : (s.entries[k].bind = "local") <=> (k <= s.info)
        /\ {s.entries[k].is : k \in 1..Len(s.entries)} = 0..Len(s.entries) - 1]_<<pc, sections>>

(* No open accessor counts entries its section does not have, and a new one *)
(* finds every note, version, attribute and address that was added, and the *)
(* dynamic entries up to the one that ends them: what the accessors append, *)
(* with its padding, is what they step over (elfio_note.hpp:103-155).       *)
ListsAgree ==
    /\ \A v \in 1..Len(views) : Kept(views[v].sec) =>
        \A k \in 1..Len(views[v].seen) : views[v].seen[k] <= Len(sections[views[v].sec].entries)
    /\ \A i \in 1..Len(sections) :
        LET s == sections[i]
            all == FirstEntries(Len(s.entries))
        IN  Kept(i) =>
            /\ s.type \in {"note", "versym", "modinfo"} => Opened(s) = all
            /\ s.type = "array" => AddressesIn(s) = all
            /\ s.type = "dynamic" /\ s.entsize = DYN
                /\ (\A k \in 1..Len(all) - 1 : s.entries[k].tag # "null") => DynamicIn(s) = all
=============================================================================
