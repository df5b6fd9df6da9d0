-------------------------- MODULE ElfObjectProofs --------------------------
(***************************************************************************)
(* Proofs about ElfObject.  Whatever its client adds, appends, arranges    *)
(* and saves, and whichever allocations fail, buffers hold what they are   *)
(* said to hold: DataFits, for all objects and constants.                  *)
(*                                                                         *)
(* The invariant is BufferedList(sections): the sections are a sequence,   *)
(* and each has the fields append_data and set_data look at, with a sound  *)
(* buffer unless it has no bytes in the file.  Entries are of any kind, so *)
(* the sequence is one over its own elements.                              *)
(***************************************************************************)
EXTENDS ElfObject, TLAPS

Elements(l) == {l[i] : i \in DOMAIN l}

-----------------------------------------------------------------------------
(* Sequences whose elements satisfy Buffered                                *)
LEMMA ListDomain ==
    ASSUME NEW l, l \in Seq(Elements(l))
    PROVE  DOMAIN l = 1..Len(l) /\ Len(l) \in Nat
  OBVIOUS

LEMMA ListOf ==
    ASSUME NEW l, NEW n \in Nat, l = [i \in 1..n |-> l[i]]
    PROVE  l \in Seq(Elements(l))
<1>1. \A i \in 1..n : l[i] \in Elements(l)
  BY DEF Elements
<1> QED BY <1>1

LEMMA ReplaceOne ==
    ASSUME NEW l, BufferedList(l), NEW i, NEW x, i \in DOMAIN l => Buffered(x)
    PROVE  BufferedList([l EXCEPT ![i] = x]) /\ DOMAIN [l EXCEPT ![i] = x] = DOMAIN l
<1> DEFINE m == [l EXCEPT ![i] = x]
<1>1. l \in Seq(Elements(l))
  BY DEF BufferedList, Elements
<1>2. DOMAIN l = 1..Len(l) /\ Len(l) \in Nat
  BY <1>1, ListDomain
<1>3. m = [k \in 1..Len(l) |-> m[k]] /\ DOMAIN m = DOMAIN l
  BY <1>2
<1>4. m \in Seq(Elements(m))
  <2> HIDE DEF m
  <2> QED BY <1>2, <1>3, ListOf
<1>5. \A k \in DOMAIN m : Buffered(m[k])
  <2> SUFFICES ASSUME NEW k \in DOMAIN l PROVE Buffered(m[k])
    BY <1>3
  <2>1. m[k] = IF k = i THEN x ELSE l[k]
    OBVIOUS
  <2>2. Buffered(l[k])
    BY DEF BufferedList
  <2> QED BY <2>1, <2>2
<1>6. BufferedList(m)
  <2> HIDE DEF m
  <2> QED BY <1>4, <1>5 DEF BufferedList, Elements
<1> QED BY <1>3, <1>6

LEMMA AppendOne ==
    ASSUME NEW l, BufferedList(l), NEW x, Buffered(x)
    PROVE  /\ BufferedList(Append(l, x))
           /\ Len(l) \in Nat /\ DOMAIN Append(l, x) = 1..Len(l) + 1
           /\ Append(l, x)[Len(l) + 1] = x
<1> DEFINE m == Append(l, x)
           S == Elements(l) \cup {x}
<1>1. l \in Seq(Elements(l))
  BY DEF BufferedList, Elements
<1>2. l \in Seq(S) /\ Len(l) \in Nat /\ DOMAIN l = 1..Len(l)
  BY <1>1, ListDomain
<1>3. /\ m \in Seq(S) /\ Len(m) = Len(l) + 1
      /\ \A i \in 1..Len(l) : m[i] = l[i]
      /\ m[Len(l) + 1] = x
  <2> HIDE DEF S
  <2>1. x \in S
    BY DEF S
  <2> QED BY <1>2, <2>1
<1>4. m = [i \in 1..Len(l) + 1 |-> m[i]] /\ DOMAIN m = 1..Len(l) + 1
  <2> HIDE DEF m, S
  <2> QED BY <1>2, <1>3
<1>5. m \in Seq(Elements(m))
  <2> HIDE DEF m
  <2>1. Len(l) + 1 \in Nat
    BY <1>2
  <2> QED BY <2>1, <1>4, ListOf
<1>6. \A i \in DOMAIN m : Buffered(m[i])
  <2> HIDE DEF m
  <2> SUFFICES ASSUME NEW i \in 1..Len(l) + 1 PROVE Buffered(m[i])
    BY <1>4
  <2>1. i = Len(l) + 1 \/ i \in 1..Len(l)
    BY <1>2
  <2>2. i \in 1..Len(l) => Buffered(l[i])
    BY <1>2 DEF BufferedList
  <2> QED BY <2>1, <2>2, <1>3
<1>7. BufferedList(m)
  <2> HIDE DEF m
  <2> QED BY <1>5, <1>6 DEF BufferedList, Elements
<1> QED BY <1>2, <1>3, <1>4, <1>7

(* A section whose buffer is not touched keeps it.                          *)
LEMMA Untouched ==
    ASSUME NEW s, Buffered(s), NEW t, DOMAIN t = DOMAIN s,
           t.type = s.type, t.starved = s.starved, t.size = s.size, t.cap = s.cap, t.room = s.room
    PROVE  Buffered(t)
  BY DEF Buffered, BufferSound

-----------------------------------------------------------------------------
(* append_data and set_data                                                 *)
LEMMA StoredKeeps ==
    ASSUME NEW s, Buffered(s), s.type # "nobits", NEW n \in Nat, NEW e, Fits(s, n)
    PROVE  Buffered(Stored(s, n, e)) /\ Stored(s, n, e).type = s.type
  BY DEF Buffered, BufferSound, BufferFields, Stored, Fits

LEMMA MovedKeeps ==
    ASSUME NEW s, Buffered(s), s.type # "nobits", NEW n \in Nat, NEW e, ~ Lost(s)
    PROVE  Buffered(Moved(s, n, e)) /\ Moved(s, n, e).type = s.type
  BY DEF Buffered, BufferSound, BufferFields, Stored, Moved, Grown, Lost

LEMMA DeniedKeeps ==
    ASSUME NEW s, Buffered(s), NEW n \in Nat
    PROVE  Buffered(Denied(s, n)) /\ Denied(s, n).type = s.type
  BY DEF Buffered, BufferSound, BufferFields, Denied, Grown

LEMMA AppendedKeeps ==
    ASSUME NEW s, Buffered(s), NEW n \in Nat, NEW e, NEW t \in Appended(s, n, e)
    PROVE  Buffered(t) /\ t.type = s.type
  BY StoredKeeps, MovedKeeps, DeniedKeeps DEF Appended

LEMMA ReplacedKeeps ==
    ASSUME NEW s, Buffered(s), NEW n \in Nat, NEW t \in Replaced(s, n)
    PROVE  Buffered(t)
<1>1. CASE s.type = "nobits"
  BY <1>1 DEF Buffered, BufferFields, Replaced, Resized
<1>2. CASE s.type # "nobits"
  <2> DEFINE new == [Resized(s, n) EXCEPT !.entries = <<>>, !.starved = FALSE]
  <2>1. /\ new.type = s.type /\ new.starved = FALSE /\ new.size = n
        /\ DOMAIN new = DOMAIN s
    BY DEF Resized, Buffered, BufferFields
  <2>2. CASE t = [new EXCEPT !.cap = n, !.room = n]
    <3> HIDE DEF new
    <3> QED BY <2>1, <2>2 DEF Buffered, BufferSound, BufferFields
  <2>3. CASE t = [Resized(new, 0) EXCEPT !.cap = 0, !.room = 0]
    <3> HIDE DEF new
    <3> QED BY <2>1, <2>3 DEF Buffered, BufferSound, BufferFields, Resized
  <2> QED BY <1>2, <2>2, <2>3 DEF Replaced
<1> QED BY <1>1, <1>2

-----------------------------------------------------------------------------
(* What the tables append                                                   *)
LEMMA WithStringKeeps ==
    ASSUME NEW s, Buffered(s), NEW n \in Names, NEW t \in WithString(s, n)
    PROVE  Buffered(t) /\ t.type = s.type
<1>1. NameSize[n] + 1 \in Nat /\ 1 \in Nat
  BY NameAssumption
<1>2. PICK r \in IF s.size = 0 THEN Appended(s, 1, [at |-> s.size, is |-> ""]) ELSE {s} :
        t \in Appended(r, NameSize[n] + 1, [at |-> r.size, is |-> n])
  BY DEF WithString
<1>3. Buffered(r) /\ r.type = s.type
  BY <1>1, AppendedKeeps
<1> QED BY <1>1, <1>2, <1>3, AppendedKeeps

LEMMA WithSymbolKeeps ==
    ASSUME NEW s, Buffered(s), NEW at, NEW bind, NEW n, NEW t \in WithSymbol(s, at, bind, n)
    PROVE  Buffered(t)
<1> DEFINE Sym(r, name, b, called) ==
        [name |-> name, bind |-> b, is |-> Len(r.entries), called |-> called]
<1>1. SYM \in Nat
  BY DEF SYM
<1>2. PICK r \in IF s.size = 0 THEN Appended(s, SYM, Sym(s, 0, "local", "")) ELSE {s} :
        t \in Appended(r, SYM, Sym(r, at, bind, n))
  BY DEF WithSymbol
<1>3. Buffered(r)
  BY <1>1, AppendedKeeps
<1> QED BY <1>1, <1>2, <1>3, AppendedKeeps
LEMMA AddedKeeps ==
    ASSUME NEW all, BufferedList(all), NEW strings, NEW n \in Names, NEW shape, Buffered(shape),
           NEW new \in Added(all, strings, n, shape)
    PROVE  /\ BufferedList(new)
           /\ DOMAIN new = 1..Len(all) + 1
           /\ strings = Len(all) => new[strings + 1].type = shape.type
<1> DEFINE named(at) == [shape EXCEPT !.name = n, !.nameAt = at]
           more(at) == Append(all, named(at))
<1>1. PICK at : \E t \in WithString(more(at)[strings + 1], n) :
                    new = [more(at) EXCEPT ![strings + 1] = t]
  BY DEF Added
<1>2. Buffered(named(at)) /\ named(at).type = shape.type
  BY Untouched DEF Buffered, BufferFields
<1>3. /\ BufferedList(more(at))
      /\ Len(all) \in Nat /\ DOMAIN more(at) = 1..Len(all) + 1
      /\ more(at)[Len(all) + 1].type = shape.type
  <2> HIDE DEF named
  <2> QED BY <1>2, AppendOne
<1> HIDE DEF more
<1>4. PICK t \in WithString(more(at)[strings + 1], n) : new = [more(at) EXCEPT ![strings + 1] = t]
  BY <1>1
<1>5. strings + 1 \in DOMAIN more(at) => Buffered(t) /\ t.type = more(at)[strings + 1].type
  BY <1>3, WithStringKeeps DEF BufferedList
<1>6. BufferedList(new) /\ DOMAIN new = 1..Len(all) + 1
  BY <1>3, <1>4, <1>5, ReplaceOne
<1>7. ASSUME strings = Len(all) PROVE new[strings + 1].type = shape.type
  <2>1. strings + 1 \in DOMAIN more(at)
    BY <1>3, <1>7
  <2>2. new[strings + 1] = t
    BY <1>4, <2>1
  <2> QED BY <1>3, <1>5, <1>7, <2>1, <2>2
<1> QED BY <1>6, <1>7

LEMMA RelatedKeeps ==
    ASSUME NEW all, BufferedList(all), NEW rels, NEW e, NEW new \in Related(all, rels, e)
    PROVE  BufferedList(new)
<1>1. CASE rels = {}
  BY <1>1 DEF Related
<1>2. CASE rels # {}
  <2>1. PICK i \in rels : \E r \in Appended(all[i], REL, e) : new = [all EXCEPT ![i] = r]
    BY <1>2 DEF Related
  <2>2. PICK r \in Appended(all[i], REL, e) : new = [all EXCEPT ![i] = r]
    BY <2>1
  <2>3. i \in DOMAIN all => Buffered(r)
    BY AppendedKeeps DEF REL, BufferedList
  <2> QED BY <2>2, <2>3, ReplaceOne
<1> QED BY <1>1, <1>2

LEMMA BlankBuffered == Buffered(Blank)
<1>1. BufferFields \subseteq DOMAIN Blank
  BY DEF BufferFields, Blank
<1>2. Blank.type = "null" /\ Blank.size = 0 /\ Blank.cap = 0 /\ Blank.room = 0
  BY DEF Blank
<1> QED BY <1>1, <1>2 DEF Buffered, BufferSound

LEMMA SingleList ==
    ASSUME NEW x, Buffered(x)
    PROVE  BufferedList(<<x>>) /\ Len(<<x>>) = 1
<1>1. <<x>> \in Seq({x}) /\ DOMAIN <<x>> = {1} /\ <<x>>[1] = x
  OBVIOUS
<1>2. {<<x>>[i] : i \in DOMAIN <<x>>} = {x}
  BY <1>1
<1> QED BY <1>1, <1>2 DEF BufferedList

(* create() starts with a null section and a string table.                  *)
LEMMA MandatoryKeeps ==
    ASSUME NEW new \in Mandatory
    PROVE  BufferedList(new)
<1> DEFINE table2(s) == [i \in 1..2 |-> IF i = 1 THEN s[1] ELSE [s[2] EXCEPT !.type = "strtab", !.align = 1]]
<1>1. PICK s \in Added(<<Blank>>, 1, ".shstrtab", Blank) : new = table2(s)
  BY DEF Mandatory
<1>2. Buffered(Blank)
  BY BlankBuffered
<1>3. BufferedList(<<Blank>>) /\ Len(<<Blank>>) = 1
  BY <1>2, SingleList
<1>4. ".shstrtab" \in Names
  BY NameAssumption
<1>5. BufferedList(s) /\ DOMAIN s = 1..2 /\ s[2].type = Blank.type
  <2> DEFINE one == 1  all == <<Blank>>
  <2>1. /\ BufferedList(s)
        /\ DOMAIN s = 1..Len(all) + 1
        /\ one = Len(all) => s[one + 1].type = Blank.type
    <3>1. s \in Added(all, one, ".shstrtab", Blank) /\ BufferedList(all)
      BY <1>1, <1>3
    <3> HIDE DEF table2, one, all
    <3> QED BY <1>2, <1>4, <3>1, AddedKeeps
  <2> QED BY <1>3, <2>1
<1>6. Buffered(s[1]) /\ Buffered(s[2]) /\ s[2].type = "null"
  <2>1. Blank.type = "null"
    BY DEF Blank
  <2>2. 1 \in DOMAIN s /\ 2 \in DOMAIN s
    BY <1>5
  <2> QED BY <1>5, <2>1, <2>2 DEF BufferedList
<1>7. Buffered([s[2] EXCEPT !.type = "strtab", !.align = 1])
  BY <1>6 DEF Buffered, BufferSound, BufferFields
<1>8. \A i \in 1..2 : Buffered(new[i])
  BY <1>1, <1>6, <1>7
<1>9. new \in Seq(Elements(new)) /\ DOMAIN new = 1..2
  BY <1>1, ListOf
<1> QED BY <1>8, <1>9 DEF BufferedList, Elements

-----------------------------------------------------------------------------
(* Steps that change one section, or fields of it that are not its buffer's *)
LEMMA AppendsKeep ==
    ASSUME NEW all, BufferedList(all), NEW i, NEW n \in Nat, NEW e, NEW new \in Appended(all[i], n, e)
    PROVE  BufferedList([all EXCEPT ![i] = new])
<1>1. i \in DOMAIN all => Buffered(new)
  BY AppendedKeeps DEF BufferedList
<1> QED BY <1>1, ReplaceOne

LEMMA ChangesKeep ==
    ASSUME NEW all, BufferedList(all), NEW i, NEW t,
           i \in DOMAIN all => /\ DOMAIN t = DOMAIN all[i]
                               /\ t.type = all[i].type /\ t.starved = all[i].starved
                               /\ t.size = all[i].size /\ t.cap = all[i].cap /\ t.room = all[i].room
    PROVE  BufferedList([all EXCEPT ![i] = t])
<1>1. i \in DOMAIN all => Buffered(all[i])
  BY DEF BufferedList
<1>2. i \in DOMAIN all => Buffered(t)
  BY <1>1, Untouched
<1> QED BY <1>2, ReplaceOne

LEMMA EntriesKeep ==
    ASSUME NEW all, BufferedList(all), NEW i, NEW f
    PROVE  BufferedList([all EXCEPT ![i].entries = f])
<1>1. i \in DOMAIN all => BufferFields \subseteq DOMAIN all[i]
  BY DEF BufferedList, Buffered
<1> DEFINE t == [all[i] EXCEPT !.entries = f]
<1>2. BufferedList([all EXCEPT ![i] = t])
  BY <1>1, ChangesKeep DEF BufferFields
<1> QED BY <1>2

LEMMA MappedKeeps ==
    ASSUME NEW all, BufferedList(all), NEW new,
           new = [i \in 1..Len(all) |-> new[i]], \A i \in 1..Len(all) : Buffered(new[i])
    PROVE  BufferedList(new)
<1>1. Len(all) \in Nat
  BY ListDomain DEF BufferedList, Elements
<1>2. new \in Seq(Elements(new)) /\ DOMAIN new = 1..Len(all)
  BY <1>1, ListOf
<1> QED BY <1>2 DEF BufferedList, Elements

-----------------------------------------------------------------------------
(* The changes clients make                                                 *)
Sound == BufferedList(sections)

LEMMA AddSectionKeeps ==
    ASSUME Sound, NEW n \in Names, NEW shape \in SectionShapes, AddSection(n, shape)
    PROVE  Sound'
<1>1. CASE sections' = sections
  BY <1>1 DEF Sound
<1>2. CASE sections' \in Added(sections, elf.strings, n, shape)
  BY <1>2, ObjectAssumption, AddedKeeps DEF Sound
<1> QED BY <1>1, <1>2 DEF AddSection, Crash, Faults

LEMMA AddSymbolKeeps ==
    ASSUME Sound, NEW t, NEW n \in Names, NEW bind, NEW rels, AddSymbol(t, n, bind, rels)
    PROVE  Sound'
<1>1. CASE sections' = sections
  BY <1>1 DEF Sound
<1>2. ASSUME NEW u \in WithString(sections[sections[t].link], n),
             NEW v \in WithSymbol(sections[t], Position(sections[sections[t].link]), bind, n),
             NEW e,
             sections' \in Related([sections EXCEPT ![sections[t].link] = u, ![t] = v], rels, e)
      PROVE  Sound'
  <2> DEFINE one == [sections EXCEPT ![sections[t].link] = u]
             two == [one EXCEPT ![t] = v]
  <2>1. sections[t].link \in DOMAIN sections => Buffered(u)
    BY WithStringKeeps DEF Sound, BufferedList
  <2>2. BufferedList(one) /\ DOMAIN one = DOMAIN sections
    BY <2>1, ReplaceOne DEF Sound
  <2>3. t \in DOMAIN one => Buffered(v)
    BY <2>2, WithSymbolKeeps DEF Sound, BufferedList
  <2>4. sections' \in Related(two, rels, e)
    BY <1>2
  <2>5. BufferedList(two)
    <3> HIDE DEF one
    <3> QED BY <2>2, <2>3, ReplaceOne
  <2> HIDE DEF two
  <2> QED BY <2>4, <2>5, RelatedKeeps DEF Sound
<1> QED BY <1>1, <1>2 DEF AddSymbol, Crash, Faults

LEMMA RelocationsKeep ==
    ASSUME Sound, NEW r, NEW k, NEW e, AddRelocation(r, k) \/ SetRelocation(r, e, k)
    PROVE  Sound'
<1>1. CASE AddRelocation(r, k)
  <2>1. CASE sections' = sections
    BY <2>1 DEF Sound
  <2>2. ASSUME NEW x, sections' \in Related(sections, {r}, x)
        PROVE  Sound'
    BY <2>2, RelatedKeeps DEF Sound
  <2> QED BY <1>1, <2>1, <2>2 DEF AddRelocation, Crash, Faults
<1>2. CASE SetRelocation(r, e, k)
  <2>1. PICK x : sections' = [sections EXCEPT ![r].entries[e] = x]
    BY <1>2 DEF SetRelocation
  <2>2. sections' = [sections EXCEPT ![r].entries = [sections[r].entries EXCEPT ![e] = x]]
    BY <2>1
  <2> QED BY <2>2, EntriesKeep DEF Sound
<1> QED BY <1>1, <1>2

LEMMA AddItemKeeps ==
    ASSUME Sound, NEW v, NEW type, NEW bytes \in Nat, NEW e, NEW seen, AddItem(v, type, bytes, e, seen)
    PROVE  Sound'
<1>1. CASE sections' = sections
  BY <1>1 DEF Sound
<1>2. ASSUME NEW new \in Appended(sections[views[v].sec], bytes, e),
             sections' = [sections EXCEPT ![views[v].sec] = new]
      PROVE  Sound'
  BY <1>2, AppendsKeep DEF Sound
<1> QED BY <1>1, <1>2 DEF AddItem, Crash, Faults

LEMMA AddNoteKeeps ==
    ASSUME Sound, NEW v, NEW n \in Names, NEW d \in Descs, AddNote(v, n, d)
    PROVE  Sound'
<1>1. NameSize[n] \in Nat /\ d \in Nat
  BY NameAssumption, ObjectAssumption
<1>2. \A k \in Nat : Padded(k) \in Nat
  BY DEF Padded
<1> DEFINE note == [at |-> sections[views[v].sec].size, namesz |-> NameSize[n] + 1, descsz |-> d]
<1>3. NoteBytes(note) \in Nat
  BY <1>1, <1>2 DEF NoteBytes
<1>4. AddItem(v, "note", NoteBytes(note), note, Len(Entries(v)) + 1)
  BY DEF AddNote
<1> HIDE DEF note
<1> QED BY <1>3, <1>4, AddItemKeeps

LEMMA AddAttributeKeeps ==
    ASSUME Sound, NEW v, NEW n \in Names, NEW d \in Descs, AddAttribute(v, n, d)
    PROVE  Sound'
<1>1. NameSize[n] + 1 + d + 1 \in Nat
  BY NameAssumption, ObjectAssumption
<1> QED BY <1>1, AddItemKeeps DEF AddAttribute

LEMMA VersionsKeep ==
    ASSUME Sound, NEW v, NEW k, AddVersion(v) \/ ModifyVersion(v, k)
    PROVE  Sound'
<1>1. CASE AddVersion(v)
  BY <1>1, AddItemKeeps DEF AddVersion, VERSYM
<1>2. CASE ModifyVersion(v, k)
  <2>1. CASE sections' = sections
    BY <2>1 DEF Sound
  <2>2. ASSUME NEW f, sections' = [sections EXCEPT ![views[v].sec].entries = f]
        PROVE  Sound'
    BY <2>2, EntriesKeep DEF Sound
  <2> QED BY <1>2, <2>1, <2>2 DEF ModifyVersion, Crash
<1> QED BY <1>1, <1>2

LEMMA AddAddressKeeps ==
    ASSUME Sound, NEW i, AddAddress(i)
    PROVE  Sound'
<1>1. CASE sections' = sections
  BY <1>1 DEF Sound
<1>2. ASSUME NEW new \in Appended(sections[i], ADDRESS, "address"),
             sections' = [sections EXCEPT ![i] = new]
      PROVE  Sound'
  BY <1>2, AppendsKeep DEF Sound, ADDRESS
<1> QED BY <1>1, <1>2 DEF AddAddress, Crash, Faults

LEMMA AddDynamicKeeps ==
    ASSUME Sound, NEW i, NEW n \in Names, AddDynamic(i, n)
    PROVE  Sound'
<1>1. CASE sections' = sections
  BY <1>1 DEF Sound
<1>2. ASSUME NEW e, NEW new \in Appended(sections[i], DYN, e), sections' = [sections EXCEPT ![i] = new]
      PROVE  Sound'
  BY <1>2, AppendsKeep DEF Sound, DYN
<1>3. ASSUME NEW e, NEW u \in WithString(sections[sections[i].link], n),
             NEW new \in Appended(sections[i], DYN, e),
             sections' = [sections EXCEPT ![sections[i].link] = u, ![i] = new]
      PROVE  Sound'
  <2> DEFINE one == [sections EXCEPT ![sections[i].link] = u]
  <2>1. sections[i].link \in DOMAIN sections => Buffered(u)
    BY WithStringKeeps DEF Sound, BufferedList
  <2>2. BufferedList(one) /\ DOMAIN one = DOMAIN sections
    BY <2>1, ReplaceOne DEF Sound
  <2>3. i \in DOMAIN one => Buffered(new)
    BY <2>2, AppendedKeeps DEF Sound, BufferedList, DYN
  <2>4. sections' = [one EXCEPT ![i] = new]
    BY <1>3
  <2> HIDE DEF one
  <2> QED BY <2>2, <2>3, <2>4, ReplaceOne DEF Sound
<1> QED BY <1>1, <1>2, <1>3 DEF AddDynamic, Crash, Faults

LEMMA ArrangeKeeps ==
    ASSUME Sound, ArrangeStep
    PROVE  Sound'
<1> DEFINE t == job.table
           p == FirstNotLocal(sections[t], Count(sections[t]), job.first)
<1>1. CASE sections' = sections
  BY <1>1 DEF Sound
<1>2. ASSUME NEW second, sections' = SwappedIn(t, p, second)
      PROVE  Sound'
  <2> HIDE DEF t, p
  <2> DEFINE e == sections[t].entries
             swapped == [e EXCEPT ![p + 1] = e[second + 1], ![second + 1] = e[p + 1]]
             Other(i) == IF i \in Linked(t) THEN SwapSymbols(sections[i], p, second) ELSE sections[i]
             New(i) == IF i = t THEN [sections[t] EXCEPT !.entries = swapped] ELSE Other(i)
  <2>1. sections' = [i \in 1..Len(sections) |-> New(i)]
    BY <1>2 DEF SwappedIn
  <2>2. ASSUME NEW i \in 1..Len(sections)
        PROVE  Buffered(New(i))
    <3>1. Buffered(sections[i])
      BY ListDomain DEF Sound, BufferedList, Elements
    <3>2. BufferFields \subseteq DOMAIN sections[i]
      BY <3>1 DEF Buffered
    <3>3. ASSUME NEW f
          PROVE  Buffered([sections[i] EXCEPT !.entries = f])
      BY <3>1, <3>2, Untouched DEF BufferFields
    <3>4. Buffered(Other(i))
      BY <3>1, <3>3 DEF SwapSymbols
    <3> HIDE DEF Other, swapped
    <3> QED BY <3>3, <3>4
  <2> HIDE DEF New
  <2> QED BY <2>1, <2>2, MappedKeeps DEF Sound
<1>3. CASE sections' = [sections EXCEPT ![t].info = p]
  <2> HIDE DEF p
  <2> DEFINE s == [sections[t] EXCEPT !.info = p]
  <2>1. t \in DOMAIN sections => BufferFields \subseteq DOMAIN sections[t]
    BY DEF Sound, BufferedList, Buffered
  <2>2. BufferedList([sections EXCEPT ![t] = s])
    BY <2>1, ChangesKeep DEF BufferFields, Sound
  <2> QED BY <1>3, <2>2 DEF Sound
<1> QED BY <1>1, <1>2, <1>3 DEF ArrangeStep, Crash

-----------------------------------------------------------------------------
(* Data set or appended, and places given                                   *)
LEMMA DataKeeps ==
    ASSUME Sound, NEW i, NEW n \in Chunks, SetData(i, n) \/ AppendData(i, n)
    PROVE  Sound'
<1>1. n \in Nat
  BY ObjectAssumption
<1>2. CASE SetData(i, n)
  <2>1. PICK s \in Replaced(sections[i], n) : sections' = [sections EXCEPT ![i] = s]
    BY <1>2 DEF SetData
  <2>2. i \in DOMAIN sections => Buffered(s)
    BY <1>1, ReplacedKeeps DEF Sound, BufferedList
  <2> QED BY <2>1, <2>2, ReplaceOne DEF Sound
<1>3. CASE AppendData(i, n)
  <2>1. CASE sections' = sections
    BY <2>1 DEF Sound
  <2>2. ASSUME NEW s \in Appended(sections[i], n, n), sections' = [sections EXCEPT ![i] = s]
        PROVE  Sound'
    BY <1>1, <2>2, AppendsKeep DEF Sound
  <2> QED BY <1>3, <2>1, <2>2 DEF AppendData, Crash, Faults
<1> QED BY <1>2, <1>3

LEMMA SetAddressKeeps ==
    ASSUME Sound, NEW i, NEW a, SetAddress(i, a)
    PROVE  Sound'
<1> DEFINE s == [sections[i] EXCEPT !.addr = a, !.addrSet = TRUE]
<1>1. i \in DOMAIN sections => BufferFields \subseteq DOMAIN sections[i]
  BY DEF Sound, BufferedList, Buffered
<1>2. BufferedList([sections EXCEPT ![i] = s])
  BY <1>1, ChangesKeep DEF BufferFields, Sound
<1>3. sections' = [sections EXCEPT ![i] = s]
  BY DEF SetAddress
<1> QED BY <1>2, <1>3 DEF Sound

LEMMA PlacesKeep ==
    ASSUME Sound, PlaceMember \/ LooseSection
    PROVE  Sound'
<1>1. CASE sections' = sections
  BY <1>1 DEF Sound
<1>2. ASSUME NEW i, NEW at, sections' = [sections EXCEPT ![i] = Placed(@, at)]
      PROVE  Sound'
  <2>1. i \in DOMAIN sections => BufferFields \subseteq DOMAIN sections[i]
    BY DEF Sound, BufferedList, Buffered
  <2>2. BufferedList([sections EXCEPT ![i] = Placed(sections[i], at)])
    BY <2>1, ChangesKeep DEF BufferFields, Sound, Placed
  <2> QED BY <1>2, <2>2 DEF Sound
<1>3. ASSUME NEW i, NEW at, sections' = [sections EXCEPT ![i].offset = at]
      PROVE  Sound'
  <2> DEFINE s == [sections[i] EXCEPT !.offset = at]
  <2>1. i \in DOMAIN sections => BufferFields \subseteq DOMAIN sections[i]
    BY DEF Sound, BufferedList, Buffered
  <2>2. BufferedList([sections EXCEPT ![i] = s])
    BY <2>1, ChangesKeep DEF BufferFields, Sound
  <2> QED BY <1>3, <2>2 DEF Sound
<1>4. CASE PlaceMember
  BY <1>1, <1>2, <1>4 DEF PlaceMember
<1>5. CASE LooseSection
  BY <1>1, <1>3, <1>5 DEF LooseSection
<1> QED BY <1>4, <1>5

LEMMA CreateKeeps ==
    ASSUME Sound, Create
    PROVE  Sound'
<1>1. CASE sections' = sections
  BY <1>1 DEF Sound
<1>2. CASE sections' \in Mandatory
  BY <1>2, MandatoryKeeps DEF Sound
<1> QED BY <1>1, <1>2 DEF Create, Crash

-----------------------------------------------------------------------------
(* What remains leaves the sections alone.                                  *)
LEMMA NextKeeps ==
    ASSUME Sound, [Next]_vars
    PROVE  Sound'
<1> USE DEF Sound
<1>1. CASE UNCHANGED vars
  BY <1>1 DEF vars, core
<1>2. CASE Create
  BY <1>2, CreateKeeps
<1>3. CASE TableEdit
  <2>1. CASE \E n \in Names, shape \in SectionShapes : AddSection(n, shape)
    BY <2>1, AddSectionKeeps
  <2>2. CASE \E t \in Tables("symtab"), n \in Names \ {""}, b \in {"local", "global"} :
                \E r \in {{}} \cup {{i} : i \in Linked(t)} : AddSymbol(t, n, b, r)
    BY <2>2, AddSymbolKeeps
  <2>3. CASE \E r \in Tables("rel") : \E k \in 0..Len(sections[sections[r].link].entries) - 1 :
                \/ AddRelocation(r, k)
                \/ \E e \in 1..Len(sections[r].entries) : SetRelocation(r, e, k)
    BY <2>3, RelocationsKeep
  <2>4. CASE \E t \in Tables("symtab") : ArrangeBegin(t)
    BY <2>4 DEF ArrangeBegin
  <2>5. CASE \E v \in 1..Len(views), n \in Names, d \in Descs : AddNote(v, n, d) \/ AddAttribute(v, n, d)
    BY <2>5, AddNoteKeeps, AddAttributeKeeps
  <2>6. CASE \E v \in 1..Len(views) : AddVersion(v) \/ \E k \in 1..Len(views[v].seen) : ModifyVersion(v, k)
    BY <2>6, VersionsKeep
  <2>7. CASE \E i \in Tables("array") : AddAddress(i)
    BY <2>7, AddAddressKeeps
  <2>8. CASE \E i \in Tables("dynamic"), n \in Names : AddDynamic(i, n)
    BY <2>8, AddDynamicKeeps
  <2> QED BY <1>3, <2>1, <2>2, <2>3, <2>4, <2>5, <2>6, <2>7, <2>8 DEF TableEdit
<1>4. CASE ArrangeStep
  BY <1>4, ArrangeKeeps
<1>5. CASE Read
  BY <1>5 DEF Read, OpenList, CountDynamic, core
<1>6. CASE LayoutEdit
  <2>1. CASE \E shape \in SegmentShapes : AddSegment(shape)
    BY <2>1 DEF AddSegment, Crash
  <2>2. CASE \E g \in 1..Len(segments), i \in 2..Len(sections) : AddToSegment(g, i)
    BY <2>2 DEF AddToSegment
  <2>3. CASE \E i \in Tables("progbits"), a \in Addresses : SetAddress(i, a)
    BY <2>3, SetAddressKeeps
  <2>4. CASE \E i \in Tables("progbits"), n \in Chunks : SetData(i, n) \/ AppendData(i, n)
    BY <2>4, DataKeeps
  <2> QED BY <1>6, <2>1, <2>2, <2>3, <2>4 DEF LayoutEdit
<1>7. CASE SaveBegin
  BY <1>7 DEF SaveBegin
<1>8. CASE SaveStep
  <2>1. CASE PlaceMember \/ LooseSection
    BY <2>1, PlacesKeep
  <2>2. CASE OrderStep \/ Ordered \/ EndSegment \/ SegmentsPlaced
    BY <2>2 DEF OrderStep, Ordered, EndSegment, SegmentsPlaced, Turn, core
  <2>3. CASE BeginSegment
    BY <2>3 DEF BeginSegment, Start
  <2>4. CASE PlaceTable \/ SaveHeader \/ SaveSection \/ SaveSegments
    BY <2>4 DEF PlaceTable, SaveHeader, SaveSection, SaveSegments, core
  <2> QED BY <1>8, <2>1, <2>2, <2>3, <2>4 DEF SaveStep
<1> QED BY <1>1, <1>2, <1>3, <1>4, <1>5, <1>6, <1>7, <1>8 DEF Next

LEMMA InitSound == Init => Sound
  BY ObjectAssumption DEF Init, Sound

LEMMA SoundFits == Sound => DataFits
<1> SUFFICES ASSUME Sound, NEW i \in 1..Len(sections), sections[i].type # "nobits"
             PROVE  BufferSound(sections[i])
  BY DEF DataFits
<1>1. i \in DOMAIN sections
  BY ListDomain DEF Sound, BufferedList, Elements
<1> QED BY <1>1 DEF Sound, BufferedList, Buffered

(* Buffers hold what they are said to hold, whatever the client adds,       *)
(* appends and sets, in whichever order, and whichever allocations fail     *)
(* (append_data and set_data, elfio_section.hpp).                           *)
THEOREM BuffersHold == Spec => []DataFits
<1>1. Sound /\ [Next]_vars => Sound'
  BY NextKeeps
<1> QED BY InitSound, SoundFits, <1>1, PTL DEF Spec
=============================================================================
