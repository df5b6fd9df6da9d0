-------------------------- MODULE ElfTablesProofs --------------------------
(***************************************************************************)
(* What the tables of an elfio object go on meaning while clients add to   *)
(* them, arrange symbols and save, whichever allocations fail: names are   *)
(* found, relocations keep their symbols, lists agree with their sections. *)
(*                                                                         *)
(* The invariant is Consistent (ElfObject): every table is Tabular (a whole *)
(* one has as many bytes as its entries take), links between tables lead   *)
(* to one of the right kind, and every name and relocation means what it   *)
(* was given to mean.  Most steps make sections Later: entries stay where  *)
(* they are, and others follow.  Besides (TablesInv): in front of the place *)
(* arrange_local_symbols has reached all symbols are local (Arranging), and *)
(* no accessor has seen what its section does not have (ViewsHold).         *)
(***************************************************************************)
EXTENDS ElfWriterProofs

(* Sections that differ in what tables are not about: places and buffers    *)
SameKind(s, x) ==
    /\ x.type = s.type /\ x.link = s.link /\ x.entsize = s.entsize /\ x.deflate = s.deflate
    /\ x.name = s.name /\ x.nameAt = s.nameAt
    /\ Placeable(s) => Placeable(x)

Indexed == {"strtab", "symtab"}     \* what other sections refer into

(* What becomes of a section: tables do not get shorter, nor whole again    *)
Longer(s, x) ==
    /\ x.type = s.type
    /\ s.type # "progbits" /\ Whole(x) => Whole(s) /\ Len(s.entries) <= Len(x.entries)

(* and of one to which entries are appended                                 *)
Later(s, x) ==
    /\ SameKind(s, x) /\ Longer(s, x)
    /\ s.type \in Indexed /\ Whole(x) => \A k \in 1..Len(s.entries) : x.entries[k] = s.entries[k]

Fielded(s) ==
    /\ TableFields \subseteq DOMAIN s /\ Placeable(s)
    /\ s.entries \in Seq(Elements(s.entries))
    /\ s.size \in Nat /\ s.stream \in Nat /\ s.entsize \in Nat /\ s.nameAt \in Nat

(* What may be appended to a table that goes by the size of its entries     *)
Sized(s, n, e) ==
    /\ n \in Nat
    /\ s.type = "symtab"  => n = SYM /\ e.is = Len(s.entries)
    /\ s.type = "dynamic" => n = DYN
    /\ s.type = "versym"  => n = VERSYM
    /\ s.type = "array"   => n = ADDRESS
    /\ s.type = "strtab"  => n > 0 /\ e.at = s.size
    /\ s.type = "note"    => /\ e.at = s.size /\ e.namesz \in Nat /\ e.descsz \in Nat
                             /\ n = NoteBytes(e)
    /\ s.type = "modinfo" => e.at = s.size /\ e.length \in Nat \ {0} /\ n = e.length + 1

Put(all, i, x) == [all EXCEPT ![i] = x]

Grows(all, new) == Len(all) <= Len(new) /\ \A i \in 1..Len(all) : Longer(all[i], new[i])

-----------------------------------------------------------------------------
(* Sequences of entries                                                     *)
LEMMA AppendEntry ==
    ASSUME NEW l, l \in Seq(Elements(l)), NEW x
    PROVE  /\ Append(l, x) \in Seq(Elements(Append(l, x)))
           /\ Len(l) \in Nat /\ Len(Append(l, x)) = Len(l) + 1
           /\ \A k \in 1..Len(l) : Append(l, x)[k] = l[k]
           /\ Append(l, x)[Len(l) + 1] = x
<1> DEFINE m == Append(l, x)
           S == Elements(l) \cup {x}
<1>1. l \in Seq(S) /\ Len(l) \in Nat /\ DOMAIN l = 1..Len(l)
  BY ListDomain
<1>2. /\ m \in Seq(S) /\ Len(m) = Len(l) + 1
      /\ \A i \in 1..Len(l) : m[i] = l[i]
      /\ m[Len(l) + 1] = x
  <2> HIDE DEF S
  <2>1. x \in S
    BY DEF S
  <2> QED BY <1>1, <2>1
<1>3. m = [i \in 1..Len(l) + 1 |-> m[i]] /\ Len(l) + 1 \in Nat
  <2> HIDE DEF m, S
  <2> QED BY <1>1, <1>2
<1>4. m \in Seq(Elements(m))
  <2> HIDE DEF m
  <2> QED BY <1>3, ListOf
<1> QED BY <1>1, <1>2, <1>4

LEMMA ReplaceEntry ==
    ASSUME NEW l, l \in Seq(Elements(l)), NEW i, NEW x
    PROVE  /\ [l EXCEPT ![i] = x] \in Seq(Elements([l EXCEPT ![i] = x]))
           /\ Len([l EXCEPT ![i] = x]) = Len(l)
<1> DEFINE m == [l EXCEPT ![i] = x]
<1>1. DOMAIN l = 1..Len(l) /\ Len(l) \in Nat
  BY ListDomain
<1>2. m = [k \in 1..Len(l) |-> m[k]]
  BY <1>1
<1>3. m \in Seq(Elements(m)) /\ DOMAIN m = 1..Len(l)
  <2> HIDE DEF m
  <2> QED BY <1>1, <1>2, ListOf
<1>4. Len(m) = Len(l)
  <2> HIDE DEF m
  <2>1. DOMAIN m = 1..Len(m) /\ Len(m) \in Nat
    BY <1>3, ListDomain
  <2> QED BY <1>1, <1>3, <2>1
<1> QED BY <1>3, <1>4

(* A table that is whole has room for what it holds.                        *)
LEMMA TabularFields ==
    ASSUME NEW s, NEW tr, Tabular(s, tr)
    PROVE  Fielded(s) /\ s.size \in Nat /\ Len(s.entries) \in Nat /\ DOMAIN s.entries = 1..Len(s.entries)
<1>1. s.entries \in Seq(Elements(s.entries))
  BY DEF Tabular, Elements
<1>2. Len(s.entries) \in Nat /\ DOMAIN s.entries = 1..Len(s.entries)
  BY <1>1, ListDomain
<1> QED BY <1>1, <1>2 DEF Tabular, Fielded

-----------------------------------------------------------------------------
(* append_data                                                              *)
LEMMA AppendedIs ==
    ASSUME NEW s, Fielded(s), NEW n \in Nat, NEW e, NEW t \in Appended(s, n, e)
    PROVE  /\ Fielded(t) /\ SameKind(s, t)
           /\ s.type = "nobits" => t = s
           /\ s.type # "nobits" /\ Whole(t) =>
                /\ Whole(s) /\ t.size = s.size + n /\ t.entries = Append(s.entries, e)
                /\ t.stream = IF elf.translated THEN s.stream ELSE s.stream + n
<1>1. CASE s.type = "nobits"
  <2>1. t = s
    BY <1>1 DEF Appended
  <2> QED BY <1>1, <2>1 DEF SameKind
<1> DEFINE more == Append(s.entries, e)
           stream == IF elf.translated THEN s.stream ELSE s.stream + n
<1>2. more \in Seq(Elements(more))
  BY AppendEntry DEF Fielded
<1>3. stream \in Nat
  BY DEF Fielded
<1>4. TableFields \subseteq DOMAIN s /\ BufferFields \subseteq TableFields
  BY DEF Fielded, TableFields
<1> HIDE DEF more, stream
<1>5. ASSUME NEW x, x = Stored(s, n, e)
      PROVE  /\ DOMAIN x = DOMAIN s /\ SameKind(s, x) /\ x.starved = s.starved
             /\ x.size = s.size + n /\ x.entries = more /\ x.stream = stream
  BY <1>4, <1>5 DEF Stored, SameKind, TableFields, BufferFields, more, stream, Placeable, PlaceFields
<1>6. ASSUME DOMAIN t = DOMAIN s, SameKind(s, t), t.starved = s.starved, ~ Lost(s),
             t.size = s.size + n, t.entries = more, t.stream = stream
      PROVE  Fielded(t) /\ (Whole(t) => Whole(s))
  BY <1>2, <1>3, <1>4, <1>6 DEF Fielded, Whole, SameKind
<1>7. CASE ~ Lost(s) /\ (t = Stored(s, n, e) \/ t = Moved(s, n, e))
  <2> DEFINE x == Stored(s, n, e)
  <2>1. /\ DOMAIN x = DOMAIN s /\ SameKind(s, x) /\ x.starved = s.starved
        /\ x.size = s.size + n /\ x.entries = more /\ x.stream = stream
    BY <1>5
  <2>2. t = x \/ t = [x EXCEPT !.cap = Grown(s, n), !.room = Grown(s, n)]
    BY <1>7 DEF Moved
  <2> HIDE DEF x
  <2>3. /\ DOMAIN t = DOMAIN s /\ SameKind(s, t) /\ t.starved = s.starved
        /\ t.size = s.size + n /\ t.entries = more /\ t.stream = stream
    BY <1>4, <2>1, <2>2 DEF SameKind, TableFields, BufferFields, Placeable, PlaceFields
  <2>4. Fielded(t) /\ (Whole(t) => Whole(s))
    BY <1>6, <1>7, <2>3
  <2>5. CASE s.type = "nobits"
    BY <1>1, <2>5
  <2>6. CASE s.type # "nobits"
    <3>1. t.entries = Append(s.entries, e)
      BY <2>3 DEF more
    <3>2. t.stream = IF elf.translated THEN s.stream ELSE s.stream + n
      BY <2>3 DEF stream
    <3>3. t.size = s.size + n
      BY <2>3
    <3> HIDE DEF stream
    <3> QED BY <2>3, <2>4, <2>6, <3>1, <3>2, <3>3, Zenon
  <2> QED BY <2>5, <2>6
<1>8. CASE s.type # "nobits" /\ t = Denied(s, n)
  <2>1. /\ DOMAIN t = DOMAIN s /\ SameKind(s, t) /\ t.starved
        /\ t.size = s.size /\ t.entries = s.entries /\ t.stream = s.stream
    BY <1>4, <1>8 DEF Denied, SameKind, TableFields, BufferFields, Placeable, PlaceFields
  <2>2. Fielded(t)
    BY <2>1 DEF Fielded, SameKind
  <2>3. ~ Whole(t)
    BY <2>1 DEF Whole
  <2> QED BY <1>8, <2>1, <2>2, <2>3, Zenon
<1>9. s.type # "nobits" => \/ ~ Lost(s) /\ (t = Stored(s, n, e) \/ t = Moved(s, n, e))
                           \/ t = Denied(s, n)
  BY DEF Appended
<1>10. s.type = "nobits" \/ s.type # "nobits"
  OBVIOUS
<1> QED BY <1>1, <1>7, <1>8, <1>9, <1>10, Zenon

LEMMA NoteBytesNat ==
    ASSUME NEW e, e.namesz \in Nat, e.descsz \in Nat
    PROVE  NoteBytes(e) \in Nat /\ NoteBytes(e) > e.namesz /\ NoteBytes(e) > e.descsz
           /\ Advance(e) = NoteBytes(e)
<1>1. \A n \in Nat : Padded(n) \in Nat /\ Padded(n) >= n /\ ((n + 3) \div 4) * 4 = Padded(n)
  BY DEF Padded
<1>2. \A n \in {e.namesz, e.descsz} :
        Padded(n) \in Nat /\ Padded(n) >= n /\ ((n + 3) \div 4) * 4 = Padded(n)
  BY <1>1
<1> QED BY <1>2 DEF NoteBytes, Advance

(* An append to a table that goes by the size of its entries                *)
LEMMA AppendedLater ==
    ASSUME NEW s, Tabular(s, elf.translated),
           NEW n \in Nat, NEW e, NEW t \in Appended(s, n, e),
           s.type = "symtab"  => n = SYM /\ e.is = Len(s.entries),
           s.type = "dynamic" => n = DYN,
           s.type = "versym"  => n = VERSYM,
           s.type = "array"   => n = ADDRESS,
           s.type = "strtab"  => n > 0 /\ e.at = s.size,
           s.type = "note"    => /\ e.at = s.size /\ e.namesz \in Nat /\ e.descsz \in Nat
                                 /\ n = NoteBytes(e),
           s.type = "modinfo" => e.at = s.size /\ e.length \in Nat \ {0} /\ n = e.length + 1
    PROVE  Tabular(t, elf.translated) /\ Later(s, t)
<1> DEFINE tr == elf.translated
           more == Append(s.entries, e)
           c == Len(s.entries)
<1>1. Fielded(s) /\ c \in Nat /\ s.size \in Nat /\ (Whole(s) => Measured(s))
  BY TabularFields DEF Tabular
<1>2. /\ Fielded(t) /\ SameKind(s, t)
      /\ s.type = "nobits" => t = s
      /\ s.type # "nobits" /\ Whole(t) =>
            /\ Whole(s) /\ t.size = s.size + n /\ t.entries = more
            /\ t.stream = IF tr THEN s.stream ELSE s.stream + n
  BY <1>1, TabularFields, AppendedIs
<1>3. /\ c \in Nat /\ Len(more) = c + 1
      /\ \A k \in 1..c : more[k] = s.entries[k]
      /\ more[c + 1] = e
  BY AppendEntry, TabularFields DEF Fielded
<1> HIDE DEF more, c
<1>4. CASE s.type = "nobits"
  BY <1>1, <1>2, <1>4 DEF Later, Longer, SameKind, Indexed, c
<1>5. CASE s.type # "nobits"
  <2>1. Later(s, t)
    BY <1>2, <1>3, <1>5 DEF Later, Longer, SameKind, c
  <2>2. Whole(t) => Measured(t)
    <3> SUFFICES ASSUME Whole(t) PROVE Measured(t)
      OBVIOUS
    <3>1. /\ Measured(s) /\ t.type = s.type /\ t.size = s.size + n /\ t.entries = more
          /\ Len(t.entries) = c + 1
      BY <1>1, <1>2, <1>3, <1>5, TabularFields DEF SameKind, Tabular
    <3>2. t.type = "symtab" => /\ t.size = SYM * (c + 1)
                               /\ {t.entries[k].is : k \in 1..c + 1} = 0..(c + 1) - 1
      <4> SUFFICES ASSUME t.type = "symtab"
                   PROVE  /\ t.size = SYM * (c + 1)
                          /\ {t.entries[k].is : k \in 1..c + 1} = 0..(c + 1) - 1
        OBVIOUS
      <4>1. s.size = SYM * c /\ {s.entries[k].is : k \in 1..c} = 0..c - 1
        BY <3>1 DEF Measured, c
      <4>2. {t.entries[k].is : k \in 1..c + 1} = {s.entries[k].is : k \in 1..c} \cup {e.is}
        <5>1. 1..c + 1 = 1..c \cup {c + 1}
          BY <1>3
        <5>2. \A k \in 1..c : t.entries[k].is = s.entries[k].is
          BY <1>3, <3>1
        <5>3. t.entries[c + 1].is = e.is
          BY <1>3, <3>1
        <5> QED BY <5>1, <5>2, <5>3
      <4>3. e.is = c /\ (0..c - 1) \cup {c} = 0..(c + 1) - 1
        BY <1>3, <3>1 DEF c
      <4>4. t.size = SYM * (c + 1)
        BY <1>3, <3>1, <4>1 DEF SYM
      <4> QED BY <4>1, <4>2, <4>3, <4>4
    <3>3. /\ t.type = "dynamic" => t.size = DYN * (c + 1)
          /\ t.type = "versym" => t.size = VERSYM * (c + 1)
          /\ t.type = "array" => t.size = ADDRESS * (c + 1)
      BY <1>3, <3>1 DEF Measured, DYN, VERSYM, ADDRESS, c
    <3>4. t.type = "strtab" => \A k \in 1..c + 1 :
                /\ t.entries[k].at \in 0..t.size - 1
                /\ \A j \in 1..k - 1 : t.entries[j].at < t.entries[k].at
      <4> SUFFICES ASSUME t.type = "strtab", NEW k \in 1..c + 1
                   PROVE  /\ t.entries[k].at \in 0..t.size - 1
                          /\ \A j \in 1..k - 1 : t.entries[j].at < t.entries[k].at
        OBVIOUS
      <4>1. \A m \in 1..c : /\ s.entries[m].at \in 0..s.size - 1
                            /\ \A j \in 1..m - 1 : s.entries[j].at < s.entries[m].at
        BY <3>1 DEF Measured, c
      <4>2. n > 0 /\ e.at = s.size
        BY <3>1
      <4>3. CASE k = c + 1
        <5>1. t.entries[k].at = s.size
          BY <1>3, <3>1, <4>2, <4>3
        <5>2. \A j \in 1..c : t.entries[j].at = s.entries[j].at /\ s.entries[j].at < s.size
          BY <1>1, <1>3, <3>1, <4>1
        <5>3. s.size \in 0..t.size - 1 /\ 1..k - 1 = 1..c
          BY <1>1, <1>3, <3>1, <4>2, <4>3
        <5> QED BY <5>1, <5>2, <5>3
      <4>4. CASE k \in 1..c
        <5>1. t.entries[k] = s.entries[k] /\ \A j \in 1..k - 1 : t.entries[j] = s.entries[j]
          BY <1>3, <3>1, <4>4
        <5>2. t.size \in Nat /\ s.size <= t.size
          BY <1>1, <3>1
        <5>3. /\ t.entries[k].at \in 0..s.size - 1
              /\ \A j \in 1..k - 1 : t.entries[j].at < t.entries[k].at
          BY <4>1, <4>4, <5>1
        <5> QED BY <1>1, <5>2, <5>3
      <4>5. k = c + 1 \/ k \in 1..c
        BY <1>3
      <4> QED BY <4>3, <4>4, <4>5, Zenon
    <3>5. t.type = "note" =>
            /\ t.size = NoteEnd(t, c + 1)
            /\ \A k \in 1..c + 1 : /\ t.entries[k].namesz \in Nat /\ t.entries[k].descsz \in Nat
                                   /\ t.entries[k].at \in Nat /\ t.entries[k].at = NoteEnd(t, k - 1)
                                   /\ NoteEnd(t, k) <= t.size
      <4> SUFFICES ASSUME t.type = "note"
                   PROVE  /\ t.size = NoteEnd(t, c + 1)
                          /\ \A k \in 1..c + 1 : /\ t.entries[k].namesz \in Nat
                                                 /\ t.entries[k].descsz \in Nat
                                                 /\ t.entries[k].at \in Nat /\ t.entries[k].at = NoteEnd(t, k - 1)
                                                 /\ NoteEnd(t, k) <= t.size
                                   /\ NoteEnd(t, k) <= t.size
        OBVIOUS
      <4>1. /\ s.size = NoteEnd(s, c)
            /\ \A k \in 1..c : /\ s.entries[k].namesz \in Nat /\ s.entries[k].descsz \in Nat
                               /\ s.entries[k].at \in Nat /\ s.entries[k].at = NoteEnd(s, k - 1)
                               /\ NoteEnd(s, k) <= s.size
        BY <3>1 DEF Measured, c
      <4>2. \A k \in 0..c : NoteEnd(t, k) = NoteEnd(s, k)
        BY <1>3, <3>1 DEF NoteEnd
      <4>3. NoteEnd(t, c + 1) = e.at + NoteBytes(e)
        BY <1>3, <3>1 DEF NoteEnd
      <4>4. t.size = NoteEnd(t, c + 1)
        BY <3>1, <4>3
      <4>5. ASSUME NEW k \in 1..c + 1
            PROVE  /\ t.entries[k].namesz \in Nat /\ t.entries[k].descsz \in Nat
                   /\ t.entries[k].at \in Nat /\ t.entries[k].at = NoteEnd(t, k - 1)
                   /\ NoteEnd(t, k) <= t.size
        <5>1. CASE k = c + 1
          <6>1. k - 1 = c /\ t.entries[k] = e
            BY <1>3, <3>1, <5>1
          <6>2. NoteEnd(t, k - 1) = s.size
            BY <1>3, <4>1, <4>2, <6>1
          <6>3. e.at = s.size /\ e.namesz \in Nat /\ e.descsz \in Nat
            BY <3>1
          <6>4. t.entries[k].at \in Nat /\ t.entries[k].at = NoteEnd(t, k - 1)
            BY <1>1, <6>1, <6>2, <6>3
          <6>5. t.entries[k].namesz \in Nat /\ t.entries[k].descsz \in Nat
            BY <6>1, <6>3
          <6>6. NoteEnd(t, k) <= t.size
            BY <1>2, <4>4, <5>1 DEF Fielded
          <6> QED BY <6>4, <6>5, <6>6
        <5>2. CASE k \in 1..c
          <6>1. t.entries[k] = s.entries[k] /\ k - 1 \in 0..c
            BY <1>3, <3>1, <5>2
          <6>2. NoteEnd(t, k - 1) = NoteEnd(s, k - 1)
            BY <4>2, <6>1
          <6>3. NoteEnd(t, k) = NoteEnd(s, k) /\ NoteEnd(s, k) <= s.size
            BY <1>3, <4>1, <4>2, <5>2
          <6>3a. NoteEnd(s, k) \in Nat
            <7>0. k # 0
              BY <1>3, <5>2
            <7>1. s.entries[k].at \in Nat /\ NoteBytes(s.entries[k]) \in Nat
              BY <4>1, <5>2, NoteBytesNat, Zenon
            <7> QED BY <7>0, <7>1 DEF NoteEnd
          <6>4. NoteEnd(t, k) <= t.size
            BY <1>1, <3>1, <6>3, <6>3a
          <6> QED BY <4>1, <5>2, <6>1, <6>2, <6>4, Zenon
        <5>3. k = c + 1 \/ k \in 1..c
          BY <1>3
        <5> QED BY <5>1, <5>2, <5>3, Zenon
      <4> QED BY <4>4, <4>5
    <3>6. t.type = "modinfo" => \A k \in 1..c + 1 :
                /\ t.entries[k].at \in Nat /\ t.entries[k].length \in Nat \ {0}
                /\ AttributeEnd(t, k - 1) <= t.entries[k].at /\ AttributeEnd(t, k) <= t.size
      <4> SUFFICES ASSUME t.type = "modinfo", NEW k \in 1..c + 1
                   PROVE  /\ t.entries[k].at \in Nat /\ t.entries[k].length \in Nat \ {0}
                          /\ AttributeEnd(t, k - 1) <= t.entries[k].at
                          /\ AttributeEnd(t, k) <= t.size
        OBVIOUS
      <4>1. \A j \in 1..c :
                /\ s.entries[j].at \in Nat /\ s.entries[j].length \in Nat \ {0}
                /\ AttributeEnd(s, j - 1) <= s.entries[j].at /\ AttributeEnd(s, j) <= s.size
        BY <3>1 DEF Measured, c
      <4>2. \A j \in 0..c : AttributeEnd(t, j) = AttributeEnd(s, j)
        BY <1>3, <3>1 DEF AttributeEnd
      <4>3. e.at = s.size /\ e.length \in Nat \ {0} /\ n = e.length + 1
        BY <3>1
      <4>4. CASE k = c + 1
        <5>1. k - 1 = c /\ t.entries[k] = e /\ k # 0
          BY <1>3, <3>1, <4>4
        <5>2. AttributeEnd(t, c) <= s.size
          <6>1. CASE c = 0
            BY <1>1, <6>1 DEF AttributeEnd
          <6>2. CASE c # 0
            BY <1>3, <4>1, <4>2, <6>2
          <6> QED BY <6>1, <6>2
        <5>3. AttributeEnd(t, k) = e.at + e.length + 1
          BY <5>1 DEF AttributeEnd
        <5> QED BY <1>1, <3>1, <4>3, <5>1, <5>2, <5>3
      <4>5. CASE k \in 1..c
        <5>1. t.entries[k] = s.entries[k] /\ k - 1 \in 0..c /\ k \in 0..c
          BY <1>3, <3>1, <4>5
        <5>2. AttributeEnd(t, k - 1) = AttributeEnd(s, k - 1) /\ AttributeEnd(t, k) = AttributeEnd(s, k)
          BY <4>2, <5>1
        <5>3. AttributeEnd(s, k) \in Nat
          BY <4>1, <4>5 DEF AttributeEnd
        <5>4. s.size <= t.size /\ t.size \in Nat
          BY <1>1, <3>1
        <5>5. AttributeEnd(t, k) <= t.size
          BY <1>1, <4>1, <4>5, <5>2, <5>3, <5>4
        <5> QED BY <4>1, <4>5, <5>1, <5>2, <5>5
      <4> QED BY <1>3, <4>4, <4>5
    <3> QED BY <3>1, <3>2, <3>3, <3>4, <3>5, <3>6 DEF Measured
  <2>3. Whole(t) /\ t.type = "symtab" /\ ~ t.deflate /\ ~ tr => t.size <= t.stream
    <3>1. Whole(s) /\ s.type = "symtab" /\ ~ s.deflate /\ ~ tr => s.size <= s.stream
      BY DEF Tabular
    <3>2. s.size \in Nat /\ s.stream \in Nat /\ t.type = s.type /\ t.deflate = s.deflate
      BY <1>1, <1>2 DEF SameKind, Fielded
    <3> QED BY <1>2, <1>5, <3>1, <3>2
  <2>4. Fielded(t)
    BY <1>2
  <2> QED BY <2>1, <2>2, <2>3, <2>4 DEF Tabular, Fielded, Elements
<1> QED BY <1>4, <1>5

LEMMA LessSelf == \A x \in Nat : x <= x
  OBVIOUS

LEMMA LaterTwice ==
    ASSUME NEW s, NEW r, NEW t, Later(s, r), Later(r, t),
           Len(s.entries) \in Nat, Len(r.entries) \in Nat, Len(t.entries) \in Nat
    PROVE  Later(s, t)
<1>1. SameKind(s, t) /\ r.type = s.type /\ t.type = s.type
  BY DEF Later, SameKind
<1>2. ASSUME s.type # "progbits", Whole(t)
      PROVE  Whole(s) /\ Whole(r) /\ Len(s.entries) <= Len(r.entries) /\ Len(r.entries) <= Len(t.entries)
  BY <1>1, <1>2 DEF Later, Longer
<1>3. Longer(s, t)
  BY <1>1, <1>2 DEF Longer
<1>4. ASSUME s.type \in Indexed, Whole(t), NEW k \in 1..Len(s.entries)
      PROVE  t.entries[k] = s.entries[k]
  <2>1. s.type # "progbits"
    BY <1>4 DEF Indexed
  <2>2. k \in 1..Len(r.entries)
    BY <1>2, <1>4, <2>1
  <2> QED BY <1>1, <1>2, <1>4, <2>1, <2>2 DEF Later
<1> QED BY <1>1, <1>3, <1>4 DEF Later

LEMMA LaterSelf ==
    ASSUME NEW s, NEW tr, Tabular(s, tr)
    PROVE  Later(s, s)
<1>1. Len(s.entries) \in Nat
  BY TabularFields
<1> QED BY <1>1 DEF Later, Longer, SameKind

(* add_string: the string is where add_string says.                         *)
LEMMA WithStringIs ==
    ASSUME NEW s, Tabular(s, elf.translated), s.type \in {"strtab", "null"},
           NEW n \in Names, NEW t \in WithString(s, n)
    PROVE  /\ Tabular(t, elf.translated) /\ Later(s, t)
           /\ Whole(t) => HasString(t, Position(s), n)
<1> DEFINE first == [at |-> s.size, is |-> ""]
<1>0. NameSize[n] + 1 \in Nat /\ NameSize[n] + 1 > 0
  <2>1. NameSize[n] \in Nat
    BY NameAssumption
  <2> QED BY <2>1
<1>1. PICK r \in IF s.size = 0 THEN Appended(s, 1, first) ELSE {s} :
        t \in Appended(r, NameSize[n] + 1, [at |-> r.size, is |-> n])
  BY DEF WithString
<1>2. first.at = s.size
  OBVIOUS
<1>3. /\ Tabular(r, elf.translated) /\ Later(s, r)
      /\ Whole(r) => r.size = Position(s)
  <2>1. CASE s.size = 0
    <3>1. r \in Appended(s, 1, first)
      BY <1>1, <2>1
    <3> HIDE DEF first
    <3>2. Tabular(r, elf.translated) /\ Later(s, r)
      BY <1>2, <3>1, AppendedLater
    <3>3. Whole(r) => r.size = s.size + 1
      BY <3>1, AppendedIs, TabularFields
    <3> QED BY <2>1, <3>2, <3>3 DEF Position
  <2>2. CASE s.size # 0
    BY <1>1, <2>2, LaterSelf DEF Position
  <2> QED BY <2>1, <2>2
<1> DEFINE e == [at |-> r.size, is |-> n]
<1>4a. e.at = r.size /\ e.is = n
  OBVIOUS
<1>5. t \in Appended(r, NameSize[n] + 1, e)
  BY <1>1
<1> HIDE DEF e, first
<1>6. r.type \in {"strtab", "null"}
  BY <1>3 DEF Later, SameKind
<1>7. Tabular(t, elf.translated) /\ Later(r, t)
  BY <1>3, <1>4a, <1>0, <1>5, <1>6, AppendedLater
<1>8. Later(s, t)
  <2>1. Len(s.entries) \in Nat /\ Len(r.entries) \in Nat /\ Len(t.entries) \in Nat
    BY <1>3, <1>7, TabularFields
  <2> QED BY <1>3, <1>7, <2>1, LaterTwice
<1>9. ASSUME Whole(t)
      PROVE  HasString(t, Position(s), n)
  <2>1. Fielded(r)
    BY <1>3, TabularFields
  <2>2. Whole(r) /\ t.entries = Append(r.entries, e)
    BY <1>4a, <1>0, <1>5, <1>6, <1>9, <2>1, AppendedIs
  <2>3. /\ Len(r.entries) \in Nat
        /\ Len(t.entries) = Len(r.entries) + 1
        /\ t.entries[Len(r.entries) + 1] = e
    BY <2>1, <2>2, AppendEntry DEF Fielded
  <2> QED BY <1>3, <1>4a, <1>0, <2>2, <2>3 DEF HasString
<1> QED BY <1>7, <1>8, <1>9

(* add_symbol: the symbol is the last one, and one the others come before.  *)
LEMMA WithSymbolIs ==
    ASSUME NEW s, Tabular(s, elf.translated), s.type = "symtab",
           NEW at, NEW bind, NEW n, NEW t \in WithSymbol(s, at, bind, n)
    PROVE  /\ Tabular(t, elf.translated) /\ Later(s, t)
           /\ Whole(t) =>
                /\ Len(t.entries) \in Nat /\ Len(t.entries) > 0 /\ t.size = SYM * Len(t.entries)
                /\ t.entries[Len(t.entries)] = [name |-> at, bind |-> bind,
                                                 is |-> Len(t.entries) - 1, called |-> n]
                /\ \A k \in 2..Len(t.entries) : k = Len(t.entries) \/ k <= Len(s.entries)
<1> DEFINE Sym(r, name, b, called) ==
        [name |-> name, bind |-> b, is |-> Len(r.entries), called |-> called]
           null == Sym(s, 0, "local", "")
<1>1. PICK r \in IF s.size = 0 THEN Appended(s, SYM, null) ELSE {s} :
        t \in Appended(r, SYM, Sym(r, at, bind, n))
  BY DEF WithSymbol
<1>2. null.is = Len(s.entries) /\ SYM \in Nat
  BY DEF SYM
<1>3. /\ Tabular(r, elf.translated) /\ Later(s, r)
      /\ Whole(r) => Len(r.entries) <= Len(s.entries) \/ Len(r.entries) = 1
  <2>1. CASE s.size = 0
    <3>1. r \in Appended(s, SYM, null)
      BY <1>1, <2>1
    <3> HIDE DEF null
    <3>2. Tabular(r, elf.translated) /\ Later(s, r)
      BY <1>2, <3>1, AppendedLater
    <3>3. ASSUME Whole(r) PROVE Len(r.entries) = 1
      <4>1. Fielded(s) /\ Len(s.entries) \in Nat
        BY TabularFields
      <4>2. Whole(s) /\ r.entries = Append(s.entries, null)
        BY <1>2, <3>1, <3>3, <4>1, AppendedIs
      <4>3. s.size = SYM * Len(s.entries)
        BY <4>2 DEF Tabular, Measured
      <4>4. Len(s.entries) = 0
        BY <2>1, <4>1, <4>3 DEF SYM
      <4> QED BY <4>1, <4>2, <4>4, AppendEntry DEF Fielded
    <3> QED BY <3>2, <3>3
  <2>2. CASE s.size # 0
    <3>1. r = s /\ Len(s.entries) \in Nat
      BY <1>1, <2>2, TabularFields
    <3>2. Later(r, r)
      BY <3>1, LaterSelf
    <3>3. Len(r.entries) <= Len(s.entries)
      BY <3>1, LessSelf, Zenon
    <3> QED BY <3>1, <3>2, <3>3, Zenon
  <2> QED BY <2>1, <2>2
<1> DEFINE e == Sym(r, at, bind, n)
<1>4. e.is = Len(r.entries) /\ t \in Appended(r, SYM, e)
  BY <1>1
<1>5. e = [name |-> at, bind |-> bind, is |-> Len(r.entries), called |-> n]
  OBVIOUS
<1> HIDE DEF e, null
<1>6. r.type = "symtab"
  BY <1>3 DEF Later, SameKind
<1>7. Tabular(t, elf.translated) /\ Later(r, t)
  BY <1>2, <1>3, <1>4, <1>6, AppendedLater
<1>8. Len(s.entries) \in Nat /\ Len(r.entries) \in Nat /\ Len(t.entries) \in Nat
  BY <1>3, <1>7, TabularFields
<1>9. Later(s, t)
  BY <1>3, <1>7, <1>8, LaterTwice
<1>10. ASSUME Whole(t)
       PROVE  /\ Len(t.entries) > 0 /\ t.size = SYM * Len(t.entries)
              /\ t.entries[Len(t.entries)] = [name |-> at, bind |-> bind,
                                               is |-> Len(t.entries) - 1, called |-> n]
              /\ \A k \in 2..Len(t.entries) : k = Len(t.entries) \/ k <= Len(s.entries)
  <2>1. Fielded(r)
    BY <1>3, TabularFields
  <2>2. Whole(r) /\ t.entries = Append(r.entries, e)
    BY <1>2, <1>4, <1>6, <1>10, <2>1, AppendedIs
  <2>3. Len(t.entries) = Len(r.entries) + 1 /\ t.entries[Len(r.entries) + 1] = e
    BY <2>1, <2>2, AppendEntry DEF Fielded
  <2>4. t.size = SYM * Len(t.entries)
    <3>1. t.type = "symtab"
      BY <1>6, <1>7 DEF Later, SameKind
    <3> QED BY <1>7, <1>10, <3>1 DEF Tabular, Measured
  <2>5. Len(t.entries) > 0 /\ Len(r.entries) = Len(t.entries) - 1
    BY <1>8, <2>3
  <2>6. t.entries[Len(t.entries)] = [name |-> at, bind |-> bind,
                                     is |-> Len(t.entries) - 1, called |-> n]
    BY <1>5, <2>3, <2>5
  <2>7. \A k \in 2..Len(t.entries) : k = Len(t.entries) \/ k <= Len(s.entries)
    BY <1>3, <1>8, <2>2, <2>5
  <2> QED BY <2>4, <2>5, <2>6, <2>7
<1> QED BY <1>7, <1>8, <1>9, <1>10

-----------------------------------------------------------------------------
(* What entries mean                                                        *)
LEMMA StringStays ==
    ASSUME NEW s, NEW t, NEW at, NEW n, HasString(s, at, n), Later(s, t), s.type = "strtab", Whole(t),
           Len(s.entries) \in Nat, Len(t.entries) \in Nat
    PROVE  HasString(t, at, n)
<1>1. PICK k \in 1..Len(s.entries) : s.entries[k].at = at /\ s.entries[k].is = n
  BY DEF HasString
<1>2. t.entries[k] = s.entries[k] /\ Len(s.entries) <= Len(t.entries)
  BY DEF Later, Longer, Indexed
<1>3. k \in 1..Len(t.entries)
  BY <1>2
<1> QED BY <1>1, <1>2, <1>3 DEF HasString

LEMMA MeantLater ==
    ASSUME NEW y, NEW z, Later(y, z), Whole(z), Len(y.entries) \in Nat, Len(z.entries) \in Nat,
           NEW type, NEW k, NEW e, Meant(type, k, e, y),
           type \in {"symtab", "dynamic"} => y.type = "strtab",
           type = "rel" => y.type = "symtab"
    PROVE  Meant(type, k, e, z)
<1>1. ASSUME type = "symtab", k > 1
      PROVE  HasString(z, e.name, e.called)
  BY <1>1, StringStays DEF Meant
<1>2. ASSUME type = "dynamic", e.tag = "needed"
      PROVE  HasString(z, e.value, e.called)
  BY <1>2, StringStays DEF Meant
<1>3. ASSUME type = "rel"
      PROVE  /\ {"symbol", "wants"} \subseteq DOMAIN e
             /\ e.symbol \in 0..Len(z.entries) - 1 /\ z.entries[e.symbol + 1].is = e.wants
  <2>1. /\ {"symbol", "wants"} \subseteq DOMAIN e
        /\ e.symbol \in 0..Len(y.entries) - 1 /\ y.entries[e.symbol + 1].is = e.wants
    BY <1>3 DEF Meant
  <2>2. /\ Len(y.entries) <= Len(z.entries)
        /\ \A j \in 1..Len(y.entries) : z.entries[j] = y.entries[j]
    BY <1>3 DEF Later, Longer, Indexed
  <2>3. e.symbol + 1 \in 1..Len(y.entries) /\ e.symbol \in 0..Len(z.entries) - 1
    BY <2>1, <2>2
  <2> QED BY <2>1, <2>2, <2>3
<1> QED BY <1>1, <1>2, <1>3 DEF Meant

LEMMA MeansLater ==
    ASSUME NEW x, NEW y, NEW z, Means(x, y), Later(y, z),
           Len(y.entries) \in Nat, Len(z.entries) \in Nat,
           x.type \in {"symtab", "dynamic"} => y.type = "strtab",
           x.type = "rel" => y.type = "symtab"
    PROVE  Means(x, z)
<1> SUFFICES ASSUME Whole(x), Whole(z), NEW k \in 1..Len(x.entries)
             PROVE  Meant(x.type, k, x.entries[k], z)
  BY DEF Means
<1>1. CASE x.type \in {"symtab", "dynamic", "rel"}
  <2>1. Whole(y)
    BY <1>1 DEF Later, Longer
  <2>2. Meant(x.type, k, x.entries[k], y)
    BY <2>1 DEF Means
  <2> QED BY <2>2, MeantLater
<1>2. CASE x.type \notin {"symtab", "dynamic", "rel"}
  BY <1>2 DEF Meant
<1> QED BY <1>1, <1>2

(* Entries of other tables mean nothing elsewhere.                          *)
Linking == {"symtab", "dynamic", "rel"}

LEMMA MeansNothing ==
    ASSUME NEW x, NEW y, x.type \notin Linking
    PROVE  Means(x, y)
  BY DEF Means, Meant, Linking

LEMMA AppendMeans ==
    ASSUME NEW s, Tabular(s, elf.translated), NEW n \in Nat, NEW e, NEW t \in Appended(s, n, e),
           NEW y, Means(s, y), Whole(y) => Meant(s.type, Len(s.entries) + 1, e, y)
    PROVE  Means(t, y)
<1>1. Fielded(s) /\ Len(s.entries) \in Nat
  BY TabularFields
<1>2. CASE s.type = "nobits"
  BY <1>1, <1>2, AppendedIs
<1>3. CASE s.type # "nobits"
  <2> SUFFICES ASSUME Whole(t), Whole(y), NEW k \in 1..Len(t.entries)
               PROVE  Meant(t.type, k, t.entries[k], y)
    BY DEF Means
  <2>1. Whole(s) /\ t.entries = Append(s.entries, e) /\ t.type = s.type
    BY <1>1, <1>3, AppendedIs DEF SameKind
  <2>2. /\ Len(t.entries) = Len(s.entries) + 1
        /\ t.entries[Len(s.entries) + 1] = e
        /\ \A j \in 1..Len(s.entries) : t.entries[j] = s.entries[j]
    BY <1>1, <2>1, AppendEntry DEF Fielded
  <2>3. k \in 1..Len(s.entries) \/ k = Len(s.entries) + 1
    BY <1>1, <2>2
  <2>4. CASE k \in 1..Len(s.entries)
    <3>1. Meant(s.type, k, s.entries[k], y)
      BY <2>1, <2>4 DEF Means
    <3>2. t.entries[k] = s.entries[k]
      BY <2>2, <2>4
    <3> QED BY <2>1, <3>1, <3>2, Zenon
  <2>5. CASE k = Len(s.entries) + 1
    <3>1. t.entries[k] = e
      BY <2>2, <2>5
    <3> QED BY <2>1, <2>5, <3>1, Zenon
  <2> QED BY <2>3, <2>4, <2>5
<1> QED BY <1>2, <1>3

(* One section changes, and what it then holds means what it says.          *)
LEMMA OneSection ==
    ASSUME NEW all, all \in Seq(Elements(all)), NEW header, NEW strings, NEW tr,
           Consistent(all, header, strings, tr),
           NEW i, NEW x,
           i \in 1..Len(all) =>
                /\ Tabular(x, tr) /\ SameKind(all[i], x) /\ Longer(all[i], x)
                /\ all[i].type \in Indexed => Later(all[i], x)
                /\ all[i].link # 0 => Means(x, all[all[i].link])
    PROVE  /\ Put(all, i, x) \in Seq(Elements(Put(all, i, x))) /\ Len(Put(all, i, x)) = Len(all)
           /\ Consistent(Put(all, i, x), header, strings, tr)
           /\ Grows(all, Put(all, i, x))
<1> DEFINE new == Put(all, i, x)
<1>1. DOMAIN all = 1..Len(all) /\ Len(all) \in Nat
  BY ListDomain
<1>2. /\ new \in Seq(Elements(new)) /\ Len(new) = Len(all)
  BY ReplaceEntry DEF Put
<1>3. \A k \in 1..Len(all) : new[k] = IF k = i THEN x ELSE all[k]
  BY <1>1 DEF Put
<1> HIDE DEF new
<1>4. \A k \in 1..Len(all) : /\ Tabular(all[k], tr) /\ Tabular(new[k], tr)
                             /\ Len(all[k].entries) \in Nat /\ Len(new[k].entries) \in Nat
  <2> SUFFICES ASSUME NEW k \in 1..Len(all)
               PROVE  /\ Tabular(all[k], tr) /\ Tabular(new[k], tr)
                      /\ Len(all[k].entries) \in Nat /\ Len(new[k].entries) \in Nat
    OBVIOUS
  <2>1. Tabular(all[k], tr)
    BY DEF Consistent
  <2>2. Tabular(new[k], tr)
    BY <1>3, <2>1
  <2> QED BY <2>1, <2>2, TabularFields
<1>5. \A k \in 1..Len(all) : SameKind(all[k], new[k]) /\ Longer(all[k], new[k])
  <2> SUFFICES ASSUME NEW k \in 1..Len(all) PROVE SameKind(all[k], new[k]) /\ Longer(all[k], new[k])
    OBVIOUS
  <2>1. Later(all[k], all[k])
    BY <1>4, LaterSelf
  <2> QED BY <1>3, <2>1 DEF Later
<1>6. \A k \in 1..Len(all) : all[k].type \in Indexed => Later(all[k], new[k])
  BY <1>3, <1>4, LaterSelf
<1>7. Linkage(new)
  BY <1>2, <1>5 DEF Consistent, Linkage, SameKind
<1>8. ASSUME NEW k \in 1..Len(new), new[k].link # 0
      PROVE  Means(new[k], new[new[k].link])
  <2>1. /\ k \in 1..Len(all) /\ new[k].type = all[k].type /\ new[k].link = all[k].link
        /\ all[k].link # 0
    BY <1>2, <1>5, <1>8 DEF SameKind
  <2> DEFINE l == all[k].link
  <2>2. l \in 1..Len(all)
    BY <1>1, <2>1 DEF Consistent, Linkage
  <2>3. CASE all[k].type \notin Linking
    BY <2>1, <2>3, MeansNothing
  <2>4. CASE all[k].type \in Linking
    <3>1. /\ all[k].type \in {"symtab", "dynamic"} => all[l].type = "strtab"
          /\ all[k].type = "rel" => all[l].type = "symtab"
      BY <2>1 DEF Consistent, Linkage
    <3>2. l # k /\ all[l].type \in Indexed
      BY <2>4, <3>1 DEF Linking, Indexed
    <3>3. Means(new[k], all[l])
      <4>1. Means(all[k], all[l])
        BY <2>1 DEF Consistent
      <4> QED BY <1>3, <2>1, <4>1
    <3>4. Later(all[l], new[l]) /\ Len(all[l].entries) \in Nat /\ Len(new[l].entries) \in Nat
      BY <1>4, <1>6, <2>2, <3>2
    <3> HIDE DEF l
    <3>5. Means(new[k], new[l])
      BY <2>1, <3>1, <3>3, <3>4, MeansLater
    <3> QED BY <2>1, <3>5 DEF l
  <2> QED BY <2>3, <2>4
<1>9. ASSUME header
      PROVE  strings \in Nat /\ Naming(new, strings) /\ SectionNames(new, strings)
  <2>1. strings \in Nat /\ Naming(all, strings) /\ SectionNames(all, strings)
    BY <1>9 DEF Consistent
  <2>2. Naming(new, strings)
    <3>1. strings \in 1..Len(all) - 1 => strings + 1 \in 1..Len(all)
      BY <1>1
    <3>2. Len(all) > 0 => 1 \in 1..Len(all)
      BY <1>1
    <3> QED BY <1>2, <1>5, <2>1, <3>1, <3>2 DEF Naming, SameKind
  <2>3. ASSUME strings \in 1..Len(new) - 1, Whole(new[strings + 1]),
               NEW k \in 1..Len(new), new[k].nameAt # 0
        PROVE  HasString(new[strings + 1], new[k].nameAt, new[k].name)
    <3> DEFINE l == strings + 1
    <3>1. l \in 1..Len(all) /\ all[l].type = "strtab"
      BY <1>1, <1>2, <2>1, <2>3 DEF Naming
    <3>2. Later(all[l], new[l]) /\ Len(all[l].entries) \in Nat /\ Len(new[l].entries) \in Nat
      BY <1>4, <1>6, <3>1 DEF Indexed
    <3>3. Whole(all[l])
      BY <2>3, <3>1, <3>2 DEF Later, Longer
    <3>4. all[k].nameAt = new[k].nameAt /\ all[k].name = new[k].name
      BY <1>2, <1>5, <2>3 DEF SameKind
    <3>5. HasString(all[l], new[k].nameAt, new[k].name)
      BY <1>2, <2>1, <2>3, <3>3, <3>4 DEF SectionNames
    <3> HIDE DEF l
    <3>6. Whole(new[l])
      BY <2>3 DEF l
    <3>7. HasString(new[l], new[k].nameAt, new[k].name)
      BY <3>1, <3>2, <3>5, <3>6, StringStays
    <3> QED BY <3>7 DEF l
  <2> QED BY <2>1, <2>2, <2>3 DEF SectionNames
<1>10. Consistent(new, header, strings, tr)
  BY <1>2, <1>4, <1>7, <1>8, <1>9 DEF Consistent
<1>11. Grows(all, new)
  BY <1>1, <1>2, <1>5 DEF Grows
<1> QED BY <1>2, <1>10, <1>11 DEF new

LEMMA GrowsTwice ==
    ASSUME NEW a, NEW b, NEW c, Grows(a, b), Grows(b, c),
           Len(a) \in Nat, Len(b) \in Nat, Len(c) \in Nat,
           \A i \in 1..Len(a) : Len(a[i].entries) \in Nat,
           \A i \in 1..Len(b) : Len(b[i].entries) \in Nat,
           \A i \in 1..Len(c) : Len(c[i].entries) \in Nat
    PROVE  Grows(a, c)
<1>1. Len(a) <= Len(c) /\ \A i \in 1..Len(a) : i \in 1..Len(b) /\ i \in 1..Len(c)
  BY DEF Grows
<1>2. ASSUME NEW i \in 1..Len(a)
      PROVE  Longer(a[i], c[i])
  <2>1. Longer(a[i], b[i]) /\ Longer(b[i], c[i]) /\ Len(a[i].entries) \in Nat
        /\ Len(b[i].entries) \in Nat /\ Len(c[i].entries) \in Nat
    BY <1>1 DEF Grows
  <2> QED BY <2>1 DEF Longer
<1> QED BY <1>1, <1>2 DEF Grows

(* A section is added that is linked to none and bears a name, if the names *)
(* are there.                                                               *)
LEMMA OneMore ==
    ASSUME NEW all, all \in Seq(Elements(all)), NEW strings \in Nat, NEW tr,
           Consistent(all, TRUE, strings, tr), TRUE, strings < Len(all),
           NEW x, Tabular(x, tr), x.link = 0,
           strings \in 1..Len(all) - 1 /\ Whole(all[strings + 1]) =>
                HasString(all[strings + 1], x.nameAt, x.name)
    PROVE  /\ Append(all, x) \in Seq(Elements(Append(all, x)))
           /\ Len(Append(all, x)) = Len(all) + 1
           /\ Consistent(Append(all, x), TRUE, strings, tr)
           /\ Grows(all, Append(all, x))
<1> DEFINE new == Append(all, x)
<1>1. /\ new \in Seq(Elements(new))
      /\ Len(all) \in Nat /\ Len(new) = Len(all) + 1
      /\ \A k \in 1..Len(all) : new[k] = all[k]
      /\ new[Len(all) + 1] = x
  BY AppendEntry
<1> HIDE DEF new
<1>2. \A k \in 1..Len(new) : k \in 1..Len(all) \/ (k = Len(all) + 1 /\ new[k] = x)
  BY <1>1
<1>3. \A k \in 1..Len(all) : k \in 1..Len(new)
  BY <1>1
<1>4. ASSUME NEW k \in 1..Len(new)
      PROVE  Tabular(new[k], tr)
  BY <1>1, <1>2 DEF Consistent
<1>5. ASSUME NEW k \in 1..Len(new)
      PROVE  /\ new[k].link \in 0..Len(new)
             /\ new[k].link # 0 /\ new[k].type \in {"symtab", "dynamic"} =>
                    new[new[k].link].type = "strtab"
             /\ new[k].link # 0 /\ new[k].type = "rel" => new[new[k].link].type = "symtab"
             /\ new[k].link # 0 => Means(new[k], new[new[k].link])
  <2>1. CASE k \in 1..Len(all)
    <3>1. /\ all[k].link \in 0..Len(all)
          /\ all[k].link # 0 /\ all[k].type \in {"symtab", "dynamic"} =>
                all[all[k].link].type = "strtab"
          /\ all[k].link # 0 /\ all[k].type = "rel" => all[all[k].link].type = "symtab"
          /\ all[k].link # 0 => Means(all[k], all[all[k].link])
      BY <2>1 DEF Consistent, Linkage
    <3>2. new[k] = all[k] /\ (all[k].link # 0 => new[all[k].link] = all[all[k].link])
          /\ 0..Len(all) \subseteq 0..Len(new)
      BY <1>1, <2>1, <3>1
    <3>3. all[k].link = 0 \/ all[k].link # 0
      OBVIOUS
    <3> QED BY <3>1, <3>2, <3>3, Zenon
  <2>2. CASE k = Len(all) + 1
    <3>1. new[k].link = 0 /\ 0 \in 0..Len(new)
      BY <1>1, <2>2
    <3> QED BY <3>1
  <2> QED BY <1>2, <2>1, <2>2
<1>6. Naming(new, strings) /\ strings \in 0..Len(new)
  BY <1>1 DEF Consistent, Naming
<1>7. ASSUME strings \in 1..Len(new) - 1, Whole(new[strings + 1]),
             NEW k \in 1..Len(new), new[k].nameAt # 0
      PROVE  HasString(new[strings + 1], new[k].nameAt, new[k].name)
  <2>1. strings \in 1..Len(all) - 1 /\ new[strings + 1] = all[strings + 1]
    BY <1>1, <1>7
  <2>2. CASE k \in 1..Len(all)
    <3>1. new[k] = all[k]
      BY <1>1, <2>2
    <3>2. HasString(all[strings + 1], all[k].nameAt, all[k].name)
      BY <1>7, <2>1, <2>2, <3>1 DEF Consistent, SectionNames
    <3> QED BY <2>1, <3>1, <3>2
  <2>3. CASE k = Len(all) + 1
    BY <1>1, <1>7, <2>1, <2>3
  <2> QED BY <1>2, <2>2, <2>3
<1>8. Linkage(new)
  BY <1>5 DEF Linkage
<1>9. SectionNames(new, strings)
  BY <1>7 DEF SectionNames
<1>10. Consistent(new, TRUE, strings, tr)
  BY <1>4, <1>5, <1>6, <1>8, <1>9 DEF Consistent
<1>11. Grows(all, new)
  <2>1. \A k \in 1..Len(all) : Longer(all[k], all[k])
    BY LaterSelf DEF Consistent, Later
  <2> QED BY <1>1, <2>1 DEF Grows
<1> QED BY <1>1, <1>10, <1>11 DEF new

-----------------------------------------------------------------------------
(* Sections::add                                                            *)
LEMMA Dressed ==
    ASSUME NEW s, NEW tr, Tabular(s, tr), NEW x, DOMAIN x = DOMAIN s,
           x.type = s.type, x.entries = s.entries, x.size = s.size, x.stream = s.stream,
           x.entsize = s.entsize, x.deflate = s.deflate, x.starved = s.starved, x.room = s.room,
           x.nameAt \in Nat, Placeable(s) => Placeable(x)
    PROVE  Tabular(x, tr) /\ (Whole(x) <=> Whole(s))
<1>1. Whole(x) <=> Whole(s)
  BY DEF Whole, Lost
<1>2. Measured(s) => Measured(x)
  BY DEF Measured, NoteEnd, AttributeEnd
<1> QED BY <1>1, <1>2 DEF Tabular

LEMMA AppendReplace ==
    ASSUME NEW l, l \in Seq(Elements(l)), NEW i \in 1..Len(l), NEW t, NEW x
    PROVE  Put(Append(l, x), i, t) = Append(Put(l, i, t), x)
<1> DEFINE m == Put(l, i, t)
           a == Put(Append(l, x), i, t)
           b == Append(m, x)
<1>1. DOMAIN l = 1..Len(l) /\ Len(l) \in Nat
  BY ListDomain
<1>2. /\ m \in Seq(Elements(m)) /\ Len(m) = Len(l)
      /\ \A k \in 1..Len(l) : m[k] = IF k = i THEN t ELSE l[k]
  BY <1>1, ReplaceEntry DEF Put
<1>3. /\ Append(l, x) \in Seq(Elements(Append(l, x))) /\ Len(Append(l, x)) = Len(l) + 1
      /\ \A k \in 1..Len(l) : Append(l, x)[k] = l[k]
      /\ Append(l, x)[Len(l) + 1] = x
  BY AppendEntry
<1> HIDE DEF m
<1>4. /\ b \in Seq(Elements(b)) /\ Len(b) = Len(l) + 1
      /\ \A k \in 1..Len(l) : b[k] = m[k]
      /\ b[Len(l) + 1] = x
  BY <1>2, AppendEntry
<1>5. DOMAIN Append(l, x) = 1..Len(l) + 1
  BY <1>1, <1>3, ListDomain
<1>6. /\ a = [k \in 1..Len(l) + 1 |-> a[k]]
      /\ \A k \in 1..Len(l) + 1 : a[k] = IF k = i THEN t ELSE Append(l, x)[k]
  BY <1>5 DEF Put
<1> HIDE DEF a, b
<1>7. b = [k \in 1..Len(l) + 1 |-> b[k]]
  <2>1. DOMAIN b = 1..Len(l) + 1
    BY <1>1, <1>4, ListDomain
  <2> QED BY <1>4, <2>1
<1>8. ASSUME NEW k \in 1..Len(l) + 1
      PROVE  a[k] = b[k]
  <2>1. CASE k = Len(l) + 1
    BY <1>1, <1>3, <1>4, <1>6, <2>1
  <2>2. CASE k \in 1..Len(l)
    BY <1>2, <1>3, <1>4, <1>6, <2>2
  <2>3. k = Len(l) + 1 \/ k \in 1..Len(l)
    BY <1>1
  <2> QED BY <2>1, <2>2, <2>3
<1>9. a = b
  BY <1>6, <1>7, <1>8
<1> QED BY <1>9 DEF a, b, m

LEMMA AddedTables ==
    ASSUME NEW all, all \in Seq(Elements(all)), NEW strings \in Nat,
           Consistent(all, TRUE, strings, elf.translated), TRUE, strings < Len(all),
           NEW n \in Names, NEW shape, Tabular(shape, elf.translated), shape.link = 0,
           NEW new \in Added(all, strings, n, shape)
    PROVE  /\ new \in Seq(Elements(new))
           /\ Consistent(new, TRUE, strings, elf.translated)
           /\ Grows(all, new)
<1>a. PICK i : i = strings + 1
  OBVIOUS
<1>b. PICK at : at = Position((all \o <<shape>>)[i])
  OBVIOUS
<1>c. PICK x : x = [shape EXCEPT !.name = n, !.nameAt = at]
  OBVIOUS
<1>1. PICK t \in WithString(Append(all, x)[i], n) : new = [Append(all, x) EXCEPT ![i] = t]
  BY <1>a, <1>b, <1>c DEF Added
<1>2. DOMAIN all = 1..Len(all) /\ Len(all) \in Nat /\ i \in 1..Len(all)
  BY <1>a, ListDomain
<1>3. at = Position(all[i])
  <2>1. all \in Seq(Elements(all) \cup {shape}) /\ <<shape>> \in Seq(Elements(all) \cup {shape})
    BY <1>2, ListOf
  <2>2. (all \o <<shape>>)[i] = all[i]
    BY <1>2, <2>1
  <2> QED BY <1>b, <2>2
<1>4. Append(all, x)[i] = all[i]
  BY <1>2, AppendEntry
<1>5. all[i].type \in {"strtab", "null"} /\ Tabular(all[i], elf.translated)
  BY <1>a, <1>2 DEF Consistent, Naming
<1>6. /\ Tabular(t, elf.translated) /\ Later(all[i], t)
      /\ Whole(t) => HasString(t, at, n)
  BY <1>1, <1>3, <1>4, <1>5, WithStringIs
<1>7. SameKind(all[i], t) /\ Longer(all[i], t) /\ \A y : Means(t, y)
  <2>1. SameKind(all[i], t) /\ Longer(all[i], t) /\ t.type = all[i].type
    BY <1>6 DEF Later, SameKind
  <2>2. t.type \notin Linking
    BY <1>5, <2>1 DEF Linking
  <2> QED BY <2>1, <2>2, MeansNothing
<1> DEFINE mid == Put(all, i, t)
<1>8. /\ mid \in Seq(Elements(mid)) /\ Len(mid) = Len(all)
      /\ Consistent(mid, TRUE, strings, elf.translated)
      /\ Grows(all, mid)
  <2>1. /\ Tabular(t, elf.translated) /\ SameKind(all[i], t) /\ Longer(all[i], t)
        /\ all[i].type \in Indexed => Later(all[i], t)
        /\ all[i].link # 0 => Means(t, all[all[i].link])
    BY <1>6, <1>7, Zenon
  <2> QED BY <2>1, OneSection
<1>9. mid[i] = t
  BY <1>2 DEF Put
<1>10. Tabular(x, elf.translated) /\ x.link = 0 /\ x.nameAt = at /\ x.name = n
  <2>1. TableFields \subseteq DOMAIN shape
    BY DEF Tabular
  <2>2. at \in Nat
    <3>1. all[i].size \in Nat
      BY <1>5, TabularFields
    <3> QED BY <1>3, <3>1 DEF Position
  <2>3. /\ DOMAIN x = DOMAIN shape
        /\ x.type = shape.type /\ x.entries = shape.entries /\ x.size = shape.size
        /\ x.stream = shape.stream /\ x.entsize = shape.entsize /\ x.deflate = shape.deflate
        /\ x.starved = shape.starved /\ x.room = shape.room
        /\ x.link = shape.link /\ x.nameAt = at /\ x.name = n
        /\ x.align = shape.align /\ x.addr = shape.addr /\ x.offset = shape.offset
    BY <1>c, <2>1 DEF TableFields, BufferFields, PlaceFields
  <2>4. Placeable(shape) => Placeable(x)
    BY <2>3 DEF Placeable
  <2>5. Tabular(x, elf.translated)
    BY <2>2, <2>3, <2>4, Dressed
  <2> QED BY <2>3, <2>5
<1>11. new = Append(mid, x)
  <2>1. new = Put(Append(all, x), i, t)
    BY <1>1 DEF Put
  <2> QED BY <1>2, <2>1, AppendReplace
<1> HIDE DEF mid
<1>12. /\ new \in Seq(Elements(new)) /\ Len(new) = Len(mid) + 1
       /\ Consistent(new, TRUE, strings, elf.translated)
       /\ Grows(mid, new)
  <2>1. strings < Len(mid)
    BY <1>8
  <2>2. Whole(mid[strings + 1]) => HasString(mid[strings + 1], x.nameAt, x.name)
    BY <1>a, <1>6, <1>9, <1>10
  <2> QED BY <1>8, <1>10, <1>11, <2>1, <2>2, OneMore
<1>13. Grows(all, new)
  <2>1. Len(new) \in Nat /\ Len(mid) \in Nat
    BY <1>2, <1>8, <1>12
  <2>2. /\ \A k \in 1..Len(all) : Len(all[k].entries) \in Nat
        /\ \A k \in 1..Len(mid) : Len(mid[k].entries) \in Nat
        /\ \A k \in 1..Len(new) : Len(new[k].entries) \in Nat
    BY <1>8, <1>12, TabularFields DEF Consistent
  <2> QED BY <1>2, <1>8, <1>12, <2>1, <2>2, GrowsTwice
<1> QED BY <1>12, <1>13

-----------------------------------------------------------------------------
(* One table is appended to.                                                *)
LEMMA AppendedTable ==
    ASSUME NEW all, all \in Seq(Elements(all)), NEW header, NEW strings,
           Consistent(all, header, strings, elf.translated),
           NEW i, NEW n, NEW e, NEW t \in Appended(all[i], n, e),
           i \in 1..Len(all) =>
                /\ Sized(all[i], n, e)
                /\ all[i].link # 0 /\ Whole(all[all[i].link]) =>
                        Meant(all[i].type, Len(all[i].entries) + 1, e, all[all[i].link])
    PROVE  /\ Put(all, i, t) \in Seq(Elements(Put(all, i, t))) /\ Len(Put(all, i, t)) = Len(all)
           /\ Consistent(Put(all, i, t), header, strings, elf.translated)
           /\ Grows(all, Put(all, i, t))
<1>1. ASSUME i \in 1..Len(all)
      PROVE  /\ Tabular(t, elf.translated) /\ Later(all[i], t)
             /\ all[i].link # 0 => Means(t, all[all[i].link])
  <2>1. Tabular(all[i], elf.translated)
    BY <1>1 DEF Consistent
  <2>2. Sized(all[i], n, e) /\ n \in Nat
    BY <1>1 DEF Sized
  <2>3. Tabular(t, elf.translated) /\ Later(all[i], t)
    BY <2>1, <2>2, AppendedLater DEF Sized
  <2>4. ASSUME all[i].link # 0
        PROVE  Means(t, all[all[i].link])
    <3>1. Means(all[i], all[all[i].link])
      BY <1>1, <2>4 DEF Consistent
    <3>2. Whole(all[all[i].link]) =>
            Meant(all[i].type, Len(all[i].entries) + 1, e, all[all[i].link])
      BY <1>1, <2>4
    <3> QED BY <2>1, <2>2, <3>1, <3>2, AppendMeans
  <2> QED BY <2>3, <2>4
<1>2. i \in 1..Len(all) =>
        /\ Tabular(t, elf.translated) /\ SameKind(all[i], t) /\ Longer(all[i], t)
        /\ all[i].type \in Indexed => Later(all[i], t)
        /\ all[i].link # 0 => Means(t, all[all[i].link])
  <2>1. Later(all[i], t) => SameKind(all[i], t) /\ Longer(all[i], t)
    BY DEF Later
  <2> QED BY <1>1, <2>1, Zenon
<1> QED BY <1>2, OneSection

LEMMA RelatedTables ==
    ASSUME NEW all, all \in Seq(Elements(all)), NEW header, NEW strings,
           Consistent(all, header, strings, elf.translated),
           NEW rels, NEW e, NEW new \in Related(all, rels, e),
           \A i \in rels : /\ i \in 1..Len(all) /\ all[i].type = "rel"
                           /\ all[i].link # 0 /\ Whole(all[all[i].link]) =>
                                Meant("rel", Len(all[i].entries) + 1, e, all[all[i].link])
    PROVE  /\ new \in Seq(Elements(new)) /\ Len(new) = Len(all)
           /\ Consistent(new, header, strings, elf.translated)
           /\ Grows(all, new)
<1>1. CASE rels = {}
  <2>1. new = all /\ Len(all) \in Nat
    BY <1>1, ListDomain DEF Related
  <2>2. \A i \in 1..Len(all) : Longer(all[i], all[i])
    BY LaterSelf DEF Consistent, Later
  <2>3. Grows(all, all)
    BY <2>1, <2>2 DEF Grows
  <2> QED BY <2>1, <2>3
<1>2. CASE rels # {}
  <2>1. PICK i \in rels : \E r \in Appended(all[i], REL, e) : new = [all EXCEPT ![i] = r]
    BY <1>2 DEF Related
  <2>2. PICK r \in Appended(all[i], REL, e) : new = Put(all, i, r)
    BY <2>1 DEF Put
  <2>3. Sized(all[i], REL, e)
    BY <2>1 DEF Sized, REL
  <2>4. all[i].link # 0 /\ Whole(all[all[i].link]) =>
            Meant(all[i].type, Len(all[i].entries) + 1, e, all[all[i].link])
    BY <2>1
  <2>5. /\ Put(all, i, r) \in Seq(Elements(Put(all, i, r))) /\ Len(Put(all, i, r)) = Len(all)
        /\ Consistent(Put(all, i, r), header, strings, elf.translated)
        /\ Grows(all, Put(all, i, r))
    BY <2>3, <2>4, AppendedTable
  <2> QED BY <2>2, <2>5, Zenon
<1> QED BY <1>1, <1>2

(* A symbol is added with its name.                                         *)
LEMMA SymbolMeans ==
    ASSUME NEW s, Tabular(s, elf.translated), s.type = "symtab",
           NEW y, Tabular(y, elf.translated), y.type = "strtab", Means(s, y),
           NEW n \in Names, NEW u \in WithString(y, n),
           NEW bind, NEW v \in WithSymbol(s, Position(y), bind, n)
    PROVE  Means(v, u)
<1>1. /\ Tabular(u, elf.translated) /\ Later(y, u)
      /\ Whole(u) => HasString(u, Position(y), n)
  BY WithStringIs
<1>2. /\ Tabular(v, elf.translated) /\ Later(s, v)
      /\ Whole(v) =>
           /\ Len(v.entries) \in Nat /\ Len(v.entries) > 0
           /\ v.entries[Len(v.entries)] = [name |-> Position(y), bind |-> bind,
                                            is |-> Len(v.entries) - 1, called |-> n]
           /\ \A k \in 2..Len(v.entries) : k = Len(v.entries) \/ k <= Len(s.entries)
  BY WithSymbolIs
<1>3. v.type = "symtab"
  BY <1>2 DEF Later, SameKind
<1>4. Len(y.entries) \in Nat /\ Len(u.entries) \in Nat /\ Len(s.entries) \in Nat
  BY <1>1, TabularFields
<1> SUFFICES ASSUME Whole(v), Whole(u), NEW k \in 1..Len(v.entries), k > 1
             PROVE  HasString(u, v.entries[k].name, v.entries[k].called)
  BY <1>3 DEF Means, Meant
<1>5. k \in 2..Len(v.entries)
  BY <1>2
<1>6. CASE k = Len(v.entries)
  BY <1>1, <1>2, <1>6
<1>7. CASE k <= Len(s.entries)
  <2>1. k \in 1..Len(s.entries)
    BY <1>2, <1>4, <1>7
  <2>2. v.entries[k] = s.entries[k] /\ Whole(s) /\ Whole(y)
    BY <1>1, <1>2, <2>1 DEF Later, Longer, Indexed
  <2>3. HasString(y, s.entries[k].name, s.entries[k].called)
    BY <2>1, <2>2 DEF Means, Meant
  <2>4. HasString(u, s.entries[k].name, s.entries[k].called)
    BY <1>1, <1>4, <2>3, StringStays
  <2> QED BY <2>2, <2>4
<1> QED BY <1>2, <1>5, <1>6, <1>7

LEMMA SymbolTables ==
    ASSUME NEW all, all \in Seq(Elements(all)), NEW header, NEW strings,
           Consistent(all, header, strings, elf.translated),
           NEW t \in 1..Len(all), all[t].type = "symtab",
           NEW n \in Names, NEW u \in WithString(all[all[t].link], n),
           NEW bind, NEW v \in WithSymbol(all[t], Position(all[all[t].link]), bind, n)
    PROVE  LET two == Put(Put(all, all[t].link, u), t, v)
           IN  /\ two \in Seq(Elements(two)) /\ Len(two) = Len(all)
               /\ Consistent(two, header, strings, elf.translated)
               /\ Grows(all, two)
<1> DEFINE l == all[t].link
           one == Put(all, l, u)
           two == Put(one, t, v)
<1>1. /\ DOMAIN all = 1..Len(all) /\ Len(all) \in Nat
      /\ l \in 0..Len(all) /\ (l # 0 => all[l].type = "strtab" /\ l # t)
      /\ \A i \in 1..Len(all) : Tabular(all[i], elf.translated)
  BY ListDomain DEF Consistent, Linkage
<1>2. ASSUME l \in 1..Len(all)
      PROVE  /\ Tabular(u, elf.translated) /\ SameKind(all[l], u) /\ Longer(all[l], u)
             /\ Later(all[l], u) /\ Means(u, all[all[l].link])
  <2>1. Tabular(u, elf.translated) /\ Later(all[l], u) /\ all[l].type = "strtab"
    BY <1>1, <1>2, WithStringIs
  <2>2. SameKind(all[l], u) /\ Longer(all[l], u) /\ u.type \notin Linking
    BY <2>1 DEF Later, SameKind, Linking
  <2> QED BY <2>1, <2>2, MeansNothing
<1>3. /\ one \in Seq(Elements(one)) /\ Len(one) = Len(all)
      /\ Consistent(one, header, strings, elf.translated)
      /\ Grows(all, one)
  <2> HIDE DEF l
  <2> QED BY <1>2, OneSection
<1>4. one[t] = all[t] /\ (l # 0 => one[l] = u)
  BY <1>1 DEF Put
<1> HIDE DEF one
<1>5. Tabular(v, elf.translated) /\ Later(one[t], v)
  BY <1>1, <1>4, WithSymbolIs
<1>6. ASSUME l # 0
      PROVE  Means(v, one[l])
  <2>1. Means(all[t], all[l])
    BY <1>6 DEF Consistent
  <2>2. l \in 1..Len(all)
    BY <1>1, <1>6
  <2> QED BY <1>1, <1>4, <1>6, <2>1, <2>2, SymbolMeans
<1>7. /\ two \in Seq(Elements(two)) /\ Len(two) = Len(one)
      /\ Consistent(two, header, strings, elf.translated)
      /\ Grows(one, two)
  <2>1. /\ Tabular(v, elf.translated) /\ SameKind(one[t], v) /\ Longer(one[t], v)
        /\ one[t].type \in Indexed => Later(one[t], v)
        /\ one[t].link # 0 => Means(v, one[one[t].link])
    BY <1>4, <1>5, <1>6 DEF Later
  <2> QED BY <1>3, <2>1, OneSection
<1> HIDE DEF two
<1>8. Grows(all, two)
  <2>1. /\ \A k \in 1..Len(all) : Len(all[k].entries) \in Nat
        /\ \A k \in 1..Len(one) : Len(one[k].entries) \in Nat
        /\ \A k \in 1..Len(two) : Len(two[k].entries) \in Nat
    BY <1>3, <1>7, TabularFields DEF Consistent
  <2> QED BY <1>1, <1>3, <1>7, <2>1, GrowsTwice
<1> QED BY <1>3, <1>7, <1>8 DEF one, two

-----------------------------------------------------------------------------
(* The steps.  A step carries the tables on if they stay consistent, and    *)
(* none gets shorter or whole again.                                        *)
TablesHold == Sound /\ Consistent(sections, elf.header, elf.strings, elf.translated)

Carries ==
    /\ Consistent(sections', elf.header, elf.strings, elf.translated) /\ elf' = elf
    /\ Grows(sections, sections')

LEMMA Held ==
    ASSUME TablesHold
    PROVE  /\ sections \in Seq(Elements(sections))
           /\ DOMAIN sections = 1..Len(sections) /\ Len(sections) \in Nat
           /\ Consistent(sections, elf.header, elf.strings, elf.translated)
           /\ \A i \in 1..Len(sections) : /\ Tabular(sections[i], elf.translated)
                                          /\ Len(sections[i].entries) \in Nat
<1>1. sections \in Seq(Elements(sections))
  BY DEF TablesHold, Sound, BufferedList, Elements
<1>2. Consistent(sections, elf.header, elf.strings, elf.translated)
  BY DEF TablesHold
<1>3. \A i \in 1..Len(sections) : /\ Tabular(sections[i], elf.translated)
                                 /\ Len(sections[i].entries) \in Nat
  BY <1>2, TabularFields DEF Consistent
<1> QED BY <1>1, <1>2, <1>3, ListDomain

LEMMA StandStill ==
    ASSUME TablesHold, sections' = sections, elf' = elf
    PROVE  Carries
<1>1. \A i \in 1..Len(sections) : Longer(sections[i], sections[i])
  BY Held, LaterSelf DEF Later
<1>2. Grows(sections, sections)
  BY <1>1, Held DEF Grows
<1> QED BY <1>2, Held DEF Carries

LEMMA CrashCarries ==
    ASSUME TablesHold, Crash
    PROVE  Carries
  BY StandStill DEF Crash

LEMMA AddSectionCarries ==
    ASSUME TablesHold, NEW n \in Names, NEW shape \in SectionShapes, AddSection(n, shape)
    PROVE  Carries
<1>1. CASE elf.header /\ elf.strings <= Len(sections) /\ elf' = elf
           /\ sections' \in Added(sections, elf.strings, n, shape)
  <2>1. elf.strings \in Nat /\ Naming(sections, elf.strings) /\ SectionNames(sections, elf.strings)
    BY <1>1, Held DEF Consistent
  <2>2. elf.strings < Len(sections)
    BY <1>1, <2>1, Held DEF Naming
  <2>3. Consistent(sections, TRUE, elf.strings, elf.translated)
    BY <2>1, Held DEF Consistent
  <2>4. Tabular(shape, elf.translated) /\ shape.link = 0
    <3>1. Tabular(shape, FALSE) /\ shape.link = 0
      BY TableAssumption
    <3> QED BY <3>1 DEF Tabular
  <2>5. /\ Consistent(sections', TRUE, elf.strings, elf.translated)
        /\ Grows(sections, sections')
    BY <1>1, <2>1, <2>2, <2>3, <2>4, Held, AddedTables
  <2>6. Consistent(sections', elf.header, elf.strings, elf.translated)
    BY <2>5 DEF Consistent
  <2> QED BY <1>1, <2>5, <2>6 DEF Carries
<1>2. CASE Crash
  BY <1>2, CrashCarries
<1> QED BY <1>1, <1>2 DEF AddSection, Faults

LEMMA Divided ==
    \A k \in Nat : /\ (SYM * k) \div SYM = k /\ (DYN * k) \div DYN = k
                  /\ (VERSYM * k) \div VERSYM = k /\ (ADDRESS * k) \div ADDRESS = k
  BY DEF SYM, DYN, VERSYM, ADDRESS

LEMMA AddSymbolCarries ==
    ASSUME TablesHold, NEW t \in Tables("symtab"), NEW n \in Names, NEW bind,
           NEW rels, rels \subseteq Linked(t), AddSymbol(t, n, bind, rels)
    PROVE  Carries
<1> DEFINE l == sections[t].link
<1>1. CASE Crash
  BY <1>1, CrashCarries
<1>2. ASSUME NEW u \in WithString(sections[l], n),
             NEW v \in WithSymbol(sections[t], Position(sections[l]), bind, n),
             sections' \in Related([sections EXCEPT ![l] = u, ![t] = v], rels,
                                [symbol |-> NewIndex(v), wants |-> Len(v.entries) - 1]),
             elf' = elf
      PROVE  Carries
  <2> DEFINE e == [symbol |-> NewIndex(v), wants |-> Len(v.entries) - 1]
             two == Put(Put(sections, l, u), t, v)
  <2>1. t \in 1..Len(sections) /\ sections[t].type = "symtab"
    BY DEF Tables
  <2>2. /\ two \in Seq(Elements(two)) /\ Len(two) = Len(sections)
        /\ Consistent(two, elf.header, elf.strings, elf.translated)
        /\ Grows(sections, two)
    BY <2>1, Held, SymbolTables
  <2>3. sections' \in Related(two, rels, e)
    BY <1>2 DEF Put
  <2>4. \A i \in rels : /\ i \in 1..Len(two) /\ two[i].type = "rel" /\ two[i].link = t
                        /\ two[t] = v
    <3> SUFFICES ASSUME NEW i \in rels
                 PROVE  i \in 1..Len(two) /\ two[i].type = "rel" /\ two[i].link = t /\ two[t] = v
      OBVIOUS
    <3>1. i \in 1..Len(sections) /\ sections[i].type = "rel" /\ sections[i].link = t
      BY DEF Linked, Tables
    <3>2. i # t /\ (l # 0 => sections[l].type = "strtab")
      BY <2>1, <3>1, Held DEF Consistent, Linkage
    <3>3. l # i
      BY <3>1, <3>2, <2>1, Held
    <3> QED BY <2>1, <2>2, <3>1, <3>2, <3>3, Held DEF Put
  <2>5. Whole(v) => \A k : Meant("rel", k, e, v)
    <3> SUFFICES ASSUME Whole(v)
                 PROVE  /\ {"symbol", "wants"} \subseteq DOMAIN e
                        /\ e.symbol \in 0..Len(v.entries) - 1
                        /\ v.entries[e.symbol + 1].is = e.wants
      BY DEF Meant
    <3>1. /\ Len(v.entries) \in Nat /\ Len(v.entries) > 0 /\ v.size = SYM * Len(v.entries)
          /\ v.entries[Len(v.entries)] = [name |-> Position(sections[l]), bind |-> bind,
                                           is |-> Len(v.entries) - 1, called |-> n]
      BY <2>1, Held, WithSymbolIs
    <3>2. NewIndex(v) = Len(v.entries) - 1
      BY <3>1, Divided DEF NewIndex
    <3>3. v.entries[Len(v.entries)].is = Len(v.entries) - 1
      BY <3>1
    <3> QED BY <3>1, <3>2, <3>3
  <2> HIDE DEF two, e
  <2>6. /\ Len(sections') = Len(two)
        /\ Consistent(sections', elf.header, elf.strings, elf.translated)
        /\ Grows(two, sections')
        /\ sections' \in Seq(Elements(sections'))
    BY <2>2, <2>3, <2>4, <2>5, RelatedTables
  <2>7. Grows(sections, sections')
    <3>1. /\ \A k \in 1..Len(two) : Len(two[k].entries) \in Nat
          /\ \A k \in 1..Len(sections') : Len(sections'[k].entries) \in Nat
      BY <2>2, <2>6, TabularFields DEF Consistent
    <3> QED BY <2>2, <2>6, <3>1, Held, GrowsTwice
  <2> QED BY <1>2, <2>6, <2>7 DEF Carries
<1> QED BY <1>1, <1>2 DEF AddSymbol, Faults

(* One section becomes another, or is appended to, or changes in what       *)
(* tables are not about.                                                    *)
LEMMA PutCarries ==
    ASSUME TablesHold, NEW i, NEW x, sections' = Put(sections, i, x), elf' = elf,
           i \in 1..Len(sections) =>
                /\ Tabular(x, elf.translated) /\ SameKind(sections[i], x) /\ Longer(sections[i], x)
                /\ sections[i].type \in Indexed => Later(sections[i], x)
                /\ sections[i].link # 0 => Means(x, sections[sections[i].link])
    PROVE  Carries
<1>1. /\ Consistent(Put(sections, i, x), elf.header, elf.strings, elf.translated)
      /\ Grows(sections, Put(sections, i, x))
  BY Held, OneSection
<1> QED BY <1>1, Zenon DEF Carries

LEMMA AppendCarries ==
    ASSUME TablesHold, NEW i, NEW n, NEW e, NEW t \in Appended(sections[i], n, e),
           sections' = Put(sections, i, t), elf' = elf,
           i \in 1..Len(sections) =>
                /\ Sized(sections[i], n, e)
                /\ sections[i].link # 0 /\ Whole(sections[sections[i].link]) =>
                        Meant(sections[i].type, Len(sections[i].entries) + 1, e,
                              sections[sections[i].link])
    PROVE  Carries
<1>1. /\ Consistent(Put(sections, i, t), elf.header, elf.strings, elf.translated)
      /\ Grows(sections, Put(sections, i, t))
  BY Held, AppendedTable
<1> QED BY <1>1, Zenon DEF Carries

LEMMA DressedCarries ==
    ASSUME TablesHold, NEW i, NEW x, sections' = Put(sections, i, x), elf' = elf,
           i \in 1..Len(sections) =>
                /\ DOMAIN x = DOMAIN sections[i] /\ SameKind(sections[i], x)
                /\ x.entries = sections[i].entries /\ x.size = sections[i].size
                /\ x.stream = sections[i].stream /\ x.starved = sections[i].starved
                /\ x.room = sections[i].room
    PROVE  Carries
<1>1. ASSUME i \in 1..Len(sections)
      PROVE  /\ Tabular(x, elf.translated) /\ SameKind(sections[i], x) /\ Longer(sections[i], x)
             /\ Later(sections[i], x)
             /\ sections[i].link # 0 => Means(x, sections[sections[i].link])
  <2>1. Tabular(sections[i], elf.translated) /\ Len(sections[i].entries) \in Nat
        /\ sections[i].nameAt \in Nat
    BY <1>1, Held DEF Tabular
  <2>2. Tabular(x, elf.translated) /\ (Whole(x) <=> Whole(sections[i]))
    BY <1>1, <2>1, Dressed DEF SameKind
  <2>3. SameKind(sections[i], x) /\ Longer(sections[i], x)
    BY <1>1, <2>1, <2>2 DEF Longer, SameKind
  <2>4. Later(sections[i], x)
    BY <1>1, <2>3 DEF Later
  <2>5. ASSUME sections[i].link # 0
        PROVE  Means(x, sections[sections[i].link])
    <3>1. Means(sections[i], sections[sections[i].link])
      BY <1>1, <2>5, Held DEF Consistent
    <3> QED BY <1>1, <2>2, <2>3, <3>1 DEF Means, SameKind
  <2> QED BY <2>2, <2>3, <2>4, <2>5
<1>2. i \in 1..Len(sections) =>
        /\ Tabular(x, elf.translated) /\ SameKind(sections[i], x) /\ Longer(sections[i], x)
        /\ sections[i].type \in Indexed => Later(sections[i], x)
        /\ sections[i].link # 0 => Means(x, sections[sections[i].link])
  BY <1>1, Zenon
<1> QED BY <1>2, PutCarries

Entered(s, f) == [s EXCEPT !.entries = f]

LEMMA Reentered ==
    ASSUME NEW s, NEW tr, Tabular(s, tr), s.type \in {"rel", "versym"},
           NEW f, f \in Seq(Elements(f)), Len(f) = Len(s.entries)
    PROVE  /\ Tabular(Entered(s, f), tr) /\ SameKind(s, Entered(s, f)) /\ Longer(s, Entered(s, f))
           /\ Entered(s, f).entries = f /\ (Whole(Entered(s, f)) <=> Whole(s))
           /\ Entered(s, f).type \notin Indexed
<1> DEFINE x == Entered(s, f)
<1>1. TableFields \subseteq DOMAIN s /\ Len(s.entries) \in Nat
  BY TabularFields DEF Fielded
<1>2. /\ DOMAIN x = DOMAIN s /\ x.entries = f /\ SameKind(s, x)
      /\ x.size = s.size /\ x.stream = s.stream /\ x.entsize = s.entsize /\ x.nameAt = s.nameAt
      /\ x.starved = s.starved /\ x.room = s.room /\ x.type = s.type
  BY <1>1 DEF TableFields, BufferFields, SameKind, Entered, Placeable, PlaceFields
<1> HIDE DEF x
<1>3. Whole(x) <=> Whole(s)
  BY <1>2 DEF Whole, Lost
<1>4. Measured(s) => Measured(x)
  BY <1>2 DEF Measured
<1>5. Tabular(x, tr)
  <2>1. x.entries \in Seq({x.entries[k] : k \in DOMAIN x.entries})
    BY <1>2, Zenon DEF Elements
  <2> QED BY <1>2, <1>3, <1>4, <2>1 DEF Tabular, SameKind
<1>6. Longer(s, x) /\ x.type \notin Indexed
  BY <1>1, <1>2, <1>3 DEF Longer, Indexed
<1> QED BY <1>2, <1>3, <1>5, <1>6 DEF x

LEMMA RelocationCarries ==
    ASSUME TablesHold, NEW r \in Tables("rel"),
           NEW k \in 0..Len(sections[sections[r].link].entries) - 1,
           NEW e,
           AddRelocation(r, k) \/ SetRelocation(r, e, k)
    PROVE  Carries
<1> DEFINE l == sections[r].link
           entry == [symbol |-> k, wants |-> sections[l].entries[k + 1].is]
<1>1. r \in 1..Len(sections) /\ sections[r].type = "rel"
  BY DEF Tables
<1>2. \A j : Meant("rel", j, entry, sections[l])
  BY DEF Meant
<1>3. CASE Crash
  BY <1>3, CrashCarries
<1>4. CASE sections' \in Related(sections, {r}, entry) /\ elf' = elf
  <2> HIDE DEF entry
  <2>1. PICK x \in Appended(sections[r], REL, entry) : sections' = Put(sections, r, x)
    BY <1>4 DEF Related, Put
  <2>2. Sized(sections[r], REL, entry)
    BY <1>1 DEF Sized, REL
  <2> QED BY <1>1, <1>2, <1>4, <2>1, <2>2, AppendCarries
<1>5. CASE sections' = [sections EXCEPT ![r].entries[e] = entry] /\ elf' = elf
  <2> DEFINE f == [sections[r].entries EXCEPT ![e] = entry]
             x == Entered(sections[r], f)
  <2>1. sections' = Put(sections, r, x)
    BY <1>5 DEF Put, Entered
  <2>2. Tabular(sections[r], elf.translated) /\ sections[r].entries \in Seq(Elements(sections[r].entries))
        /\ DOMAIN sections[r].entries = 1..Len(sections[r].entries)
    BY <1>1, Held, TabularFields DEF Fielded
  <2>3. /\ f \in Seq(Elements(f)) /\ Len(f) = Len(sections[r].entries)
        /\ \A j \in 1..Len(f) : f[j] = entry \/ f[j] = sections[r].entries[j]
    BY <2>2, ReplaceEntry
  <2> HIDE DEF f, entry
  <2>4. /\ Tabular(x, elf.translated) /\ SameKind(sections[r], x) /\ Longer(sections[r], x)
        /\ x.entries = f /\ (Whole(x) <=> Whole(sections[r])) /\ x.type \notin Indexed
    BY <1>1, <2>2, <2>3, Reentered
  <2> HIDE DEF x
  <2>5. ASSUME l # 0
        PROVE  Means(x, sections[l])
    <3> SUFFICES ASSUME Whole(x), Whole(sections[l]), NEW j \in 1..Len(f)
                 PROVE  Meant("rel", j, f[j], sections[l])
      BY <1>1, <2>4 DEF Means, SameKind
    <3>1. Means(sections[r], sections[l])
      BY <1>1, <2>5, Held DEF Consistent
    <3>2. Meant("rel", j, sections[r].entries[j], sections[l])
      BY <1>1, <2>3, <2>4, <3>1 DEF Means
    <3> QED BY <1>2, <2>3, <3>2
  <2> QED BY <1>1, <1>5, <2>1, <2>4, <2>5, PutCarries DEF Indexed
<1> QED BY <1>3, <1>4, <1>5 DEF AddRelocation, SetRelocation, Faults

(* The accessors of lists                                                   *)
LEMMA AddItemCarries ==
    ASSUME TablesHold, NEW v, NEW type, type \notin Linking, NEW bytes, NEW e, NEW seen,
           sections[views[v].sec].type = type => Sized(sections[views[v].sec], bytes, e),
           AddItem(v, type, bytes, e, seen)
    PROVE  Carries
<1> DEFINE i == views[v].sec
<1>1. sections[i].type = type
  BY DEF AddItem
<1>2. CASE Crash
  BY <1>2, CrashCarries
<1>3. ASSUME NEW t \in Appended(sections[i], bytes, e), sections' = [sections EXCEPT ![i] = t],
             elf' = elf
      PROVE  Carries
  <2>1. sections' = Put(sections, i, t)
    BY <1>3 DEF Put
  <2>2. \A k, y : Meant(sections[i].type, k, e, y)
    BY <1>1 DEF Meant, Linking
  <2> QED BY <1>1, <1>3, <2>1, <2>2, AppendCarries
<1> QED BY <1>2, <1>3 DEF AddItem, Faults

LEMMA AddNoteCarries ==
    ASSUME TablesHold, NEW v, NEW n \in Names, NEW d \in Descs, AddNote(v, n, d)
    PROVE  Carries
<1> DEFINE note == [at |-> sections[views[v].sec].size, namesz |-> NameSize[n] + 1, descsz |-> d]
<1>1. /\ note.at = sections[views[v].sec].size
      /\ note.namesz \in Nat /\ note.descsz \in Nat
  <2>1. NameSize[n] \in Nat /\ d \in Nat
    BY NameAssumption, ObjectAssumption
  <2> QED BY <2>1
<1>2. AddItem(v, "note", NoteBytes(note), note, Len(Entries(v)) + 1)
  BY DEF AddNote
<1> HIDE DEF note
<1>3. sections[views[v].sec].type = "note" =>
        Sized(sections[views[v].sec], NoteBytes(note), note)
  BY <1>1, NoteBytesNat DEF Sized
<1>4. "note" \notin Linking
  BY DEF Linking
<1> QED BY <1>2, <1>3, <1>4, AddItemCarries

LEMMA AddAttributeCarries ==
    ASSUME TablesHold, NEW v, NEW n \in Names, NEW d \in Descs, AddAttribute(v, n, d)
    PROVE  Carries
<1> DEFINE e == [at |-> sections[views[v].sec].size, length |-> NameSize[n] + 1 + d]
<1>1. /\ e.at = sections[views[v].sec].size
      /\ e.length \in Nat \ {0}
  <2>1. NameSize[n] \in Nat /\ d \in Nat
    BY NameAssumption, ObjectAssumption
  <2> QED BY <2>1
<1>2. AddItem(v, "modinfo", e.length + 1, e, Len(Entries(v)) + 1)
  BY DEF AddAttribute
<1> HIDE DEF e
<1>3. sections[views[v].sec].type = "modinfo" =>
        Sized(sections[views[v].sec], e.length + 1, e)
  BY <1>1 DEF Sized
<1>4. "modinfo" \notin Linking
  BY DEF Linking
<1> QED BY <1>2, <1>3, <1>4, AddItemCarries

LEMMA VersionCarries ==
    ASSUME TablesHold, NEW v, NEW k, AddVersion(v) \/ ModifyVersion(v, k)
    PROVE  Carries
<1>1. CASE AddVersion(v)
  <2>1. \A s : s.type = "versym" => Sized(s, VERSYM, "version")
    BY DEF Sized, VERSYM
  <2>2. "versym" \notin Linking
    BY DEF Linking
  <2> QED BY <1>1, <2>1, <2>2, AddItemCarries DEF AddVersion
<1>2. CASE ModifyVersion(v, k)
  <2> DEFINE i == views[v].sec
             f == [j \in DOMAIN sections[i].entries |->
                      IF j = k THEN "modified" ELSE sections[i].entries[j]]
  <2>1. CASE Crash
    BY <2>1, CrashCarries
  <2>2. CASE sections' = [sections EXCEPT ![i].entries = f] /\ elf' = elf
    <3>1. sections' = Put(sections, i, Entered(sections[i], f))
      BY <2>2 DEF Put, Entered
    <3>2. ASSUME i \in 1..Len(sections)
          PROVE  f \in Seq(Elements(f)) /\ Len(f) = Len(sections[i].entries)
      <4>1. DOMAIN sections[i].entries = 1..Len(sections[i].entries)
            /\ Len(sections[i].entries) \in Nat
        BY <3>2, Held, TabularFields
      <4>2. f = [j \in 1..Len(sections[i].entries) |-> f[j]]
            /\ DOMAIN f = 1..Len(sections[i].entries)
        BY <4>1
      <4> HIDE DEF f
      <4>3. f \in Seq(Elements(f))
        BY <4>1, <4>2, ListOf
      <4>4. DOMAIN f = 1..Len(f) /\ Len(f) \in Nat
        BY <4>3, ListDomain
      <4> QED BY <4>1, <4>2, <4>3, <4>4
    <3> HIDE DEF f
    <3>3. sections[i].type = "versym"
      BY <1>2 DEF ModifyVersion
    <3>4. ASSUME i \in 1..Len(sections)
          PROVE  /\ Tabular(Entered(sections[i], f), elf.translated)
                 /\ SameKind(sections[i], Entered(sections[i], f))
                 /\ Longer(sections[i], Entered(sections[i], f))
                 /\ sections[i].type \notin Indexed
                 /\ \A y : Means(Entered(sections[i], f), y)
      <4>1. /\ Tabular(Entered(sections[i], f), elf.translated)
            /\ SameKind(sections[i], Entered(sections[i], f))
            /\ Longer(sections[i], Entered(sections[i], f))
        BY <3>2, <3>3, <3>4, Held, Reentered
      <4>2. Entered(sections[i], f).type \notin Linking
        BY <3>3, <4>1 DEF SameKind, Linking
      <4>3. sections[i].type \notin Indexed
        BY <3>3 DEF Indexed
      <4> QED BY <4>1, <4>2, <4>3, MeansNothing
    <3>5. i \in 1..Len(sections) =>
            /\ Tabular(Entered(sections[i], f), elf.translated)
            /\ SameKind(sections[i], Entered(sections[i], f))
            /\ Longer(sections[i], Entered(sections[i], f))
            /\ sections[i].type \in Indexed => Later(sections[i], Entered(sections[i], f))
            /\ sections[i].link # 0 => Means(Entered(sections[i], f), sections[sections[i].link])
      BY <3>4, Zenon
    <3> QED BY <2>2, <3>1, <3>5, PutCarries
  <2> QED BY <1>2, <2>1, <2>2 DEF ModifyVersion
<1> QED BY <1>1, <1>2

LEMMA AddAddressCarries ==
    ASSUME TablesHold, NEW i \in Tables("array"), AddAddress(i)
    PROVE  Carries
<1>1. CASE Crash
  BY <1>1, CrashCarries
<1>2. ASSUME NEW t \in Appended(sections[i], ADDRESS, "address"),
             sections' = [sections EXCEPT ![i] = t], elf' = elf
      PROVE  Carries
  <2>1. sections' = Put(sections, i, t)
    BY <1>2 DEF Put
  <2>2. sections[i].type = "array"
    BY DEF Tables
  <2>3. Sized(sections[i], ADDRESS, "address") /\ \A k, y : Meant(sections[i].type, k, "address", y)
    BY <2>2 DEF Sized, Meant, ADDRESS
  <2> QED BY <1>2, <2>1, <2>3, AppendCarries
<1> QED BY <1>1, <1>2 DEF AddAddress, Faults

LEMMA AddDynamicCarries ==
    ASSUME TablesHold, NEW i \in Tables("dynamic"), NEW n \in Names, AddDynamic(i, n)
    PROVE  Carries
<1> DEFINE l == sections[i].link
<1>1. i \in 1..Len(sections) /\ sections[i].type = "dynamic"
  BY DEF Tables
<1>2. \A e : Sized(sections[i], DYN, e)
  BY <1>1 DEF Sized, DYN
<1>3. CASE Crash
  BY <1>3, CrashCarries
<1>4. ASSUME NEW t \in Appended(sections[i], DYN, DynamicEntry("null", 0, n)),
             sections' = [sections EXCEPT ![i] = t], elf' = elf
      PROVE  Carries
  <2> DEFINE e == DynamicEntry("null", 0, n)
  <2>1. sections' = Put(sections, i, t)
    BY <1>4 DEF Put
  <2>2. \A k, y : Meant(sections[i].type, k, e, y)
    BY <1>1 DEF Meant, DynamicEntry
  <2> HIDE DEF e
  <2>3. t \in Appended(sections[i], DYN, e)
    BY <1>4 DEF e
  <2> QED BY <1>2, <1>4, <2>1, <2>2, <2>3, AppendCarries
<1>5. ASSUME NEW u \in WithString(sections[l], n),
             NEW t \in Appended(sections[i], DYN, DynamicEntry("needed", Position(sections[l]), n)),
             sections' = [sections EXCEPT ![l] = u, ![i] = t], elf' = elf
      PROVE  Carries
  <2> DEFINE e == DynamicEntry("needed", Position(sections[l]), n)
             one == Put(sections, l, u)
             two == Put(one, i, t)
  <2>0. sections' = two
    BY <1>5 DEF Put
  <2>1. l \in 0..Len(sections) /\ (l # 0 => sections[l].type = "strtab" /\ l # i)
    BY <1>1, Held DEF Consistent, Linkage
  <2>2. l \in 1..Len(sections) => l # 0
    OBVIOUS
  <2>3. ASSUME l \in 1..Len(sections)
        PROVE  /\ Tabular(u, elf.translated) /\ SameKind(sections[l], u) /\ Longer(sections[l], u)
               /\ Later(sections[l], u) /\ Means(u, sections[sections[l].link])
               /\ Whole(u) => HasString(u, Position(sections[l]), n)
    <3>1. Tabular(u, elf.translated) /\ Later(sections[l], u)
          /\ (Whole(u) => HasString(u, Position(sections[l]), n))
      BY <2>1, <2>2, <2>3, Held, WithStringIs
    <3>2. SameKind(sections[l], u) /\ Longer(sections[l], u) /\ u.type \notin Linking
      BY <2>1, <2>2, <2>3, <3>1 DEF Later, SameKind, Linking
    <3> QED BY <3>1, <3>2, MeansNothing
  <2>4. /\ one \in Seq(Elements(one)) /\ Len(one) = Len(sections)
        /\ Consistent(one, elf.header, elf.strings, elf.translated)
        /\ Grows(sections, one)
    <3> HIDE DEF l
    <3> QED BY <2>3, Held, OneSection
  <2>5. one[i] = sections[i] /\ (l # 0 => one[l] = u)
    BY <1>1, <2>1, Held DEF Put
  <2> HIDE DEF one
  <2>6. ASSUME l # 0, Whole(one[l])
        PROVE  Meant("dynamic", Len(one[i].entries) + 1, e, one[l])
    <3>1. l \in 1..Len(sections) /\ HasString(one[l], Position(sections[l]), n)
      BY <2>1, <2>3, <2>5, <2>6, Held
    <3>2. e.value = Position(sections[l]) /\ e.called = n
      BY DEF DynamicEntry
    <3> QED BY <3>1, <3>2 DEF Meant
  <2>7. t \in Appended(one[i], DYN, e) /\ Sized(one[i], DYN, e)
    BY <1>2, <1>5, <2>5
  <2> HIDE DEF e
  <2>8. /\ two \in Seq(Elements(two)) /\ Len(two) = Len(one)
        /\ Consistent(two, elf.header, elf.strings, elf.translated)
        /\ Grows(one, two)
    <3>1. one[i].link # 0 /\ Whole(one[one[i].link]) =>
            Meant(one[i].type, Len(one[i].entries) + 1, e, one[one[i].link])
      BY <1>1, <2>5, <2>6
    <3> QED BY <2>4, <2>7, <3>1, AppendedTable
  <2> HIDE DEF two
  <2>9. Grows(sections, two)
    <3>1. /\ \A k \in 1..Len(one) : Len(one[k].entries) \in Nat
          /\ \A k \in 1..Len(two) : Len(two[k].entries) \in Nat
      BY <2>4, <2>8, TabularFields DEF Consistent
    <3> QED BY <2>4, <2>8, <3>1, Held, GrowsTwice
  <2> QED BY <1>5, <2>0, <2>8, <2>9, Zenon DEF Carries
<1> QED BY <1>3, <1>4, <1>5 DEF AddDynamic, Faults

-----------------------------------------------------------------------------
(* arrange_local_symbols: two symbols change places, and the relocations    *)
(* with them.                                                               *)
Switched(e, a, b) == [e EXCEPT ![a + 1] = e[b + 1], ![b + 1] = e[a + 1]]

LEMMA SwapIs ==
    ASSUME NEW e, e \in Seq(Elements(e)), NEW a \in Nat, NEW b \in Nat, a < b
    PROVE  /\ Switched(e, a, b) \in Seq(Elements(Switched(e, a, b)))
           /\ Len(Switched(e, a, b)) = Len(e) /\ Len(e) \in Nat
           /\ b + 1 <= Len(e) =>
                /\ Switched(e, a, b)[a + 1] = e[b + 1] /\ Switched(e, a, b)[b + 1] = e[a + 1]
                /\ \A k \in 1..Len(e) : k \notin {a + 1, b + 1} => Switched(e, a, b)[k] = e[k]
<1> DEFINE f == Switched(e, a, b)
<1>1. DOMAIN e = 1..Len(e) /\ Len(e) \in Nat
  BY ListDomain
<1>2. DOMAIN f = 1..Len(e) /\ f = [k \in 1..Len(e) |-> f[k]]
  BY <1>1 DEF Switched
<1>3. b + 1 <= Len(e) => /\ f[a + 1] = e[b + 1] /\ f[b + 1] = e[a + 1]
                         /\ \A k \in 1..Len(e) : k \notin {a + 1, b + 1} => f[k] = e[k]
  BY <1>1 DEF Switched
<1> HIDE DEF f
<1>4. f \in Seq(Elements(f))
  BY <1>1, <1>2, ListOf
<1>5. Len(f) = Len(e)
  <2>1. DOMAIN f = 1..Len(f) /\ Len(f) \in Nat
    BY <1>4, ListDomain
  <2> QED BY <1>1, <1>2, <2>1
<1> QED BY <1>1, <1>3, <1>4, <1>5 DEF f

(* The symbols of the table are the same.                                   *)
LEMMA SwappedSymbols ==
    ASSUME NEW s, NEW tr, Tabular(s, tr), s.type = "symtab",
           NEW a \in Nat, NEW b \in Nat, a < b, Whole(s) => b + 1 <= Len(s.entries)
    PROVE  LET x == Entered(s, Switched(s.entries, a, b))
           IN  /\ Tabular(x, tr) /\ SameKind(s, x) /\ Longer(s, x)
               /\ x.entries = Switched(s.entries, a, b) /\ (Whole(x) <=> Whole(s))
<1> DEFINE e == s.entries
           f == Switched(s.entries, a, b)
           x == Entered(s, f)
<1>1. TableFields \subseteq DOMAIN s /\ e \in Seq(Elements(e)) /\ Len(e) \in Nat
  BY TabularFields DEF Fielded
<1>2. /\ f \in Seq(Elements(f)) /\ Len(f) = Len(e)
      /\ b + 1 <= Len(e) => /\ f[a + 1] = e[b + 1] /\ f[b + 1] = e[a + 1]
                            /\ \A k \in 1..Len(e) : k \notin {a + 1, b + 1} => f[k] = e[k]
  BY <1>1, SwapIs
<1> HIDE DEF f
<1>3. /\ DOMAIN x = DOMAIN s /\ x.entries = f /\ SameKind(s, x)
      /\ x.size = s.size /\ x.stream = s.stream /\ x.entsize = s.entsize /\ x.nameAt = s.nameAt
      /\ x.deflate = s.deflate /\ x.starved = s.starved /\ x.room = s.room /\ x.type = "symtab"
  BY <1>1 DEF TableFields, BufferFields, SameKind, Entered, Placeable, PlaceFields
<1> HIDE DEF x
<1>4. Whole(x) <=> Whole(s)
  BY <1>3 DEF Whole, Lost
<1>5. Longer(s, x)
  BY <1>1, <1>2, <1>3, <1>4 DEF Longer
<1>6. ASSUME Whole(s)
      PROVE  Measured(x)
  <2>1. s.size = SYM * Len(e) /\ {e[k].is : k \in 1..Len(e)} = 0..Len(e) - 1
    BY <1>6 DEF Tabular, Measured
  <2>2. a + 1 \in 1..Len(e) /\ b + 1 \in 1..Len(e)
    BY <1>1, <1>6
  <2>3. {f[k].is : k \in 1..Len(e)} = {e[k].is : k \in 1..Len(e)}
    <3>1. b + 1 <= Len(e)
      BY <1>6
    <3>2. \A k \in 1..Len(e) : \E j \in 1..Len(e) : f[k] = e[j]
      BY <1>2, <2>2, <3>1
    <3>3. \A k \in 1..Len(e) : \E j \in 1..Len(e) : e[k] = f[j]
      BY <1>2, <2>2, <3>1
    <3>4. {f[k].is : k \in 1..Len(e)} \subseteq {e[k].is : k \in 1..Len(e)}
      BY <3>2, Zenon
    <3>5. {e[k].is : k \in 1..Len(e)} \subseteq {f[k].is : k \in 1..Len(e)}
      BY <3>3, Zenon
    <3> QED BY <3>4, <3>5
  <2>4. x.size = SYM * Len(x.entries)
        /\ {x.entries[k].is : k \in 1..Len(x.entries)} = 0..Len(x.entries) - 1
    BY <1>2, <1>3, <2>1, <2>3
  <2> QED BY <1>3, <2>4 DEF Measured
<1>7. Tabular(x, tr)
  <2>1. x.entries \in Seq({x.entries[k] : k \in DOMAIN x.entries})
    BY <1>2, <1>3, Zenon DEF Elements
  <2> QED BY <1>3, <1>4, <1>6, <2>1 DEF Tabular, SameKind
<1> QED BY <1>3, <1>4, <1>5, <1>7 DEF x, f

(* A relocation's symbol goes where its relocation says.                    *)
Exchanged(k, a, b) == IF k = a THEN b ELSE IF k = b THEN a ELSE k

LEMMA RenumberedMeans ==
    ASSUME NEW r, {"symbol", "wants"} \subseteq DOMAIN r, NEW a \in Nat, NEW b \in Nat, a < b,
           NEW e, NEW f, NEW c \in Nat, b + 1 <= c,
           f[a + 1] = e[b + 1], f[b + 1] = e[a + 1],
           \A k \in 1..c : k \notin {a + 1, b + 1} => f[k] = e[k],
           r.symbol \in 0..c - 1, e[r.symbol + 1].is = r.wants
    PROVE  LET q == Renumbered(r, a, b)
           IN  /\ {"symbol", "wants"} \subseteq DOMAIN q
               /\ q.symbol \in 0..c - 1 /\ f[q.symbol + 1].is = q.wants
<1> DEFINE q == Renumbered(r, a, b)
<1>1. DOMAIN q = DOMAIN r /\ q.wants = r.wants /\ q.symbol = Exchanged(r.symbol, a, b)
  BY DEF Renumbered, Exchanged
<1> HIDE DEF q
<1>2. ASSUME r.symbol = a
      PROVE  q.symbol \in 0..c - 1 /\ f[q.symbol + 1].is = q.wants
  <2>1. q.symbol = b
    BY <1>1, <1>2 DEF Exchanged
  <2> QED BY <1>1, <1>2, <2>1
<1>3. ASSUME r.symbol = b
      PROVE  q.symbol \in 0..c - 1 /\ f[q.symbol + 1].is = q.wants
  <2>1. q.symbol = a
    BY <1>1, <1>3 DEF Exchanged
  <2> QED BY <1>1, <1>3, <2>1
<1>4. ASSUME r.symbol # a, r.symbol # b
      PROVE  q.symbol \in 0..c - 1 /\ f[q.symbol + 1].is = q.wants
  <2>1. q.symbol = r.symbol /\ r.symbol + 1 \in 1..c /\ r.symbol + 1 \notin {a + 1, b + 1}
    BY <1>1, <1>4 DEF Exchanged
  <2>2. f[r.symbol + 1] = e[r.symbol + 1]
    BY <2>1
  <2> QED BY <1>1, <2>1, <2>2
<1>5. {"symbol", "wants"} \subseteq DOMAIN q
  BY <1>1
<1>6. q.symbol \in 0..c - 1 /\ f[q.symbol + 1].is = q.wants
  BY <1>2, <1>3, <1>4
<1> QED BY <1>5, <1>6 DEF q

LEMMA SymbolsSwitched ==
    ASSUME NEW s, Tabular(s, elf.translated), s.type = "symtab",
           NEW a \in Nat, NEW b \in Nat, 0 < a, a < b, Whole(s) => b + 1 <= Len(s.entries),
           NEW y, Means(s, y)
    PROVE  Means(Entered(s, Switched(s.entries, a, b)), y)
<1> DEFINE e == s.entries
           f == Switched(s.entries, a, b)
           x == Entered(s, f)
<1>1. e \in Seq(Elements(e)) /\ Len(e) \in Nat
  BY TabularFields DEF Fielded
<1>2. /\ Len(f) = Len(e)
      /\ b + 1 <= Len(e) => /\ f[a + 1] = e[b + 1] /\ f[b + 1] = e[a + 1]
                            /\ \A k \in 1..Len(e) : k \notin {a + 1, b + 1} => f[k] = e[k]
  BY <1>1, SwapIs
<1>3. x.entries = f /\ x.type = "symtab" /\ (Whole(x) <=> Whole(s))
  BY SwappedSymbols DEF SameKind
<1> HIDE DEF x, f
<1>4. ASSUME Whole(x), Whole(y), NEW k \in 1..Len(x.entries)
      PROVE  Meant(x.type, k, x.entries[k], y)
  <2>1. b + 1 <= Len(e) /\ k \in 1..Len(e)
    BY <1>2, <1>3, <1>4
  <2>2. ASSUME k > 1
        PROVE  HasString(y, f[k].name, f[k].called)
    <3>1. PICK j \in 2..Len(e) : f[k] = e[j]
      BY <1>1, <1>2, <2>1, <2>2
    <3>2. j \in 1..Len(e) /\ j > 1
      BY <1>1
    <3>3. Meant("symtab", j, e[j], y)
      BY <1>3, <1>4, <3>2 DEF Means
    <3>4. HasString(y, e[j].name, e[j].called)
      BY <3>2, <3>3 DEF Meant
    <3> QED BY <3>1, <3>4
  <2> QED BY <1>3, <2>2 DEF Meant
<1>5. Means(x, y)
  BY <1>4 DEF Means
<1> QED BY <1>5 DEF x, f

(* What becomes of the relocations of those symbols                         *)
LEMMA RelocationsSwitched ==
    ASSUME NEW r, Tabular(r, elf.translated), r.type = "rel",
           NEW s, Tabular(s, elf.translated), s.type = "symtab",
           NEW a \in Nat, NEW b \in Nat, a < b, Whole(s) => b + 1 <= Len(s.entries)
    PROVE  LET x == SwapSymbols(r, a, b)
           IN  /\ Tabular(x, elf.translated) /\ SameKind(r, x) /\ Longer(r, x)
               /\ Whole(x) <=> Whole(r)
               /\ Means(r, s) => Means(x, Entered(s, Switched(s.entries, a, b)))
<1> DEFINE e == s.entries
           f == Switched(s.entries, a, b)
           z == Entered(s, f)
           g == [k \in DOMAIN r.entries |-> Renumbered(r.entries[k], a, b)]
           x == SwapSymbols(r, a, b)
<1>1. /\ TableFields \subseteq DOMAIN r
      /\ Len(r.entries) \in Nat /\ DOMAIN r.entries = 1..Len(r.entries)
  BY TabularFields DEF Fielded
<1>2. x = Entered(r, g)
  BY <1>1 DEF SwapSymbols, Entered, TableFields
<1>3. Len(g) = Len(r.entries) /\ g = [k \in 1..Len(r.entries) |-> g[k]]
  BY <1>1
<1>4. \A k \in 1..Len(r.entries) : g[k] = Renumbered(r.entries[k], a, b)
  BY <1>1
<1> HIDE DEF g, x
<1>5. g \in Seq(Elements(g))
  BY <1>1, <1>3, ListOf
<1>6. /\ Tabular(x, elf.translated) /\ SameKind(r, x) /\ Longer(r, x)
      /\ x.entries = g /\ (Whole(x) <=> Whole(r))
  BY <1>2, <1>3, <1>5, Reentered
<1>7. /\ z.entries = f /\ (Whole(z) <=> Whole(s))
  BY SwappedSymbols
<1>8. e \in Seq(Elements(e)) /\ Len(e) \in Nat
  BY TabularFields DEF Fielded
<1>9. /\ Len(f) = Len(e)
      /\ b + 1 <= Len(e) => /\ f[a + 1] = e[b + 1] /\ f[b + 1] = e[a + 1]
                            /\ \A k \in 1..Len(e) : k \notin {a + 1, b + 1} => f[k] = e[k]
  BY <1>8, SwapIs
<1> HIDE DEF f, z
<1>10. ASSUME Means(r, s), Whole(x), Whole(z), NEW k \in 1..Len(x.entries)
       PROVE  Meant(x.type, k, x.entries[k], z)
  <2>1. Whole(r) /\ b + 1 <= Len(e) /\ k \in 1..Len(r.entries) /\ x.entries[k] = Renumbered(r.entries[k], a, b)
    BY <1>3, <1>4, <1>6, <1>7, <1>10
  <2>2. Meant("rel", k, r.entries[k], s)
    BY <1>7, <1>10, <2>1 DEF Means
  <2>3. /\ {"symbol", "wants"} \subseteq DOMAIN r.entries[k]
        /\ r.entries[k].symbol \in 0..Len(e) - 1 /\ e[r.entries[k].symbol + 1].is = r.entries[k].wants
    BY <2>2 DEF Meant
  <2>4. /\ {"symbol", "wants"} \subseteq DOMAIN Renumbered(r.entries[k], a, b)
        /\ Renumbered(r.entries[k], a, b).symbol \in 0..Len(e) - 1
        /\ f[Renumbered(r.entries[k], a, b).symbol + 1].is = Renumbered(r.entries[k], a, b).wants
    <3> DEFINE o == r.entries[k]
               c == Len(e)
    <3>1. \A j \in 1..Len(e) : j \notin {a + 1, b + 1} => f[j] = e[j]
      BY <1>9, <2>1
    <3>2. f[a + 1] = e[b + 1] /\ f[b + 1] = e[a + 1]
      BY <1>9, <2>1
    <3>3. /\ {"symbol", "wants"} \subseteq DOMAIN o
          /\ c \in Nat /\ b + 1 <= c /\ \A j \in 1..c : j \notin {a + 1, b + 1} => f[j] = e[j]
          /\ o.symbol \in 0..c - 1 /\ e[o.symbol + 1].is = o.wants
      BY <1>8, <2>1, <2>3, <3>1
    <3> HIDE DEF o, e, c
    <3>4. /\ {"symbol", "wants"} \subseteq DOMAIN Renumbered(o, a, b)
          /\ Renumbered(o, a, b).symbol \in 0..c - 1
          /\ f[Renumbered(o, a, b).symbol + 1].is = Renumbered(o, a, b).wants
      BY <3>2, <3>3, RenumberedMeans
    <3> QED BY <3>4 DEF o, c
  <2>5. x.type = "rel"
    BY <1>6 DEF SameKind
  <2> QED BY <1>7, <1>9, <2>1, <2>4, <2>5 DEF Meant
<1>11. Means(r, s) => Means(x, z)
  BY <1>10 DEF Means
<1> QED BY <1>6, <1>11 DEF x, z, f

LEMMA SwapCarries ==
    ASSUME TablesHold, NEW t \in 1..Len(sections), sections[t].type = "symtab",
           NEW a \in Nat, NEW b \in Nat, 0 < a, a < b,
           Whole(sections[t]) => b + 1 <= Len(sections[t].entries),
           NEW new, new = SwappedIn(t, a, b)
    PROVE  /\ Consistent(new, elf.header, elf.strings, elf.translated)
           /\ Grows(sections, new)
<1> DEFINE s == sections[t]
           x == Entered(s, Switched(s.entries, a, b))
<1>1. /\ Len(sections) \in Nat
      /\ Consistent(sections, elf.header, elf.strings, elf.translated)
      /\ \A i \in 1..Len(sections) : Tabular(sections[i], elf.translated)
  BY Held
<1>2. /\ Len(new) = Len(sections)
      /\ new[t] = x
      /\ \A i \in 1..Len(sections) : i # t =>
            new[i] = IF i \in Linked(t) THEN SwapSymbols(sections[i], a, b) ELSE sections[i]
  BY <1>1 DEF SwappedIn, Entered, Switched
<1>3. /\ Tabular(x, elf.translated) /\ SameKind(s, x) /\ Longer(s, x) /\ (Whole(x) <=> Whole(s))
  BY <1>1, SwappedSymbols
<1> HIDE DEF x
<1>4. ASSUME NEW i \in 1..Len(sections), i \in Linked(t)
      PROVE  /\ i # t /\ sections[i].type = "rel" /\ sections[i].link = t
             /\ Tabular(new[i], elf.translated) /\ SameKind(sections[i], new[i])
             /\ Longer(sections[i], new[i])
             /\ Means(sections[i], s) => Means(new[i], x)
  <2>1. i # t /\ sections[i].type = "rel" /\ sections[i].link = t
    BY <1>4 DEF Linked, Tables
  <2>2. new[i] = SwapSymbols(sections[i], a, b)
    BY <1>2, <1>4, <2>1
  <2>3. LET z == SwapSymbols(sections[i], a, b)
        IN  /\ Tabular(z, elf.translated) /\ SameKind(sections[i], z) /\ Longer(sections[i], z)
            /\ Whole(z) <=> Whole(sections[i])
            /\ Means(sections[i], s) => Means(z, Entered(s, Switched(s.entries, a, b)))
    BY <1>1, <2>1, RelocationsSwitched
  <2> QED BY <2>1, <2>2, <2>3 DEF x
<1>5. ASSUME NEW i \in 1..Len(sections), i # t, i \notin Linked(t)
      PROVE  new[i] = sections[i]
  BY <1>2, <1>5
<1>6. ASSUME NEW i \in 1..Len(sections)
      PROVE  /\ Tabular(new[i], elf.translated) /\ SameKind(sections[i], new[i])
             /\ Longer(sections[i], new[i])
  <2>1. ASSUME i # t, i \notin Linked(t)
        PROVE  /\ Tabular(new[i], elf.translated) /\ SameKind(sections[i], new[i])
               /\ Longer(sections[i], new[i])
    BY <1>1, <1>5, <2>1, LaterSelf DEF Later
  <2> QED BY <1>2, <1>3, <1>4, <2>1, Zenon
<1>7. Linkage(sections) /\ \A i \in 1..Len(sections) :
          sections[i].link # 0 => Means(sections[i], sections[sections[i].link])
  BY <1>1 DEF Consistent
<1>8. \A i \in 1..Len(sections) : /\ new[i].type = sections[i].type /\ new[i].link = sections[i].link
                                  /\ new[i].nameAt = sections[i].nameAt /\ new[i].name = sections[i].name
  BY <1>6 DEF SameKind
<1>9. Linkage(new)
  BY <1>1, <1>2, <1>7, <1>8 DEF Linkage
<1>10. ASSUME NEW i \in 1..Len(sections), sections[i].link # 0
       PROVE  Means(new[i], new[sections[i].link])
  <2> DEFINE l == sections[i].link
  <2>1. l \in 1..Len(sections) /\ Means(sections[i], sections[l])
    BY <1>1, <1>7, <1>10 DEF Linkage
  <2>2. ASSUME sections[i].type \notin Linking
        PROVE  Means(new[i], new[l])
    BY <1>8, <2>2, MeansNothing
  <2>3. ASSUME sections[i].type \in {"symtab", "dynamic"}
        PROVE  Means(new[i], new[l])
    <3>1. sections[l].type = "strtab"
      BY <1>7, <1>10, <2>3 DEF Linkage
    <3>2. new[l] = sections[l]
      BY <1>5, <2>1, <3>1 DEF Linked, Tables
    <3>3. i \notin Linked(t)
      BY <2>3 DEF Linked, Tables
    <3>4. CASE i = t
      <4>1. Means(x, sections[l])
        <5> HIDE DEF l
        <5> QED BY <1>1, <2>1, <3>4, SymbolsSwitched DEF x
      <4> QED BY <1>2, <3>2, <3>4, <4>1
    <3>5. CASE i # t
      BY <1>5, <2>1, <3>2, <3>3, <3>5
    <3> QED BY <3>4, <3>5
  <2>4. ASSUME sections[i].type = "rel"
        PROVE  Means(new[i], new[l])
    <3>1. sections[l].type = "symtab" /\ i # t
      BY <1>7, <1>10, <2>4 DEF Linkage
    <3>2. CASE l = t
      <4>1. i \in Linked(t)
        BY <2>4, <3>2 DEF Linked, Tables
      <4> QED BY <1>2, <1>4, <2>1, <3>2, <4>1
    <3>3. CASE l # t
      <4>1. i \notin Linked(t) /\ l \notin Linked(t)
        BY <3>1, <3>3 DEF Linked, Tables
      <4>2. new[i] = sections[i] /\ new[l] = sections[l]
        BY <1>5, <2>1, <3>1, <3>3, <4>1
      <4> QED BY <2>1, <4>2
    <3> QED BY <3>2, <3>3
  <2> QED BY <2>2, <2>3, <2>4 DEF Linking
<1>11. \A i \in 1..Len(sections) : new[i].link # 0 => Means(new[i], new[new[i].link])
  BY <1>8, <1>10
<1>12. \A i \in 1..Len(sections) : sections[i].type \in {"strtab", "null"} => new[i] = sections[i]
  BY <1>5 DEF Linked, Tables
<1>13. ASSUME elf.header
       PROVE  elf.strings \in Nat /\ Naming(new, elf.strings) /\ SectionNames(new, elf.strings)
  <2> DEFINE n == elf.strings
  <2>1. n \in Nat /\ Naming(sections, n) /\ SectionNames(sections, n)
    BY <1>1, <1>13 DEF Consistent
  <2> HIDE DEF n
  <2>2. Naming(new, n)
    BY <1>1, <1>2, <1>8, <2>1 DEF Naming
  <2>3. n \in 1..Len(sections) - 1 => sections[n + 1].type = "strtab" /\ n + 1 \in 1..Len(sections)
    BY <1>1, <2>1 DEF Naming
  <2>4. n \in 1..Len(sections) - 1 => new[n + 1] = sections[n + 1]
    BY <1>12, <2>3
  <2>5. SectionNames(new, n)
    BY <1>2, <1>8, <2>1, <2>4 DEF SectionNames
  <2> QED BY <2>1, <2>2, <2>5 DEF n
<1>14. Consistent(new, elf.header, elf.strings, elf.translated)
  BY <1>2, <1>6, <1>9, <1>11, <1>13, Zenon DEF Consistent
<1>15. Grows(sections, new)
  BY <1>1, <1>2, <1>6 DEF Grows
<1> QED BY <1>14, <1>15

(* Symbols arrange_local_symbols counts are there.                          *)
LEMMA Counted ==
    ASSUME NEW s, NEW tr, Tabular(s, tr), s.type = "symtab"
    PROVE  /\ Count(s) \in Nat
           /\ Whole(s) => Count(s) <= Len(s.entries)
           /\ Whole(s) /\ s.entsize = SYM /\ s.size <= s.stream => Count(s) = Len(s.entries)
<1> DEFINE n == Len(s.entries)
           c == s.size \div s.entsize
<1>1. s.size \in Nat /\ s.entsize \in Nat /\ n \in Nat
  BY TabularFields DEF Fielded
<1>2. Whole(s) => s.size = SYM * n
  BY DEF Tabular, Measured
<1>3. s.entsize >= SYM => c \in Nat /\ s.entsize * c <= s.size
  BY <1>1 DEF SYM
<1>4. s.entsize >= SYM => SYM * c <= s.entsize * c
  BY <1>1, <1>3 DEF SYM
<1>5. s.entsize >= SYM => SYM * c <= s.size
  <2> HIDE DEF c
  <2>1. \A x, y, z \in Int : x <= y /\ y <= z => x <= z
    OBVIOUS
  <2>2. s.entsize >= SYM => SYM * c \in Int /\ s.entsize * c \in Int
    BY <1>1, <1>3 DEF SYM
  <2> QED BY <1>1, <1>3, <1>4, <2>1, <2>2
<1>6. Whole(s) /\ s.entsize >= SYM => c <= n
  <2> HIDE DEF c
  <2> QED BY <1>1, <1>2, <1>3, <1>5 DEF SYM
<1>7. Count(s) = IF s.entsize >= SYM /\ s.size <= s.stream THEN c ELSE 0
  BY DEF Count
<1>8. Whole(s) /\ s.entsize = SYM => c = n
  BY <1>1, <1>2, Divided
<1> HIDE DEF c
<1>9. s.entsize = SYM => s.entsize >= SYM
  BY DEF SYM
<1> QED BY <1>1, <1>3, <1>6, <1>7, <1>8, <1>9

(* Where the loop has come to, symbols before it are local.                 *)
LocalTo(e, p) == \A k \in 2..Len(e) : k <= p => e[k].bind = "local"

LEMMA FirstNotLocalIs ==
    ASSUME NEW s, Len(s.entries) \in Nat, NEW n \in Nat, NEW p \in Nat, 0 < p
    PROVE  LET q == FirstNotLocal(s, n, p)
           IN  /\ q \in Nat /\ p <= q
               /\ n <= Len(s.entries) /\ LocalTo(s.entries, p) => LocalTo(s.entries, q)
               /\ q < n => s.entries[q + 1].bind # "local"
               /\ LocalTo(s.entries, p) /\ n = Len(s.entries) /\ q >= n => LocalTo(s.entries, n)
<1> DEFINE others == {k \in p..n - 1 : s.entries[k + 1].bind # "local"}
           q == FirstNotLocal(s, n, p)
<1>1. others \subseteq Nat
  OBVIOUS
<1>2. CASE others = {}
  <2>1. q = Max({p, n})
    BY <1>2 DEF FirstNotLocal
  <2>2. q \in {p, n} /\ p <= q /\ n <= q
    <3>1. \E x \in {p, n} : \A y \in {p, n} : x >= y
      OBVIOUS
    <3> QED BY <2>1, <3>1 DEF Max
  <2>3. \A k \in p..n - 1 : s.entries[k + 1].bind = "local"
    BY <1>2
  <2> HIDE DEF others, q
  <2>4. ASSUME LocalTo(s.entries, p), NEW k \in 2..Len(s.entries), k <= n
        PROVE  s.entries[k].bind = "local"
    <3>1. CASE k <= p
      BY <2>4, <3>1 DEF LocalTo
    <3>2. CASE k > p
      <4>1. k - 1 \in p..n - 1 /\ (k - 1) + 1 = k
        BY <2>4, <3>2
      <4> QED BY <2>3, <4>1
    <3> QED BY <3>1, <3>2
  <2>5. LocalTo(s.entries, p) => LocalTo(s.entries, n)
    BY <2>4 DEF LocalTo
  <2> QED BY <2>2, <2>5 DEF q
<1>3. CASE others # {}
  <2>1. q = Min(others)
    BY <1>3 DEF FirstNotLocal
  <2>2. q \in others /\ \A y \in others : q <= y
    BY <1>1, <1>3, <2>1, MinIs
  <2>3. q \in p..n - 1 /\ s.entries[q + 1].bind # "local"
    BY <2>2
  <2>4. \A k \in p..n - 1 : k < q => s.entries[k + 1].bind = "local"
    BY <2>2, <2>3
  <2> HIDE DEF others, q
  <2>5. ASSUME LocalTo(s.entries, p), NEW k \in 2..Len(s.entries), k <= q
        PROVE  s.entries[k].bind = "local"
    <3>1. CASE k <= p
      BY <2>5, <3>1 DEF LocalTo
    <3>2. CASE k > p
      <4>1. k - 1 \in p..n - 1 /\ (k - 1) + 1 = k /\ k - 1 < q
        BY <2>3, <2>5, <3>2
      <4> QED BY <2>4, <4>1
    <3> QED BY <3>1, <3>2
  <2>6. LocalTo(s.entries, p) => LocalTo(s.entries, q)
    BY <2>5 DEF LocalTo
  <2> QED BY <2>3, <2>6 DEF q
<1> QED BY <1>2, <1>3

Arranging == pc = "arrange" =>
    /\ job \in [table : Nat, first : Nat]
    /\ job.table \in Tables("symtab") /\ job.first \in Nat /\ 0 < job.first
    /\ Whole(sections[job.table]) => LocalTo(sections[job.table].entries, job.first)

(* What a step of the loop does, one way or the other                       *)
LEMMA ArrangeSteps ==
    ASSUME TablesHold, Arranging, ArrangeStep
    PROVE  LET t == job.table
               s == sections[t]
               n == Count(s)
               q == FirstNotLocal(s, n, job.first)
               locals == NextLocal(s, n, q)
           IN  /\ t \in 1..Len(sections) /\ s.type = "symtab" /\ Tabular(s, elf.translated)
               /\ n \in Nat /\ q \in Nat /\ 0 < q
               /\ Whole(s) => n <= Len(s.entries) /\ LocalTo(s.entries, q)
               /\ \/ sections' = sections /\ elf' = elf /\ pc' = "crashed"
                  \/ /\ locals # {} /\ Min(locals) \in q + 1..n - 1
                     /\ s.entries[Min(locals) + 1].bind = "local"
                     /\ sections' = SwappedIn(t, q, Min(locals)) /\ elf' = elf
                     /\ job' = [job EXCEPT !.first = q]
                  \/ /\ locals = {} /\ sections' = [sections EXCEPT ![t].info = q] /\ elf' = elf
                     /\ pc' = "edit"
<1> DEFINE t == job.table
           s == sections[t]
           n == Count(s)
           q == FirstNotLocal(s, n, job.first)
           locals == NextLocal(s, n, q)
<1>1. pc = "arrange"
  BY DEF ArrangeStep
<1>2. /\ t \in 1..Len(sections) /\ s.type = "symtab" /\ job.first \in Nat /\ 0 < job.first
      /\ Whole(s) => LocalTo(s.entries, job.first)
  BY <1>1 DEF Arranging, Tables
<1>3. Tabular(s, elf.translated) /\ Len(s.entries) \in Nat
  BY <1>2, Held
<1>4. n \in Nat /\ (Whole(s) => n <= Len(s.entries))
  BY <1>2, <1>3, Counted
<1> HIDE DEF n
<1>5. /\ q \in Nat /\ job.first <= q
      /\ n <= Len(s.entries) /\ LocalTo(s.entries, job.first) => LocalTo(s.entries, q)
  <2> HIDE DEF s
  <2> QED BY <1>2, <1>3, <1>4, FirstNotLocalIs
<1>6. 0 < q
  BY <1>2, <1>5
<1>7. Whole(s) => n <= Len(s.entries) /\ LocalTo(s.entries, q)
  BY <1>2, <1>4, <1>5
<1>8. locals # {} => /\ Min(locals) \in q + 1..n - 1
                     /\ s.entries[Min(locals) + 1].bind = "local"
  <2> SUFFICES ASSUME locals # {}
               PROVE  Min(locals) \in q + 1..n - 1 /\ s.entries[Min(locals) + 1].bind = "local"
    OBVIOUS
  <2>1. locals = {k \in q + 1..n - 1 : s.entries[k + 1].bind = "local"}
    BY DEF NextLocal
  <2>2. locals \subseteq Nat
    BY <1>4, <1>5, <2>1
  <2>3. Min(locals) \in locals
    <3> HIDE DEF locals
    <3> QED BY <2>2, MinIs
  <2> QED BY <2>1, <2>3
<1>9. \/ sections' = sections /\ elf' = elf /\ pc' = "crashed"
      \/ /\ locals # {}
         /\ sections' = SwappedIn(t, q, Min(locals)) /\ elf' = elf
         /\ job' = [job EXCEPT !.first = q]
      \/ /\ locals = {} /\ sections' = [sections EXCEPT ![t].info = q] /\ elf' = elf
         /\ pc' = "edit"
  BY Zenon DEF ArrangeStep, Crash, n
<1> HIDE DEF t, s, q, locals
<1>10. \/ sections' = sections /\ elf' = elf /\ pc' = "crashed"
       \/ /\ locals # {} /\ Min(locals) \in q + 1..n - 1
          /\ s.entries[Min(locals) + 1].bind = "local"
          /\ sections' = SwappedIn(t, q, Min(locals)) /\ elf' = elf
          /\ job' = [job EXCEPT !.first = q]
       \/ /\ locals = {} /\ sections' = [sections EXCEPT ![t].info = q] /\ elf' = elf
          /\ pc' = "edit"
  BY <1>8, <1>9, Zenon
<1> QED BY <1>2, <1>3, <1>4, <1>5, <1>6, <1>7, <1>10, Zenon DEF t, s, n, q, locals

LEMMA ArrangeCarries ==
    ASSUME TablesHold, Arranging, ArrangeStep
    PROVE  Carries /\ Arranging'
<1> DEFINE t == job.table
           s == sections[t]
           n == Count(s)
           q == FirstNotLocal(s, n, job.first)
           locals == NextLocal(s, n, q)
           b == Min(locals)
<1>1. /\ t \in 1..Len(sections) /\ s.type = "symtab" /\ Tabular(s, elf.translated)
      /\ n \in Nat /\ q \in Nat /\ 0 < q
      /\ Whole(s) => n <= Len(s.entries) /\ LocalTo(s.entries, q)
      /\ \/ sections' = sections /\ elf' = elf /\ pc' = "crashed"
         \/ /\ locals # {} /\ b \in q + 1..n - 1
            /\ s.entries[b + 1].bind = "local"
            /\ sections' = SwappedIn(t, q, b) /\ elf' = elf
            /\ job' = [job EXCEPT !.first = q]
         \/ /\ locals = {} /\ sections' = [sections EXCEPT ![t].info = q] /\ elf' = elf
            /\ pc' = "edit"
  BY ArrangeSteps, Zenon
<1>2. job.table \in Tables("symtab") /\ pc = "arrange"
  BY DEF ArrangeStep, Arranging
<1> HIDE DEF n, q, locals, b
<1>3. ASSUME sections' = sections, elf' = elf, pc' = "crashed"
      PROVE  Carries /\ Arranging'
  BY <1>3, StandStill DEF Arranging
<1>4. ASSUME sections' = [sections EXCEPT ![t].info = q], elf' = elf, pc' = "edit"
      PROVE  Carries /\ Arranging'
  <2> DEFINE x == [s EXCEPT !.info = q]
  <2>1. sections' = Put(sections, t, x)
    BY <1>4 DEF Put
  <2>2. TableFields \subseteq DOMAIN s
    BY <1>1, TabularFields DEF Fielded
  <2>3. /\ DOMAIN x = DOMAIN s /\ SameKind(s, x)
        /\ x.entries = s.entries /\ x.size = s.size /\ x.stream = s.stream
        /\ x.starved = s.starved /\ x.room = s.room
    BY <2>2 DEF SameKind, TableFields, BufferFields, Placeable, PlaceFields
  <2> HIDE DEF x, t
  <2>4. Carries
    BY <1>4, <2>1, <2>3, DressedCarries DEF s
  <2> QED BY <1>4, <2>4 DEF Arranging
<1>5. ASSUME b \in q + 1..n - 1, s.entries[b + 1].bind = "local",
             sections' = SwappedIn(t, q, b), elf' = elf, job' = [job EXCEPT !.first = q]
      PROVE  Carries /\ Arranging'
  <2>1. b \in Nat /\ q < b /\ (Whole(s) => b + 1 <= Len(s.entries))
    <3>1. Len(s.entries) \in Nat
      BY <1>1, TabularFields
    <3> QED BY <1>1, <1>5, <3>1
  <2>2. /\ Consistent(sections', elf.header, elf.strings, elf.translated)
        /\ Grows(sections, sections')
    <3> HIDE DEF t
    <3> QED BY <1>1, <1>5, <2>1, SwapCarries DEF s
  <2>3. Carries
    BY <1>5, <2>2 DEF Carries
  <2> DEFINE x == Entered(s, Switched(s.entries, q, b))
  <2>4. Len(sections) \in Nat /\ sections'[t] = x /\ Len(sections') = Len(sections)
    BY <1>1, <1>5, Held DEF SwappedIn, Entered, Switched
  <2>5. SameKind(s, x) /\ x.entries = Switched(s.entries, q, b) /\ (Whole(x) <=> Whole(s))
    BY <1>1, <2>1, SwappedSymbols
  <2>6. s.entries \in Seq(Elements(s.entries)) /\ Len(s.entries) \in Nat
    BY <1>1, TabularFields DEF Fielded
  <2>7. ASSUME Whole(x)
        PROVE  LocalTo(x.entries, q)
    <3>1. /\ Len(x.entries) = Len(s.entries)
          /\ \A k \in 1..Len(s.entries) : k \notin {q + 1, b + 1} => x.entries[k] = s.entries[k]
      BY <1>1, <2>1, <2>5, <2>6, <2>7, SwapIs
    <3>2. LocalTo(s.entries, q)
      BY <1>1, <2>5, <2>7
    <3> HIDE DEF x
    <3>3. ASSUME NEW k \in 2..Len(x.entries), k <= q
          PROVE  x.entries[k].bind = "local"
      <4>1. k \in 1..Len(s.entries) /\ k \notin {q + 1, b + 1} /\ k \in 2..Len(s.entries)
        BY <1>1, <2>1, <2>6, <3>1, <3>3
      <4> QED BY <3>1, <3>2, <3>3, <4>1 DEF LocalTo
    <3> QED BY <3>3 DEF LocalTo
  <2>8. job' \in [table : Nat, first : Nat] /\ job'.table = t /\ job'.first = q
    BY <1>1, <1>2, <1>5 DEF Arranging
  <2>9. job'.table \in Tables("symtab")'
    BY <1>1, <2>4, <2>5, <2>8 DEF Tables, SameKind
  <2>10. Arranging'
    BY <1>1, <2>4, <2>7, <2>8, <2>9 DEF Arranging, Whole, Lost
  <2> QED BY <2>3, <2>10
<1> QED BY <1>1, <1>3, <1>4, <1>5, Zenon


-----------------------------------------------------------------------------
(* create(): the null section and the names                                 *)
LEMMA BlankTable ==
    ASSUME NEW s, s.type = "null", s.size = 0, s.stream = 0, s.entsize = 0, s.entries = <<>>,
           s.nameAt \in Nat, TableFields \subseteq DOMAIN s, Placeable(s), NEW tr
    PROVE  Tabular(s, tr)
<1>1. \A S : <<>> \in Seq(S)
  OBVIOUS
<1>2. s.entries \in Seq({s.entries[k] : k \in DOMAIN s.entries})
  BY <1>1, Zenon
<1>3. Measured(s)
  BY DEF Measured
<1> QED BY <1>2, <1>3 DEF Tabular

Named(s, n, at) == [s EXCEPT !.name = n, !.nameAt = at]
StringTable(s) == [s EXCEPT !.type = "strtab", !.align = 1]

LEMMA OneOrTwo == \A k \in 1..2 : k = 1 \/ k = 2
  OBVIOUS

(* The table, before it is made a string table: an empty string and a name  *)
LEMMA NamesBegin ==
    ASSUME NEW s, Tabular(s, elf.translated), s.type = "null", s.size = 0, s.entries = <<>>,
           s.nameAt = 1, NEW n \in Names, s.name = n, s.link = 0,
           NEW t \in WithString(s, n),
           NEW x, x = StringTable(t)
    PROVE  /\ Tabular(x, elf.translated) /\ x.type = "strtab" /\ x.link = 0
           /\ x.name = n /\ x.nameAt = 1
           /\ Whole(x) => HasString(x, 1, n)
<1> DEFINE n1 == NameSize[n] + 1
<1>0. PICK e0 : e0 = [at |-> s.size, is |-> ""]
  OBVIOUS
<1>1. n1 \in Nat /\ n1 > 0
  BY NameAssumption
<1>2. Fielded(s)
  BY TabularFields
<1>3. PICK r \in Appended(s, 1, e0) : t \in Appended(r, n1, [at |-> r.size, is |-> n])
  BY <1>0 DEF WithString
<1>a. PICK e1 : e1 = [at |-> r.size, is |-> n]
  OBVIOUS
<1>4. /\ Fielded(r) /\ SameKind(s, r)
      /\ Whole(r) => r.size = s.size + 1 /\ r.entries = Append(s.entries, e0)
  BY <1>2, <1>3, AppendedIs
<1>5. /\ Fielded(t) /\ SameKind(r, t) /\ r.type # "nobits"
      /\ Whole(t) => Whole(r) /\ t.size = r.size + n1 /\ t.entries = Append(r.entries, e1)
  <2>1. r.type # "nobits"
    BY <1>4 DEF SameKind
  <2> HIDE DEF n1
  <2>2. t \in Appended(r, n1, e1)
    BY <1>3, <1>a DEF n1
  <2> QED BY <1>1, <1>4, <2>1, <2>2, AppendedIs
<1>6. t.type = "null" /\ t.link = 0 /\ t.name = n /\ t.nameAt = 1
  BY <1>4, <1>5 DEF SameKind
<1> HIDE DEF n1
<1>7. ASSUME Whole(t)
      PROVE  /\ t.size = 1 + n1 /\ Len(t.entries) = 2 /\ t.entries[1] = e0 /\ t.entries[2] = e1
             /\ e0.at = 0 /\ e1.at = 1 /\ e1.is = n
  <2>1. r.size = 1 /\ r.entries = Append(<<>>, e0) /\ t.size = 1 + n1 /\ t.entries = Append(r.entries, e1)
    BY <1>4, <1>5, <1>7
  <2>2. e0.at = 0 /\ e1.at = 1 /\ e1.is = n
    BY <1>0, <1>a, <2>1
  <2>3. <<>> \in Seq(Elements(<<>>)) /\ Len(<<>>) = 0
    OBVIOUS
  <2>4. /\ r.entries \in Seq(Elements(r.entries)) /\ Len(r.entries) = 1 /\ r.entries[1] = e0
    <3>1. PICK e : e = <<>>
      OBVIOUS
    <3>2. e \in Seq(Elements(e)) /\ Len(e) = 0 /\ r.entries = Append(e, e0)
      BY <2>1, <2>3, <3>1
    <3>3. /\ Append(e, e0) \in Seq(Elements(Append(e, e0))) /\ Len(Append(e, e0)) = Len(e) + 1
          /\ Append(e, e0)[Len(e) + 1] = e0
      BY <3>2, AppendEntry
    <3>4. Len(e) + 1 = 1
      BY <3>2
    <3> QED BY <3>2, <3>3, <3>4, Zenon
  <2>5. Len(t.entries) = 2 /\ t.entries[1] = e0 /\ t.entries[2] = e1
    BY <2>1, <2>4, AppendEntry
  <2> QED BY <2>1, <2>2, <2>5
<1>8. /\ TableFields \subseteq DOMAIN x /\ x.type = "strtab" /\ x.link = 0 /\ x.name = n /\ x.nameAt = 1
      /\ x.entries = t.entries /\ x.size = t.size /\ x.stream = t.stream /\ x.entsize = t.entsize
      /\ x.starved = t.starved /\ x.room = t.room
  BY <1>5, <1>6 DEF Fielded, TableFields, BufferFields, StringTable
<1>b. Placeable(x)
  <2>1. Placeable(t) /\ DOMAIN x = DOMAIN t /\ TableFields \subseteq DOMAIN t
        /\ x.addr = t.addr /\ x.offset = t.offset /\ x.align = 1
    BY <1>5 DEF Fielded, TableFields, BufferFields, PlaceFields, StringTable
  <2> QED BY <1>8, <2>1 DEF Placeable, Types
<1>9. Whole(x) <=> Whole(t)
  BY <1>6, <1>8 DEF Whole, Lost
<1>10. ASSUME Whole(x)
       PROVE  /\ Len(x.entries) = 2 /\ x.size = 1 + n1
              /\ x.entries[1].at = 0 /\ x.entries[2].at = 1 /\ x.entries[2].is = n
  BY <1>7, <1>8, <1>9, <1>10
<1>11. ASSUME Whole(x)
       PROVE  Measured(x) /\ HasString(x, 1, n)
  <2>1. x.entries[1].at \in 0..x.size - 1 /\ x.entries[2].at \in 0..x.size - 1
    BY <1>1, <1>10, <1>11 DEF n1
  <2>2. \A k \in 1..Len(x.entries) : /\ x.entries[k].at \in 0..x.size - 1
                                     /\ \A j \in 1..k - 1 : x.entries[j].at < x.entries[k].at
    <3> SUFFICES ASSUME NEW k \in 1..2
                 PROVE  /\ x.entries[k].at \in 0..x.size - 1
                        /\ \A j \in 1..k - 1 : x.entries[j].at < x.entries[k].at
      BY <1>10, <1>11
    <3>1. CASE k = 1
      BY <2>1, <3>1
    <3>2. CASE k = 2
      <4>1. \A j \in 1..k - 1 : j = 1
        BY <3>2
      <4> QED BY <1>10, <1>11, <2>1, <3>2, <4>1
    <3> QED BY <3>1, <3>2, OneOrTwo
  <2>3. HasString(x, 1, n)
    BY <1>10, <1>11 DEF HasString
  <2> QED BY <1>8, <2>2, <2>3 DEF Measured
<1>12. Tabular(x, elf.translated)
  BY <1>5, <1>8, <1>11, <1>b DEF Tabular, Fielded, Elements
<1> QED BY <1>8, <1>11, <1>12

LEMMA MandatoryTables ==
    ASSUME NEW new \in Mandatory
    PROVE  /\ Consistent(new, TRUE, 1, elf.translated)
           /\ Len(new) = 2 /\ new[1].type = "null"
<1>a. PICK n : n = ".shstrtab"
  OBVIOUS
<1>b. PICK two : two = 2
  OBVIOUS
<1>c. PICK l : l = <<Blank>>
  OBVIOUS
<1>d. PICK s : s = Named(Blank, n, 1)
  OBVIOUS
<1>1. n \in Names
  BY <1>a, NameAssumption
<1>2. /\ Tabular(s, elf.translated) /\ s.type = "null" /\ s.link = 0 /\ s.size = 0
      /\ s.name = n /\ s.nameAt = 1 /\ s.entries = <<>>
  <2>1. /\ s.type = "null" /\ s.link = 0 /\ s.size = 0 /\ s.name = n /\ s.nameAt = 1
        /\ s.entries = <<>> /\ s.stream = 0 /\ s.entsize = 0 /\ TableFields \subseteq DOMAIN s
        /\ s.align = 0 /\ s.addr = 0 /\ s.offset = 0
    BY <1>d DEF Blank, Named, TableFields, BufferFields, PlaceFields
  <2>2. Placeable(s)
    BY <2>1, WordIs DEF Placeable, Types
  <2> QED BY <2>1, <2>2, BlankTable
<1>3. PICK all \in Added(l, 1, n, Blank) :
          new = [i \in 1..2 |-> IF i = 1 THEN all[1] ELSE StringTable(all[2])]
  BY <1>a, <1>c DEF Mandatory, StringTable
<1>4. Position((l \o <<Blank>>)[two]) = 1
  <2>1. Blank.size = 0
    BY DEF Blank
  <2>2. PICK blank : blank = Blank
    OBVIOUS
  <2>3. (<<blank>> \o <<blank>>)[two] = blank
    BY <1>b
  <2> QED BY <1>c, <2>1, <2>2, <2>3 DEF Position
<1>5. PICK t \in WithString(Append(l, s)[two], n) : all = [Append(l, s) EXCEPT ![two] = t]
  <2>1. 1 + 1 = two
    BY <1>b
  <2> QED BY <1>3, <1>4, <1>d, <2>1 DEF Added, Named
<1>6. Append(l, s)[two] = s /\ DOMAIN Append(l, s) = 1..2 /\ Append(l, s)[1] = Blank
  <2>1. PICK blank : blank = Blank
    OBVIOUS
  <2> QED BY <1>b, <1>c, <2>1
<1>7. all[1] = Blank /\ all[2] = t /\ t \in WithString(s, n)
  <2>1. t \in WithString(s, n)
    BY <1>5, <1>6
  <2>2. two # 1 /\ 1 \in 1..2 /\ two \in 1..2
    BY <1>b
  <2>3. all[1] = Append(l, s)[1] /\ all[two] = t
    BY <1>5, <1>6, <2>2
  <2> QED BY <1>b, <1>6, <2>1, <2>3
<1>e. PICK x : x = StringTable(t)
  OBVIOUS
<1>8. /\ Tabular(x, elf.translated) /\ x.type = "strtab" /\ x.link = 0
      /\ x.name = n /\ x.nameAt = 1
      /\ Whole(x) => HasString(x, 1, n)
  BY <1>1, <1>2, <1>7, <1>e, NamesBegin
<1>9. new = [i \in 1..2 |-> IF i = 1 THEN Blank ELSE x]
  BY <1>3, <1>7, <1>e
<1>10. /\ Tabular(Blank, elf.translated) /\ Blank.link = 0 /\ Blank.nameAt = 0
       /\ Blank.type = "null"
  <2>1. /\ Blank.type = "null" /\ Blank.link = 0 /\ Blank.size = 0 /\ Blank.nameAt = 0
        /\ Blank.entries = <<>> /\ Blank.stream = 0 /\ Blank.entsize = 0 /\ TableFields \subseteq DOMAIN Blank
        /\ Blank.align = 0 /\ Blank.addr = 0 /\ Blank.offset = 0
    BY DEF Blank, TableFields, BufferFields, PlaceFields
  <2>2. Placeable(Blank)
    BY <2>1, WordIs DEF Placeable, Types
  <2> QED BY <2>1, <2>2, BlankTable
<1>11. Len(new) = 2 /\ new[1] = Blank /\ new[2] = x /\ \A k \in 1..2 : k = 1 \/ k = 2
  BY <1>9, OneOrTwo
<1>12. \A i \in 1..Len(new) : Tabular(new[i], elf.translated) /\ new[i].link = 0
  BY <1>8, <1>10, <1>11
<1>13. Linkage(new)
  BY <1>11, <1>12 DEF Linkage
<1>14. Naming(new, 1)
  BY <1>8, <1>11 DEF Naming
<1>15. SectionNames(new, 1)
  BY <1>8, <1>10, <1>11 DEF SectionNames
<1>16. new[1].type = "null"
  BY <1>10, <1>11, Zenon
<1> QED BY <1>11, <1>12, <1>13, <1>14, <1>15, <1>16 DEF Consistent


-----------------------------------------------------------------------------
(* Data and places                                                          *)
LEMMA ResizedIs ==
    ASSUME NEW s, TableFields \subseteq DOMAIN s, s.stream \in Nat, NEW m \in Nat,
           NEW x, x = Resized(s, m)
    PROVE  /\ DOMAIN x = DOMAIN s /\ SameKind(s, x) /\ x.size = m /\ x.stream \in Nat
           /\ x.entries = s.entries
<1>1. PICK stream : stream = IF elf.translated THEN s.stream ELSE m
  OBVIOUS
<1>2. stream \in Nat
  BY <1>1
<1>3. x = [s EXCEPT !.size = m, !.stream = stream]
  BY <1>1 DEF Resized
<1> QED BY <1>2, <1>3 DEF SameKind, TableFields, BufferFields, Placeable, PlaceFields

WithRoom(s, n) == [s EXCEPT !.cap = n, !.room = n]

LEMMA ReplacedIs ==
    ASSUME NEW s, TableFields \subseteq DOMAIN s, s.stream \in Nat, s.type # "nobits", NEW n \in Nat,
           NEW x \in Replaced(s, n)
    PROVE  /\ TableFields \subseteq DOMAIN x /\ SameKind(s, x) /\ x.entries = <<>>
           /\ x.size \in Nat /\ x.stream \in Nat
<1>1. PICK r : r = Resized(s, n)
  OBVIOUS
<1>2. PICK new : new = [r EXCEPT !.entries = <<>>, !.starved = FALSE]
  OBVIOUS
<1>3. PICK z : z = Resized(new, 0)
  OBVIOUS
<1>4. x = WithRoom(new, n) \/ x = WithRoom(z, 0)
  BY <1>1, <1>2, <1>3 DEF Replaced, WithRoom
<1>5. DOMAIN r = DOMAIN s /\ SameKind(s, r) /\ r.size = n /\ r.stream \in Nat
  BY <1>1, ResizedIs
<1>6. DOMAIN new = DOMAIN s /\ SameKind(s, new) /\ new.size = n /\ new.stream \in Nat /\ new.entries = <<>>
  BY <1>2, <1>5 DEF SameKind, TableFields, BufferFields, Placeable, PlaceFields
<1>7. DOMAIN z = DOMAIN s /\ SameKind(new, z) /\ z.size = 0 /\ z.stream \in Nat /\ z.entries = <<>>
  BY <1>3, <1>6, ResizedIs
<1>8. SameKind(s, z)
  BY <1>6, <1>7 DEF SameKind
<1>9. ASSUME NEW w, DOMAIN w = DOMAIN s, SameKind(s, w), w.size \in Nat, w.stream \in Nat, w.entries = <<>>,
             NEW m, x = WithRoom(w, m)
      PROVE  /\ TableFields \subseteq DOMAIN x /\ SameKind(s, x) /\ x.entries = <<>>
             /\ x.size \in Nat /\ x.stream \in Nat
  BY <1>9 DEF SameKind, TableFields, BufferFields, WithRoom, Placeable, PlaceFields
<1>10. CASE x = WithRoom(new, n)
  BY <1>6, <1>9, <1>10
<1>11. CASE x = WithRoom(z, 0)
  BY <1>7, <1>8, <1>9, <1>11
<1> QED BY <1>4, <1>10, <1>11

LEMMA DataCarries ==
    ASSUME TablesHold, NEW i \in Tables("progbits"), NEW n \in Chunks, SetData(i, n) \/ AppendData(i, n)
    PROVE  Carries
<1>1. n \in Nat
  BY ObjectAssumption
<1>2. /\ i \in 1..Len(sections) /\ sections[i].type = "progbits"
      /\ Tabular(sections[i], elf.translated) /\ TableFields \subseteq DOMAIN sections[i]
  BY Held, TabularFields DEF Tables, Fielded
<1>3. CASE SetData(i, n)
  <2>1. PICK x \in Replaced(sections[i], n) : sections' = Put(sections, i, x)
    BY <1>3 DEF SetData, Put
  <2>2. elf' = elf
    BY <1>3 DEF SetData
  <2>3. /\ TableFields \subseteq DOMAIN x /\ SameKind(sections[i], x) /\ x.entries = <<>>
        /\ x.size \in Nat /\ x.stream \in Nat
    BY <1>1, <1>2, <2>1, ReplacedIs DEF Tabular
  <2>4. Tabular(x, elf.translated)
    <3>1. \A S : <<>> \in Seq(S)
      OBVIOUS
    <3>2. x.entries \in Seq({x.entries[k] : k \in DOMAIN x.entries})
      BY <2>3, <3>1, Zenon
    <3>3. Measured(x)
      BY <1>2, <2>3 DEF Measured, SameKind
    <3> QED BY <1>2, <2>3, <3>2, <3>3 DEF Tabular, SameKind
  <2>5. /\ Longer(sections[i], x) /\ sections[i].type \notin Indexed /\ x.type \notin Linking
    BY <1>2, <2>3 DEF Longer, SameKind, Indexed, Linking
  <2>6. \A y : Means(x, y)
    BY <2>5, MeansNothing
  <2> QED BY <2>1, <2>2, <2>3, <2>4, <2>5, <2>6, PutCarries
<1>4. CASE AppendData(i, n)
  <2>1. CASE Crash
    BY <2>1, CrashCarries
  <2>2. ASSUME NEW t \in Appended(sections[i], n, n), sections' = [sections EXCEPT ![i] = t], elf' = elf
        PROVE  Carries
    <3>1. sections' = Put(sections, i, t)
      BY <2>2 DEF Put
    <3>2. Sized(sections[i], n, n) /\ \A k, y : Meant(sections[i].type, k, n, y)
      BY <1>1, <1>2 DEF Sized, Meant
    <3> QED BY <2>2, <3>1, <3>2, AppendCarries
  <2> QED BY <1>4, <2>1, <2>2 DEF AppendData, Faults
<1> QED BY <1>3, <1>4

LEMMA TablesShaped ==
    ASSUME TablesHold
    PROVE  Shaped
<1>1. \A i \in 1..Len(sections) : Buffered(sections[i])
  BY Held DEF TablesHold, Sound, BufferedList
<1>2. \A i \in 1..Len(sections) : Shape(sections[i])
  BY <1>1, Held DEF Tabular, Buffered, Shape
<1> QED BY <1>2, Held DEF Shaped

(* A section that changes places is another of its kind.                    *)
LEMMA PlaceCarries ==
    ASSUME TablesHold, NEW j \in 1..Len(sections), NEW x, sections' = Put(sections, j, x), elf' = elf,
           Placeable(x), DOMAIN x = DOMAIN sections[j],
           \A f \in TableFields \ {"addr", "addrSet", "offset"} : x[f] = sections[j][f]
    PROVE  Carries
<1>1. /\ x.type = sections[j].type /\ x.link = sections[j].link /\ x.entsize = sections[j].entsize
      /\ x.deflate = sections[j].deflate /\ x.name = sections[j].name
      /\ x.nameAt = sections[j].nameAt /\ x.entries = sections[j].entries
      /\ x.size = sections[j].size /\ x.stream = sections[j].stream
      /\ x.starved = sections[j].starved /\ x.room = sections[j].room
  BY DEF TableFields, BufferFields
<1> QED BY <1>1, DressedCarries DEF SameKind

LEMMA AddressCarries ==
    ASSUME TablesHold, NEW i \in 1..Len(sections), NEW a \in Addresses, SetAddress(i, a)
    PROVE  Carries
<1>1. TableFields \subseteq DOMAIN sections[i] /\ Placeable(sections[i])
  BY Held, TabularFields DEF Fielded
<1>2. PICK x : x = [sections[i] EXCEPT !.addr = a, !.addrSet = TRUE]
  OBVIOUS
<1>3. sections' = Put(sections, i, x) /\ elf' = elf
  BY <1>2 DEF Put, SetAddress
<1>4. a \in 0..WORD - 1
  BY LayoutAssumption
<1>5. DOMAIN x = DOMAIN sections[i] /\ Placeable(x)
  BY <1>1, <1>2, <1>4 DEF Placeable, TableFields, PlaceFields
<1>6. \A f \in TableFields \ {"addr", "addrSet", "offset"} : x[f] = sections[i][f]
  BY <1>1, <1>2
<1> QED BY <1>3, <1>5, <1>6, PlaceCarries

LEMMA PlacesCarry ==
    ASSUME TablesHold, Typed, PlaceMember \/ LooseSection
    PROVE  Carries
<1>0. Shaped
  BY TablesShaped
<1>a. \A j \in 1..Len(sections) : TableFields \subseteq DOMAIN sections[j] /\ Placeable(sections[j])
  BY Held, TabularFields DEF Fielded
<1>1. CASE sections' = sections /\ elf' = elf
  BY <1>1, StandStill
<1>2. CASE PlaceMember
  <2>1. PICK j : j = Segment.members[cur.member]
    OBVIOUS
  <2>2. PICK at : at = Plus(pos, Leave(j))
    OBVIOUS
  <2>3. /\ pc = "members" /\ turn <= Len(order) /\ j \in 1..Len(sections) /\ at \in 0..WORD - 1
    BY <1>0, <1>2, <2>1, <2>2, MemberIs
  <2>4. elf' = elf /\ (sections' = sections \/ sections' = [sections EXCEPT ![j] = Placed(@, at)])
    BY <1>2, <2>1, <2>2, Zenon DEF PlaceMember, client
  <2>5. PICK x : x = Placed(sections[j], at)
    OBVIOUS
  <2>6. DOMAIN x = DOMAIN sections[j] /\ Placeable(x)
    BY <1>0, <2>3, <2>5, PlacedIs
  <2>7. \A f \in TableFields \ {"addr", "addrSet", "offset"} : x[f] = sections[j][f]
    BY <1>a, <2>3, <2>5 DEF Placed
  <2>8. sections' = sections \/ sections' = Put(sections, j, x)
    BY <2>4, <2>5 DEF Put
  <2> QED BY <1>1, <2>3, <2>4, <2>6, <2>7, <2>8, PlaceCarries
<1>3. CASE LooseSection
  <2>1. PICK at : at = Plus(pos, Gap(pos, sections[turn].align))
    OBVIOUS
  <2>2. PICK x : x = [sections[turn] EXCEPT !.offset = at]
    OBVIOUS
  <2>3. turn \in 1..Len(sections) /\ pc = "loose"
    BY <1>3, Held DEF LooseSection, Typed, Saving, SaveSteps, Turns
  <2>4. elf' = elf /\ (sections' = sections \/ sections' = Put(sections, turn, x))
    BY <1>3, <2>1, <2>2 DEF LooseSection, client, Put
  <2>5. at \in 0..WORD - 1
    <3>1. pos \in Int /\ sections[turn].align \in Int
      BY <1>a, <2>3, WordIs DEF Typed, Spots, Placeable
    <3>2. PICK gap : gap = Gap(pos, sections[turn].align)
      OBVIOUS
    <3>3. gap \in Nat
      BY <3>1, <3>2, GapIs
    <3>4. gap \in Int
      BY <3>3
    <3>5. Plus(pos, gap) \in 0..WORD - 1
      BY <3>1, <3>4, WordsIn
    <3> QED BY <2>1, <3>2, <3>5
  <2>6. DOMAIN x = DOMAIN sections[turn] /\ Placeable(x)
    BY <1>a, <2>2, <2>3, <2>5 DEF Placeable, TableFields, PlaceFields
  <2>7. \A f \in TableFields \ {"addr", "addrSet", "offset"} : x[f] = sections[turn][f]
    BY <1>a, <2>2, <2>3
  <2> QED BY <1>1, <2>3, <2>4, <2>6, <2>7, PlaceCarries
<1> QED BY <1>2, <1>3


-----------------------------------------------------------------------------
(* Every step of the specification.  A new object starts with its own two   *)
(* tables, and no accessor; elsewhere sections only grow.                   *)
Fields == {"header", "strings", "translated"} \subseteq DOMAIN elf

LEMMA CreateHolds ==
    ASSUME TablesHold, Fields, Create
    PROVE  /\ Consistent(sections', elf'.header, elf'.strings, elf'.translated) /\ Fields'
           /\ Grows(sections, sections') \/ views' = <<>>
<1>1. CASE Crash
  BY <1>1, CrashCarries, Zenon DEF Carries, Fields
<1>2. CASE elf' = [elf EXCEPT !.header = TRUE, !.strings = 1] /\ sections' \in Mandatory /\ views' = <<>>
  <2>1. Consistent(sections', TRUE, 1, elf.translated)
    BY <1>2, MandatoryTables
  <2>2. elf'.header = TRUE /\ elf'.strings = 1 /\ elf'.translated = elf.translated /\ DOMAIN elf' = DOMAIN elf
    BY <1>2 DEF Fields
  <2>3. Fields'
    BY <2>2 DEF Fields
  <2>4. Consistent(sections', elf'.header, elf'.strings, elf'.translated)
    BY <2>1, <2>2, Zenon
  <2> QED BY <1>2, <2>3, <2>4
<1> QED BY <1>1, <1>2 DEF Create

LEMMA TableEditCarries ==
    ASSUME TablesHold, TableEdit
    PROVE  Carries
<1>1. CASE \E n \in Names, shape \in SectionShapes : AddSection(n, shape)
  BY <1>1, AddSectionCarries
<1>2. CASE \E t \in Tables("symtab"), n \in Names \ {""}, b \in {"local", "global"} :
              \E r \in {{}} \cup {{i} : i \in Linked(t)} : AddSymbol(t, n, b, r)
  <2>1. ASSUME NEW t \in Tables("symtab"), NEW n \in Names, NEW b, NEW r \in {{}} \cup {{i} : i \in Linked(t)},
               AddSymbol(t, n, b, r)
        PROVE  Carries
    <3>1. r \subseteq Linked(t)
      OBVIOUS
    <3> QED BY <2>1, <3>1, AddSymbolCarries
  <2> QED BY <1>2, <2>1, Zenon
<1>3. CASE \E r \in Tables("rel") : \E k \in 0..Len(sections[sections[r].link].entries) - 1 :
              \/ AddRelocation(r, k)
              \/ \E e \in 1..Len(sections[r].entries) : SetRelocation(r, e, k)
  <2>1. ASSUME NEW r \in Tables("rel"), NEW k \in 0..Len(sections[sections[r].link].entries) - 1,
               NEW e, AddRelocation(r, k) \/ SetRelocation(r, e, k)
        PROVE  Carries
    BY <2>1, RelocationCarries
  <2>2. PICK r \in Tables("rel") : \E k \in 0..Len(sections[sections[r].link].entries) - 1 :
              AddRelocation(r, k) \/ \E e : SetRelocation(r, e, k)
    BY <1>3, Zenon
  <2> QED BY <2>1, <2>2, Zenon
<1>4. CASE \E t \in Tables("symtab") : ArrangeBegin(t)
  BY <1>4, StandStill DEF ArrangeBegin
<1>5. CASE \E v \in 1..Len(views), n \in Names, d \in Descs : AddNote(v, n, d) \/ AddAttribute(v, n, d)
  BY <1>5, AddNoteCarries, AddAttributeCarries
<1>6. CASE \E v \in 1..Len(views) : AddVersion(v) \/ \E k \in 1..Len(views[v].seen) : ModifyVersion(v, k)
  <2>1. ASSUME NEW v, NEW k, AddVersion(v) \/ ModifyVersion(v, k)
        PROVE  Carries
    BY <2>1, VersionCarries
  <2> QED BY <1>6, <2>1
<1>7. CASE \E i \in Tables("array") : AddAddress(i)
  BY <1>7, AddAddressCarries
<1>8. CASE \E i \in Tables("dynamic"), n \in Names : AddDynamic(i, n)
  BY <1>8, AddDynamicCarries
<1> QED BY <1>1, <1>2, <1>3, <1>4, <1>5, <1>6, <1>7, <1>8 DEF TableEdit

LEMMA LayoutEditCarries ==
    ASSUME TablesHold, Typed, LayoutEdit
    PROVE  Carries
<1>1. CASE \E shape \in SegmentShapes : AddSegment(shape)
  BY <1>1, StandStill DEF AddSegment, Crash
<1>2. CASE \E g \in 1..Len(segments), i \in 2..Len(sections) : AddToSegment(g, i)
  BY <1>2, StandStill DEF AddToSegment
<1>3. CASE \E i \in Tables("progbits"), a \in Addresses : SetAddress(i, a)
  BY <1>3, AddressCarries DEF Tables
<1>4. CASE \E i \in Tables("progbits"), n \in Chunks : SetData(i, n) \/ AppendData(i, n)
  BY <1>4, DataCarries
<1> QED BY <1>1, <1>2, <1>3, <1>4 DEF LayoutEdit

LEMMA SaveCarries ==
    ASSUME TablesHold, Typed, SaveBegin \/ SaveStep
    PROVE  Carries
<1>1. CASE SaveBegin
  BY <1>1, StandStill DEF SaveBegin
<1>2. CASE SaveStep
  <2>1. CASE PlaceMember \/ LooseSection
    BY <2>1, PlacesCarry
  <2>2. CASE OrderStep \/ Ordered \/ EndSegment \/ SegmentsPlaced
    BY <2>2, StandStill DEF OrderStep, Ordered, EndSegment, SegmentsPlaced, Turn, core, client
  <2>3. CASE BeginSegment
    BY <2>3, StandStill DEF BeginSegment, Start, client
  <2>4. CASE PlaceTable \/ SaveHeader \/ SaveSection \/ SaveSegments
    BY <2>4, StandStill DEF PlaceTable, SaveHeader, SaveSection, SaveSegments, core, client
  <2> QED BY <1>2, <2>1, <2>2, <2>3, <2>4 DEF SaveStep
<1> QED BY <1>1, <1>2

(* arrange_local_symbols is alone while it lasts.                           *)
LEMMA ArrangesAlone ==
    ASSUME [Next]_vars
    PROVE  \/ ArrangeStep /\ UNCHANGED layout
           \/ \E t \in Tables("symtab") : ArrangeBegin(t) /\ UNCHANGED layout
           \/ pc # "arrange" /\ pc' # "arrange"
           \/ UNCHANGED vars
<1>1. CASE Create
  BY <1>1 DEF Create, Edit, Crash
<1>2. CASE TableEdit /\ UNCHANGED layout
  <2>1. CASE \E t \in Tables("symtab") : ArrangeBegin(t)
    BY <1>2, <2>1
  <2>2. CASE \E n \in Names, shape \in SectionShapes : AddSection(n, shape)
    BY <2>2 DEF AddSection, Edit, Crash, Faults
  <2>3. CASE \E t \in Tables("symtab"), n \in Names \ {""}, b \in {"local", "global"} :
                \E r \in {{}} \cup {{i} : i \in Linked(t)} : AddSymbol(t, n, b, r)
    BY <2>3 DEF AddSymbol, Edit, Crash, Faults
  <2>4. CASE \E r \in Tables("rel") : \E k \in 0..Len(sections[sections[r].link].entries) - 1 :
                \/ AddRelocation(r, k)
                \/ \E e \in 1..Len(sections[r].entries) : SetRelocation(r, e, k)
    BY <2>4 DEF AddRelocation, SetRelocation, Edit, Crash, Faults
  <2>5. CASE \E v \in 1..Len(views), n \in Names, d \in Descs : AddNote(v, n, d) \/ AddAttribute(v, n, d)
    BY <2>5 DEF AddNote, AddAttribute, AddItem, Edit, Crash, Faults
  <2>6. CASE \E v \in 1..Len(views) : AddVersion(v) \/ \E k \in 1..Len(views[v].seen) : ModifyVersion(v, k)
    BY <2>6 DEF AddVersion, ModifyVersion, AddItem, Edit, Crash, Faults
  <2>7. CASE \E i \in Tables("array") : AddAddress(i)
    BY <2>7 DEF AddAddress, Edit, Crash, Faults
  <2>8. CASE \E i \in Tables("dynamic"), n \in Names : AddDynamic(i, n)
    BY <2>8 DEF AddDynamic, Edit, Crash, Faults
  <2> QED BY <1>2, <2>1, <2>2, <2>3, <2>4, <2>5, <2>6, <2>7, <2>8 DEF TableEdit
<1>3. CASE Read
  BY <1>3 DEF Read, OpenList, CountDynamic, core
<1>4. CASE LayoutEdit
  BY <1>4 DEF LayoutEdit, AddSegment, AddToSegment, SetAddress, SetData, AppendData, Edit, Crash, Faults
<1>5. CASE SaveBegin
  BY <1>5 DEF SaveBegin
<1>6. CASE SaveStep
  <2>1. CASE PlaceMember \/ LooseSection
    BY <2>1 DEF PlaceMember, LooseSection, Return
  <2>2. CASE OrderStep \/ Ordered \/ EndSegment \/ SegmentsPlaced
    BY <2>2 DEF OrderStep, Ordered, EndSegment, SegmentsPlaced, Turn, core
  <2>3. CASE BeginSegment
    BY <2>3 DEF BeginSegment, Start
  <2>4. CASE PlaceTable \/ SaveHeader \/ SaveSection \/ SaveSegments
    BY <2>4 DEF PlaceTable, SaveHeader, SaveSection, SaveSegments, core, Return
  <2> QED BY <1>6, <2>1, <2>2, <2>3, <2>4 DEF SaveStep
<1> QED BY <1>1, <1>2, <1>3, <1>4, <1>5, <1>6 DEF Next

LEMMA NextCarries ==
    ASSUME TablesHold, Typed, Fields, Arranging, [Next]_vars
    PROVE  /\ TablesHold' /\ Fields' /\ Arranging'
           /\ Grows(sections, sections') \/ views' = <<>>
<1>1. ASSUME Carries
      PROVE  /\ Consistent(sections', elf'.header, elf'.strings, elf'.translated) /\ Fields'
             /\ Grows(sections, sections')
  BY <1>1 DEF Carries, Fields
<1>2. /\ Consistent(sections', elf'.header, elf'.strings, elf'.translated) /\ Fields'
      /\ Grows(sections, sections') \/ views' = <<>>
  <2>1. CASE UNCHANGED vars
    BY <1>1, <2>1, StandStill DEF vars, core
  <2>2. CASE Create
    BY <2>2, CreateHolds
  <2>3. CASE TableEdit
    BY <1>1, <2>3, TableEditCarries
  <2>4. CASE ArrangeStep
    BY <1>1, <2>4, ArrangeCarries
  <2>5. CASE Read
    BY <1>1, <2>5, StandStill DEF Read, OpenList, CountDynamic, core
  <2>6. CASE LayoutEdit
    BY <1>1, <2>6, LayoutEditCarries
  <2>7. CASE SaveBegin \/ SaveStep
    BY <1>1, <2>7, SaveCarries
  <2> QED BY <2>1, <2>2, <2>3, <2>4, <2>5, <2>6, <2>7 DEF Next
<1>3. TablesHold'
  BY <1>2, NextKeeps DEF TablesHold
<1>4. Arranging'
  <2>1. CASE ArrangeStep
    BY <2>1, ArrangeCarries
  <2>2. CASE \E t \in Tables("symtab") : ArrangeBegin(t)
    <3>1. PICK t \in Tables("symtab") : ArrangeBegin(t)
      BY <2>2
    <3>2. job' = [table |-> t, first |-> 1] /\ sections' = sections /\ t \in Nat
      BY <3>1, Held DEF ArrangeBegin, Tables
    <3>3. LocalTo(sections[t].entries, 1)
      BY DEF LocalTo
    <3> QED BY <3>1, <3>2, <3>3 DEF Arranging, Tables
  <2>3. CASE pc' # "arrange"
    BY <2>3 DEF Arranging
  <2>4. CASE UNCHANGED vars
    BY <2>4 DEF Arranging, vars, core, tables, Tables
  <2> QED BY <2>1, <2>2, <2>3, <2>4, ArrangesAlone
<1> QED BY <1>2, <1>3, <1>4


-----------------------------------------------------------------------------
(* What an accessor finds                                                   *)
LEMMA FirstEntriesIs ==
    ASSUME NEW n \in Nat
    PROVE  /\ FirstEntries(n) \in Seq(Nat) /\ Len(FirstEntries(n)) = n
           /\ \A k \in 1..n : FirstEntries(n)[k] = k
  BY DEF FirstEntries

(* Stepping over the notes, an accessor comes to each of them.              *)
LEMMA NotesFound ==
    ASSUME NEW s, NEW tr, Tabular(s, tr), s.type = "note", s.room \in Nat, Whole(s)
    PROVE  NotesIn(s) = FirstEntries(Len(s.entries)) /\ (s.room > 0 \/ Len(s.entries) = 0)
<1> DEFINE n == Len(s.entries)
           Found(k) == LET e == s.entries[k]
                       IN  e.at = NoteStart(s, k) /\ e.namesz < s.size /\ e.descsz < s.size
                           /\ NoteStart(s, k + 1) <= s.size
           all == {k \in 0..n : \A j \in 1..k : Found(j)}
<1>1. n \in Nat /\ s.size \in Nat
  BY TabularFields
<1>2. /\ s.size = NoteEnd(s, n)
      /\ \A k \in 1..n : /\ s.entries[k].namesz \in Nat /\ s.entries[k].descsz \in Nat
                         /\ s.entries[k].at \in Nat /\ s.entries[k].at = NoteEnd(s, k - 1)
                         /\ NoteEnd(s, k) <= s.size
  BY DEF Tabular, Measured
<1>3. ASSUME NEW k \in 1..n
      PROVE  /\ NoteEnd(s, k) = s.entries[k].at + NoteBytes(s.entries[k])
             /\ NoteBytes(s.entries[k]) \in Nat
             /\ NoteBytes(s.entries[k]) > s.entries[k].namesz /\ NoteBytes(s.entries[k]) > s.entries[k].descsz
             /\ NoteStart(s, k + 1) = NoteEnd(s, k)
  <2>1. NoteEnd(s, k) = s.entries[k].at + NoteBytes(s.entries[k])
    BY <1>1 DEF NoteEnd
  <2>2. /\ NoteBytes(s.entries[k]) \in Nat
        /\ NoteBytes(s.entries[k]) > s.entries[k].namesz /\ NoteBytes(s.entries[k]) > s.entries[k].descsz
        /\ Advance(s.entries[k]) = NoteBytes(s.entries[k])
    BY <1>2, NoteBytesNat
  <2>3. k + 1 # 1 /\ (k + 1) - 1 = k
    BY <1>1
  <2>4. NoteStart(s, k + 1) = s.entries[k].at + Advance(s.entries[k])
    BY <2>3 DEF NoteStart
  <2> QED BY <2>1, <2>2, <2>4
<1>4. ASSUME NEW k \in 1..n
      PROVE  NoteStart(s, k) = NoteEnd(s, k - 1)
  <2>1. CASE k = 1
    BY <2>1 DEF NoteStart, NoteEnd
  <2>2. CASE k # 1
    <3>1. k - 1 \in 1..n /\ (k - 1) + 1 = k
      BY <1>1, <2>2
    <3> QED BY <1>3, <3>1
  <2> QED BY <2>1, <2>2
<1>5. ASSUME NEW k \in 1..n
      PROVE  Found(k)
  <2>1. s.entries[k].at = NoteStart(s, k)
    BY <1>2, <1>4
  <2>2. s.entries[k].namesz < s.size /\ s.entries[k].descsz < s.size /\ NoteStart(s, k + 1) <= s.size
    <3>1. /\ s.entries[k].at \in Nat /\ NoteEnd(s, k) <= s.size
          /\ s.entries[k].namesz \in Nat /\ s.entries[k].descsz \in Nat
      BY <1>2
    <3>2. /\ NoteEnd(s, k) = s.entries[k].at + NoteBytes(s.entries[k])
          /\ NoteBytes(s.entries[k]) \in Nat /\ NoteStart(s, k + 1) = NoteEnd(s, k)
          /\ NoteBytes(s.entries[k]) > s.entries[k].namesz /\ NoteBytes(s.entries[k]) > s.entries[k].descsz
      BY <1>3
    <3> HIDE DEF n
    <3> QED BY <1>1, <3>1, <3>2
  <2> QED BY <2>1, <2>2
<1> HIDE DEF Found
<1>6. n \in all /\ all \subseteq 0..n
  BY <1>1, <1>5
<1>7. Max(all) = n
  <2> HIDE DEF all
  <2>1. all # {}
    BY <1>6
  <2>2. Max(all) \in all /\ \A y \in all : y <= Max(all)
    BY <1>1, <1>6, <2>1, MaxIs, Zenon
  <2>3. PICK m : m = Max(all)
    OBVIOUS
  <2>4. m \in 0..n /\ n <= m
    BY <1>6, <2>2, <2>3, Zenon
  <2> QED BY <1>1, <2>3, <2>4
<1>8. NotesIn(s) = FirstEntries(n)
  <2>1. NotesIn(s) = FirstEntries(Max(all))
    BY DEF NotesIn, Found
  <2> QED BY <1>7, <2>1, Zenon
<1>9. n # 0 => s.size > 0
  <2>1. n # 0 => n \in 1..n
    BY <1>1
  <2> QED BY <1>1, <1>2, <1>3, <2>1
<1>10. s.room > 0 \/ n = 0
  BY <1>1, <1>9 DEF Whole, Lost
<1> QED BY <1>8, <1>10, Zenon

LEMMA AttributesFound ==
    ASSUME NEW s, NEW tr, Tabular(s, tr), s.room \in Nat, Whole(s), s.type = "modinfo"
    PROVE  /\ AttributesIn(s) = FirstEntries(Len(s.entries))
           /\ s.room > 0 \/ Len(s.entries) = 0
<1> DEFINE n == Len(s.entries)
           Begins(k) == LET e == s.entries[k]
                            before == s.entries[k - 1]
                        IN  e.at < s.size /\ (k = 1 \/ before.at + before.length < e.at)
<1>1. n \in Nat /\ s.size \in Nat
  BY TabularFields
<1>2. \A k \in 1..n : /\ s.entries[k].at \in Nat /\ s.entries[k].length \in Nat \ {0}
                      /\ AttributeEnd(s, k - 1) <= s.entries[k].at /\ AttributeEnd(s, k) <= s.size
  BY DEF Tabular, Measured
<1>3. ASSUME NEW k \in 1..n PROVE Begins(k)
  <2>1. s.entries[k].at < s.size
    <3>1. AttributeEnd(s, k) = s.entries[k].at + s.entries[k].length + 1
      BY <1>1 DEF AttributeEnd
    <3> QED BY <1>1, <1>2, <3>1
  <2>2. ASSUME k # 1
        PROVE  s.entries[k - 1].at + s.entries[k - 1].length < s.entries[k].at
    <3>1. k - 1 \in 1..n /\ k - 1 # 0
      BY <1>1, <2>2
    <3>2. AttributeEnd(s, k - 1) = s.entries[k - 1].at + s.entries[k - 1].length + 1
      BY <3>1 DEF AttributeEnd
    <3> QED BY <1>2, <3>1, <3>2
  <2> QED BY <2>1, <2>2
<1>4. {k \in 1..n : Begins(k)} = 1..n
  BY <1>3
<1>5. Cardinality(1..n) = n
  BY <1>1, FS_Interval
<1>6. AttributesIn(s) = FirstEntries(Cardinality({k \in 1..n : Begins(k)}))
  BY DEF AttributesIn
<1>7. s.room > 0 \/ n = 0
  <2>1. n # 0 => s.size > 0
    <3>1. ASSUME n # 0 PROVE s.size > 0
      <4>1. 1 \in 1..n
        BY <1>1, <3>1
      <4>2. s.entries[1].at \in Nat /\ s.entries[1].at < s.size
        BY <1>2, <1>3, <4>1
      <4> QED BY <1>1, <4>2
    <3> QED BY <3>1
  <2> QED BY <1>1, <2>1 DEF Whole, Lost
<1> HIDE DEF Begins
<1> QED BY <1>4, <1>5, <1>6, <1>7

(* However many bytes a section has, its attributes are counted.            *)
LEMMA AttributesCounted ==
    ASSUME NEW s, Len(s.entries) \in Nat
    PROVE  \E n \in Nat : AttributesIn(s) = FirstEntries(n)
<1> DEFINE Begins(k) == LET e == s.entries[k]
                            before == s.entries[k - 1]
                        IN  e.at < s.size /\ (k = 1 \/ before.at + before.length < e.at)
           all == {k \in 1..Len(s.entries) : Begins(k)}
<1>1. AttributesIn(s) = FirstEntries(Cardinality(all))
  BY DEF AttributesIn
<1> HIDE DEF Begins
<1>2. all \subseteq 1..Len(s.entries) /\ IsFiniteSet(1..Len(s.entries))
  BY FS_Interval
<1>3. Cardinality(all) \in Nat
  BY <1>2, FS_Subset, FS_CardinalityType
<1> QED BY <1>1, <1>3

LEMMA OpenedAll ==
    ASSUME NEW s, NEW tr, Tabular(s, tr), s.room \in Nat, Whole(s),
           s.type \in {"note", "versym", "modinfo"}
    PROVE  Opened(s) = FirstEntries(Len(s.entries))
<1>1. Len(s.entries) \in Nat
  BY TabularFields
<1>2. CASE s.type = "note"
  <2>1. Opened(s) = IF s.room > 0 THEN NotesIn(s) ELSE <<>>
    BY <1>2 DEF Opened
  <2>2. FirstEntries(0) = <<>>
    BY DEF FirstEntries
  <2>3. NotesIn(s) = FirstEntries(Len(s.entries)) /\ (s.room > 0 \/ Len(s.entries) = 0)
    BY <1>2, NotesFound
  <2> QED BY <2>1, <2>2, <2>3, Zenon
<1>3. CASE s.type = "versym"
  <2>1. s.size \div VERSYM = Len(s.entries)
    <3>1. s.size = VERSYM * Len(s.entries)
      BY <1>3 DEF Tabular, Measured
    <3> QED BY <1>1, <3>1, Divided
  <2>2. Opened(s) = FirstEntries(s.size \div VERSYM)
    BY <1>3 DEF Opened
  <2> QED BY <2>1, <2>2, Zenon
<1>4. CASE s.type = "modinfo"
  <2>1. Opened(s) = IF s.room > 0 THEN AttributesIn(s) ELSE <<>>
    BY <1>4 DEF Opened
  <2>2. FirstEntries(0) = <<>>
    BY DEF FirstEntries
  <2>3. AttributesIn(s) = FirstEntries(Len(s.entries)) /\ (s.room > 0 \/ Len(s.entries) = 0)
    BY <1>4, AttributesFound
  <2> QED BY <2>1, <2>2, <2>3, Zenon
<1> QED BY <1>2, <1>3, <1>4

LEMMA OpenedIs ==
    ASSUME NEW s, NEW tr, Tabular(s, tr), s.room \in Nat, s.type \in Lists
    PROVE  /\ Opened(s) \in Seq(Nat)
           /\ Whole(s) => /\ Len(Opened(s)) <= Len(s.entries)
                          /\ \A k \in 1..Len(Opened(s)) : Opened(s)[k] <= Len(s.entries)
<1>1. Len(s.entries) \in Nat /\ s.size \in Nat
  BY TabularFields
<1>2. CASE s.type = "dynamic"
  <2>1. Opened(s) = <<>>
    BY <1>2 DEF Opened
  <2> QED BY <1>1, <2>1
<1>3. CASE s.type # "dynamic"
  <2>1. s.type \in {"note", "versym", "modinfo"}
    BY <1>3 DEF Lists
  <2>2. ASSUME Whole(s)
        PROVE  /\ Opened(s) \in Seq(Nat) /\ Len(Opened(s)) <= Len(s.entries)
               /\ \A k \in 1..Len(Opened(s)) : Opened(s)[k] <= Len(s.entries)
    <3>1. Opened(s) = FirstEntries(Len(s.entries))
      BY <2>1, <2>2, OpenedAll
    <3>2. /\ FirstEntries(Len(s.entries)) \in Seq(Nat) /\ Len(FirstEntries(Len(s.entries))) = Len(s.entries)
          /\ \A k \in 1..Len(s.entries) : FirstEntries(Len(s.entries))[k] = k
      BY <1>1, FirstEntriesIs
    <3> QED BY <1>1, <3>1, <3>2
  <2>3. Opened(s) \in Seq(Nat)
    <3>1. \A n \in Nat : FirstEntries(n) \in Seq(Nat)
      BY FirstEntriesIs
    <3>2. <<>> \in Seq(Nat)
      OBVIOUS
    <3>3. NotesIn(s) \in Seq(Nat)
      <4> DEFINE Found(k) == LET e == s.entries[k]
                             IN  e.at = NoteStart(s, k) /\ e.namesz < s.size /\ e.descsz < s.size
                                 /\ NoteStart(s, k + 1) <= s.size
                 all == {k \in 0..Len(s.entries) : \A j \in 1..k : Found(j)}
      <4> HIDE DEF Found
      <4>1. 0 \in all /\ all \subseteq 0..Len(s.entries)
        BY <1>1
      <4> HIDE DEF all
      <4>2. Max(all) \in Nat
        <5>1. all # {}
          BY <4>1
        <5>2. Max(all) \in all
          BY <1>1, <4>1, <5>1, MaxIs, Zenon
        <5>3. \A m \in all : m \in Nat
          BY <1>1, <4>1
        <5> QED BY <5>2, <5>3, Zenon
      <4>3. NotesIn(s) = FirstEntries(Max(all))
        BY DEF NotesIn, Found, all
      <4> QED BY <3>1, <4>2, <4>3
    <3>4. s.size \div VERSYM \in Nat
      BY <1>1 DEF VERSYM
    <3>5. CASE s.type = "note"
      <4>1. Opened(s) = IF s.room > 0 THEN NotesIn(s) ELSE <<>>
        BY <3>5 DEF Opened
      <4> QED BY <3>2, <3>3, <4>1, Zenon
    <3>6. CASE s.type = "versym"
      BY <3>1, <3>4, <3>6 DEF Opened
    <3>7. CASE s.type = "modinfo"
      <4>1. Opened(s) = IF s.room > 0 THEN AttributesIn(s) ELSE <<>>
        BY <3>7 DEF Opened
      <4>2. AttributesIn(s) \in Seq(Nat)
        BY <1>1, <3>1, AttributesCounted, Zenon
      <4> QED BY <3>2, <4>1, <4>2, Zenon
    <3> QED BY <2>1, <3>5, <3>6, <3>7
  <2> QED BY <2>2, <2>3
<1> QED BY <1>2, <1>3

LEMMA DynamicIs ==
    ASSUME NEW s, NEW tr, Tabular(s, tr), s.room \in Nat, s.type = "dynamic"
    PROVE  /\ DynamicIn(s) \in Seq(Nat)
           /\ Whole(s) => \A k \in 1..Len(DynamicIn(s)) : DynamicIn(s)[k] <= Len(s.entries)
           /\ Whole(s) /\ s.entsize = DYN
                /\ (\A k \in 1..Len(s.entries) - 1 : s.entries[k].tag # "null") =>
                    DynamicIn(s) = FirstEntries(Len(s.entries))
<1> DEFINE l == Len(s.entries)
           c == s.size \div s.entsize
           n == IF s.entsize >= DYN THEN c ELSE 0
           stops == {n} \cup {k \in 1..n : TagAt(s, k) = "null"}
<1>1. s.size \in Nat /\ s.entsize \in Nat /\ l \in Nat
  BY TabularFields DEF Fielded
<1>2. Whole(s) => s.size = DYN * l
  BY DEF Tabular, Measured
<1>3. s.entsize >= DYN => c \in Nat /\ s.entsize * c <= s.size
  BY <1>1 DEF DYN
<1>4. s.entsize >= DYN => DYN * c <= s.entsize * c
  BY <1>1, <1>3 DEF DYN
<1>5. s.entsize >= DYN => DYN * c <= s.size
  <2> HIDE DEF c
  <2>1. \A x, y, z \in Int : x <= y /\ y <= z => x <= z
    OBVIOUS
  <2>2. s.entsize >= DYN => DYN * c \in Int /\ s.entsize * c \in Int
    BY <1>1, <1>3 DEF DYN
  <2> QED BY <1>1, <1>3, <1>4, <2>1, <2>2
<1>6. Whole(s) /\ s.entsize >= DYN => c <= l
  <2> HIDE DEF c
  <2> QED BY <1>1, <1>2, <1>3, <1>5 DEF DYN
<1>7. Whole(s) /\ s.entsize = DYN => c = l
  BY <1>1, <1>2, Divided
<1> HIDE DEF c
<1>8. n \in Nat /\ (Whole(s) => n <= l)
  BY <1>1, <1>3, <1>6
<1>9. Whole(s) /\ s.entsize = DYN => n = l
  BY <1>7 DEF DYN
<1>10. DynamicIn(s) = FirstEntries(Min(stops))
  BY DEF DynamicIn, c
<1> HIDE DEF n
<1>11. stops \subseteq Nat /\ stops # {} /\ n \in stops
  BY <1>8
<1>12. Min(stops) \in stops /\ \A y \in stops : Min(stops) <= y
  BY <1>11, MinIs
<1>13. PICK m : m = Min(stops)
  OBVIOUS
<1>14. m \in stops /\ m \in Nat /\ m <= n
  BY <1>11, <1>12, <1>13
<1>15. /\ FirstEntries(m) \in Seq(Nat) /\ Len(FirstEntries(m)) = m
       /\ \A k \in 1..m : FirstEntries(m)[k] = k
  BY <1>14, FirstEntriesIs
<1>16. DynamicIn(s) = FirstEntries(m)
  BY <1>10, <1>13
<1>17. Whole(s) => \A k \in 1..m : k <= l
  BY <1>1, <1>8, <1>14
<1>18. ASSUME Whole(s), s.entsize = DYN, \A k \in 1..l - 1 : s.entries[k].tag # "null"
       PROVE  m = l
  <2>1. n = l
    BY <1>9, <1>18
  <2>2. CASE m # n
    <3>1. m \in 1..l /\ TagAt(s, m) = "null" /\ m \in 1..l - 1
      BY <1>1, <1>14, <2>1, <2>2
    <3>2. s.size > 0
      BY <1>1, <1>2, <1>18, <3>1 DEF DYN
    <3>3. TagAt(s, m) = s.entries[m].tag
      BY <1>18, <3>2 DEF TagAt, Whole, Lost
    <3> QED BY <1>18, <3>1, <3>3
  <2> QED BY <2>1, <2>2
<1> HIDE DEF stops
<1>19. Whole(s) => \A k \in 1..Len(DynamicIn(s)) : DynamicIn(s)[k] <= l
  BY <1>15, <1>16, <1>17
<1>20. Whole(s) /\ s.entsize = DYN /\ (\A k \in 1..l - 1 : s.entries[k].tag # "null") =>
            DynamicIn(s) = FirstEntries(l)
  BY <1>16, <1>18, Zenon
<1> QED BY <1>15, <1>16, <1>19, <1>20, Zenon

-----------------------------------------------------------------------------
(* Open accessors go on counting entries their sections have.               *)
Viewed(w, all) ==
    /\ w.sec \in 1..Len(all) /\ all[w.sec].type \in Lists
    /\ w.seen \in Seq(Nat)
    /\ Whole(all[w.sec]) =>
        /\ \A k \in 1..Len(w.seen) : w.seen[k] <= Len(all[w.sec].entries)
        /\ all[w.sec].type = "versym" => Len(w.seen) <= Len(all[w.sec].entries)

View(i, seen) == [sec |-> i, seen |-> seen]

ViewsHold ==
    /\ views \in Seq(Elements(views))
    /\ \A v \in 1..Len(views) : Viewed(views[v], sections) /\ DOMAIN views[v] = {"sec", "seen"}

LEMMA ViewGrows ==
    ASSUME NEW w, NEW all, NEW new, Viewed(w, all), Grows(all, new),
           Len(all) \in Nat, Len(new) \in Nat,
           \A i \in 1..Len(all) : Len(all[i].entries) \in Nat,
           \A i \in 1..Len(new) : Len(new[i].entries) \in Nat
    PROVE  Viewed(w, new)
<1> DEFINE i == w.sec
<1>1. i \in 1..Len(all) /\ i \in 1..Len(new) /\ Longer(all[i], new[i])
  BY DEF Viewed, Grows
<1>2. new[i].type = all[i].type /\ all[i].type # "progbits"
  BY <1>1 DEF Viewed, Longer, Lists
<1>3. Whole(new[i]) => Whole(all[i]) /\ Len(all[i].entries) <= Len(new[i].entries)
  BY <1>1, <1>2 DEF Longer
<1>4. Len(all[i].entries) \in Nat /\ Len(new[i].entries) \in Nat
  BY <1>1
<1>5. w.seen \in Seq(Nat) /\ \A k \in 1..Len(w.seen) : w.seen[k] \in Nat
  BY DEF Viewed
<1>6. ASSUME Whole(new[i]), NEW k \in 1..Len(w.seen)
      PROVE  w.seen[k] <= Len(new[i].entries)
  <2>1. w.seen[k] <= Len(all[i].entries)
    BY <1>3, <1>6 DEF Viewed
  <2>2. \A x, y, z \in Nat : x <= y /\ y <= z => x <= z
    OBVIOUS
  <2>3. w.seen[k] \in Nat /\ Len(all[i].entries) <= Len(new[i].entries)
    BY <1>3, <1>5, <1>6
  <2> QED BY <1>4, <2>1, <2>2, <2>3, Zenon
<1>7. Whole(new[i]) /\ new[i].type = "versym" => Len(w.seen) <= Len(new[i].entries)
  BY <1>2, <1>3, <1>4, <1>5 DEF Viewed
<1> QED BY <1>1, <1>2, <1>5, <1>6, <1>7 DEF Viewed

LEMMA HeldNext ==
    TablesHold' => /\ Len(sections') \in Nat
                   /\ \A i \in 1..Len(sections') : Len(sections'[i].entries) \in Nat
<1> SUFFICES ASSUME TablesHold'
             PROVE  /\ Len(sections') \in Nat
                    /\ \A i \in 1..Len(sections') : Len(sections'[i].entries) \in Nat
  OBVIOUS
<1>1. /\ BufferedList(sections')
      /\ Consistent(sections', elf'.header, elf'.strings, elf'.translated)
  BY DEF TablesHold, Sound
<1>2. Len(sections') \in Nat
  BY <1>1, ListDomain DEF BufferedList, Elements
<1>3. \A i \in 1..Len(sections') : Tabular(sections'[i], elf'.translated)
  BY <1>1 DEF Consistent
<1> QED BY <1>2, <1>3, TabularFields

LEMMA ViewsGrow ==
    ASSUME TablesHold, TablesHold', ViewsHold, Grows(sections, sections'), views' = views
    PROVE  ViewsHold'
<1>1. /\ Len(sections) \in Nat /\ \A i \in 1..Len(sections) : Len(sections[i].entries) \in Nat
      /\ Len(sections') \in Nat /\ \A i \in 1..Len(sections') : Len(sections'[i].entries) \in Nat
  BY Held, HeldNext
<1>2. \A v \in 1..Len(views) : Viewed(views[v], sections')
  BY <1>1, ViewGrows DEF ViewsHold
<1> QED BY <1>2 DEF ViewsHold, Elements, Viewed

(* What AddItem does to the section, if it is whole afterwards              *)
LEMMA ItemAdded ==
    ASSUME TablesHold, NEW v, NEW type \in Lists, NEW bytes \in Nat, NEW e, NEW seen,
           views[v].sec \in 1..Len(sections), AddItem(v, type, bytes, e, seen),
           Whole(sections'[views[v].sec])
    PROVE  /\ Whole(sections[views[v].sec])
           /\ Len(sections'[views[v].sec].entries) = Len(sections[views[v].sec].entries) + 1
<1> DEFINE i == views[v].sec
           s == sections[i]
<1>1. s.type = type /\ type # "nobits" /\ Tabular(s, elf.translated) /\ Fielded(s)
  BY Held, TabularFields DEF AddItem, Lists
<1>2. CASE Faults({i})
  <2>1. sections' = sections /\ (Lost(s) \/ s.starved)
    BY <1>2 DEF Faults, Crash
  <2> QED BY <2>1 DEF Whole
<1>3. ASSUME NEW t \in Appended(s, bytes, e), sections' = [sections EXCEPT ![i] = t]
      PROVE  Whole(s) /\ Len(sections'[i].entries) = Len(s.entries) + 1
  <2>1. sections'[i] = t
    BY <1>3, Held
  <2>2. Whole(t)
    BY <2>1
  <2> HIDE DEF s
  <2>3. Whole(s) /\ t.entries = Append(s.entries, e)
    BY <1>1, <1>3, <2>2, AppendedIs
  <2>4. Len(t.entries) = Len(s.entries) + 1
    BY <1>1, <2>3, AppendEntry DEF Fielded
  <2> QED BY <2>1, <2>3, <2>4
<1> QED BY <1>2, <1>3 DEF AddItem

LEMMA AddItemViews ==
    ASSUME TablesHold, TablesHold', ViewsHold, Grows(sections, sections'),
           NEW v \in 1..Len(views), NEW type \in Lists, NEW bytes \in Nat, NEW e, NEW seen \in Nat,
           AddItem(v, type, bytes, e, seen),
           \/ seen <= Len(sections[views[v].sec].entries) + 1
           \/ type = "versym" /\ seen = Len(views[v].seen) + 1
    PROVE  ViewsHold'
<1> DEFINE w == views[v]
           i == w.sec
           x == [w EXCEPT !.seen = Append(@, seen)]
<1>1. /\ Len(sections) \in Nat /\ \A j \in 1..Len(sections) : Len(sections[j].entries) \in Nat
      /\ Len(sections') \in Nat /\ \A j \in 1..Len(sections') : Len(sections'[j].entries) \in Nat
  BY Held, HeldNext
<1>2. \A u \in 1..Len(views) : Viewed(views[u], sections')
  BY <1>1, ViewGrows DEF ViewsHold
<1>3. Viewed(w, sections) /\ Viewed(w, sections') /\ DOMAIN w = {"sec", "seen"} /\ sections[i].type = type
  BY <1>2 DEF ViewsHold, AddItem
<1>4. /\ views \in Seq(Elements(views)) /\ Len(views) \in Nat /\ DOMAIN views = 1..Len(views)
  BY ListDomain DEF ViewsHold
<1>5. views' = Put(views, v, x)
  BY DEF AddItem, Put
<1>6. /\ views' \in Seq(Elements(views')) /\ Len(views') = Len(views)
      /\ views'[v] = x /\ \A u \in 1..Len(views) : u # v => views'[u] = views[u]
  BY <1>4, <1>5, ReplaceEntry DEF Put
<1>7. x.sec = i /\ x.seen = Append(w.seen, seen) /\ DOMAIN x = {"sec", "seen"}
  BY <1>3
<1> HIDE DEF x, w
<1>8. /\ w.seen \in Seq(Nat) /\ x.seen \in Seq(Nat) /\ Len(x.seen) = Len(w.seen) + 1 /\ Len(w.seen) \in Nat
      /\ x.seen[Len(w.seen) + 1] = seen /\ \A k \in 1..Len(w.seen) : x.seen[k] = w.seen[k] /\ w.seen[k] \in Nat
  BY <1>3, <1>7 DEF Viewed
<1>9. i \in 1..Len(sections) /\ i \in 1..Len(sections') /\ sections'[i].type = sections[i].type
  BY <1>3, <1>1 DEF Viewed, Grows, Longer
<1>10. ASSUME Whole(sections'[i])
       PROVE  /\ \A k \in 1..Len(x.seen) : x.seen[k] <= Len(sections'[i].entries)
              /\ sections'[i].type = "versym" => Len(x.seen) <= Len(sections'[i].entries)
  <2>1. Whole(sections[i]) /\ Len(sections'[i].entries) = Len(sections[i].entries) + 1
    BY <1>9, <1>10, ItemAdded DEF w
  <2>2. Len(sections[i].entries) \in Nat
    BY <1>1, <1>9
  <2>3. /\ \A k \in 1..Len(w.seen) : w.seen[k] <= Len(sections[i].entries)
        /\ type = "versym" => Len(w.seen) <= Len(sections[i].entries)
    BY <1>3, <2>1 DEF Viewed
  <2>4. seen <= Len(sections[i].entries) + 1
    BY <1>8, <2>2, <2>3 DEF w
  <2>5. ASSUME NEW k \in 1..Len(x.seen)
        PROVE  x.seen[k] <= Len(sections[i].entries) + 1
    <3>1. CASE k = Len(w.seen) + 1
      BY <1>8, <2>4, <3>1
    <3>2. CASE k # Len(w.seen) + 1
      <4>1. k \in 1..Len(w.seen)
        BY <1>8, <2>5, <3>2
      <4>2. x.seen[k] \in Nat /\ x.seen[k] <= Len(sections[i].entries)
        BY <1>8, <2>3, <4>1
      <4>3. \A a, b \in Nat : a <= b => a <= b + 1
        OBVIOUS
      <4> QED BY <2>2, <4>2, <4>3, Zenon
    <3> QED BY <3>1, <3>2
  <2>6. type = "versym" => Len(x.seen) <= Len(sections[i].entries) + 1
    BY <1>8, <2>2, <2>3
  <2> QED BY <1>3, <1>9, <2>1, <2>5, <2>6
<1>11. Viewed(x, sections')
  BY <1>3, <1>7, <1>8, <1>9, <1>10 DEF Viewed
<1>12. \A u \in 1..Len(views') : Viewed(views'[u], sections') /\ DOMAIN views'[u] = {"sec", "seen"}
  BY <1>2, <1>6, <1>7, <1>11 DEF ViewsHold
<1> QED BY <1>6, <1>12 DEF ViewsHold, Elements, Viewed

LEMMA ViewsChange ==
    ASSUME [Next]_vars
    PROVE  \/ views' = views \/ views' = <<>>
           \/ \E v \in 1..Len(views), n \in Names, d \in Descs : AddNote(v, n, d) \/ AddAttribute(v, n, d)
           \/ \E v \in 1..Len(views) : AddVersion(v)
           \/ Read /\ UNCHANGED layout
<1>1. CASE Create
  BY <1>1 DEF Create
<1>2. CASE TableEdit
  <2>1. CASE \E t \in Tables("symtab") : ArrangeBegin(t)
    BY <2>1 DEF ArrangeBegin
  <2>2. CASE \E n \in Names, shape \in SectionShapes : AddSection(n, shape)
    BY <2>2 DEF AddSection, tables
  <2>3. CASE \E t \in Tables("symtab"), n \in Names \ {""}, b \in {"local", "global"} :
                \E r \in {{}} \cup {{i} : i \in Linked(t)} : AddSymbol(t, n, b, r)
    BY <2>3 DEF AddSymbol, tables
  <2>4. CASE \E r \in Tables("rel") : \E k \in 0..Len(sections[sections[r].link].entries) - 1 :
                \/ AddRelocation(r, k)
                \/ \E e \in 1..Len(sections[r].entries) : SetRelocation(r, e, k)
    BY <2>4 DEF AddRelocation, SetRelocation, tables
  <2>5. CASE \E v \in 1..Len(views), n \in Names, d \in Descs : AddNote(v, n, d) \/ AddAttribute(v, n, d)
    BY <2>5
  <2>6. CASE \E v \in 1..Len(views) : AddVersion(v) \/ \E k \in 1..Len(views[v].seen) : ModifyVersion(v, k)
    BY <2>6 DEF ModifyVersion, tables
  <2>7. CASE \E i \in Tables("array") : AddAddress(i)
    BY <2>7 DEF AddAddress, tables
  <2>8. CASE \E i \in Tables("dynamic"), n \in Names : AddDynamic(i, n)
    BY <2>8 DEF AddDynamic, tables
  <2> QED BY <1>2, <2>1, <2>2, <2>3, <2>4, <2>5, <2>6, <2>7, <2>8 DEF TableEdit
<1>3. CASE ArrangeStep
  BY <1>3 DEF ArrangeStep
<1> QED BY <1>1, <1>2, <1>3 DEF Next, tables, vars

LEMMA ViewOpened ==
    ASSUME TablesHold, TablesHold', ViewsHold, sections' = sections,
           NEW w, DOMAIN w = {"sec", "seen"}, Viewed(w, sections), views' = Append(views, w)
    PROVE  ViewsHold'
<1>1. views \in Seq(Elements(views))
  BY DEF ViewsHold
<1>2. /\ views' \in Seq(Elements(views')) /\ Len(views) \in Nat /\ Len(views') = Len(views) + 1
      /\ \A u \in 1..Len(views) : views'[u] = views[u]
      /\ views'[Len(views) + 1] = w
  BY <1>1, AppendEntry
<1>3. \A u \in 1..Len(views') : u \in 1..Len(views) \/ u = Len(views) + 1
  BY <1>2
<1>4. \A u \in 1..Len(views') : Viewed(views'[u], sections') /\ DOMAIN views'[u] = {"sec", "seen"}
  BY <1>2, <1>3, Zenon DEF ViewsHold
<1> QED BY <1>2, <1>4 DEF ViewsHold, Elements, Viewed

LEMMA ReadViews ==
    ASSUME TablesHold, TablesHold', ViewsHold, Read
    PROVE  ViewsHold'
<1>1. \A i \in 1..Len(sections) : sections[i].room \in Nat /\ Tabular(sections[i], elf.translated)
  BY Held DEF TablesHold, Sound, BufferedList, Buffered
<1>2. ASSUME NEW i \in 1..Len(sections), sections[i].type \in Lists, OpenList(i)
      PROVE  ViewsHold'
  <2> DEFINE w == [sec |-> i, seen |-> Opened(sections[i])]
  <2>1. /\ Opened(sections[i]) \in Seq(Nat)
        /\ Whole(sections[i]) => /\ Len(Opened(sections[i])) <= Len(sections[i].entries)
                                 /\ \A k \in 1..Len(Opened(sections[i])) :
                                        Opened(sections[i])[k] <= Len(sections[i].entries)
    BY <1>1, <1>2, OpenedIs
  <2>2. sections' = sections /\ views' = Append(views, w)
    BY <1>2 DEF OpenList, core
  <2>3. DOMAIN w = {"sec", "seen"} /\ w.sec = i /\ w.seen = Opened(sections[i])
    OBVIOUS
  <2> HIDE DEF w
  <2>4. Viewed(w, sections)
    BY <1>2, <2>1, <2>3 DEF Viewed
  <2> QED BY <2>2, <2>3, <2>4, ViewOpened
<1>3. ASSUME NEW v \in 1..Len(views), CountDynamic(v)
      PROVE  ViewsHold'
  <2> DEFINE i == views[v].sec
             s == sections[i]
             x == [views[v] EXCEPT !.seen = DynamicIn(s)]
  <2>1. sections' = sections /\ views' = Put(views, v, x) /\ s.type = "dynamic"
    BY <1>3 DEF CountDynamic, core, Put
  <2>2. Viewed(views[v], sections) /\ DOMAIN views[v] = {"sec", "seen"} /\ i \in 1..Len(sections)
    BY DEF ViewsHold, Viewed
  <2>3. /\ DynamicIn(s) \in Seq(Nat)
        /\ Whole(s) => \A k \in 1..Len(DynamicIn(s)) : DynamicIn(s)[k] <= Len(s.entries)
    BY <1>1, <2>1, <2>2, DynamicIs
  <2>4. x.sec = i /\ x.seen = DynamicIn(s) /\ DOMAIN x = {"sec", "seen"}
    BY <2>2
  <2>5. /\ views \in Seq(Elements(views)) /\ DOMAIN views = 1..Len(views) /\ Len(views) \in Nat
    BY ListDomain DEF ViewsHold
  <2>6. /\ views' \in Seq(Elements(views')) /\ Len(views') = Len(views)
        /\ views'[v] = x /\ \A u \in 1..Len(views) : u # v => views'[u] = views[u]
    BY <2>1, <2>5, ReplaceEntry DEF Put
  <2> HIDE DEF x
  <2>7. Viewed(x, sections)
    BY <2>1, <2>2, <2>3, <2>4 DEF Viewed
  <2>8. \A u \in 1..Len(views') : Viewed(views'[u], sections') /\ DOMAIN views'[u] = {"sec", "seen"}
    BY <2>1, <2>4, <2>6, <2>7 DEF ViewsHold
  <2> QED BY <2>6, <2>8 DEF ViewsHold, Elements, Viewed
<1> QED BY <1>2, <1>3 DEF Read

LEMMA ViewsKeep ==
    ASSUME TablesHold, Typed, Fields, Arranging, ViewsHold, [Next]_vars
    PROVE  ViewsHold'
<1>1. TablesHold' /\ (Grows(sections, sections') \/ views' = <<>>)
  BY NextCarries
<1>2. CASE views' = <<>>
  <2>1. <<>> \in Seq(Elements(<<>>)) /\ Len(<<>>) = 0
    OBVIOUS
  <2>2. views' \in Seq(Elements(views')) /\ Len(views') = 0
    BY <1>2, <2>1, Zenon
  <2> QED BY <2>2 DEF ViewsHold, Elements
<1>3. ASSUME Grows(sections, sections')
      PROVE  ViewsHold'
  <2>1. CASE views' = views
    BY <1>1, <1>3, <2>1, ViewsGrow
  <2>2. CASE Read
    BY <1>1, <2>2, ReadViews
  <2>3. ASSUME NEW v \in 1..Len(views)
        PROVE  Len(sections[views[v].sec].entries) + 1 \in Nat /\ Len(views[v].seen) + 1 \in Nat
    <3>1. Viewed(views[v], sections)
      BY DEF ViewsHold
    <3>2. views[v].sec \in 1..Len(sections) /\ views[v].seen \in Seq(Nat)
      BY <3>1 DEF Viewed
    <3>3. Len(sections[views[v].sec].entries) \in Nat
      BY <3>2, Held
    <3> QED BY <3>2, <3>3
  <2>4. \A v \in 1..Len(views) : Len(sections[views[v].sec].entries) + 1 <= Len(sections[views[v].sec].entries) + 1
    BY <2>3, LessSelf
  <2>5. ASSUME NEW v \in 1..Len(views), NEW n \in Names, NEW d \in Descs, AddNote(v, n, d)
        PROVE  ViewsHold'
    <3> DEFINE note == [at |-> sections[views[v].sec].size, namesz |-> NameSize[n] + 1, descsz |-> d]
    <3>1. note.namesz \in Nat /\ note.descsz \in Nat
      <4>1. NameSize[n] \in Nat /\ d \in Nat
        BY NameAssumption, ObjectAssumption
      <4> QED BY <4>1
    <3>2. AddItem(v, "note", NoteBytes(note), note, Len(Entries(v)) + 1)
      BY <2>5 DEF AddNote
    <3> HIDE DEF note
    <3>3. NoteBytes(note) \in Nat
      BY <3>1, NoteBytesNat
    <3>4. "note" \in Lists
      BY DEF Lists
    <3> QED BY <1>1, <1>3, <2>3, <2>4, <3>2, <3>3, <3>4, AddItemViews DEF Entries
  <2>6. ASSUME NEW v \in 1..Len(views), NEW n \in Names, NEW d \in Descs, AddAttribute(v, n, d)
        PROVE  ViewsHold'
    <3> DEFINE e == [at |-> sections[views[v].sec].size, length |-> NameSize[n] + 1 + d]
    <3>1. e.length + 1 \in Nat
      <4>1. NameSize[n] \in Nat /\ d \in Nat
        BY NameAssumption, ObjectAssumption
      <4> QED BY <4>1
    <3>2. AddItem(v, "modinfo", e.length + 1, e, Len(Entries(v)) + 1)
      BY <2>6 DEF AddAttribute
    <3> HIDE DEF e
    <3>3. "modinfo" \in Lists
      BY DEF Lists
    <3> QED BY <1>1, <1>3, <2>3, <2>4, <3>1, <3>2, <3>3, AddItemViews DEF Entries
  <2>7. ASSUME NEW v \in 1..Len(views), AddVersion(v)
        PROVE  ViewsHold'
    <3>1. "versym" \in Lists /\ VERSYM \in Nat
      BY DEF Lists, VERSYM
    <3> QED BY <1>1, <1>3, <2>3, <2>7, <3>1, AddItemViews DEF AddVersion
  <2> QED BY <1>2, <2>1, <2>2, <2>5, <2>6, <2>7, ViewsChange
<1> QED BY <1>1, <1>2, <1>3


-----------------------------------------------------------------------------
(* What follows of it                                                       *)
LayoutInv == Typed /\ OrdInv /\ Laying

TablesInv == TablesHold /\ Fields /\ Arranging /\ ViewsHold /\ LayoutInv

(* What the client does leaves no layout behind but that of the last save.  *)
LEMMA ClientLays ==
    ASSUME TablesInv, Carries, TablesHold',
           pc \in {"edit", "arrange"}, pc' \in {"edit", "arrange", "crashed"},
           reply' = "none", UNCHANGED layout
    PROVE  LayoutInv'
<1>1. /\ Len(sections) \in Nat /\ Len(sections') \in Nat /\ Typed
      /\ Len(sections) <= Len(sections') /\ elf' = elf
  BY Held, HeldNext DEF TablesInv, LayoutInv, Carries, Grows
<1>2. Len(sections) > 0 => sections'[1].type = sections[1].type
  BY <1>1 DEF Carries, Grows, Longer
<1>3. SegmentList(segments', Len(sections'))
  BY <1>1, ListKept DEF layout, Typed
<1>4. Typed'
  BY <1>1, <1>2, <1>3, ClientTyped DEF layout
<1>5. ~ Placing' /\ Laying'
  BY NotSaved DEF Placing
<1> QED BY <1>4, <1>5 DEF LayoutInv, OrdInv

LEMMA TableEditIs ==
    ASSUME TableEdit
    PROVE  pc = "edit" /\ reply' = "none" /\ pc' \in {"edit", "arrange", "crashed"}
<1>1. CASE \E t \in Tables("symtab") : ArrangeBegin(t)
  BY <1>1 DEF ArrangeBegin, Edit
<1>2. CASE \E n \in Names, shape \in SectionShapes : AddSection(n, shape)
  BY <1>2 DEF AddSection, Edit, Crash, Faults
<1>3. CASE \E t \in Tables("symtab"), n \in Names \ {""}, b \in {"local", "global"} :
              \E r \in {{}} \cup {{i} : i \in Linked(t)} : AddSymbol(t, n, b, r)
  BY <1>3 DEF AddSymbol, Edit, Crash, Faults
<1>4. CASE \E r \in Tables("rel") : \E k \in 0..Len(sections[sections[r].link].entries) - 1 :
              \/ AddRelocation(r, k)
              \/ \E e \in 1..Len(sections[r].entries) : SetRelocation(r, e, k)
  BY <1>4 DEF AddRelocation, SetRelocation, Edit, Crash, Faults
<1>5. CASE \E v \in 1..Len(views), n \in Names, d \in Descs : AddNote(v, n, d) \/ AddAttribute(v, n, d)
  BY <1>5 DEF AddNote, AddAttribute, AddItem, Edit, Crash, Faults
<1>6. CASE \E v \in 1..Len(views) : AddVersion(v) \/ \E k \in 1..Len(views[v].seen) : ModifyVersion(v, k)
  BY <1>6 DEF AddVersion, ModifyVersion, AddItem, Edit, Crash, Faults
<1>7. CASE \E i \in Tables("array") : AddAddress(i)
  BY <1>7 DEF AddAddress, Edit, Crash, Faults
<1>8. CASE \E i \in Tables("dynamic"), n \in Names : AddDynamic(i, n)
  BY <1>8 DEF AddDynamic, Edit, Crash, Faults
<1> QED BY <1>1, <1>2, <1>3, <1>4, <1>5, <1>6, <1>7, <1>8 DEF TableEdit

LEMMA CreateLays ==
    ASSUME TablesInv, Create, TablesHold'
    PROVE  LayoutInv'
<1>1. Typed /\ Shaped /\ Len(sections') \in Nat
  BY TablesShaped, HeldNext DEF TablesInv, LayoutInv
<1>2. sections' \in Mandatory => Len(sections') > 0 /\ sections'[1].type = "null"
  <2>1. PICK new : new = sections'
    OBVIOUS
  <2>2. new \in Mandatory => Len(new) = 2 /\ new[1].type = "null"
    BY MandatoryTables
  <2>3. 2 > 0
    OBVIOUS
  <2> QED BY <2>1, <2>2, <2>3
<1>3. Typed'
  BY <1>1, <1>2, CreateTyped
<1>4. pc' \in {"edit", "crashed"} /\ reply' = "none"
  BY DEF Create, Edit, Crash
<1>5. ~ Placing' /\ Laying'
  BY <1>4, NotSaved DEF Placing
<1> QED BY <1>3, <1>5 DEF LayoutInv, OrdInv

LEMMA EditLays ==
    ASSUME TablesInv, LayoutEdit, TablesHold'
    PROVE  LayoutInv'
<1>1. Typed /\ Shaped
  BY TablesShaped DEF TablesInv, LayoutInv
<1>2. ~ Placing' /\ pc = "edit" /\ reply' = "none" /\ pc' \in {"edit", "crashed"}
  BY DEF LayoutEdit, AddSegment, AddToSegment, SetAddress, SetData, AppendData, Edit, Crash, Faults, Placing
<1>3. Typed'
  <2>1. CASE \E shape \in SegmentShapes : AddSegment(shape)
    BY <1>1, <2>1, AddSegmentTyped
  <2>2. CASE \E g \in 1..Len(segments), i \in 2..Len(sections) : AddToSegment(g, i)
    BY <1>1, <2>2, AddToSegmentTyped
  <2>3. ASSUME UNCHANGED layout
        PROVE  Typed'
    <3>1. Carries
      BY LayoutEditCarries DEF TablesInv, LayoutInv
    <3> QED BY <1>2, <2>3, <3>1, ClientLays DEF LayoutInv
  <2> QED BY <2>1, <2>2, <2>3 DEF LayoutEdit, SetAddress, SetData, AppendData
<1>4. Laying'
  BY <1>2, NotSaved
<1> QED BY <1>2, <1>3, <1>4 DEF LayoutInv, OrdInv

LEMMA SaveLays ==
    ASSUME TablesInv, SaveBegin \/ SaveStep
    PROVE  LayoutInv'
<1>1. Typed /\ Shaped /\ OrdInv /\ Laying
  BY TablesShaped DEF TablesInv, LayoutInv
<1>2. CASE SaveBegin
  BY <1>1, <1>2, SaveBeginTyped, SaveBeginOrders, SaveBeginLaying DEF LayoutInv
<1>3. CASE SaveStep
  BY <1>1, <1>3, SaveStepTyped, SaveStepOrders, SaveStepLaying DEF LayoutInv
<1> QED BY <1>2, <1>3

LEMMA StillLays ==
    ASSUME LayoutInv, UNCHANGED <<core, layout>>
    PROVE  LayoutInv'
<1>1. /\ UNCHANGED <<pc, edits, saves, elf, sections, reply>>
      /\ UNCHANGED <<segments, work, order, turn, pos, cur, generated, table, good, stored, regular, last>>
  BY DEF core, layout, plan, place, disk, past
<1>2. Typed'
  BY <1>1, Zenon DEF LayoutInv, Typed, Spots, Headed1, Turns, Saving, Segment
<1>3. OrdInv'
  <2>1. OrdInv /\ Queue' = Queue /\ (Placing' <=> Placing)
    BY <1>1, Zenon DEF LayoutInv, Queue, Placing
  <2>2. (Queued' <=> Queued) /\ (InOrder' <=> InOrder)
    BY <1>1, <2>1, Zenon DEF Queued, InOrder, Subsequence
  <2> QED BY <1>1, <2>1, <2>2, Zenon DEF OrdInv
<1>4. Laying'
  BY SameLayout DEF LayoutInv
<1> QED BY <1>2, <1>3, <1>4 DEF LayoutInv

LEMMA LayoutKeeps ==
    ASSUME TablesInv, TablesHold', [Next]_vars
    PROVE  LayoutInv'
<1>0. TablesHold /\ Typed /\ Arranging
  BY DEF TablesInv, LayoutInv
<1>1. CASE UNCHANGED vars
  BY <1>1, StillLays DEF vars, TablesInv
<1>2. CASE Create
  BY <1>2, CreateLays
<1>3. CASE TableEdit /\ UNCHANGED layout
  BY <1>0, <1>3, TableEditCarries, TableEditIs, ClientLays
<1>4. CASE ArrangeStep /\ UNCHANGED layout
  <2>1. pc = "arrange" /\ pc' \in {"edit", "arrange", "crashed"} /\ reply' = reply
    BY <1>4 DEF ArrangeStep, Crash
  <2>2. reply' = "none"
    BY <1>0, <2>1 DEF Typed
  <2> QED BY <1>0, <1>4, <2>1, <2>2, ArrangeCarries, ClientLays
<1>5. CASE Read /\ UNCHANGED layout
  BY <1>5, StillLays DEF Read, OpenList, CountDynamic, TablesInv
<1>6. CASE LayoutEdit
  BY <1>6, EditLays
<1>7. CASE SaveBegin \/ SaveStep
  BY <1>7, SaveLays
<1> QED BY <1>1, <1>2, <1>3, <1>4, <1>5, <1>6, <1>7 DEF Next

LEMMA InitTables == Init => TablesInv
<1> SUFFICES ASSUME Init PROVE TablesInv
  OBVIOUS
<1>1. PICK o \in Objects :
          /\ elf = [header |-> o.header, strings |-> o.strings,
                    translated |-> o.translated, zlib |-> o.zlib]
          /\ sections = o.sections /\ segments = o.segments
  BY Zenon DEF Init
<1>2. Consistent(o.sections, o.header, o.strings, o.translated)
  BY TableAssumption
<1>3. TablesHold
  BY <1>1, <1>2, InitSound DEF TablesHold
<1>4. Fields
  BY <1>1 DEF Fields
<1>5. Arranging
  BY DEF Init, Arranging
<1>6. ViewsHold
  <2>1. <<>> \in Seq(Elements(<<>>)) /\ Len(<<>>) = 0
    OBVIOUS
  <2>2. views \in Seq(Elements(views)) /\ Len(views) = 0
    BY <2>1, Zenon DEF Init
  <2> QED BY <2>2 DEF ViewsHold
<1>7. LayoutInv
  <2>1. SegmentList(o.segments, Len(o.sections))
        /\ (o.header => Len(o.sections) > 0 /\ o.sections[1].type = "null")
    BY LayoutAssumption
  <2>2. SegmentList(segments, Len(sections)) /\ Headed1
    BY <1>1, <2>1 DEF Headed1
  <2>3. /\ pc = "edit" /\ reply = "none" /\ regular \in BOOLEAN /\ good \in BOOLEAN
    BY DEF Init
  <2>4. Spots
    <3>1. 0 \in 0..WORD - 1 /\ 0 \in Nat
      BY WordIs
    <3>2. pos = 0 /\ table = 0 /\ cur = [start |-> 0, mem |-> 0, file |-> 0, member |-> 0]
      BY DEF Init
    <3> QED BY <3>1, <3>2 DEF Spots, CurFields
  <2>5. Typed
    BY <2>2, <2>3, <2>4 DEF Typed, Saving, SaveSteps
  <2>6. Laying
    BY <2>3 DEF Laying, LayInv, Strays, StoredInv, Writing, Written, Placing, CurInv
  <2> QED BY <2>3, <2>5, <2>6 DEF LayoutInv, OrdInv, Placing
<1> QED BY <1>3, <1>4, <1>5, <1>6, <1>7 DEF TablesInv

LEMMA NextTables ==
    ASSUME TablesInv, [Next]_vars
    PROVE  TablesInv'
<1>1. TablesHold /\ Typed /\ Fields /\ Arranging /\ ViewsHold
  BY DEF TablesInv, LayoutInv
<1>2. TablesHold' /\ Fields' /\ Arranging'
  BY <1>1, NextCarries
<1>3. ViewsHold'
  BY <1>1, ViewsKeep
<1>4. LayoutInv'
  BY <1>2, LayoutKeeps
<1> QED BY <1>2, <1>3, <1>4 DEF TablesInv

LEMMA SpecTables == Spec => []TablesInv
<1>1. TablesInv /\ [Next]_vars => TablesInv'
  BY NextTables
<1> QED BY InitTables, <1>1, PTL DEF Spec

LEMMA Rooms ==
    ASSUME TablesHold, NEW i \in 1..Len(sections)
    PROVE  sections[i].room \in Nat /\ Tabular(sections[i], elf.translated)
  BY Held DEF TablesHold, Sound, BufferedList, Buffered

(* Strings lie apart, so that only one is found where one is.               *)
LEMMA StringFound ==
    ASSUME NEW s, NEW tr, Tabular(s, tr), s.room \in Nat, Whole(s), s.type = "strtab",
           NEW at, NEW n, HasString(s, at, n)
    PROVE  GetString(s, at) = n
<1> DEFINE found == {k \in 1..Len(s.entries) : s.entries[k].at = at}
<1>1. PICK j \in 1..Len(s.entries) : s.entries[j].at = at /\ s.entries[j].is = n
  BY DEF HasString
<1>2. \A k \in 1..Len(s.entries) : /\ s.entries[k].at \in 0..s.size - 1
                                   /\ \A i \in 1..k - 1 : s.entries[i].at < s.entries[k].at
  BY DEF Tabular, Measured
<1>3. Len(s.entries) \in Nat /\ s.size \in Nat
  BY TabularFields
<1>4. at < s.size /\ s.size > 0
  BY <1>1, <1>2, <1>3
<1>5. s.room > 0
  BY <1>4 DEF Whole, Lost
<1>6. found \subseteq Nat /\ found # {}
  BY <1>1
<1>7. Min(found) \in found
  BY <1>6, MinIs
<1>8. PICK m : m = Min(found)
  OBVIOUS
<1>9. m \in 1..Len(s.entries) /\ s.entries[m].at = at
  BY <1>7, <1>8
<1>10. m = j
  <2>1. CASE m < j
    <3>1. m \in 1..j - 1
      BY <1>3, <1>9, <2>1
    <3>2. s.entries[m].at < s.entries[j].at /\ s.entries[j].at \in 0..s.size - 1
      BY <1>2, <3>1
    <3> QED BY <1>1, <1>3, <1>9, <3>2
  <2>2. CASE j < m
    <3>1. j \in 1..m - 1
      BY <1>3, <1>9, <2>2
    <3>2. s.entries[j].at < s.entries[m].at /\ s.entries[m].at \in 0..s.size - 1
      BY <1>2, <1>9, <3>1
    <3> QED BY <1>1, <1>3, <1>9, <3>2
  <2> QED BY <1>3, <1>9, <2>1, <2>2
<1>11. GetString(s, at) = s.entries[m].is
  BY <1>4, <1>5, <1>6, <1>8 DEF GetString
<1> QED BY <1>1, <1>10, <1>11

(* The names symbols and dynamic entries have                               *)
LEMMA EntryMeans ==
    ASSUME TablesHold, NEW t \in 1..Len(sections), KeptTable(t), NEW k \in 1..Len(sections[t].entries)
    PROVE  Meant(sections[t].type, k, sections[t].entries[k], sections[sections[t].link])
<1>1. Whole(sections[t]) /\ sections[t].link # 0 /\ Whole(sections[sections[t].link])
  BY DEF KeptTable, Kept
<1>2. Means(sections[t], sections[sections[t].link])
  BY <1>1, Held DEF Consistent
<1> QED BY <1>1, <1>2 DEF Means

LEMMA StringsOf ==
    ASSUME TablesHold, NEW t \in 1..Len(sections), KeptTable(t),
           sections[t].type \in {"symtab", "dynamic"}
    PROVE  LET y == sections[sections[t].link]
           IN  /\ y.room \in Nat /\ Tabular(y, elf.translated) /\ Whole(y) /\ y.type = "strtab"
<1>1. sections[t].link # 0 /\ Whole(sections[sections[t].link])
  BY DEF KeptTable, Kept
<1>2. Linkage(sections)
  BY Held DEF Consistent
<1>3. sections[t].link \in 1..Len(sections) /\ sections[sections[t].link].type = "strtab"
  BY <1>1, <1>2, Held DEF Linkage
<1> QED BY <1>1, <1>3, Rooms

LEMMA SymbolNamed ==
    ASSUME TablesHold, NEW t \in Tables("symtab"), KeptTable(t), NEW k \in 2..Len(sections[t].entries)
    PROVE  GetString(sections[sections[t].link], sections[t].entries[k].name)
                = sections[t].entries[k].called
<1>1. t \in 1..Len(sections) /\ sections[t].type = "symtab" /\ k \in 1..Len(sections[t].entries) /\ k > 1
  BY Held DEF Tables
<1>2. Meant("symtab", k, sections[t].entries[k], sections[sections[t].link])
  BY <1>1, EntryMeans
<1>3. HasString(sections[sections[t].link], sections[t].entries[k].name, sections[t].entries[k].called)
  BY <1>1, <1>2 DEF Meant
<1> QED BY <1>1, <1>3, StringsOf, StringFound

LEMMA TablesKeepNames == TablesInv => NamesKept
<1> SUFFICES ASSUME TablesInv PROVE NamesKept
  OBVIOUS
<1> USE DEF TablesInv
<1>1. ASSUME elf.header, elf.strings \in 1..Len(sections) - 1, Kept(elf.strings + 1),
             NEW i \in 1..Len(sections), sections[i].nameAt # 0
      PROVE  GetString(sections[elf.strings + 1], sections[i].nameAt) = sections[i].name
  <2>1. Naming(sections, elf.strings) /\ SectionNames(sections, elf.strings)
    BY <1>1, Held DEF Consistent
  <2>2. elf.strings + 1 \in 1..Len(sections) /\ sections[elf.strings + 1].type = "strtab"
    BY <1>1, <2>1, Held DEF Naming
  <2>3. HasString(sections[elf.strings + 1], sections[i].nameAt, sections[i].name)
    BY <1>1, <2>1 DEF SectionNames, Kept
  <2> QED BY <1>1, <2>2, <2>3, Rooms, StringFound DEF Kept
<1>2. ASSUME NEW t \in Tables("dynamic"), KeptTable(t), NEW k \in 1..Len(sections[t].entries),
             sections[t].entries[k].tag = "needed"
      PROVE  GetString(sections[sections[t].link], sections[t].entries[k].value)
                = sections[t].entries[k].called
  <2>1. t \in 1..Len(sections) /\ sections[t].type = "dynamic"
    BY DEF Tables
  <2>2. Meant("dynamic", k, sections[t].entries[k], sections[sections[t].link])
    BY <1>2, <2>1, EntryMeans
  <2>3. HasString(sections[sections[t].link], sections[t].entries[k].value, sections[t].entries[k].called)
    BY <1>2, <2>2 DEF Meant
  <2> QED BY <1>2, <2>1, <2>3, StringsOf, StringFound
<1> QED BY <1>1, <1>2, SymbolNamed DEF NamesKept

LEMMA TablesFindSymbols == TablesInv => SymbolsFound
<1> SUFFICES ASSUME TablesInv, NEW t \in Tables("symtab"), Searchable(t),
                    NEW k \in 2..Len(sections[t].entries)
             PROVE  NameAt(sections[t], GetSymbol(t, sections[t].entries[k].called))
                        = sections[t].entries[k].called
  BY DEF SymbolsFound
<1> USE DEF TablesInv
<1> DEFINE s == sections[t]
           n == s.entries[k].called
           found == {j \in 0..Count(s) - 1 : NameAt(s, j) = n}
<1>1. t \in 1..Len(sections) /\ s.type = "symtab"
  BY DEF Tables
<1>2. s.room \in Nat /\ Tabular(s, elf.translated) /\ Len(s.entries) \in Nat /\ Whole(s)
  BY <1>1, Held, Rooms DEF Searchable, KeptTable, Kept
<1>3. Count(s) = Len(s.entries)
  <2>1. s.size <= s.stream /\ s.entsize = SYM
    BY <1>1, <1>2 DEF Searchable, Tabular
  <2> QED BY <1>1, <1>2, <2>1, Counted
<1>4. s.room > 0
  <2>1. s.size = SYM * Len(s.entries)
    BY <1>1, <1>2 DEF Tabular, Measured
  <2>2. s.size > 0
    BY <1>2, <2>1 DEF SYM
  <2> QED BY <1>1, <1>2, <2>2 DEF Whole, Lost
<1>5. NameAt(s, k - 1) = n
  <2>1. HasSymbol(s, k - 1) /\ (k - 1) + 1 = k
    BY <1>2, <1>3, <1>4 DEF HasSymbol
  <2>2. s.link # 0
    BY DEF Searchable, KeptTable
  <2>3. NameAt(s, k - 1) = GetString(sections[s.link], s.entries[k].name)
    BY <2>1, <2>2 DEF NameAt
  <2> QED BY <2>3, SymbolNamed DEF Searchable
<1>6. k - 1 \in found /\ found \subseteq Nat
  BY <1>2, <1>3, <1>5
<1>7. Min(found) \in found
  BY <1>6, MinIs
<1>8. LinearSearch(s, n) = Min(found)
  BY <1>6 DEF LinearSearch
<1>9. NameAt(s, LinearSearch(s, n)) = n
  BY <1>7, <1>8
<1> HIDE DEF found
<1> QED BY <1>9, Zenon DEF GetSymbol

LEMMA TablesKeepRelocations == TablesInv => RelocationsKeepSymbols
<1> SUFFICES ASSUME TablesInv, NEW r \in Tables("rel"), Kept(r), sections[r].link # 0,
                    KeptTable(sections[r].link), NEW k \in 1..Len(sections[r].entries)
             PROVE  LET e == sections[r].entries[k]
                        y == sections[sections[r].link]
                    IN  e.symbol < Len(y.entries) /\ y.entries[e.symbol + 1].is = e.wants
  BY DEF RelocationsKeepSymbols
<1>1. r \in 1..Len(sections) /\ sections[r].type = "rel"
  BY DEF Tables
<1>2. KeptTable(r)
  BY DEF KeptTable
<1>3. Meant("rel", k, sections[r].entries[k], sections[sections[r].link])
  BY <1>1, <1>2, EntryMeans DEF TablesInv
<1>4. sections[r].link \in 1..Len(sections)
  BY <1>1, Held DEF Consistent, Linkage, TablesInv
<1>5. Len(sections[sections[r].link].entries) \in Nat
  BY <1>4, Held DEF TablesInv
<1> QED BY <1>3, <1>5 DEF Meant

LEMMA TablesAgree == TablesInv => ListsAgree
<1> SUFFICES ASSUME TablesInv PROVE ListsAgree
  OBVIOUS
<1>1. ASSUME NEW v \in 1..Len(views), Kept(views[v].sec), NEW k \in 1..Len(views[v].seen)
      PROVE  views[v].seen[k] <= Len(sections[views[v].sec].entries)
  <2>1. Viewed(views[v], sections)
    BY DEF TablesInv, ViewsHold
  <2> QED BY <1>1, <2>1 DEF Viewed, Kept
<1>2. ASSUME NEW i \in 1..Len(sections), Kept(i)
      PROVE  LET s == sections[i]
                 all == FirstEntries(Len(s.entries))
             IN  /\ s.type \in {"note", "versym", "modinfo"} => Opened(s) = all
                 /\ s.type = "array" => AddressesIn(s) = all
                 /\ s.type = "dynamic" /\ s.entsize = DYN
                        /\ (\A k \in 1..Len(all) - 1 : s.entries[k].tag # "null") => DynamicIn(s) = all
  <2> DEFINE s == sections[i]
             all == FirstEntries(Len(s.entries))
  <2>1. s.room \in Nat /\ Tabular(s, elf.translated) /\ Whole(s) /\ Len(s.entries) \in Nat
    BY <1>2, Rooms, Held DEF TablesInv, Kept
  <2>2. Len(all) = Len(s.entries)
    BY <2>1, FirstEntriesIs
  <2> HIDE DEF s
  <2>3. s.type \in {"note", "versym", "modinfo"} => Opened(s) = all
    BY <2>1, OpenedAll
  <2>4. s.type = "array" => AddressesIn(s) = all
    <3>1. s.type = "array" => s.size = ADDRESS * Len(s.entries)
      BY <2>1 DEF Tabular, Measured
    <3>2. s.type = "array" => s.size \div ADDRESS = Len(s.entries)
      BY <2>1, <3>1, Divided
    <3> QED BY <3>2, Zenon DEF AddressesIn
  <2>5. s.type = "dynamic" /\ s.entsize = DYN
            /\ (\A k \in 1..Len(all) - 1 : s.entries[k].tag # "null") => DynamicIn(s) = all
    <3> HIDE DEF all
    <3>1. s.type = "dynamic" /\ s.entsize = DYN
            /\ (\A k \in 1..Len(s.entries) - 1 : s.entries[k].tag # "null") =>
                DynamicIn(s) = FirstEntries(Len(s.entries))
      BY <2>1, DynamicIs
    <3> QED BY <2>2, <3>1 DEF all
  <2> QED BY <2>3, <2>4, <2>5, Zenon DEF s
<1> QED BY <1>1, <1>2 DEF ListsAgree


-----------------------------------------------------------------------------
(* arrange_local_symbols                                                    *)
LEMMA ArrangeEnds ==
    ASSUME TablesInv, ArrangeStep, pc' = "edit", Searchable(job.table)
    PROVE  LET s == sections'[job.table]
           IN  /\ \A k \in 2..Len(s.entries) : (s.entries[k].bind = "local") <=> (k <= s.info)
               /\ {s.entries[k].is : k \in 1..Len(s.entries)} = 0..Len(s.entries) - 1
<1> DEFINE t == job.table
           s == sections[t]
           n == Count(s)
           q == FirstNotLocal(s, n, job.first)
           locals == NextLocal(s, n, q)
<1>1. pc = "arrange"
  BY DEF ArrangeStep
<1>2. /\ t \in 1..Len(sections) /\ s.type = "symtab" /\ Tabular(s, elf.translated) /\ Whole(s)
      /\ Len(s.entries) \in Nat /\ job.first \in Nat /\ 0 < job.first /\ LocalTo(s.entries, job.first)
  BY <1>1, Held DEF TablesInv, Arranging, Tables, Searchable, KeptTable, Kept
<1>3. n = Len(s.entries)
  <2>1. s.size <= s.stream /\ s.entsize = SYM
    BY <1>2 DEF Searchable, Tabular
  <2> QED BY <1>2, <2>1, Counted
<1> HIDE DEF n
<1>4. locals = {} /\ sections' = [sections EXCEPT ![t].info = q]
  <2> HIDE DEF t, s, q, locals
  <2>1. pc' = "crashed" \/ pc' = pc \/ (locals = {} /\ sections' = [sections EXCEPT ![t].info = q])
    BY Zenon DEF ArrangeStep, Crash, t, s, n, q, locals
  <2> QED BY <1>1, <2>1
<1>5. /\ q \in Nat /\ job.first <= q
      /\ n <= Len(s.entries) /\ LocalTo(s.entries, job.first) => LocalTo(s.entries, q)
      /\ q < n => s.entries[q + 1].bind # "local"
  <2> HIDE DEF s
  <2> QED BY <1>2, <1>3, FirstNotLocalIs
<1> HIDE DEF q
<1>6. LocalTo(s.entries, q)
  BY <1>2, <1>3, <1>5, LessSelf
<1>7. \A k \in q + 1..n - 1 : s.entries[k + 1].bind # "local"
  BY <1>4 DEF NextLocal
<1>8. ASSUME NEW k \in 2..Len(s.entries)
      PROVE  (s.entries[k].bind = "local") <=> (k <= q)
  <2>1. CASE k <= q
    BY <1>6, <2>1 DEF LocalTo
  <2>2. CASE k = q + 1
    BY <1>2, <1>3, <1>5, <2>2
  <2>3. CASE k > q + 1
    <3>1. k - 1 \in q + 1..n - 1 /\ (k - 1) + 1 = k
      BY <1>2, <1>3, <1>5, <2>3
    <3>2. s.entries[k].bind # "local"
      BY <1>7, <3>1
    <3> QED BY <1>5, <2>3, <3>2
  <2> QED BY <1>5, <2>1, <2>2, <2>3
<1>9. {s.entries[k].is : k \in 1..Len(s.entries)} = 0..Len(s.entries) - 1
  BY <1>2 DEF Tabular, Measured
<1>10. sections'[t].entries = s.entries /\ sections'[t].info = q
  <2>1. TableFields \subseteq DOMAIN s
    BY <1>2 DEF Tabular
  <2> QED BY <1>2, <1>4, <2>1, Held DEF TableFields, TablesInv
<1> QED BY <1>8, <1>9, <1>10

LEMMA TablesArrange ==
    ASSUME TablesInv, [Next]_vars
    PROVE  [pc = "arrange" /\ pc' = "edit" /\ Searchable(job.table) =>
              LET s == sections'[job.table]
              IN  /\ \A k \in 2..Len(s.entries) : (s.entries[k].bind = "local") <=> (k <= s.info)
                  /\ {s.entries[k].is : k \in 1..Len(s.entries)} = 0..Len(s.entries) - 1]_<<pc, sections>>
<1>1. CASE ArrangeStep
  BY <1>1, ArrangeEnds
<1>2. CASE \E t \in Tables("symtab") : ArrangeBegin(t)
  BY <1>2 DEF ArrangeBegin
<1>3. CASE UNCHANGED vars
  BY <1>3 DEF vars, core
<1> QED BY <1>1, <1>2, <1>3, ArrangesAlone

-----------------------------------------------------------------------------
(* Every section, symbol and dynamic entry keeps the name it was given in   *)
(* the string table it goes by, whatever is added before and after it       *)
(* (elfio_strings.hpp:60-82).                                               *)
THEOREM NamesAreKept == Spec => []NamesKept
  BY SpecTables, TablesKeepNames, PTL

(* Every symbol of a table that is whole is found by its name, whatever its *)
(* hash table says, after symbols were added and moved                      *)
(* (elfio_symbols.hpp:102-132).                                             *)
THEOREM SymbolsAreFound == Spec => []SymbolsFound
  BY SpecTables, TablesFindSymbols, PTL

(* Relocations go on meaning the symbols they were made for, while          *)
(* arrange_local_symbols moves these (elfio_relocation.hpp:295-310).        *)
THEOREM RelocationsFollow == Spec => []RelocationsKeepSymbols
  BY SpecTables, TablesKeepRelocations, PTL

(* Accessors of lists, old and new, count what their sections have: what    *)
(* they append, with its padding, is what they step over                    *)
(* (elfio_note.hpp:103-155).                                                *)
THEOREM AccessorsAgree == Spec => []ListsAgree
  BY SpecTables, TablesAgree, PTL

(* When arrange_local_symbols returns, sh_info divides local symbols from   *)
(* the others, and none was lost or doubled (elfio_symbols.hpp:501-546).    *)
THEOREM LocalsComeFirst == Spec => ArrangedLocalsFirst
<1>1. TablesInv /\ [Next]_vars =>
        [pc = "arrange" /\ pc' = "edit" /\ Searchable(job.table) =>
              LET s == sections'[job.table]
              IN  /\ \A k \in 2..Len(s.entries) : (s.entries[k].bind = "local") <=> (k <= s.info)
                  /\ {s.entries[k].is : k \in 1..Len(s.entries)} = 0..Len(s.entries) - 1]_<<pc, sections>>
  BY TablesArrange
<1> QED BY SpecTables, <1>1, PTL DEF Spec, ArrangedLocalsFirst

-----------------------------------------------------------------------------
LEMMA TablesTyped == TablesInv => TypeOK
<1> SUFFICES ASSUME TablesInv PROVE TypeOK
  OBVIOUS
<1>1. TablesHold /\ Typed /\ OrdInv /\ Shaped
  BY TablesShaped DEF TablesInv, LayoutInv
<1>2. /\ pc \in {"edit", "arrange", "order", "segment", "members", "loose", "header", "write", "crashed"}
      /\ reply \in {"none", "ok", "failed"}
  BY <1>1 DEF Typed, SaveSteps
<1>3. \A i \in 1..Len(sections) : SectionOK(sections[i])
  <2>1. \A i \in 1..Len(sections) : Buffered(sections[i]) /\ Tabular(sections[i], elf.translated)
                                     /\ sections[i].link \in 0..Len(sections)
    BY <1>1, Held DEF TablesHold, Sound, BufferedList, Consistent, Linkage
  <2> QED BY <2>1 DEF SectionOK, Buffered, Tabular
<1>4. \A g \in 1..Len(segments) : Segmented(segments[g], Len(sections))
  BY <1>1, Held, Listed DEF Typed
<1>5. pc \in {"segment", "members"} => generated \subseteq 1..Len(sections)
  BY <1>1 DEF Typed, Turns, Saving, SaveSteps
<1>6. ASSUME pc \in {"order", "segment"}
      PROVE  {work[k] : k \in 1..Len(work)} \cup {order[k] : k \in 1..Len(order)} = 1..Len(segments)
  <2>1. Queued /\ (pc # "order" => work = <<>>)
    BY <1>1, <1>6 DEF OrdInv, Placing
  <2>2. work \in Seq(1..Len(segments)) /\ order \in Seq(1..Len(segments))
    BY <1>1, <1>6 DEF Typed, Turns, Saving, SaveSteps
  <2>3. PICK S : S = 1..Len(segments)
    OBVIOUS
  <2>4. PICK q : q = Queue
    OBVIOUS
  <2>5. q \in Seq(S)
    <3>1. order \in Seq(S) /\ work \in Seq(S)
      BY <2>2, <2>3
    <3>2. order \o work \in Seq(S)
      BY <3>1, JoinIs
    <3> QED BY <2>4, <3>1, <3>2 DEF Queue
  <2>6. \A k \in 1..Len(q) : q[k] \in S
    BY <2>5, SeqIs
  <2>7. {q[k] : k \in 1..Len(q)} = S
    <3>1. \A n \in S : \E k \in 1..Len(q) : q[k] = n
      BY <2>1, <2>3, <2>4, Zenon DEF Queued
    <3> QED BY <2>6, <3>1
  <2>8. CASE pc = "order"
    <3>1. q = order \o work
      BY <2>4, <2>8 DEF Queue
    <3>2. /\ Len(q) = Len(order) + Len(work) /\ Len(order) \in Nat /\ Len(work) \in Nat
          /\ \A k \in 1..Len(order) : q[k] = order[k]
          /\ \A k \in 1..Len(work) : q[Len(order) + k] = work[k]
      BY <2>2, <2>3, <3>1, JoinIs
    <3>3. ASSUME NEW k \in 1..Len(q)
          PROVE  q[k] \in {work[j] : j \in 1..Len(work)} \cup {order[j] : j \in 1..Len(order)}
      <4>1. CASE k <= Len(order)
        BY <3>2, <4>1
      <4>2. CASE k > Len(order)
        <5>1. PICK j : j = k - Len(order)
          OBVIOUS
        <5>2. j \in 1..Len(work) /\ Len(order) + j = k
          BY <3>2, <4>2, <5>1
        <5>3. q[k] = work[j]
          BY <3>2, <5>2
        <5> QED BY <5>2, <5>3
      <4> QED BY <3>2, <4>1, <4>2
    <3>4. ASSUME NEW k \in 1..Len(order) PROVE order[k] \in S
      <4>1. k \in 1..Len(q) /\ q[k] = order[k]
        BY <3>2
      <4> QED BY <2>7, <4>1
    <3>5. ASSUME NEW k \in 1..Len(work) PROVE work[k] \in S
      <4>1. Len(order) + k \in 1..Len(q) /\ q[Len(order) + k] = work[k]
        BY <3>2
      <4> QED BY <2>7, <4>1
    <3> QED BY <2>3, <2>7, <3>3, <3>4, <3>5
  <2>9. CASE pc = "segment"
    <3>1. work = <<>> /\ q = order
      BY <2>1, <2>4, <2>9 DEF Queue
    <3>2. {work[k] : k \in 1..Len(work)} = {}
      <4>1. 1..0 = {}
        OBVIOUS
      <4>2. Len(work) = 0
        BY <3>1
      <4> QED BY <4>1, <4>2, Zenon
    <3> QED BY <2>3, <2>7, <3>1, <3>2
  <2> QED BY <1>6, <2>8, <2>9
<1>7. pc = "write" => Len(stored) <= Len(sections)
  BY <1>1 DEF Typed, Turns, Saving, SaveSteps
<1> QED BY <1>2, <1>3, <1>4, <1>5, <1>6, <1>7 DEF TypeOK

LEMMA TablesOrder == TablesInv => SegmentsOrdered
  BY TablesShaped, OrdersSegments DEF TablesInv, LayoutInv

(* Sections keep the links and sizes, segments the members and places, and  *)
(* the list of segments all of them, that the code takes them to have.      *)
THEOREM ObjectIsTyped == Spec => []TypeOK
  BY SpecTables, TablesTyped, PTL

(* save takes a segment that is part of another after that one, whatever    *)
(* order the client added them in (elfio.hpp:630-667).                      *)
THEOREM PartsComeLater == Spec => []SegmentsOrdered
  BY SpecTables, TablesOrder, PTL

LEMMA TablesLay ==
    ASSUME TablesInv
    PROVE  Shaped /\ Typed /\ Laying
  BY TablesShaped DEF TablesInv, LayoutInv

LEMMA TablesHoldSections == TablesInv => SegmentsHoldSections
  BY TablesLay, HoldsSections

LEMMA TablesCongruent == TablesInv => SegmentsCongruent
  BY TablesLay, Congruent

LEMMA TablesIntact == TablesInv => FileIntact
  BY TablesLay, IntactFile

LEMMA TablesValidate == TablesInv => SavedValidates
  BY TablesLay, ValidatesSaved

(* Where a section of a regular object is in the file and where it is in    *)
(* memory agree with its segment, also if the segment is part of another,   *)
(* and the segment covers it in both (elfio.hpp:833-913).                   *)
THEOREM SegmentsCoverSections == Spec => []SegmentsHoldSections
  BY SpecTables, TablesHoldSections, PTL

(* A segment of a regular object can be mapped: its offset and its address  *)
(* are equal modulo its alignment (elfio.hpp:776-790).                      *)
THEOREM SegmentsAreMappable == Spec => []SegmentsCongruent
  BY SpecTables, TablesCongruent, PTL

(* What save writes is whole unless the stream failed, and the headers, the *)
(* section table and the contents of the sections lie apart in the file     *)
(* (elfio.hpp:600-628, 708-917).                                            *)
THEOREM FileStaysIntact == Spec => []FileIntact
  BY SpecTables, TablesIntact, PTL

(* validate() has nothing to say of a regular object that has been saved    *)
(* (elfio.hpp:290-343).                                                     *)
THEOREM SavedIsValid == Spec => []SavedValidates
  BY SpecTables, TablesValidate, PTL

LEMMA OnlySaveFails ==
    ASSUME TablesInv, [Next]_vars, pc = "members", reply' = "failed"
    PROVE  ~ regular
<1>1. Shaped /\ Typed /\ OrdInv /\ Laying
  BY TablesShaped DEF TablesInv, LayoutInv
<1>2. reply = "none"
  BY <1>1 DEF Typed
<1>3. CASE SaveStep
  BY <1>1, <1>3, SaveStepLaying
<1>4. CASE TableEdit
  BY <1>4, TableEditIs
<1>5. CASE Create \/ SaveBegin \/ ArrangeStep
  BY <1>5 DEF Create, Edit, SaveBegin, ArrangeStep
<1>6. CASE LayoutEdit
  BY <1>6 DEF LayoutEdit, AddSegment, AddToSegment, SetAddress, SetData, AppendData, Edit, Faults
<1>7. CASE Read
  BY <1>2, <1>7 DEF Read, OpenList, CountDynamic, core
<1>8. CASE UNCHANGED vars
  BY <1>2, <1>8 DEF vars, core
<1> QED BY <1>3, <1>4, <1>5, <1>6, <1>7, <1>8 DEF Next

(* save does not give up on a regular object: the distance of a section     *)
(* from its segment's start is never behind what is laid out                *)
(* (elfio.hpp:850-857).                                                     *)
THEOREM RegularIsSaved == Spec => RegularSaves
<1>1. TablesInv /\ [Next]_vars => [pc = "members" /\ reply' = "failed" => ~ regular]_<<pc, reply>>
  BY OnlySaveFails
<1> QED BY SpecTables, <1>1, PTL DEF Spec, RegularSaves
=============================================================================
