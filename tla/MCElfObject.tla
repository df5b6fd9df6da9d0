---------------------------- MODULE MCElfObject ----------------------------
(***************************************************************************)
(* Small objects for ElfObject.  Some are there to be laid out: three      *)
(* sections of every kind under many arrangements of segments, saved       *)
(* twice.  Some have tables, to which a client makes a few changes.        *)
(***************************************************************************)
EXTENDS ElfObject, TLC

MCNameSize == [n \in {"", "f", "gh", ".shstrtab"} |->
                  CASE n = "" -> 0 [] n = "f" -> 1 [] n = "gh" -> 2 [] n = ".shstrtab" -> 9]
MCHash == [n \in Names |-> CASE n = "" -> 0 [] n = "f" -> 5 [] n = "gh" -> 8 [] n = ".shstrtab" -> 2]

(* A section with its data, as load leaves it                               *)
With(type, size, entries) ==
    [Blank EXCEPT !.type = type, !.size = size, !.cap = size, !.room = size + 1,
                  !.stream = 400, !.entries = entries]
Strings == With("strtab", 1, <<[at |-> 0, is |-> ""]>>)

-----------------------------------------------------------------------------
(* Sections to lay out                                                      *)
Text   == [With("progbits", 6, <<>>) EXCEPT !.alloc = TRUE, !.align = 4]
Big    == [With("progbits", 5, <<>>) EXCEPT !.alloc = TRUE, !.align = 8]
Empty  == [Blank EXCEPT !.type = "progbits", !.alloc = TRUE, !.align = 4]
Bss    == [Blank EXCEPT !.type = "nobits", !.alloc = TRUE, !.align = 8, !.size = 4]
Tbss   == [Bss EXCEPT !.tls = TRUE]
Note   == [With("progbits", 3, <<>>) EXCEPT !.align = 1]
Kinds  == {Text, Big, Empty, Bss, Tbss, Note}

(* Three of them, without addresses or with addresses a few bytes apart     *)
At(s, a) == [s EXCEPT !.addr = a, !.addrSet = TRUE]
Threes == {<<Text, b, c>> : b, c \in Kinds}
          \cup {<<At(Text, 512), At(b, 518 + x), At(c, 518 + x + b.size + y)>> :
                   b, c \in Kinds, x \in {0, 2}, y \in {0, 5}}
          \cup {<<At(Text, 512), b, At(Big, 540)>> : b \in Kinds}

Ph(type, members, align, vaddr) ==
    [type |-> type, members |-> members, align |-> align, vaddr |-> vaddr, offset |-> 0,
     offsetSet |-> FALSE, filesz |-> 0, memsz |-> 0]
Loaded(g, offset, size) ==
    [g EXCEPT !.offset = offset, !.offsetSet = TRUE, !.filesz = size, !.memsz = size]

All == <<3, 4, 5>>
Arrangements ==
    {<<>>,
     <<Ph("load", All, 16, 512)>>,
     <<Ph("load", All, 16, 500)>>,
     <<Ph("load", <<3>>, 0, 512), Ph("load", <<4, 5>>, 4, 518)>>,
     <<Ph("phdr", <<>>, 4, 52), Ph("load", <<3, 4>>, 16, 512)>>,
     <<Ph("other", <<3>>, 4, 512), Ph("load", All, 16, 512)>>,
     <<Ph("other", <<4>>, 4, 518), Ph("load", All, 16, 512), Ph("tls", <<4>>, 4, 518)>>,
     <<Ph("load", <<3, 4>>, 8, 512), Ph("other", <<4, 5>>, 4, 518)>>,
     <<Loaded(Ph("load", <<4>>, 8, 518), 300, 6), Loaded(Ph("load", <<3>>, 4, 396), 0, 200)>>,
     <<Loaded(Ph("load", All, 16, 352), 0, 100), Ph("other", <<4>>, 1, 518), Ph("other", <<>>, 4, 0)>>}

Object(secs, segs) ==
    [sections |-> secs, segments |-> segs, header |-> TRUE, strings |-> 1, translated |-> FALSE,
     zlib |-> TRUE, edits |-> 0, saves |-> 2]

ToLayOut == {Object(<<Blank, With("strtab", 11, <<>>)>> \o three, segs) :
                three \in Threes, segs \in Arrangements}

-----------------------------------------------------------------------------
(* Tables to extend: the symbols f and gh, with relocations and hash tables *)
Symbol(at, bind, k, n) == [name |-> at, bind |-> bind, is |-> k, called |-> n]
Symtab == [With("symtab", 48, <<Symbol(0, "local", 0, ""), Symbol(1, "global", 1, "f"),
                                Symbol(3, "local", 2, "gh")>>)
              EXCEPT !.link = 3, !.entsize = SYM]
Strtab == With("strtab", 6, <<[at |-> 0, is |-> ""], [at |-> 1, is |-> "f"], [at |-> 3, is |-> "gh"]>>)
Rel == [With("rel", 16, <<[symbol |-> 1, wants |-> 1], [symbol |-> 2, wants |-> 2]>>)
           EXCEPT !.link = 4, !.entsize = REL]
SysVHash == [buckets |-> [b \in 0..1 |-> 2 - b], chains |-> [k \in 0..2 |-> 0]]
(* With two chains that never end, which is met when symbols were exchanged *)
SysVLoop == [SysVHash EXCEPT !.chains = [k \in 0..2 |-> k]]
SysV == [With("hash", 28, <<SysVHash>>) EXCEPT !.link = 4]
GnuHash == [bloom |-> {5, 8}, symoffset |-> 1, buckets |-> [b \in 0..1 |-> 2 - b],
            chains |-> [k \in 0..1 |-> [hash |-> IF k = 0 THEN 5 ELSE 8, last |-> TRUE]]]
Gnu  == [With("gnu_hash", 40, <<GnuHash>>) EXCEPT !.link = 4]
GnuOpen == [GnuHash EXCEPT !.chains = [k \in 0..1 |-> [hash |-> 5, last |-> FALSE]]]
NewSymtab == [Blank EXCEPT !.type = "symtab", !.link = 3, !.entsize = SYM]

Client(secs, n) == [Object(<<Blank, Strings>> \o secs, <<>>) EXCEPT !.edits = n, !.saves = 0]

WithTables ==
    {Client(<<Strtab, Symtab>> \o h, 3) : h \in {<<SysV>>, <<Gnu>>}}
    \cup {Client(<<Strtab, Symtab>> \o h, 2) :
             h \in {<<[SysV EXCEPT !.entries = <<SysVLoop>>]>>, <<[Gnu EXCEPT !.entries = <<GnuOpen>>]>>,
                   <<[SysV EXCEPT !.room = 0, !.cap = 0]>>}}
    \cup {Client(<<Strtab, Symtab, Rel, Gnu>>, 2),
          Client(<<[Strtab EXCEPT !.size = 0, !.cap = 0, !.room = 0, !.entries = <<>>], NewSymtab>>, 3),
          Client(<<Strtab, Symtab, [Rel EXCEPT !.cap = 0, !.room = 0, !.entries = <<>>]>>, 2),
          [Client(<<Strtab, NewSymtab>>, 2) EXCEPT !.translated = TRUE],
          Client(<<Strtab, [Symtab EXCEPT !.room = 0, !.cap = 0, !.entries = <<>>]>>, 2),
          Client(<<Strtab, [Symtab EXCEPT !.deflate = TRUE, !.stream = 40], Rel>>, 2)}

-----------------------------------------------------------------------------
(* Lists, each with two accessors                                           *)
List(type, entsize) == [Blank EXCEPT !.type = type, !.entsize = entsize, !.link = 2]
WithLists == {Client(<<List(type, IF type = "dynamic" THEN DYN ELSE 0)>>, 3) : type \in Lists \cup {"array"}}

(* Objects built from nothing, without a header, with names in the null     *)
(* section, and with what a client may add to a file that was loaded        *)
Built ==
    {[Client(<<>>, 4) EXCEPT !.saves = 1],
     [Client(<<>>, 2) EXCEPT !.header = FALSE, !.saves = 1, !.sections = <<>>],
     [Client(<<>>, 1) EXCEPT !.strings = 0, !.saves = 1],
     [Client(<<>>, 1) EXCEPT !.sections[2].cap = 0, !.sections[2].room = 0],
     Object(<<Blank, Strings, Blank, Text>>, <<Ph("load", <<3, 4>>, 4, 512)>>),
     Object(<<Blank, Strings, Text, Big>>, <<Ph("load", <<3, 4>>, 4, WORD - 8)>>),
     [Object(<<Blank, Strings, At(Text, 512), [Big EXCEPT !.deflate = TRUE]>>,
             <<Loaded(Ph("load", <<3>>, 4, 512), 100, 6)>>) EXCEPT !.edits = 2]}

MCObjects == ToLayOut \cup WithTables \cup WithLists \cup Built

MCSectionShapes == {[Blank EXCEPT !.type = "progbits", !.align = 4]}
MCSegmentShapes == {Ph("load", <<>>, 16, 512)}
=============================================================================
