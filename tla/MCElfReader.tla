---------------------------- MODULE MCElfReader ----------------------------
(***************************************************************************)
(* Small ELF files for ElfReader: a null section, two sections out of a    *)
(* handful and a string table after them, with one segment or none, cut at *)
(* every place where something else is lost.                               *)
(***************************************************************************)
EXTENDS ElfReader

Sh(type, alloc, deflate, addr, offset, size, prefix, body, nul) ==
    [name |-> 4, type |-> type, alloc |-> alloc, deflate |-> deflate, addr |-> addr,
     offset |-> offset, size |-> size, prefix |-> prefix, body |-> body, nul |-> nul]

Null     == [Sh("null", FALSE, FALSE, 0, 0, 0, 0, Broken, -1) EXCEPT !.name = 0]
Plain    == Sh("bits", TRUE, FALSE, 64, 212, 8, 0, Broken, -1)
Zipped   == Sh("bits", TRUE, TRUE, 96, 220, 8, 24, 24, -1)
ZipLoose == Sh("bits", FALSE, TRUE, 0, 220, 8, 24, 16, -1)
ZipOver  == Sh("bits", FALSE, TRUE, 0, 220, 8, 24, 28, -1)
ZipBroke == Sh("bits", FALSE, TRUE, 0, 220, 8, 24, Broken, -1)
ZipTiny  == Sh("bits", FALSE, TRUE, 0, 220, 3, 24, 24, -1)
ZipNone  == Sh("bits", FALSE, TRUE, 0, 220, 0, 24, 24, -1)
Bss      == Sh("nobits", TRUE, FALSE, 128, 0, 64, 0, Broken, -1)
Huge     == Sh("bits", FALSE, FALSE, 0, 220, 500, 0, Broken, -1)
Strings  == Sh("bits", FALSE, FALSE, 0, 228, 12, 0, Broken, 11)
Ragged   == [Strings EXCEPT !.nul = 2]

Bodies == {Plain, Zipped, ZipLoose, ZipOver, ZipBroke, ZipTiny, ZipNone, Bss, Huge}

Ph(type, offset, filesz) ==
    [type |-> type, offset |-> offset, vaddr |-> 64, filesz |-> filesz, memsz |-> 64]
SegmentLists ==
    {<<>>, <<Ph("load", 212, 16)>>, <<Ph("load", 212, 16), Ph("load", 220, 60)>>,
     <<Ph("null", 0, 16), Ph("load", 0, 400)>>, <<Ph("null", 0, 16), Ph("load", 212, 16)>>}

(* Within the ELF header, a section header (before and after its size), a   *)
(* section's contents, the string table, the segment headers; whole         *)
Lengths == {8, 40, 52, 120, 136, 172, 216, 224, 234, 240, 272, 304}

File(secs, segs, length) ==
    [exists |-> TRUE, magic |-> TRUE, length |-> length, shoff |-> 52, shentsize |-> 40,
     shstrndx |-> 3, sections |-> secs, phoff |-> 240, phentsize |-> 32,
     segments |-> segs]

Whole == File(<<Null, Plain, Zipped, Strings>>, <<>>, 304)

MCFiles ==
    {File(<<Null, a, b, Strings>>, <<>>, n) : a, b \in Bodies, n \in Lengths}
    \cup {File(<<Null, Plain, b, s>>, g, n) :
             b \in Bodies, s \in {Strings, Ragged}, g \in SegmentLists, n \in Lengths}
    \cup {[Whole EXCEPT !.exists = FALSE], [Whole EXCEPT !.magic = FALSE],
          [Whole EXCEPT !.shentsize = 32], [Whole EXCEPT !.shentsize = 44],
          [Whole EXCEPT !.shstrndx = 0], [Whole EXCEPT !.shstrndx = 9],
          [File(<<Null, Plain>>, <<Ph("load", 212, 8)>>, 304) EXCEPT !.phentsize = 24],
          [File(<<>>, <<>>, 52) EXCEPT !.shentsize = 0, !.shstrndx = 0]}
=============================================================================
