------------------------------ MODULE MCLoader ------------------------------
(***************************************************************************)
(* Loader for TLC: small RPLs.  Addresses have 8 bits, text starts at 32,  *)
(* data at 64 and imports at 192; a block is a multiple of 8.              *)
(***************************************************************************)
EXTENDS Loader, TLC

Section(kind, addr, length) ==
    [kind |-> kind, addr |-> addr, size |-> length, info |-> 0, hasData |-> TRUE, entries |-> <<>>]
Null    == Section("other", 0, 0)
Text    == Section("progbits", TEXT, 12)
Rodata  == Section("progbits", DATA, 4)
Data    == Section("progbits", DATA + 5, 5)
BssSection == Section("nobits", DATA + 11, 4)
Imports == Section("imports", IMPORTS, 4)
Unread  == [Data EXCEPT !.hasData = FALSE]

Entry(type, offset, addend, symbol) ==
    [ok |-> TRUE, type |-> type, offset |-> offset, addend |-> addend,
     symbol |-> symbol]
Table(s, entries) == [Section("rel", 0, 0) EXCEPT !.info = s, !.entries = entries]
Exported(vs) == [Section("exports", IMPORTS + 8, 8) EXCEPT !.entries = vs]

(* Local relocations of text and data, among them one the linker refuses    *)
(* (too far), one of an unknown type and one that cannot be read            *)
TextTable(s) == Table(s, <<
    Entry("ADDR16_HA", TEXT, 0, DATA + 2), Entry("ADDR16_LO", TEXT + 2, 0, DATA + 2),
    Entry("REL24", TEXT + 4, 0, TEXT + 8), Entry("REL14", TEXT + 8, 0, DATA + 8),
    Entry("SDA21", TEXT + 8, 0, DATA + 6)>>)
DataTable(s) == Table(s, <<
    Entry("ADDR32", DATA + 6, 4, TEXT), Entry("ADDR32", DATA + 8, 0, DATA + 1),
    [Entry("ADDR32", DATA + 9, 0, TEXT) EXCEPT !.ok = FALSE], Entry("ADDR32", DATA + 9, 0, TEXT + 1)>>)

(* An import whose addend happens to name the import section (at index 5):  *)
(* the only way through process_relocations                                 *)
Lucky(type) == Entry(type, TEXT + 4, IF type = "ADDR32" THEN 5 - (IMPORTS + 4) ELSE 5, IMPORTS + 4)

Plain    == <<Null, Text, Rodata, Data, BssSection, TextTable(2), DataTable(4), Exported(<<TEXT + 4, TEXT + 8>>)>>
Split    == <<Null, Text, Rodata, Section("progbits", TEXT + 12, 4), TextTable(2), Exported(<<TEXT + 12>>)>>
DataFirst == <<Null, Data, Text, DataTable(2), TextTable(3)>>
Gap      == <<Null, Text, Rodata, Section("nobits", DATA + 40, 4), TextTable(2), Table(4, <<Entry("ADDR32", DATA + 40, 0, TEXT)>>)>>
High     == <<Null, Text, Section("progbits", IMPORTS + 16, 4), TextTable(2)>>
Low      == <<Null, Section("progbits", 16, 4), Text, TextTable(3), Table(2, <<Entry("ADDR32", 16, 0, 20)>>)>>
Broken   == <<Null, Text, Unread, TextTable(2)>>
NullRel  == <<Null, Text, Data, TextTable(2), [DataTable(3) EXCEPT !.hasData = FALSE]>>
NullLoose == <<Null, Text, [DataTable(3) EXCEPT !.hasData = FALSE]>>
NoTable  == <<Null, Text, [Exported(<<>>) EXCEPT !.hasData = FALSE]>>
Bound    == <<Null, Text, Rodata, Data, Imports, Table(2, <<Lucky("ADDR32"), Entry("REL24", TEXT + 8, 0, TEXT)>>), Exported(<<TEXT + 8>>)>>
Unbound  == <<Null, Text, Rodata, Data, Imports, Table(2, <<Lucky("ADDR14_TAKEN")>>)>>

(* Every order of up to three of six code sections, each with one table      *)
CodeSections == {Text, Section("progbits", TEXT + 12, 4), Rodata, Data, BssSection,
                 Section("progbits", DATA + 40, 4)}
Orders == {q \in UNION {[1..n -> CodeSections] : n \in 1..3} :
              \A i, j \in DOMAIN q : i # j => q[i] # q[j]}
OneTable(s, a) == Table(s, <<Entry("ADDR32", a, 0, TEXT + 12), Entry("ADDR32", a, 1, DATA + 2)>>)
Built(q) == <<Null>> \o q \o [i \in DOMAIN q |-> OneTable(i + 1, q[i].addr)]

AllOrders == {Built(q) : q \in Orders}

Layouts == AllOrders \cup {Plain, Split, DataFirst, Gap, High, Low, Broken, NullRel, NullLoose, NoTable, Bound, Unbound}

(* The libraries of the runs that look for one disagreement *)
ImportLibraries == {<<Null, Text, Rodata, Data, Imports,
    Table(2, <<Entry(type, TEXT + 4, 0, IMPORTS + 4)>>)>> : type \in {"ADDR32", "ADDR16_HA", "REL24"}}
ExportLibraries == {<<Null, Text, Rodata, Data, Exported(<<TEXT, TEXT + 4, DATA + 6>>)>>}
PaddedLibraries == {<<Null, Text, Rodata, Section("progbits", DATA + a, 4)>> : a \in {8, 16}}
=============================================================================
