------------------------------ MODULE MCInitrd ------------------------------
EXTENDS Initrd

Entry(name, type, digits) == [name |-> name, type |-> type, size |-> digits]
Root == Entry("initrd/", "DIRTYPE", <<0, 0, 0>>)
Kinds == {Entry("a", "REGTYPE", <<0, 0, 0>>), Entry("a", "REGTYPE", <<0, 1, 1>>),
          Entry("b", "REGTYPE", <<0, 1, 0>>), Entry("c", "AREGTYPE", <<0, 0, 7>>),
          Entry("d", "DIRTYPE", <<0, 0, 0>>)}
Init1 == Entry("init", "REGTYPE", <<0, 1, 1>>)

\* Sizes that an address cannot hold, or hardly: 184 and 193 of 192.
Huge == {Entry("e", "REGTYPE", <<2, 7, 0>>), Entry("e", "REGTYPE", <<3, 0, 1>>)}
MCArchives == {<<Root>> \o s : s \in UNION {[1 .. n -> Kinds] : n \in 0 .. 3}}
    \union {<<Root, Init1>>} \union {<<Root, e>> : e \in Huge}
MCTails == {-24, -23, -1, 0, 1}
MCStrays == {<<0, 1, 1>>, <<2, 7, 0>>}

\* The archive at address 16, alone or with a module above or below it.
Module(start, end) == [type |-> "MODULE", start |-> start, end |-> end]
Other == [type |-> "MEMINFO", start |-> 0, end |-> 0]
Ends == {16 + Length(a, t) : a \in MCArchives, t \in MCTails} \ (-200 .. 16)
MCTagLists == {<<Other, Module(16, e)>> : e \in Ends}
        \union {<<Module(8, 16), Module(16, e), Other>> : e \in Ends}
        \union {<<Module(128, 136), Other, Module(16, e)>> : e \in Ends}

\* Pages of 8 bytes; the kernel is mapped from page 5 on and is in frames 2 and 3.
\* Pages 0 and 1 are mapped, there are two frames for pages 2, 3 and 4, and the
\* file has 9 bytes.
Segment(v, o, f, m) ==
    [type |-> "LOAD", p_vaddr |-> v, p_offset |-> o, p_filesz |-> f, p_memsz |-> m]
MCSegments == {Segment(2, 0, 3, 6), Segment(12, 2, 5, 5), Segment(14, 0, 7, 16),
               Segment(20, 1, 8, 12), Segment(24, 0, 9, 15), Segment(16, 0, 23, 23),
               Segment(8, 5, 6, 6), Segment(30, 0, 0, 2), Segment(33, 0, 7, 7),
               Segment(9, 0, 2, 1), Segment(186, 0, 3, 8), Segment(188, 0, 6, 9),
               Segment(56, 0, 3, 140), Segment(56, 0, 3, 4),
               [Segment(0, 0, 1, 1) EXCEPT !.type = "NOTE"]}
Common == {Segment(2, 0, 3, 6), Segment(12, 2, 5, 5), Segment(14, 0, 7, 16), Segment(20, 1, 8, 12),
           Segment(24, 0, 9, 15), Segment(16, 0, 23, 23)}
Binaries ==
    [e_ok : {TRUE}, length : {9},
     ph : UNION {[1 .. n -> MCSegments] : n \in 0 .. 1} \union [1 .. 2 -> Common]]
    \union [e_ok : {FALSE}, length : {9}, ph : {<<>>, <<Segment(2, 0, 3, 6)>>}]
MCContents(name) == IF name = "init" THEN Binaries ELSE {[e_ok |-> FALSE, ph |-> <<>>, length |-> 8]}
=============================================================================
