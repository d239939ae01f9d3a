---------------------------- MODULE SegmentPages ----------------------------
(***************************************************************************)
(* The pages of an index relation and the two ways a segment is stored: on *)
(* pages that a page index lists, or as a flat run of a temporary file.    *)
(*                                                                         *)
(* Pages hold cells.  A cell stands for a byte or for a part of an item,   *)
(* so an item of several cells may lie on two pages.  Blocks are numbered  *)
(* from 1; block 0 is the metapage, which is kept apart.                   *)
(***************************************************************************)
EXTENDS Integers, Sequences, SequencesExt

CONSTANTS
    PageCells,          \* SEGMENT_DATA_PER_PAGE
    IndexEntries        \* entries of a page of the page index

ASSUME PagesAssumption == PageCells \in Nat \ {0} /\ IndexEntries \in Nat \ {0}

NoBlock   == 0                           \* InvalidBlockNumber
Blank     == [k |-> "blank", part |-> 1, v |-> 0]
EmptyPage == [data |-> [i \in 1 .. PageCells |-> Blank], list |-> <<>>,
              next |-> NoBlock, index |-> FALSE]

\* A relation's pages, those of the free space map, and those that merges ending
\* in an error had taken: no chain leads to them, and nobody frees them.
NewRelation == [blocks |-> <<>>, free |-> {}, lost |-> {}]

Smaller(a, b) == IF a <= b THEN a ELSE b

\* allocate_segment_page: a page of the free space map, else a new one.  The
\* map's choice among free pages is fixed to the lowest.
NewBlock(rel) == IF rel.free = {} THEN Len(rel.blocks) + 1 ELSE Min(rel.free)
WithPage(rel) ==
    IF rel.free = {} THEN [rel EXCEPT !.blocks = Append(@, EmptyPage)]
    ELSE [rel EXCEPT !.free = @ \ {Min(rel.free)}, !.blocks[Min(rel.free)] = EmptyPage]

-----------------------------------------------------------------------------
(* The writer of a segment. *)

WriterAllocate(w) ==
    [w EXCEPT !.rel = WithPage(@), !.pages = Append(@, NewBlock(w.rel))]
WriterInit(rel) ==
    WriterAllocate([rel |-> rel, pages |-> <<>>, page |-> 1, buf |-> <<>>, offset |-> 0])

\* The page gets the buffer, and blanks behind it.
Flush(w) ==
    IF w.page > Len(w.pages) THEN w
    ELSE [w EXCEPT !.rel.blocks[w.pages[w.page]].data =
            <<>> \o [i \in 1 .. PageCells |-> IF i <= Len(w.buf) THEN w.buf[i] ELSE Blank]]

NextPage(w) ==
    LET moved == [w EXCEPT !.page = @ + 1, !.buf = <<>>]
    IN  IF moved.page > Len(moved.pages) THEN WriterAllocate(moved) ELSE moved

\* A page is flushed when it is full, and left when there is more to write.
RECURSIVE Write(_, _)
Write(w, cells) ==
    LET n    == Smaller(PageCells - Len(w.buf), Len(cells))
        put  == [w EXCEPT !.buf = @ \o SubSeq(cells, 1, n), !.offset = @ + n]
        rest == SubSeq(cells, n + 1, Len(cells))
    IN  IF cells = <<>> THEN w
        ELSE IF Len(put.buf) < PageCells THEN put
        ELSE IF rest = <<>> THEN Flush(put)
        ELSE Write(NextPage(Flush(put)), rest)

Finish(w) == IF w.buf = <<>> THEN w ELSE Flush(w)

\* Cells written over what pages hold at a logical offset.
WriteAt(rel, pages, offset, cells) ==
    LET at(p, i) == (p - 1) * PageCells + i - offset
        over(p, page) ==
            [page EXCEPT !.data = <<>> \o [i \in 1 .. PageCells |->
                IF at(p, i) \in DOMAIN cells THEN cells[at(p, i)] ELSE @[i]]]
        touched == {p \in DOMAIN pages : \E i \in 1 .. PageCells : at(p, i) \in DOMAIN cells}
    IN  [rel EXCEPT !.blocks = <<>> \o [b \in DOMAIN @ |->
            IF \E p \in touched : pages[p] = b
            THEN over(CHOOSE p \in touched : pages[p] = b, @[b]) ELSE @[b]]]

-----------------------------------------------------------------------------
(* The page index: a chain of pages that list a segment's pages. *)

NumIndexPages(n) == (n + IndexEntries - 1) \div IndexEntries

RECURSIVE WithPages(_, _)
WithPages(rel, n) ==
    IF n = 0 THEN [rel |-> rel, new |-> <<>>]
    ELSE LET more == WithPages(WithPage(rel), n - 1)
         IN  [more EXCEPT !.new = <<NewBlock(rel)>> \o @]

\* The i-th of the pages new.
IndexPage(pages, new, i) ==
    [EmptyPage EXCEPT
        !.index = TRUE,
        !.list = SubSeq(pages, (i - 1) * IndexEntries + 1,
                        Smaller(i * IndexEntries, Len(pages))),
        !.next = IF i = Len(new) THEN NoBlock ELSE new[i + 1]]
FillIndex(g, pages) ==
    [rel  |-> [g.rel EXCEPT !.blocks = <<>> \o [b \in DOMAIN @ |->
                 IF b \in {g.new[i] : i \in DOMAIN g.new}
                 THEN IndexPage(pages, g.new, CHOOSE i \in DOMAIN g.new : g.new[i] = b)
                 ELSE @[b]]],
     root |-> g.new[1]]
WritePageIndex(rel, pages) == FillIndex(WithPages(rel, NumIndexPages(Len(pages))), pages)

\* The blocks of a chain of index pages, and the pages that they list.
RECURSIVE IndexChain(_, _)
IndexChain(rel, b) ==
    IF b = NoBlock \/ ~rel.blocks[b].index THEN <<>>
    ELSE <<b>> \o IndexChain(rel, rel.blocks[b].next)
ListedBy(rel, chain) == FlattenSeq([i \in DOMAIN chain |-> rel.blocks[chain[i]].list])

-----------------------------------------------------------------------------
(* Readers.  A reader has a copy of the header and an image of all that it *)
(* can reach; one that would report a corrupted segment has no image.      *)

HeaderOf(rel, root) == rel.blocks[root].data[1].v

PageMap(rel, h) ==
    LET listed == ListedBy(rel, IndexChain(rel, h.page_index))
    IN  SubSeq(listed, 1, Smaller(h.num_pages, Len(listed)))

Reader(rel, h, map) ==
    [header |-> h,
     image  |-> IF Len(map) = h.num_pages /\ \A p \in DOMAIN map : map[p] \in DOMAIN rel.blocks
                THEN FlattenSeq([p \in DOMAIN map |-> rel.blocks[map[p]].data])
                ELSE <<>>]
Open(rel, root) == Reader(rel, HeaderOf(rel, root), PageMap(rel, HeaderOf(rel, root)))

\* A flat segment starts somewhere in a file, and its reader sees the file's rest.
OpenFlat(file, base) ==
    [header |-> file[base + 1].v, image |-> SubSeq(file, base + 1, Len(file))]

\* tp_segment_read of n cells; nothing when the read goes past the end, which
\* is an error.
Read(r, at, n) ==
    IF at + n <= Len(r.image) THEN SubSeq(r.image, at + 1, at + n) ELSE <<>>

-----------------------------------------------------------------------------
(* What a merge gives back. *)

CollectDataPages(rel, root) == ToSet(PageMap(rel, HeaderOf(rel, root)))
CollectPages(rel, root) ==
    CollectDataPages(rel, root) \cup ToSet(IndexChain(rel, HeaderOf(rel, root).page_index))

FreePages(rel, blocks) == [rel EXCEPT !.free = @ \cup blocks]

\* A writer that an error ends: the pages keep what it has flushed, and are taken.
Abandoned(w) == [w.rel EXCEPT !.lost = @ \cup ToSet(w.pages)]

=============================================================================
