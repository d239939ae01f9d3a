---------------------------- MODULE SegmentFile -----------------------------
(***************************************************************************)
(* The format of a segment: what its writers lay out and what its readers  *)
(* make of it.                                                             *)
(*                                                                         *)
(* A term is a number, its rank in the order of strcmp; a ctid is a pair   *)
(* of a heap block and an offset.  Items of several bytes whose order with *)
(* page boundaries matters take two cells, a byte of a compressed block    *)
(* one.  Offsets count cells from 0, doc ids count from 0.                 *)
(***************************************************************************)
EXTENDS SegmentPages, PostingCodec

CONSTANTS
    TermLength(_),      \* cells of a term's text
    LengthTable         \* FIELDNORM_DECODE_TABLE: ascending, the first is 0

ASSUME TableAssumption ==
    /\ LengthTable[1] = 0
    /\ \A i \in 1 .. Len(LengthTable) - 1 : LengthTable[i] < LengthTable[i + 1]

\* encode_fieldnorm
EncodeFieldnorm(length) ==
    Max({i \in DOMAIN LengthTable : LengthTable[i] <= length}) - 1

Before(a, b) == a[1] < b[1] \/ (a[1] = b[1] /\ a[2] < b[2])     \* ItemPointerCompare

NoEntry == [skip |-> 0, blocks |-> 0, freq |-> 0]
NoSkip  == [last |-> 0, count |-> 0, tf |-> 0, norm |-> 0, at |-> 0, delta |-> FALSE]

-----------------------------------------------------------------------------
(* Cells. *)

Cell(kind, v)     == [k |-> kind, part |-> 1, v |-> v]
Split(kind, v)    == <<Cell(kind, v), [Cell(kind, v) EXCEPT !.part = 2]>>
AllSplit(kind, s) == FlattenSeq([i \in DOMAIN s |-> Split(kind, s[i])])
Cells(kind, s)    == [i \in DOMAIN s |-> Cell(kind, s[i])]

\* What two cells hold; torn ones hold the default.
Whole(cells, kind, default) ==
    IF /\ Len(cells) = 2
       /\ \A i \in 1 .. 2 : cells[i].k = kind /\ cells[i].part = i
       /\ cells[1].v = cells[2].v
    THEN cells[1].v ELSE default

-----------------------------------------------------------------------------
(* The layout.  A term to write is a record of the term, its blocks of     *)
(* postings and the frequency that its entry gets; a document is a record  *)
(* of its ctid and its fieldnorm.                                          *)

StringCells(term) == 2 + TermLength(term)
StringOffsets(terms) ==
    [i \in DOMAIN terms |->
       MapThenSumSet(LAMBDA j : StringCells(terms[j].term), 1 .. i - 1)]
StringPool(terms) ==
    FlattenSeq([i \in DOMAIN terms |->
        <<Cell("word", TermLength(terms[i].term))>>
          \o [j \in 1 .. TermLength(terms[i].term) |-> Cell("text", terms[i].term)]
          \o <<Cell("word", 2 * (i - 1))>>])

HeaderFor(level, docs, tokens) ==
    [level |-> level, num_docs |-> docs, total_tokens |-> tokens,
     num_terms |-> 0, next_segment |-> NoBlock, num_pages |-> 0, page_index |-> NoBlock,
     dictionary |-> 1, strings |-> 0, entries |-> 0, postings |-> 0, skip_index |-> 0,
     fieldnorms |-> 0, ctid_pages |-> 0, ctid_offsets |-> 0, data_size |-> 0]

\* From the header to the placeholders of the dictionary's entries.
Preamble(header, terms) ==
    <<Cell("header", header), Cell("word", Len(terms))>>
      \o Cells("word", StringOffsets(terms)) \o StringPool(terms)
      \o AllSplit("entry", [i \in DOMAIN terms |-> NoEntry])

\* The blocks of all terms one behind the other, each with its skip entry.
BlockCells(block, compress) ==
    IF compress THEN Cells("byte", Compressed(block)) ELSE AllSplit("posting", block)
RECURSIVE LayBlocks(_, _, _)
LayBlocks(blocks, at, compress) ==
    IF blocks = <<>> THEN <<>>
    ELSE LET cells == <<>> \o BlockCells(Head(blocks), compress)
         IN  <<[cells |-> cells, skip |-> Skip(Head(blocks), at, compress)]>>
               \o LayBlocks(Tail(blocks), at + Len(cells), compress)

\* Skip entries, fieldnorms and ctids, behind the postings.
Appendix(skips, docs) ==
    AllSplit("skip", skips)
      \o [i \in DOMAIN docs |-> Cell("word", docs[i].norm)]
      \o [i \in DOMAIN docs |-> Cell("word", docs[i].ctid[1])]
      \o [i \in DOMAIN docs |-> Cell("word", docs[i].ctid[2])]

\* The entries that take the placeholders' place.
DictEntries(terms, skip_index) ==
    [i \in DOMAIN terms |->
       [skip   |-> skip_index
                     + 2 * MapThenSumSet(LAMBDA j : Len(terms[j].blocks), 1 .. i - 1),
        blocks |-> Len(terms[i].blocks),
        freq   |-> terms[i].freq]]

\* The header, once the sections' places are known.
FilledHeader(header, terms, docs, postings, skip_index, norms) ==
    [header EXCEPT
        !.num_terms    = Len(terms),
        !.num_docs     = Len(docs),
        !.strings      = 2 + Len(terms),
        !.entries      = postings - 2 * Len(terms),
        !.postings     = postings,
        !.skip_index   = skip_index,
        !.fieldnorms   = norms,
        !.ctid_pages   = norms + Len(docs),
        !.ctid_offsets = norms + 2 * Len(docs),
        !.data_size    = norms + 3 * Len(docs)]

\* All that a writer writes: the stream, and what it goes back to write.
Arranged(header, terms, docs, preamble, posts, skips) ==
    LET skip_index == Len(preamble) + Len(posts)
    IN  [cells   |-> preamble \o posts \o Appendix(skips, docs),
         entries |-> AllSplit("entry", DictEntries(terms, skip_index)),
         header  |-> FilledHeader(header, terms, docs, Len(preamble), skip_index,
                                  skip_index + 2 * Len(skips))]
LayoutOf(header, terms, docs, preamble, laid) ==
    Arranged(header, terms, docs, preamble,
             <<>> \o FlattenSeq([j \in DOMAIN laid |-> laid[j].cells]),
             <<>> \o [j \in DOMAIN laid |-> laid[j].skip])
Layout(header, terms, docs, compress) ==
    LET preamble == <<>> \o Preamble(header, terms)
    IN  LayoutOf(header, terms, docs, preamble,
                 LayBlocks(FlattenSeq([i \in DOMAIN terms |-> terms[i].blocks]),
                           Len(preamble), compress))

\* Onto pages: the stream, then the page index, then the entries and the header
\* over what the stream left in their place.  The buffer counts as empty once the
\* stream is flushed, so that finishing does not write it over them.  A context
\* and a memtable are finished before the header is written, a merge after it.
Streamed(rel, layout) == Flush(Write(WriterInit(rel), layout.cells))
\* The buffer still counts as full.
BufferKept(w, index) == [w EXCEPT !.rel = index.rel]
WithPageIndex(w, index) == [w EXCEPT !.rel = index.rel, !.buf = <<>>]
Indexed(w, layout) ==
    LET index == WritePageIndex(w.rel, w.pages)
    IN  [writer |-> WithPageIndex(w, index),
         layout |-> [layout EXCEPT !.header.page_index = index.root,
                                   !.header.num_pages = Len(w.pages)]]
WithEntries(w, layout) ==
    [w EXCEPT !.rel = WriteAt(@, w.pages, layout.header.entries, layout.entries)]
WithHeader(w, layout) ==
    [w EXCEPT !.rel = WriteAt(@, w.pages, 0, <<Cell("header", layout.header)>>)]
Done(w) == [rel |-> w.rel, root |-> w.pages[1]]

BackPatched(x) == Done(WithHeader(Finish(WithEntries(x.writer, x.layout)), x.layout))
Paged(rel, layout) == BackPatched(Indexed(Streamed(rel, layout), layout))

MergeBackPatched(x) == Done(Finish(WithHeader(WithEntries(x.writer, x.layout), x.layout)))
PagedMerge(rel, layout) == MergeBackPatched(Indexed(Streamed(rel, layout), layout))

\* Into a file, over whatever is there, from a position on.
Patched(file, at, cells) ==
    [i \in 1 .. (IF at + Len(cells) > Len(file) THEN at + Len(cells) ELSE Len(file)) |->
       IF i - at \in DOMAIN cells THEN cells[i - at] ELSE file[i]]
Flat(file, base, layout) ==
    <<>> \o Patched(Patched(Patched(file, base, layout.cells),
                            base + layout.header.entries, layout.entries),
                    base, <<Cell("header", layout.header)>>)

-----------------------------------------------------------------------------
(* Reading. *)

ReadWord(r, at) == Read(r, at, 1)[1].v

ReadStringOffset(r, i) == ReadWord(r, r.header.dictionary + i)
ReadTerm(r, i) ==
    LET at   == r.header.strings + ReadStringOffset(r, i)
        text == Read(r, at + 1, ReadWord(r, at))
    IN  text[1].v
ReadEntry(r, i) == Whole(Read(r, r.header.entries + 2 * (i - 1), 2), "entry", NoEntry)
ReadSkip(r, skip_index, b) == Whole(Read(r, skip_index + 2 * (b - 1), 2), "skip", NoSkip)

Dictionary(r) ==
    [i \in 1 .. r.header.num_terms |-> [term |-> ReadTerm(r, i), entry |-> ReadEntry(r, i)]]

\* The block that a skip entry points to.  For a compressed block the reader
\* always asks for as many cells as a compressed block may have.
Loads(r, skip) == skip.delta => skip.at + MaxCompressed <= Len(r.image)
LoadBlock(r, skip) ==
    LET cells == Read(r, skip.at, MaxCompressed)
    IN  IF skip.delta
        THEN Decompressed(<<>> \o [i \in DOMAIN cells |-> cells[i].v], skip.count)
        ELSE [j \in 1 .. skip.count |->
                Whole(Read(r, skip.at + 2 * (j - 1), 2), "posting",
                      [doc |-> 0, freq |-> 0, norm |-> 0])]

LookupCtid(r, doc) ==
    <<ReadWord(r, r.header.ctid_pages + doc), ReadWord(r, r.header.ctid_offsets + doc)>>

=============================================================================
