--------------------------- MODULE SegmentWriters ---------------------------
(***************************************************************************)
(* What becomes a segment: the build context of CREATE INDEX, which has    *)
(* its doc ids from the order of arrival, and the memtable, whose          *)
(* documents are numbered when it is spilled.                              *)
(*                                                                         *)
(* A document is a function from its terms to their frequencies.           *)
(***************************************************************************)
EXTENDS SegmentFile, ArenaLists

RECURSIVE Ascending(_)
Ascending(S) == IF S = {} THEN <<>> ELSE <<Min(S)>> \o Ascending(S \ {Min(S)})

DocLength(doc) == MapThenSumSet(LAMBDA t : doc[t], DOMAIN doc)

-----------------------------------------------------------------------------
(* The build context. *)

NewContext == [arena |-> NewArena, terms |-> <<>>, fieldnorms |-> <<>>, ctids |-> <<>>, len |-> 0]

\* One term of a document: its text goes to the arena when it is new, and its
\* list gets the posting.
WithTerm(c, t) ==
    IF t \in DOMAIN c.terms THEN c
    ELSE [c EXCEPT !.arena = Alloc(@, TermLength(t) + 1), !.terms = t :> NewList @@ @]
Stored(c, t, g) == [c EXCEPT !.arena = g.arena, !.terms[t] = g.list]
Posted(c, t, posting) == Stored(c, t, Appended(c.arena, c.terms[t], posting))
WithPosting(c, t, posting) == Posted(WithTerm(c, t), t, posting)

RECURSIVE WithPostings(_, _, _, _, _)
WithPostings(c, terms, doc, id, norm) ==
    IF terms = <<>> THEN c
    ELSE WithPostings(WithPosting(c, Head(terms),
                                  [doc |-> id, freq |-> doc[Head(terms)], norm |-> norm]),
                      Tail(terms), doc, id, norm)

AddDocument(c, ctid, doc) ==
    LET norm == EncodeFieldnorm(DocLength(doc))
    IN  WithPostings([c EXCEPT !.fieldnorms = Append(@, norm), !.ctids = Append(@, ctid),
                               !.len = @ + DocLength(doc)],
                     Ascending(DOMAIN doc), doc, Len(c.ctids), norm)

ShouldFlush(c, budget) == budget # 0 /\ c.arena.bytes >= budget

\* The blocks of a term's list: the reader is asked for a full block each time.
RECURSIVE ReadBlocks(_, _, _)
ReadBlocks(arena, reader, n) ==
    IF n = 0 THEN <<>>
    ELSE LET got == ReadEntries(arena, reader, BlockSize)
         IN  <<got.out>> \o ReadBlocks(arena, got.reader, n - 1)
ContextBlocks(c, t) == ReadBlocks(c.arena, ReaderOf(c.terms[t]), NumBlocks(c.terms[t].entries))

ContextTerm(c, t) == [term |-> t, blocks |-> ContextBlocks(c, t), freq |-> c.terms[t].entries]
ContextTerms(c, terms) == [i \in DOMAIN terms |-> ContextTerm(c, terms[i])]

ContextDocs(c) == [i \in DOMAIN c.ctids |-> [ctid |-> c.ctids[i], norm |-> c.fieldnorms[i]]]

ContextLayout(c, compress) ==
    Layout(HeaderFor(0, Len(c.ctids), c.len), <<>> \o ContextTerms(c, Ascending(DOMAIN c.terms)),
           <<>> \o ContextDocs(c), compress)

\* tp_write_segment_from_build_ctx; a context without terms makes no segment.
WriteContext(rel, c, compress) ==
    IF DOMAIN c.terms = {} THEN [rel |-> rel, root |-> NoBlock]
    ELSE Paged(rel, ContextLayout(c, compress))

\* tp_write_segment_to_buffile: the file, with the segment from base on.
WriteContextFlat(file, base, c, compress) ==
    IF DOMAIN c.terms = {} THEN file ELSE Flat(file, base, ContextLayout(c, compress))

-----------------------------------------------------------------------------
(* The memtable: a list of postings per term, in the order of arrival, and *)
(* the length of each document.                                            *)

NewMemtable == [postings |-> <<>>, lengths |-> <<>>, total |-> 0]

\* tp_add_document_to_posting_list for each term, tp_store_document_length.
PostingsOf(m, t) == IF t \in DOMAIN m.postings THEN m.postings[t] ELSE <<>>
AddToPostings(m, ctid, doc) ==
    [t \in DOMAIN m.postings \cup DOMAIN doc |->
       IF t \in DOMAIN doc THEN Append(PostingsOf(m, t), [ctid |-> ctid, freq |-> doc[t]])
       ELSE m.postings[t]]
AddToMemtable(m, ctid, doc) ==
    [postings |-> AddToPostings(m, ctid, doc),
     lengths  |-> ctid :> DocLength(doc) @@ m.lengths,
     total    |-> m.total + Cardinality(DOMAIN doc)]

\* tp_docmap_finalize: doc ids in the order of the ctids.
RECURSIVE CtidOrder(_)
CtidOrder(S) ==
    IF S = {} THEN <<>>
    ELSE LET first == CHOOSE c \in S : \A d \in S \ {c} : Before(c, d)
         IN  <<first>> \o CtidOrder(S \ {first})
Docmap(m) ==
    LET ctids == CtidOrder(DOMAIN m.lengths)
    IN  [i \in DOMAIN ctids |->
           [ctid |-> ctids[i], norm |-> EncodeFieldnorm(m.lengths[ctids[i]])]]

DocmapLookup(docs, ctid) == (CHOOSE i \in DOMAIN docs : docs[i].ctid = ctid) - 1

\* The postings keep the order of arrival.
MemtablePostings(m, docs, t) ==
    [j \in DOMAIN m.postings[t] |->
       LET id == DocmapLookup(docs, m.postings[t][j].ctid)
       IN  [doc |-> id, freq |-> m.postings[t][j].freq, norm |-> docs[id + 1].norm]]
MemtableTerm(m, docs, t) ==
    [term   |-> t,
     blocks |-> Chunks(<<>> \o MemtablePostings(m, docs, t)),
     freq   |-> Len(m.postings[t])]
MemtableTerms(m, docs, terms) == [i \in DOMAIN terms |-> MemtableTerm(m, docs, terms[i])]

MemtableLayout(m, docs, total_len, compress) ==
    Layout(HeaderFor(0, Len(docs), total_len),
           <<>> \o MemtableTerms(m, docs, Ascending(DOMAIN m.postings)), docs, compress)

\* tp_write_segment; its header has the token count of the whole corpus.
WriteMemtable(rel, m, total_len, compress) ==
    IF DOMAIN m.postings = {} THEN [rel |-> rel, root |-> NoBlock]
    ELSE Paged(rel, MemtableLayout(m, <<>> \o Docmap(m), total_len, compress))

=============================================================================
