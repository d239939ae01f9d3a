---------------------------- MODULE SegmentMerge ----------------------------
(***************************************************************************)
(* Merging segments: the terms of the sources, their documents under new   *)
(* doc ids, and the postings of each term.  A source is a reader; sources  *)
(* of which each has only ctids behind those of the one before may be      *)
(* merged as disjoint.                                                     *)
(***************************************************************************)
EXTENDS SegmentWriters

AllRead(dicts) == \A s \in DOMAIN dicts : dicts[s] = <<>>
At(dict, t)    == dict # <<>> /\ Head(dict).term = t

\* merge_find_min_source, and where its term occurs.
LeastTerm(dicts) == Min({Head(dicts[s]).term : s \in {v \in DOMAIN dicts : dicts[v] # <<>>}})
Refs(dicts, t) ==
    LET having == Ascending({s \in DOMAIN dicts : At(dicts[s], t)})
    IN  <<>> \o [i \in DOMAIN having |->
                    [source |-> having[i], entry |-> Head(dicts[having[i]]).entry]]

\* Only the source that was found first moves on.
RECURSIVE MergeTermsOneByOne(_)
MergeTermsOneByOne(dicts) ==
    IF AllRead(dicts) THEN <<>>
    ELSE LET least == LeastTerm(dicts)
             first == Min({s \in DOMAIN dicts : At(dicts[s], least)})
         IN  <<[term |-> least, refs |-> SubSeq(Refs(dicts, least), 1, 1)]>>
               \o MergeTermsOneByOne([dicts EXCEPT ![first] = Tail(@)])

\* All sources that stand at the least term move on together.
RECURSIVE MergeTerms(_)
MergeTerms(dicts) ==
    IF AllRead(dicts) THEN <<>>
    ELSE LET least == LeastTerm(dicts)
         IN  <<[term |-> least, refs |-> Refs(dicts, least)]>>
               \o MergeTerms(<<>> \o [s \in DOMAIN dicts |->
                    IF At(dicts[s], least) THEN Tail(dicts[s]) ELSE dicts[s]])

\* Lists of items with ctids become one: the list whose head has the least
\* ctid gives the next item, the first of several such lists.
FindMinSource(lists) ==
    LET open == {i \in DOMAIN lists : lists[i] # <<>>}
    IN  Min({i \in open : \A j \in open : ~Before(Head(lists[j]).ctid, Head(lists[i]).ctid)})
RECURSIVE ByCtid(_)
ByCtid(lists) ==
    IF \A i \in DOMAIN lists : lists[i] = <<>> THEN <<>>
    ELSE LET i == FindMinSource(lists)
         IN  <<Head(lists[i])>> \o ByCtid([lists EXCEPT ![i] = Tail(@)])

Combined(lists, disjoint) == <<>> \o (IF disjoint THEN FlattenSeq(lists) ELSE ByCtid(lists))

-----------------------------------------------------------------------------
(* The document map. *)

SourceDocs(r, s) ==
    <<>> \o [d \in 1 .. r.header.num_docs |->
        [source |-> s, doc |-> d - 1, ctid |-> LookupCtid(r, d - 1),
         norm |-> ReadWord(r, r.header.fieldnorms + d - 1)]]
MergedDocs(sources, disjoint) ==
    Combined(<<>> \o [s \in DOMAIN sources |-> SourceDocs(sources[s], s)], disjoint)

\* mapping->old_to_new
NewDocId(docs, s, d) ==
    (CHOOSE i \in DOMAIN docs : docs[i].source = s /\ docs[i].doc = d) - 1

-----------------------------------------------------------------------------
(* The postings. *)

\* What the cursor over the postings of a term in one source goes through.
WithCtids(r, s, postings) ==
    <<>> \o [i \in DOMAIN postings |->
        [source |-> s, doc |-> postings[i].doc, ctid |-> LookupCtid(r, postings[i].doc),
         freq |-> postings[i].freq, norm |-> postings[i].norm]]
SourcePostings(r, s, entry) ==
    WithCtids(r, s, FlattenSeq([b \in 1 .. entry.blocks |->
                                   LoadBlock(r, ReadSkip(r, entry.skip, b))]))

Renumbered(postings, docs) ==
    <<>> \o [i \in DOMAIN postings |->
        [doc |-> NewDocId(docs, postings[i].source, postings[i].doc),
         freq |-> postings[i].freq, norm |-> postings[i].norm]]
MergedPostings(sources, docs, refs, disjoint) ==
    Renumbered(Combined(<<>> \o [i \in DOMAIN refs |->
                            SourcePostings(sources[refs[i].source], refs[i].source, refs[i].entry)],
                        disjoint),
               docs)

LoadsAll(r, entry) == \A b \in 1 .. entry.blocks : Loads(r, ReadSkip(r, entry.skip, b))

\* A reading past the end of a source is an error that ends the merge.
MergeReads(sources) ==
    \A s \in DOMAIN sources : \A i \in 1 .. sources[s].header.num_terms :
        LoadsAll(sources[s], ReadEntry(sources[s], i))

-----------------------------------------------------------------------------
(* The merged segment. *)

MergedTerms(sources) ==
    MergeTerms(<<>> \o [s \in DOMAIN sources |-> <<>> \o Dictionary(sources[s])])

TotalTokens(sources) ==
    MapThenSumSet(LAMBDA s : sources[s].header.total_tokens, DOMAIN sources)

MergedTerm(term, list) == [term |-> term, blocks |-> Chunks(list), freq |-> Len(list)]
MergedList(sources, docs, terms, disjoint) ==
    <<>> \o [i \in DOMAIN terms |->
        MergedTerm(terms[i].term, MergedPostings(sources, docs, terms[i].refs, disjoint))]
MergedLayout(sources, docs, level, disjoint, compress) ==
    Layout(HeaderFor(level, Len(docs), TotalTokens(sources)),
           MergedList(sources, docs, MergedTerms(sources), disjoint), docs, compress)

WriteMerged(rel, sources, level, disjoint, compress) ==
    PagedMerge(rel, MergedLayout(sources, MergedDocs(sources, disjoint),
                                 level, disjoint, compress))

\* A merge that a reading past the end of a source ends: it has written all in
\* front of the postings, and the postings of the terms before the first term
\* that it cannot read.  (The blocks that it may have written of that term are
\* left out; they make no difference but for the number of pages.)
Unreadable(sources, refs) ==
    \E i \in DOMAIN refs : ~LoadsAll(sources[refs[i].source], refs[i].entry)
Readable(sources, terms) ==
    SubSeq(terms, 1,
           Min({i \in DOMAIN terms : Unreadable(sources, terms[i].refs)}) - 1)
FirstPostings(sources, docs, terms, compress) ==
    LET list == MergedList(sources, docs, Readable(sources, terms), FALSE)
        laid == LayBlocks(FlattenSeq([i \in DOMAIN list |-> list[i].blocks]), 0, compress)
    IN  FlattenSeq([j \in DOMAIN laid |-> laid[j].cells])
AbortedMerge(rel, sources, level, compress) ==
    LET terms == MergedTerms(sources)
        docs  == MergedDocs(sources, FALSE)
    IN  Abandoned(Write(WriterInit(rel),
                        Preamble(HeaderFor(level, Len(docs), TotalTokens(sources)), terms)
                          \o FirstPostings(sources, docs, terms, compress)))

=============================================================================
