----------------------------- MODULE IndexScan -----------------------------
(***************************************************************************)
(* An index scan: PostgreSQL asks for one row after another.  The first    *)
(* request executes the query; when its results run out and there were as  *)
(* many as asked for, the limit is doubled, the query is executed again    *)
(* and the scan goes on at the position it had reached.  Each execution is *)
(* a search of BlockMaxWand.  Nothing is inserted between two executions.  *)
(***************************************************************************)
EXTENDS BlockMaxWand

CONSTANTS
  Indexes,     \* the contents that an index may have
  Limits,      \* the limits that queries begin with
  MaxLimit     \* TP_MAX_QUERY_LIMIT

ASSUME ScanAssumption ==
  /\ MaxLimit \in Nat
  /\ Limits \subseteq 1..MaxLimit

\* An index whose rows were inserted in the order of their ctids: a document has
\* one ctid and is in one place, the documents of a segment are numbered in the
\* order of their ctids, and a term's postings are in the order of the documents.
WellFormed(ix) ==
  /\ ix.query \in Seq(Nat \ {0})
  /\ IsFiniteSet(ix.memtable)
  /\ \A d \in ix.memtable :
       /\ d.ctid \in Nat \ {0}
       /\ d.len \in Lengths
       /\ d.tf \in [DOMAIN ix.query -> Frequencies \union {0}]
  /\ \A d, e \in ix.memtable : d.ctid = e.ctid => d = e
  /\ Len(ix.segments) \in Nat
  /\ DOMAIN ix.segments = 1..Len(ix.segments)
  /\ \A s \in DOMAIN ix.segments :
       LET ctids == ix.segments[s].ctids
           postings == ix.segments[s].postings
       IN  /\ ctids \in Seq(Nat \ {0})
           /\ Len(ctids) < NoDoc
           /\ \A d, e \in DOMAIN ctids : d < e => ctids[d] < ctids[e]
           /\ postings \in Seq(Seq([doc : DOMAIN ctids, tf : Frequencies, len : Lengths]))
           /\ Len(postings) = Len(ix.query)
           /\ \A t \in DOMAIN postings : \A i, j \in DOMAIN postings[t] :
                i < j => postings[t][i].doc < postings[t][j].doc
           /\ \A d \in ix.memtable, e \in DOMAIN ctids : d.ctid # ctids[e]
           /\ \A r \in DOMAIN ix.segments \ {s} :
                \A d \in DOMAIN ctids, e \in DOMAIN ix.segments[r].ctids :
                  ctids[d] # ix.segments[r].ctids[e]

ASSUME IndexesAssumption == \A ix \in Indexes : WellFormed(ix)

VARIABLES
  phase,       \* asked: not executed yet, searching, serving, ended
  position,    \* how many of the results have been returned
  old_count,   \* the number of results of the execution before this one
  served       \* the rows returned, as pairs of a ctid and a score

vars == <<index, searchVars, phase, position, old_count, served>>

Init ==
  /\ index \in Indexes
  /\ max_results \in Limits
  /\ weight = [t \in DOMAIN index.query |-> 0]
  /\ heap = <<>>
  /\ todo = {}
  /\ seg = 0
  /\ terms = <<>>
  /\ active = 0
  /\ pivot = NoPivot
  /\ step = "done"
  /\ results = <<>>
  /\ phase = "asked"
  /\ position = 0
  /\ old_count = 0
  /\ served = <<>>

\* The first call of tp_gettuple after tp_rescan.
Execute ==
  /\ phase = "asked"
  /\ Start(max_results)
  /\ phase' = "searching"
  /\ UNCHANGED <<index, position, old_count, served>>

Search ==
  /\ phase = "searching"
  /\ SearchStep
  /\ UNCHANGED <<phase, position, old_count, served>>

\* Results that were returned already are skipped, by number.  Without more
\* of them than before the scan is over.
ResumedFromStart(n) == 0
Resumed(n) == n
Deliver ==
  /\ phase = "searching"
  /\ step = "done"
  /\ position' = Resumed(old_count)
  /\ phase' = IF Len(results) > old_count THEN "serving" ELSE "ended"
  /\ UNCHANGED <<index, searchVars, old_count, served>>

ReturnRow ==
  /\ phase = "serving"
  /\ position < Len(results)
  /\ position' = position + 1
  /\ served' = Append(served, results[position + 1])
  /\ UNCHANGED <<index, searchVars, phase, old_count>>

\* Fewer results than asked for are all there are.
MayHaveMoreStrictly == Len(results) > max_results /\ max_results < MaxLimit
MayHaveMore == Len(results) >= max_results /\ max_results < MaxLimit

ExecuteAgain ==
  /\ phase = "serving"
  /\ position = Len(results)
  /\ MayHaveMore
  /\ old_count' = Len(results)
  /\ Start(Min({2 * max_results, MaxLimit}))
  /\ phase' = "searching"
  /\ UNCHANGED <<index, position, served>>

EndScan ==
  /\ phase = "serving"
  /\ position = Len(results)
  /\ ~MayHaveMore
  /\ phase' = "ended"
  /\ UNCHANGED <<index, searchVars, position, old_count, served>>

\* tp_endscan.
Closed == phase = "ended" /\ UNCHANGED vars

Next == Execute \/ Search \/ Deliver \/ ReturnRow \/ ExecuteAgain \/ EndScan \/ Closed

\* The executor goes on asking and the backend runs until the scan has ended:
\* this is WF_vars(Next), as a step that changes something is enabled exactly
\* then, spelled out because evaluating ENABLED takes TLC too long.
Fairness == []<>(phase = "ended") \/ []<><<TRUE>>_vars

Spec == Init /\ [][Next]_vars /\ Fairness

-----------------------------------------------------------------------------
(* What the query means: every document is scored, and all are sorted.     *)

SegmentScore(s, d) ==
  SumFunction([t \in DOMAIN index.query |->
    LET ps == {p \in Range(index.segments[s].postings[t]) : p.doc = d}
    IN  IF ps = {} THEN 0 ELSE Contribution(t, CHOOSE p \in ps : TRUE)])

Found ==
  {r \in {[ctid |-> d.ctid, score |-> MemtableScore(d)] : d \in index.memtable}
         \union UNION {{[ctid |-> index.segments[s].ctids[d], score |-> SegmentScore(s, d)] :
                          d \in DOMAIN index.segments[s].ctids} : s \in DOMAIN index.segments} :
     r.score > 0}
Ranking ==
  LET found == Found
      at(i) == CHOOSE r \in found : Cardinality({q \in found : Better(q, r)}) = i - 1
  IN  [i \in 1..Cardinality(found) |-> <<at(i).ctid, at(i).score>>]

\* The best of them, n at most.
FirstOnes(n) == LET ranking == Ranking IN SubSeq(ranking, 1, Min({n, Len(ranking)}))

\* All documents come from the memtable, or all from one segment.
OneSource == Len(index.segments) = 0 \/ (Len(index.segments) = 1 /\ index.memtable = {})

Finished == phase = "searching" /\ step = "done"

-----------------------------------------------------------------------------
(* Properties.                                                             *)

\* Types of the variables; the heap never outgrows the limit.
TypeOK ==
  /\ max_results \in 1..MaxLimit
  /\ weight \in [DOMAIN index.query -> Nat]
  /\ Len(heap) <= max_results
  /\ todo \subseteq index.memtable
  /\ seg \in 0..Len(index.segments)
  /\ seg > 0 => \A i \in DOMAIN terms : terms[i].at \in 1..(Len(Postings(terms[i].term)) + 1)
  /\ active \in 0..Len(terms)
  /\ pivot.len \in 0..Len(index.query)
  /\ step \in {"memtable", "next", "scan", "pivot", "seek", "bound", "advance", "done"}
  /\ phase \in {"asked", "searching", "serving", "ended"}
  /\ position \in 0..MaxLimit
  /\ old_count \in 0..MaxLimit

\* Whatever was skipped, block by block and document by document, a search
\* returns the best scores that there are (bmw.c: blocks and documents are
\* passed over only when they cannot enter the top k).
BestScores ==
  Finished =>
    LET best == FirstOnes(max_results)
    IN  [i \in DOMAIN results |-> results[i][2]] = [i \in DOMAIN best |-> best[i][2]]

\* Where all documents come from one source, a search returns exactly what
\* scoring everything and sorting by score and ctid would (bmw.c,
\* tp_topk_extract), document ids standing for ctids in the heap.
ExactFromOneSource ==
  Finished /\ OneSource => results = FirstOnes(max_results)

\* Across any number of executions a scan returns each matching document once
\* and in order, up to the greatest limit (scan.c, tp_gettuple).
EachRowOnce ==
  phase = "ended" /\ OneSource => served = FirstOnes(MaxLimit)

\* Every search and every scan ends: each seek makes progress.
ScanEnds == <>(phase = "ended")

=============================================================================
