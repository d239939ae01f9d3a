---------------------------- MODULE MCIndexBuild ----------------------------
(***************************************************************************)
(* Instances of IndexBuild: small tables with NULLs, lists of several      *)
(* arena blocks, a flush for every row, and no terms at all.               *)
(***************************************************************************)
EXTENDS IndexBuild

MCTermLength(t) == t
MCLengthTable   == <<0, 1, 2, 4, 8>>

None    == <<>>
One     == 1 :> 1
Wide(n) == (1 :> n) @@ (2 :> 1) @@ (3 :> n)

\* A list of one term that grows over its first block.
LongList == (<<0, 1>> :> One) @@ (<<0, 2>> :> (1 :> 2)) @@ (<<1, 1>> :> One)
              @@ (<<1, 2>> :> None) @@ (<<2, 1>> :> ((1 :> 1) @@ (3 :> 1)))
              @@ (<<2, 2>> :> (2 :> 2))
\* Every row fills the budget.
ManyFlushes == (<<0, 1>> :> Wide(1)) @@ (<<0, 2>> :> Wide(3)) @@ (<<1, 1>> :> Wide(2))
                 @@ (<<2, 1>> :> (2 :> 1))
Single    == <<0, 1>> :> One
NoLexemes == <<0, 1>> :> None

MCHeaps    == {LongList, ManyFlushes, Single, NoLexemes}
MCFreeTids == {<<1, 3>>, <<3, 1>>, <<3, 2>>}
MCNewRows  == {One, (2 :> 1) @@ (3 :> 2)}

=============================================================================
