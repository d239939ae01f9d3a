----------------------------- MODULE ArenaLists -----------------------------
(***************************************************************************)
(* Memory of an index build: the page-based arena, and the exponential     *)
(* unrolled linked lists of postings that live in it.                      *)
(*                                                                         *)
(* An address is a pair of a page and a byte offset in it.  The arena's    *)
(* memory is a function from the addresses that were written to links and  *)
(* entries.                                                                *)
(***************************************************************************)
EXTENDS Integers, Sequences, TLC

CONSTANTS
    ArenaPageSize,      \* ARENA_PAGE_SIZE
    FirstBlockLog2,     \* TP_EXPULL_FIRST_BLOCK_LOG2
    MaxBlockLog2        \* TP_EXPULL_MAX_BLOCK_LOG2

ASSUME ArenaAssumption ==
    /\ FirstBlockLog2 \in Nat /\ MaxBlockLog2 \in Nat /\ FirstBlockLog2 <= MaxBlockLog2
    /\ 2 ^ FirstBlockLog2 >= 11
    /\ ArenaPageSize \in Nat /\ 2 ^ MaxBlockLog2 <= ArenaPageSize

EntryBytes == 7                          \* TP_EXPULL_ENTRY_SIZE
LinkBytes  == 4                          \* TP_EXPULL_LINK_SIZE
Nowhere    == <<-1, -1>>                 \* ARENA_ADDR_INVALID
NoPosting  == [doc |-> 0, freq |-> 0, norm |-> 0]
Lower(a, b) == IF a <= b THEN a ELSE b

-----------------------------------------------------------------------------
(* The arena. *)

\* tp_arena_create, and what tp_arena_reset goes back to: one page, nothing on it.
NewArena == [pages |-> 1, offset |-> 0, bytes |-> 0, mem |-> <<>>]

AddPage(a) == [a EXCEPT !.pages = @ + 1, !.offset = 0]
Aligned(size) == 4 * ((size + 3) \div 4)

\* The arena after an allocation, which starts Aligned(size) before its end.
Alloc(a, size) ==
    LET page == IF a.offset + Aligned(size) > ArenaPageSize THEN AddPage(a) ELSE a
    IN  [page EXCEPT !.offset = @ + Aligned(size), !.bytes = @ + Aligned(size)]
Allocated(a, size) == <<a.pages - 1, a.offset - Aligned(size)>>

Poke(a, addr, v) == [a EXCEPT !.mem = addr :> v @@ @]
Link(a, addr)    == IF addr \in DOMAIN a.mem THEN a.mem[addr] ELSE Nowhere
Entry(a, addr)   == IF addr \in DOMAIN a.mem THEN a.mem[addr] ELSE NoPosting
Shifted(addr, n) == <<addr[1], addr[2] + n>>

-----------------------------------------------------------------------------
(* The lists. *)

ListBlockSize(k) == 2 ^ Lower(FirstBlockLog2 + k, MaxBlockLog2)

NewList == [head |-> Nowhere, last |-> Nowhere, tail |-> Nowhere,
            room |-> 0, blocks |-> 0, entries |-> 0]

\* The block at an address becomes the last of list l.
BlockLinked(a, l, block, size) ==
    [arena |-> LET fresh == Poke(a, block, Nowhere)
               IN  IF l.last # Nowhere THEN Poke(fresh, l.last, block) ELSE fresh,
     list  |-> [l EXCEPT !.head = IF l.last # Nowhere THEN @ ELSE block,
                         !.last = block,
                         !.tail = Shifted(block, LinkBytes),
                         !.room = size - LinkBytes,
                         !.blocks = @ + 1]]

\* expull_alloc_block: a new block at the end of list l in arena a.
WithBlock(a, l) ==
    LET size == ListBlockSize(l.blocks)
        grown == Alloc(a, size)
    IN  BlockLinked(grown, l, Allocated(grown, size), size)

\* tp_expull_append, to an arena and a list that has room.
Put(g, posting) ==
    [arena |-> Poke(g.arena, g.list.tail, posting),
     list  |-> [g.list EXCEPT !.tail = Shifted(@, EntryBytes),
                              !.room = @ - EntryBytes,
                              !.entries = @ + 1]]
Appended(a, l, posting) ==
    Put(IF l.room < EntryBytes THEN WithBlock(a, l) ELSE [arena |-> a, list |-> l], posting)

\* tp_expull_reader_init
ReaderOf(l) ==
    IF l.entries = 0 \/ l.head = Nowhere
    THEN [block |-> Nowhere, offset |-> 0, size |-> 0, num |-> 0, left |-> l.entries]
    ELSE [block |-> l.head, offset |-> 0, size |-> ListBlockSize(0) - LinkBytes,
          num |-> 0, left |-> l.entries]

\* The reader in the block that its block links to; a block's size follows
\* from its number.
NextBlock(a, r) ==
    IF Link(a, r.block) = Nowhere THEN [r EXCEPT !.block = Nowhere]
    ELSE [r EXCEPT !.block = Link(a, r.block), !.offset = 0, !.num = @ + 1,
                   !.size = ListBlockSize(r.num + 1) - LinkBytes]

\* tp_expull_reader_read: up to max entries, and the reader behind them.
RECURSIVE ReadEntries(_, _, _)
ReadEntries(a, r, max) ==
    LET whole == (r.size - r.offset) \div EntryBytes
        n     == Lower(Lower(whole, max), r.left)
        here  == [i \in 1 .. n |->
                    Entry(a, Shifted(r.block, LinkBytes + r.offset + (i - 1) * EntryBytes))]
    IN  IF max = 0 \/ r.left = 0 \/ r.block = Nowhere THEN [out |-> <<>>, reader |-> r]
        ELSE IF whole = 0 THEN ReadEntries(a, NextBlock(a, r), max)
        ELSE LET more == ReadEntries(a, [r EXCEPT !.offset = @ + n * EntryBytes, !.left = @ - n],
                                     max - n)
             IN  [out |-> here \o more.out, reader |-> more.reader]

=============================================================================
