------------------------------- MODULE Malloc -------------------------------
(* malloc, free and realloc of a user program (libc/stdlib/malloc.c). The heap
   is a chain of blocks from heap_base to the break, each a header of eight
   bytes and its area, and the break comes from the kernel (sys_brk), which may
   refuse to move it up. Addresses and sizes are in units of MALLOC_ALIGNMENT;
   a request is its rounded size. Nothing but these calls moves the break.

   sbrk takes a signed increment: a request of 2 GiB or more lowers the break.
   The model follows such a call to its end, and stops there: what comes next
   reads headers that lie in areas the program may write to.                 *)
EXTENDS Integers, FiniteSetsExt

CONSTANTS Space,     \* bound on the heap: where the kernel certainly refuses
          MaxRequest, \* bound on a request
          Word       \* the units in 2^32 bytes

(* malloc refuses the sizes that would wrap with their header (malloc.c:96). *)
MallocOK == {Space, MaxRequest, Word} \subseteq Nat /\ MaxRequest + 1 < Word

(* Neither a request nor the heap comes to 2 GiB. *)
Moderate == 2 * (MaxRequest + 1) < Word /\ 2 * Space < Word

Sizes == 1 .. MaxRequest

VARIABLES
    heap,      \* [brk: heap_break, relative to heap_base;
               \*  blocks: address |-> [size, free], the headers that a walk meets]
    areas      \* history: address |-> size asked for, of what the program holds

mallocVars == <<heap, areas>>

NoFunction == [a \in {} |-> 0]

MallocInit == heap = [brk |-> 0, blocks |-> NoFunction] /\ areas = NoFunction

-----------------------------------------------------------------------------
NextBlock(bs, a) == a + 1 + bs[a].size
Block(n, f) == [size |-> n, free |-> f]
Put(bs, a, block) == [b \in DOMAIN bs \cup {a} |-> IF b = a THEN block ELSE bs[b]]

(* A number of bytes as the intptr_t that sbrk takes, in units. *)
Signed(k) == IF 2 * k < Word THEN k ELSE k - Word

(* No block ends behind the break. *)
Whole(h) == \A a \in DOMAIN h.blocks : NextBlock(h.blocks, a) <= h.brk

(* find_fit: the free blocks that are large enough; the first is taken. *)
Fitting(h, n) == {a \in DOMAIN h.blocks : h.blocks[a].free /\ h.blocks[a].size >= n}

(* malloc of a free block: split_block leaves it whole unless the rest would be
   more than a header and MALLOC_SPLIT_MIN.                                  *)
Taken(bs, a, n) ==
    IF bs[a].size <= n + 2 THEN Put(bs, a, Block(bs[a].size, FALSE))
    ELSE Put(Put(bs, a, Block(n, FALSE)), a + 1 + n, Block(bs[a].size - n - 1, TRUE))

(* What malloc may come to: the heap and the address of the header, the old
   break if no block fits. There is no outcome when sys_brk must refuse the new
   break, above all or below heap_start, and malloc fails.                   *)
Mallocs(h, n) ==
    IF Fitting(h, n) # {}
    THEN LET a == Min(Fitting(h, n)) IN {<<[h EXCEPT !.blocks = Taken(@, a, n)], a>>}
    ELSE {<<[brk |-> b, blocks |-> Put(h.blocks, h.brk, Block(n, FALSE))], h.brk>> :
             b \in {h.brk + Signed(1 + n)} \cap 0 .. Space}

(* The blocks that the first loop of __libc_free_impl leaves: a free one takes
   in the free ones behind it whose header lies before the break.            *)
Heads(bs, end) ==
    {a \in DOMAIN bs : ~(/\ a < end /\ bs[a].free
                         /\ \E b \in DOMAIN bs : bs[b].free /\ NextBlock(bs, b) = a)}
Top(bs) == Max({NextBlock(bs, a) : a \in DOMAIN bs})
\* Mutant of Merged: free neighbours stay apart.
MergedNever(bs, end) == bs
Merged(bs, end) ==
    [a \in Heads(bs, end) |->
        Block(Min({b \in Heads(bs, end) : b > a} \cup {Top(bs)}) - a - 1, bs[a].free)]

(* The second loop: the last block that ends at the break or before it goes back
   to the kernel if it is free, and if sys_brk takes the new break.          *)
Shrunk(bs, end) ==
    LET met == {a \in DOMAIN bs : NextBlock(bs, a) <= end}
        brk == end - Signed(1 + bs[Max(met)].size)
    IN IF met # {} /\ bs[Max(met)].free /\ brk \in 0 .. Space
       THEN [brk |-> brk, blocks |-> [a \in DOMAIN bs \ {Max(met)} |-> bs[a]]]
       ELSE [brk |-> end, blocks |-> bs]

Released(h, a) == Shrunk(Merged([h.blocks EXCEPT ![a].free = TRUE], h.brk), h.brk)

-----------------------------------------------------------------------------
With(held, p, n) == [q \in DOMAIN held \cup {p} |-> IF q = p THEN n ELSE held[q]]
Without(held, p) == [q \in DOMAIN held \ {p} |-> held[q]]

Malloc(n) ==
    /\ Whole(heap)
    /\ \E out \in Mallocs(heap, n) : heap' = out[1] /\ areas' = With(areas, out[2] + 1, n)

Free(p) ==
    /\ p \in DOMAIN areas /\ Whole(heap)
    /\ heap' = Released(heap, p - 1) /\ areas' = Without(areas, p)

\* Mutant of Realloc: the old block is given back before the new one is there.
ReallocFreeFirst(p, n) ==
    /\ p \in DOMAIN areas /\ Whole(heap)
    /\ IF heap.blocks[p - 1].size >= n THEN heap' = heap /\ areas' = With(areas, p, n)
       ELSE LET out == Mallocs(Released(heap, p - 1), n)
            IN IF out = {} THEN heap' = Released(heap, p - 1) /\ areas' = areas
               ELSE \E o \in out : heap' = o[1] /\ areas' = With(Without(areas, p), o[2] + 1, n)
(* realloc: in place if the block has the room; otherwise a new area, the
   contents, and only then the old area goes.                                *)
Realloc(p, n) ==
    /\ p \in DOMAIN areas /\ Whole(heap)
    /\ IF heap.blocks[p - 1].size >= n THEN heap' = heap /\ areas' = With(areas, p, n)
       ELSE \E out \in Mallocs(heap, n) :
              /\ heap' = Released(out[1], p - 1)
              /\ areas' = With(Without(areas, p), out[2] + 1, n)

MallocNext ==
    \/ \E n \in Sizes : Malloc(n)
    \/ \E p \in DOMAIN areas : Free(p) \/ \E n \in Sizes : Realloc(p, n)

MallocSpec == MallocInit /\ [][MallocNext]_mallocVars

-----------------------------------------------------------------------------
MallocTypeOK ==
    /\ heap.brk \in 0 .. Space
    /\ DOMAIN heap.blocks \subseteq 0 .. Space - 1
    /\ \A a \in DOMAIN heap.blocks : heap.blocks[a] \in [size : 1 .. Space, free : BOOLEAN]
    /\ \A p \in DOMAIN areas : areas[p] \in Sizes

(* The chain is whole: from heap_base every block ends where the next begins,
   the last one at the break, where next_block and the walks of find_fit and
   free rely on it; no two free blocks are neighbours and none is the last, so
   that nothing that could be used again or given back is kept.             *)
Chained ==
    LET bs == heap.blocks IN
    /\ {NextBlock(bs, a) : a \in DOMAIN bs} \cup {0} = DOMAIN bs \cup {heap.brk}
    /\ \A a, b \in DOMAIN bs : a < b => NextBlock(bs, a) <= b
    /\ \A a \in DOMAIN bs : bs[a].free =>
         /\ NextBlock(bs, a) # heap.brk
         /\ \A b \in DOMAIN bs : bs[b].free => NextBlock(bs, a) # b

(* An area is the program's alone, from malloc to free, also while realloc
   moves it (malloc, __libc_free_impl, realloc).                             *)
Held == INSTANCE Areas
ServesAreas == Held!Spec
=============================================================================
