------------------------------ MODULE Kmalloc ------------------------------
(***************************************************************************)
(* The kernel heap (arch/i386/mm/kmalloc.c): a list of blocks, each with a *)
(* header in front of its payload, first fit, splitting, coalescing, and   *)
(* growth by heap_sbrk.  kmalloc and kfree run with interrupts masked, so  *)
(* each call is one step; krealloc is not masked and frees in a step of    *)
(* its own.  The callers are any tasks of the kernel; what they hold is in *)
(* owned.  Addresses and sizes are in bytes, contents are left out.        *)
(* kcalloc is kmalloc of its product; krealloc of NULL and to size 0 are   *)
(* kmalloc and kfree.                                                      *)
(***************************************************************************)
EXTENDS Integers, FiniteSets

CONSTANTS
  Requests,       \* the sizes asked for
  Aligns,         \* the alignments asked of kmalloc_aligned
  Start,          \* KERNEL_MALLOC
  InitialSize,    \* kmalloc_init's argument, in whole pages
  PageSize,       \* PAGE_SIZE
  Frames,         \* the physical frames free after kmalloc_init
  Word,           \* 2^32
  ReallocAligned  \* krealloc is called with pointers from kmalloc_aligned

ASSUME KmallocAssumption ==
  /\ {Start, InitialSize, PageSize, Word} \subseteq Nat \ {0}
  /\ Frames \in Nat
  /\ Requests \subseteq 1..(Word - 1)
  /\ Aligns \subseteq Nat \ {0}
  /\ PageSize % 8 = 0
  /\ Start % PageSize = 0 /\ InitialSize % PageSize = 0
  /\ InitialSize > 16
  /\ Start + InitialSize + PageSize * (Frames + 1) < Word
  /\ ReallocAligned \in BOOLEAN

VARIABLES
  block,          \* the headers on the list, by address; head is Start
  heapEnd,        \* heap_end
  mappedTop,      \* heap_mapped_top
  frames,         \* how many physical frames are free
  owned,          \* what callers hold: by address, the bytes they may use and
                  \* the header kfree will find (in a fake header's prev for
                  \* an aligned address)
  moving          \* the addresses krealloc has copied and not yet freed

vars == <<block, heapEnd, mappedTop, frames, owned, moving>>

NULL == 0
Header == 16      \* HEADER_SIZE

Plus(x, y) == (x + y) % Word

ALIGN(x, a) == LET y == Plus(x, a - 1) IN y - (y % a)

Blocks == DOMAIN block

\* Where a block's payload starts and where the block ends.
Payload(b) == b + Header
End(b) == b + Header + block[b].size

\* kmalloc_init: one free block.
Init ==
  /\ block = [b \in {Start} |-> [size |-> InitialSize - Header, free |-> TRUE,
                                 next |-> NULL, prev |-> NULL]]
  /\ heapEnd = Start + InitialSize
  /\ mappedTop = Start + InitialSize
  /\ frames = Frames
  /\ owned = [p \in {} |-> [size |-> 0, header |-> NULL]]
  /\ moving = {}
-----------------------------------------------------------------------------
\* The k-th block of the list, NULL behind its end.
Nth[k \in Nat] ==
  IF k = 0 THEN Start
  ELSE IF Nth[k - 1] = NULL THEN NULL ELSE block[Nth[k - 1]].next

Fits(b, n) == b \in Blocks /\ block[b].free /\ block[b].size >= n

FirstFit(b, n) ==
  /\ Fits(b, n)
  /\ \E k \in 0..Cardinality(Blocks) :
       Nth[k] = b /\ \A j \in 0..(k - 1) : ~Fits(Nth[j], n)

IsLast(b) == b \in Blocks /\ block[b].next = NULL

\* Mutant of Carved: the block behind the remainder keeps its prev.
CarvedOneWay(b, n) ==
  LET rest == Payload(b) + n
  IN IF block[b].size >= Plus(n, Header + 8)
     THEN [a \in Blocks \cup {rest} |->
             IF a = b THEN
             [size |-> n, free |-> FALSE, next |-> rest, prev |-> block[b].prev]
             ELSE IF a = rest
             THEN [size |-> block[b].size - n - Header, free |-> TRUE,
                   next |-> block[b].next, prev |-> b]
             ELSE block[a]]
     ELSE [block EXCEPT ![b].free = FALSE]

\* Mutant of Carved: only a block that is not split is marked as used.
CarvedUnmarked(b, n) ==
  LET rest == Payload(b) + n
  IN IF block[b].size >= Plus(n, Header + 8)
     THEN [a \in Blocks \cup {rest} |->
             IF a = b THEN
             [size |-> n, free |-> TRUE, next |-> rest, prev |-> block[b].prev]
             ELSE IF a = rest
             THEN [size |-> block[b].size - n - Header, free |-> TRUE,
                   next |-> block[b].next, prev |-> b]
             ELSE IF a = block[b].next THEN [block[a] EXCEPT !.prev = rest]
             ELSE block[a]]
     ELSE [block EXCEPT ![b].free = FALSE]

\* The list after block b is used for n bytes: what is left over becomes a
\* block of its own if it is large enough.
Carved(b, n) ==
  LET rest == Payload(b) + n
  IN IF block[b].size >= Plus(n, Header + 8)
     THEN [a \in Blocks \cup {rest} |->
             IF a = b THEN
             [size |-> n, free |-> FALSE, next |-> rest, prev |-> block[b].prev]
             ELSE IF a = rest
             THEN [size |-> block[b].size - n - Header, free |-> TRUE,
                   next |-> block[b].next, prev |-> b]
             ELSE IF a = block[b].next THEN [block[a] EXCEPT !.prev = rest]
             ELSE block[a]]
     ELSE [block EXCEPT ![b].free = FALSE]

\* A new block of n bytes at heapEnd, behind block l.
Appended(l, n) ==
  [a \in Blocks \cup {heapEnd} |->
     IF a = heapEnd THEN [size |-> n, free |-> FALSE, next |-> NULL, prev |-> l]
     ELSE IF a = l THEN [block[l] EXCEPT !.next = heapEnd]
     ELSE block[a]]

NewTop(break) == IF break > mappedTop THEN ALIGN(break, PageSize) ELSE mappedTop

\* heap_sbrk's loop maps n pages.
Maps(n, break) ==
  /\ mappedTop + n * PageSize >= NewTop(break)
  /\ n > 0 => mappedTop + (n - 1) * PageSize < NewTop(break)

Sbrk(increment) ==
  LET break == Plus(heapEnd, increment)
  IN \E n \in 0..frames :
       /\ Maps(n, break)
       /\ heapEnd' = break
       /\ mappedTop' = NewTop(break)
       /\ frames' = frames - n

\* The loop maps page by page until no frame is left; the break and
\* heap_mapped_top stay, and the frames it took are never given back.
SbrkFails(increment) ==
  /\ mappedTop + frames * PageSize < NewTop(Plus(heapEnd, increment))
  /\ frames' = 0
  /\ UNCHANGED <<block, heapEnd, mappedTop>>

\* How far the heap must grow for n bytes when its last block is l.
Growth(l, n) == IF block[l].free THEN n - block[l].size ELSE Plus(n, Header)

\* kmalloc for n bytes, n a multiple of 8: block b is handed out.
Allocate(n, b) ==
  \/ /\ FirstFit(b, n)
     /\ block' = Carved(b, n)
     /\ UNCHANGED <<heapEnd, mappedTop, frames>>
  \/ \E l \in Blocks :
       /\ \A a \in Blocks : ~Fits(a, n)
       /\ IsLast(l)
       /\ Sbrk(Growth(l, n))
       /\ IF block[l].free
          THEN /\ b = l
               /\ block' = [block EXCEPT ![l] = [size |-> n, free |-> FALSE,
                                                 next |-> NULL, prev |-> @.prev]]
          ELSE b = heapEnd /\ block' = Appended(l, n)

AllocateFails(n) ==
  \E l \in Blocks :
    /\ \A a \in Blocks : ~Fits(a, n)
    /\ IsLast(l)
    /\ SbrkFails(Growth(l, n))

\* Where kmalloc may find its block.
Places == Blocks \cup {heapEnd}

Hold(p, size, b) ==
  owned' = [q \in DOMAIN owned \cup {p} |->
              IF q = p THEN [size |-> size, header |-> b] ELSE owned[q]]

Kmalloc ==
  \E size \in Requests :
    /\ \/ \E b \in Places : Allocate(ALIGN(size, 8), b) /\ Hold(Payload(b), size, b)
       \/ AllocateFails(ALIGN(size, 8)) /\ UNCHANGED owned
    /\ UNCHANGED moving

\* Mutant of AlignedTotal: no room is added for the alignment.
AlignedTotalBare(size, align) == Plus(size, Header)

AlignedTotal(size, align) == Plus(size, align + Header)

\* The aligned address is the first behind room for a header: the fake header
\* goes just below it.
KmallocAligned ==
  \E size \in Requests, align \in Aligns :
    LET n == ALIGN(AlignedTotal(size, align), 8)
    IN /\ align > 8
       /\ \/ \E b \in Places :
               Allocate(n, b) /\ Hold(ALIGN(Payload(b) + Header, align), size, b)
          \/ AllocateFails(n) /\ UNCHANGED owned
       /\ UNCHANGED moving
-----------------------------------------------------------------------------
IsFake(p) == owned[p].header # p - Header

\* Block b of the list blk takes in its successor.
Merged(blk, b) ==
  LET n == blk[b].next
  IN [a \in DOMAIN blk \ {n} |->
        IF a = b THEN [size |-> blk[b].size + Header + blk[n].size, free |-> blk[b].free,
                       next |-> blk[n].next, prev |-> blk[b].prev]
        ELSE IF a = blk[n].next THEN [blk[a] EXCEPT !.prev = b]
        ELSE blk[a]]

\* Mutant of MergedIfFree: a block in use is taken in as well.
MergedAlways(blk, b, other) == IF other # NULL THEN Merged(blk, b) ELSE blk

MergedIfFree(blk, b, other) ==
  IF other # NULL /\ blk[other].free THEN Merged(blk, b) ELSE blk

\* Mutant of Released: the block before is left alone.
ReleasedForward(b) ==
  MergedIfFree([block EXCEPT ![b].free = TRUE], b, block[b].next)

\* kfree's list: b is free, takes in the block behind, and is taken in by the
\* block before.
Released(b) ==
  LET forward == MergedIfFree([block EXCEPT ![b].free = TRUE], b, block[b].next)
  IN MergedIfFree(forward, block[b].prev, block[b].prev)

Release(p) ==
  /\ block' = Released(owned[p].header)
  /\ owned' = [q \in DOMAIN owned \ {p} |-> owned[q]]
  /\ UNCHANGED <<heapEnd, mappedTop, frames>>

Kfree ==
  \E p \in DOMAIN owned \ moving : Release(p) /\ UNCHANGED moving

Suffices(p, size) == block[owned[p].header].size >= size

\* krealloc: the block is large enough, or a new one is found, and the old one
\* is freed in a second step.
Krealloc ==
  \E p \in DOMAIN owned \ moving, size \in Requests :
    /\ IsFake(p) => ReallocAligned
    /\ \/ /\ Suffices(p, size)
          /\ owned' = [owned EXCEPT ![p].size = size]
          /\ UNCHANGED <<block, heapEnd, mappedTop, frames, moving>>
       \/ /\ ~Suffices(p, size)
          /\ \E b \in Places :
               Allocate(ALIGN(size, 8), b) /\ Hold(Payload(b), size, b)
          /\ moving' = moving \cup {p}
       \/ /\ ~Suffices(p, size)
          /\ AllocateFails(ALIGN(size, 8))
          /\ UNCHANGED <<owned, moving>>

KreallocFree ==
  \E p \in moving : Release(p) /\ moving' = moving \ {p}

Next == Kmalloc \/ KmallocAligned \/ Kfree \/ Krealloc \/ KreallocFree

Spec == Init /\ [][Next]_vars
-----------------------------------------------------------------------------
\* Every variable has its type, and callers hold blocks of the list.
TypeOK ==
  /\ Start \in Blocks /\ NULL \notin Blocks /\ Blocks \subseteq Nat
  /\ block \in [Blocks -> [size : Nat, free : BOOLEAN,
                           next : Blocks \cup {NULL}, prev : Blocks \cup {NULL}]]
  /\ {heapEnd, mappedTop} \subseteq 1..(Word - 1)
  /\ frames \in 0..Frames
  /\ owned \in [DOMAIN owned -> [size : Requests, header : Blocks]]
  /\ moving \subseteq DOMAIN owned

\* The blocks tile the heap from KERNEL_MALLOC to heap_end in the order of the
\* list, and prev leads back where next came from: no splitting, growing or
\* coalescing loses a byte or links past a block.
Tiled ==
  /\ block[Start].prev = NULL
  /\ \A b \in Blocks :
       /\ IF block[b].next = NULL
          THEN End(b) = heapEnd
          ELSE block[b].next = End(b) /\ block[block[b].next].prev = b
       /\ b # Start => block[b].prev # NULL /\ block[block[b].prev].next = b

\* memory-management.md, Deallocation: a freed block is merged with its free
\* neighbours, so two free blocks never touch.
NoFreeNeighbours ==
  \A b \in Blocks : block[b].free /\ block[b].next # NULL => ~block[block[b].next].free

\* Each block in use is held at exactly one address and no free block is: none
\* leaks in a split or in krealloc's move, none is handed out twice.
HeldOnce ==
  /\ \A b \in Blocks : block[b].free <=> \A p \in DOMAIN owned : owned[p].header # b
  /\ \A p, q \in DOMAIN owned : owned[p].header = owned[q].header => p = q

\* What a caller holds lies in its own block, above any fake header, in mapped
\* pages: callers that stay within their bytes disturb neither each other nor
\* the list.
AreasFit ==
  \A p \in DOMAIN owned :
    LET b == owned[p].header
    IN /\ p = Payload(b) \/ p >= Payload(b) + Header
       /\ p + owned[p].size <= End(b)
       /\ End(b) <= mappedTop

\* Whatever others allocate, free and reallocate, an area held stays where it
\* is, with the room it had, until its own holder gives it up or resizes it.
AreasStay ==
  [][\A p \in DOMAIN owned \cap DOMAIN owned' :
       /\ owned'[p].header = owned[p].header
       /\ owned[p].header \in DOMAIN block'
       /\ block'[owned[p].header].size = block[owned[p].header].size]_vars
=============================================================================
