--------------------------- MODULE KmallocProofs ---------------------------
(***************************************************************************)
(* Proofs about the kernel heap: for every page size, heap and set of      *)
(* requests whose arithmetic does not leave the machine word, and as long  *)
(* as krealloc is not given addresses of kmalloc_aligned, the blocks tile  *)
(* the heap, no two free ones touch, each block in use has one holder, and *)
(* what the holders use lies in their own blocks.                          *)
(***************************************************************************)
EXTENDS Kmalloc, TLAPS

\* The highest address the heap can reach.
Roof == Start + InitialSize + PageSize * Frames

\* No request takes an address or a size beyond the machine word.
RequestsSmall ==
  \A s \in Requests, a \in Aligns \cup {8} : Roof + PageSize + s + a + 64 < Word

\* Where block b of the list blk ends.
Finish(blk, b) == b + Header + blk[b].size

\* A header.
Hdr == [size : Nat, free : BOOLEAN, next : Nat, prev : Nat]

\* A list of headers, with the first block and without the null address.
HdrFcn(blk) ==
  /\ Start \in DOMAIN blk /\ NULL \notin DOMAIN blk /\ DOMAIN blk \subseteq Nat
  /\ blk \in [DOMAIN blk -> Hdr]

\* The blocks of blk tile the bytes from Start to end and do not overlap.
Linked(blk, end) ==
  /\ blk[Start].prev = NULL
  /\ \A b \in DOMAIN blk : blk[b].next = NULL => Finish(blk, b) = end
  /\ \A b \in DOMAIN blk : blk[b].next # NULL =>
       /\ blk[b].next \in DOMAIN blk
       /\ blk[b].next = Finish(blk, b)
       /\ blk[blk[b].next].prev = b
  /\ \A b \in DOMAIN blk : b # Start =>
       /\ blk[b].prev \in DOMAIN blk
       /\ blk[blk[b].prev].next = b
  /\ \A b \in DOMAIN blk : Finish(blk, b) <= end
  /\ \A a, b \in DOMAIN blk : a < b => Finish(blk, a) <= b

List(blk, end) == HdrFcn(blk) /\ Linked(blk, end)

\* No free block is followed by a free one.
Sparse(blk) ==
  \A b \in DOMAIN blk : blk[b].free /\ blk[b].next # NULL => ~blk[blk[b].next].free

\* The break lies in mapped memory, the mapped memory in what the frames allow.
Bounds ==
  /\ heapEnd \in Nat /\ mappedTop \in Nat /\ frames \in 0..Frames
  /\ 0 < heapEnd /\ heapEnd <= mappedTop
  /\ mappedTop + PageSize * frames <= Roof

\* What the callers hold.
Held ==
  /\ owned \in [DOMAIN owned -> [size : Requests, header : Blocks]]
  /\ DOMAIN owned \subseteq Nat
  /\ moving \subseteq DOMAIN owned
  /\ \A b \in Blocks : block[b].free <=> \A p \in DOMAIN owned : owned[p].header # b
  /\ \A p, q \in DOMAIN owned : owned[p].header = owned[q].header => p = q
  /\ \A p \in DOMAIN owned :
       /\ p = owned[p].header + Header \/ p >= owned[p].header + 2 * Header
       /\ p + owned[p].size <= Finish(block, owned[p].header)

\* The inductive invariant.
KmallocInv == List(block, heapEnd) /\ Sparse(block) /\ Bounds /\ Held
-----------------------------------------------------------------------------
\* Sums below 2^32 do not wrap.
LEMMA PlusFact ==
  ASSUME NEW x \in Nat, NEW y \in Nat, x + y < Word
  PROVE  Plus(x, y) = x + y
  BY KmallocAssumption DEF Plus

\* ALIGN rounds up by less than the alignment.
LEMMA AlignFact ==
  ASSUME NEW x \in Nat, NEW a \in Nat \ {0}, x + a - 1 < Word
  PROVE  ALIGN(x, a) \in Nat /\ x <= ALIGN(x, a) /\ ALIGN(x, a) <= x + a - 1
<1>1. Plus(x, a - 1) = x + a - 1
  BY PlusFact
<1>2. (x + a - 1) % a \in 0..(a - 1)
  OBVIOUS
<1>3. QED
  BY <1>1, <1>2 DEF ALIGN

\* The fields of the headers have their types.
LEMMA HdrFields ==
  ASSUME NEW blk, HdrFcn(blk)
  PROVE  \A a \in DOMAIN blk : /\ a \in Nat /\ a # NULL
                               /\ blk[a] \in Hdr
                               /\ blk[a].size \in Nat /\ blk[a].free \in BOOLEAN
                               /\ blk[a].next \in Nat /\ blk[a].prev \in Nat
  BY DEF HdrFcn, Hdr

\* What Merged does to the fields of each header.
MergedTo(blk, b, n, m) ==
  /\ DOMAIN m = DOMAIN blk \ {n}
  /\ m \in [DOMAIN m -> Hdr]
  /\ \A a \in DOMAIN m :
       /\ m[a].free = blk[a].free
       /\ a # b => m[a].size = blk[a].size /\ m[a].next = blk[a].next
       /\ a = blk[n].next => m[a].prev = b
       /\ a # blk[n].next => m[a].prev = blk[a].prev
  /\ m[b].size = blk[b].size + Header + blk[n].size
  /\ m[b].next = blk[n].next

\* A successor lies behind its block, and is not the first one.
LEMMA Successor ==
  ASSUME NEW blk, NEW end \in Nat, List(blk, end), NEW b \in DOMAIN blk, blk[b].next # NULL,
         NEW n, n = blk[b].next
  PROVE  /\ n \in DOMAIN blk /\ n # b /\ n # Start /\ b < n
         /\ blk[n].next # n /\ blk[n].next # b
<1>1. n \in DOMAIN blk /\ n = b + 16 + blk[b].size /\ blk[n].prev = b
  BY DEF List, Linked, Finish, Header
<1>2. n \in Nat /\ b \in Nat /\ blk[b].size \in Nat /\ blk[n].size \in Nat
  BY <1>1, HdrFields DEF List
<1>3. blk[n].next # NULL => blk[n].next = n + 16 + blk[n].size
  BY <1>1 DEF List, Linked, Finish, Header
<1>4. n # Start
  BY <1>1, HdrFields DEF List, Linked
<1>5. QED
  BY <1>1, <1>2, <1>3, <1>4, HdrFields DEF List, NULL

\* Merged does to the fields what MergedTo says.
LEMMA MergedFields ==
  ASSUME NEW blk, NEW end \in Nat, List(blk, end), NEW b \in DOMAIN blk, blk[b].next # NULL
  PROVE  MergedTo(blk, b, blk[b].next, Merged(blk, b))
<1> DEFINE n == blk[b].next
           m == Merged(blk, b)
<1>1. /\ n \in DOMAIN blk /\ n # b /\ n # Start /\ b < n
      /\ blk[n].next # n /\ blk[n].next # b
  BY Successor
<1>2. \A a \in DOMAIN blk : /\ a \in Nat /\ blk[a] \in Hdr
  BY HdrFields DEF List
<1>3. m = [a \in DOMAIN blk \ {n} |->
             IF a = b THEN [size |-> blk[b].size + Header + blk[n].size,
                            free |-> blk[b].free,
                            next |-> blk[n].next, prev |-> blk[b].prev]
             ELSE IF a = blk[n].next THEN [blk[a] EXCEPT !.prev = b]
             ELSE blk[a]]
  BY DEF Merged
<1> HIDE DEF n, m
<1>4. DOMAIN m = DOMAIN blk \ {n}
  BY <1>3
<1>5. m[b] = [size |-> blk[b].size + Header + blk[n].size, free |-> blk[b].free,
              next |-> blk[n].next, prev |-> blk[b].prev]
  BY <1>1, <1>3
<1>6. ASSUME NEW a \in DOMAIN m
      PROVE  /\ m[a] \in Hdr
             /\ m[a].free = blk[a].free
             /\ a # b => m[a].size = blk[a].size /\ m[a].next = blk[a].next
             /\ a = blk[n].next => m[a].prev = b
             /\ a # blk[n].next => m[a].prev = blk[a].prev
  <2>1. CASE a = b
    BY <1>1, <1>2, <1>5, <2>1 DEF Hdr, Header
  <2>2. CASE a # b /\ a = blk[n].next
    <3>1. m[a] = [blk[a] EXCEPT !.prev = b] /\ blk[a] \in Hdr /\ b \in Nat
      BY <1>2, <1>3, <1>4, <2>2
    <3>2. QED
      BY <2>2, <3>1 DEF Hdr
  <2>3. CASE a # b /\ a # blk[n].next
    <3>1. m[a] = blk[a] /\ blk[a] \in Hdr
      BY <1>2, <1>3, <1>4, <2>3
    <3>2. QED
      BY <2>3, <3>1
  <2>4. QED
    BY <2>1, <2>2, <2>3
<1>7. m \in [DOMAIN m -> Hdr]
  BY <1>3, <1>4, <1>6
<1>8. QED
  BY <1>1, <1>4, <1>5, <1>6, <1>7 DEF MergedTo, m, n

\* Merging a block with its successor leaves a list that tiles the same bytes.
LEMMA MergedList ==
  ASSUME NEW blk, NEW end \in Nat, List(blk, end),
         NEW b \in DOMAIN blk, blk[b].next # NULL
  PROVE  List(Merged(blk, b), end)
<1> DEFINE n == blk[b].next
           m == Merged(blk, b)
<1>1. /\ n \in DOMAIN blk /\ n # b /\ n # Start /\ b < n
      /\ blk[n].next # n /\ blk[n].next # b
  BY Successor
<1>2. MergedTo(blk, b, n, m)
  BY MergedFields
<1>3. /\ Start \in DOMAIN blk /\ NULL \notin DOMAIN blk
      /\ \A a \in DOMAIN blk : /\ a \in Nat /\ a # NULL
                               /\ blk[a].size \in Nat
                               /\ blk[a].next \in Nat /\ blk[a].prev \in Nat
  BY HdrFields DEF List, HdrFcn
<1>4. n # NULL /\ n = blk[b].next /\ n = Finish(blk, b) /\ blk[n].prev = b
  BY DEF List, Linked
<1> HIDE DEF m, n
<1>5. Linked(blk, end)
  BY DEF List
<1>6. HdrFcn(m)
  BY <1>1, <1>2, <1>3 DEF MergedTo, HdrFcn
<1>7. /\ DOMAIN m = DOMAIN blk \ {n}
      /\ \A a \in DOMAIN m :
           /\ a # b => m[a].size = blk[a].size /\ m[a].next = blk[a].next
           /\ a = blk[n].next => m[a].prev = b
           /\ a # blk[n].next => m[a].prev = blk[a].prev
      /\ m[b].size = blk[b].size + Header + blk[n].size
      /\ m[b].next = blk[n].next
  BY <1>2 DEF MergedTo
<1>8. Finish(m, b) = Finish(blk, n)
  BY <1>1, <1>3, <1>4, <1>7 DEF Finish, Header
<1>9. \A a \in DOMAIN m : a # b => Finish(m, a) = Finish(blk, a)
  BY <1>7 DEF Finish
<1>10. \A a \in DOMAIN blk : blk[a].next = n => a = b
  BY <1>4, <1>5 DEF Linked
<1>11. m[Start].prev = NULL
  <2>1. Start # blk[n].next
    BY <1>1, <1>3, <1>4, <1>5 DEF Linked
  <2>2. QED
    BY <1>1, <1>3, <1>5, <1>7, <2>1 DEF Linked
<1>12. \A a \in DOMAIN m : m[a].next = NULL => Finish(m, a) = end
  BY <1>1, <1>5, <1>7, <1>8, <1>9 DEF Linked
<1>13. ASSUME NEW a \in DOMAIN m, m[a].next # NULL
       PROVE  /\ m[a].next \in DOMAIN m
              /\ m[a].next = Finish(m, a)
              /\ m[m[a].next].prev = a
  <2>1. CASE a = b
    <3>1. m[a].next = blk[n].next /\ blk[n].next \in DOMAIN blk \ {n}
          /\ blk[n].next = Finish(blk, n)
      BY <1>1, <1>5, <1>7, <1>13, <2>1 DEF Linked
    <3>2. QED
      BY <1>7, <1>8, <2>1, <3>1
  <2>2. CASE a # b
    <3>1. m[a].next = blk[a].next /\ blk[a].next = Finish(blk, a) /\ a \in DOMAIN blk
          /\ blk[blk[a].next].prev = a /\ blk[a].next \in DOMAIN blk
      BY <1>5, <1>7, <1>13, <2>2 DEF Linked
    <3>2. blk[a].next \in DOMAIN m
      BY <1>7, <1>10, <2>2, <3>1
    <3>3. blk[a].next # blk[n].next
      <4>1. a # n
        BY <1>7
      <4>2. QED
        BY <1>1, <1>3, <1>5, <3>1, <4>1 DEF Linked
    <3>4. m[blk[a].next].prev = a
      BY <1>7, <3>1, <3>2, <3>3
    <3>5. QED
      BY <1>9, <2>2, <3>1, <3>2, <3>4
  <2>3. QED
    BY <2>1, <2>2
<1>14. ASSUME NEW a \in DOMAIN m, a # Start
       PROVE  m[a].prev \in DOMAIN m /\ m[m[a].prev].next = a
  <2>1. CASE a = blk[n].next
    BY <1>1, <1>7, <2>1
  <2>2. CASE a # blk[n].next
    <3>1. m[a].prev = blk[a].prev /\ blk[a].prev \in DOMAIN blk /\ a \in DOMAIN blk
          /\ blk[blk[a].prev].next = a
      BY <1>5, <1>7, <1>14, <2>2 DEF Linked
    <3>2. blk[a].prev # n
      BY <2>2, <3>1
    <3>3. blk[a].prev # b
      BY <1>4, <1>7, <3>1
    <3>4. QED
      BY <1>7, <3>1, <3>2, <3>3
  <2>3. QED
    BY <2>1, <2>2
<1>15. \A a \in DOMAIN m : Finish(m, a) <= end
  BY <1>1, <1>5, <1>7, <1>8, <1>9 DEF Linked
<1>16. ASSUME NEW a \in DOMAIN m, NEW c \in DOMAIN m, a < c
       PROVE  Finish(m, a) <= c
  <2>1. CASE a = b
    <3>1. Finish(blk, b) <= c /\ c # n /\ c \in DOMAIN blk
      BY <1>5, <1>7, <1>16, <2>1 DEF Linked
    <3>2. n < c
      BY <1>1, <1>3, <1>4, <3>1
    <3>3. QED
      BY <1>1, <1>5, <1>8, <2>1, <3>1, <3>2 DEF Linked
  <2>2. CASE a # b
    BY <1>5, <1>7, <1>9, <1>16, <2>2 DEF Linked
  <2>3. QED
    BY <2>1, <2>2
<1>17. Linked(m, end)
  BY <1>11, <1>12, <1>13, <1>14, <1>15, <1>16 DEF Linked
<1>18. QED
  BY <1>6, <1>17 DEF List, m
-----------------------------------------------------------------------------
\* Splitting a block leaves a list that tiles the same bytes.
LEMMA SplitList ==
  ASSUME NEW blk, NEW end \in Nat, List(blk, end),
         NEW b \in DOMAIN blk, NEW n \in Nat,
         blk[b].size >= n + Header,
         NEW rest, rest = b + Header + n,
         NEW m, DOMAIN m = DOMAIN blk \cup {rest}, m \in [DOMAIN m -> Hdr],
         m[b].size = n, m[b].next = rest, m[b].prev = blk[b].prev,
         m[rest].size = blk[b].size - n - Header, m[rest].next = blk[b].next,
         m[rest].prev = b,
         \A a \in DOMAIN blk \ {b} :
           /\ m[a].size = blk[a].size /\ m[a].next = blk[a].next
           /\ m[a].prev = IF a = blk[b].next THEN rest ELSE blk[a].prev
  PROVE  List(m, end) /\ rest \notin DOMAIN blk
<1>1. /\ Start \in DOMAIN blk /\ NULL \notin DOMAIN blk
      /\ \A a \in DOMAIN blk : /\ a \in Nat /\ a # NULL
                               /\ blk[a].size \in Nat
                               /\ blk[a].next \in Nat /\ blk[a].prev \in Nat
  BY HdrFields DEF List, HdrFcn
<1>2. Linked(blk, end)
  BY DEF List
<1>3. b < rest /\ rest < Finish(blk, b) /\ rest \in Nat /\ rest # NULL
  BY <1>1 DEF Finish, Header, NULL
<1>4. rest \notin DOMAIN blk
  BY <1>1, <1>2, <1>3 DEF Linked, Finish, Header
<1>5. rest # b /\ rest # Start
  BY <1>1, <1>4
<1>6. \A a \in DOMAIN blk \ {b} : Finish(m, a) = Finish(blk, a)
  BY DEF Finish
<1>7. Finish(m, b) = rest /\ Finish(m, rest) = Finish(blk, b)
  BY <1>1 DEF Finish, Header
<1>8. \A a \in DOMAIN blk : blk[a].next = blk[b].next /\ blk[b].next # NULL => a = b
  BY <1>2 DEF Linked
<1>9. blk[b].next # b /\ blk[b].next # rest /\ blk[b].next # Start
  <2>1. CASE blk[b].next = NULL
    BY <1>1, <1>3, <2>1
  <2>2. CASE blk[b].next # NULL
    BY <1>1, <1>4, <2>2, Successor DEF Linked
  <2>3. QED
    BY <2>1, <2>2
<1>10. HdrFcn(m)
  BY <1>1, <1>3 DEF HdrFcn
<1>11. m[Start].prev = NULL
  <2>1. CASE Start = b
    BY <1>2, <2>1 DEF Linked
  <2>2. CASE Start # b
    BY <1>1, <1>2, <1>9, <2>2 DEF Linked
  <2>3. QED
    BY <2>1, <2>2
<1>12. ASSUME NEW a \in DOMAIN m, m[a].next = NULL
       PROVE  Finish(m, a) = end
  <2>1. CASE a = rest
    BY <1>2, <1>7, <1>12, <2>1 DEF Linked
  <2>2. CASE a = b
    BY <1>3, <1>12, <2>2
  <2>3. CASE a \notin {b, rest}
    BY <1>2, <1>6, <1>12, <2>3 DEF Linked
  <2>4. QED
    BY <2>1, <2>2, <2>3
<1>13. ASSUME NEW a \in DOMAIN m, m[a].next # NULL
       PROVE  /\ m[a].next \in DOMAIN m
              /\ m[a].next = Finish(m, a)
              /\ m[m[a].next].prev = a
  <2>1. CASE a = b
    BY <1>7, <2>1
  <2>2. CASE a = rest
    <3>1. blk[b].next \in DOMAIN blk \ {b} /\ blk[b].next = Finish(blk, b)
      BY <1>2, <1>9, <1>13, <2>2 DEF Linked
    <3>2. QED
      BY <1>7, <2>2, <3>1
  <2>3. CASE a \notin {b, rest}
    <3>1. a \in DOMAIN blk /\ m[a].next = blk[a].next /\ blk[a].next \in DOMAIN blk
          /\ blk[a].next = Finish(blk, a) /\ blk[blk[a].next].prev = a
      BY <1>2, <1>13, <2>3 DEF Linked
    <3>2. blk[a].next # blk[b].next
      BY <1>8, <1>13, <2>3, <3>1
    <3>3. m[blk[a].next].prev = a
      BY <3>1, <3>2
    <3>4. QED
      BY <1>6, <2>3, <3>1, <3>3
  <2>4. QED
    BY <2>1, <2>2, <2>3
<1>14. ASSUME NEW a \in DOMAIN m, a # Start
       PROVE  m[a].prev \in DOMAIN m /\ m[m[a].prev].next = a
  <2>1. CASE a = rest
    BY <2>1
  <2>2. CASE a # rest /\ a = blk[b].next
    BY <1>9, <2>2
  <2>3. CASE a # rest /\ a # blk[b].next
    <3>1. a \in DOMAIN blk /\ m[a].prev = blk[a].prev /\ blk[a].prev \in DOMAIN blk
          /\ blk[blk[a].prev].next = a
      BY <1>2, <1>14, <2>3 DEF Linked
    <3>2. blk[a].prev # b
      BY <2>3, <3>1
    <3>3. QED
      BY <3>1, <3>2
  <2>4. QED
    BY <2>1, <2>2, <2>3
<1>15. \A a \in DOMAIN m : Finish(m, a) <= end
  <2>1. Finish(m, b) <= end
    BY <1>1, <1>2, <1>3, <1>7 DEF Linked, Finish, Header
  <2>2. QED
    BY <1>2, <1>6, <1>7, <2>1 DEF Linked
<1>16. ASSUME NEW a \in DOMAIN m, NEW c \in DOMAIN m, a < c
       PROVE  Finish(m, a) <= c
  <2>1. CASE a = rest /\ c # rest
    <3>1. b < c
      BY <1>1, <1>3, <1>16, <2>1
    <3>2. QED
      BY <1>2, <1>7, <2>1, <3>1 DEF Linked
  <2>2. CASE a = b
    <3>1. CASE c = rest
      BY <1>3, <1>7, <2>2, <3>1
    <3>2. CASE c # rest
      <4>1. Finish(blk, b) <= c
        BY <1>2, <1>16, <2>2, <3>2 DEF Linked
      <4>2. c \in Nat /\ Finish(blk, b) \in Nat
        BY <1>1, <3>2 DEF Finish, Header
      <4>3. QED
        BY <1>3, <1>7, <2>2, <4>1, <4>2
    <3>3. QED
      BY <3>1, <3>2
  <2>3. CASE a \notin {b, rest} /\ c = rest
    <3>1. a < b
      <4>1. a \in Nat /\ b \in Nat /\ a # b /\ a \in DOMAIN blk
        BY <1>1, <2>3
      <4>2. ~(b < a)
        <5>1. SUFFICES ASSUME b < a PROVE FALSE
          OBVIOUS
        <5>2. Finish(blk, b) <= a
          BY <1>2, <4>1, <5>1 DEF Linked
        <5>3. Finish(blk, b) \in Nat
          BY <1>1 DEF Finish, Header
        <5>4. QED
          BY <1>3, <1>16, <2>3, <4>1, <5>2, <5>3
      <4>3. QED
        BY <4>1, <4>2
    <3>2. Finish(blk, a) <= b /\ Finish(blk, a) \in Nat
      BY <1>1, <1>2, <2>3, <3>1 DEF Linked, Finish, Header
    <3>3. QED
      BY <1>1, <1>3, <1>6, <2>3, <3>2
  <2>4. CASE a \notin {b, rest} /\ c # rest
    BY <1>2, <1>6, <1>16, <2>4 DEF Linked
  <2>5. QED
    BY <1>3, <1>16, <2>1, <2>2, <2>3, <2>4
<1>17. Linked(m, end)
  BY <1>11, <1>12, <1>13, <1>14, <1>15, <1>16 DEF Linked
<1>18. QED
  BY <1>4, <1>10, <1>17 DEF List

\* The last block may grow with the heap.
LEMMA GrownList ==
  ASSUME NEW blk, NEW end \in Nat, List(blk, end),
         NEW l \in DOMAIN blk, blk[l].next = NULL,
         NEW n \in Nat, n >= blk[l].size,
         NEW m, DOMAIN m = DOMAIN blk, m \in [DOMAIN m -> Hdr],
         m[l].size = n, m[l].next = NULL, m[l].prev = blk[l].prev,
         \A a \in DOMAIN blk \ {l} : m[a] = blk[a]
  PROVE  List(m, end + n - blk[l].size)
<1>1. /\ Start \in DOMAIN blk /\ NULL \notin DOMAIN blk
      /\ \A a \in DOMAIN blk : /\ a \in Nat /\ a # NULL
                               /\ blk[a].size \in Nat
                               /\ blk[a].next \in Nat /\ blk[a].prev \in Nat
  BY HdrFields DEF List, HdrFcn
<1>2. Linked(blk, end)
  BY DEF List
<1> DEFINE top == end + n - blk[l].size
<1>3. top \in Nat /\ end <= top
  BY <1>1
<1>4. Finish(m, l) = top
  BY <1>1, <1>2 DEF Linked, Finish, Header
<1>5. \A a \in DOMAIN blk \ {l} : Finish(m, a) = Finish(blk, a)
  BY DEF Finish
<1>6. \A a \in DOMAIN blk : m[a].next = blk[a].next /\ m[a].prev = blk[a].prev
  OBVIOUS
<1>7. \A a \in DOMAIN blk : blk[a].next = NULL => a = l
  <2> SUFFICES ASSUME NEW a \in DOMAIN blk, blk[a].next = NULL, a # l PROVE FALSE
    OBVIOUS
  <2>1. Finish(blk, a) = end /\ Finish(blk, l) = end
    BY <1>2 DEF Linked
  <2>2. a < l \/ l < a
    BY <1>1
  <2>3. QED
    BY <1>1, <1>2, <2>1, <2>2 DEF Linked, Finish, Header
<1>8. HdrFcn(m)
  BY <1>1 DEF HdrFcn
<1>9. m[Start].prev = NULL
  BY <1>1, <1>2, <1>6 DEF Linked
<1>10. \A a \in DOMAIN m : m[a].next = NULL => Finish(m, a) = top
  BY <1>4, <1>6, <1>7
<1>11. ASSUME NEW a \in DOMAIN m, m[a].next # NULL
       PROVE  /\ m[a].next \in DOMAIN m
              /\ m[a].next = Finish(m, a)
              /\ m[m[a].next].prev = a
  <2>1. a # l /\ blk[a].next \in DOMAIN blk /\ blk[a].next = Finish(blk, a)
        /\ blk[blk[a].next].prev = a
    BY <1>2, <1>6, <1>11 DEF Linked
  <2>2. QED
    BY <1>5, <1>6, <2>1
<1>12. \A a \in DOMAIN m : a # Start => m[a].prev \in DOMAIN m /\ m[m[a].prev].next = a
  BY <1>2, <1>6 DEF Linked
<1>13. ASSUME NEW a \in DOMAIN m
       PROVE  Finish(m, a) <= top
  <2>1. CASE a = l
    BY <1>3, <1>4, <2>1
  <2>2. CASE a # l
    <3>1. Finish(blk, a) <= end /\ Finish(blk, a) \in Nat
      BY <1>1, <1>2, <1>13 DEF Linked, Finish, Header
    <3>2. QED
      BY <1>3, <1>5, <2>2, <3>1
  <2>3. QED
    BY <2>1, <2>2
<1>14. ASSUME NEW a \in DOMAIN m, NEW c \in DOMAIN m, a < c
       PROVE  Finish(m, a) <= c
  <2>1. CASE a = l
    <3>1. Finish(blk, l) <= c /\ Finish(blk, l) = end /\ Finish(blk, c) <= end
      BY <1>2, <1>14, <2>1 DEF Linked
    <3>2. QED
      BY <1>1, <3>1 DEF Finish, Header
  <2>2. CASE a # l
    BY <1>2, <1>5, <1>14, <2>2 DEF Linked
  <2>3. QED
    BY <2>1, <2>2
<1>15. Linked(m, top)
  BY <1>9, <1>10, <1>11, <1>12, <1>13, <1>14 DEF Linked
<1>16. QED
  BY <1>8, <1>15 DEF List

\* A block may be put behind the last one.
LEMMA AppendedList ==
  ASSUME NEW blk, NEW end \in Nat \ {0}, List(blk, end),
         NEW l \in DOMAIN blk, blk[l].next = NULL,
         NEW n \in Nat,
         NEW m, DOMAIN m = DOMAIN blk \cup {end}, m \in [DOMAIN m -> Hdr],
         m[end].size = n, m[end].next = NULL, m[end].prev = l,
         m[l].size = blk[l].size, m[l].next = end, m[l].prev = blk[l].prev,
         \A a \in DOMAIN blk \ {l} : m[a] = blk[a]
  PROVE  List(m, end + Header + n) /\ end \notin DOMAIN blk
<1>1. /\ Start \in DOMAIN blk /\ NULL \notin DOMAIN blk
      /\ \A a \in DOMAIN blk : /\ a \in Nat /\ a # NULL
                               /\ blk[a].size \in Nat
                               /\ blk[a].next \in Nat /\ blk[a].prev \in Nat
  BY HdrFields DEF List, HdrFcn
<1>2. Linked(blk, end)
  BY DEF List
<1> DEFINE top == end + Header + n
<1>3. top \in Nat /\ end < top
  BY DEF Header
<1>4. \A a \in DOMAIN blk : a < end
  BY <1>1, <1>2 DEF Linked, Finish, Header
<1>5. end \notin DOMAIN blk
  BY <1>4
<1>6. Finish(m, end) = top /\ \A a \in DOMAIN blk : Finish(m, a) = Finish(blk, a)
  BY DEF Finish
<1>7. \A a \in DOMAIN blk : blk[a].next = NULL => a = l
  <2> SUFFICES ASSUME NEW a \in DOMAIN blk, blk[a].next = NULL, a # l PROVE FALSE
    OBVIOUS
  <2>1. Finish(blk, a) = end /\ Finish(blk, l) = end
    BY <1>2 DEF Linked
  <2>2. a < l \/ l < a
    BY <1>1
  <2>3. QED
    BY <1>1, <1>2, <2>1, <2>2 DEF Linked, Finish, Header
<1>8. HdrFcn(m)
  BY <1>1, <1>3 DEF HdrFcn, NULL
<1>9. m[Start].prev = NULL
  BY <1>1, <1>2 DEF Linked
<1>10. \A a \in DOMAIN m : m[a].next = NULL => Finish(m, a) = top
  BY <1>6, <1>7 DEF NULL
<1>11. ASSUME NEW a \in DOMAIN m, m[a].next # NULL
       PROVE  /\ m[a].next \in DOMAIN m
              /\ m[a].next = Finish(m, a)
              /\ m[m[a].next].prev = a
  <2>1. CASE a = l
    BY <1>2, <1>6, <2>1 DEF Linked
  <2>2. CASE a # l
    <3>1. a \in DOMAIN blk /\ m[a] = blk[a]
      BY <1>11, <2>2
    <3>2. blk[a].next \in DOMAIN blk /\ blk[a].next = Finish(blk, a)
          /\ blk[blk[a].next].prev = a
      BY <1>2, <1>11, <3>1 DEF Linked
    <3>3. m[blk[a].next].prev = a
      BY <3>2
    <3>4. QED
      BY <1>6, <3>1, <3>2, <3>3
  <2>3. QED
    BY <2>1, <2>2
<1>12. ASSUME NEW a \in DOMAIN m, a # Start
       PROVE  m[a].prev \in DOMAIN m /\ m[m[a].prev].next = a
  <2>1. CASE a = end
    BY <2>1
  <2>2. CASE a # end
    <3>1. m[a].prev = blk[a].prev /\ blk[a].prev \in DOMAIN blk
          /\ blk[blk[a].prev].next = a
      BY <1>2, <1>12, <2>2 DEF Linked
    <3>2. blk[a].prev # l
      BY <1>1, <2>2, <3>1
    <3>3. QED
      BY <3>1, <3>2
  <2>3. QED
    BY <2>1, <2>2
<1>13. ASSUME NEW a \in DOMAIN m
       PROVE  Finish(m, a) <= top
  <2>1. CASE a = end
    BY <1>3, <1>6, <2>1
  <2>2. CASE a # end
    <3>1. Finish(blk, a) <= end /\ Finish(blk, a) \in Nat
      BY <1>1, <1>2, <1>13, <2>2 DEF Linked, Finish, Header
    <3>2. QED
      BY <1>3, <1>6, <2>2, <3>1
  <2>3. QED
    BY <2>1, <2>2
<1>14. ASSUME NEW a \in DOMAIN m, NEW c \in DOMAIN m, a < c
       PROVE  Finish(m, a) <= c
  <2>1. a \in DOMAIN blk
    BY <1>1, <1>4, <1>14
  <2>2. QED
    BY <1>2, <1>6, <1>14, <2>1 DEF Linked
<1>15. Linked(m, top)
  BY <1>9, <1>10, <1>11, <1>12, <1>13, <1>14 DEF Linked
<1>16. QED
  BY <1>5, <1>8, <1>15 DEF List
-----------------------------------------------------------------------------
\* Changing the flags only leaves the list as it is.
LEMMA FlaggedList ==
  ASSUME NEW blk, NEW end \in Nat, List(blk, end), NEW m,
         DOMAIN m = DOMAIN blk, m \in [DOMAIN m -> Hdr],
         \A a \in DOMAIN blk : /\ m[a].size = blk[a].size /\ m[a].next = blk[a].next
                              /\ m[a].prev = blk[a].prev
  PROVE  List(m, end)
<1>1. HdrFcn(m)
  BY DEF HdrFcn, List
<1>2. \A a \in DOMAIN blk : Finish(m, a) = Finish(blk, a)
  BY DEF Finish
<1>3. Linked(blk, end) /\ Start \in DOMAIN blk
  BY DEF List, HdrFcn
<1>4. Linked(m, end)
  BY <1>2, <1>3 DEF Linked
<1>5. QED
  BY <1>1, <1>4 DEF List

\* Marking a header as used keeps its other fields.
LEMMA UsedHdr ==
  ASSUME NEW h \in Hdr, NEW g, g = [h EXCEPT !.free = FALSE]
  PROVE  /\ g \in Hdr /\ ~g.free
         /\ g.size = h.size /\ g.next = h.next /\ g.prev = h.prev
  BY DEF Hdr

\* Marking a header as free keeps its other fields.
LEMMA FreedHdr ==
  ASSUME NEW h \in Hdr, NEW g, g = [h EXCEPT !.free = TRUE]
  PROVE  /\ g \in Hdr /\ g.free
         /\ g.size = h.size /\ g.next = h.next /\ g.prev = h.prev
  BY DEF Hdr

\* The heap stays below its roof, and that inside the machine word.
LEMMA RoofFact ==
  ASSUME Bounds
  PROVE  mappedTop <= Roof /\ heapEnd <= Roof /\ Roof \in Nat /\ Roof < Word
<1>1. /\ {Start, InitialSize, PageSize, Word} \subseteq Nat \ {0} /\ Frames \in Nat
      /\ Start + InitialSize + PageSize * (Frames + 1) < Word
  BY KmallocAssumption
<1>2. PageSize * frames \in Nat /\ PageSize * Frames \in Nat
      /\ PageSize * (Frames + 1) = PageSize * Frames + PageSize
  BY <1>1 DEF Bounds
<1>3. Roof \in Nat /\ Roof < Word
  BY <1>1, <1>2 DEF Roof
<1>4. QED
  BY <1>2, <1>3 DEF Bounds

\* heap_sbrk moves the break by what it is asked for and maps up to there.
LEMMA SbrkFact ==
  ASSUME Bounds, NEW inc \in Nat, Roof + inc + PageSize < Word, Sbrk(inc)
  PROVE  Bounds' /\ heapEnd' = heapEnd + inc
<1>1. PageSize \in Nat \ {0} /\ Frames \in Nat /\ Word \in Nat
  BY KmallocAssumption
<1>2. /\ heapEnd \in Nat /\ mappedTop \in Nat /\ frames \in 0..Frames /\ 0 < heapEnd
      /\ heapEnd <= mappedTop /\ mappedTop + PageSize * frames <= Roof
  BY DEF Bounds
<1>3. mappedTop <= Roof /\ heapEnd <= Roof /\ Roof \in Nat
  BY RoofFact
<1> DEFINE break == heapEnd + inc
<1>4. Plus(heapEnd, inc) = break
  BY <1>1, <1>2, <1>3, PlusFact
<1>5. NewTop(break) \in Nat /\ break <= NewTop(break)
  <2>1. CASE break > mappedTop
    <3>1. break + PageSize - 1 < Word
      BY <1>1, <1>2, <1>3
    <3>2. ALIGN(break, PageSize) \in Nat /\ break <= ALIGN(break, PageSize)
      BY <1>1, <1>2, <3>1, AlignFact
    <3>3. QED
      BY <2>1, <3>2 DEF NewTop
  <2>2. CASE ~(break > mappedTop)
    BY <1>2, <2>2 DEF NewTop
  <2>3. QED
    BY <2>1, <2>2
<1>6. PICK n \in 0..frames :
        /\ Maps(n, break)
        /\ heapEnd' = break /\ mappedTop' = NewTop(break) /\ frames' = frames - n
  BY <1>4 DEF Sbrk
<1>7. NewTop(break) <= mappedTop + n * PageSize
  BY <1>1, <1>2, <1>5, <1>6 DEF Maps
<1>8. n * PageSize + PageSize * (frames - n) = PageSize * frames
  BY <1>1, <1>2, <1>6
<1>9. n * PageSize \in Nat /\ PageSize * (frames - n) \in Nat
  BY <1>1, <1>2, <1>6
<1>10. frames' \in 0..Frames
  BY <1>1, <1>2, <1>6
<1>11. mappedTop' + PageSize * frames' <= Roof
  BY <1>1, <1>2, <1>3, <1>5, <1>6, <1>7, <1>8, <1>9
<1>12. QED
  BY <1>2, <1>5, <1>6, <1>10, <1>11 DEF Bounds, Roof

\* What an allocation of n bytes in block b does.
AllocDone(n, b) ==
  /\ List(block', heapEnd') /\ Sparse(block') /\ Bounds'
  /\ b \in DOMAIN block' /\ ~block'[b].free /\ block'[b].size >= n
  /\ b \in Blocks => block[b].free
  /\ Blocks \subseteq DOMAIN block'
  /\ \A a \in Blocks \ {b} : block'[a].size = block[a].size
                            /\ block'[a].free = block[a].free
  /\ \A a \in DOMAIN block' \ (Blocks \cup {b}) : block'[a].free

\* kmalloc, first fit.
LEMMA CarvedDone ==
  ASSUME KmallocInv, NEW n \in Nat, NEW b, Roof + PageSize + n + Header < Word, n + Header + 8 < Word,
         Fits(b, n), block' = Carved(b, n), UNCHANGED <<heapEnd, mappedTop, frames>>
  PROVE  AllocDone(n, b)
<1>1. List(block, heapEnd) /\ Sparse(block) /\ Bounds /\ heapEnd \in Nat
  BY DEF KmallocInv, Bounds
<1>2. b \in Blocks /\ block[b].free /\ block[b].size >= n
  BY DEF Fits
<1>3. \A a \in Blocks : /\ a \in Nat /\ a # NULL /\ block[a] \in Hdr
                        /\ block[a].size \in Nat /\ block[a].free \in BOOLEAN
                        /\ block[a].next \in Nat /\ block[a].prev \in Nat
  BY <1>1, HdrFields DEF List, Blocks
<1>4. Bounds' /\ heapEnd' = heapEnd
  BY <1>1 DEF Bounds
<1>5. Plus(n, Header + 8) = n + Header + 8
  BY PlusFact DEF Header
<1>6. block[b].next # NULL => block[b].next \in Blocks /\ ~block[block[b].next].free
  BY <1>1, <1>2 DEF List, Linked, Sparse, Blocks
<1>7. CASE ~(block[b].size >= n + Header + 8)
  <2>1. block' = [block EXCEPT ![b].free = FALSE]
    BY <1>5, <1>7 DEF Carved
  <2>2. /\ DOMAIN block' = Blocks /\ block' \in [DOMAIN block' -> Hdr]
        /\ ~block'[b].free
        /\ \A a \in Blocks \ {b} : block'[a] = block[a]
        /\ \A a \in Blocks : /\ block'[a].size = block[a].size
                             /\ block'[a].next = block[a].next
                             /\ block'[a].prev = block[a].prev
    <3>1. HdrFcn(block) /\ b \in DOMAIN block
      BY <1>1, <1>2 DEF Blocks, List
    <3>2. /\ DOMAIN block' = DOMAIN block /\ block' \in [DOMAIN block' -> Hdr]
          /\ ~block'[b].free
          /\ \A a \in DOMAIN block \ {b} : block'[a] = block[a]
          /\ block'[b].size = block[b].size /\ block'[b].next = block[b].next
          /\ block'[b].prev = block[b].prev
      <4>1. /\ DOMAIN block' = DOMAIN block
            /\ block' = [a \in DOMAIN block |-> block'[a]]
            /\ block'[b] = [block[b] EXCEPT !.free = FALSE]
            /\ \A a \in DOMAIN block \ {b} : block'[a] = block[a]
        BY <2>1, <3>1 DEF HdrFcn
      <4>2. /\ block'[b] \in Hdr /\ ~block'[b].free
            /\ block'[b].size = block[b].size /\ block'[b].next = block[b].next
            /\ block'[b].prev = block[b].prev
        <5>1. block'[b] = [block[b] EXCEPT !.free = FALSE] /\ block[b] \in Hdr
          BY <1>2, <1>3, <4>1
        <5>2. QED
          BY <5>1, UsedHdr
      <4>3. \A a \in DOMAIN block' : block'[a] \in Hdr
        BY <1>3, <4>1, <4>2 DEF Blocks
      <4>4. block' \in [DOMAIN block' -> Hdr]
        BY <4>1, <4>3
      <4>5. QED
        BY <4>1, <4>2, <4>4
    <3>3. QED
      BY <3>2 DEF Blocks
  <2>5. List(block', heapEnd)
    BY <1>1, <2>2, FlaggedList DEF Blocks
  <2>3. Sparse(block')
    BY <1>1, <2>2 DEF Sparse, Blocks, List, Linked
  <2>4. QED
    BY <1>2, <1>4, <2>2, <2>3, <2>5 DEF AllocDone
<1>8. CASE block[b].size >= n + Header + 8
  <2> DEFINE rest == b + Header + n
             m == block'
  <2>1. m = [a \in Blocks \cup {rest} |->
             IF a = b THEN
             [size |-> n, free |-> FALSE, next |-> rest, prev |-> block[b].prev]
             ELSE IF a = rest
             THEN [size |-> block[b].size - n - Header, free |-> TRUE,
                   next |-> block[b].next, prev |-> b]
             ELSE IF a = block[b].next THEN [block[a] EXCEPT !.prev = rest]
             ELSE block[a]]
    BY <1>5, <1>8 DEF Carved, Payload
  <2>2. rest \in Nat /\ b < rest /\ rest < b + Header + block[b].size
    BY <1>2, <1>3, <1>8 DEF Header
  <2>3. rest \notin Blocks
    <3>1. \A a \in Blocks : b < a => b + Header + block[b].size <= a
      BY <1>1, <1>2 DEF List, Linked, Blocks, Finish
    <3>2. QED
      BY <1>2, <1>3, <2>2, <3>1 DEF Header
  <2> HIDE DEF rest, m
  <2>4. DOMAIN m = Blocks \cup {rest}
    BY <2>1
  <2>5. m[b] = [size |-> n, free |-> FALSE, next |-> rest, prev |-> block[b].prev]
    BY <1>2, <2>1
  <2>6. m[rest] = [size |-> block[b].size - n - Header, free |-> TRUE,
                   next |-> block[b].next, prev |-> b]
    BY <1>2, <2>1, <2>3
  <2>7. block[b].size - n - Header \in Nat
    BY <1>2, <1>3, <1>8 DEF Header
  <2>8. m[b] \in Hdr /\ m[b].size = n /\ m[b].next = rest /\ m[b].prev = block[b].prev
        /\ m[b].free = FALSE
    BY <1>2, <1>3, <2>2, <2>5 DEF Hdr
  <2>9. /\ m[rest] \in Hdr /\ m[rest].size = block[b].size - n - Header
        /\ m[rest].next = block[b].next /\ m[rest].prev = b /\ m[rest].free = TRUE
    BY <1>2, <1>3, <2>6, <2>7 DEF Hdr
  <2>10. ASSUME NEW a \in Blocks \ {b}
         PROVE  /\ m[a] \in Hdr /\ m[a].size = block[a].size /\ m[a].next = block[a].next
                /\ m[a].free = block[a].free
                /\ m[a].prev = IF a = block[b].next THEN rest ELSE block[a].prev
    <3>1. CASE a = block[b].next
      <4>1. m[a] = [block[a] EXCEPT !.prev = rest] /\ block[a] \in Hdr
        BY <1>3, <2>1, <2>3, <3>1
      <4>2. QED
        BY <2>2, <3>1, <4>1 DEF Hdr
    <3>2. CASE a # block[b].next
      BY <1>3, <2>1, <2>3, <3>2
    <3>3. QED
      BY <3>1, <3>2
  <2>11. m \in [DOMAIN m -> Hdr]
    <3>1. \A a \in DOMAIN m : m[a] \in Hdr
      BY <2>4, <2>8, <2>9, <2>10
    <3>2. QED
      BY <2>1, <2>4, <3>1
  <2>12. block[b].size >= n + Header
    BY <1>3, <1>2, <1>8 DEF Header
  <2>13. List(m, heapEnd)
    BY <1>1, <1>2, <2>4, <2>8, <2>9, <2>10, <2>11, <2>12, SplitList DEF rest, Blocks
  <2>14. Sparse(m)
    <3> SUFFICES ASSUME NEW a \in DOMAIN m, m[a].free, m[a].next # NULL
                 PROVE  ~m[m[a].next].free
      BY DEF Sparse
    <3>1. CASE a = rest
      <4>1. block[b].next \in Blocks \ {b} /\ ~block[block[b].next].free
        BY <1>2, <1>6, <2>9, <3>1
      <4>2. QED
        BY <2>9, <2>10, <3>1, <4>1
    <3>2. CASE a # rest
      <4>1. a \in Blocks \ {b} /\ m[a].next = block[a].next /\ block[a].free
        BY <2>4, <2>8, <2>10, <3>2
      <4>2. block[a].next \in Blocks /\ ~block[block[a].next].free
        BY <1>1, <4>1 DEF Sparse, List, Linked, Blocks
      <4>3. QED
        BY <1>2, <2>10, <4>1, <4>2
    <3>3. QED
      BY <3>1, <3>2
  <2>15. QED
    BY <1>2, <1>4, <2>3, <2>4, <2>8, <2>9, <2>10, <2>13, <2>14, <1>3 DEF AllocDone, m
<1>9. QED
  BY <1>7, <1>8

\* kmalloc, when the heap has to grow.
LEMMA ExtendDone ==
  ASSUME KmallocInv, NEW n \in Nat, NEW b, NEW l \in Blocks, Roof + PageSize + n + Header < Word,
         \A a \in Blocks : ~Fits(a, n), IsLast(l), Sbrk(Growth(l, n)),
         IF block[l].free
         THEN /\ b = l
              /\ block' = [block EXCEPT ![l] = [size |-> n, free |-> FALSE,
                                                next |-> NULL, prev |-> @.prev]]
         ELSE b = heapEnd /\ block' = Appended(l, n)
  PROVE  AllocDone(n, b)
<1>1. List(block, heapEnd) /\ Sparse(block) /\ Bounds /\ heapEnd \in Nat \ {0}
  BY DEF KmallocInv, Bounds
<1>2. \A a \in Blocks : /\ a \in Nat /\ a # NULL /\ block[a] \in Hdr
                        /\ block[a].size \in Nat /\ block[a].free \in BOOLEAN
                        /\ block[a].next \in Nat /\ block[a].prev \in Nat
  BY <1>1, HdrFields DEF List, Blocks
<1>3. block[l].next = NULL
  BY DEF IsLast
<1>4. Roof \in Nat /\ PageSize \in Nat /\ Word \in Nat
  BY <1>1, RoofFact, KmallocAssumption
<1>5. \A a \in Blocks : block[a].free /\ block[a].next # NULL =>
        block[a].next \in Blocks /\ ~block[block[a].next].free
  BY <1>1 DEF List, Linked, Sparse, Blocks
<1>6. CASE block[l].free
  <2>1. block[l].size < n
    BY <1>2, <1>6 DEF Fits
  <2>2. Growth(l, n) = n - block[l].size /\ n - block[l].size \in Nat
    BY <1>2, <1>6, <2>1 DEF Growth
  <2>3. Bounds' /\ heapEnd' = heapEnd + (n - block[l].size)
    <3>1. Roof + (n - block[l].size) + PageSize < Word
      BY <1>2, <1>4, <2>1 DEF Header
    <3>2. QED
      BY <1>1, <2>2, <3>1, SbrkFact
  <2>4. /\ b = l /\ DOMAIN block' = Blocks
        /\ block'[l] = [size |-> n, free |-> FALSE, next |-> NULL, prev |-> block[l].prev]
        /\ \A a \in Blocks \ {l} : block'[a] = block[a]
        /\ block' = [a \in Blocks |-> block'[a]]
    BY <1>6 DEF Blocks
  <2>5. /\ block'[l] \in Hdr /\ block'[l].size = n /\ block'[l].next = NULL
        /\ block'[l].prev = block[l].prev /\ ~block'[l].free
    BY <1>2, <2>4 DEF Hdr, NULL
  <2>6. block' \in [DOMAIN block' -> Hdr]
    <3>1. \A a \in DOMAIN block' : block'[a] \in Hdr
      BY <1>2, <2>4, <2>5
    <3>2. block' = [block EXCEPT ![l] = [size |-> n, free |-> FALSE, next |-> NULL,
                                         prev |-> block[l].prev]]
      BY <1>6
    <3>3. DOMAIN block' = DOMAIN block /\ block' = [a \in DOMAIN block |-> block'[a]]
      BY <3>2
    <3>4. QED
      BY <3>1, <3>3
  <2>7. List(block', heapEnd + n - block[l].size)
    BY <1>1, <1>2, <1>3, <2>1, <2>4, <2>5, <2>6, GrownList DEF Blocks
  <2>8. heapEnd' = heapEnd + n - block[l].size
    BY <1>1, <1>2, <2>3
  <2>9. Sparse(block')
    BY <1>5, <2>4, <2>5 DEF Sparse
  <2>10. block'[b].size >= n
    BY <2>4, <2>5
  <2>11. QED
    BY <1>6, <2>3, <2>4, <2>5, <2>7, <2>8, <2>9, <2>10 DEF AllocDone
<1>7. CASE ~block[l].free
  <2>1. Plus(n, Header) = n + Header
    BY <1>4, PlusFact DEF Header
  <2>2. Growth(l, n) = n + Header
    BY <1>7, <2>1 DEF Growth
  <2>3. Bounds' /\ heapEnd' = heapEnd + (n + Header)
    <3>1. Roof + (n + Header) + PageSize < Word
      BY <1>4 DEF Header
    <3>2. QED
      BY <1>1, <2>2, <3>1, SbrkFact DEF Header
  <2>4. b = heapEnd /\ block' = Appended(l, n)
    BY <1>7
  <2>5. \A a \in Blocks : a < heapEnd
    BY <1>1, <1>2 DEF List, Linked, Finish, Header, Blocks
  <2>6. heapEnd \notin Blocks
    BY <1>1, <2>5
  <2>7. /\ DOMAIN block' = Blocks \cup {heapEnd}
        /\ block' = [a \in Blocks \cup {heapEnd} |-> block'[a]]
        /\ block'[heapEnd] = [size |-> n, free |-> FALSE, next |-> NULL, prev |-> l]
        /\ block'[l] = [block[l] EXCEPT !.next = heapEnd]
        /\ \A a \in Blocks \ {l} : block'[a] = block[a]
    BY <2>4, <2>6 DEF Appended
  <2>8. /\ block'[heapEnd] \in Hdr /\ block'[heapEnd].size = n
        /\ block'[heapEnd].next = NULL /\ block'[heapEnd].prev = l
        /\ ~block'[heapEnd].free
    BY <1>2, <2>7 DEF Hdr, NULL
  <2>9. /\ block'[l] \in Hdr /\ block'[l].size = block[l].size /\ block'[l].next = heapEnd
        /\ block'[l].prev = block[l].prev /\ block'[l].free = block[l].free
    BY <1>1, <1>2, <2>7 DEF Hdr
  <2>10. block' \in [DOMAIN block' -> Hdr]
    <3>1. \A a \in DOMAIN block' : block'[a] \in Hdr
      BY <1>2, <2>7, <2>8, <2>9
    <3>2. QED
      BY <2>7, <3>1
  <2>11. List(block', heapEnd + Header + n)
    <3>1. /\ DOMAIN block' = DOMAIN block \cup {heapEnd}
          /\ \A a \in DOMAIN block \ {l} : block'[a] = block[a]
          /\ l \in DOMAIN block
      BY <2>7 DEF Blocks
    <3>2. QED
      BY <1>1, <1>3, <2>8, <2>9, <2>10, <3>1, AppendedList
  <2>12. heapEnd' = heapEnd + Header + n
    BY <1>1, <2>3 DEF Header
  <2>13. Sparse(block')
    <3> SUFFICES ASSUME NEW a \in DOMAIN block', block'[a].free, block'[a].next # NULL
                 PROVE  ~block'[block'[a].next].free
      BY DEF Sparse
    <3>1. a \in Blocks \ {l}
      BY <1>7, <2>7, <2>8, <2>9
    <3>2. block'[a] = block[a] /\ block[a].next \in Blocks /\ ~block[block[a].next].free
      BY <1>5, <2>7, <3>1
    <3>3. CASE block[a].next = l
      BY <2>9, <3>2, <3>3
    <3>4. CASE block[a].next # l
      BY <2>7, <3>2, <3>4
    <3>5. QED
      BY <3>3, <3>4
  <2>14. \A a \in Blocks : block'[a].size = block[a].size /\ block'[a].free = block[a].free
    BY <2>7, <2>9
  <2>15. block'[b].size >= n
    BY <2>4, <2>8
  <2>16. QED
    BY <2>3, <2>4, <2>6, <2>7, <2>8, <2>11, <2>12, <2>13, <2>14, <2>15 DEF AllocDone
<1>8. QED
  BY <1>6, <1>7

\* kmalloc, either way.
LEMMA AllocateDone ==
  ASSUME KmallocInv, NEW n \in Nat, NEW b, Roof + PageSize + n + Header < Word, n + Header + 8 < Word,
         Allocate(n, b)
  PROVE  AllocDone(n, b)
<1>1. CASE /\ FirstFit(b, n) /\ block' = Carved(b, n)
           /\ UNCHANGED <<heapEnd, mappedTop, frames>>
  BY <1>1, CarvedDone DEF FirstFit
<1>2. ASSUME NEW l \in Blocks,
             \A a \in Blocks : ~Fits(a, n),
             IsLast(l),
             Sbrk(Growth(l, n)),
             IF block[l].free
             THEN /\ b = l
                  /\ block' = [block EXCEPT ![l] = [size |-> n, free |-> FALSE,
                                                    next |-> NULL, prev |-> @.prev]]
             ELSE b = heapEnd /\ block' = Appended(l, n)
      PROVE  AllocDone(n, b)
  BY <1>2, ExtendDone
<1>3. QED
  BY <1>1, <1>2 DEF Allocate

\* A failed allocation touches nothing but the free frames.
LEMMA FailKeeps ==
  ASSUME KmallocInv, NEW n, AllocateFails(n), UNCHANGED <<owned, moving>>
  PROVE  KmallocInv'
<1>1. frames' = 0 /\ UNCHANGED <<block, heapEnd, mappedTop, owned, moving>>
  BY DEF AllocateFails, SbrkFails
<1>2. Bounds'
  <2>1. PageSize \in Nat /\ Frames \in Nat
    BY KmallocAssumption
  <2>2. mappedTop <= Roof /\ 0 \in 0..Frames /\ PageSize * 0 = 0
    BY <2>1, RoofFact DEF KmallocInv
  <2>3. QED
    BY <1>1, <2>2 DEF Bounds, KmallocInv, Roof
<1>3. List(block, heapEnd)' /\ Sparse(block)'
  BY <1>1 DEF KmallocInv
<1>4. Held'
  BY <1>1 DEF Held, KmallocInv, Blocks, Finish
<1>5. QED
  BY <1>2, <1>3, <1>4 DEF KmallocInv
-----------------------------------------------------------------------------
\* Nobody is moved, and the room of what is held stays.
Stay ==
  \A p \in DOMAIN owned \cap DOMAIN owned' :
    /\ owned'[p].header = owned[p].header
    /\ owned[p].header \in DOMAIN block'
    /\ block'[owned[p].header].size = block[owned[p].header].size

\* An address in a newly allocated block is held by nobody else.
LEMMA HoldDone ==
  ASSUME KmallocInv, NEW n \in Nat, NEW b, AllocDone(n, b),
         NEW p \in Nat, p = b + Header \/ p >= b + 2 * Header,
         NEW size \in Requests, p + size <= b + Header + n,
         Hold(p, size, b), moving' \subseteq DOMAIN owned \cup {p}
  PROVE  KmallocInv' /\ Stay
<1>1. Held /\ List(block, heapEnd)
  BY DEF KmallocInv
<1>2. /\ List(block', heapEnd') /\ Sparse(block') /\ Bounds'
      /\ b \in DOMAIN block' /\ ~block'[b].free /\ block'[b].size >= n
      /\ b \in Blocks => block[b].free
      /\ Blocks \subseteq DOMAIN block'
      /\ \A a \in Blocks \ {b} : block'[a].size = block[a].size
                                /\ block'[a].free = block[a].free
      /\ \A a \in DOMAIN block' \ (Blocks \cup {b}) : block'[a].free
  BY DEF AllocDone
<1>3. \A s \in Requests : s \in Nat \ {0}
  BY KmallocAssumption
<1>4. \A a \in DOMAIN block' : a \in Nat /\ block'[a].size \in Nat
  BY <1>2, HdrFields DEF List
<1>5. \A a, c \in DOMAIN block' : a < c => a + Header + block'[a].size <= c
  BY <1>2 DEF List, Linked, Finish
<1>6. /\ DOMAIN owned \subseteq Nat
      /\ \A q \in DOMAIN owned :
           /\ owned[q].size \in Requests /\ owned[q].header \in Blocks
           /\ q = owned[q].header + Header \/ q >= owned[q].header + 2 * Header
           /\ q + owned[q].size <= owned[q].header + Header + block[owned[q].header].size
  BY <1>1 DEF Held, Finish
<1>7. \A q \in DOMAIN owned : owned[q].header # b
  BY <1>1, <1>2, <1>6 DEF Held
<1>8. \A q \in DOMAIN owned :
        block'[owned[q].header].size = block[owned[q].header].size
        /\ owned[q].header \in DOMAIN block'
  BY <1>2, <1>6, <1>7
<1>9. p \notin DOMAIN owned
  <2> SUFFICES ASSUME p \in DOMAIN owned PROVE FALSE
    OBVIOUS
  <2> DEFINE h == owned[p].header
  <2>1. h \in DOMAIN block' /\ h # b /\ h \in Nat /\ b \in Nat
    BY <1>2, <1>4, <1>7, <1>8
  <2>2. h + 16 <= p /\ p < h + 16 + block'[h].size
    BY <1>3, <1>4, <1>6, <1>8, <2>1 DEF Header
  <2>3. b + 16 <= p /\ p < b + 16 + block'[b].size
    BY <1>2, <1>3, <1>4, <2>1 DEF Header
  <2>4. CASE h < b
    BY <1>2, <1>4, <1>5, <2>1, <2>2, <2>3, <2>4 DEF Header
  <2>5. CASE b < h
    BY <1>2, <1>4, <1>5, <2>1, <2>2, <2>3, <2>5 DEF Header
  <2>6. QED
    BY <2>1, <2>4, <2>5
<1>10. /\ DOMAIN owned' = DOMAIN owned \cup {p}
       /\ owned' = [q \in DOMAIN owned \cup {p} |-> owned'[q]]
       /\ owned'[p] = [size |-> size, header |-> b]
       /\ \A q \in DOMAIN owned : owned'[q] = owned[q]
  BY <1>9 DEF Hold
<1>11. \A q \in DOMAIN owned' :
         /\ owned'[q] \in [size : Requests, header : DOMAIN block']
         /\ q \in Nat
         /\ q = owned'[q].header + Header \/ q >= owned'[q].header + 2 * Header
         /\ q + owned'[q].size <= Finish(block', owned'[q].header)
  <2>1. ASSUME NEW q \in DOMAIN owned
        PROVE  /\ owned'[q] \in [size : Requests, header : DOMAIN block']
               /\ q \in Nat
               /\ q = owned'[q].header + Header \/ q >= owned'[q].header + 2 * Header
               /\ q + owned'[q].size <= Finish(block', owned'[q].header)
    <3>1. owned[q] \in [size : Requests, header : Blocks] /\ owned'[q] = owned[q]
      BY <1>1, <1>10 DEF Held
    <3>2. owned'[q] \in [size : Requests, header : DOMAIN block']
      BY <1>2, <3>1
    <3>3. QED
      BY <1>6, <1>8, <3>1, <3>2 DEF Finish
  <2>2. /\ owned'[p] \in [size : Requests, header : DOMAIN block']
        /\ owned'[p].header = b /\ owned'[p].size = size
    BY <1>2, <1>10
  <2>3. p + size <= Finish(block', b)
    BY <1>2, <1>3, <1>4 DEF Finish, Header
  <2>4. QED
    BY <1>10, <2>1, <2>2, <2>3
<1>12. owned'[p].header = b
  BY <1>10
<1>13. ASSUME NEW a \in DOMAIN block'
       PROVE  block'[a].free <=> \A q \in DOMAIN owned' : owned'[q].header # a
  <2>1. CASE a = b
    BY <1>2, <1>10, <1>12, <2>1
  <2>2. CASE a # b /\ a \in Blocks
    <3>1. block'[a].free <=> block[a].free
      BY <1>2, <2>2
    <3>2. block[a].free <=> \A q \in DOMAIN owned : owned[q].header # a
      BY <1>1, <2>2 DEF Held
    <3>3. QED
      BY <1>10, <1>12, <2>2, <3>1, <3>2
  <2>3. CASE a # b /\ a \notin Blocks
    <3>1. block'[a].free
      BY <1>2, <2>3
    <3>2. \A q \in DOMAIN owned : owned[q].header # a
      BY <1>6, <2>3
    <3>3. QED
      BY <1>10, <1>12, <2>3, <3>1, <3>2
  <2>4. QED
    BY <2>1, <2>2, <2>3
<1>14. \A q, r \in DOMAIN owned' : owned'[q].header = owned'[r].header => q = r
  <2>1. \A q, r \in DOMAIN owned : owned[q].header = owned[r].header => q = r
    BY <1>1 DEF Held
  <2>2. QED
    BY <1>7, <1>10, <1>12, <2>1
<1>15. owned' \in [DOMAIN owned' -> [size : Requests, header : DOMAIN block']]
  <2>1. \A q \in DOMAIN owned' : owned'[q] \in [size : Requests, header : DOMAIN block']
    BY <1>11
  <2>2. DOMAIN owned' = DOMAIN owned \cup {p}
        /\ owned' = [q \in DOMAIN owned \cup {p} |-> owned'[q]]
    BY <1>10
  <2>3. QED
    BY <2>1, <2>2
<1>16. Held'
  BY <1>10, <1>11, <1>13, <1>14, <1>15 DEF Held, Blocks
<1>17. KmallocInv'
  BY <1>2, <1>16 DEF KmallocInv
<1>18. Stay
  BY <1>6, <1>8, <1>10 DEF Stay
<1>19. QED
  BY <1>17, <1>18
-----------------------------------------------------------------------------
\* Block x of blk has taken in its successor n, whose own successor is in use.
Absorbed(blk, end, x, n, m) ==
  /\ List(m, end)
  /\ n \in DOMAIN blk /\ n # x
  /\ DOMAIN m = DOMAIN blk \ {n}
  /\ \A a \in DOMAIN m : m[a].free = blk[a].free
  /\ \A a \in DOMAIN m \ {x} : m[a].size = blk[a].size /\ m[a].next = blk[a].next
  /\ m[x].prev = blk[x].prev
  /\ m[x].next # NULL => ~m[m[x].next].free

\* The block behind block n of blk, if any, is in use.
UsedAfter(blk, n) == blk[n].next # NULL => ~blk[blk[n].next].free

\* Merging with such a successor does no more than that.
LEMMA Absorb ==
  ASSUME NEW blk, NEW end \in Nat, List(blk, end),
         NEW x \in DOMAIN blk, blk[x].next # NULL, UsedAfter(blk, blk[x].next)
  PROVE  Absorbed(blk, end, x, blk[x].next, Merged(blk, x))
<1> DEFINE n == blk[x].next
           m == Merged(blk, x)
<1>1. /\ n \in DOMAIN blk /\ n # x /\ blk[n].next # n /\ blk[n].next # x
  BY Successor
<1>2. List(m, end)
  BY MergedList
<1>3. MergedTo(blk, x, n, m)
  BY MergedFields
<1> HIDE DEF m, n
<1>4. /\ DOMAIN m = DOMAIN blk \ {n}
      /\ \A a \in DOMAIN m : m[a].free = blk[a].free
      /\ \A a \in DOMAIN m \ {x} : m[a].size = blk[a].size /\ m[a].next = blk[a].next
      /\ m[x].prev = blk[x].prev
      /\ m[x].next = blk[n].next
  BY <1>1, <1>3 DEF MergedTo
<1>5. m[x].next # NULL => m[x].next \in DOMAIN m
  BY <1>1, <1>2, <1>4 DEF List, Linked
<1>6. blk[n].next # NULL => ~blk[blk[n].next].free
  BY DEF UsedAfter, n
<1>7. m[x].next # NULL => ~m[m[x].next].free
  BY <1>4, <1>5, <1>6
<1>8. QED
  BY <1>1, <1>2, <1>4, <1>7 DEF Absorbed, m, n

\* kfree: the list after block b is given back.
LEMMA ReleasedList ==
  ASSUME NEW end \in Nat, List(block, end), Sparse(block), NEW b \in Blocks, ~block[b].free,
         NEW m, m = Released(b)
  PROVE  /\ List(m, end) /\ Sparse(m)
         /\ DOMAIN m \subseteq Blocks
         /\ \A a \in Blocks \ DOMAIN m : a = b \/ block[a].free
         /\ \A a \in DOMAIN m : m[a].free <=> a = b \/ block[a].free
         /\ \A a \in DOMAIN m : ~m[a].free => m[a].size = block[a].size
<1> DEFINE z == [block EXCEPT ![b].free = TRUE]
           n == block[b].next
           v == block[b].prev
           f == MergedIfFree(z, b, n)
<1>1. \A a \in Blocks : /\ a \in Nat /\ a # NULL /\ block[a] \in Hdr
                        /\ block[a].size \in Nat /\ block[a].free \in BOOLEAN
                        /\ block[a].next \in Nat /\ block[a].prev \in Nat
  BY HdrFields DEF List, Blocks
<1>2. \A a \in Blocks : block[a].next # NULL =>
        /\ block[a].next \in Blocks /\ block[a].next # a /\ block[block[a].next].prev = a
  <2>1. \A a \in Blocks : block[a].next # NULL =>
          /\ block[a].next \in Blocks /\ block[block[a].next].prev = a
          /\ block[a].next = a + Header + block[a].size
    BY DEF List, Linked, Blocks, Finish
  <2>2. QED
    BY <1>1, <2>1 DEF Header
<1>3. \A a \in Blocks : block[a].free /\ block[a].next # NULL => ~block[block[a].next].free
  BY DEF Sparse, Blocks
<1>4. /\ DOMAIN z = Blocks /\ z = [a \in Blocks |-> z[a]]
      /\ z[b] = [block[b] EXCEPT !.free = TRUE]
      /\ \A a \in Blocks \ {b} : z[a] = block[a]
  BY DEF Blocks
<1> HIDE DEF z
<1>5. /\ z[b] \in Hdr /\ z[b].free
      /\ z[b].size = block[b].size /\ z[b].next = n /\ z[b].prev = v
  <2>1. z[b] = [block[b] EXCEPT !.free = TRUE] /\ block[b] \in Hdr
    BY <1>1, <1>4
  <2>2. QED
    BY <2>1, FreedHdr
<1>6. \A a \in Blocks : /\ z[a].size = block[a].size /\ z[a].next = block[a].next
                        /\ z[a].prev = block[a].prev /\ z[a] \in Hdr
  BY <1>1, <1>4, <1>5
<1>7. List(z, end)
  <2>1. DOMAIN z = Blocks /\ z = [a \in Blocks |-> z[a]]
    BY <1>4
  <2>2. z \in [DOMAIN z -> Hdr]
    BY <1>6, <2>1
  <2>3. QED
    BY <1>6, <2>1, <2>2, FlaggedList DEF Blocks
<1> HIDE DEF n, v, f
<1>8. n = block[b].next /\ v = block[b].prev
  BY DEF n, v
<1>9. /\ List(f, end) /\ b \in DOMAIN f /\ f[b].free /\ DOMAIN f \subseteq Blocks
      /\ \A a \in Blocks \ DOMAIN f : a # b /\ block[a].free
      /\ \A a \in DOMAIN f \ {b} : /\ f[a].free = block[a].free
                                   /\ f[a].size = block[a].size
                                   /\ f[a].next = block[a].next
      /\ f[b].prev = v
      /\ f[b].next # NULL => ~f[f[b].next].free
  <2>1. CASE n # NULL /\ z[n].free
    <3>1. f = Merged(z, b)
      BY <2>1 DEF f, MergedIfFree
    <3>2. n \in Blocks /\ n # b /\ block[n].free /\ z[n].next = block[n].next
      BY <1>2, <1>4, <1>8, <2>1
    <3>3. z[n].next # NULL => ~z[z[n].next].free
      <4>1. block[n].next # NULL => block[n].next \in Blocks /\ ~block[block[n].next].free
                                    /\ block[n].next # b
        <5>1. block[n].next # NULL => block[block[n].next].prev = n
          BY <1>2, <3>2
        <5>2. block[n].next = b => v = n
          BY <1>1, <1>8, <5>1
        <5>3. n # v
          <6> SUFFICES ASSUME n = v PROVE FALSE
            OBVIOUS
          <6>1. n = b + Header + block[b].size
            BY <1>8, <2>1 DEF List, Linked, Finish, Blocks
          <6>2. b # Start
            BY <1>1, <1>8, <3>2 DEF List, Linked, Blocks
          <6>3. block[n].next = b
            BY <1>8, <6>2 DEF List, Linked, Blocks
          <6>4. b = n + Header + block[n].size
            BY <1>1, <3>2, <6>3 DEF List, Linked, Finish, Blocks
          <6>5. b \in Nat /\ n \in Nat /\ block[b].size \in Nat /\ block[n].size \in Nat
            BY <1>1, <3>2
          <6>6. b < n
            BY <6>1, <6>5 DEF Header
          <6>7. n < b
            BY <6>4, <6>5 DEF Header
          <6>8. QED
            BY <6>5, <6>6, <6>7
        <5>4. QED
          BY <1>1, <1>2, <1>3, <3>2, <5>2, <5>3
      <4>2. QED
        BY <1>4, <3>2, <4>1
    <3>4. /\ List(f, end)
          /\ DOMAIN f = DOMAIN z \ {n}
          /\ \A a \in DOMAIN f : f[a].free = z[a].free
          /\ \A a \in DOMAIN f \ {b} : f[a].size = z[a].size /\ f[a].next = z[a].next
          /\ f[b].prev = z[b].prev
          /\ f[b].next # NULL => ~f[f[b].next].free
      <4>1. b \in DOMAIN z /\ n = z[b].next /\ n # NULL
        BY <1>4, <1>5, <1>8, <2>1
      <4>2. UsedAfter(z, z[b].next)
        BY <3>3, <4>1 DEF UsedAfter
      <4>3. Absorbed(z, end, b, n, f)
        BY <1>7, <3>1, <4>1, <4>2, Absorb
      <4>4. QED
        BY <4>3 DEF Absorbed
    <3>5. QED
      BY <1>4, <1>5, <3>2, <3>4
  <2>2. CASE ~(n # NULL /\ z[n].free)
    <3>1. f = z
      BY <2>2 DEF f, MergedIfFree
    <3>2. QED
      BY <1>4, <1>5, <1>6, <1>7, <1>8, <2>2, <3>1
  <2>3. QED
    BY <2>1, <2>2
<1>10. m = MergedIfFree(f, v, v)
  BY DEF Released, f, z, n, v
<1>11. v # NULL => /\ v \in DOMAIN f /\ v # b /\ f[v].next = b /\ block[v].next = b
  <2> SUFFICES ASSUME v # NULL
               PROVE  v \in DOMAIN f /\ v # b /\ f[v].next = b /\ block[v].next = b
    OBVIOUS
  <2>1. b # Start
    BY <1>8 DEF List, Linked
  <2>2. v \in DOMAIN f /\ f[v].next = b
    BY <1>9, <2>1 DEF List, Linked
  <2>3. v \in Blocks /\ block[v].next = b
    BY <1>8, <2>1 DEF List, Linked, Blocks
  <2>4. QED
    BY <1>1, <1>2, <2>2, <2>3
<1>12. \A a \in DOMAIN f \ {b} : f[a].next = b => a = v
  BY <1>2, <1>9, <1>8, <1>1
<1>13. CASE v # NULL /\ f[v].free
  <2>1. m = Merged(f, v)
    BY <1>10, <1>13 DEF MergedIfFree
  <2>2. v \in DOMAIN f /\ b = f[v].next /\ b # NULL
    BY <1>1, <1>11, <1>13
  <2>3. /\ List(m, end)
        /\ DOMAIN m = DOMAIN f \ {b}
        /\ \A a \in DOMAIN m : m[a].free = f[a].free
        /\ \A a \in DOMAIN m \ {v} : m[a].size = f[a].size /\ m[a].next = f[a].next
        /\ m[v].next # NULL => ~m[m[v].next].free
    <3>1. List(f, end) /\ end \in Nat
      BY <1>9
    <3>2. f[b].next # NULL => ~f[f[b].next].free
      BY <1>9
    <3>3. UsedAfter(f, f[v].next)
      BY <2>2, <3>2 DEF UsedAfter
    <3>4. Absorbed(f, end, v, b, m)
      BY <2>1, <2>2, <3>1, <3>3, Absorb
    <3>5. QED
      BY <3>4 DEF Absorbed
  <2>4. Sparse(m)
    <3> SUFFICES ASSUME NEW a \in DOMAIN m, m[a].free, m[a].next # NULL, a # v
                 PROVE  ~m[m[a].next].free
      BY <2>3 DEF Sparse
    <3>1. a \in DOMAIN f \ {b} /\ m[a].next = block[a].next /\ block[a].free
      BY <1>9, <2>3
    <3>2. m[a].next \in DOMAIN m /\ m[a].next # b
      BY <2>3 DEF List, Linked
    <3>3. m[m[a].next].free = block[m[a].next].free
      BY <1>9, <2>3, <3>2
    <3>4. ~block[block[a].next].free
      BY <1>3, <1>9, <3>1
    <3>5. QED
      BY <3>1, <3>3, <3>4
  <2>5. QED
    BY <1>9, <1>11, <1>13, <2>3, <2>4
<1>14. CASE ~(v # NULL /\ f[v].free)
  <2>1. m = f
    BY <1>10, <1>14 DEF MergedIfFree
  <2>2. Sparse(f)
    <3> SUFFICES ASSUME NEW a \in DOMAIN f, f[a].free, f[a].next # NULL, a # b
                 PROVE  ~f[f[a].next].free
      BY <1>9 DEF Sparse
    <3>1. f[a].next = block[a].next /\ block[a].free /\ a \in Blocks
      BY <1>9
    <3>2. f[a].next \in DOMAIN f
      BY <1>9 DEF List, Linked
    <3>3. f[a].next # b
      BY <1>1, <1>12, <1>14, <3>1
    <3>4. QED
      BY <1>3, <1>9, <3>1, <3>2, <3>3
  <2>3. QED
    BY <1>9, <2>1, <2>2
<1>15. QED
  BY <1>13, <1>14

\* kfree, and the second step of krealloc.
LEMMA ReleaseDone ==
  ASSUME KmallocInv, NEW p \in DOMAIN owned, Release(p), moving' \subseteq DOMAIN owned \ {p}
  PROVE  KmallocInv' /\ Stay
<1> DEFINE b == owned[p].header
<1>1. /\ List(block, heapEnd) /\ Sparse(block) /\ Bounds /\ Held /\ heapEnd \in Nat
  BY DEF KmallocInv, Bounds
<1>2. /\ b \in Blocks /\ ~block[b].free
      /\ \A q \in DOMAIN owned : owned[q].header = b => q = p
  BY <1>1 DEF Held
<1>3. /\ block' = Released(b) /\ UNCHANGED <<heapEnd, mappedTop, frames>>
      /\ DOMAIN owned' = DOMAIN owned \ {p}
      /\ owned' = [q \in DOMAIN owned \ {p} |-> owned[q]]
      /\ \A q \in DOMAIN owned' : owned'[q] = owned[q]
  BY DEF Release
<1> HIDE DEF b
<1>4. /\ List(block', heapEnd) /\ Sparse(block')
      /\ DOMAIN block' \subseteq Blocks
      /\ \A a \in Blocks \ DOMAIN block' : a = b \/ block[a].free
      /\ \A a \in DOMAIN block' : block'[a].free <=> a = b \/ block[a].free
      /\ \A a \in DOMAIN block' : ~block'[a].free => block'[a].size = block[a].size
  BY <1>1, <1>2, <1>3, ReleasedList
<1>5. \A q \in DOMAIN owned' :
        /\ owned[q].header # b /\ owned[q].header \in Blocks /\ ~block[owned[q].header].free
        /\ owned[q].header \in DOMAIN block'
        /\ block'[owned[q].header].size = block[owned[q].header].size
  <2> TAKE q \in DOMAIN owned'
  <2>1. q \in DOMAIN owned /\ q # p
    BY <1>3
  <2>2. owned[q].header # b /\ owned[q].header \in Blocks /\ ~block[owned[q].header].free
    BY <1>1, <1>2, <2>1 DEF Held
  <2>3. QED
    BY <1>4, <2>2
<1>6. owned' \in [DOMAIN owned' -> [size : Requests, header : DOMAIN block']]
  <2>1. \A q \in DOMAIN owned' : owned'[q] \in [size : Requests, header : DOMAIN block']
    <3> TAKE q \in DOMAIN owned'
    <3>1. owned[q] \in [size : Requests, header : Blocks]
      BY <1>1, <1>3 DEF Held
    <3>2. QED
      BY <1>3, <1>5, <3>1
  <2>2. QED
    BY <1>3, <2>1
<1>7. ASSUME NEW a \in DOMAIN block'
      PROVE  block'[a].free <=> \A q \in DOMAIN owned' : owned'[q].header # a
  <2>1. CASE a = b
    BY <1>3, <1>4, <1>5, <2>1
  <2>2. CASE a # b
    <3>1. block'[a].free <=> block[a].free
      BY <1>4, <2>2
    <3>2. block[a].free <=> \A q \in DOMAIN owned : owned[q].header # a
      BY <1>1, <1>4 DEF Held
    <3>3. owned[p].header # a
      BY <2>2 DEF b
    <3>4. QED
      BY <1>3, <3>1, <3>2, <3>3
  <2>3. QED
    BY <2>1, <2>2
<1>8. \A q, r \in DOMAIN owned' : owned'[q].header = owned'[r].header => q = r
  BY <1>1, <1>3 DEF Held
<1>9. \A q \in DOMAIN owned' :
        /\ q \in Nat
        /\ q = owned'[q].header + Header \/ q >= owned'[q].header + 2 * Header
        /\ q + owned'[q].size <= Finish(block', owned'[q].header)
  BY <1>1, <1>3, <1>5 DEF Held, Finish
<1>10. Held'
  BY <1>3, <1>6, <1>7, <1>8, <1>9 DEF Held, Blocks
<1>11. Bounds'
  BY <1>1, <1>3 DEF Bounds, Roof
<1>12. KmallocInv'
  BY <1>3, <1>4, <1>10, <1>11 DEF KmallocInv
<1>13. Stay
  BY <1>3, <1>5 DEF Stay
<1>14. QED
  BY <1>12, <1>13
-----------------------------------------------------------------------------
\* No request leaves the machine word.
LEMMA RequestFits ==
  ASSUME RequestsSmall, NEW size \in Requests
  PROVE  LET n == ALIGN(size, 8)
         IN /\ n \in Nat /\ size <= n
            /\ Roof + PageSize + n + Header < Word /\ n + Header + 8 < Word
<1>1. /\ Roof + PageSize + size + 8 + 64 < Word
  BY DEF RequestsSmall
<1>2. size \in Nat /\ Word \in Nat /\ PageSize \in Nat /\ Roof \in Nat
  <2>1. {Start, InitialSize, PageSize, Word, Frames} \subseteq Nat
    BY KmallocAssumption
  <2>2. PageSize * Frames \in Nat
    BY <2>1
  <2>3. QED
    BY <2>1, <2>2, KmallocAssumption DEF Roof
<1>3. ALIGN(size, 8) \in Nat /\ size <= ALIGN(size, 8) /\ ALIGN(size, 8) <= size + 8 - 1
  <2>1. size + 8 - 1 < Word
    BY <1>1, <1>2
  <2>2. QED
    BY <1>2, <2>1, AlignFact
<1>4. QED
  BY <1>1, <1>2, <1>3 DEF Header

\* No aligned request leaves the machine word.
LEMMA AlignedFits ==
  ASSUME RequestsSmall, NEW size \in Requests, NEW align \in Aligns
  PROVE  LET n == ALIGN(AlignedTotal(size, align), 8)
         IN /\ n \in Nat /\ size + align + Header <= n
            /\ Roof + PageSize + n + Header < Word /\ n + Header + 8 < Word
            /\ align \in Nat \ {0}
            /\ Roof + Header + Header + align < Word
<1>1. Roof + PageSize + size + align + 64 < Word
  BY DEF RequestsSmall
<1>2. size \in Nat /\ Word \in Nat /\ PageSize \in Nat /\ Roof \in Nat /\ align \in Nat \ {0}
  <2>1. {Start, InitialSize, PageSize, Word, Frames} \subseteq Nat
    BY KmallocAssumption
  <2>2. PageSize * Frames \in Nat
    BY <2>1
  <2>3. QED
    BY <2>1, <2>2, KmallocAssumption DEF Roof
<1>3. AlignedTotal(size, align) = size + (align + Header)
  <2>1. size + (align + Header) < Word
    BY <1>1, <1>2 DEF Header
  <2>2. QED
    BY <1>2, <2>1, PlusFact DEF AlignedTotal, Header
<1> DEFINE t == AlignedTotal(size, align)
<1>4. t \in Nat /\ t = size + align + 16
  BY <1>2, <1>3 DEF Header
<1> HIDE DEF t
<1>5. ALIGN(t, 8) \in Nat /\ t <= ALIGN(t, 8) /\ ALIGN(t, 8) <= t + 8 - 1
  <2>1. t + 8 - 1 < Word
    BY <1>1, <1>2, <1>4
  <2>2. QED
    BY <1>2, <1>4, <2>1, AlignFact
<1>6. QED
  BY <1>1, <1>2, <1>4, <1>5 DEF Header, t

\* kmalloc and kcalloc keep the invariant.
LEMMA KmallocKeeps ==
  ASSUME RequestsSmall, KmallocInv, Kmalloc
  PROVE  KmallocInv' /\ Stay
<1>1. PICK size \in Requests :
        /\ \/ \E b \in Places : Allocate(ALIGN(size, 8), b) /\ Hold(Payload(b), size, b)
           \/ AllocateFails(ALIGN(size, 8)) /\ UNCHANGED owned
        /\ UNCHANGED moving
  BY DEF Kmalloc
<1> DEFINE n == ALIGN(size, 8)
<1>2. /\ n \in Nat /\ size <= n /\ size \in Nat
      /\ Roof + PageSize + n + Header < Word /\ n + Header + 8 < Word
  BY RequestFits, KmallocAssumption
<1> HIDE DEF n
<1>3. ASSUME NEW b \in Places, Allocate(n, b), Hold(Payload(b), size, b)
      PROVE  KmallocInv' /\ Stay
  <2>1. AllocDone(n, b)
    BY <1>2, <1>3, AllocateDone
  <2>2. b \in Nat
    BY <2>1, HdrFields DEF AllocDone, List
  <2>3. /\ Payload(b) \in Nat /\ Payload(b) = b + Header
        /\ Payload(b) + size <= b + Header + n
    BY <1>2, <2>2 DEF Payload, Header
  <2>4. moving' \subseteq DOMAIN owned \cup {Payload(b)}
    BY <1>1 DEF KmallocInv, Held
  <2>5. QED
    BY <1>2, <1>3, <2>1, <2>3, <2>4, HoldDone
<1>4. ASSUME AllocateFails(n), UNCHANGED owned
      PROVE  KmallocInv' /\ Stay
  <2>1. KmallocInv'
    BY <1>1, <1>4, FailKeeps
  <2>2. Stay
    BY <1>4 DEF AllocateFails, SbrkFails, Stay, KmallocInv, Held, Blocks
  <2>3. QED
    BY <2>1, <2>2
<1>5. QED
  BY <1>1, <1>3, <1>4 DEF n

\* kmalloc_aligned keeps the invariant.
LEMMA KmallocAlignedKeeps ==
  ASSUME RequestsSmall, KmallocInv, KmallocAligned
  PROVE  KmallocInv' /\ Stay
<1>1. PICK size \in Requests, align \in Aligns :
        /\ \/ \E b \in Places :
                 /\ Allocate(ALIGN(AlignedTotal(size, align), 8), b)
                 /\ Hold(ALIGN(Payload(b) + Header, align), size, b)
           \/ AllocateFails(ALIGN(AlignedTotal(size, align), 8)) /\ UNCHANGED owned
        /\ UNCHANGED moving
  BY DEF KmallocAligned
<1> DEFINE n == ALIGN(AlignedTotal(size, align), 8)
<1>2. /\ n \in Nat /\ size + align + Header <= n /\ size \in Nat
      /\ Roof + PageSize + n + Header < Word /\ n + Header + 8 < Word
      /\ align \in Nat \ {0}
      /\ Roof + Header + Header + align < Word
  BY AlignedFits, KmallocAssumption
<1> HIDE DEF n
<1>3. ASSUME NEW b \in Places, Allocate(n, b), Hold(ALIGN(Payload(b) + Header, align), size, b)
      PROVE  KmallocInv' /\ Stay
  <2> DEFINE x == Payload(b) + Header
             p == ALIGN(x, align)
  <2>1. AllocDone(n, b)
    BY <1>2, <1>3, AllocateDone
  <2>2. b \in Nat /\ b <= Roof /\ Roof \in Nat /\ Word \in Nat
    <3>1. b \in Nat /\ block'[b].size \in Nat /\ Finish(block', b) <= heapEnd'
      BY <2>1, HdrFields DEF AllocDone, List, Linked
    <3>2. heapEnd' \in Nat /\ mappedTop' \in Nat /\ heapEnd' <= mappedTop'
          /\ frames' \in Nat /\ mappedTop' + PageSize * frames' <= Roof
      BY <2>1 DEF AllocDone, Bounds, Roof
    <3>3. PageSize * frames' \in Nat
      BY <3>2, KmallocAssumption
    <3>4. Roof \in Nat /\ Word \in Nat
      BY RoofFact, KmallocAssumption DEF KmallocInv
    <3>5. QED
      BY <3>1, <3>2, <3>3, <3>4 DEF Finish, Header
  <2>3. x \in Nat /\ x = b + 2 * Header
    BY <2>2 DEF Payload, Header
  <2>4. x + align - 1 < Word
    BY <1>2, <2>2, <2>3 DEF Header
  <2> HIDE DEF x
  <2>5. p \in Nat /\ x <= p /\ p <= x + align - 1
    BY <1>2, <2>3, <2>4, AlignFact
  <2> HIDE DEF p
  <2>6. p >= b + 2 * Header /\ p + size <= b + Header + n
    BY <1>2, <2>2, <2>3, <2>5 DEF Header
  <2>7. moving' \subseteq DOMAIN owned \cup {p}
    BY <1>1 DEF KmallocInv, Held
  <2>8. Hold(p, size, b)
    BY <1>3 DEF p, x
  <2>9. QED
    BY <1>2, <2>1, <2>5, <2>6, <2>7, <2>8, HoldDone
<1>4. ASSUME AllocateFails(n), UNCHANGED owned
      PROVE  KmallocInv' /\ Stay
  <2>1. KmallocInv'
    BY <1>1, <1>4, FailKeeps
  <2>2. Stay
    BY <1>4 DEF AllocateFails, SbrkFails, Stay, KmallocInv, Held, Blocks
  <2>3. QED
    BY <2>1, <2>2
<1>5. QED
  BY <1>1, <1>3, <1>4 DEF n

\* krealloc in place: the block is the caller's own and large enough.
LEMMA ResizeKeeps ==
  ASSUME KmallocInv, NEW p \in DOMAIN owned, NEW size \in Requests,
         ~IsFake(p), Suffices(p, size), owned' = [owned EXCEPT ![p].size = size],
         UNCHANGED <<block, heapEnd, mappedTop, frames, moving>>
  PROVE  KmallocInv' /\ Stay
<1>1. Held /\ List(block, heapEnd)
  BY DEF KmallocInv
<1>2. /\ DOMAIN owned \subseteq Nat /\ moving \subseteq DOMAIN owned
      /\ owned[p] \in [size : Requests, header : Blocks]
  BY <1>1 DEF Held
<1>3. /\ DOMAIN owned' = DOMAIN owned
      /\ owned' = [q \in DOMAIN owned |-> owned'[q]]
      /\ owned'[p] = [owned[p] EXCEPT !.size = size]
      /\ \A q \in DOMAIN owned \ {p} : owned'[q] = owned[q]
  <2>1. owned = [q \in DOMAIN owned |-> owned[q]]
    BY <1>1 DEF Held
  <2>2. QED
    BY <2>1
<1>4. /\ owned'[p] \in [size : Requests, header : Blocks]
      /\ owned'[p].size = size /\ owned'[p].header = owned[p].header
  BY <1>2, <1>3
<1>5. \A q \in DOMAIN owned : owned'[q].header = owned[q].header
  BY <1>3, <1>4
<1>6. \A q \in DOMAIN owned : owned'[q] \in [size : Requests, header : Blocks]
  BY <1>1, <1>3, <1>4 DEF Held
<1>7. p + size <= Finish(block, owned[p].header)
  <2>1. owned[p].header \in Blocks /\ owned[p].header \in Nat
        /\ block[owned[p].header].size \in Nat
    BY <1>1, <1>2, HdrFields DEF List, Blocks
  <2>2. p \in Nat /\ p - Header = owned[p].header
    BY <1>2 DEF IsFake
  <2>3. block[owned[p].header].size >= size /\ size \in Nat
    BY KmallocAssumption DEF Suffices
  <2>4. QED
    BY <2>1, <2>2, <2>3 DEF Finish, Header
<1>8. \A q \in DOMAIN owned :
        /\ q = owned'[q].header + Header \/ q >= owned'[q].header + 2 * Header
        /\ q + owned'[q].size <= Finish(block, owned'[q].header)
  BY <1>1, <1>3, <1>4, <1>5, <1>7 DEF Held
<1>9. owned' \in [DOMAIN owned' -> [size : Requests, header : Blocks]]
  BY <1>3, <1>6
<1>10. Held'
  <2>1. \A b \in Blocks : block[b].free <=> \A q \in DOMAIN owned' : owned'[q].header # b
    BY <1>1, <1>3, <1>5 DEF Held
  <2>2. \A q, r \in DOMAIN owned' : owned'[q].header = owned'[r].header => q = r
    BY <1>1, <1>3, <1>5 DEF Held
  <2>3. QED
    BY <1>2, <1>3, <1>8, <1>9, <2>1, <2>2 DEF Held, Blocks, Finish
<1>11. KmallocInv'
  BY <1>10 DEF KmallocInv, Bounds, Roof
<1>12. Stay
  BY <1>2, <1>1, <1>3, <1>5 DEF Stay, Held, Blocks
<1>13. QED
  BY <1>11, <1>12

\* krealloc keeps the invariant up to its call of kfree.
LEMMA KreallocKeeps ==
  ASSUME RequestsSmall, ~ReallocAligned, KmallocInv, Krealloc
  PROVE  KmallocInv' /\ Stay
<1>1. PICK p \in DOMAIN owned \ moving, size \in Requests :
        /\ IsFake(p) => ReallocAligned
        /\ \/ /\ Suffices(p, size)
              /\ owned' = [owned EXCEPT ![p].size = size]
              /\ UNCHANGED <<block, heapEnd, mappedTop, frames, moving>>
           \/ /\ ~Suffices(p, size)
              /\ \E b \in Places :
                   Allocate(ALIGN(size, 8), b) /\ Hold(Payload(b), size, b)
              /\ moving' = moving \cup {p}
           \/ /\ ~Suffices(p, size)
              /\ AllocateFails(ALIGN(size, 8))
              /\ UNCHANGED <<owned, moving>>
  BY DEF Krealloc
<1> DEFINE n == ALIGN(size, 8)
<1>2. /\ n \in Nat /\ size <= n /\ size \in Nat
      /\ Roof + PageSize + n + Header < Word /\ n + Header + 8 < Word
  BY RequestFits, KmallocAssumption
<1> HIDE DEF n
<1>3. ASSUME Suffices(p, size), owned' = [owned EXCEPT ![p].size = size],
             UNCHANGED <<block, heapEnd, mappedTop, frames, moving>>
      PROVE  KmallocInv' /\ Stay
  BY <1>1, <1>3, ResizeKeeps
<1>4. ASSUME NEW b \in Places, Allocate(n, b), Hold(Payload(b), size, b),
             moving' = moving \cup {p}
      PROVE  KmallocInv' /\ Stay
  <2>1. AllocDone(n, b)
    BY <1>2, <1>4, AllocateDone
  <2>2. b \in Nat
    BY <2>1, HdrFields DEF AllocDone, List
  <2>3. /\ Payload(b) \in Nat /\ Payload(b) = b + Header
        /\ Payload(b) + size <= b + Header + n
    BY <1>2, <2>2 DEF Payload, Header
  <2>4. moving' \subseteq DOMAIN owned \cup {Payload(b)}
    BY <1>1, <1>4 DEF KmallocInv, Held
  <2>5. QED
    BY <1>2, <1>4, <2>1, <2>3, <2>4, HoldDone
<1>5. ASSUME AllocateFails(n), UNCHANGED <<owned, moving>>
      PROVE  KmallocInv' /\ Stay
  <2>1. KmallocInv'
    BY <1>5, FailKeeps
  <2>2. Stay
    BY <1>5 DEF AllocateFails, SbrkFails, Stay, KmallocInv, Held, Blocks
  <2>3. QED
    BY <2>1, <2>2
<1>6. QED
  BY <1>1, <1>3, <1>4, <1>5 DEF n

\* kfree, and krealloc's call of it, keep the invariant.
LEMMA FreeKeeps ==
  ASSUME KmallocInv, Kfree \/ KreallocFree
  PROVE  KmallocInv' /\ Stay
<1>1. moving \subseteq DOMAIN owned
  BY DEF KmallocInv, Held
<1>2. PICK p \in DOMAIN owned : Release(p) /\ moving' \subseteq DOMAIN owned \ {p}
  BY <1>1 DEF Kfree, KreallocFree
<1>3. QED
  BY <1>2, ReleaseDone

\* kmalloc_init establishes the invariant.
LEMMA InitHolds ==
  ASSUME Init
  PROVE  KmallocInv
<1>1. /\ {Start, InitialSize, PageSize, Word} \subseteq Nat \ {0} /\ Frames \in Nat
      /\ InitialSize > 16
  BY KmallocAssumption
<1>2. /\ DOMAIN block = {Start} /\ block = [b \in {Start} |-> block[b]]
      /\ block[Start] = [size |-> InitialSize - Header, free |-> TRUE,
                         next |-> NULL, prev |-> NULL]
  BY DEF Init
<1>3. /\ block[Start] \in Hdr /\ block[Start].size = InitialSize - Header
      /\ block[Start].next = NULL /\ block[Start].prev = NULL /\ block[Start].free
  <2>1. InitialSize - Header \in Nat
    BY <1>1 DEF Header
  <2>2. [size |-> InitialSize - Header, free |-> TRUE, next |-> NULL, prev |-> NULL] \in Hdr
    BY <2>1 DEF Hdr, NULL
  <2>4. PICK h : /\ h = [size |-> InitialSize - Header, free |-> TRUE, next |-> NULL, prev |-> NULL]
                 /\ h = block[Start]
    BY <1>2
  <2>5. h.free /\ h.size = InitialSize - Header /\ h.next = NULL /\ h.prev = NULL
    BY <2>4
  <2>6. QED
    BY <2>2, <2>4, <2>5
<1>4. /\ heapEnd = Start + InitialSize /\ mappedTop = heapEnd /\ frames = Frames
      /\ DOMAIN owned = {} /\ moving = {} /\ owned = [p \in {} |-> owned[p]]
  BY DEF Init
<1>5. Finish(block, Start) = heapEnd
  BY <1>1, <1>3, <1>4 DEF Finish, Header
<1>6. List(block, heapEnd)
  <2>1. block \in [DOMAIN block -> Hdr]
    BY <1>2, <1>3
  <2>2. HdrFcn(block)
    BY <1>1, <1>2, <2>1 DEF HdrFcn, NULL
  <2>3. Linked(block, heapEnd)
    <3>1. heapEnd <= heapEnd
      BY <1>1, <1>4
    <3>2. QED
      BY <1>1, <1>2, <1>3, <1>5, <3>1 DEF Linked
  <2>4. QED
    BY <2>2, <2>3 DEF List
<1>7. Sparse(block)
  BY <1>2, <1>3 DEF Sparse
<1>8. Bounds
  <2>1. PageSize * Frames \in Nat
    BY <1>1
  <2>2. QED
    BY <1>1, <1>4, <2>1 DEF Bounds, Roof
<1>9. Held
  <2>1. owned \in [DOMAIN owned -> [size : Requests, header : Blocks]]
    BY <1>4
  <2>2. QED
    BY <1>2, <1>3, <1>4, <2>1 DEF Held, Blocks
<1>10. QED
  BY <1>6, <1>7, <1>8, <1>9 DEF KmallocInv

\* Every step keeps the invariant.
LEMMA NextKeeps ==
  ASSUME RequestsSmall, ~ReallocAligned, KmallocInv, [Next]_vars
  PROVE  KmallocInv' /\ (Stay \/ UNCHANGED vars)
<1>1. CASE Kmalloc
  BY <1>1, KmallocKeeps
<1>2. CASE KmallocAligned
  BY <1>2, KmallocAlignedKeeps
<1>3. CASE Kfree \/ KreallocFree
  BY <1>3, FreeKeeps
<1>4. CASE Krealloc
  BY <1>4, KreallocKeeps
<1>5. CASE UNCHANGED vars
  BY <1>5 DEF vars, KmallocInv, Bounds, Roof, Held, Blocks, Finish
<1>6. QED
  BY <1>1, <1>2, <1>3, <1>4, <1>5 DEF Next
-----------------------------------------------------------------------------
\* The invariant holds of every heap.
THEOREM HeapInvariant ==
  ASSUME RequestsSmall, ~ReallocAligned
  PROVE  Spec => []KmallocInv
<1>1. Init => KmallocInv
  BY InitHolds
<1>2. KmallocInv /\ [Next]_vars => KmallocInv'
  BY NextKeeps
<1>3. QED
  BY <1>1, <1>2, PTL DEF Spec

\* Types: the headers link only headers, callers hold blocks of the list, the
\* break stays inside the machine word.
THEOREM HeapTypeCorrect ==
  ASSUME RequestsSmall, ~ReallocAligned
  PROVE  Spec => []TypeOK
<1>1. ASSUME KmallocInv PROVE TypeOK
  <2>1. List(block, heapEnd) /\ Bounds /\ Held
    BY <1>1 DEF KmallocInv
  <2>2. /\ Start \in Blocks /\ NULL \notin Blocks /\ Blocks \subseteq Nat
        /\ block \in [Blocks -> Hdr]
    BY <2>1 DEF List, HdrFcn, Blocks
  <2>3. \A b \in Blocks : /\ block[b] \in Hdr
                          /\ block[b].next \in Blocks \cup {NULL}
                          /\ block[b].prev \in Blocks \cup {NULL}
    BY <2>1, <2>2 DEF List, Linked, Blocks
  <2>4. block \in [Blocks -> [size : Nat, free : BOOLEAN,
                             next : Blocks \cup {NULL}, prev : Blocks \cup {NULL}]]
    <3>1. \A b \in Blocks : block[b] \in [size : Nat, free : BOOLEAN,
                             next : Blocks \cup {NULL}, prev : Blocks \cup {NULL}]
      BY <2>3 DEF Hdr
    <3>2. QED
      BY <2>2, <3>1
  <2>5. {heapEnd, mappedTop} \subseteq 1..(Word - 1)
    BY <2>1, RoofFact, KmallocAssumption DEF Bounds
  <2>6. QED
    BY <2>1, <2>2, <2>4, <2>5 DEF TypeOK, Bounds, Held
<1>2. QED
  BY <1>1, HeapInvariant, PTL

\* The blocks tile the heap and their links agree.
THEOREM BlocksTileTheHeap ==
  ASSUME RequestsSmall, ~ReallocAligned
  PROVE  Spec => []Tiled
<1>1. ASSUME KmallocInv PROVE Tiled
  <2>1. List(block, heapEnd)
    BY <1>1 DEF KmallocInv
  <2>2. NULL \notin Blocks
    BY <2>1 DEF List, HdrFcn, Blocks
  <2>3. QED
    BY <2>1, <2>2 DEF List, Linked, Tiled, Blocks, End, Finish
<1>2. QED
  BY <1>1, HeapInvariant, PTL

\* Two free blocks never touch.
THEOREM FreeBlocksAreMerged ==
  ASSUME RequestsSmall, ~ReallocAligned
  PROVE  Spec => []NoFreeNeighbours
<1>1. ASSUME KmallocInv PROVE NoFreeNeighbours
  BY <1>1 DEF KmallocInv, Sparse, NoFreeNeighbours, Blocks
<1>2. QED
  BY <1>1, HeapInvariant, PTL

\* Each block in use has one holder, and no free block has one.
THEOREM BlocksHeldOnce ==
  ASSUME RequestsSmall, ~ReallocAligned
  PROVE  Spec => []HeldOnce
<1>1. ASSUME KmallocInv PROVE HeldOnce
  BY <1>1 DEF KmallocInv, Held, HeldOnce
<1>2. QED
  BY <1>1, HeapInvariant, PTL

\* What is held lies in its own block, above any fake header, in mapped pages.
THEOREM HeldAreasFit ==
  ASSUME RequestsSmall, ~ReallocAligned
  PROVE  Spec => []AreasFit
<1>1. ASSUME KmallocInv PROVE AreasFit
  <2> SUFFICES ASSUME NEW p \in DOMAIN owned
               PROVE  LET b == owned[p].header
                      IN /\ p = Payload(b) \/ p >= Payload(b) + Header
                         /\ p + owned[p].size <= End(b)
                         /\ End(b) <= mappedTop
    BY DEF AreasFit
  <2> DEFINE b == owned[p].header
  <2>1. List(block, heapEnd) /\ Bounds /\ Held
    BY <1>1 DEF KmallocInv
  <2>2. b \in DOMAIN block /\ b \in Nat /\ block[b].size \in Nat
    BY <2>1, HdrFields DEF Held, List, Blocks
  <2>3. End(b) \in Nat /\ End(b) <= heapEnd
    BY <2>1, <2>2 DEF List, Linked, End, Finish, Header
  <2>4. End(b) <= mappedTop
    BY <2>1, <2>3 DEF Bounds
  <2>5. (p = b + Header \/ p >= b + 2 * Header) /\ p + owned[p].size <= End(b)
    BY <2>1 DEF Held, End, Finish
  <2>6. QED
    BY <2>1, <2>2, <2>4, <2>5 DEF Payload, Header, Held
<1>2. QED
  BY <1>1, HeapInvariant, PTL

\* No step moves what another caller holds or changes its room.
THEOREM HeldAreasStay ==
  ASSUME RequestsSmall, ~ReallocAligned
  PROVE  Spec => AreasStay
<1>1. KmallocInv /\ [Next]_vars =>
        [\A p \in DOMAIN owned \cap DOMAIN owned' :
           /\ owned'[p].header = owned[p].header
           /\ owned[p].header \in DOMAIN block'
           /\ block'[owned[p].header].size = block[owned[p].header].size]_vars
  BY NextKeeps DEF Stay
<1>2. QED
  BY <1>1, HeapInvariant, PTL DEF Spec, AreasStay
=============================================================================
