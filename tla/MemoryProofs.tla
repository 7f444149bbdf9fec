---------------------------- MODULE MemoryProofs ----------------------------
(***************************************************************************)
(* Proofs about page directories: for any number of tasks, frames, pages   *)
(* and page tables, no frame comes to two pages, the directory in use has  *)
(* every page table of the kernel, and what sys_brk has granted is mapped. *)
(***************************************************************************)
EXTENDS Memory, TLAPS

\* The frames in the directories have been taken.
Taken ==
  \A d \in Dirs :
    /\ \A p \in Pages : dirs[d].pages[p] <= next
    /\ \A u \in UserTables : dirs[d].tables[u] <= next
    /\ \A k \in KernelTables : dirs[d].kernel[k] <= next

\* A frame is at one page of one directory only, and is no page table.
Once ==
  \A d, e \in Dirs, p, q \in Pages :
    dirs[d].pages[p] # 0 /\ dirs[d].pages[p] = dirs[e].pages[q] => d = e /\ p = q
NoTable ==
  \A d \in Dirs, p \in Pages : dirs[d].pages[p] # 0 =>
    /\ \A e \in Dirs, u \in UserTables : dirs[d].pages[p] # dirs[e].tables[u]
    /\ \A k \in KernelTables : dirs[d].pages[p] # dirs[0].kernel[k]

FramesInv == Taken /\ Once /\ NoTable

\* Each task has a directory of its own, none has the one that is being made.
Own ==
  /\ current \in Alive
  /\ \A t, u \in Alive : t # u => pd[t] # pd[u]
  /\ job.op \in {"fork", "exec"} => \A t \in Tasks : pd[t] # made
  /\ job.op = "exec" => cr3 = made
  /\ job.op = "fork" => job.child \notin Alive

LEMMA ConstantFacts ==
  ASSUME ConstantsOK
  PROVE  /\ Frames \in Nat /\ Frames > 5 /\ HeapPages \in Nat /\ HeapPages > 0
         /\ MaxDirs \in Nat /\ MaxDirs > 0 /\ MaxActive \in Nat /\ Init1 \in Tasks
         /\ Pages = 0 .. HeapPages + 1 /\ Stack = HeapPages + 1 /\ Stack \in Nat
         /\ Code = 0 /\ Code \in Pages /\ Stack \in Pages /\ 1 \in Pages /\ 1 # Stack
         /\ Dirs = 0 .. MaxDirs
         /\ \A p \in Pages : TableOf(p) \in UserTables
BY DEF ConstantsOK, Pages, Stack, Code, Dirs, UserTables

LEMMA NoDirType == ConstantsOK => NoDir \in Directory /\ \A p \in Pages : NoDir.pages[p] = 0
BY ConstantFacts DEF NoDir, Directory

\* What the type says of the numbers in the directories.
LEMMA Numbers ==
  ASSUME ConstantsOK, TypeOK
  PROVE  /\ next \in Nat /\ next <= Frames /\ made \in Nat /\ 1 <= made /\ made <= MaxDirs
         /\ cr3 \in Dirs /\ made \in Dirs /\ cr3 <= made /\ 0 \in Dirs
         /\ \A t \in Tasks : pd[t] \in Dirs /\ pd[t] <= made
         /\ \A d \in Dirs :
              /\ dirs[d] \in Directory
              /\ \A p \in Pages : dirs[d].pages[p] \in Nat
              /\ \A u \in UserTables : dirs[d].tables[u] \in Nat
              /\ \A k \in KernelTables : dirs[d].kernel[k] \in Nat
<1>1. /\ next \in Nat /\ next <= Frames /\ made \in Nat /\ 1 <= made /\ made <= MaxDirs
      /\ cr3 \in Dirs /\ made \in Dirs /\ cr3 <= made /\ 0 \in Dirs
  BY ConstantFacts DEF TypeOK
<1>2. \A t \in Tasks : pd[t] \in Dirs /\ pd[t] <= made
  BY <1>1, ConstantFacts DEF TypeOK
<1>3. ASSUME NEW d \in Dirs
      PROVE  /\ dirs[d] \in Directory
             /\ \A p \in Pages : dirs[d].pages[p] \in Nat
             /\ \A u \in UserTables : dirs[d].tables[u] \in Nat
             /\ \A k \in KernelTables : dirs[d].kernel[k] \in Nat
  <2>1. dirs[d] \in Directory
    BY DEF TypeOK
  <2>2. 0 .. Frames \subseteq Nat
    BY ConstantFacts
  <2> QED
    BY <2>1, <2>2 DEF Directory
<1> QED
  BY <1>1, <1>2, <1>3

-----------------------------------------------------------------------------
(* The shapes of the steps that change directories. *)

\* Page p of d gets the next frame, perhaps with a table behind it.
Mapping(d, p) ==
  /\ next' \in Nat /\ next' <= Frames /\ next + 1 <= next'
  /\ dirs' \in [Dirs -> Directory]
  /\ dirs'[d].pages[p] = next + 1
  /\ \A e \in Dirs, q \in Pages : ~(e = d /\ q = p) => dirs'[e].pages[q] = dirs[e].pages[q]
  /\ \A e \in Dirs, u \in UserTables :
       \/ dirs'[e].tables[u] = dirs[e].tables[u]
       \/ dirs'[e].tables[u] = next + 2 /\ next + 2 <= next'
  /\ \A e \in Dirs : dirs'[e].kernel = dirs[e].kernel

\* Frames are taken, and lost.
Losing ==
  /\ dirs' = dirs
  /\ next' \in Nat /\ next' <= Frames /\ next <= next'

LEMMA MapNewShape ==
  ASSUME ConstantsOK, TypeOK, NEW d \in Dirs, NEW p \in Pages, MapNew(d, p)
  PROVE  /\ Left >= Needs(d, p) => Mapping(d, p)
         /\ Left < Needs(d, p) => Losing
<1>1. /\ next \in Nat /\ next <= Frames /\ Frames \in Nat
      /\ dirs[d] \in Directory /\ TableOf(p) \in UserTables
      /\ \A e \in Dirs : dirs[e] \in Directory
  BY Numbers, ConstantFacts
<1>2. Left \in Nat /\ Left = Frames - next
  BY <1>1 DEF Left
<1>3. Needs(d, p) \in {1, 2}
  BY DEF Needs
<1>4. CASE Left < Needs(d, p)
  <2>1. dirs' = dirs /\ next' = Frames
    BY <1>4, Zenon DEF MapNew
  <2> QED
    BY <1>1, <1>2, <1>3, <1>4, <2>1 DEF Losing
<1>5. CASE ~(Left < Needs(d, p))
  <2> DEFINE old == dirs[d].tables[TableOf(p)]
             table == IF old = 0 THEN next + 2 ELSE old
  <2>1. /\ dirs' = [dirs EXCEPT ![d] = Filled(dirs[d], p, table)]
        /\ next' = next + Needs(d, p)
    BY <1>5, Zenon DEF MapNew
  <2>2. Needs(d, p) = IF old = 0 THEN 2 ELSE 1
    BY DEF Needs
  <2>3. old \in 0 .. Frames
    BY <1>1 DEF Directory
  <2>4. /\ table \in 0 .. Frames /\ next + 1 \in 0 .. Frames
        /\ table = old \/ (table = next + 2 /\ next + 2 <= next')
        /\ next' \in Nat /\ next' <= Frames /\ next + 1 <= next'
    BY <1>1, <1>2, <1>3, <1>5, <2>1, <2>2, <2>3
  <2> HIDE DEF table
  <2> DEFINE new == Filled(dirs[d], p, table)
  <2>5. /\ new.kernel = dirs[d].kernel
        /\ new.tables = [dirs[d].tables EXCEPT ![TableOf(p)] = table]
        /\ new.pages = [dirs[d].pages EXCEPT ![p] = next + 1]
        /\ new = [kernel |-> new.kernel, tables |-> new.tables, pages |-> new.pages]
    BY DEF Filled
  <2> HIDE DEF new
  <2>6. /\ dirs[d].kernel \in [KernelTables -> 0 .. Frames]
        /\ dirs[d].tables \in [UserTables -> 0 .. Frames]
        /\ dirs[d].pages \in [Pages -> 0 .. Frames]
    BY <1>1 DEF Directory
  <2>7. new.tables \in [UserTables -> 0 .. Frames] /\ new.pages \in [Pages -> 0 .. Frames]
    BY <2>4, <2>5, <2>6
  <2>8. new \in Directory
    BY <2>5, <2>6, <2>7 DEF Directory
  <2>9. dirs'[d] = new /\ \A e \in Dirs : e # d => dirs'[e] = dirs[e]
    BY <2>1 DEF TypeOK, new
  <2>10. dirs' \in [Dirs -> Directory]
    BY <2>1, <2>8 DEF TypeOK, new
  <2>11. /\ dirs'[d].pages[p] = next + 1
         /\ \A q \in Pages : q # p => dirs'[d].pages[q] = dirs[d].pages[q]
    BY <2>5, <2>6, <2>9
  <2>12. \A u \in UserTables : \/ dirs'[d].tables[u] = dirs[d].tables[u]
                               \/ dirs'[d].tables[u] = next + 2 /\ next + 2 <= next'
    <3> TAKE u \in UserTables
    <3>1. CASE u = TableOf(p)
      <4>1. dirs'[d].tables[u] = table
        BY <1>1, <2>5, <2>6, <2>9, <3>1
      <4> QED
        BY <4>1, <2>4, <3>1
    <3>2. CASE u # TableOf(p)
      BY <2>5, <2>6, <2>9, <3>2
    <3> QED
      BY <3>1, <3>2
  <2>13. dirs'[d].kernel = dirs[d].kernel
    BY <2>5, <2>9
  <2>14. Mapping(d, p)
    <3>1. \A e \in Dirs, q \in Pages : ~(e = d /\ q = p) => dirs'[e].pages[q] = dirs[e].pages[q]
      BY <2>9, <2>11, Zenon
    <3>2. \A e \in Dirs, u \in UserTables :
            \/ dirs'[e].tables[u] = dirs[e].tables[u]
            \/ dirs'[e].tables[u] = next + 2 /\ next + 2 <= next'
      BY <2>9, <2>12, Zenon
    <3>3. \A e \in Dirs : dirs'[e].kernel = dirs[e].kernel
      BY <2>9, <2>13, Zenon
    <3> QED
      BY <2>4, <2>10, <2>11, <3>1, <3>2, <3>3, Zenon DEF Mapping
  <2> QED
    BY <1>5, <2>14
<1>6. Left >= Needs(d, p) <=> ~(Left < Needs(d, p))
  BY <1>2, <1>3
<1> QED
  BY <1>4, <1>5, <1>6

LEMMA MapNewKinds ==
  ASSUME ConstantsOK, TypeOK, NEW d \in Dirs, NEW p \in Pages, MapNew(d, p)
  PROVE  Mapping(d, p) \/ Losing
<1>1. Left \in Nat /\ Needs(d, p) \in {1, 2}
  BY Numbers, ConstantFacts DEF Left, Needs
<1>2. Left >= Needs(d, p) \/ Left < Needs(d, p)
  BY <1>1
<1> QED
  BY <1>2, MapNewShape

LEMMA MappingKeeps ==
  ASSUME ConstantsOK, TypeOK, FramesInv, NEW d \in Dirs, NEW p \in Pages, Mapping(d, p)
  PROVE  FramesInv'
<1>1. /\ next \in Nat /\ 0 \in Dirs
      /\ \A e \in Dirs :
           /\ \A q \in Pages : dirs[e].pages[q] \in Nat /\ dirs[e].pages[q] <= next
           /\ \A u \in UserTables : dirs[e].tables[u] \in Nat /\ dirs[e].tables[u] <= next
           /\ \A k \in KernelTables : dirs[e].kernel[k] \in Nat /\ dirs[e].kernel[k] <= next
  BY Numbers DEF FramesInv, Taken
<1>2. next' \in Nat /\ next + 1 <= next'
  BY DEF Mapping
<1>3. \A e \in Dirs, q \in Pages :
        \/ e = d /\ q = p /\ dirs'[e].pages[q] = next + 1
        \/ ~(e = d /\ q = p) /\ dirs'[e].pages[q] = dirs[e].pages[q]
  BY Zenon DEF Mapping
<1>4. \A e \in Dirs, u \in UserTables :
        \/ dirs'[e].tables[u] = dirs[e].tables[u]
        \/ dirs'[e].tables[u] = next + 2 /\ next + 2 <= next'
  BY Zenon DEF Mapping
<1>5. \A e \in Dirs : dirs'[e].kernel = dirs[e].kernel
  BY Zenon DEF Mapping
<1>6. Taken'
  <2> SUFFICES ASSUME NEW e \in Dirs
               PROVE  /\ \A q \in Pages : dirs'[e].pages[q] <= next'
                      /\ \A u \in UserTables : dirs'[e].tables[u] <= next'
                      /\ \A k \in KernelTables : dirs'[e].kernel[k] <= next'
    BY Zenon DEF Taken
  <2>1. \A q \in Pages : dirs'[e].pages[q] <= next'
    <3> TAKE q \in Pages
    <3>1. dirs'[e].pages[q] = next + 1 \/ dirs'[e].pages[q] = dirs[e].pages[q]
      BY <1>3, Zenon
    <3>2. dirs[e].pages[q] \in Nat /\ dirs[e].pages[q] <= next
      BY <1>1
    <3> QED
      BY <1>1, <1>2, <3>1, <3>2
  <2>2. \A u \in UserTables : dirs'[e].tables[u] <= next'
    <3> TAKE u \in UserTables
    <3>1. dirs[e].tables[u] \in Nat /\ dirs[e].tables[u] <= next
      BY <1>1
    <3> QED
      BY <1>1, <1>2, <1>4, <3>1
  <2>3. \A k \in KernelTables : dirs'[e].kernel[k] <= next'
    <3> TAKE k \in KernelTables
    <3>1. dirs[e].kernel[k] \in Nat /\ dirs[e].kernel[k] <= next
      BY <1>1
    <3> QED
      BY <1>1, <1>2, <1>5, <3>1
  <2> QED
    BY <2>1, <2>2, <2>3
<1>7. Once'
  <2> SUFFICES ASSUME NEW e \in Dirs, NEW g \in Dirs, NEW q \in Pages, NEW r \in Pages,
                      dirs'[e].pages[q] # 0, dirs'[e].pages[q] = dirs'[g].pages[r]
               PROVE  e = g /\ q = r
    BY DEF Once
  <2>1. dirs[e].pages[q] # next + 1 /\ dirs[g].pages[r] # next + 1
    <3>1. \A n \in Nat : n <= next => n # next + 1
      BY <1>1
    <3> QED
      BY <1>1, <3>1, Zenon
  <2>2. CASE e = d /\ q = p
    <3>1. dirs'[g].pages[r] = next + 1
      BY <2>2, <1>3, Zenon
    <3>2. g = d /\ r = p
      <4>1. dirs'[g].pages[r] # dirs[g].pages[r]
        BY <3>1, <2>1
      <4> QED
        BY <4>1, <1>3, Zenon
    <3> QED
      BY <2>2, <3>2
  <2>3. CASE ~(e = d /\ q = p)
    <3>1. dirs'[e].pages[q] = dirs[e].pages[q]
      BY <2>3, <1>3, Zenon
    <3>2. ~(g = d /\ r = p)
      BY <3>1, <1>3, <2>1
    <3>3. dirs'[g].pages[r] = dirs[g].pages[r]
      BY <3>2, <1>3, Zenon
    <3>4. Once /\ dirs[e].pages[q] # 0 /\ dirs[e].pages[q] = dirs[g].pages[r]
      BY <3>1, <3>3 DEF FramesInv
    <3> QED
      BY <3>4 DEF Once
  <2> QED
    BY <2>2, <2>3
<1>8. NoTable'
  <2> SUFFICES ASSUME NEW e \in Dirs, NEW q \in Pages, dirs'[e].pages[q] # 0
               PROVE  /\ \A g \in Dirs, u \in UserTables : dirs'[e].pages[q] # dirs'[g].tables[u]
                      /\ \A k \in KernelTables : dirs'[e].pages[q] # dirs'[0].kernel[k]
    BY Zenon DEF NoTable
  <2>1. \A n \in Nat : n <= next => n # next + 1 /\ n # next + 2
    BY <1>1
  <2>2. next + 1 # next + 2
    BY <1>1
  <2>3. CASE e = d /\ q = p
    <3>1. dirs'[e].pages[q] = next + 1
      BY <2>3, <1>3, Zenon
    <3> QED
      BY <3>1, <1>1, <1>4, <1>5, <2>1, <2>2, Zenon
  <2>4. CASE ~(e = d /\ q = p)
    <3>1. dirs'[e].pages[q] = dirs[e].pages[q]
      BY <2>4, <1>3, Zenon
    <3>2. /\ \A g \in Dirs, u \in UserTables : dirs[e].pages[q] # dirs[g].tables[u]
          /\ \A k \in KernelTables : dirs[e].pages[q] # dirs[0].kernel[k]
      BY <3>1, Zenon DEF FramesInv, NoTable
    <3>3. dirs[e].pages[q] # next + 2
      BY <1>1, <2>1, Zenon
    <3> QED
      BY <3>1, <3>2, <3>3, <1>1, <1>4, <1>5, Zenon
  <2> QED
    BY <2>3, <2>4
<1> QED
  BY <1>6, <1>7, <1>8 DEF FramesInv

LEMMA LosingKeeps ==
  ASSUME ConstantsOK, TypeOK, FramesInv, Losing
  PROVE  FramesInv'
<1>1. dirs' = dirs /\ next \in Nat /\ next' \in Nat /\ next <= next'
  BY Numbers DEF Losing
<1>2. Taken'
  <2> SUFFICES ASSUME NEW e \in Dirs
               PROVE  /\ \A q \in Pages : dirs[e].pages[q] <= next'
                      /\ \A u \in UserTables : dirs[e].tables[u] <= next'
                      /\ \A k \in KernelTables : dirs[e].kernel[k] <= next'
    BY <1>1, Zenon DEF Taken
  <2>1. \A n \in Nat : n <= next => n <= next'
    BY <1>1
  <2>2. /\ \A q \in Pages : dirs[e].pages[q] \in Nat /\ dirs[e].pages[q] <= next
        /\ \A u \in UserTables : dirs[e].tables[u] \in Nat /\ dirs[e].tables[u] <= next
        /\ \A k \in KernelTables : dirs[e].kernel[k] \in Nat /\ dirs[e].kernel[k] <= next
    BY Numbers DEF FramesInv, Taken
  <2> QED
    BY <2>1, <2>2, Zenon
<1>3. Once' /\ NoTable'
  BY <1>1 DEF FramesInv, Once, NoTable
<1> QED
  BY <1>2, <1>3 DEF FramesInv

\* A new directory, with the kernel's half and nothing else.
Making ==
  /\ made' = made + 1 /\ made' <= MaxDirs
  /\ next' \in Nat /\ next' <= Frames /\ next' = next + 1
  /\ dirs' \in [Dirs -> Directory]
  /\ \A d \in Dirs : d # made' => dirs'[d] = dirs[d]
  /\ \A p \in Pages : dirs'[made'].pages[p] = 0
  /\ \A u \in UserTables : dirs'[made'].tables[u] = 0
  /\ dirs'[made'].kernel = dirs[0].kernel

LEMMA MakeDirShape ==
  ASSUME ConstantsOK, TypeOK, MakeDir
  PROVE  Making /\ made' \in Dirs /\ made' \in 1 .. MaxDirs
<1>1. /\ made \in Nat /\ next \in Nat /\ next <= Frames /\ Frames \in Nat /\ MaxDirs \in Nat
      /\ dirs[0] \in Directory /\ 1 <= made /\ Dirs = 0 .. MaxDirs
  BY Numbers, ConstantFacts
<1>2. /\ made < MaxDirs /\ Left > 0 /\ next' = next + 1 /\ made' = made + 1
      /\ dirs' = [dirs EXCEPT ![made + 1] = [NoDir EXCEPT !.kernel = dirs[0].kernel]]
  BY DEF MakeDir
<1>3. next + 1 <= Frames
  BY <1>1, <1>2 DEF Left
<1>4. made' \in Dirs /\ made' <= MaxDirs /\ made' \in 1 .. MaxDirs
  BY <1>1, <1>2
<1> DEFINE new == [NoDir EXCEPT !.kernel = dirs[0].kernel]
<1>5. /\ new \in Directory /\ new.kernel = dirs[0].kernel
      /\ \A p \in Pages : new.pages[p] = 0
      /\ \A u \in UserTables : new.tables[u] = 0
  <2>1. /\ new = [kernel |-> dirs[0].kernel, tables |-> [u \in UserTables |-> 0],
                  pages |-> [p \in Pages |-> 0]]
    BY DEF NoDir
  <2> HIDE DEF new
  <2>2. dirs[0].kernel \in [KernelTables -> 0 .. Frames]
    BY <1>1 DEF Directory
  <2> QED
    BY <1>1, <2>1, <2>2 DEF Directory
<1> HIDE DEF new
<1>6. dirs' = [dirs EXCEPT ![made'] = new]
  BY <1>2 DEF new
<1>7. /\ dirs'[made'] = new /\ \A d \in Dirs : d # made' => dirs'[d] = dirs[d]
      /\ dirs' \in [Dirs -> Directory]
  BY <1>4, <1>5, <1>6 DEF TypeOK
<1>8. /\ \A p \in Pages : dirs'[made'].pages[p] = 0
      /\ \A u \in UserTables : dirs'[made'].tables[u] = 0
      /\ dirs'[made'].kernel = dirs[0].kernel
  BY <1>5, <1>7
<1>9. next' \in Nat /\ next' <= Frames
  BY <1>1, <1>2, <1>3
<1> QED
  BY <1>2, <1>4, <1>7, <1>8, <1>9, Zenon DEF Making

LEMMA MakingKeeps ==
  ASSUME ConstantsOK, TypeOK, FramesInv, Making
  PROVE  FramesInv'
<1>1. /\ next \in Nat /\ 0 \in Dirs /\ made \in Nat
      /\ \A e \in Dirs :
           /\ \A q \in Pages : dirs[e].pages[q] \in Nat /\ dirs[e].pages[q] <= next
           /\ \A u \in UserTables : dirs[e].tables[u] \in Nat /\ dirs[e].tables[u] <= next
           /\ \A k \in KernelTables : dirs[e].kernel[k] \in Nat /\ dirs[e].kernel[k] <= next
  BY Numbers DEF FramesInv, Taken
<1>2. next' = next + 1 /\ made' = made + 1
  BY DEF Making
<1>3. \A e \in Dirs, q \in Pages :
        dirs'[e].pages[q] = 0 \/ dirs'[e].pages[q] = dirs[e].pages[q]
  BY Zenon DEF Making
<1>4. \A e \in Dirs, u \in UserTables :
        dirs'[e].tables[u] = 0 \/ dirs'[e].tables[u] = dirs[e].tables[u]
  BY Zenon DEF Making
<1>5. \A e \in Dirs : dirs'[e].kernel = dirs[0].kernel \/ dirs'[e].kernel = dirs[e].kernel
  BY Zenon DEF Making
<1>6. dirs'[0].kernel = dirs[0].kernel
  <2>1. made' # 0
    BY <1>1, <1>2
  <2> QED
    BY <1>1, <2>1, Zenon DEF Making
<1>7. \A n \in Nat : n <= next => n <= next'
  BY <1>1, <1>2
<1>8. 0 <= next'
  BY <1>1, <1>2
<1>9. Taken'
  <2>1. \A e \in Dirs, q \in Pages : dirs'[e].pages[q] <= next'
    BY <1>1, <1>3, <1>7, <1>8, Zenon
  <2>2. \A e \in Dirs, u \in UserTables : dirs'[e].tables[u] <= next'
    BY <1>1, <1>4, <1>7, <1>8, Zenon
  <2>3. \A e \in Dirs, k \in KernelTables : dirs'[e].kernel[k] <= next'
    BY <1>1, <1>5, <1>7, Zenon
  <2> QED
    BY <2>1, <2>2, <2>3, Zenon DEF Taken
<1>10. Once'
  <2> SUFFICES ASSUME NEW e \in Dirs, NEW g \in Dirs, NEW q \in Pages, NEW r \in Pages,
                      dirs'[e].pages[q] # 0, dirs'[e].pages[q] = dirs'[g].pages[r]
               PROVE  e = g /\ q = r
    BY DEF Once
  <2>1. dirs'[e].pages[q] = dirs[e].pages[q] /\ dirs'[g].pages[r] = dirs[g].pages[r]
    BY <1>3, Zenon
  <2>2. Once /\ dirs[e].pages[q] # 0 /\ dirs[e].pages[q] = dirs[g].pages[r]
    BY <2>1 DEF FramesInv
  <2> QED
    BY <2>2 DEF Once
<1>11. NoTable'
  <2> SUFFICES ASSUME NEW e \in Dirs, NEW q \in Pages, dirs'[e].pages[q] # 0
               PROVE  /\ \A g \in Dirs, u \in UserTables : dirs'[e].pages[q] # dirs'[g].tables[u]
                      /\ \A k \in KernelTables : dirs'[e].pages[q] # dirs'[0].kernel[k]
    BY Zenon DEF NoTable
  <2>1. dirs'[e].pages[q] = dirs[e].pages[q]
    BY <1>3, Zenon
  <2>2. /\ \A g \in Dirs, u \in UserTables : dirs[e].pages[q] # dirs[g].tables[u]
        /\ \A k \in KernelTables : dirs[e].pages[q] # dirs[0].kernel[k]
    BY <2>1, Zenon DEF FramesInv, NoTable
  <2> QED
    BY <2>1, <2>2, <1>4, <1>6, Zenon
<1> QED
  BY <1>9, <1>10, <1>11 DEF FramesInv

\* The kernel's half changes, the user's does not.
Sharing(k) ==
  /\ next' = next + 2 /\ next' \in Nat /\ next' <= Frames
  /\ dirs' \in [Dirs -> Directory]
  /\ \A d \in Dirs : dirs'[d].pages = dirs[d].pages /\ dirs'[d].tables = dirs[d].tables
  /\ dirs'[0].kernel = [dirs[0].kernel EXCEPT ![k] = next + 2]
  /\ \A d \in Dirs : dirs'[d].kernel = dirs'[0].kernel \/ (dirs'[d].kernel = dirs[d].kernel /\ d # 0)
  /\ cr3 # 0 => \A d \in Active : dirs'[d].kernel = dirs'[0].kernel

LEMMA GrowsShape ==
  ASSUME ConstantsOK, TypeOK, NEW k \in KernelTables, KernelGrows(k)
  PROVE  /\ Left > 1 => Sharing(k) /\ cr3' = cr3 /\ failed' = failed
         /\ ~(Left > 1) => Losing /\ cr3' = 0 /\ failed' = TRUE /\ next' = Frames
<1>1. /\ next \in Nat /\ next <= Frames /\ Frames \in Nat /\ 0 \in Dirs
      /\ \A d \in Dirs : dirs[d] \in Directory
  BY Numbers, ConstantFacts
<1>2. Left \in Nat /\ Left > 0 /\ Left = Frames - next
  BY <1>1 DEF Left, KernelGrows
<1> DEFINE kernel == [dirs[0].kernel EXCEPT ![k] = next + 2]
<1>3. CASE Left > 1
  <2>1. /\ next' = next + 2 /\ cr3' = cr3 /\ failed' = failed
        /\ dirs' = IF cr3 = 0 THEN [dirs EXCEPT ![0].kernel = kernel] ELSE Synced(dirs, kernel)
    BY <1>3, Zenon DEF KernelGrows
  <2>2. next' \in Nat /\ next' <= Frames /\ next + 2 \in 0 .. Frames
    BY <1>1, <1>2, <1>3, <2>1
  <2>3. kernel \in [KernelTables -> 0 .. Frames]
    BY <1>1, <2>2 DEF Directory
  <2> HIDE DEF kernel
  <2> DEFINE new(d) == [dirs[d] EXCEPT !.kernel = kernel]
  <2>4. \A d \in Dirs : /\ new(d) \in Directory /\ new(d).kernel = kernel
                        /\ new(d).pages = dirs[d].pages /\ new(d).tables = dirs[d].tables
    BY <1>1, <2>3 DEF Directory
  <2>5. \E S \in SUBSET Dirs :
          /\ 0 \in S /\ (cr3 # 0 => Active \subseteq S)
          /\ dirs' = [d \in Dirs |-> IF d \in S THEN new(d) ELSE dirs[d]]
    <3>1. CASE cr3 = 0
      <4>1. dirs' = [d \in Dirs |-> IF d \in {0} THEN new(d) ELSE dirs[d]]
        BY <1>1, <2>1, <3>1 DEF TypeOK
      <4> QED
        BY <1>1, <3>1, <4>1
    <3>2. CASE cr3 # 0
      <4>1. dirs' = [d \in Dirs |-> IF d \in Active \cup {0} THEN new(d) ELSE dirs[d]]
        BY <2>1, <3>2 DEF Synced
      <4>2. Active \cup {0} \in SUBSET Dirs
        BY <1>1 DEF Active
      <4> QED
        BY <4>1, <4>2
    <3> QED
      BY <3>1, <3>2
  <2>6. PICK S \in SUBSET Dirs :
          /\ 0 \in S /\ (cr3 # 0 => Active \subseteq S)
          /\ dirs' = [d \in Dirs |-> IF d \in S THEN new(d) ELSE dirs[d]]
    BY <2>5
  <2> HIDE DEF new
  <2>7. \A d \in Dirs : dirs'[d] = IF d \in S THEN new(d) ELSE dirs[d]
    BY <2>6
  <2>8. dirs' \in [Dirs -> Directory]
    BY <1>1, <2>4, <2>6
  <2>9. dirs'[0].kernel = kernel
    BY <1>1, <2>4, <2>6, <2>7
  <2>10. \A d \in Dirs : dirs'[d].pages = dirs[d].pages /\ dirs'[d].tables = dirs[d].tables
    BY <2>4, <2>7, Zenon
  <2>11. \A d \in Dirs : dirs'[d].kernel = kernel \/ (dirs'[d].kernel = dirs[d].kernel /\ d # 0)
    BY <2>4, <2>6, <2>7, Zenon
  <2>12. cr3 # 0 => \A d \in Active : dirs'[d].kernel = kernel
    BY <2>4, <2>6, <2>7, Zenon
  <2>13. Sharing(k)
    BY <2>1, <2>2, <2>8, <2>9, <2>10, <2>11, <2>12 DEF Sharing, kernel
  <2> QED
    BY <1>3, <2>1, <2>13
<1>4. CASE ~(Left > 1)
  <2>1. next' = next + 1 /\ cr3' = 0 /\ failed' = TRUE /\ dirs' = dirs
    BY <1>4, Zenon DEF KernelGrows
  <2>2. next' = Frames /\ next' \in Nat /\ next <= next' /\ next' <= Frames
    BY <1>1, <1>2, <1>4, <2>1
  <2> QED
    BY <1>4, <2>1, <2>2 DEF Losing
<1> QED
  BY <1>3, <1>4

LEMMA SharingKeeps ==
  ASSUME ConstantsOK, TypeOK, FramesInv, NEW k \in KernelTables, Sharing(k)
  PROVE  FramesInv'
<1>1. /\ next \in Nat /\ 0 \in Dirs
      /\ \A e \in Dirs :
           /\ \A q \in Pages : dirs[e].pages[q] \in Nat /\ dirs[e].pages[q] <= next
           /\ \A u \in UserTables : dirs[e].tables[u] \in Nat /\ dirs[e].tables[u] <= next
           /\ \A j \in KernelTables : dirs[e].kernel[j] \in Nat /\ dirs[e].kernel[j] <= next
  BY Numbers DEF FramesInv, Taken
<1>2. next' = next + 2 /\ \A n \in Nat : n <= next => n <= next' /\ n # next + 2
  BY <1>1 DEF Sharing
<1>3. \A d \in Dirs : dirs'[d].pages = dirs[d].pages /\ dirs'[d].tables = dirs[d].tables
  BY DEF Sharing
<1>4. \A j \in KernelTables :
        dirs'[0].kernel[j] = dirs[0].kernel[j] \/ dirs'[0].kernel[j] = next + 2
  <2>1. dirs'[0].kernel = [dirs[0].kernel EXCEPT ![k] = next + 2]
    BY DEF Sharing
  <2>2. dirs[0].kernel \in [KernelTables -> 0 .. Frames]
    BY Numbers DEF Directory
  <2> QED
    BY <2>1, <2>2
<1>5. \A d \in Dirs : dirs'[d].kernel = dirs'[0].kernel \/ dirs'[d].kernel = dirs[d].kernel
  BY Zenon DEF Sharing
<1>6. Taken'
  <2>1. \A e \in Dirs : /\ \A q \in Pages : dirs'[e].pages[q] <= next'
                        /\ \A u \in UserTables : dirs'[e].tables[u] <= next'
    BY <1>1, <1>2, <1>3, Zenon
  <2>2. next + 2 <= next'
    BY <1>1, <1>2
  <2>3. \A e \in Dirs : \A j \in KernelTables : dirs'[e].kernel[j] <= next'
    BY <1>1, <1>2, <1>4, <1>5, <2>2, Zenon
  <2> QED
    BY <2>1, <2>3, Zenon DEF Taken
<1>7. Once'
  BY <1>3 DEF FramesInv, Once
<1>8. NoTable'
  <2> SUFFICES ASSUME NEW e \in Dirs, NEW q \in Pages, dirs'[e].pages[q] # 0
               PROVE  /\ \A g \in Dirs, u \in UserTables : dirs'[e].pages[q] # dirs'[g].tables[u]
                      /\ \A j \in KernelTables : dirs'[e].pages[q] # dirs'[0].kernel[j]
    BY Zenon DEF NoTable
  <2>1. dirs'[e].pages[q] = dirs[e].pages[q] /\ dirs[e].pages[q] # next + 2
    BY <1>1, <1>2, <1>3, Zenon
  <2>2. /\ \A g \in Dirs, u \in UserTables : dirs[e].pages[q] # dirs[g].tables[u]
        /\ \A j \in KernelTables : dirs[e].pages[q] # dirs[0].kernel[j]
    BY <2>1, Zenon DEF FramesInv, NoTable
  <2> QED
    BY <2>1, <2>2, <1>3, <1>4, Zenon
<1> QED
  BY <1>6, <1>7, <1>8 DEF FramesInv

-----------------------------------------------------------------------------
(* What each step does to the directories, and to the other variables. *)

\* A step that changes the directories has one of the shapes, or none changes.
Shape ==
  \/ \E d \in Dirs, p \in Pages : Mapping(d, p)
  \/ Losing
  \/ Making
  \/ \E k \in KernelTables : Sharing(k)

LEMMA ShapeKeeps ==
  ASSUME ConstantsOK, TypeOK, FramesInv, Shape
  PROVE  FramesInv' /\ dirs' \in [Dirs -> Directory] /\ next' \in 0 .. Frames
<1>1. FramesInv'
  BY MappingKeeps, LosingKeeps, MakingKeeps, SharingKeeps DEF Shape
<1>2. dirs' \in [Dirs -> Directory] /\ next' \in Nat /\ next' <= Frames
  BY DEF Shape, Mapping, Losing, Making, Sharing, TypeOK
<1> QED
  BY <1>1, <1>2, ConstantFacts

LEMMA Still ==
  ASSUME ConstantsOK, TypeOK, UNCHANGED <<next, dirs>>
  PROVE  Losing
BY Numbers DEF Losing

\* The other variables keep to their types.
Rest ==
  /\ made \in 1 .. MaxDirs /\ cr3 \in 0 .. made
  /\ current \in Tasks /\ pd \in [Tasks -> 0 .. made] /\ failed \in BOOLEAN
  /\ heap \in [Tasks -> [brk : 1 .. HeapPages + 1, mapped : 1 .. HeapPages + 1]]
  /\ job \in Jobs

\* The kinds of jobs.
BrkJobs == [op : {"brk"}, page : 1 .. Stack, end : 1 .. Stack]
ForkJobs == [op : {"fork"}, child : Tasks, todo : SUBSET Pages]
ExecJobs == [op : {"exec"}, todo : {<<Stack, Code>>, <<Code>>, <<>>}]

LEMMA JobKinds ==
  ASSUME TypeOK
  PROVE  /\ job.op = "brk" => job \in BrkJobs
         /\ job.op = "fork" => job \in ForkJobs
         /\ job.op = "exec" => job \in ExecJobs
         /\ NoJob \in Jobs /\ NoJob.op = "none"
         /\ BrkJobs \cup ForkJobs \cup ExecJobs \subseteq Jobs
         /\ \A j \in BrkJobs : j.op = "brk"
         /\ \A j \in ForkJobs : j.op = "fork"
         /\ \A j \in ExecJobs : j.op = "exec"
<1>1. job \in {NoJob} \cup BrkJobs \cup ForkJobs \cup ExecJobs
  BY DEF TypeOK, Jobs, BrkJobs, ForkJobs, ExecJobs
<1>2. NoJob.op = "none"
  BY DEF NoJob
<1>3. /\ \A j \in BrkJobs : j.op = "brk"
      /\ \A j \in ForkJobs : j.op = "fork"
      /\ \A j \in ExecJobs : j.op = "exec"
  BY DEF BrkJobs, ForkJobs, ExecJobs
<1>4. NoJob \in Jobs /\ BrkJobs \cup ForkJobs \cup ExecJobs \subseteq Jobs
  BY DEF Jobs, BrkJobs, ForkJobs, ExecJobs
<1> QED
  BY <1>1, <1>2, <1>3, <1>4

\* A step: the type of all variables, and the shape.
Step == Shape /\ Rest' /\ Own'

LEMMA GrowsStep ==
  ASSUME ConstantsOK, TypeOK, Own, NEW k \in KernelTables, KernelGrows(k)
  PROVE  Step
<1>1. Shape /\ cr3' \in {cr3, 0} /\ failed' \in BOOLEAN
  BY GrowsShape DEF Shape, TypeOK
<1>2. UNCHANGED <<made, current, pd, heap, job>> /\ job.op = "none"
  BY JobKinds DEF KernelGrows, InUser
<1>3. Rest'
  BY <1>1, <1>2 DEF TypeOK, Rest
<1>4. Own'
  BY <1>2 DEF Own, Alive
<1> QED
  BY <1>1, <1>3, <1>4 DEF Step

LEMMA SwitchStep ==
  ASSUME ConstantsOK, TypeOK, Own, NEW t \in Tasks, Switch(t)
  PROVE  Step
<1>1. UNCHANGED <<next, dirs, made, pd, heap, job, failed>> /\ current' = t /\ cr3' = pd[t]
      /\ t \in Alive /\ job.op = "none"
  BY JobKinds DEF Switch, InUser
<1>2. Shape
  BY <1>1, Still DEF Shape
<1>3. Rest'
  BY <1>1 DEF TypeOK, Rest
<1>4. Own'
  BY <1>1 DEF Own, Alive
<1> QED
  BY <1>2, <1>3, <1>4 DEF Step

LEMMA ExitStep ==
  ASSUME ConstantsOK, TypeOK, Own, NEW t \in Tasks, Exit(t)
  PROVE  Step
<1>1. /\ UNCHANGED <<next, dirs, made, job, failed>> /\ current' = t /\ cr3' = pd[t]
      /\ t \in Alive \ {current} /\ job.op = "none"
      /\ pd' = [pd EXCEPT ![current] = 0]
      /\ heap' = [heap EXCEPT ![current] = NoHeap]
  BY JobKinds DEF Exit, InUser
<1>2. Shape
  BY <1>1, Still DEF Shape
<1>3. NoHeap \in [brk : 1 .. HeapPages + 1, mapped : 1 .. HeapPages + 1]
  BY ConstantFacts DEF NoHeap
<1>4. /\ made \in Nat /\ current \in Tasks
      /\ \A u \in Tasks : pd'[u] = IF u = current THEN 0 ELSE pd[u]
  BY <1>1, Numbers DEF TypeOK
<1>5. Rest'
  BY <1>1, <1>3, <1>4 DEF TypeOK, Rest
<1>6. \A u \in Tasks : pd'[u] # 0 => u # current /\ pd[u] # 0 /\ pd'[u] = pd[u]
  BY <1>4, Zenon
<1>7. Own'
  <2>1. t \in Alive'
    BY <1>1, <1>4 DEF Alive
  <2>2. \A u, v \in Alive' : u # v => pd'[u] # pd'[v]
    BY <1>6 DEF Own, Alive
  <2> QED
    BY <1>1, <2>1, <2>2 DEF Own
<1> QED
  BY <1>2, <1>5, <1>7 DEF Step

LEMMA BrkStep ==
  ASSUME ConstantsOK, TypeOK, Own, NEW pages \in 1 .. HeapPages + 1, Brk(pages)
  PROVE  Step
<1>1. UNCHANGED <<next, dirs, made, cr3, current, pd, failed>> /\ job = NoJob
  BY DEF Brk, InUser
<1>2. Shape
  BY <1>1, Still DEF Shape
<1>3. current \in Tasks /\ heap[current] \in [brk : 1 .. HeapPages + 1, mapped : 1 .. HeapPages + 1]
  BY DEF TypeOK
<1>4. CASE pages <= heap[current].mapped
  <2>1. heap' = [heap EXCEPT ![current].brk = pages] /\ job' = job
    BY <1>4, Zenon DEF Brk
  <2>2. [heap[current] EXCEPT !.brk = pages] \in [brk : 1 .. HeapPages + 1, mapped : 1 .. HeapPages + 1]
    BY <1>3
  <2>3. heap' = [heap EXCEPT ![current] = [heap[current] EXCEPT !.brk = pages]]
    BY <2>1
  <2>4. Rest'
    BY <1>1, <1>3, <2>1, <2>2, <2>3 DEF TypeOK, Rest
  <2>5. Own'
    BY <1>1, <2>1 DEF Own, Alive
  <2> QED
    BY <1>2, <2>4, <2>5 DEF Step
<1>5. CASE ~(pages <= heap[current].mapped)
  <2>1. job' = [op |-> "brk", page |-> heap[current].mapped, end |-> pages] /\ heap' = heap
    BY <1>5, Zenon DEF Brk
  <2>2. job' \in BrkJobs
    BY <1>3, <2>1, ConstantFacts DEF BrkJobs
  <2>3. job' \in Jobs /\ job'.op = "brk"
    BY <2>2, JobKinds
  <2>4. Rest'
    BY <1>1, <2>1, <2>3 DEF TypeOK, Rest
  <2>5. Own'
    BY <1>1, <2>1, <2>3 DEF Own, Alive
  <2> QED
    BY <1>2, <2>4, <2>5 DEF Step
<1> QED
  BY <1>4, <1>5

\* The page that sys_brk is at.
LEMMA BrkAt ==
  ASSUME ConstantsOK, TypeOK, job.op = "brk", job.page < job.end
  PROVE  /\ job \in BrkJobs /\ job.page \in Pages /\ job.page \in Nat /\ job.page >= 1
         /\ [job EXCEPT !.page = @ + 1] \in BrkJobs
         /\ [job EXCEPT !.page = @ + 1].page = job.page + 1
<1>1. job \in BrkJobs
  BY JobKinds
<1>2. job.page \in 1 .. Stack /\ job.end \in 1 .. Stack
  BY <1>1 DEF BrkJobs
<1>3. job.page \in Pages /\ job.page + 1 \in 1 .. Stack
  BY <1>2, ConstantFacts
<1>4. [job EXCEPT !.page = @ + 1] \in BrkJobs /\ [job EXCEPT !.page = @ + 1].page = job.page + 1
  BY <1>1, <1>3 DEF BrkJobs
<1> QED
  BY <1>1, <1>2, <1>3, <1>4

LEMMA BrkPageStep ==
  ASSUME ConstantsOK, TypeOK, Own, BrkPage
  PROVE  Step
<1>1. /\ job.op = "brk" /\ job.page < job.end
      /\ UNCHANGED <<made, cr3, current, pd, heap>> /\ failed' \in BOOLEAN
  BY DEF BrkPage
<1>2. MapNew(cr3, job.page) \/ UNCHANGED <<next, dirs>>
  BY Zenon DEF BrkPage
<1>3. cr3 \in Dirs /\ job.page \in Pages
  BY <1>1, BrkAt, Numbers
<1>4. Shape
  BY <1>2, <1>3, MapNewKinds, Still DEF Shape
<1>5. job' = NoJob \/ job' = [job EXCEPT !.page = @ + 1]
  BY Zenon DEF BrkPage
<1>6. job' \in Jobs /\ job'.op \in {"none", "brk"}
  <2>1. CASE job' = NoJob
    BY <2>1, JobKinds
  <2>2. CASE job' = [job EXCEPT !.page = @ + 1]
    <3>1. job' \in BrkJobs
      BY <1>1, <2>2, BrkAt
    <3> QED
      BY <3>1, JobKinds
  <2> QED
    BY <1>5, <2>1, <2>2
<1>7. Rest'
  BY <1>1, <1>6 DEF TypeOK, Rest
<1>8. Own'
  BY <1>1, <1>6 DEF Own, Alive
<1> QED
  BY <1>4, <1>7, <1>8 DEF Step

LEMMA BrkDoneStep ==
  ASSUME ConstantsOK, TypeOK, Own, BrkDone
  PROVE  Step
<1>1. /\ job.op = "brk" /\ job' = NoJob
      /\ heap' = [heap EXCEPT ![current] = [brk |-> job.end, mapped |-> job.end]]
      /\ UNCHANGED <<next, dirs, made, cr3, current, pd, failed>>
  BY DEF BrkDone
<1>2. Shape
  BY <1>1, Still DEF Shape
<1>3. job.end \in 1 .. HeapPages + 1
  BY <1>1, JobKinds, ConstantFacts DEF BrkJobs
<1>4. [brk |-> job.end, mapped |-> job.end] \in [brk : 1 .. HeapPages + 1, mapped : 1 .. HeapPages + 1]
  BY <1>3
<1>5. job' \in Jobs /\ job'.op = "none"
  BY <1>1, JobKinds
<1>6. Rest'
  BY <1>1, <1>4, <1>5 DEF TypeOK, Rest
<1>7. Own'
  BY <1>1, <1>5 DEF Own, Alive
<1> QED
  BY <1>2, <1>6, <1>7 DEF Step

LEMMA ForkStep ==
  ASSUME ConstantsOK, TypeOK, Own, NEW c \in Tasks, Fork(c)
  PROVE  Step
<1>1. /\ MakeDir /\ UNCHANGED <<cr3, current, pd, heap, failed>> /\ c \notin Alive
      /\ job' = [op |-> "fork", child |-> c, todo |-> Mapped(cr3)]
  BY DEF Fork
<1>2. Making /\ made' \in 1 .. MaxDirs /\ made' = made + 1 /\ made \in Nat
  BY <1>1, MakeDirShape, Numbers DEF Making
<1>3. Shape
  BY <1>2 DEF Shape
<1>4. job' \in ForkJobs
  BY <1>1 DEF ForkJobs, Mapped
<1>5. job' \in Jobs /\ job'.op = "fork" /\ job'.child = c
  BY <1>1, <1>4, JobKinds
<1>6. \A t \in Tasks : pd[t] \in 0 .. made' /\ pd[t] # made'
  <2> TAKE t \in Tasks
  <2>1. pd[t] \in 0 .. made
    BY DEF TypeOK
  <2> QED
    BY <1>2, <2>1
<1>7. cr3 \in 0 .. made'
  BY <1>2 DEF TypeOK
<1>8. Rest'
  BY <1>1, <1>2, <1>5, <1>6, <1>7 DEF TypeOK, Rest
<1>9. Own'
  BY <1>1, <1>5, <1>6 DEF Own, Alive
<1> QED
  BY <1>3, <1>8, <1>9 DEF Step

LEMMA ForkPageStep ==
  ASSUME ConstantsOK, TypeOK, Own, ForkPage
  PROVE  Step
<1>1. PICK p \in (IF job.op = "fork" THEN job.todo ELSE {}) :
        /\ IF Left < Needs(made, p)
           THEN next' = Frames /\ job' = NoJob /\ UNCHANGED dirs
           ELSE MapNew(made, p) /\ job' = [job EXCEPT !.todo = @ \ {p}]
        /\ UNCHANGED <<made, cr3, current, pd, heap, failed>>
  BY DEF ForkPage
<1>2. job.op = "fork" /\ job \in ForkJobs /\ p \in job.todo /\ p \in Pages
  BY <1>1, JobKinds DEF ForkJobs
<1>3. made \in Dirs /\ next \in Nat /\ next <= Frames /\ Frames \in Nat
  BY Numbers, ConstantFacts
<1>4. CASE Left < Needs(made, p)
  <2>1. next' = Frames /\ job' = NoJob /\ dirs' = dirs
    BY <1>1, <1>4, Zenon
  <2>2. Shape
    BY <1>3, <2>1 DEF Shape, Losing
  <2>3. job' \in Jobs /\ job'.op = "none"
    BY <2>1, JobKinds
  <2>4. Rest'
    BY <1>1, <2>3 DEF TypeOK, Rest
  <2>5. Own'
    BY <1>1, <2>3 DEF Own, Alive
  <2> QED
    BY <2>2, <2>4, <2>5 DEF Step
<1>5. CASE ~(Left < Needs(made, p))
  <2>1. MapNew(made, p) /\ job' = [job EXCEPT !.todo = @ \ {p}]
    BY <1>1, <1>5, Zenon
  <2>2. Shape
    BY <1>2, <1>3, <2>1, MapNewKinds DEF Shape
  <2>3. job' \in ForkJobs /\ job'.child = job.child
    BY <1>2, <2>1 DEF ForkJobs
  <2>4. job' \in Jobs /\ job'.op = "fork"
    BY <2>3, JobKinds
  <2>5. Rest'
    BY <1>1, <2>4 DEF TypeOK, Rest
  <2>6. Own'
    BY <1>1, <1>2, <2>3, <2>4 DEF Own, Alive
  <2> QED
    BY <2>2, <2>5, <2>6 DEF Step
<1> QED
  BY <1>4, <1>5

LEMMA ForkDoneStep ==
  ASSUME ConstantsOK, TypeOK, Own, ForkDone
  PROVE  Step
<1>1. /\ job.op = "fork" /\ job' = NoJob
      /\ UNCHANGED <<next, dirs, made, cr3, current, failed>>
      /\ \/ /\ pd' = [pd EXCEPT ![job.child] = made]
            /\ heap' = [heap EXCEPT ![job.child] = heap[current]]
         \/ UNCHANGED <<pd, heap>>
  BY DEF ForkDone
<1>2. Shape
  BY <1>1, Still DEF Shape
<1>3. job' \in Jobs /\ job'.op = "none"
  BY <1>1, JobKinds
<1>4. job.child \in Tasks
  BY <1>1, JobKinds DEF ForkJobs
<1>5. CASE UNCHANGED <<pd, heap>>
  <2>1. Rest'
    BY <1>1, <1>3, <1>5 DEF TypeOK, Rest
  <2>2. Own'
    BY <1>1, <1>3, <1>5 DEF Own, Alive
  <2> QED
    BY <1>2, <2>1, <2>2 DEF Step
<1>6. CASE /\ pd' = [pd EXCEPT ![job.child] = made]
           /\ heap' = [heap EXCEPT ![job.child] = heap[current]]
  <2>1. \A t \in Tasks : pd'[t] = IF t = job.child THEN made ELSE pd[t]
    BY <1>4, <1>6 DEF TypeOK
  <2>2. made # 0 /\ made \in 0 .. made
    BY Numbers
  <2>3. Rest'
    BY <1>1, <1>3, <1>4, <1>6, <2>2 DEF TypeOK, Rest
  <2>4. /\ \A t \in Tasks : pd[t] # made
        /\ job.child \notin Alive /\ current \in Alive
        /\ \A t, u \in Tasks : t # u /\ pd[t] # 0 /\ pd[u] # 0 => pd[t] # pd[u]
    BY <1>1 DEF Own, Alive
  <2>5. current' \in Alive'
    BY <1>1, <2>1, <2>4 DEF Alive
  <2>6. \A t, u \in Tasks : t # u /\ pd'[t] # 0 /\ pd'[u] # 0 => pd'[t] # pd'[u]
    BY <2>1, <2>4
  <2>7. Own'
    BY <1>3, <2>5, <2>6 DEF Own, Alive
  <2> QED
    BY <1>2, <2>3, <2>7 DEF Step
<1> QED
  BY <1>1, <1>5, <1>6

LEMMA ExecStep ==
  ASSUME ConstantsOK, TypeOK, Own, Exec
  PROVE  Step
<1>1. /\ MakeDir /\ UNCHANGED <<current, pd, heap, failed>> /\ cr3' = made + 1
      /\ job' = [op |-> "exec", todo |-> <<Stack, Code>>]
  BY DEF Exec
<1>2. Making /\ made' \in 1 .. MaxDirs /\ made' = made + 1 /\ made \in Nat
  BY <1>1, MakeDirShape, Numbers DEF Making
<1>3. Shape
  BY <1>2 DEF Shape
<1>4. job' \in ExecJobs
  BY <1>1 DEF ExecJobs
<1>5. job' \in Jobs /\ job'.op = "exec"
  BY <1>4, JobKinds
<1>6. \A t \in Tasks : pd[t] \in 0 .. made' /\ pd[t] # made'
  <2> TAKE t \in Tasks
  <2>1. pd[t] \in 0 .. made
    BY DEF TypeOK
  <2> QED
    BY <1>2, <2>1
<1>7. cr3' \in 0 .. made'
  BY <1>1, <1>2
<1>8. Rest'
  BY <1>1, <1>2, <1>5, <1>6, <1>7 DEF TypeOK, Rest
<1>9. Own'
  BY <1>1, <1>2, <1>5, <1>6 DEF Own, Alive
<1> QED
  BY <1>3, <1>8, <1>9 DEF Step

\* What is left to load.
LEMMA Todo ==
  ASSUME ConstantsOK, TypeOK, job.op = "exec"
  PROVE  /\ job \in ExecJobs
         /\ job.todo # <<>> => /\ Tail(job.todo) \in {<<Code>>, <<>>}
                               /\ job.todo[1] \in {Stack, Code}
<1>1. job \in ExecJobs
  BY JobKinds
<1>2. job.todo \in {<<Stack, Code>>, <<Code>>, <<>>}
  BY <1>1 DEF ExecJobs
<1>3. Tail(<<Stack, Code>>) = <<Code>> /\ Tail(<<Code>>) = <<>>
  OBVIOUS
<1>4. <<Stack, Code>>[1] = Stack /\ <<Code>>[1] = Code
  OBVIOUS
<1> QED
  BY <1>1, <1>2, <1>3, <1>4

LEMMA ExecPageStep ==
  ASSUME ConstantsOK, TypeOK, Own, NEW p \in {Stack, Code}, ExecPage(p)
  PROVE  Step
<1>1. /\ job.op = "exec" /\ job.todo # <<>> /\ p = job.todo[1]
      /\ IF Left > 0 THEN MapNew(cr3, p) ELSE UNCHANGED <<next, dirs>>
      /\ IF p = Code /\ Left = 0 THEN cr3' = pd[current] /\ job' = NoJob
         ELSE job' = [job EXCEPT !.todo = Tail(@)] /\ UNCHANGED cr3
      /\ failed' \in BOOLEAN /\ UNCHANGED <<made, current, pd, heap>>
  BY DEF ExecPage
<1>2. cr3 \in Dirs /\ p \in Pages
  BY Numbers, ConstantFacts
<1>3. MapNew(cr3, p) \/ UNCHANGED <<next, dirs>>
  BY <1>1, Zenon
<1>4. Shape
  BY <1>2, <1>3, MapNewKinds, Still DEF Shape
<1>5. current \in Tasks /\ pd[current] \in 0 .. made
  BY DEF TypeOK
<1>6. CASE cr3' = pd[current] /\ job' = NoJob
  <2>1. job' \in Jobs /\ job'.op = "none"
    BY <1>6, JobKinds
  <2>2. Rest'
    BY <1>1, <1>5, <1>6, <2>1 DEF TypeOK, Rest
  <2>3. Own'
    BY <1>1, <2>1 DEF Own, Alive
  <2> QED
    BY <1>4, <2>2, <2>3 DEF Step
<1>7. CASE job' = [job EXCEPT !.todo = Tail(@)] /\ UNCHANGED cr3
  <2>1. job' \in ExecJobs
    BY <1>1, <1>7, Todo DEF ExecJobs
  <2>2. job' \in Jobs /\ job'.op = "exec"
    BY <2>1, JobKinds
  <2>3. Rest'
    BY <1>1, <1>7, <2>2 DEF TypeOK, Rest
  <2>4. Own'
    BY <1>1, <1>7, <2>2 DEF Own, Alive
  <2> QED
    BY <1>4, <2>3, <2>4 DEF Step
<1> QED
  BY <1>1, <1>6, <1>7, Zenon

LEMMA ExecDoneStep ==
  ASSUME ConstantsOK, TypeOK, Own, ExecDone
  PROVE  Step
<1>1. /\ job.op = "exec" /\ job' = NoJob /\ pd' = [pd EXCEPT ![current] = made]
      /\ UNCHANGED <<made, current>>
      /\ \/ MapNew(cr3, 1) /\ UNCHANGED cr3
         \/ UNCHANGED <<next, dirs>> /\ cr3' = pd[current]
      /\ \/ heap' = [heap EXCEPT ![current] = [brk |-> 1, mapped |-> 2]]
         \/ heap' = [heap EXCEPT ![current] = NoHeap]
      /\ failed' \in BOOLEAN
  <2>1. CASE Left > 0
    BY <2>1 DEF ExecDone, TypeOK
  <2>2. CASE ~(Left > 0)
    BY <2>2 DEF ExecDone
  <2> QED
    BY <2>1, <2>2
<1>2. cr3 \in Dirs /\ 1 \in Pages
  BY Numbers, ConstantFacts
<1>3. Shape
  BY <1>1, <1>2, MapNewKinds, Still DEF Shape
<1>4. job' \in Jobs /\ job'.op = "none"
  BY <1>1, JobKinds
<1>5. current \in Tasks /\ pd[current] \in 0 .. made /\ made # 0 /\ made \in 0 .. made
  BY Numbers DEF TypeOK
<1>6. {[brk |-> 1, mapped |-> 2], NoHeap} \subseteq [brk : 1 .. HeapPages + 1, mapped : 1 .. HeapPages + 1]
  BY ConstantFacts DEF NoHeap
<1>7. heap' \in [Tasks -> [brk : 1 .. HeapPages + 1, mapped : 1 .. HeapPages + 1]]
  BY <1>1, <1>5, <1>6 DEF TypeOK
<1>8. cr3' \in 0 .. made
  BY <1>1, <1>5 DEF TypeOK
<1>9. Rest'
  BY <1>1, <1>4, <1>5, <1>7, <1>8 DEF TypeOK, Rest
<1>10. \A t \in Tasks : pd'[t] = IF t = current THEN made ELSE pd[t]
  BY <1>1, <1>5 DEF TypeOK
<1>11. /\ \A t \in Tasks : pd[t] # made
       /\ \A t, u \in Tasks : t # u /\ pd[t] # 0 /\ pd[u] # 0 => pd[t] # pd[u]
  BY <1>1 DEF Own, Alive
<1>12. \A t, u \in Tasks : t # u /\ pd'[t] # 0 /\ pd'[u] # 0 => pd'[t] # pd'[u]
  BY <1>10, <1>11
<1>13. Own'
  BY <1>1, <1>4, <1>5, <1>10, <1>12 DEF Own, Alive
<1> QED
  BY <1>3, <1>9, <1>13 DEF Step

LEMMA NextStep ==
  ASSUME ConstantsOK, TypeOK, Own, Next
  PROVE  Step
<1>1. ASSUME NEW k \in KernelTables, KernelGrows(k) PROVE Step
  BY <1>1, GrowsStep
<1>2. ASSUME NEW t \in Tasks, Switch(t) \/ Exit(t) \/ Fork(t) PROVE Step
  BY <1>2, SwitchStep, ExitStep, ForkStep
<1>3. ASSUME NEW pages \in 1 .. HeapPages + 1, Brk(pages) PROVE Step
  BY <1>3, BrkStep
<1>4. ASSUME BrkPage \/ BrkDone \/ ForkPage \/ ForkDone \/ Exec \/ ExecDone PROVE Step
  BY <1>4, BrkPageStep, BrkDoneStep, ForkPageStep, ForkDoneStep, ExecStep, ExecDoneStep
<1>5. ASSUME NEW p \in {Stack, Code}, ExecPage(p) PROVE Step
  BY <1>5, ExecPageStep
<1> QED
  BY <1>1, <1>2, <1>3, <1>4, <1>5 DEF Next

-----------------------------------------------------------------------------
(* The type, and no frame at two pages. *)

Inv == TypeOK /\ FramesInv /\ Own

LEMMA InitDirs ==
  ASSUME ConstantsOK, Init
  PROVE  /\ dirs \in [Dirs -> Directory] /\ next = 6 /\ made = 1 /\ 1 \in Dirs
         /\ \A d \in Dirs : d # 1 => dirs[d] = NoDir
         /\ dirs[1].kernel = NoDir.kernel
         /\ \A p \in Pages : dirs[1].pages[p] \in 0 .. Frames
         /\ \A p \in Pages : \/ dirs[1].pages[p] = 0 /\ p \notin {Code, 1, Stack}
                             \/ dirs[1].pages[p] = 4 /\ p = Code
                             \/ dirs[1].pages[p] = 5 /\ p = 1
                             \/ dirs[1].pages[p] = 6 /\ p = Stack
         /\ \A u \in UserTables : dirs[1].tables[u] \in {0, 2, 3}
<1>1. NoDir \in Directory /\ 1 \in Dirs /\ {0, 2, 3, 4, 5, 6} \subseteq 0 .. Frames
      /\ Code # 1 /\ Code # Stack /\ 1 # Stack
  BY ConstantFacts, NoDirType
<1> DEFINE tables == [u \in UserTables |-> IF u = TableOf(Code) THEN 2
                                          ELSE IF u = TableOf(Stack) THEN 3 ELSE 0]
           pages == [p \in Pages |-> IF p = Code THEN 4 ELSE IF p = 1 THEN 5
                                     ELSE IF p = Stack THEN 6 ELSE 0]
           first == [kernel |-> NoDir.kernel, tables |-> tables, pages |-> pages]
<1>2. dirs = [d \in Dirs |-> IF d # 1 THEN NoDir ELSE first] /\ next = 6 /\ made = 1
  BY Zenon DEF Init
<1>3. tables \in [UserTables -> 0 .. Frames] /\ \A u \in UserTables : tables[u] \in {0, 2, 3}
  BY <1>1
<1>4. pages \in [Pages -> 0 .. Frames]
      /\ \A p \in Pages : \/ pages[p] = 0 /\ p \notin {Code, 1, Stack}
                          \/ pages[p] = 4 /\ p = Code
                          \/ pages[p] = 5 /\ p = 1
                          \/ pages[p] = 6 /\ p = Stack
  BY <1>1
<1> HIDE DEF tables, pages
<1>5. first \in Directory /\ first.kernel = NoDir.kernel /\ first.tables = tables
      /\ first.pages = pages
  BY <1>1, <1>3, <1>4 DEF Directory
<1> HIDE DEF first
<1>6. dirs \in [Dirs -> Directory] /\ dirs[1] = first
      /\ \A d \in Dirs : d # 1 => dirs[d] = NoDir
  BY <1>1, <1>2, <1>5
<1>7. \A p \in Pages : pages[p] \in 0 .. Frames
  BY <1>4
<1> QED
  BY <1>1, <1>2, <1>3, <1>4, <1>5, <1>6, <1>7, Zenon

LEMMA InitInv ==
  ASSUME ConstantsOK, Init
  PROVE  Inv
<1>1. TypeOK
  <2>1. /\ next \in 0 .. Frames /\ made \in 1 .. MaxDirs /\ cr3 \in 0 .. made
        /\ current \in Tasks /\ failed \in BOOLEAN /\ pd \in [Tasks -> 0 .. made]
    <3>1. /\ next = 6 /\ made = 1 /\ cr3 = 1 /\ current = Init1 /\ failed = FALSE
          /\ pd = [t \in Tasks |-> IF t = Init1 THEN 1 ELSE 0]
      BY Zenon DEF Init
    <3>2. next \in 0 .. Frames /\ made \in 1 .. MaxDirs /\ cr3 \in 0 .. made
      BY <3>1, ConstantFacts
    <3>3. pd \in [Tasks -> 0 .. made]
      BY <3>1
    <3> QED
      BY <3>1, <3>2, <3>3, ConstantFacts
  <2>2. {[brk |-> 1, mapped |-> 2], NoHeap}
          \subseteq [brk : 1 .. HeapPages + 1, mapped : 1 .. HeapPages + 1]
    BY ConstantFacts DEF NoHeap
  <2>3. heap \in [Tasks -> [brk : 1 .. HeapPages + 1, mapped : 1 .. HeapPages + 1]]
    BY <2>2 DEF Init
  <2>4. job \in Jobs
    BY DEF Init, Jobs
  <2> QED
    BY <2>1, <2>3, <2>4, InitDirs DEF TypeOK
<1>2. /\ \A d \in Dirs, p \in Pages : d # 1 => dirs[d].pages[p] = 0
      /\ \A d \in Dirs, u \in UserTables : dirs[d].tables[u] \in {0, 2, 3}
      /\ \A d \in Dirs, k \in KernelTables : dirs[d].kernel[k] = 0
  <2>1. /\ \A p \in Pages : NoDir.pages[p] = 0
        /\ \A u \in UserTables : NoDir.tables[u] = 0
        /\ \A k \in KernelTables : NoDir.kernel[k] = 0
    BY DEF NoDir
  <2> QED
    BY <2>1, InitDirs
<1>3. \A p \in Pages : \/ dirs[1].pages[p] = 0
                       \/ dirs[1].pages[p] = 4 /\ p = Code
                       \/ dirs[1].pages[p] = 5 /\ p = 1
                       \/ dirs[1].pages[p] = 6 /\ p = Stack
  BY InitDirs, Zenon
<1>4. Taken
  BY <1>2, <1>3, InitDirs DEF Taken
<1>5. Once
  BY <1>2, <1>3 DEF Once
<1>6. NoTable
  <2>1. 0 \in Dirs
    BY ConstantFacts
  <2>2. \A d \in Dirs, p \in Pages : dirs[d].pages[p] # 0 => dirs[d].pages[p] \in {4, 5, 6}
    BY <1>2, <1>3
  <2> QED
    BY <1>2, <2>1, <2>2 DEF NoTable
<1>7. Own
  BY JobKinds, <1>1, ConstantFacts DEF Own, Alive, Init, NoJob
<1> QED
  BY <1>1, <1>4, <1>5, <1>6, <1>7 DEF Inv, FramesInv

LEMMA InvNext ==
  ASSUME ConstantsOK, Inv, [Next]_vars
  PROVE  Inv'
<1>1. CASE Next
  <2>1. Step
    BY <1>1, NextStep DEF Inv
  <2>2. FramesInv' /\ dirs' \in [Dirs -> Directory] /\ next' \in 0 .. Frames
    BY <2>1, ShapeKeeps DEF Inv, Step
  <2>3. TypeOK'
    BY <2>1, <2>2 DEF Step, Rest, TypeOK
  <2> QED
    BY <2>1, <2>2, <2>3 DEF Step, Inv
<1>2. CASE UNCHANGED vars
  BY <1>2 DEF vars, Inv, TypeOK, FramesInv, Taken, Once, NoTable, Own, Alive
<1> QED
  BY <1>1, <1>2

\* The variables of the memory model keep to their types.
THEOREM TypeCorrect == ASSUME ConstantsOK PROVE Spec => []TypeOK
<1>1. Init => Inv
  BY InitInv
<1>2. Inv /\ [Next]_vars => Inv'
  BY InvNext
<1>3. Inv => TypeOK
  BY DEF Inv
<1> QED
  BY <1>1, <1>2, <1>3, PTL DEF Spec

\* Tasks are isolated: no frame comes to be at two pages, of one task or of
\* two, nor is a frame of a program a page table, whatever forks, execves and
\* growing heaps do and wherever they fail (memory.c, task.c, syscalls.c).
THEOREM IsolatedCorrect == ASSUME ConstantsOK PROVE Spec => []Isolated
<1>1. Init => Inv
  BY InitInv
<1>2. Inv /\ [Next]_vars => Inv'
  BY InvNext
<1>3. Inv => Isolated
  <2> SUFFICES ASSUME Inv PROVE Isolated
    OBVIOUS
  <2>1. \A t \in Alive : t \in Tasks /\ pd[t] \in Dirs
    BY Numbers DEF Inv, Alive
  <2>2. \A t, u \in Alive : t # u => pd[t] # pd[u]
    BY DEF Inv, Own
  <2>3. \A t, u \in Alive : \A p \in Mapped(pd[t]), q \in Mapped(pd[u]) :
          dirs[pd[t]].pages[p] = dirs[pd[u]].pages[q] => <<t, p>> = <<u, q>>
    BY <2>1, <2>2 DEF Inv, FramesInv, Once, Mapped
  <2>4. \A t, u \in Alive : \A p \in Mapped(pd[t]) :
          /\ \A v \in UserTables : dirs[pd[t]].pages[p] # dirs[pd[u]].tables[v]
          /\ \A k \in KernelTables : dirs[pd[t]].pages[p] # dirs[0].kernel[k]
    BY <2>1, Zenon DEF Inv, FramesInv, NoTable, Mapped
  <2> QED
    BY <2>2, <2>3, <2>4 DEF Isolated
<1> QED
  BY <1>1, <1>2, <1>3, PTL DEF Spec

-----------------------------------------------------------------------------
(* The kernel's half: every directory made has that of initial_page_dir, and
   initial_page_dir is left in use only when no frame is left.               *)

KernelInv ==
  /\ \A d \in Dirs : d <= made => dirs[d].kernel = dirs[0].kernel
  /\ cr3 = 0 => next = Frames

\* What a step does to the kernel's half.
Kernels ==
  /\ \/ made' = made /\ \A d \in Dirs : dirs'[d].kernel = dirs[d].kernel
     \/ Making
     \/ made' = made /\ cr3 # 0 /\ \E k \in KernelTables : Sharing(k)
  /\ cr3' = 0 => next' = Frames

LEMMA MapKernels ==
  ASSUME ConstantsOK, TypeOK, made' = made, cr3 = 0 => next = Frames,
         cr3' = cr3 \/ cr3' # 0,
         UNCHANGED <<next, dirs>> \/ \E d \in Dirs, p \in Pages : MapNew(d, p)
  PROVE  Kernels
<1>1. next \in Nat /\ next <= Frames /\ Frames \in Nat
  BY Numbers, ConstantFacts
<1>2. CASE UNCHANGED <<next, dirs>>
  BY <1>2 DEF Kernels
<1>3. CASE \E d \in Dirs, p \in Pages : MapNew(d, p)
  <2>1. Losing \/ \E d \in Dirs, p \in Pages : Mapping(d, p)
    BY <1>3, MapNewKinds
  <2>2. \A d \in Dirs : dirs'[d].kernel = dirs[d].kernel
    BY <2>1 DEF Losing, Mapping
  <2>3. next' \in Nat /\ next' <= Frames /\ next <= next'
    BY <1>1, <2>1 DEF Losing, Mapping
  <2>4. cr3' = 0 => next' = Frames
    BY <1>1, <2>3
  <2> QED
    BY <2>2, <2>4 DEF Kernels
<1> QED
  BY <1>2, <1>3

LEMMA NextKernels ==
  ASSUME ConstantsOK, TypeOK, Own, KernelInv, Next
  PROVE  Kernels
<1>1. /\ next \in Nat /\ next <= Frames /\ Frames \in Nat /\ made \in Nat
      /\ cr3 \in Dirs /\ made \in Dirs /\ 1 \in Pages /\ Code \in Pages /\ Stack \in Pages
      /\ pd[current] # 0 /\ (cr3 = 0 => next = Frames)
  BY Numbers, ConstantFacts DEF Own, Alive, KernelInv
<1>2. ASSUME NEW k \in KernelTables, KernelGrows(k) PROVE Kernels
  <2>1. made' = made /\ Left > 0
    BY <1>2 DEF KernelGrows
  <2>2. cr3 # 0
    BY <1>1, <2>1 DEF Left
  <2>3. CASE Left > 1
    BY <1>2, <2>1, <2>2, <2>3, GrowsShape DEF Kernels
  <2>4. CASE ~(Left > 1)
    <3>1. Losing /\ next' = Frames
      BY <1>2, <2>4, GrowsShape
    <3> QED
      BY <2>1, <3>1 DEF Kernels, Losing
  <2> QED
    BY <2>3, <2>4
<1>3. ASSUME NEW t \in Tasks, Switch(t) \/ Exit(t) PROVE Kernels
  <2>1. UNCHANGED <<next, dirs, made>> /\ cr3' # 0
    BY <1>3 DEF Switch, Exit, Alive
  <2> QED
    BY <2>1 DEF Kernels
<1>4. ASSUME Exec \/ \E t \in Tasks : Fork(t) PROVE Kernels
  <2>1. MakeDir /\ (cr3' = cr3 \/ cr3' = made + 1)
    BY <1>4 DEF Exec, Fork
  <2>2. cr3' # 0
    <3>1. Left > 0
      BY <2>1 DEF MakeDir
    <3>2. cr3 # 0
      BY <1>1, <3>1 DEF Left
    <3> QED
      BY <1>1, <2>1, <3>2
  <2> QED
    BY <2>1, <2>2, MakeDirShape DEF Kernels
<1>5. ASSUME NEW pages \in 1 .. HeapPages + 1, Brk(pages) PROVE Kernels
  <2>1. UNCHANGED <<next, dirs, made, cr3>>
    BY <1>5 DEF Brk
  <2> QED
    BY <1>1, <2>1 DEF Kernels
<1>6. ASSUME BrkPage PROVE Kernels
  <2>1. job.page \in Pages /\ made' = made /\ cr3' = cr3
    BY <1>6, BrkAt DEF BrkPage
  <2>2. MapNew(cr3, job.page) \/ UNCHANGED <<next, dirs>>
    BY <1>6, Zenon DEF BrkPage
  <2> QED
    BY <1>1, <2>1, <2>2, MapKernels
<1>7. ASSUME BrkDone \/ ForkDone PROVE Kernels
  <2>1. UNCHANGED <<next, dirs, made, cr3>>
    BY <1>7 DEF BrkDone, ForkDone
  <2> QED
    BY <1>1, <2>1 DEF Kernels
<1>8. ASSUME ForkPage PROVE Kernels
  <2>1. PICK p \in (IF job.op = "fork" THEN job.todo ELSE {}) :
          /\ IF Left < Needs(made, p)
             THEN next' = Frames /\ job' = NoJob /\ UNCHANGED dirs
             ELSE MapNew(made, p) /\ job' = [job EXCEPT !.todo = @ \ {p}]
          /\ UNCHANGED <<made, cr3>>
    BY <1>8 DEF ForkPage
  <2>2. p \in Pages
    BY <2>1, JobKinds DEF ForkJobs
  <2>3. CASE next' = Frames /\ dirs' = dirs
    BY <2>1, <2>3 DEF Kernels
  <2>4. CASE MapNew(made, p)
    BY <1>1, <2>1, <2>2, <2>4, MapKernels
  <2> QED
    BY <2>1, <2>3, <2>4, Zenon
<1>9. ASSUME NEW p \in {Stack, Code}, ExecPage(p) PROVE Kernels
  <2>1. /\ made' = made /\ p \in Pages /\ (cr3' = cr3 \/ cr3' = pd[current])
        /\ MapNew(cr3, p) \/ UNCHANGED <<next, dirs>>
    BY <1>1, <1>9, Zenon DEF ExecPage
  <2> QED
    BY <1>1, <2>1, MapKernels
<1>10. ASSUME ExecDone PROVE Kernels
  <2>1. /\ made' = made
        /\ \/ MapNew(cr3, 1) /\ cr3' = cr3
           \/ UNCHANGED <<next, dirs>> /\ cr3' = pd[current]
    BY <1>10, Zenon DEF ExecDone
  <2> QED
    BY <1>1, <2>1, MapKernels
<1> QED
  BY <1>2, <1>3, <1>4, <1>5, <1>6, <1>7, <1>8, <1>9, <1>10, Zenon DEF Next

LEMMA KernelsKeep ==
  ASSUME ConstantsOK, TypeOK, KernelInv, Kernels, MaxDirs <= MaxActive
  PROVE  KernelInv'
<1>1. /\ made \in Nat /\ 0 \in Dirs /\ made <= MaxDirs /\ made <= MaxActive
      /\ \A d \in Dirs : d \in Nat
      /\ \A d \in Dirs : d <= made => dirs[d].kernel = dirs[0].kernel
  BY Numbers, ConstantFacts DEF KernelInv
<1>2. \A d \in Dirs : d <= made' => dirs'[d].kernel = dirs'[0].kernel
  <2>1. CASE made' = made /\ \A d \in Dirs : dirs'[d].kernel = dirs[d].kernel
    BY <1>1, <2>1
  <2>2. CASE Making
    <3>1. /\ made' = made + 1 /\ dirs'[made'].kernel = dirs[0].kernel
          /\ \A d \in Dirs : d # made' => dirs'[d] = dirs[d]
      BY <2>2 DEF Making
    <3>2. dirs'[0] = dirs[0]
      BY <1>1, <3>1
    <3> TAKE d \in Dirs
    <3>3. CASE d = made'
      BY <3>1, <3>2, <3>3
    <3>4. CASE d # made'
      BY <1>1, <3>1, <3>2, <3>4
    <3> QED
      BY <3>3, <3>4
  <2>3. CASE made' = made /\ cr3 # 0 /\ \E k \in KernelTables : Sharing(k)
    <3>1. \A d \in Active : dirs'[d].kernel = dirs'[0].kernel
      BY <2>3 DEF Sharing
    <3>2. \A d \in Dirs : d # 0 /\ d <= made => d \in Active
      BY <1>1, ConstantFacts DEF Active
    <3> QED
      BY <2>3, <3>1, <3>2
  <2> QED
    BY <2>1, <2>2, <2>3 DEF Kernels
<1> QED
  BY <1>2 DEF KernelInv, Kernels

\* Whichever task runs and whichever call is at work, the directory in use has
\* all the kernel's page tables, while active_pagedirs holds every directory
\* (memory_sync_pagedirs, memory_create_user_pagedir).
THEOREM KernelCorrect ==
  ASSUME ConstantsOK, MaxDirs <= MaxActive
  PROVE  Spec => []KernelShared
<1>1. Init => Inv /\ KernelInv
  <2> SUFFICES ASSUME Init PROVE Inv /\ KernelInv
    OBVIOUS
  <2>1. /\ \A d \in Dirs : d # 1 => dirs[d] = NoDir
        /\ dirs[1].kernel = NoDir.kernel /\ cr3 = 1 /\ 0 \in Dirs
    BY InitDirs, ConstantFacts DEF Init
  <2> QED
    BY <2>1, InitInv DEF KernelInv
<1>2. Inv /\ KernelInv /\ [Next]_vars => Inv' /\ KernelInv'
  <2> SUFFICES ASSUME Inv, KernelInv, [Next]_vars PROVE Inv' /\ KernelInv'
    OBVIOUS
  <2>1. CASE Next
    BY <2>1, InvNext, NextKernels, KernelsKeep DEF Inv
  <2>2. CASE UNCHANGED vars
    BY <2>2, InvNext DEF vars, KernelInv
  <2> QED
    BY <2>1, <2>2
<1>3. Inv /\ KernelInv => KernelShared
  BY Numbers DEF Inv, KernelInv, KernelShared
<1> QED
  BY <1>1, <1>2, <1>3, PTL DEF Spec

-----------------------------------------------------------------------------
(* What sys_brk has granted: unless a failure went unnoticed, the pages up to
   heap_mapped_end are there, and so are those that a job has got to.        *)

Backed(t) ==
  /\ heap[t].brk <= heap[t].mapped
  /\ \A p \in 1 .. heap[t].mapped - 1 : dirs[pd[t]].pages[p] # 0

HeapInv ==
  /\ \A t \in Alive : Backed(t)
  /\ job.op # "exec" => cr3 = pd[current]
  /\ job.op = "brk" => \A p \in 1 .. job.page - 1 : dirs[cr3].pages[p] # 0
  /\ job.op = "fork" => \A p \in Pages \ job.todo :
       dirs[cr3].pages[p] # 0 => dirs[made].pages[p] # 0

\* The pages that heaps can have.
LEMMA HeapPage ==
  ASSUME ConstantsOK, TypeOK
  PROVE  /\ \A t \in Tasks : /\ heap[t].brk \in Nat /\ heap[t].mapped \in Nat
                             /\ 1 .. heap[t].mapped - 1 \subseteq Pages
         /\ job.op = "brk" => 1 .. job.page - 1 \subseteq Pages /\ job.page \in Nat
<1>1. \A t \in Tasks : heap[t].brk \in 1 .. HeapPages + 1 /\ heap[t].mapped \in 1 .. HeapPages + 1
  BY DEF TypeOK
<1>2. job.op = "brk" => job.page \in 1 .. Stack
  BY JobKinds DEF BrkJobs
<1> QED
  BY <1>1, <1>2, ConstantFacts

\* A page that is mapped stays mapped.
Keeping == \A d \in Dirs, p \in Pages : d <= made /\ dirs[d].pages[p] # 0 => dirs'[d].pages[p] # 0

LEMMA ShapeKeeping ==
  ASSUME ConstantsOK, TypeOK, Shape
  PROVE  Keeping
<1> SUFFICES ASSUME NEW d \in Dirs, NEW p \in Pages, d <= made, dirs[d].pages[p] # 0
             PROVE  dirs'[d].pages[p] # 0
  BY DEF Keeping
<1>1. next \in Nat /\ made \in Nat /\ d \in Nat
  BY Numbers, ConstantFacts
<1>2. ASSUME NEW e \in Dirs, NEW q \in Pages, Mapping(e, q) PROVE dirs'[d].pages[p] # 0
  <2>1. dirs'[d].pages[p] = next + 1 \/ dirs'[d].pages[p] = dirs[d].pages[p]
    BY <1>2, Zenon DEF Mapping
  <2> QED
    BY <1>1, <2>1
<1>3. ASSUME Losing PROVE dirs'[d].pages[p] # 0
  BY <1>3 DEF Losing
<1>4. ASSUME Making PROVE dirs'[d].pages[p] # 0
  <2>1. made' # d
    BY <1>1, <1>4 DEF Making
  <2> QED
    BY <1>4, <2>1 DEF Making
<1>5. ASSUME NEW k \in KernelTables, Sharing(k) PROVE dirs'[d].pages[p] # 0
  BY <1>5 DEF Sharing
<1> QED
  BY <1>2, <1>3, <1>4, <1>5 DEF Shape

\* A heap keeps what it has while its task keeps its directory.
LEMMA BackedKeeps ==
  ASSUME ConstantsOK, TypeOK, Keeping, NEW t \in Tasks, Backed(t), pd'[t] = pd[t],
         heap'[t].mapped = heap[t].mapped, heap'[t].brk <= heap[t].mapped
  PROVE  Backed(t)'
<1>1. pd[t] \in Dirs /\ pd[t] <= made
  BY Numbers
<1>2. 1 .. heap[t].mapped - 1 \subseteq Pages
  BY HeapPage
<1>3. \A p \in 1 .. heap[t].mapped - 1 : dirs'[pd[t]].pages[p] # 0
  BY <1>1, <1>2 DEF Backed, Keeping
<1> QED
  BY <1>3 DEF Backed

\* So all tasks do, when neither directories nor heaps change.
LEMMA AllBacked ==
  ASSUME ConstantsOK, TypeOK, Keeping, \A t \in Alive : Backed(t), UNCHANGED <<pd, heap>>
  PROVE  \A t \in Alive' : Backed(t)'
<1> SUFFICES ASSUME NEW t \in Alive' PROVE Backed(t)'
  OBVIOUS
<1>1. t \in Tasks /\ Backed(t) /\ pd'[t] = pd[t] /\ heap'[t] = heap[t]
  BY DEF Alive
<1>2. heap[t].brk <= heap[t].mapped
  BY <1>1 DEF Backed
<1> QED
  BY <1>1, <1>2, BackedKeeps

\* The steps that only change who runs.
LEMMA RunsKeeps ==
  ASSUME ConstantsOK, Inv, HeapInv, NEW t \in Tasks, Switch(t) \/ Exit(t)
  PROVE  HeapInv'
<1>1. /\ UNCHANGED <<next, dirs, made, job>> /\ current' = t /\ cr3' = pd[t]
      /\ t \in Alive \ {current} /\ job.op = "none" /\ current \in Tasks
      /\ \A u \in Tasks : pd'[u] # 0 => pd'[u] = pd[u] /\ heap'[u] = heap[u]
      /\ pd'[t] = pd[t]
  <2>1. CASE Switch(t)
    BY <2>1, JobKinds DEF Switch, InUser, Inv, TypeOK
  <2>2. CASE Exit(t)
    <3>1. /\ UNCHANGED <<next, dirs, made, job>> /\ current' = t /\ cr3' = pd[t]
          /\ t \in Alive \ {current} /\ job.op = "none" /\ current \in Tasks
          /\ pd' = [pd EXCEPT ![current] = 0]
          /\ heap' = [heap EXCEPT ![current] = NoHeap]
          /\ pd = [u \in Tasks |-> pd[u]] /\ heap = [u \in Tasks |-> heap[u]]
      BY <2>2, JobKinds DEF Exit, InUser, Inv, TypeOK
    <3>2. \A u \in Tasks : /\ pd'[u] = (IF u = current THEN 0 ELSE pd[u])
                          /\ u # current => heap'[u] = heap[u]
      BY <3>1
    <3> QED
      BY <3>1, <3>2
  <2> QED
    BY <2>1, <2>2
<1>2. \A u \in Alive' : Backed(u)'
  BY <1>1 DEF HeapInv, Alive, Backed
<1> QED
  BY <1>1, <1>2 DEF HeapInv

LEMMA BrkKeeps ==
  ASSUME ConstantsOK, Inv, HeapInv, NEW pages \in 1 .. HeapPages + 1, Brk(pages)
  PROVE  HeapInv'
<1>1. UNCHANGED <<next, dirs, made, cr3, current, pd>> /\ job.op = "none" /\ Losing
      /\ cr3 = pd[current] /\ current \in Alive /\ current \in Tasks
  BY Still, JobKinds DEF Brk, InUser, Inv, Own, HeapInv, Alive
<1>2. Keeping
  BY <1>1, ShapeKeeping DEF Shape, Inv
<1>3. CASE pages <= heap[current].mapped
  <2>1. heap' = [heap EXCEPT ![current].brk = pages] /\ job' = job
    BY <1>3, Zenon DEF Brk
  <2>2. \A t \in Tasks : /\ heap'[t].mapped = heap[t].mapped
                        /\ heap'[t].brk = IF t = current THEN pages ELSE heap[t].brk
    BY <1>1, <2>1 DEF Inv, TypeOK
  <2>3. ASSUME NEW t \in Alive' PROVE Backed(t)'
    <3>1. t \in Tasks /\ Backed(t) /\ pd'[t] = pd[t]
      BY <1>1, <2>3 DEF Alive, HeapInv
    <3>2. heap'[t].brk <= heap[t].mapped
      BY <1>3, <2>2, <3>1 DEF Backed
    <3> QED
      BY <1>2, <2>2, <3>1, <3>2, BackedKeeps DEF Inv
  <2> QED
    BY <1>1, <2>1, <2>3 DEF HeapInv
<1>4. CASE ~(pages <= heap[current].mapped)
  <2>1. job' = [op |-> "brk", page |-> heap[current].mapped, end |-> pages] /\ heap' = heap
    BY <1>4, Zenon DEF Brk
  <2>2. \A t \in Alive' : Backed(t)'
    BY <1>1, <1>2, <2>1, AllBacked DEF HeapInv, Inv
  <2>3. job'.op = "brk" /\ job'.page = heap[current].mapped
    BY <2>1
  <2>4. \A p \in 1 .. heap[current].mapped - 1 : dirs[pd[current]].pages[p] # 0
    BY <1>1 DEF HeapInv, Backed
  <2> QED
    BY <1>1, <2>2, <2>3, <2>4 DEF HeapInv
<1> QED
  BY <1>3, <1>4

LEMMA BrkPageKeeps ==
  ASSUME ConstantsOK, Inv, HeapInv, BrkPage, ~failed'
  PROVE  HeapInv'
<1>1. /\ job.op = "brk" /\ job.page < job.end /\ cr3 = pd[current]
      /\ UNCHANGED <<made, cr3, current, pd, heap>>
      /\ ~(dirs[cr3].pages[job.page] = 0 /\ Left = 1 /\ Needs(cr3, job.page) = 2)
      /\ job.page \in Pages /\ job.page \in Nat /\ job.page >= 1 /\ cr3 \in Dirs /\ cr3 <= made
      /\ Left \in Nat /\ Needs(cr3, job.page) \in {1, 2} /\ next \in Nat
  <2>1. /\ job.op = "brk" /\ job.page < job.end /\ UNCHANGED <<made, cr3, current, pd, heap>>
        /\ ~(dirs[cr3].pages[job.page] = 0 /\ Left = 1 /\ Needs(cr3, job.page) = 2)
    BY DEF BrkPage
  <2>2. /\ job.page \in Pages /\ job.page \in Nat /\ job.page >= 1
        /\ cr3 \in Dirs /\ cr3 <= made /\ next \in Nat
    BY <2>1, BrkAt, Numbers DEF Inv
  <2>3. cr3 = pd[current]
    BY <2>1 DEF HeapInv
  <2>4. Left \in Nat /\ Needs(cr3, job.page) \in {1, 2}
    BY Numbers, ConstantFacts DEF Inv, Left, Needs
  <2> QED
    BY <2>1, <2>2, <2>3, <2>4
<1>2. Shape
  <2>1. Step
    BY BrkPageStep DEF Inv
  <2> QED
    BY <2>1 DEF Step
<1>3. Keeping
  BY <1>2, ShapeKeeping DEF Inv
<1>4. \A t \in Alive' : Backed(t)'
  BY <1>1, <1>3, AllBacked DEF HeapInv, Inv
<1>5. CASE dirs[cr3].pages[job.page] = 0 /\ Left = 0
  <2>1. job' = NoJob
    BY <1>5, Zenon DEF BrkPage
  <2> QED
    BY <1>1, <1>4, <2>1, JobKinds DEF HeapInv, Inv
<1>6. CASE ~(dirs[cr3].pages[job.page] = 0 /\ Left = 0)
  <2>1. job' = [job EXCEPT !.page = @ + 1]
    BY <1>6, Zenon DEF BrkPage
  <2>2. job' \in BrkJobs /\ job'.op = "brk" /\ job'.page = job.page + 1
    BY <1>1, <2>1, BrkAt, JobKinds DEF Inv
  <2>3. dirs'[cr3].pages[job.page] # 0
    <3>1. CASE dirs[cr3].pages[job.page] # 0
      BY <1>1, <1>3, <3>1 DEF Keeping
    <3>2. CASE dirs[cr3].pages[job.page] = 0
      <4>1. MapNew(cr3, job.page)
        BY <1>6, <3>2, Zenon DEF BrkPage
      <4>2. Left >= Needs(cr3, job.page)
        BY <1>1, <1>6, <3>2
      <4>3. Mapping(cr3, job.page)
        BY <1>1, <4>1, <4>2, MapNewShape DEF Inv
      <4> QED
        BY <1>1, <4>3 DEF Mapping
    <3> QED
      BY <3>1, <3>2
  <2>4. \A p \in 1 .. job.page - 1 : p \in Pages /\ dirs[cr3].pages[p] # 0
    BY <1>1, HeapPage DEF HeapInv, Inv
  <2>5. \A p \in 1 .. job.page - 1 : dirs'[cr3].pages[p] # 0
    BY <1>1, <1>3, <2>4, Zenon DEF Keeping
  <2>6. \A p \in 1 .. job'.page - 1 : p = job.page \/ p \in 1 .. job.page - 1
    BY <1>1, <2>2
  <2>7. \A p \in 1 .. job'.page - 1 : dirs'[cr3'].pages[p] # 0
    BY <1>1, <2>3, <2>5, <2>6, Zenon
  <2> QED
    BY <1>1, <1>4, <2>2, <2>7 DEF HeapInv
<1> QED
  BY <1>5, <1>6

LEMMA BrkDoneKeeps ==
  ASSUME ConstantsOK, Inv, HeapInv, BrkDone
  PROVE  HeapInv'
<1>1. /\ job.op = "brk" /\ job.page = job.end /\ job' = NoJob /\ cr3 = pd[current]
      /\ heap' = [heap EXCEPT ![current] = [brk |-> job.end, mapped |-> job.end]]
      /\ UNCHANGED <<next, dirs, made, cr3, current, pd>> /\ current \in Tasks
      /\ job.page \in Nat
      /\ \A p \in 1 .. job.page - 1 : dirs[cr3].pages[p] # 0
  BY HeapPage DEF BrkDone, HeapInv, Inv, Own, Alive
<1>2. \A t \in Tasks : heap'[t] = IF t = current THEN [brk |-> job.page, mapped |-> job.page]
                                ELSE heap[t]
  BY <1>1 DEF Inv, TypeOK
<1>3. ASSUME NEW t \in Alive' PROVE Backed(t)'
  <2>1. t \in Tasks /\ pd'[t] = pd[t] /\ Backed(t)
    BY <1>1, <1>3 DEF Alive, HeapInv
  <2>2. CASE t = current
    <3>1. heap'[t].brk = job.page /\ heap'[t].mapped = job.page
      BY <1>2, <2>1, <2>2
    <3> QED
      BY <1>1, <2>1, <2>2, <3>1 DEF Backed
  <2>3. CASE t # current
    BY <1>1, <1>2, <2>1, <2>3 DEF Backed
  <2> QED
    BY <2>2, <2>3
<1> QED
  BY <1>1, <1>3, JobKinds DEF HeapInv, Inv

\* fork and execve begin with a directory of their own.
LEMMA BeginKeeps ==
  ASSUME ConstantsOK, Inv, HeapInv, Exec \/ \E c \in Tasks : Fork(c)
  PROVE  HeapInv'
<1>1. Making /\ UNCHANGED <<current, pd, heap>>
  BY MakeDirShape DEF Exec, Fork, Inv
<1>2. Keeping
  BY <1>1, ShapeKeeping DEF Shape, Inv
<1>3. \A t \in Alive' : Backed(t)'
  BY <1>1, <1>2, AllBacked DEF HeapInv, Inv
<1>4. CASE Exec
  <2>1. job' = [op |-> "exec", todo |-> <<Stack, Code>>]
    BY <1>4 DEF Exec
  <2>2. job'.op = "exec"
    BY <2>1
  <2> QED
    BY <1>3, <2>2 DEF HeapInv
<1>5. CASE \E c \in Tasks : Fork(c)
  <2>1. PICK c \in Tasks : Fork(c)
    BY <1>5
  <2>2. job' = [op |-> "fork", child |-> c, todo |-> Mapped(cr3)] /\ cr3' = cr3
        /\ job.op = "none"
    BY <2>1, JobKinds DEF Fork, InUser, Inv
  <2>3. job'.op = "fork" /\ job'.todo = Mapped(cr3)
    BY <2>2
  <2>4. dirs'[cr3] = dirs[cr3] /\ cr3 = pd[current]
    <3>1. cr3 \in Dirs /\ cr3 <= made /\ made \in Nat /\ cr3 \in Nat
      BY Numbers, ConstantFacts DEF Inv
    <3>2. cr3 # made'
      BY <1>1, <3>1 DEF Making
    <3> QED
      BY <1>1, <2>2, <3>1, <3>2 DEF Making, HeapInv
  <2>5. \A p \in Pages \ job'.todo : dirs'[cr3'].pages[p] = 0
    BY <2>2, <2>3, <2>4 DEF Mapped
  <2> QED
    BY <1>1, <1>3, <2>2, <2>3, <2>4, <2>5 DEF HeapInv
<1> QED
  BY <1>4, <1>5

LEMMA ForkPageKeeps ==
  ASSUME ConstantsOK, Inv, HeapInv, ForkPage
  PROVE  HeapInv'
<1>1. Shape
  <2>1. Step
    BY ForkPageStep DEF Inv
  <2> QED
    BY <2>1 DEF Step
<1>2. Keeping
  BY <1>1, ShapeKeeping DEF Inv
<1>3. PICK p \in (IF job.op = "fork" THEN job.todo ELSE {}) :
        /\ IF Left < Needs(made, p)
           THEN next' = Frames /\ job' = NoJob /\ UNCHANGED dirs
           ELSE MapNew(made, p) /\ job' = [job EXCEPT !.todo = @ \ {p}]
        /\ UNCHANGED <<made, cr3, current, pd, heap>>
  BY DEF ForkPage
<1>4. job.op = "fork" /\ job \in ForkJobs /\ p \in job.todo /\ p \in Pages
  BY <1>3, JobKinds DEF ForkJobs, Inv
<1>5. \A t \in Alive' : Backed(t)'
  BY <1>2, <1>3, AllBacked DEF HeapInv, Inv
<1>6. /\ made \in Dirs /\ made <= made /\ cr3 = pd[current] /\ cr3 # made /\ next \in Nat
      /\ Left \in Nat /\ Needs(made, p) \in {1, 2}
  <2>1. cr3 = pd[current] /\ cr3 # made
    BY <1>4 DEF HeapInv, Inv, Own, Alive
  <2> QED
    BY <2>1, Numbers, ConstantFacts DEF Inv, Left, Needs
<1>7. CASE Left < Needs(made, p)
  <2>1. job' = NoJob
    BY <1>3, <1>7, Zenon
  <2> QED
    BY <1>3, <1>5, <1>6, <2>1, JobKinds DEF HeapInv, Inv
<1>8. CASE ~(Left < Needs(made, p))
  <2>1. MapNew(made, p) /\ job' = [job EXCEPT !.todo = @ \ {p}]
    BY <1>3, <1>8, Zenon
  <2>2. Mapping(made, p)
    BY <1>4, <1>6, <1>8, <2>1, MapNewShape DEF Inv
  <2>3. job'.op = "fork" /\ job'.todo = job.todo \ {p}
    BY <1>4, <2>1 DEF ForkJobs
  <2>4. ASSUME NEW q \in Pages \ job'.todo, dirs'[cr3].pages[q] # 0
        PROVE  dirs'[made].pages[q] # 0
    <3>1. CASE q = p
      BY <1>6, <2>2, <3>1 DEF Mapping
    <3>2. CASE q # p
      <4>1. q \in Pages /\ q \notin job.todo /\ cr3 \in Dirs
        BY <2>3, <2>4, <3>2, Numbers DEF Inv
      <4>2. dirs'[cr3].pages[q] = dirs[cr3].pages[q]
        BY <1>6, <2>2, <4>1 DEF Mapping
      <4>3. dirs[made].pages[q] # 0
        BY <1>4, <2>4, <4>1, <4>2 DEF HeapInv
      <4> QED
        BY <1>2, <1>6, <4>1, <4>3 DEF Keeping
    <3> QED
      BY <3>1, <3>2
  <2> QED
    BY <1>3, <1>5, <1>6, <2>3, <2>4 DEF HeapInv
<1> QED
  BY <1>7, <1>8

LEMMA ForkDoneKeeps ==
  ASSUME ConstantsOK, Inv, HeapInv, ForkDone
  PROVE  HeapInv'
<1>1. /\ job.op = "fork" /\ job.todo = {} /\ job' = NoJob
      /\ UNCHANGED <<next, dirs, made, cr3, current>>
      /\ \/ /\ pd' = [pd EXCEPT ![job.child] = made]
            /\ heap' = [heap EXCEPT ![job.child] = heap[current]]
         \/ UNCHANGED <<pd, heap>>
  BY DEF ForkDone
<1>2. /\ job.child \in Tasks /\ current \in Alive /\ current \in Tasks /\ cr3 = pd[current]
      /\ job.child \notin Alive
      /\ \A p \in Pages : dirs[cr3].pages[p] # 0 => dirs[made].pages[p] # 0
  BY <1>1, JobKinds DEF ForkJobs, Inv, Own, Alive, HeapInv
<1>3. CASE UNCHANGED <<pd, heap>>
  <2>1. \A t \in Alive' : Backed(t)'
    BY <1>1, <1>3 DEF HeapInv, Alive, Backed
  <2> QED
    BY <1>1, <1>2, <1>3, <2>1, JobKinds DEF HeapInv, Inv
<1>4. CASE /\ pd' = [pd EXCEPT ![job.child] = made]
           /\ heap' = [heap EXCEPT ![job.child] = heap[current]]
  <2>1. \A t \in Tasks : /\ pd'[t] = IF t = job.child THEN made ELSE pd[t]
                        /\ heap'[t] = IF t = job.child THEN heap[current] ELSE heap[t]
    BY <1>2, <1>4 DEF Inv, TypeOK
  <2>2. ASSUME NEW t \in Alive' PROVE Backed(t)'
    <3>1. t \in Tasks /\ pd'[t] # 0
      BY <2>2 DEF Alive
    <3>2. CASE t = job.child
      <4>1. Backed(current) /\ 1 .. heap[current].mapped - 1 \subseteq Pages
        BY <1>2, HeapPage DEF HeapInv, Inv
      <4>2. \A p \in 1 .. heap[current].mapped - 1 : dirs[made].pages[p] # 0
        BY <1>2, <4>1 DEF Backed
      <4> QED
        BY <1>1, <2>1, <3>1, <3>2, <4>1, <4>2 DEF Backed
    <3>3. CASE t # job.child
      <4>1. t \in Alive /\ pd'[t] = pd[t] /\ heap'[t] = heap[t]
        BY <2>1, <3>1, <3>3 DEF Alive
      <4> QED
        BY <1>1, <4>1 DEF HeapInv, Backed
    <3> QED
      BY <3>2, <3>3
  <2>3. pd'[current'] = pd[current]
    BY <1>1, <1>2, <2>1
  <2> QED
    BY <1>1, <1>2, <2>2, <2>3, JobKinds DEF HeapInv, Inv
<1> QED
  BY <1>1, <1>3, <1>4

LEMMA ExecPageKeeps ==
  ASSUME ConstantsOK, Inv, HeapInv, NEW p \in {Stack, Code}, ExecPage(p)
  PROVE  HeapInv'
<1>1. Shape
  <2>1. Step
    BY ExecPageStep DEF Inv
  <2> QED
    BY <2>1 DEF Step
<1>2. Keeping
  BY <1>1, ShapeKeeping DEF Inv
<1>3. /\ UNCHANGED <<made, current, pd, heap>> /\ job.op = "exec"
      /\ \/ cr3' = pd[current] /\ job' = NoJob
         \/ job' = [job EXCEPT !.todo = Tail(@)]
  BY Zenon DEF ExecPage
<1>4. \A t \in Alive' : Backed(t)'
  BY <1>2, <1>3, AllBacked DEF HeapInv, Inv
<1>5. CASE cr3' = pd[current] /\ job' = NoJob
  BY <1>3, <1>4, <1>5, JobKinds DEF HeapInv, Inv
<1>6. CASE job' = [job EXCEPT !.todo = Tail(@)]
  <2>1. job'.op = "exec"
    BY <1>3, <1>6, Todo DEF ExecJobs, Inv
  <2> QED
    BY <1>4, <2>1 DEF HeapInv
<1> QED
  BY <1>3, <1>5, <1>6

LEMMA ExecDoneKeeps ==
  ASSUME ConstantsOK, Inv, HeapInv, ExecDone, ~failed'
  PROVE  HeapInv'
<1>1. Left > 0
  BY Zenon DEF ExecDone
<1>2. /\ job.op = "exec" /\ job' = NoJob /\ pd' = [pd EXCEPT ![current] = made]
      /\ UNCHANGED <<made, current, cr3>> /\ MapNew(cr3, 1)
      /\ heap' = [heap EXCEPT ![current] = [brk |-> 1, mapped |-> 2]]
      /\ ~(Left < Needs(cr3, 1))
  BY <1>1 DEF ExecDone
<1>3. /\ cr3 = made /\ made \in Dirs /\ current \in Tasks /\ 1 \in Pages /\ next \in Nat
      /\ Left \in Nat /\ Needs(cr3, 1) \in {1, 2}
  BY <1>2, Numbers, ConstantFacts DEF Inv, Own, TypeOK, Left, Needs
<1>4. Mapping(made, 1)
  BY <1>2, <1>3, MapNewShape DEF Inv
<1>5. Keeping
  BY <1>3, <1>4, ShapeKeeping DEF Shape, Inv
<1>6. \A t \in Tasks : /\ pd'[t] = IF t = current THEN made ELSE pd[t]
                      /\ heap'[t] = IF t = current THEN [brk |-> 1, mapped |-> 2] ELSE heap[t]
  BY <1>2, <1>3 DEF Inv, TypeOK
<1>7. ASSUME NEW t \in Alive' PROVE Backed(t)'
  <2>1. t \in Tasks /\ pd'[t] # 0
    BY <1>7 DEF Alive
  <2>2. CASE t = current
    <3>1. heap'[t].brk = 1 /\ heap'[t].mapped = 2 /\ pd'[t] = made
      BY <1>6, <2>1, <2>2
    <3>2. dirs'[made].pages[1] # 0
      BY <1>3, <1>4 DEF Mapping
    <3>3. \A p \in 1 .. heap'[t].mapped - 1 : p = 1
      BY <3>1
    <3> QED
      BY <3>1, <3>2, <3>3 DEF Backed
  <2>3. CASE t # current
    <3>1. t \in Alive /\ pd'[t] = pd[t] /\ heap'[t] = heap[t]
      BY <1>6, <2>1, <2>3 DEF Alive
    <3>2. Backed(t) /\ heap[t].brk <= heap[t].mapped
      BY <3>1 DEF HeapInv, Backed
    <3> QED
      BY <1>5, <2>1, <3>1, <3>2, BackedKeeps DEF Inv
  <2> QED
    BY <2>2, <2>3
<1>8. cr3' = pd'[current']
  BY <1>2, <1>3, <1>6
<1> QED
  BY <1>2, <1>7, <1>8, JobKinds DEF HeapInv, Inv

LEMMA GrowsKeeps ==
  ASSUME ConstantsOK, Inv, HeapInv, NEW k \in KernelTables, KernelGrows(k), ~failed'
  PROVE  HeapInv'
<1>1. Sharing(k) /\ cr3' = cr3
  BY GrowsShape DEF Inv
<1>2. UNCHANGED <<made, current, pd, heap, job>> /\ job.op = "none"
  BY JobKinds DEF KernelGrows, InUser, Inv
<1>3. Keeping
  BY <1>1, ShapeKeeping DEF Shape, Inv
<1>4. \A t \in Alive' : Backed(t)'
  BY <1>2, <1>3, AllBacked DEF HeapInv, Inv
<1> QED
  BY <1>1, <1>2, <1>4 DEF HeapInv

LEMMA HeapNext ==
  ASSUME ConstantsOK, Inv, HeapInv, Next, ~failed'
  PROVE  HeapInv'
<1>1. ASSUME NEW k \in KernelTables, KernelGrows(k) PROVE HeapInv'
  BY <1>1, GrowsKeeps
<1>2. ASSUME NEW t \in Tasks, Switch(t) \/ Exit(t) PROVE HeapInv'
  BY <1>2, RunsKeeps
<1>3. ASSUME Exec \/ \E t \in Tasks : Fork(t) PROVE HeapInv'
  BY <1>3, BeginKeeps
<1>4. ASSUME NEW pages \in 1 .. HeapPages + 1, Brk(pages) PROVE HeapInv'
  BY <1>4, BrkKeeps
<1>5. ASSUME BrkPage \/ BrkDone \/ ForkPage \/ ForkDone \/ ExecDone PROVE HeapInv'
  BY <1>5, BrkPageKeeps, BrkDoneKeeps, ForkPageKeeps, ForkDoneKeeps, ExecDoneKeeps
<1>6. ASSUME NEW p \in {Stack, Code}, ExecPage(p) PROVE HeapInv'
  BY <1>6, ExecPageKeeps
<1> QED
  BY <1>1, <1>2, <1>3, <1>4, <1>5, <1>6, Zenon DEF Next

\* A failure that goes unnoticed stays in the history.
LEMMA FailedStays ==
  ASSUME Next, failed
  PROVE  failed'
BY Zenon DEF Next, KernelGrows, Switch, Exit, Brk, BrkPage, BrkDone, Fork, ForkPage, ForkDone,
   Exec, ExecPage, ExecDone

\* The heap below the break is mapped, in the task's own directory, as long as
\* no failure of memory_map_page has gone unnoticed (sys_brk, task_fork with
\* memory_clone_pagedir, task_execve).
THEOREM HeapCorrect == ASSUME ConstantsOK PROVE Spec => []HeapMapped
<1> DEFINE HInv == Inv /\ (~failed => HeapInv)
<1>1. Init => HInv
  <2> SUFFICES ASSUME Init PROVE HInv
    OBVIOUS
  <2>1. /\ job = NoJob /\ cr3 = 1 /\ current = Init1 /\ Init1 \in Tasks
        /\ pd = [t \in Tasks |-> IF t = Init1 THEN 1 ELSE 0]
        /\ heap = [t \in Tasks |-> IF t = Init1 THEN [brk |-> 1, mapped |-> 2] ELSE NoHeap]
    BY ConstantFacts, Zenon DEF Init
  <2>2. \A t \in Alive : t = Init1 /\ pd[t] = 1 /\ heap[t].brk = 1 /\ heap[t].mapped = 2
    BY <2>1 DEF Alive
  <2>3. dirs[1].pages[1] # 0
    BY InitDirs, ConstantFacts
  <2>4. \A p \in 1 .. 2 - 1 : p = 1
    OBVIOUS
  <2>5. \A t \in Alive : Backed(t)
    BY <2>2, <2>3, <2>4 DEF Backed
  <2>6. job.op = "none" /\ cr3 = pd[current]
    BY <2>1 DEF NoJob
  <2> QED
    BY <2>5, <2>6, InitInv DEF HeapInv
<1>2. HInv /\ [Next]_vars => HInv'
  <2> SUFFICES ASSUME HInv, [Next]_vars PROVE HInv'
    OBVIOUS
  <2>1. CASE Next
    BY <2>1, InvNext, HeapNext, FailedStays
  <2>2. CASE UNCHANGED vars
    <3>1. ~failed => HeapInv'
      BY <2>2 DEF vars, HeapInv, Backed, Alive
    <3> QED
      BY <2>2, <3>1, InvNext DEF vars
  <2> QED
    BY <2>1, <2>2
<1>3. HInv => HeapMapped
  <2> SUFFICES ASSUME HInv, ~failed, NEW t \in Alive
               PROVE  1 .. heap[t].brk - 1 \subseteq Mapped(pd[t])
    BY DEF HeapMapped
  <2>1. Backed(t) /\ t \in Tasks
    BY DEF HeapInv, Alive
  <2>2. /\ heap[t].brk \in Nat /\ heap[t].mapped \in Nat
        /\ 1 .. heap[t].mapped - 1 \subseteq Pages
    BY <2>1, HeapPage DEF Inv
  <2>3. 1 .. heap[t].brk - 1 \subseteq 1 .. heap[t].mapped - 1
    BY <2>1, <2>2 DEF Backed
  <2> QED
    BY <2>1, <2>2, <2>3 DEF Backed, Mapped
<1> QED
  BY <1>1, <1>2, <1>3, PTL DEF Spec
=============================================================================
