---------------------------- MODULE ProcessProofs ----------------------------
(***************************************************************************)
(* Proofs about what the kernel and the library keep for a process.        *)
(* Descriptor tables: for every number of tasks, descriptors, file objects *)
(* and vnodes, whatever allocation fails, each object has one owner and is *)
(* freed once, and the tables of pointers implement private tables of      *)
(* values. The heap of malloc: for every space and every request that is   *)
(* below 2 GiB (Moderate), the blocks are chained and coalesced, and the   *)
(* areas implement those that the callers hold. Paths and mounts: for all  *)
(* of them, and whichever mounts fail, what a call did is what a later     *)
(* walk of its path finds.                                                 *)
(***************************************************************************)
EXTENDS FileTable, Malloc, Vfs,
        FiniteSetTheorems, SequenceTheorems, WellFoundedInduction, TLAPS

(* The descriptor tables.                                                  *)

\* What OneOwner says, descriptor by descriptor.
Points ==
  \A t \in Tasks, fd \in Fds : table[t][fd] # NoFile =>
    file[table[t][fd]] # {} /\ table[t][fd] \notin leaked
Apart ==
  \A t, u \in Tasks, fd, g \in Fds :
    table[t][fd] # NoFile /\ table[u][g] = table[t][fd] => u = t /\ g = fd
Reached ==
  \A o \in Objects : file[o] # {} /\ o \notin leaked =>
    \E t \in Tasks, fd \in Fds : table[t][fd] = o
NothingDead ==
  \A t \in Tasks : state[t] = "none" => \A fd \in Fds : table[t][fd] = NoFile

\* What was leaked is not handed out again.
LeakedHeld == \A o \in leaked : file[o] # {}

\* No position lies behind the end of the file.
InFile ==
  \A o \in Objects : \A d \in file[o] : d.node \in Vnodes => d.position <= size[d.node]

TablesInv == Points /\ Apart /\ Reached /\ NothingDead /\ LeakedHeld

LEMMA OwnerFromInv ==
  ASSUME NoFile \notin Objects, TypeOK, TablesInv
  PROVE  OneOwner
<1>1. \A t \in Tasks, fd \in Fds : fd \in Used(t) <=> table[t][fd] # NoFile
  BY DEF Used
<1>2. \A t \in Tasks, fd \in Fds : fd \in Used(t) =>
        /\ table[t][fd] \notin Unused \cup leaked
        /\ \A u \in Tasks, g \in Fds : table[u][g] = table[t][fd] => u = t /\ g = fd
  BY <1>1 DEF TablesInv, Points, Apart, Unused
<1>3. Objects \subseteq Unused \cup leaked \cup UNION {Owned(t) : t \in Tasks}
  <2> SUFFICES ASSUME NEW o \in Objects, file[o] # {}, o \notin leaked
               PROVE  \E t \in Tasks : o \in Owned(t)
    BY DEF Unused
  <2>1. PICK t \in Tasks, fd \in Fds : table[t][fd] = o
    BY DEF TablesInv, Reached
  <2>2. fd \in Used(t)
    BY <2>1 DEF Used
  <2> QED
    BY <2>1, <2>2 DEF Owned
<1>4. \A t \in Tasks : state[t] = "none" => Used(t) = {}
  BY <1>1 DEF TablesInv, NothingDead, Used
<1> QED
  BY <1>2, <1>3, <1>4 DEF OneOwner

-----------------------------------------------------------------------------
(* The shapes of the steps. *)

\* The descriptors in the domain of new, which were free, get unused objects.
Placed(t, new) ==
  /\ DOMAIN new \subseteq Fds /\ Distinct(new)
  /\ \A fd \in DOMAIN new :
       /\ new[fd] \in Objects /\ file[new[fd]] = {}
       /\ table[t][fd] = NoFile
       /\ table'[t][fd] = new[fd] /\ file'[new[fd]] # {}
  /\ \A fd \in Fds \ DOMAIN new : table'[t][fd] = table[t][fd]
  /\ \A u \in Tasks \ {t} : table'[u] = table[u]
  /\ \A o \in Objects : (\A fd \in DOMAIN new : o # new[fd]) => file'[o] = file[o]
  /\ leaked' = leaked

\* Unused objects are filled, and no descriptor has them.
Lost(new) ==
  /\ \A fd \in DOMAIN new : new[fd] \in Objects /\ file[new[fd]] = {} /\ file'[new[fd]] # {}
  /\ \A o \in Objects : (\A fd \in DOMAIN new : o # new[fd]) => file'[o] = file[o]
  /\ leaked' = leaked \cup {new[fd] : fd \in DOMAIN new}
  /\ table' = table

\* The descriptors fds of t are cleared, and their objects freed.
Cleared(t, fds) ==
  /\ fds \subseteq Fds
  /\ \A fd \in fds : table'[t][fd] = NoFile
  /\ \A fd \in Fds \ fds : table'[t][fd] = table[t][fd]
  /\ \A u \in Tasks \ {t} : table'[u] = table[u]
  /\ \A o \in Objects : file'[o] = IF \E fd \in fds : table[t][fd] = o THEN {} ELSE file[o]
  /\ leaked' = leaked

\* The object of one descriptor changes.
Moved(t, fd) ==
  /\ table[t][fd] \in Objects /\ file'[table[t][fd]] # {}
  /\ \A o \in Objects : o # table[t][fd] => file'[o] = file[o]
  /\ table' = table /\ leaked' = leaked

LEMMA PlacedKeeps ==
  ASSUME NoFile \notin Objects, TypeOK, Points, Apart, Reached, LeakedHeld,
         NEW t \in Tasks, NEW new, Placed(t, new)
  PROVE  Points' /\ Apart' /\ Reached' /\ LeakedHeld'
<1>1. \A u \in Tasks, g \in Fds :
        \/ /\ u = t /\ g \in DOMAIN new
           /\ table[u][g] = NoFile /\ table'[u][g] = new[g]
           /\ new[g] \in Objects /\ file[new[g]] = {} /\ file'[new[g]] # {}
        \/ /\ ~(u = t /\ g \in DOMAIN new)
           /\ table'[u][g] = table[u][g]
  BY Zenon DEF Placed
<1>2. \A u \in Tasks, g \in Fds : table[u][g] # NoFile => table[u][g] \in Objects
  BY DEF TypeOK
<1>3. \A o \in Objects : file[o] # {} => file'[o] = file[o]
  BY Zenon DEF Placed
<1>4. \A o \in leaked : o \in Objects /\ file[o] # {} /\ file'[o] # {}
  BY <1>3, Zenon DEF LeakedHeld, TypeOK
<1>5. leaked' = leaked
  BY DEF Placed
<1>6. Points'
  <2> SUFFICES ASSUME NEW u \in Tasks, NEW g \in Fds, table'[u][g] # NoFile
               PROVE  file'[table'[u][g]] # {} /\ table'[u][g] \notin leaked
    BY <1>5, Zenon DEF Points
  <2>1. CASE u = t /\ g \in DOMAIN new
    <3>1. table'[u][g] = new[g] /\ file[new[g]] = {} /\ file'[new[g]] # {}
      BY <1>1, <2>1, Zenon
    <3> QED
      BY <3>1, <1>4, Zenon
  <2>2. CASE ~(u = t /\ g \in DOMAIN new)
    <3>1. table'[u][g] = table[u][g]
      BY <1>1, <2>2, Zenon
    <3>2. file[table[u][g]] # {} /\ table[u][g] \notin leaked /\ table[u][g] \in Objects
      BY <3>1, <1>2, Zenon DEF Points
    <3> QED
      BY <3>1, <3>2, <1>3, Zenon
  <2> QED
    BY <2>1, <2>2
<1>7. Apart'
  <2> SUFFICES ASSUME NEW u \in Tasks, NEW v \in Tasks, NEW fd \in Fds, NEW g \in Fds,
                      table'[u][fd] # NoFile, table'[v][g] = table'[u][fd]
               PROVE  v = u /\ g = fd
    BY DEF Apart
  <2>1. CASE u = t /\ fd \in DOMAIN new
    <3>1. table'[u][fd] = new[fd] /\ file[new[fd]] = {}
      BY <1>1, <2>1, Zenon
    <3>2. CASE v = t /\ g \in DOMAIN new
      <4>1. new[g] = new[fd]
        BY <1>1, <3>1, <3>2, Zenon
      <4>2. g = fd
        BY <2>1, <3>2, <4>1, Zenon DEF Placed, Distinct
      <4> QED
        BY <2>1, <3>2, <4>2
    <3>3. CASE ~(v = t /\ g \in DOMAIN new)
      <4>1. table[v][g] = new[fd] /\ table[v][g] # NoFile
        BY <1>1, <3>1, <3>3, Zenon
      <4>2. file[table[v][g]] # {}
        BY <4>1, Zenon DEF Points
      <4> QED
        BY <3>1, <4>1, <4>2
    <3> QED
      BY <3>2, <3>3
  <2>2. CASE ~(u = t /\ fd \in DOMAIN new)
    <3>1. table[u][fd] = table'[u][fd]
      BY <1>1, <2>2, Zenon
    <3>2. file[table[u][fd]] # {}
      BY <3>1, Zenon DEF Points
    <3>3. CASE v = t /\ g \in DOMAIN new
      <4>1. table[u][fd] = new[g] /\ file[new[g]] = {}
        BY <1>1, <3>1, <3>3, Zenon
      <4> QED
        BY <3>2, <4>1
    <3>4. CASE ~(v = t /\ g \in DOMAIN new)
      <4>1. table[v][g] = table[u][fd] /\ table[u][fd] # NoFile
        BY <1>1, <3>1, <3>4, Zenon
      <4> QED
        BY <4>1 DEF Apart
    <3> QED
      BY <3>3, <3>4
  <2> QED
    BY <2>1, <2>2
<1>8. Reached'
  <2> SUFFICES ASSUME NEW o \in Objects, file'[o] # {}, o \notin leaked
               PROVE  \E u \in Tasks, g \in Fds : table'[u][g] = o
    BY <1>5, Zenon DEF Reached
  <2>1. CASE \E fd \in DOMAIN new : o = new[fd]
    BY <2>1, <1>1 DEF Placed
  <2>2. CASE \A fd \in DOMAIN new : o # new[fd]
    <3>1. file[o] # {}
      BY <2>2, Zenon DEF Placed
    <3>2. PICK u \in Tasks, g \in Fds : table[u][g] = o
      BY <3>1, Zenon DEF Reached
    <3>3. ~(u = t /\ g \in DOMAIN new)
      BY <3>2, <1>1, Zenon
    <3> QED
      BY <3>2, <3>3, <1>1, Zenon
  <2> QED
    BY <2>1, <2>2
<1>9. LeakedHeld'
  BY <1>4, <1>5, Zenon DEF LeakedHeld
<1> QED
  BY <1>6, <1>7, <1>8, <1>9

LEMMA LostKeeps ==
  ASSUME TypeOK, Points, Apart, Reached, LeakedHeld, NEW new, Lost(new)
  PROVE  Points' /\ Apart' /\ Reached' /\ LeakedHeld'
<1>1. \A u \in Tasks, g \in Fds : table[u][g] # NoFile => table[u][g] \in Objects
  BY DEF TypeOK
<1>2. \A o \in Objects : file[o] # {} => file'[o] = file[o]
  BY Zenon DEF Lost
<1>3. \A o \in leaked : o \in Objects
  BY DEF TypeOK
<1>4. Points'
  <2> SUFFICES ASSUME NEW u \in Tasks, NEW g \in Fds, table[u][g] # NoFile
               PROVE  file'[table[u][g]] # {} /\ table[u][g] \notin leaked'
    BY Zenon DEF Points, Lost
  <2>1. file[table[u][g]] # {} /\ table[u][g] \notin leaked /\ table[u][g] \in Objects
    BY <1>1, Zenon DEF Points
  <2>2. \A fd \in DOMAIN new : new[fd] # table[u][g]
    BY <2>1, Zenon DEF Lost
  <2> QED
    BY <2>1, <2>2, <1>2, Zenon DEF Lost
<1>5. Apart'
  BY DEF Apart, Lost
<1>6. Reached'
  BY DEF Reached, Lost
<1>7. LeakedHeld'
  BY <1>2, <1>3 DEF LeakedHeld, Lost
<1> QED
  BY <1>4, <1>5, <1>6, <1>7

LEMMA ClearedKeeps ==
  ASSUME NoFile \notin Objects, TypeOK, Points, Apart, Reached, LeakedHeld,
         NEW t \in Tasks, NEW fds, Cleared(t, fds)
  PROVE  Points' /\ Apart' /\ Reached' /\ LeakedHeld'
<1>1. \A u \in Tasks, g \in Fds :
        \/ u = t /\ g \in fds /\ table'[u][g] = NoFile
        \/ ~(u = t /\ g \in fds) /\ table'[u][g] = table[u][g]
  BY Zenon DEF Cleared
<1>2. \A u \in Tasks, g \in Fds : table[u][g] # NoFile => table[u][g] \in Objects
  BY DEF TypeOK
<1>3. \A o \in Objects : (\A fd \in fds : table[t][fd] # o) => file'[o] = file[o]
  BY Zenon DEF Cleared
<1>4. \A fd \in fds : fd \in Fds
  BY DEF Cleared
<1>5. leaked' = leaked
  BY DEF Cleared
<1>6. Points'
  <2> SUFFICES ASSUME NEW u \in Tasks, NEW g \in Fds, table'[u][g] # NoFile
               PROVE  file'[table'[u][g]] # {} /\ table'[u][g] \notin leaked
    BY <1>5, Zenon DEF Points
  <2>1. ~(u = t /\ g \in fds) /\ table'[u][g] = table[u][g]
    BY <1>1, Zenon
  <2>2. file[table[u][g]] # {} /\ table[u][g] \notin leaked /\ table[u][g] \in Objects
    BY <2>1, <1>2, Zenon DEF Points
  <2>3. \A fd \in fds : table[t][fd] # table[u][g]
    BY <2>1, <1>4 DEF Apart
  <2> QED
    BY <2>1, <2>2, <2>3, <1>3, Zenon
<1>7. Apart'
  <2> SUFFICES ASSUME NEW u \in Tasks, NEW v \in Tasks, NEW fd \in Fds, NEW g \in Fds,
                      table'[u][fd] # NoFile, table'[v][g] = table'[u][fd]
               PROVE  v = u /\ g = fd
    BY DEF Apart
  <2>1. table[u][fd] = table'[u][fd] /\ table[v][g] = table'[v][g]
    BY <1>1, Zenon
  <2> QED
    BY <2>1 DEF Apart
<1>8. Reached'
  <2> SUFFICES ASSUME NEW o \in Objects, file'[o] # {}, o \notin leaked
               PROVE  \E u \in Tasks, g \in Fds : table'[u][g] = o
    BY <1>5, Zenon DEF Reached
  <2>1. (\A fd \in fds : table[t][fd] # o) /\ file[o] # {}
    BY Zenon DEF Cleared
  <2>2. PICK u \in Tasks, g \in Fds : table[u][g] = o
    BY <2>1, Zenon DEF Reached
  <2> QED
    BY <2>1, <2>2, <1>1, Zenon
<1>9. LeakedHeld'
  <2> SUFFICES ASSUME NEW o \in leaked PROVE file'[o] # {}
    BY <1>5, Zenon DEF LeakedHeld
  <2>1. o \in Objects /\ file[o] # {} /\ o # NoFile
    BY Zenon DEF LeakedHeld, TypeOK
  <2>2. \A fd \in fds : table[t][fd] # o
    BY <2>1, <1>4, Zenon DEF Points
  <2> QED
    BY <2>1, <2>2, <1>3, Zenon
<1> QED
  BY <1>6, <1>7, <1>8, <1>9

LEMMA MovedKeeps ==
  ASSUME TypeOK, Points, Apart, Reached, LeakedHeld, NEW t \in Tasks, NEW fd \in Fds,
         table[t][fd] # NoFile, Moved(t, fd)
  PROVE  Points' /\ Apart' /\ Reached' /\ LeakedHeld'
<1>1. \A o \in Objects : file'[o] # {} <=> file[o] # {}
  BY Zenon DEF Moved, Points
<1>2. table' = table /\ leaked' = leaked
  BY DEF Moved
<1>3. \A u \in Tasks, g \in Fds : table[u][g] # NoFile => table[u][g] \in Objects
  BY DEF TypeOK
<1>4. \A o \in leaked : o \in Objects
  BY DEF TypeOK
<1>5. Points' /\ Apart'
  BY <1>1, <1>2, <1>3 DEF Points, Apart
<1>6. Reached' /\ LeakedHeld'
  BY <1>1, <1>2, <1>4, Zenon DEF Reached, LeakedHeld
<1> QED
  BY <1>5, <1>6

-----------------------------------------------------------------------------
(* What the allocations and the steps do, in these shapes. *)

LEMMA Allocated ==
  ASSUME NEW fds, NEW new \in Allocations(fds)
  PROVE  new \in [fds -> Unused] /\ Distinct(new)
<1>1. CASE \E f \in [fds -> Unused] : Distinct(f)
  <2>1. new = CHOOSE f \in [fds -> Unused] : Distinct(f)
    BY <1>1, Zenon DEF Allocations
  <2> QED
    BY <1>1, <2>1, Zenon
<1>2. CASE ~ \E f \in [fds -> Unused] : Distinct(f)
  BY <1>2, Zenon DEF Allocations
<1> QED
  BY <1>1, <1>2

LEMMA StdioFds == ConstantsOK => 0 .. 2 \subseteq Fds
BY DEF ConstantsOK, Fds

LEMMA StandardType ==
  ASSUME ConstantsOK
  PROVE  /\ Standard \in [0 .. 2 -> Descriptor]
         /\ \A fd \in 0 .. 2 : Standard[fd].position = 0 /\ Standard[fd].append = FALSE
<1>1. \A fd \in 0 .. 2 : Stdio[fd + 1] \in Nodes
  <2> TAKE fd \in 0 .. 2
  <2>1. fd = 0 \/ fd = 1 \/ fd = 2
    OBVIOUS
  <2> QED
    BY <2>1 DEF Stdio, Nodes
<1>2. 0 \in 0 .. MaxSize
  BY DEF ConstantsOK
<1> QED
  BY <1>1, <1>2 DEF Standard, Descriptor

\* A table of file objects.
Files(f) ==
  /\ f \in [Objects -> SUBSET Descriptor]
  /\ \A o \in Objects : \A d, e \in f[o] : d = e

\* The object of a descriptor that is in use has one content.
LEMMA Content ==
  ASSUME ConstantsOK, TypeOK, Points, NEW t \in Tasks, NEW fd \in Used(t)
  PROVE  /\ fd \in Fds /\ table[t][fd] # NoFile /\ table[t][fd] \in Objects
         /\ FileOf(t, fd) \in Descriptor
         /\ file[table[t][fd]] = {FileOf(t, fd)}
<1>1. fd \in Fds /\ table[t][fd] # NoFile
  BY DEF Used
<1>2. table[t][fd] \in Objects
  BY <1>1 DEF TypeOK
<1>3. file[table[t][fd]] # {}
  BY <1>1 DEF Points
<1>4. FileOf(t, fd) \in file[table[t][fd]]
  BY <1>3, Zenon DEF FileOf
<1>5. file[table[t][fd]] \subseteq Descriptor
  BY <1>2 DEF TypeOK
<1>6. \A d, e \in file[table[t][fd]] : d = e
  BY <1>2, Zenon DEF TypeOK
<1>7. file[table[t][fd]] = {FileOf(t, fd)}
  BY <1>4, <1>6, Zenon
<1> QED
  BY <1>1, <1>2, <1>4, <1>5, <1>7

\* The objects of new get the contents.
Filling(fds, new, content) ==
  file' = [o \in Objects |-> IF \E fd \in fds : new[fd] = o
             THEN {content[CHOOSE fd \in fds : new[fd] = o]} ELSE file[o]]
FilledWith(fds, new, content) ==
  /\ Files(file')
  /\ \A fd \in fds : /\ new[fd] \in Objects /\ file[new[fd]] = {}
                     /\ file'[new[fd]] = {content[fd]}
  /\ \A o \in Objects : (\A fd \in fds : o # new[fd]) => file'[o] = file[o]

LEMMA Filled ==
  ASSUME ConstantsOK, TypeOK,
         NEW fds, NEW new \in [fds -> Unused], Distinct(new), NEW content \in [fds -> Descriptor],
         Filling(fds, new, content)
  PROVE  FilledWith(fds, new, content)
<1> USE DEF Filling
<1>1. \A fd \in fds : new[fd] \in Objects /\ file[new[fd]] = {}
  BY DEF Unused
<1>2. \A fd, g \in fds : new[fd] = new[g] => fd = g
  BY Zenon DEF Distinct
<1>3. ASSUME NEW fd \in fds PROVE file'[new[fd]] = {content[fd]}
  <2>1. (CHOOSE g \in fds : new[g] = new[fd]) = fd
    BY <1>2, Zenon
  <2>2. file'[new[fd]] = {content[CHOOSE g \in fds : new[g] = new[fd]]}
    BY <1>1, Zenon
  <2> QED
    BY <2>1, <2>2
<1>4. \A o \in Objects : (\A fd \in fds : o # new[fd]) => file'[o] = file[o]
  BY Zenon
<1>5. \A o \in Objects : /\ file'[o] \subseteq Descriptor
                         /\ \A d, e \in file'[o] : d = e
  <2> TAKE o \in Objects
  <2>1. CASE \E fd \in fds : new[fd] = o
    <3>1. PICK fd \in fds : new[fd] = o
      BY <2>1
    <3>2. file'[o] = {content[fd]} /\ content[fd] \in Descriptor
      BY <1>3, <3>1
    <3> QED
      BY <3>2
  <2>2. CASE ~ \E fd \in fds : new[fd] = o
    <3>1. file'[o] = file[o]
      BY <1>4, <2>2, Zenon
    <3> QED
      BY <3>1 DEF TypeOK
  <2> QED
    BY <2>1, <2>2
<1>6. file' \in [Objects -> SUBSET Descriptor]
  BY <1>5
<1> QED
  BY <1>1, <1>3, <1>4, <1>5, <1>6 DEF Files, FilledWith

\* The descriptors fds of t, which has no others, get new objects with the contents.
PlacedWith(t, fds, new, content) ==
  /\ Placed(t, new) /\ DOMAIN new = fds
  /\ Files(file') /\ table' \in [Tasks -> [Fds -> Objects \cup {NoFile}]]
  /\ \A fd \in fds : file'[new[fd]] = {content[fd]}

LEMMA GetsPlaces ==
  ASSUME ConstantsOK, TypeOK, NEW t \in Tasks, \A fd \in Fds : table[t][fd] = NoFile,
         NEW fds \in SUBSET Fds, NEW new \in Allocations(fds),
         NEW content \in [fds -> Descriptor], Gets(t, new, content), leaked' = leaked
  PROVE  PlacedWith(t, fds, new, content)
<1>1. new \in [fds -> Unused] /\ Distinct(new) /\ DOMAIN new = fds
  BY Allocated
<1>2. Filling(fds, new, content)
  BY <1>1, Zenon DEF Gets, Filling
<1>3. FilledWith(fds, new, content)
  BY <1>1, <1>2, Filled, Zenon
<1> USE DEF FilledWith
<1>4. table' = [table EXCEPT ![t] = [fd \in Fds |-> IF fd \in fds THEN new[fd] ELSE NoFile]]
  BY <1>1 DEF Gets
<1>5. [fd \in Fds |-> IF fd \in fds THEN new[fd] ELSE NoFile] \in [Fds -> Objects \cup {NoFile}]
  BY <1>3
<1>6. table' \in [Tasks -> [Fds -> Objects \cup {NoFile}]]
  BY <1>4, <1>5 DEF TypeOK
<1>7. table'[t] = [fd \in Fds |-> IF fd \in fds THEN new[fd] ELSE NoFile]
  BY <1>4 DEF TypeOK
<1>8. \A u \in Tasks \ {t} : table'[u] = table[u]
  BY <1>4 DEF TypeOK
<1>9. Placed(t, new)
  <2>1. \A fd \in fds : table'[t][fd] = new[fd] /\ table[t][fd] = NoFile /\ file'[new[fd]] # {}
    BY <1>3, <1>7
  <2>2. \A fd \in Fds \ fds : table'[t][fd] = table[t][fd]
    BY <1>7
  <2> QED
    BY <1>1, <1>3, <1>8, <2>1, <2>2 DEF Placed
<1> QED
  BY <1>1, <1>3, <1>6, <1>9, Zenon DEF PlacedWith

-----------------------------------------------------------------------------
(* What the steps do to the values behind the pointers. *)

At(t, fd) == IF table[t][fd] = NoFile THEN {} ELSE file[table[t][fd]]

LEMMA Values == Descriptors = [t \in Tasks |-> [fd \in Fds |-> At(t, fd)]]
BY DEF Descriptors, At

LEMMA ValuesNext == Descriptors' = [t \in Tasks |-> [fd \in Fds |-> At(t, fd)']]
BY DEF Descriptors, At

LEMMA PlacedValues ==
  ASSUME NoFile \notin Objects, TypeOK, Points, NEW t \in Tasks, NEW new, Placed(t, new)
  PROVE  /\ \A u \in Tasks, g \in Fds : u # t \/ g \notin DOMAIN new => At(u, g)' = At(u, g)
         /\ \A g \in DOMAIN new : At(t, g) = {}
         /\ \A g \in DOMAIN new : At(t, g)' = file'[new[g]]
<1>1. ASSUME NEW u \in Tasks, NEW g \in Fds, u # t \/ g \notin DOMAIN new
      PROVE  At(u, g)' = At(u, g)
  <2>1. table'[u][g] = table[u][g]
    BY <1>1, Zenon DEF Placed
  <2>2. CASE table[u][g] = NoFile
    BY <2>1, <2>2, Zenon DEF At
  <2>3. CASE table[u][g] # NoFile
    <3>1. table[u][g] \in Objects
      BY <2>3 DEF TypeOK
    <3>2. file[table[u][g]] # {}
      BY <2>3, Zenon DEF Points
    <3>3. file'[table[u][g]] = file[table[u][g]]
      BY <3>1, <3>2, Zenon DEF Placed
    <3> QED
      BY <2>1, <2>3, <3>3, Zenon DEF At
  <2> QED
    BY <2>2, <2>3
<1>2. \A g \in DOMAIN new : At(t, g) = {}
  BY Zenon DEF Placed, At
<1>3. ASSUME NEW g \in DOMAIN new PROVE At(t, g)' = file'[new[g]]
  <2>1. table'[t][g] = new[g] /\ new[g] # NoFile
    BY DEF Placed
  <2> QED
    BY <2>1, Zenon DEF At
<1> QED
  BY <1>1, <1>2, <1>3

LEMMA LostValues ==
  ASSUME TypeOK, Points, NEW new, Lost(new)
  PROVE  \A u \in Tasks, g \in Fds : At(u, g)' = At(u, g)
<1> TAKE u \in Tasks, g \in Fds
<1>1. table'[u][g] = table[u][g]
  BY Zenon DEF Lost
<1>2. CASE table[u][g] = NoFile
  BY <1>1, <1>2, Zenon DEF At
<1>3. CASE table[u][g] # NoFile
  <2>1. table[u][g] \in Objects
    BY <1>3 DEF TypeOK
  <2>2. file[table[u][g]] # {}
    BY <1>3, Zenon DEF Points
  <2>3. file'[table[u][g]] = file[table[u][g]]
    BY <2>1, <2>2, Zenon DEF Lost
  <2> QED
    BY <1>1, <1>3, <2>3, Zenon DEF At
<1> QED
  BY <1>2, <1>3

LEMMA ClearedValues ==
  ASSUME TypeOK, Apart, NEW t \in Tasks, NEW fds, Cleared(t, fds)
  PROVE  /\ \A u \in Tasks, g \in Fds : u # t \/ g \notin fds => At(u, g)' = At(u, g)
         /\ \A g \in fds : At(t, g)' = {}
<1>1. ASSUME NEW u \in Tasks, NEW g \in Fds, u # t \/ g \notin fds
      PROVE  At(u, g)' = At(u, g)
  <2>1. table'[u][g] = table[u][g]
    BY <1>1, Zenon DEF Cleared
  <2>2. CASE table[u][g] = NoFile
    BY <2>1, <2>2, Zenon DEF At
  <2>3. CASE table[u][g] # NoFile
    <3>1. table[u][g] \in Objects
      BY <2>3 DEF TypeOK
    <3>2. \A fd \in fds : table[t][fd] # table[u][g]
      BY <1>1, <2>3 DEF Apart, Cleared
    <3>3. file'[table[u][g]] = file[table[u][g]]
      BY <3>1, <3>2, Zenon DEF Cleared
    <3> QED
      BY <2>1, <2>3, <3>3, Zenon DEF At
  <2> QED
    BY <2>2, <2>3
<1>2. \A g \in fds : At(t, g)' = {}
  BY Zenon DEF Cleared, At
<1> QED
  BY <1>1, <1>2

LEMMA MovedValues ==
  ASSUME TypeOK, Apart, NEW t \in Tasks, NEW fd \in Fds, table[t][fd] # NoFile, Moved(t, fd)
  PROVE  /\ \A u \in Tasks, g \in Fds : u # t \/ g # fd => At(u, g)' = At(u, g)
         /\ At(t, fd) = file[table[t][fd]] /\ At(t, fd)' = file'[table[t][fd]]
<1>1. ASSUME NEW u \in Tasks, NEW g \in Fds, u # t \/ g # fd
      PROVE  At(u, g)' = At(u, g)
  <2>1. table'[u][g] = table[u][g]
    BY Zenon DEF Moved
  <2>2. CASE table[u][g] = NoFile
    BY <2>1, <2>2, Zenon DEF At
  <2>3. CASE table[u][g] # NoFile
    <3>1. table[u][g] \in Objects
      BY <2>3 DEF TypeOK
    <3>2. table[t][fd] # table[u][g]
      BY <1>1, <2>3 DEF Apart
    <3>3. file'[table[u][g]] = file[table[u][g]]
      BY <3>1, <3>2, Zenon DEF Moved
    <3> QED
      BY <2>1, <2>3, <3>3, Zenon DEF At
  <2> QED
    BY <2>2, <2>3
<1>2. At(t, fd) = file[table[t][fd]] /\ At(t, fd)' = file'[table[t][fd]]
  BY Zenon DEF Moved, At
<1> QED
  BY <1>1, <1>2

LEMMA Stutters ==
  ASSUME \A u \in Tasks, g \in Fds : At(u, g)' = At(u, g)
  PROVE  UNCHANGED Descriptors
<1>1. \A u \in Tasks : [g \in Fds |-> At(u, g)'] = [g \in Fds |-> At(u, g)]
  BY Zenon
<1>2. [u \in Tasks |-> [g \in Fds |-> At(u, g)']] = [u \in Tasks |-> [g \in Fds |-> At(u, g)]]
  BY <1>1, Zenon
<1> QED
  BY <1>2, Values, ValuesNext, Zenon

-----------------------------------------------------------------------------
(* The steps, action by action: each keeps the invariant, and is a step of the
   private tables or changes none of their values.                           *)

Inv == TypeOK /\ TablesInv /\ InFile
Implements == Private!Next \/ UNCHANGED Descriptors

LEMMA OneByOne ==
  /\ \A u \in Tasks : Descriptors[u] = [g \in Fds |-> At(u, g)]
  /\ \A u \in Tasks : Descriptors'[u] = [g \in Fds |-> At(u, g)']
  /\ \A u \in Tasks, g \in Fds : Descriptors[u][g] = At(u, g) /\ Descriptors'[u][g] = At(u, g)'
BY Values, ValuesNext

\* A task that is not there has nothing.
LEMMA NoneThere ==
  ASSUME Inv, NEW t \in Tasks, state[t] = "none"
  PROVE  /\ \A fd \in Fds : table[t][fd] = NoFile
         /\ Descriptors[t] = Private!None
<1>1. \A fd \in Fds : table[t][fd] = NoFile
  BY Zenon DEF Inv, TablesInv, NothingDead
<1>2. \A fd \in Fds : At(t, fd) = {}
  BY <1>1, Zenon DEF At
<1>3. Descriptors[t] = [g \in Fds |-> At(t, g)]
  BY OneByOne
<1>4. [g \in Fds |-> At(t, g)] = [g \in Fds |-> {}]
  BY <1>2, Zenon
<1> QED
  BY <1>1, <1>3, <1>4 DEF Private!None

\* The dead stay without descriptors when one task is started.
LEMMA DeadStay ==
  ASSUME TypeOK, NothingDead, NEW t \in Tasks, NEW s \in {"alive", "zombie"},
         state' = [state EXCEPT ![t] = s], \A u \in Tasks \ {t} : table'[u] = table[u]
  PROVE  NothingDead' /\ state' \in [Tasks -> {"none", "alive", "zombie"}]
<1>1. state'[t] = s /\ s # "none" /\ \A u \in Tasks \ {t} : state'[u] = state[u]
  BY DEF TypeOK
<1>2. NothingDead'
  BY <1>1, Zenon DEF NothingDead
<1>3. state' \in [Tasks -> {"none", "alive", "zombie"}]
  BY DEF TypeOK
<1> QED
  BY <1>2, <1>3

LEMMA StartStep ==
  ASSUME ConstantsOK, Inv, NEW t \in Tasks, Create(t)
  PROVE  Inv' /\ Implements
<1>1. TypeOK /\ Points /\ Apart /\ Reached /\ LeakedHeld /\ NothingDead /\ InFile /\ NoFile \notin Objects
  BY DEF Inv, TablesInv, ConstantsOK
<1>2. /\ state[t] = "none" /\ state' = [state EXCEPT ![t] = "alive"]
      /\ size' = size /\ leaked' = leaked
  BY DEF Create
<1>3. PICK new \in Allocations(0 .. 2) : Gets(t, new, Standard)
  BY DEF Create
<1>4. \A fd \in Fds : table[t][fd] = NoFile
  BY <1>2, NoneThere
<1>5. 0 .. 2 \in SUBSET Fds /\ Standard \in [0 .. 2 -> Descriptor]
  BY StdioFds, StandardType
<1>6. /\ Placed(t, new) /\ DOMAIN new = 0 .. 2
      /\ Files(file') /\ table' \in [Tasks -> [Fds -> Objects \cup {NoFile}]]
      /\ \A fd \in 0 .. 2 : file'[new[fd]] = {Standard[fd]}
  <2>1. PlacedWith(t, 0 .. 2, new, Standard)
    BY <1>1, <1>2, <1>3, <1>4, <1>5, GetsPlaces, Zenon
  <2> QED
    BY <2>1, Zenon DEF PlacedWith
<1>7. Points' /\ Apart' /\ Reached' /\ LeakedHeld'
  BY <1>1, <1>6, PlacedKeeps
<1>8. NothingDead' /\ state' \in [Tasks -> {"none", "alive", "zombie"}]
  <2>1. \A u \in Tasks \ {t} : table'[u] = table[u]
    BY <1>6 DEF Placed
  <2> QED
    BY <1>1, <1>2, <2>1, DeadStay
<1>9. TypeOK'
  BY <1>1, <1>2, <1>6, <1>8 DEF TypeOK, Files
<1>10. InFile'
  <2> SUFFICES ASSUME NEW o \in Objects, NEW d \in file'[o], d.node \in Vnodes
               PROVE  d.position <= size[d.node]
    BY <1>2, Zenon DEF InFile
  <2>1. CASE \E fd \in 0 .. 2 : o = new[fd]
    <3>1. d.position = 0
      BY <2>1, <1>6, StandardType
    <3>2. size[d.node] \in 0 .. MaxSize
      BY <1>1 DEF TypeOK
    <3> QED
      BY <3>1, <3>2 DEF ConstantsOK
  <2>2. CASE \A fd \in 0 .. 2 : o # new[fd]
    <3>1. file'[o] = file[o]
      BY <2>2, <1>6, Zenon DEF Placed
    <3> QED
      BY <3>1, <1>1, Zenon DEF InFile
  <2> QED
    BY <2>1, <2>2
<1>11. Private!Start(t)
  <2>1. \A u \in Tasks, g \in Fds : u # t \/ g \notin 0 .. 2 => At(u, g)' = At(u, g)
    BY <1>1, <1>6, PlacedValues
  <2>2. \A g \in 0 .. 2 : At(t, g)' = {Standard[g]}
    BY <1>1, <1>6, PlacedValues
  <2>3. ASSUME NEW u \in Tasks \ {t} PROVE Descriptors'[u] = Descriptors[u]
    <3>1. [g \in Fds |-> At(u, g)'] = [g \in Fds |-> At(u, g)]
      BY <2>1, Zenon
    <3> QED
      BY <3>1, OneByOne
  <2>4. ASSUME NEW fd \in Fds, NEW d \in Descriptors'[t][fd] PROVE d.position = 0 /\ ~d.append
    <3>1. d \in At(t, fd)'
      BY OneByOne
    <3>2. CASE fd \in 0 .. 2
      <4>1. d = Standard[fd]
        BY <3>1, <3>2, <2>2
      <4> QED
        BY <3>2, <4>1, StandardType
    <3>3. CASE fd \notin 0 .. 2
      <4>1. At(t, fd)' = At(t, fd) /\ At(t, fd) = {}
        BY <3>3, <2>1, <1>4, Zenon DEF At
      <4> QED
        BY <3>1, <4>1
    <3> QED
      BY <3>2, <3>3
  <2>5. Descriptors[t] = Private!None
    BY <1>2, NoneThere
  <2> QED
    BY <2>3, <2>4, <2>5 DEF Private!Start
<1>12. Implements
  BY <1>11 DEF Implements, Private!Next
<1> QED
  BY <1>1, <1>7, <1>8, <1>9, <1>10, <1>12 DEF Inv, TablesInv

LEMMA LoadStep ==
  ASSUME ConstantsOK, Inv, NEW t \in Tasks, LoadFails(t)
  PROVE  Inv' /\ Implements
<1>1. TypeOK /\ Points /\ Apart /\ Reached /\ LeakedHeld /\ NothingDead /\ InFile
  BY DEF Inv, TablesInv
<1>2. state' = state /\ table' = table /\ size' = size
  BY DEF LoadFails
<1>3. PICK new \in Allocations(0 .. 2) : 
        /\ file' = [o \in Objects |-> IF \E fd \in 0 .. 2 : new[fd] = o
                      THEN {Standard[CHOOSE fd \in 0 .. 2 : new[fd] = o]} ELSE file[o]]
        /\ leaked' = leaked \cup {new[fd] : fd \in 0 .. 2}
  BY DEF LoadFails
<1>4. new \in [0 .. 2 -> Unused] /\ Distinct(new) /\ DOMAIN new = 0 .. 2
  BY Allocated
<1>5. Standard \in [0 .. 2 -> Descriptor]
  BY StandardType
<1>6. Filling(0 .. 2, new, Standard)
  BY <1>3 DEF Filling
<1>7. FilledWith(0 .. 2, new, Standard)
  BY <1>1, <1>4, <1>5, <1>6, Filled, Zenon
<1>8. Lost(new)
  BY <1>2, <1>3, <1>4, <1>7 DEF Lost, FilledWith
<1>9. Points' /\ Apart' /\ Reached' /\ LeakedHeld'
  BY <1>1, <1>8, LostKeeps
<1>10. NothingDead'
  BY <1>1, <1>2, Zenon DEF NothingDead
<1>11. TypeOK'
  <2>1. leaked' \subseteq Objects
    BY <1>1, <1>3, <1>7 DEF TypeOK, FilledWith
  <2>2. Files(file')
    BY <1>7 DEF FilledWith
  <2> QED
    BY <1>1, <1>2, <2>1, <2>2 DEF TypeOK, Files
<1>12. InFile'
  <2> SUFFICES ASSUME NEW o \in Objects, NEW d \in file'[o], d.node \in Vnodes
               PROVE  d.position <= size[d.node]
    BY <1>2, Zenon DEF InFile
  <2>1. CASE \E fd \in 0 .. 2 : o = new[fd]
    <3>1. d.position = 0
      BY <2>1, <1>7, StandardType DEF FilledWith
    <3>2. size[d.node] \in 0 .. MaxSize
      BY <1>1 DEF TypeOK
    <3> QED
      BY <3>1, <3>2 DEF ConstantsOK
  <2>2. CASE \A fd \in 0 .. 2 : o # new[fd]
    <3>1. file'[o] = file[o]
      BY <2>2, <1>7, Zenon DEF FilledWith
    <3> QED
      BY <3>1, <1>1, Zenon DEF InFile
  <2> QED
    BY <2>1, <2>2
<1>13. Implements
  BY <1>1, <1>8, LostValues, Stutters DEF Implements
<1> QED
  BY <1>1, <1>9, <1>10, <1>11, <1>12, <1>13 DEF Inv, TablesInv

LEMMA ForkStep ==
  ASSUME ConstantsOK, Inv, NEW p \in Tasks, NEW c \in Tasks, Fork(p, c)
  PROVE  Inv' /\ Implements
<1>1. TypeOK /\ Points /\ Apart /\ Reached /\ LeakedHeld /\ NothingDead /\ InFile /\ NoFile \notin Objects
  BY DEF Inv, TablesInv, ConstantsOK
<1>2. /\ state[p] = "alive" /\ state[c] = "none" /\ state' = [state EXCEPT ![c] = "alive"]
      /\ size' = size /\ leaked' = leaked
  BY DEF Fork
<1>3. \A fd \in Fds : table[c][fd] = NoFile
  BY <1>2, NoneThere
<1>4. CASE UNCHANGED <<table, file>>
  <2>1. NothingDead' /\ state' \in [Tasks -> {"none", "alive", "zombie"}]
    BY <1>1, <1>2, <1>4, DeadStay
  <2>2. TypeOK'
    BY <1>1, <1>2, <1>4, <2>1 DEF TypeOK
  <2>3. Points' /\ Apart' /\ Reached' /\ LeakedHeld'
    BY <1>1, <1>2, <1>4 DEF Points, Apart, Reached, LeakedHeld
  <2>4. InFile'
    BY <1>1, <1>2, <1>4 DEF InFile
  <2>5. UNCHANGED Descriptors
    BY <1>4 DEF Descriptors
  <2> QED
    BY <2>1, <2>2, <2>3, <2>4, <2>5 DEF Inv, TablesInv, Implements
<1>5. CASE \E new \in Clones(p) : Gets(c, new, [fd \in Used(p) |-> FileOf(p, fd)])
  <2> DEFINE content == [fd \in Used(p) |-> FileOf(p, fd)]
             fds == Used(p)
  <2>1. PICK new \in Allocations(fds) : Gets(c, new, content)
    BY <1>5 DEF Clones
  <2>2. fds \in SUBSET Fds
    BY DEF Used
  <2>3. \A fd \in fds : /\ table[p][fd] # NoFile /\ table[p][fd] \in Objects
                        /\ content[fd] = FileOf(p, fd) /\ content[fd] \in Descriptor
                        /\ file[table[p][fd]] = {content[fd]}
    BY <1>1, Content
  <2>4. content \in [fds -> Descriptor]
    BY <2>3
  <2> HIDE DEF content, fds
  <2>5. PlacedWith(c, fds, new, content)
    BY <1>1, <1>2, <1>3, <2>1, <2>2, <2>4, GetsPlaces, Zenon
  <2>6. /\ Placed(c, new) /\ DOMAIN new = fds
        /\ Files(file') /\ table' \in [Tasks -> [Fds -> Objects \cup {NoFile}]]
        /\ \A fd \in fds : file'[new[fd]] = {content[fd]}
    BY <2>5, Zenon DEF PlacedWith
  <2>7. Points' /\ Apart' /\ Reached' /\ LeakedHeld'
    BY <1>1, <2>6, PlacedKeeps
  <2>8. NothingDead' /\ state' \in [Tasks -> {"none", "alive", "zombie"}]
    <3>1. \A u \in Tasks \ {c} : table'[u] = table[u]
      BY <2>6 DEF Placed
    <3> QED
      BY <1>1, <1>2, <3>1, DeadStay
  <2>9. TypeOK'
    BY <1>1, <1>2, <2>6, <2>8 DEF TypeOK, Files
  <2>10. InFile'
    <3> SUFFICES ASSUME NEW o \in Objects, NEW d \in file'[o], d.node \in Vnodes
                 PROVE  d.position <= size[d.node]
      BY <1>2, Zenon DEF InFile
    <3>1. CASE \E fd \in fds : o = new[fd]
      <4>1. PICK fd \in fds : o = new[fd]
        BY <3>1
      <4>2. d \in file[table[p][fd]] /\ table[p][fd] \in Objects
        BY <4>1, <2>3, <2>6
      <4> QED
        BY <4>2, <1>1, Zenon DEF InFile
    <3>2. CASE \A fd \in fds : o # new[fd]
      <4>1. file'[o] = file[o]
        BY <3>2, <2>6, Zenon DEF Placed
      <4> QED
        BY <4>1, <1>1, Zenon DEF InFile
    <3> QED
      BY <3>1, <3>2
  <2>11. Private!Fork(p, c)
    <3>1. \A u \in Tasks, g \in Fds : u # c \/ g \notin fds => At(u, g)' = At(u, g)
      BY <1>1, <2>6, PlacedValues
    <3>2. \A g \in fds : At(c, g)' = {content[g]}
      BY <1>1, <2>6, PlacedValues
    <3>3. \A g \in Fds : At(c, g)' = At(p, g)
      <4> TAKE g \in Fds
      <4>1. CASE g \in fds
        BY <4>1, <3>2, <2>3, Zenon DEF At
      <4>2. CASE g \notin fds
        <5>1. table[p][g] = NoFile
          BY <4>2 DEF fds, Used
        <5>2. At(p, g) = {} /\ At(c, g) = {}
          BY <5>1, <1>3, Zenon DEF At
        <5> QED
          BY <4>2, <5>2, <3>1, Zenon
      <4> QED
        BY <4>1, <4>2
    <3>4. Descriptors' = [u \in Tasks |-> IF u = c THEN Descriptors[p] ELSE Descriptors[u]]
      <4>1. \A u \in Tasks : [g \in Fds |-> At(u, g)'] = IF u = c THEN Descriptors[p] ELSE Descriptors[u]
        <5> TAKE u \in Tasks
        <5>1. CASE u = c
          <6>1. [g \in Fds |-> At(c, g)'] = [g \in Fds |-> At(p, g)]
            BY <3>3, Zenon
          <6> QED
            BY <5>1, <6>1, OneByOne
        <5>2. CASE u # c
          <6>1. [g \in Fds |-> At(u, g)'] = [g \in Fds |-> At(u, g)]
            BY <5>2, <3>1, Zenon
          <6> QED
            BY <5>2, <6>1, OneByOne
        <5> QED
          BY <5>1, <5>2
      <4> QED
        BY <4>1, ValuesNext, Zenon
    <3>5. DOMAIN Descriptors = Tasks
      BY Values
    <3>6. Descriptors' = [Descriptors EXCEPT ![c] = Descriptors[p]]
      <4>1. [Descriptors EXCEPT ![c] = Descriptors[p]]
              = [u \in Tasks |-> IF u = c THEN Descriptors[p] ELSE Descriptors[u]]
        BY Values
      <4> QED
        BY <3>4, <4>1, Zenon
    <3>7. Descriptors[c] = Private!None
      BY <1>2, NoneThere
    <3> QED
      BY <3>6, <3>7 DEF Private!Fork
  <2>12. p # c
    BY <1>2
  <2>13. Implements
    BY <2>11, <2>12 DEF Implements, Private!Next
  <2> QED
    BY <1>1, <2>7, <2>8, <2>9, <2>10, <2>13 DEF Inv, TablesInv
<1> QED
  BY <1>4, <1>5 DEF Fork

LEMMA ExitStep ==
  ASSUME Inv, NEW t \in Tasks, Exit(t)
  PROVE  Inv' /\ Implements
<1>1. TypeOK /\ Points /\ Apart /\ Reached /\ LeakedHeld /\ NothingDead /\ InFile
  BY DEF Inv, TablesInv
<1>2. state' = [state EXCEPT ![t] = "zombie"] /\ UNCHANGED <<table, file, size, leaked>>
  BY DEF Exit
<1>3. NothingDead' /\ state' \in [Tasks -> {"none", "alive", "zombie"}]
  BY <1>1, <1>2, DeadStay
<1>4. TypeOK'
  BY <1>1, <1>2, <1>3 DEF TypeOK
<1>5. Points' /\ Apart' /\ Reached' /\ LeakedHeld' /\ InFile'
  BY <1>1, <1>2 DEF Points, Apart, Reached, LeakedHeld, InFile
<1>6. UNCHANGED Descriptors
  BY <1>2 DEF Descriptors
<1> QED
  BY <1>3, <1>4, <1>5, <1>6 DEF Inv, TablesInv, Implements

LEMMA ReapStep ==
  ASSUME ConstantsOK, Inv, NEW t \in Tasks, Reap(t)
  PROVE  Inv' /\ Implements
<1>1. TypeOK /\ Points /\ Apart /\ Reached /\ LeakedHeld /\ NothingDead /\ InFile /\ NoFile \notin Objects
  BY DEF Inv, TablesInv, ConstantsOK
<1>2. /\ file' = [o \in Objects |-> IF o \in Freed(t) THEN {} ELSE file[o]]
      /\ table' = [table EXCEPT ![t] = EmptyTable]
      /\ state' = [state EXCEPT ![t] = "none"]
      /\ size' = size /\ leaked' = leaked
  BY DEF Reap
<1>3. \A o \in Objects : o \in Freed(t) <=> \E fd \in Fds : table[t][fd] = o
  BY <1>1 DEF Freed, Owned, Used
<1>4. \A o \in Objects : file'[o] = IF \E fd \in Fds : table[t][fd] = o THEN {} ELSE file[o]
  BY <1>2, <1>3
<1>5. table'[t] = EmptyTable /\ \A u \in Tasks \ {t} : table'[u] = table[u]
  BY <1>1, <1>2 DEF TypeOK
<1>6. \A fd \in Fds : table'[t][fd] = NoFile
  BY <1>5 DEF EmptyTable
<1>7. Cleared(t, Fds)
  BY <1>2, <1>4, <1>5, <1>6 DEF Cleared
<1>8. Points' /\ Apart' /\ Reached' /\ LeakedHeld'
  BY <1>1, <1>7, ClearedKeeps
<1>9. NothingDead'
  <2>1. \A u \in Tasks \ {t} : state'[u] = state[u]
    BY <1>1, <1>2 DEF TypeOK
  <2> QED
    BY <2>1, <1>1, <1>5, <1>6, Zenon DEF NothingDead
<1>10. TypeOK'
  <2>1. \A o \in Objects : file'[o] = {} \/ file'[o] = file[o]
    BY <1>4, Zenon
  <2>2. Files(file')
    <3>1. \A o \in Objects : file'[o] \in SUBSET Descriptor /\ \A d, e \in file'[o] : d = e
      BY <2>1, <1>1 DEF TypeOK
    <3>2. file' \in [Objects -> SUBSET Descriptor]
      BY <1>2, <3>1
    <3> QED
      BY <3>1, <3>2 DEF Files
  <2>3. EmptyTable \in [Fds -> Objects \cup {NoFile}]
    BY DEF EmptyTable
  <2>4. table' \in [Tasks -> [Fds -> Objects \cup {NoFile}]]
    BY <1>1, <1>2, <2>3 DEF TypeOK
  <2>5. state' \in [Tasks -> {"none", "alive", "zombie"}]
    BY <1>1, <1>2 DEF TypeOK
  <2> QED
    BY <1>1, <1>2, <2>2, <2>4, <2>5 DEF TypeOK, Files
<1>11. InFile'
  <2>1. \A o \in Objects : \A d \in file'[o] : d \in file[o]
    BY <1>4, Zenon
  <2> QED
    BY <2>1, <1>1, <1>2, Zenon DEF InFile
<1>12. Private!Drop(t)
  <2>1. \A u \in Tasks, g \in Fds : u # t => At(u, g)' = At(u, g)
    BY <1>1, <1>7, ClearedValues
  <2>2. \A g \in Fds : At(t, g)' = {}
    BY <1>1, <1>7, ClearedValues
  <2>3. \A u \in Tasks : [g \in Fds |-> At(u, g)'] = IF u = t THEN Private!None ELSE Descriptors[u]
    <3> TAKE u \in Tasks
    <3>1. CASE u = t
      <4>1. [g \in Fds |-> At(t, g)'] = [g \in Fds |-> {}]
        BY <2>2, Zenon
      <4> QED
        BY <3>1, <4>1 DEF Private!None
    <3>2. CASE u # t
      <4>1. [g \in Fds |-> At(u, g)'] = [g \in Fds |-> At(u, g)]
        BY <3>2, <2>1, Zenon
      <4> QED
        BY <3>2, <4>1, OneByOne
    <3> QED
      BY <3>1, <3>2
  <2>4. Descriptors' = [u \in Tasks |-> IF u = t THEN Private!None ELSE Descriptors[u]]
    BY <2>3, ValuesNext, Zenon
  <2>5. [Descriptors EXCEPT ![t] = Private!None]
          = [u \in Tasks |-> IF u = t THEN Private!None ELSE Descriptors[u]]
    BY Values
  <2> QED
    BY <2>4, <2>5, Zenon DEF Private!Drop
<1>13. Implements
  BY <1>12 DEF Implements, Private!Next
<1> QED
  BY <1>1, <1>8, <1>9, <1>10, <1>11, <1>13 DEF Inv, TablesInv

LEMMA OpenStep ==
  ASSUME ConstantsOK, Inv, NEW t \in Tasks, NEW n \in Nodes, NEW s \in 0 .. MaxSize,
         NEW append \in BOOLEAN, Open(t, n, s, append)
  PROVE  Inv' /\ Implements
<1>1. TypeOK /\ Points /\ Apart /\ Reached /\ LeakedHeld /\ NothingDead /\ InFile /\ NoFile \notin Objects
  BY DEF Inv, TablesInv, ConstantsOK
<1> DEFINE d0 == [node |-> n, append |-> append, position |-> IF append /\ n \in Vnodes THEN s ELSE 0]
<1>0. PICK fd \in LowestFree(t) : \E new \in Allocations({fd}) :
        /\ table' = [table EXCEPT ![t][fd] = new[fd]]
        /\ file' = [file EXCEPT ![new[fd]] = {d0}]
  BY DEF Open
<1>2. PICK new \in Allocations({fd}) :
        /\ table' = [table EXCEPT ![t][fd] = new[fd]]
        /\ file' = [file EXCEPT ![new[fd]] = {d0}]
  BY <1>0
<1>3. /\ state[t] = "alive" /\ Fresh(n) /\ state' = state /\ leaked' = leaked
      /\ size' = IF n \in Vnodes THEN [size EXCEPT ![n] = s] ELSE size
  BY DEF Open
<1>4. fd \in Fds /\ table[t][fd] = NoFile
  BY DEF LowestFree, Used
<1>5. new[fd] \in Objects /\ file[new[fd]] = {} /\ DOMAIN new = {fd} /\ Distinct(new)
  BY Allocated DEF Unused
<1>6. MaxSize \in Nat
  BY DEF ConstantsOK
<1>7. d0 \in Descriptor
  BY <1>6 DEF Descriptor
<1>8. d0.node = n /\ (n \in Vnodes => d0.position <= s)
  BY <1>6
<1> HIDE DEF d0
<1>9. file'[new[fd]] = {d0} /\ \A o \in Objects : o # new[fd] => file'[o] = file[o]
  BY <1>1, <1>2, <1>5 DEF TypeOK
<1>10. /\ table'[t][fd] = new[fd]
       /\ \A g \in Fds \ {fd} : table'[t][g] = table[t][g]
       /\ \A u \in Tasks \ {t} : table'[u] = table[u]
       /\ table' \in [Tasks -> [Fds -> Objects \cup {NoFile}]]
  BY <1>1, <1>2, <1>4, <1>5 DEF TypeOK
<1>11. Placed(t, new)
  BY <1>3, <1>4, <1>5, <1>9, <1>10 DEF Placed
<1>12. Points' /\ Apart' /\ Reached' /\ LeakedHeld'
  BY <1>1, <1>11, PlacedKeeps
<1>13. NothingDead'
  <2>1. \A u \in Tasks : state[u] = "none" => u # t
    BY <1>3
  <2> QED
    BY <2>1, <1>1, <1>3, <1>10, Zenon DEF NothingDead
<1>14. TypeOK'
  <2>1. size' \in [Vnodes -> 0 .. MaxSize]
    BY <1>1, <1>3 DEF TypeOK
  <2>2. \A o \in Objects : file'[o] \subseteq Descriptor /\ \A d, e \in file'[o] : d = e
    <3> TAKE o \in Objects
    <3>1. CASE o = new[fd]
      BY <3>1, <1>7, <1>9
    <3>2. CASE o # new[fd]
      <4>1. file'[o] = file[o]
        BY <3>2, <1>9
      <4> QED
        BY <4>1, <1>1 DEF TypeOK
    <3> QED
      BY <3>1, <3>2
  <2>3. file' \in [Objects -> SUBSET Descriptor]
    BY <1>1, <1>2, <1>7, <1>5 DEF TypeOK
  <2> QED
    BY <1>1, <1>3, <1>10, <2>1, <2>2, <2>3 DEF TypeOK
<1>15. InFile'
  <2> SUFFICES ASSUME NEW o \in Objects, NEW d \in file'[o], d.node \in Vnodes
               PROVE  d.position <= size'[d.node]
    BY Zenon DEF InFile
  <2>1. CASE o = new[fd]
    <3>1. d = d0 /\ n \in Vnodes
      BY <2>1, <1>8, <1>9
    <3>2. size'[n] = s
      BY <3>1, <1>1, <1>3 DEF TypeOK
    <3> QED
      BY <3>1, <3>2, <1>8
  <2>2. CASE o # new[fd]
    <3>1. d \in file[o] /\ o \notin Unused
      BY <2>2, <1>9 DEF Unused
    <3>2. n \in Vnodes => d.node # n
      BY <3>1, <1>3, Zenon DEF Fresh
    <3>3. size'[d.node] = size[d.node]
      BY <3>2, <1>1, <1>3 DEF TypeOK
    <3>4. d.position <= size[d.node]
      BY <3>1, <1>1, Zenon DEF InFile
    <3> QED
      BY <3>3, <3>4
  <2> QED
    BY <2>1, <2>2
<1>16. Private!Change(t, fd)
  <2>1. \A u \in Tasks, g \in Fds : u # t \/ g # fd => At(u, g)' = At(u, g)
    <3>1. \A u \in Tasks, g \in Fds : u # t \/ g \notin DOMAIN new => At(u, g)' = At(u, g)
      BY <1>1, <1>11, PlacedValues
    <3> QED
      BY <3>1, <1>5, Zenon
  <2>2. At(t, fd) = {}
    BY <1>4, Zenon DEF At
  <2>3. Descriptors[t][fd] = {}
    BY <2>2, <1>4, OneByOne
  <2>4. ASSUME NEW u \in Tasks, NEW g \in Fds, <<u, g>> # <<t, fd>>
        PROVE  Descriptors'[u][g] = Descriptors[u][g]
    BY <2>1, <2>4, OneByOne
  <2> QED
    BY <2>3, <2>4, Zenon DEF Private!Change
<1>17. Implements
  BY <1>4, <1>16 DEF Implements, Private!Next
<1> QED
  BY <1>1, <1>12, <1>13, <1>14, <1>15, <1>17 DEF Inv, TablesInv

(* read and write: the descriptor's content goes from d to e, no further than
   the file, which does not get shorter.                                     *)
LEMMA MoveStep ==
  ASSUME ConstantsOK, Inv, NEW t \in Tasks, NEW fd \in Used(t), NEW e \in Descriptor,
         file' = [file EXCEPT ![table[t][fd]] = {e}],
         e.node = FileOf(t, fd).node, e.append = FileOf(t, fd).append,
         FileOf(t, fd).position <= e.position,
         size' \in [Vnodes -> 0 .. MaxSize], \A n \in Vnodes : size[n] <= size'[n],
         e.node \in Vnodes => e.position <= size'[e.node],
         UNCHANGED <<state, table, leaked>>
  PROVE  Inv' /\ Implements
<1>1. TypeOK /\ Points /\ Apart /\ Reached /\ LeakedHeld /\ NothingDead /\ InFile
  BY DEF Inv, TablesInv
<1>2. /\ fd \in Fds /\ table[t][fd] # NoFile /\ table[t][fd] \in Objects
      /\ file[table[t][fd]] = {FileOf(t, fd)}
  BY <1>1, Content
<1>3. file'[table[t][fd]] = {e} /\ \A o \in Objects : o # table[t][fd] => file'[o] = file[o]
  BY <1>1, <1>2 DEF TypeOK
<1>4. Moved(t, fd)
  BY <1>2, <1>3 DEF Moved
<1>5. Points' /\ Apart' /\ Reached' /\ LeakedHeld'
  BY <1>1, <1>2, <1>4, MovedKeeps
<1>6. NothingDead'
  BY <1>1, Zenon DEF NothingDead
<1>7. TypeOK'
  <2>1. \A o \in Objects : file'[o] \subseteq Descriptor /\ \A d, c \in file'[o] : d = c
    BY <1>1, <1>3 DEF TypeOK
  <2>2. file' \in [Objects -> SUBSET Descriptor]
    BY <1>1, <1>2 DEF TypeOK
  <2> QED
    BY <1>1, <2>1, <2>2 DEF TypeOK
<1>8. InFile'
  <2> SUFFICES ASSUME NEW o \in Objects, NEW d \in file'[o], d.node \in Vnodes
               PROVE  d.position <= size'[d.node]
    BY Zenon DEF InFile
  <2>1. CASE o = table[t][fd]
    BY <2>1, <1>3
  <2>2. CASE o # table[t][fd]
    <3>1. d \in file[o]
      BY <2>2, <1>3
    <3>2. d.position <= size[d.node] /\ d.position \in Nat
      <4>1. d \in Descriptor
        BY <3>1, <1>1 DEF TypeOK
      <4>2. d.position \in Nat
        BY <4>1 DEF Descriptor, ConstantsOK
      <4> QED
        BY <3>1, <4>2, <1>1 DEF InFile
    <3>3. size[d.node] <= size'[d.node] /\ size[d.node] \in Nat /\ size'[d.node] \in Nat
      BY <1>1 DEF TypeOK, ConstantsOK
    <3> QED
      BY <3>2, <3>3
  <2> QED
    BY <2>1, <2>2
<1>9. Private!Change(t, fd)
  <2>1. \A u \in Tasks, g \in Fds : u # t \/ g # fd => At(u, g)' = At(u, g)
    BY <1>1, <1>2, <1>4, MovedValues
  <2>2. At(t, fd) = {FileOf(t, fd)} /\ At(t, fd)' = {e}
    BY <1>1, <1>2, <1>3, <1>4, MovedValues
  <2>3. Descriptors[t][fd] = {FileOf(t, fd)} /\ Descriptors'[t][fd] = {e}
    BY <2>2, <1>2, OneByOne
  <2>4. ASSUME NEW u \in Tasks, NEW g \in Fds, <<u, g>> # <<t, fd>>
        PROVE  Descriptors'[u][g] = Descriptors[u][g]
    BY <2>1, <2>4, OneByOne
  <2> QED
    BY <2>3, <2>4 DEF Private!Change
<1>10. Implements
  BY <1>2, <1>9 DEF Implements, Private!Next
<1> QED
  BY <1>1, <1>5, <1>6, <1>7, <1>8, <1>10 DEF Inv, TablesInv

LEMMA ReadStep ==
  ASSUME ConstantsOK, Inv, NEW t \in Tasks, NEW fd \in Fds, Read(t, fd)
  PROVE  Inv' /\ Implements
<1> DEFINE d == FileOf(t, fd)
           e == [d EXCEPT !.position = d.position + 1]
<1>1. TypeOK /\ Points /\ InFile
  BY DEF Inv, TablesInv
<1>2. fd \in Used(t) /\ d.position < SizeOf(d.node)
      /\ file' = [file EXCEPT ![table[t][fd]] = {e}] /\ UNCHANGED <<state, table, size, leaked>>
  BY DEF Read
<1>3. d \in Descriptor
  BY <1>1, <1>2, Content
<1>4. d.position \in Nat /\ d.node \in Nodes /\ MaxSize \in Nat
  BY <1>3 DEF Descriptor, ConstantsOK
<1>5. d.node \in Vnodes
  <2>1. d.node \notin Vnodes => SizeOf(d.node) = 0
    BY DEF SizeOf
  <2> QED
    BY <2>1, <1>2, <1>4
<1>6. size[d.node] \in 0 .. MaxSize /\ d.position + 1 <= size[d.node]
  BY <1>1, <1>2, <1>4, <1>5 DEF SizeOf, TypeOK
<1>7. e.node = d.node /\ e.append = d.append /\ e.position = d.position + 1
  BY <1>3 DEF Descriptor
<1>8. e \in Descriptor
  BY <1>3, <1>4, <1>6 DEF Descriptor
<1>9. \A n \in Vnodes : size[n] <= size'[n]
  BY <1>1, <1>2, <1>4 DEF TypeOK
<1>10. size' \in [Vnodes -> 0 .. MaxSize]
  BY <1>1, <1>2 DEF TypeOK
<1>11. d.position <= e.position /\ e.position <= size'[e.node]
  BY <1>2, <1>4, <1>6, <1>7
<1> HIDE DEF e
<1> QED
  BY <1>2, <1>7, <1>8, <1>9, <1>10, <1>11, MoveStep

LEMMA WriteStep ==
  ASSUME ConstantsOK, Inv, NEW t \in Tasks, NEW fd \in Fds, Write(t, fd)
  PROVE  Inv' /\ Implements
<1> DEFINE d == FileOf(t, fd)
           end == 1 + (IF d.append THEN SizeOf(d.node) ELSE d.position)
           e == [d EXCEPT !.position = end]
<1>1. TypeOK /\ Points /\ InFile
  BY DEF Inv, TablesInv
<1>2. /\ fd \in Used(t) /\ d.node \in Vnodes /\ end <= MaxSize
      /\ file' = [file EXCEPT ![table[t][fd]] = {e}]
      /\ size' = [size EXCEPT ![d.node] = IF end > size[d.node] THEN end ELSE size[d.node]]
      /\ UNCHANGED <<state, table, leaked>>
  BY DEF Write
<1>3. d \in Descriptor /\ table[t][fd] \in Objects /\ d \in file[table[t][fd]]
  BY <1>1, <1>2, Content
<1>4. d.position \in Nat /\ MaxSize \in Nat
  BY <1>3 DEF Descriptor, ConstantsOK
<1>5. size[d.node] \in 0 .. MaxSize
  BY <1>1, <1>2 DEF TypeOK
<1>6. d.position <= size[d.node]
  BY <1>1, <1>2, <1>3 DEF InFile
<1>7. end \in Nat /\ d.position <= end
  BY <1>2, <1>4, <1>5, <1>6 DEF SizeOf
<1>8. end \in 0 .. MaxSize
  BY <1>2, <1>4, <1>7
<1> HIDE DEF end
<1>9. e.node = d.node /\ e.append = d.append /\ e.position = end
  BY <1>3 DEF Descriptor
<1>10. e \in Descriptor
  BY <1>3, <1>8 DEF Descriptor
<1>11. size' \in [Vnodes -> 0 .. MaxSize]
  BY <1>1, <1>2, <1>5, <1>8 DEF TypeOK
<1>12. \A n \in Vnodes : size[n] <= size'[n]
  BY <1>1, <1>2, <1>4, <1>5, <1>8 DEF TypeOK
<1>13. end <= size'[d.node]
  BY <1>1, <1>2, <1>4, <1>5, <1>8 DEF TypeOK
<1> HIDE DEF e
<1> QED
  BY <1>2, <1>7, <1>9, <1>10, <1>11, <1>12, <1>13, MoveStep

LEMMA CloseStep ==
  ASSUME ConstantsOK, Inv, NEW t \in Tasks, NEW fd \in Fds, Close(t, fd)
  PROVE  Inv' /\ Implements
<1>1. TypeOK /\ Points /\ Apart /\ Reached /\ LeakedHeld /\ NothingDead /\ InFile /\ NoFile \notin Objects
  BY DEF Inv, TablesInv, ConstantsOK
<1>2. /\ state[t] = "alive" /\ fd \in Used(t)
      /\ file' = [file EXCEPT ![table[t][fd]] = {}]
      /\ table' = [table EXCEPT ![t][fd] = NoFile]
      /\ UNCHANGED <<state, size, leaked>>
  BY DEF Close
<1>3. \A o \in Objects : file'[o] = IF table[t][fd] = o THEN {} ELSE file[o]
  BY <1>1, <1>2 DEF TypeOK
<1>4. /\ table'[t][fd] = NoFile
      /\ \A g \in Fds \ {fd} : table'[t][g] = table[t][g]
      /\ \A u \in Tasks \ {t} : table'[u] = table[u]
      /\ table' \in [Tasks -> [Fds -> Objects \cup {NoFile}]]
  BY <1>1, <1>2 DEF TypeOK
<1>5. Cleared(t, {fd})
  BY <1>2, <1>3, <1>4 DEF Cleared
<1>6. Points' /\ Apart' /\ Reached' /\ LeakedHeld'
  BY <1>1, <1>5, ClearedKeeps
<1>7. NothingDead'
  BY <1>1, <1>2, <1>4, Zenon DEF NothingDead
<1>8. TypeOK'
  <2>1. \A o \in Objects : file'[o] \subseteq Descriptor /\ \A d, c \in file'[o] : d = c
    BY <1>1, <1>3 DEF TypeOK
  <2>2. file' \in [Objects -> SUBSET Descriptor]
    BY <1>1, <1>2 DEF TypeOK
  <2> QED
    BY <1>1, <1>2, <1>4, <2>1, <2>2 DEF TypeOK
<1>9. InFile'
  <2>1. \A o \in Objects : \A d \in file'[o] : d \in file[o]
    BY <1>3, Zenon
  <2> QED
    BY <2>1, <1>1, <1>2, Zenon DEF InFile
<1>10. Private!Change(t, fd)
  <2>1. \A u \in Tasks, g \in Fds : u # t \/ g # fd => At(u, g)' = At(u, g)
    <3>1. \A u \in Tasks, g \in Fds : u # t \/ g \notin {fd} => At(u, g)' = At(u, g)
      BY <1>1, <1>5, ClearedValues
    <3> QED
      BY <3>1, Zenon
  <2>2. At(t, fd)' = {}
    BY <1>4, Zenon DEF At
  <2>3. Descriptors'[t][fd] = {}
    BY <2>2, OneByOne
  <2>4. ASSUME NEW u \in Tasks, NEW g \in Fds, <<u, g>> # <<t, fd>>
        PROVE  Descriptors'[u][g] = Descriptors[u][g]
    BY <2>1, <2>4, OneByOne
  <2> QED
    BY <2>3, <2>4, Zenon DEF Private!Change
<1>11. Implements
  BY <1>10 DEF Implements, Private!Next
<1> QED
  BY <1>1, <1>6, <1>7, <1>8, <1>9, <1>11 DEF Inv, TablesInv

-----------------------------------------------------------------------------
LEMMA InvInit ==
  ASSUME ConstantsOK, Init
  PROVE  Inv /\ Private!Init
<1>1. /\ \A t \in Tasks : state[t] = "none" /\ \A fd \in Fds : table[t][fd] = NoFile
      /\ \A o \in Objects : file[o] = {}
      /\ leaked = {}
  BY DEF Init, EmptyTable
<1>2. TypeOK
  <2>1. 0 \in 0 .. MaxSize
    BY DEF ConstantsOK
  <2> QED
    BY <2>1 DEF Init, EmptyTable, TypeOK
<1>3. Points /\ Apart /\ NothingDead
  BY <1>1, Zenon DEF Points, Apart, NothingDead
<1>4. Reached /\ LeakedHeld /\ InFile
  BY <1>1, Zenon DEF Reached, LeakedHeld, InFile
<1>5. Private!Init
  <2>1. \A t \in Tasks : Descriptors[t] = Private!None
    BY <1>1, <1>2, <1>3, <1>4, NoneThere DEF Inv, TablesInv
  <2>2. Descriptors = [t \in Tasks |-> Descriptors[t]]
    BY Values
  <2>3. [t \in Tasks |-> Descriptors[t]] = [t \in Tasks |-> Private!None]
    BY <2>1, Zenon
  <2> QED
    BY <2>2, <2>3, Zenon DEF Private!Init
<1> QED
  BY <1>2, <1>3, <1>4, <1>5 DEF Inv, TablesInv

LEMMA InvNext ==
  ASSUME ConstantsOK, Inv, [Next]_vars
  PROVE  Inv' /\ [Private!Next]_Descriptors
<1>1. CASE Next
  <2>1. PICK t \in Tasks :
          \/ Create(t) \/ LoadFails(t) \/ Exit(t) \/ Reap(t)
          \/ \E c \in Tasks : Fork(t, c)
          \/ \E n \in Nodes, s \in 0 .. MaxSize, append \in BOOLEAN : Open(t, n, s, append)
          \/ \E fd \in Fds : Read(t, fd) \/ Write(t, fd) \/ Close(t, fd)
    BY <1>1, Zenon DEF Next
  <2>2. Inv' /\ Implements
    BY <2>1, StartStep, LoadStep, ExitStep, ReapStep, ForkStep, OpenStep, ReadStep, WriteStep,
       CloseStep, Zenon
  <2> QED
    BY <2>2 DEF Implements
<1>2. CASE UNCHANGED vars
  <2>1. UNCHANGED <<state, table, file, size, leaked>>
    BY <1>2 DEF vars
  <2>2. Inv'
    BY <2>1 DEF Inv, TypeOK, TablesInv, Points, Apart, Reached, NothingDead, LeakedHeld, InFile
  <2>3. UNCHANGED Descriptors
    BY <2>1 DEF Descriptors
  <2> QED
    BY <2>2, <2>3
<1> QED
  BY <1>1, <1>2

(* Every variable keeps to its type: no object ever holds more than one file,
   no position leaves the bound.                                             *)
THEOREM TypeCorrect ==
  ASSUME ConstantsOK
  PROVE  Spec => []TypeOK
<1>1. Init => Inv
  BY InvInit
<1>2. Inv /\ [Next]_vars => Inv'
  BY InvNext
<1>3. Inv => TypeOK
  BY DEF Inv
<1> QED
  BY <1>1, <1>2, <1>3, PTL DEF Spec

(* Every file object that is in use has exactly one owner, living or dead, or
   was leaked by a failed load, whatever allocation fails and in whichever
   order tasks fork, exit and are reaped (vfs.c, task.c).                    *)
THEOREM OwnerCorrect ==
  ASSUME ConstantsOK
  PROVE  Spec => []OneOwner
<1>1. Init => Inv
  BY InvInit
<1>2. Inv /\ [Next]_vars => Inv'
  BY InvNext
<1>3. Inv => OneOwner
  BY OwnerFromInv DEF Inv, ConstantsOK
<1> QED
  BY <1>1, <1>2, <1>3, PTL DEF Spec

(* The tables of pointers to shared heap objects implement private tables of
   values, for any number of tasks, descriptors and objects.                 *)
THEOREM PrivateCorrect ==
  ASSUME ConstantsOK
  PROVE  Spec => DescriptorsPrivate
<1>1. Init => Inv /\ Private!Init
  BY InvInit
<1>2. Inv /\ [Next]_vars => Inv' /\ [Private!Next]_Descriptors
  BY InvNext
<1> QED
  BY <1>1, <1>2, PTL DEF Spec, DescriptorsPrivate, Private!Spec

-----------------------------------------------------------------------------
(* The heap of malloc: numbers first.                                        *)

\* The order of the naturals.
Less == OpToRel(<, Nat)

\* It is well-founded.
LEMMA LessWellFounded == IsWellFoundedOn(Less, Nat)
BY NatLessThanWellFounded, Zenon DEF Less

\* What that order holds.
LEMMA InLess == \A x, y \in Nat : y < x => <<y, x>> \in Less
BY DEF OpToRel, Less

\* A set of naturals has a least element.
LEMMA LeastNat ==
  ASSUME NEW S \in SUBSET Nat, S # {}
  PROVE  \E n \in S : \A m \in S : n <= m
<1>1. \E x \in S : \A y \in S : ~(<<y, x>> \in Less)
  BY LessWellFounded, WFMin, Zenon
<1>2. PICK x \in S : \A y \in S : ~(<<y, x>> \in Less)
  BY <1>1
<1>3. ASSUME NEW y \in S PROVE x <= y
  <2>1. x \in Nat /\ y \in Nat
    OBVIOUS
  <2>2. y < x => <<y, x>> \in Less
    BY <2>1, InLess, Zenon
  <2>3. ~(<<y, x>> \in Less)
    BY <1>2
  <2>4. ~(y < x)
    BY <2>2, <2>3, Zenon
  <2> QED
    BY <2>1, <2>4
<1> QED
  BY <1>3

\* And a greatest one, if it is bounded.
LEMMA GreatestNat ==
  ASSUME NEW S \in SUBSET Nat, S # {}, NEW m \in Nat, \A x \in S : x <= m
  PROVE  \E x \in S : \A y \in S : y <= x
<1> DEFINE T == {m - x : x \in S}
<1>1. T \in SUBSET Nat /\ T # {}
  <2>1. \A x \in S : m - x \in Nat
    OBVIOUS
  <2> QED
    BY <2>1
<1>2. PICK t \in T : \A u \in T : t <= u
  BY <1>1, LeastNat, Zenon
<1>3. PICK x \in S : t = m - x
  OBVIOUS
<1>4. \A y \in S : m - x <= m - y
  BY <1>2, <1>3
<1> QED
  BY <1>4

\* The minimum of a set of naturals is its least element.
LEMMA MinIs ==
  ASSUME NEW S \in SUBSET Nat, S # {}
  PROVE  Min(S) \in S /\ \A y \in S : Min(S) <= y
<1>1. \E n \in S : \A m \in S : n <= m
  BY LeastNat
<1> QED
  BY <1>1 DEF Min

\* The maximum of a bounded one is its greatest.
LEMMA MaxIs ==
  ASSUME NEW S \in SUBSET Nat, S # {}, NEW m \in Nat, \A x \in S : x <= m
  PROVE  Max(S) \in S /\ \A y \in S : y <= Max(S)
<1>1. \E x \in S : \A y \in S : y <= x
  BY GreatestNat
<1>2. \E x \in S : \A y \in S : x >= y
  BY <1>1
<1> QED
  BY <1>2 DEF Max

\* Induction over the naturals, for sets.
LEMMA Induct ==
  ASSUME NEW S \in SUBSET Nat, 0 \in S, \A n \in S : n + 1 \in S
  PROVE  S = Nat
<1> SUFFICES ASSUME S # Nat PROVE FALSE
  OBVIOUS
<1>1. PICK n \in Nat \ S : \A m \in Nat \ S : n <= m
  <2>1. Nat \ S \in SUBSET Nat /\ Nat \ S # {}
    OBVIOUS
  <2> QED
    BY <2>1, LeastNat
<1>2. n - 1 \in Nat /\ n - 1 < n /\ (n - 1) + 1 = n
  OBVIOUS
<1>3. n - 1 \in S
  BY <1>1, <1>2
<1> QED
  BY <1>2, <1>3

-----------------------------------------------------------------------------
(* The chain of blocks.                                                      *)

\* A block is not empty.
Blocks == [size : Nat \ {0}, free : BOOLEAN]

\* Blocks one behind the other from 0 to the end.
ChainIs(bs, end) ==
  /\ DOMAIN bs \in SUBSET Nat /\ end \in Nat
  /\ bs \in [DOMAIN bs -> Blocks]
  /\ \A a \in DOMAIN bs : NextBlock(bs, a) \in DOMAIN bs \cup {end} /\ NextBlock(bs, a) <= end
  /\ 0 \in DOMAIN bs \cup {end}
  /\ \A b \in DOMAIN bs \cup {end} : b # 0 => \E a \in DOMAIN bs : NextBlock(bs, a) = b
  /\ \A a, b \in DOMAIN bs : a < b => NextBlock(bs, a) <= b

\* No free block is followed by a free one,
NoTwoFree(bs) ==
  \A a, b \in DOMAIN bs : bs[a].free /\ bs[b].free => NextBlock(bs, a) # b

\* and none is the last: free has given it back.
Coalesced(bs, end) ==
  /\ NoTwoFree(bs)
  /\ \A a \in DOMAIN bs : bs[a].free => NextBlock(bs, a) # end

\* A heap between two calls.
HeapIs(h) ==
  /\ h = [brk |-> h.brk, blocks |-> h.blocks]
  /\ ChainIs(h.blocks, h.brk)
  /\ Coalesced(h.blocks, h.brk)

\* The blocks that are used in bs are used in cs, and no smaller.
Keeps(bs, cs) ==
  \A a \in DOMAIN bs : ~bs[a].free =>
    a \in DOMAIN cs /\ ~cs[a].free /\ bs[a].size <= cs[a].size

\* What ChainIs says of a block.
LEMMA BlockFacts ==
  ASSUME NEW bs, NEW end, ChainIs(bs, end), NEW a \in DOMAIN bs
  PROVE  /\ a \in Nat /\ end \in Nat /\ bs[a].size \in Nat \ {0} /\ bs[a].free \in BOOLEAN
         /\ NextBlock(bs, a) = a + 1 + bs[a].size
         /\ NextBlock(bs, a) \in Nat /\ a + 2 <= NextBlock(bs, a) /\ NextBlock(bs, a) <= end
         /\ NextBlock(bs, a) \in DOMAIN bs \cup {end}
<1>1. bs[a] \in Blocks /\ a \in Nat /\ end \in Nat
  BY DEF ChainIs
<1>2. NextBlock(bs, a) = a + 1 + bs[a].size
  BY DEF NextBlock
<1>3. bs[a].size \in Nat \ {0} /\ bs[a].free \in BOOLEAN
  BY <1>1 DEF Blocks
<1> QED
  BY <1>1, <1>2, <1>3 DEF ChainIs

\* A number of bytes that is no larger than the heap or than a request and its
\* header keeps its sign.
LEMMA SignedIs ==
  ASSUME MallocOK, Moderate, NEW k \in Nat, k <= Space \/ k <= MaxRequest + 1
  PROVE  Signed(k) = k
<1>1. Space \in Nat /\ MaxRequest \in Nat /\ Word \in Nat
  BY DEF MallocOK
<1>2. 2 * k < Word
  BY <1>1 DEF Moderate
<1> QED
  BY <1>2 DEF Signed

\* A chain reaches to its end.
LEMMA TopIs ==
  ASSUME NEW bs, NEW end, ChainIs(bs, end), DOMAIN bs # {}
  PROVE  Top(bs) = end
<1> DEFINE S == {NextBlock(bs, a) : a \in DOMAIN bs}
<1>1. \A a \in DOMAIN bs : /\ a \in Nat /\ NextBlock(bs, a) \in Nat
                           /\ a + 2 <= NextBlock(bs, a) /\ NextBlock(bs, a) <= end
  BY BlockFacts
<1>2. end \in Nat /\ \A b \in DOMAIN bs \cup {end} : b # 0 => \E a \in DOMAIN bs : NextBlock(bs, a) = b
  BY DEF ChainIs
<1>3. end # 0
  BY <1>1, <1>2
<1>4. S \in SUBSET Nat /\ end \in S /\ \A x \in S : x <= end
  BY <1>1, <1>2, <1>3
<1>5. Top(bs) = Max(S)
  BY DEF Top
<1> HIDE DEF S
<1>6. Max(S) \in S /\ \A y \in S : y <= Max(S)
  BY <1>2, <1>4, MaxIs
<1>7. Max(S) \in Nat /\ Max(S) <= end /\ end <= Max(S)
  BY <1>4, <1>6
<1> QED
  BY <1>2, <1>5, <1>7

\* free's first loop leaves a chain without free neighbours.
LEMMA MergedChain ==
  ASSUME NEW bs, NEW end, ChainIs(bs, end)
  PROVE  /\ ChainIs(Merged(bs, end), end)
         /\ NoTwoFree(Merged(bs, end))
         /\ Keeps(bs, Merged(bs, end))
         /\ DOMAIN bs # {} => DOMAIN Merged(bs, end) # {}
<1> DEFINE D == DOMAIN bs
           H == Heads(bs, end)
           ms == Merged(bs, end)
           After(a) == {b \in H : b > a} \cup {end}
<1>1. /\ D \in SUBSET Nat /\ end \in Nat
      /\ 0 \in D \cup {end}
      /\ \A b \in D \cup {end} : b # 0 => \E a \in D : NextBlock(bs, a) = b
      /\ \A a, b \in D : a < b => NextBlock(bs, a) <= b
  BY DEF ChainIs
<1>2. \A a \in D : /\ a \in Nat /\ NextBlock(bs, a) \in Nat
                   /\ a + 2 <= NextBlock(bs, a) /\ NextBlock(bs, a) <= end
                   /\ NextBlock(bs, a) = a + 1 + bs[a].size
                   /\ bs[a].size \in Nat \ {0} /\ bs[a].free \in BOOLEAN
  BY BlockFacts
<1>3. H = {a \in D : ~(bs[a].free /\ \E b \in D : bs[b].free /\ NextBlock(bs, b) = a)}
  <2>1. \A a \in D : a < end
    BY <1>1, <1>2
  <2> QED
    BY <2>1 DEF Heads
<1>4. ms = [a \in H |-> Block(Min(After(a)) - a - 1, bs[a].free)]
  <2>1. CASE D = {}
    <3>1. H = {}
      BY <1>3, <2>1
    <3>2. ms = [a \in H |-> Block(Min({b \in H : b > a} \cup {Top(bs)}) - a - 1, bs[a].free)]
      BY DEF Merged
    <3> QED
      BY <3>1, <3>2
  <2>2. CASE D # {}
    <3>1. Top(bs) = end
      BY <2>2, TopIs
    <3> QED
      BY <3>1 DEF Merged
  <2> QED
    BY <2>1, <2>2
<1>5. DOMAIN ms = H
  BY <1>4
<1>6. \A a \in H : ms[a].size = Min(After(a)) - a - 1 /\ ms[a].free = bs[a].free
  BY <1>4 DEF Block
<1>7. \A a \in H : NextBlock(ms, a) = a + 1 + (Min(After(a)) - a - 1)
  BY <1>6 DEF NextBlock
<1>8. H \in SUBSET Nat /\ H \subseteq D
  BY <1>1, <1>3
<1>9. ASSUME NEW a \in H
      PROVE  Min(After(a)) \in After(a) /\ \A b \in After(a) : Min(After(a)) <= b
  <2> DEFINE S == After(a)
  <2>1. S \in SUBSET Nat /\ S # {}
    BY <1>1, <1>8
  <2> HIDE DEF S
  <2>2. Min(S) \in S /\ \A b \in S : Min(S) <= b
    BY <2>1, MinIs
  <2> QED
    BY <2>2 DEF S
<1>10. \A a \in H : \A b \in After(a) : b \in Nat /\ a < b
  BY <1>1, <1>2, <1>8
<1>11. ASSUME NEW a \in H
       PROVE  /\ NextBlock(ms, a) = Min(After(a))
              /\ NextBlock(ms, a) \in After(a)
              /\ \A b \in After(a) : NextBlock(ms, a) <= b
  <2>1. Min(After(a)) \in Nat /\ a \in Nat
    BY <1>8, <1>9, <1>10
  <2>2. NextBlock(ms, a) = Min(After(a))
    BY <1>7, <2>1
  <2> QED
    BY <1>9, <2>2
<1>12. \A a \in H : /\ NextBlock(bs, a) <= NextBlock(ms, a)
                    /\ NextBlock(ms, a) = a + 1 + ms[a].size
  <2> TAKE a \in H
  <2>1. \A b \in After(a) : NextBlock(bs, a) <= b
    BY <1>1, <1>2, <1>8
  <2>2. NextBlock(ms, a) = a + 1 + ms[a].size
    BY DEF NextBlock
  <2> QED
    BY <1>11, <2>1, <2>2
<1>13. \A a \in H : /\ ms[a].size \in Nat \ {0} /\ bs[a].size <= ms[a].size
                    /\ ms[a].free \in BOOLEAN
  <2> TAKE a \in H
  <2>1. a \in Nat /\ NextBlock(bs, a) = a + 1 + bs[a].size /\ bs[a].size \in Nat \ {0}
    BY <1>2, <1>8
  <2>2. ms[a].size = NextBlock(ms, a) - a - 1
    BY <1>6, <1>11
  <2>3. NextBlock(ms, a) \in Nat /\ NextBlock(bs, a) <= NextBlock(ms, a)
    BY <1>10, <1>11, <1>12
  <2> DEFINE n == NextBlock(ms, a)
             x == NextBlock(bs, a)
  <2>4. n \in Nat /\ x <= n /\ x = a + 1 + bs[a].size /\ ms[a].size = n - a - 1
    BY <2>1, <2>2, <2>3
  <2> HIDE DEF n, x
  <2>5. ms[a].size \in Nat \ {0} /\ bs[a].size <= ms[a].size
    BY <2>1, <2>4
  <2>6. ms[a].free \in BOOLEAN
    BY <1>2, <1>6, <1>8
  <2> QED
    BY <2>5, <2>6
<1>14. ms \in [H -> Blocks]
  <2>1. \A a \in H : Block(Min(After(a)) - a - 1, bs[a].free) \in Blocks
    BY <1>6, <1>13 DEF Block, Blocks
  <2> QED
    BY <1>4, <2>1
<1>15. D # {} => 0 \in H
  <2>1. D # {} => 0 # end
    BY <1>1, <1>2
  <2>2. ~\E b \in D : NextBlock(bs, b) = 0
    BY <1>2
  <2> QED
    BY <1>1, <1>3, <2>1, <2>2
<1> HIDE DEF ms
<1>16. ASSUME NEW b \in H \cup {end}, b # 0
       PROVE  \E a \in H : NextBlock(ms, a) = b
  <2> DEFINE S == {a \in H : a < b}
  <2>1. b \in Nat
    BY <1>1, <1>8
  <2>2. D # {}
    BY <1>1, <1>8, <1>16
  <2>3. 0 \in S /\ S \in SUBSET Nat
    BY <1>8, <1>15, <1>16, <2>1, <2>2
  <2>4. \A x \in S : x <= b
    BY <2>1, <2>3
  <2>5. \E x \in S : \A y \in S : y <= x
    <3> HIDE DEF S
    <3> QED
      BY <2>1, <2>3, <2>4, GreatestNat
  <2>6. PICK x \in S : \A y \in S : y <= x
    BY <2>5
  <2>7. b \in After(x)
    BY <1>8, <2>1, <2>6
  <2>8. \A c \in After(x) : b <= c
    <3> SUFFICES ASSUME NEW c \in H, c > x PROVE b <= c
      BY <1>1, <1>2, <1>8, <2>1
    <3>1. c \notin S
      BY <1>8, <2>3, <2>6
    <3> QED
      BY <1>8, <2>1, <3>1
  <2>9. NextBlock(ms, x) <= b /\ b <= NextBlock(ms, x)
    BY <1>11, <2>6, <2>7, <2>8
  <2>10. NextBlock(ms, x) \in Nat
    BY <1>10, <1>11, <2>6
  <2> QED
    BY <2>1, <2>6, <2>9, <2>10
<1>17. ChainIs(ms, end)
  <2>1. \A a \in H : NextBlock(ms, a) \in H \cup {end} /\ NextBlock(ms, a) <= end
    BY <1>11
  <2>2. 0 \in H \cup {end}
    BY <1>1, <1>15
  <2>3. \A a, b \in H : a < b => NextBlock(ms, a) <= b
    BY <1>8, <1>11
  <2> QED
    BY <1>1, <1>5, <1>8, <1>14, <1>16, <2>1, <2>2, <2>3 DEF ChainIs
<1>18. NoTwoFree(ms)
  <2> SUFFICES ASSUME NEW a \in H, NEW b \in H, bs[a].free, bs[b].free, NextBlock(ms, a) = b
               PROVE  FALSE
    BY <1>5, <1>6 DEF NoTwoFree
  <2>1. a \in Nat /\ b \in Nat /\ a \in D /\ b \in D /\ a < b
    BY <1>8, <1>10, <1>11
  <2>2. PICK q \in D : NextBlock(bs, q) = b
    BY <1>1, <2>1
  <2>3. ~bs[q].free
    BY <1>3, <2>2
  <2>4. q \in H
    BY <1>3, <2>3
  <2>5. q \in Nat /\ q < b
    BY <1>2, <2>1, <2>2
  <2>6. ~(q > a)
    <3>1. q > a => q \in After(a)
      BY <2>4
    <3>2. q > a => b <= q
      BY <1>11, <3>1
    <3> QED
      BY <2>1, <2>5, <3>2
  <2>7. q # a
    BY <2>3
  <2>8. q < a
    BY <2>1, <2>5, <2>6, <2>7
  <2>9. b <= a
    BY <1>1, <2>1, <2>2, <2>8
  <2> QED
    BY <2>1, <2>9
<1>19. Keeps(bs, ms)
  <2>1. \A a \in D : ~bs[a].free => a \in H
    BY <1>3
  <2> QED
    BY <1>5, <1>6, <1>13, <2>1 DEF Keeps
<1> QED
  BY <1>5, <1>15, <1>17, <1>18, <1>19 DEF ms

\* free's second loop gives a free block at the end back.
LEMMA ShrunkChain ==
  ASSUME MallocOK, Moderate,
         NEW bs, NEW end, ChainIs(bs, end), NoTwoFree(bs), DOMAIN bs # {}, end <= Space
  PROVE  /\ HeapIs(Shrunk(bs, end))
         /\ Keeps(bs, Shrunk(bs, end).blocks)
         /\ Shrunk(bs, end).brk <= end
<1> DEFINE D == DOMAIN bs
           final == Max(DOMAIN bs)
           cs == [a \in D \ {final} |-> bs[a]]
<1>1. /\ D \in SUBSET Nat /\ end \in Nat /\ bs \in [D -> Blocks]
      /\ 0 \in D \cup {end}
      /\ \A b \in D \cup {end} : b # 0 => \E a \in D : NextBlock(bs, a) = b
      /\ \A a, b \in D : a < b => NextBlock(bs, a) <= b
  BY DEF ChainIs
<1>2. \A a \in D : /\ a \in Nat /\ NextBlock(bs, a) \in Nat
                   /\ a + 2 <= NextBlock(bs, a) /\ NextBlock(bs, a) <= end
                   /\ NextBlock(bs, a) \in D \cup {end}
  BY BlockFacts
<1>3. final \in D /\ \A a \in D : a <= final
  <2>1. \A a \in D : a <= end
    BY <1>1, <1>2
  <2> QED
    BY <1>1, <2>1, MaxIs
<1>0. Shrunk(bs, end) =
        IF bs[final].free /\ end - Signed(1 + bs[final].size) \in 0 .. Space
        THEN [brk |-> end - Signed(1 + bs[final].size), blocks |-> cs]
        ELSE [brk |-> end, blocks |-> bs]
  <2>1. {a \in D : NextBlock(bs, a) <= end} = D
    BY <1>2
  <2> QED
    BY <2>1 DEF Shrunk
<1> HIDE DEF final
<1>5. NextBlock(bs, final) = end
  <2>1. NextBlock(bs, final) \notin D
    BY <1>2, <1>3
  <2> QED
    BY <1>2, <1>3, <2>1
<1>4. Shrunk(bs, end) = IF bs[final].free THEN [brk |-> final, blocks |-> cs]
                        ELSE [brk |-> end, blocks |-> bs]
  <2>1. final \in Nat /\ bs[final].size \in Nat /\ final + 1 + bs[final].size = end
    BY <1>3, <1>5, BlockFacts
  <2>2. 1 + bs[final].size \in Nat /\ 1 + bs[final].size <= Space /\ Space \in Nat
    BY <1>1, <2>1 DEF MallocOK
  <2>3. Signed(1 + bs[final].size) = 1 + bs[final].size
    BY <2>2, SignedIs
  <2>4. end - (1 + bs[final].size) = final
    BY <1>1, <2>1
  <2>5. final \in 0 .. Space
    BY <1>1, <2>1, <2>2
  <2> HIDE DEF cs
  <2> QED
    BY <1>0, <2>3, <2>4, <2>5
<1>6. \A a \in D : NextBlock(bs, a) = end => a = final
  <2> HIDE DEF D, cs
  <2> SUFFICES ASSUME NEW a \in D, NextBlock(bs, a) = end, a # final PROVE FALSE
    OBVIOUS
  <2>1. a \in Nat /\ final \in Nat /\ a <= final /\ final \in D
    BY <1>2, <1>3
  <2>2. a < final
    BY <2>1
  <2>3. NextBlock(bs, a) <= final
    BY <1>1, <2>1, <2>2
  <2>4. final + 2 <= end /\ end \in Nat
    BY <1>1, <1>2, <1>5, <2>1
  <2> QED
    BY <2>1, <2>3, <2>4
<1>7. CASE ~bs[final].free
  <2>1. \A a \in D : bs[a].free => NextBlock(bs, a) # end
    BY <1>6, <1>7
  <2>2. Coalesced(bs, end)
    BY <2>1 DEF Coalesced
  <2> QED
    <3>1. Shrunk(bs, end) = [brk |-> end, blocks |-> bs]
      BY <1>4, <1>7
    <3>2. HeapIs([brk |-> end, blocks |-> bs])
      BY <2>2 DEF HeapIs
    <3>3. Keeps(bs, bs)
      <4>1. \A a \in D : bs[a].size \in Nat
        BY BlockFacts
      <4> QED
        BY <4>1 DEF Keeps
    <3> QED
      BY <1>1, <3>1, <3>2, <3>3
<1>8. CASE bs[final].free
  <2>1. DOMAIN cs = D \ {final} /\ \A a \in D \ {final} : cs[a] = bs[a]
    OBVIOUS
  <2>2. \A a \in D \ {final} : NextBlock(cs, a) = NextBlock(bs, a)
    BY <2>1 DEF NextBlock
  <2>3. cs \in [D \ {final} -> Blocks]
    BY <1>1
  <2> HIDE DEF cs
  <2>4. \A a \in D \ {final} : NextBlock(bs, a) \in D /\ NextBlock(bs, a) <= final
    BY <1>2, <1>3, <1>6
  <2>5. \A b \in D : b # 0 => \E a \in D \ {final} : NextBlock(bs, a) = b
    <3> SUFFICES ASSUME NEW b \in D, b # 0 PROVE \E a \in D \ {final} : NextBlock(bs, a) = b
      OBVIOUS
    <3>1. PICK a \in D : NextBlock(bs, a) = b
      BY <1>1
    <3>2. a # final
      BY <1>2, <1>5, <3>1
    <3> QED
      BY <3>1, <3>2
  <2>6. final \in Nat /\ (D \ {final}) \cup {final} = D
    BY <1>2, <1>3
  <2>7. 0 \in D
    BY <1>1, <1>2, <1>3
  <2>8. ChainIs(cs, final)
    <3>1. \A a \in D \ {final} : NextBlock(cs, a) \in D /\ NextBlock(cs, a) <= final
      BY <2>2, <2>4
    <3>2. \A b \in D : b # 0 => \E a \in D \ {final} : NextBlock(cs, a) = b
      BY <2>2, <2>5
    <3>3. \A a, b \in D \ {final} : a < b => NextBlock(cs, a) <= b
      BY <1>1, <2>2
    <3> QED
      BY <1>1, <2>1, <2>3, <2>6, <2>7, <3>1, <3>2, <3>3 DEF ChainIs
  <2>9. Coalesced(cs, final)
    <3>1. \A a \in D \ {final} : bs[a].free => NextBlock(bs, a) # final
      BY <1>3, <1>8 DEF NoTwoFree
    <3> QED
      BY <2>1, <2>2, <3>1 DEF Coalesced, NoTwoFree
  <2>10. Keeps(bs, cs)
    <3>1. \A a \in D : bs[a].size \in Nat
      BY BlockFacts
    <3> QED
      BY <1>8, <2>1, <3>1 DEF Keeps
  <2> QED
    BY <1>2, <1>3, <1>4, <1>8, <2>8, <2>9, <2>10 DEF HeapIs
<1> QED
  BY <1>7, <1>8

\* What is used stays used through two changes.
LEMMA KeepsOn ==
  ASSUME NEW bs, NEW cs, NEW ds, Keeps(bs, cs), Keeps(cs, ds),
         \A a \in DOMAIN bs : bs[a].size \in Nat,
         \A a \in DOMAIN cs : cs[a].size \in Nat,
         \A a \in DOMAIN ds : ds[a].size \in Nat
  PROVE  Keeps(bs, ds)
BY DEF Keeps

\* free leaves a heap, and every other used block in it.
LEMMA ReleasedHeap ==
  ASSUME MallocOK, Moderate, NEW h, HeapIs(h), h.brk <= Space, NEW a \in DOMAIN h.blocks
  PROVE  /\ HeapIs(Released(h, a))
         /\ Released(h, a).brk <= h.brk
         /\ \A b \in DOMAIN h.blocks \ {a} : ~h.blocks[b].free =>
              /\ b \in DOMAIN Released(h, a).blocks
              /\ ~Released(h, a).blocks[b].free
              /\ h.blocks[b].size <= Released(h, a).blocks[b].size
<1> DEFINE bs == h.blocks
           end == h.brk
           D == DOMAIN bs
           fs == [bs EXCEPT ![a].free = TRUE]
           ms == Merged(fs, end)
           s == Shrunk(ms, end)
<1>1. Released(h, a) = s
  BY DEF Released
<1>2. ChainIs(bs, end)
  BY DEF HeapIs
<1>3. bs \in [D -> Blocks]
  BY <1>2 DEF ChainIs
<1>4. DOMAIN fs = D /\ fs \in [D -> Blocks]
  BY <1>3 DEF Blocks
<1>5. \A b \in D : fs[b].size = bs[b].size /\ (b # a => fs[b] = bs[b])
  BY <1>3 DEF Blocks
<1> HIDE DEF fs
<1>6. \A b \in D : NextBlock(fs, b) = NextBlock(bs, b)
  BY <1>5 DEF NextBlock
<1>7. ChainIs(fs, end)
  BY <1>2, <1>4, <1>6 DEF ChainIs
<1>8. ChainIs(ms, end) /\ NoTwoFree(ms) /\ Keeps(fs, ms) /\ DOMAIN ms # {}
  BY <1>4, <1>7, MergedChain
<1> HIDE DEF ms
<1>9. HeapIs(s) /\ Keeps(ms, s.blocks) /\ s.brk <= end
  BY <1>8, ShrunkChain
<1>10. ChainIs(s.blocks, s.brk)
  BY <1>9 DEF HeapIs
<1>11. Keeps(fs, s.blocks)
  <2>1. /\ \A b \in DOMAIN fs : fs[b].size \in Nat
        /\ \A b \in DOMAIN ms : ms[b].size \in Nat
        /\ \A b \in DOMAIN s.blocks : s.blocks[b].size \in Nat
    BY <1>7, <1>8, <1>10, BlockFacts
  <2> HIDE DEF s
  <2> QED
    BY <1>8, <1>9, <2>1, KeepsOn
<1> HIDE DEF s
<1>12. \A b \in D \ {a} : ~bs[b].free =>
         b \in DOMAIN s.blocks /\ ~s.blocks[b].free /\ bs[b].size <= s.blocks[b].size
  BY <1>4, <1>5, <1>11 DEF Keeps
<1> QED
  BY <1>1, <1>9, <1>12

\* The map ts is bs with the block at a.
PutAt(bs, a, block, ts) ==
  /\ DOMAIN ts = DOMAIN bs \cup {a}
  /\ ts[a] = block
  /\ \A b \in DOMAIN bs : b # a => ts[b] = bs[b]
  /\ ts = [b \in DOMAIN bs \cup {a} |-> ts[b]]

\* A block is put into the map of blocks.
LEMMA PutIs == \A bs, a, block : PutAt(bs, a, block, Put(bs, a, block))
BY DEF Put, PutAt

\* A request takes a free block, and leaves the rest of it as a block.
LEMMA TakenChain ==
  ASSUME NEW bs, NEW end, ChainIs(bs, end), Coalesced(bs, end),
         NEW a \in DOMAIN bs, bs[a].free, NEW n \in Nat \ {0}, n <= bs[a].size
  PROVE  /\ ChainIs(Taken(bs, a, n), end)
         /\ Coalesced(Taken(bs, a, n), end)
         /\ a \in DOMAIN Taken(bs, a, n)
         /\ ~Taken(bs, a, n)[a].free
         /\ n <= Taken(bs, a, n)[a].size
         /\ Keeps(bs, Taken(bs, a, n))
<1> DEFINE D == DOMAIN bs
<1>1. /\ D \in SUBSET Nat /\ end \in Nat /\ bs \in [D -> Blocks]
      /\ 0 \in D \cup {end}
      /\ \A b \in D \cup {end} : b # 0 => \E c \in D : NextBlock(bs, c) = b
      /\ \A b, c \in D : b < c => NextBlock(bs, b) <= c
  BY DEF ChainIs
<1>2. \A b \in D : /\ b \in Nat /\ NextBlock(bs, b) \in Nat
                   /\ b + 2 <= NextBlock(bs, b) /\ NextBlock(bs, b) <= end
                   /\ NextBlock(bs, b) = b + 1 + bs[b].size
                   /\ bs[b].size \in Nat \ {0} /\ bs[b].free \in BOOLEAN
                   /\ NextBlock(bs, b) \in D \cup {end}
  BY BlockFacts
<1>3. /\ \A b, c \in D : bs[b].free /\ bs[c].free => NextBlock(bs, b) # c
      /\ \A b \in D : bs[b].free => NextBlock(bs, b) # end
  BY DEF Coalesced, NoTwoFree
<1>4. CASE bs[a].size <= n + 2
  <2> DEFINE ts == Put(bs, a, Block(bs[a].size, FALSE))
  <2>1. Taken(bs, a, n) = ts
    BY <1>4 DEF Taken
  <2>2. PutAt(bs, a, Block(bs[a].size, FALSE), ts) /\ D \cup {a} = D
    BY PutIs
  <2> HIDE DEF ts
  <2>3. /\ DOMAIN ts = D /\ ts[a] = Block(bs[a].size, FALSE)
        /\ \A b \in D : b # a => ts[b] = bs[b]
        /\ ts = [b \in D |-> ts[b]]
    BY <2>2 DEF PutAt
  <2>4. ts[a].size = bs[a].size /\ ts[a].free = FALSE /\ ts[a] \in Blocks
    BY <1>2, <2>3 DEF Block, Blocks
  <2>5. \A b \in D : ts[b].size = bs[b].size /\ (ts[b].free => bs[b].free) /\ ts[b] \in Blocks
    BY <1>1, <2>3, <2>4
  <2>6. \A b \in D : NextBlock(ts, b) = NextBlock(bs, b)
    BY <2>5 DEF NextBlock
  <2>7. ts \in [D -> Blocks]
    BY <2>3, <2>5
  <2>8. ChainIs(ts, end)
    BY <1>1, <1>2, <2>3, <2>6, <2>7 DEF ChainIs
  <2>9. Coalesced(ts, end)
    BY <1>3, <2>3, <2>5, <2>6 DEF Coalesced, NoTwoFree
  <2>10. Keeps(bs, ts)
    BY <1>2, <2>3, <2>5 DEF Keeps
  <2> QED
    BY <2>1, <2>3, <2>4, <2>8, <2>9, <2>10
<1>5. CASE ~(bs[a].size <= n + 2)
  <2> DEFINE z == a + 1 + n
             r == bs[a].size - n - 1
             ps == Put(bs, a, Block(n, FALSE))
             ts == Put(ps, z, Block(r, TRUE))
  <2>1. Taken(bs, a, n) = ts
    BY <1>5 DEF Taken
  <2>2. DOMAIN ps = D /\ ps[a] = Block(n, FALSE) /\ \A b \in D : b # a => ps[b] = bs[b]
    <3>1. PutAt(bs, a, Block(n, FALSE), ps) /\ D \cup {a} = D
      BY PutIs
    <3> HIDE DEF ps
    <3> QED
      BY <3>1 DEF PutAt
  <2>3. /\ DOMAIN ts = DOMAIN ps \cup {z} /\ ts[z] = Block(r, TRUE)
        /\ \A b \in DOMAIN ps : b # z => ts[b] = ps[b]
        /\ ts = [b \in DOMAIN ps \cup {z} |-> ts[b]]
    <3>1. PutAt(ps, z, Block(r, TRUE), ts)
      BY PutIs
    <3> HIDE DEF ts, ps, z, r
    <3> QED
      BY <3>1 DEF PutAt
  <2>4. /\ z \in Nat /\ a < z /\ z < NextBlock(bs, a) /\ r \in Nat \ {0}
        /\ z + 1 + r = NextBlock(bs, a) /\ z = a + 1 + n
    BY <1>2, <1>5
  <2> HIDE DEF ts, ps, z, r
  <2>5. z \notin D
    BY <1>1, <1>2, <2>4
  <2>6. z # end
    BY <1>2, <2>4
  <2>7. /\ DOMAIN ts = D \cup {z}
        /\ ts[z] = Block(r, TRUE) /\ ts[a] = Block(n, FALSE)
        /\ \A b \in D : b # a => ts[b] = bs[b]
    BY <2>2, <2>3, <2>5
  <2>8. ts[z].size = r /\ ts[z].free = TRUE /\ ts[a].size = n /\ ts[a].free = FALSE
    BY <2>7 DEF Block
  <2>9. ts[z] \in Blocks /\ ts[a] \in Blocks
    BY <2>4, <2>7 DEF Block, Blocks
  <2>10. \A b \in D \cup {z} : ts[b] \in Blocks
    BY <1>1, <2>7, <2>9
  <2>11. ts \in [D \cup {z} -> Blocks]
    BY <2>2, <2>3, <2>10
  <2>12. NextBlock(ts, a) = z /\ NextBlock(ts, z) = NextBlock(bs, a)
    BY <2>4, <2>8 DEF NextBlock
  <2>13. \A b \in D : b # a => NextBlock(ts, b) = NextBlock(bs, b)
    BY <2>7 DEF NextBlock
  <2>14. \A b \in D \cup {z} : NextBlock(ts, b) \in D \cup {z} \cup {end} /\ NextBlock(ts, b) <= end
    <3>1. z <= end
      BY <1>1, <1>2, <2>4
    <3> QED
      BY <1>2, <2>12, <2>13, <3>1
  <2>15. ASSUME NEW b \in D \cup {z} \cup {end}, b # 0
         PROVE  \E c \in D \cup {z} : NextBlock(ts, c) = b
    <3>1. CASE b = z
      BY <2>12, <3>1
    <3>2. CASE b # z
      <4>1. PICK c \in D : NextBlock(bs, c) = b
        BY <1>1, <2>15, <3>2
      <4>2. CASE c = a
        BY <2>12, <4>1, <4>2
      <4>3. CASE c # a
        BY <2>13, <4>1, <4>3
      <4> QED
        BY <4>2, <4>3
    <3> QED
      BY <3>1, <3>2
  <2>16. ASSUME NEW b \in D \cup {z}, NEW c \in D \cup {z}, b < c
         PROVE  NextBlock(ts, b) <= c
    <3>1. CASE b = z /\ c \in D
      <4>1. a < c
        BY <1>2, <2>4, <2>16, <3>1
      <4> QED
        BY <1>1, <2>12, <3>1, <4>1
    <3>2. CASE b = a /\ c \in D
      <4>1. NextBlock(bs, a) <= c /\ c \in Nat
        BY <1>1, <2>16, <3>2
      <4> QED
        BY <1>2, <2>4, <2>12, <3>2, <4>1
    <3>3. CASE b \in D /\ b # a /\ c \in D
      BY <1>1, <2>13, <2>16, <3>3
    <3>4. CASE b = a /\ c = z
      BY <2>4, <2>12, <3>4
    <3>5. CASE b \in D /\ b # a /\ c = z
      <4>1. ~(a < b)
        <5>1. a < b => NextBlock(bs, a) <= b
          BY <1>1, <3>5
        <5> QED
          BY <1>2, <2>4, <2>16, <3>5, <5>1
      <4>2. NextBlock(bs, b) <= a
        BY <1>1, <1>2, <3>5, <4>1
      <4> QED
        BY <1>2, <2>4, <2>13, <3>5, <4>2
    <3>6. CASE b = z /\ c = z
      BY <2>4, <2>16, <3>6
    <3> QED
      BY <3>1, <3>2, <3>3, <3>4, <3>5, <3>6
  <2>17. ChainIs(ts, end)
    <3>1. D \cup {z} \in SUBSET Nat /\ 0 \in D \cup {z} \cup {end}
      BY <1>1, <2>4
    <3> QED
      BY <1>1, <2>7, <2>11, <2>14, <2>15, <2>16, <3>1 DEF ChainIs
  <2>18. \A b \in D \cup {z} : ts[b].free => b = z \/ (b \in D /\ b # a /\ bs[b].free)
    BY <2>7, <2>8
  <2>19. Coalesced(ts, end)
    <3>1. \A b \in D \cup {z} : ts[b].free => NextBlock(ts, b) # end
      BY <1>3, <2>12, <2>13, <2>18
    <3>2. ASSUME NEW b \in D \cup {z}, NEW c \in D \cup {z}, ts[b].free, ts[c].free
          PROVE  NextBlock(ts, b) # c
      <4>1. CASE b = z /\ c = z
        BY <1>2, <2>4, <2>12, <4>1
      <4>2. CASE b = z /\ c # z
        BY <1>3, <2>12, <2>18, <3>2, <4>2
      <4>3. CASE b # z /\ c = z
        BY <1>2, <2>5, <2>6, <2>13, <2>18, <3>2, <4>3
      <4>4. CASE b # z /\ c # z
        BY <1>3, <2>13, <2>18, <3>2, <4>4
      <4> QED
        BY <4>1, <4>2, <4>3, <4>4
    <3> QED
      BY <2>7, <3>1, <3>2 DEF Coalesced, NoTwoFree
  <2>20. Keeps(bs, ts)
    BY <1>2, <2>7 DEF Keeps
  <2>21. a \in DOMAIN ts /\ ~ts[a].free /\ n <= ts[a].size
    <3>1. ~ts[a].free
      BY <2>8, Zenon
    <3>2. n <= ts[a].size
      BY <2>8
    <3> QED
      BY <2>7, <3>1, <3>2
  <2> QED
    BY <2>1, <2>17, <2>19, <2>20, <2>21
<1> QED
  BY <1>4, <1>5

\* A request that no block fits moves the break.
LEMMA AppendedChain ==
  ASSUME NEW bs, NEW end, ChainIs(bs, end), Coalesced(bs, end), NEW n \in Nat \ {0}
  PROVE  /\ ChainIs(Put(bs, end, Block(n, FALSE)), end + 1 + n)
         /\ Coalesced(Put(bs, end, Block(n, FALSE)), end + 1 + n)
         /\ Keeps(bs, Put(bs, end, Block(n, FALSE)))
         /\ end \notin DOMAIN bs
<1> DEFINE D == DOMAIN bs
           ts == Put(bs, end, Block(n, FALSE))
           brk == end + 1 + n
<1>1. /\ D \in SUBSET Nat /\ end \in Nat /\ bs \in [D -> Blocks]
      /\ 0 \in D \cup {end}
      /\ \A b \in D \cup {end} : b # 0 => \E c \in D : NextBlock(bs, c) = b
      /\ \A b, c \in D : b < c => NextBlock(bs, b) <= c
  BY DEF ChainIs
<1>2. \A b \in D : /\ b \in Nat /\ NextBlock(bs, b) \in Nat
                   /\ b + 2 <= NextBlock(bs, b) /\ NextBlock(bs, b) <= end
                   /\ bs[b].size \in Nat \ {0} /\ bs[b].free \in BOOLEAN
                   /\ NextBlock(bs, b) \in D \cup {end}
  BY BlockFacts
<1>3. /\ \A b, c \in D : bs[b].free /\ bs[c].free => NextBlock(bs, b) # c
      /\ \A b \in D : bs[b].free => NextBlock(bs, b) # end
  BY DEF Coalesced, NoTwoFree
<1>4. end \notin D
  BY <1>1, <1>2
<1>5. /\ DOMAIN ts = D \cup {end} /\ ts[end] = Block(n, FALSE)
      /\ \A b \in D : b # end => ts[b] = bs[b]
      /\ ts = [b \in D \cup {end} |-> ts[b]]
  <2>1. PutAt(bs, end, Block(n, FALSE), ts)
    BY PutIs
  <2> HIDE DEF ts
  <2> QED
    BY <2>1 DEF PutAt
<1>6. brk = end + 1 + n /\ brk \in Nat /\ end < brk
  BY <1>1
<1> HIDE DEF ts, brk
<1>7. ts[end].size = n /\ ts[end].free = FALSE /\ ts[end] \in Blocks
  BY <1>5 DEF Block, Blocks
<1>8. \A b \in D : ts[b] = bs[b]
  BY <1>4, <1>5
<1>9. ts \in [D \cup {end} -> Blocks]
  <2>1. \A b \in D \cup {end} : ts[b] \in Blocks
    BY <1>1, <1>7, <1>8
  <2> QED
    BY <1>5, <2>1
<1>10. NextBlock(ts, end) = brk
  BY <1>6, <1>7 DEF NextBlock
<1>11. \A b \in D : NextBlock(ts, b) = NextBlock(bs, b)
  BY <1>8 DEF NextBlock
<1>12. ChainIs(ts, brk)
  <2>1. \A b \in D \cup {end} : NextBlock(ts, b) \in D \cup {end} \cup {brk} /\ NextBlock(ts, b) <= brk
    BY <1>1, <1>2, <1>6, <1>10, <1>11
  <2>2. \A b \in D \cup {end} \cup {brk} : b # 0 => \E c \in D \cup {end} : NextBlock(ts, c) = b
    BY <1>1, <1>10, <1>11
  <2>3. \A b, c \in D \cup {end} : b < c => NextBlock(ts, b) <= c
    <3> SUFFICES ASSUME NEW b \in D \cup {end}, NEW c \in D \cup {end}, b < c
                 PROVE  NextBlock(ts, b) <= c
      OBVIOUS
    <3>1. b # end
      BY <1>1, <1>2
    <3> QED
      BY <1>1, <1>2, <1>11, <3>1
  <2>4. D \cup {end} \in SUBSET Nat /\ 0 \in D \cup {end} \cup {brk}
    BY <1>1
  <2> QED
    BY <1>5, <1>6, <1>9, <2>1, <2>2, <2>3, <2>4 DEF ChainIs
<1>13. \A b \in D \cup {end} : ts[b].free => b \in D /\ bs[b].free
  BY <1>7, <1>8
<1>14. Coalesced(ts, brk)
  <2>1. \A b \in D \cup {end} : ts[b].free => NextBlock(ts, b) # brk
    BY <1>1, <1>2, <1>6, <1>11, <1>13
  <2>2. \A b, c \in D \cup {end} : ts[b].free /\ ts[c].free => NextBlock(ts, b) # c
    BY <1>3, <1>11, <1>13
  <2> QED
    BY <1>5, <2>1, <2>2 DEF Coalesced, NoTwoFree
<1>15. Keeps(bs, ts)
  BY <1>2, <1>5, <1>8 DEF Keeps
<1> QED
  BY <1>4, <1>12, <1>14, <1>15 DEF ts, brk

\* malloc gives a block of a heap that is used and large enough, and that was not used.
LEMMA MallocsHeap ==
  ASSUME MallocOK, Moderate, NEW h, HeapIs(h), h.brk <= Space,
         NEW n \in Sizes, NEW out \in Mallocs(h, n)
  PROVE  /\ HeapIs(out[1]) /\ out[1].brk <= Space
         /\ out[2] \in DOMAIN out[1].blocks
         /\ ~out[1].blocks[out[2]].free
         /\ n <= out[1].blocks[out[2]].size
         /\ Keeps(h.blocks, out[1].blocks)
         /\ out[2] \in DOMAIN h.blocks => h.blocks[out[2]].free
<1> DEFINE bs == h.blocks
           end == h.brk
<1>1. ChainIs(bs, end) /\ Coalesced(bs, end) /\ end \in Nat /\ h = [brk |-> end, blocks |-> bs]
  BY DEF HeapIs, ChainIs
<1>0. n \in Nat \ {0} /\ Space \in Nat /\ Signed(1 + n) = 1 + n
  <2>1. n \in Nat \ {0} /\ Space \in Nat /\ 1 + n \in Nat /\ 1 + n <= MaxRequest + 1
    BY DEF MallocOK, Sizes
  <2> QED
    BY <2>1, SignedIs
<1>2. CASE Fitting(h, n) # {}
  <2> DEFINE a == Min(Fitting(h, n))
             ts == Taken(bs, a, n)
  <2>1. Fitting(h, n) \in SUBSET Nat
    BY <1>1 DEF Fitting, ChainIs
  <2>2. a \in Fitting(h, n)
    BY <1>2, <2>1, MinIs
  <2> HIDE DEF a
  <2>3. a \in DOMAIN bs /\ bs[a].free /\ bs[a].size >= n
    BY <2>2 DEF Fitting
  <2>4. n <= bs[a].size
    BY <1>0, <1>1, <2>3, BlockFacts
  <2>5. /\ ChainIs(ts, end) /\ Coalesced(ts, end) /\ a \in DOMAIN ts
        /\ ~ts[a].free /\ n <= ts[a].size /\ Keeps(bs, ts)
    BY <1>0, <1>1, <2>3, <2>4, TakenChain
  <2>6. out = <<[h EXCEPT !.blocks = Taken(@, a, n)], a>>
    BY <1>2 DEF Mallocs, a
  <2> HIDE DEF ts
  <2>7. out[1] = [brk |-> end, blocks |-> ts] /\ out[2] = a
    BY <1>1, <2>6 DEF ts
  <2>8. out[1].brk = end /\ out[1].blocks = ts
    BY <2>7
  <2>9. HeapIs(out[1])
    BY <2>5, <2>7, <2>8 DEF HeapIs
  <2> QED
    BY <2>3, <2>5, <2>7, <2>8, <2>9
<1>3. CASE Fitting(h, n) = {}
  <2> DEFINE ts == Put(bs, end, Block(n, FALSE))
  <2>1. end + 1 + n <= Space /\ out = <<[brk |-> end + 1 + n, blocks |-> ts], end>>
    <3>1. PICK b \in {end + Signed(1 + n)} \cap 0 .. Space : out = <<[brk |-> b, blocks |-> ts], end>>
      BY <1>3 DEF Mallocs
    <3>2. b = end + 1 + n /\ b <= Space
      BY <1>0, <1>1, <3>1
    <3> QED
      BY <3>1, <3>2
  <2>2. /\ ChainIs(ts, end + 1 + n) /\ Coalesced(ts, end + 1 + n)
        /\ Keeps(bs, ts) /\ end \notin DOMAIN bs
    BY <1>0, <1>1, AppendedChain
  <2>3. PutAt(bs, end, Block(n, FALSE), ts)
    BY PutIs
  <2> HIDE DEF ts
  <2>4. out[1] = [brk |-> end + 1 + n, blocks |-> ts] /\ out[2] = end
    BY <2>1
  <2>5. out[1].brk = end + 1 + n /\ out[1].blocks = ts
    BY <2>4
  <2>6. end \in DOMAIN ts /\ ts[end].free = FALSE /\ ts[end].size = n
    BY <2>3 DEF PutAt, Block
  <2>7. ~ts[end].free
    BY <2>6, Zenon
  <2>8. n <= ts[end].size
    BY <1>0, <2>6
  <2>9. HeapIs(out[1])
    BY <2>2, <2>4, <2>5 DEF HeapIs
  <2> QED
    BY <2>1, <2>2, <2>4, <2>5, <2>6, <2>7, <2>8, <2>9
<1> QED
  BY <1>2, <1>3

-----------------------------------------------------------------------------
(* What the program holds.                                                   *)

\* Every area begins behind the header of a used block, and ends in the block.
Holds(bs, held) ==
  \A p \in DOMAIN held :
    /\ p \in Nat \ {0} /\ p - 1 \in DOMAIN bs /\ ~bs[p - 1].free
    /\ held[p] \in Sizes /\ held[p] <= bs[p - 1].size

\* The inductive invariant: the areas lie in used blocks, one for each.
HeapInv ==
  /\ HeapIs(heap) /\ heap.brk <= Space
  /\ Holds(heap.blocks, areas)

\* Blocks that are used in both keep what the program holds.
LEMMA HoldsKept ==
  ASSUME NEW bs, NEW cs, NEW e, NEW d, ChainIs(bs, e), ChainIs(cs, d),
         Keeps(bs, cs), NEW held, Holds(bs, held), MallocOK
  PROVE  Holds(cs, held)
<1> SUFFICES ASSUME NEW p \in DOMAIN held
             PROVE  /\ p - 1 \in DOMAIN cs /\ ~cs[p - 1].free
                    /\ held[p] <= cs[p - 1].size
  BY DEF Holds
<1>1. /\ p - 1 \in DOMAIN bs /\ ~bs[p - 1].free /\ held[p] \in Nat
      /\ held[p] <= bs[p - 1].size
  BY DEF Holds, Sizes, MallocOK
<1>2. p - 1 \in DOMAIN cs /\ ~cs[p - 1].free /\ bs[p - 1].size <= cs[p - 1].size
  BY <1>1 DEF Keeps
<1> DEFINE x == bs[p - 1].size
           y == cs[p - 1].size
<1>3. x \in Nat /\ y \in Nat
  BY <1>1, <1>2, BlockFacts
<1>4. held[p] <= x /\ x <= y
  BY <1>1, <1>2
<1> HIDE DEF x, y
<1>5. held[p] <= y
  BY <1>1, <1>3, <1>4
<1> QED
  BY <1>2, <1>5 DEF y

\* The areas new are those held and one more.
WithOne(held, p, n, new) ==
  /\ DOMAIN new = DOMAIN held \cup {p}
  /\ new[p] = n
  /\ \A q \in DOMAIN held : q # p => new[q] = held[q]

\* What With and Without make.
LEMMA WithIs == \A held, p, n : WithOne(held, p, n, With(held, p, n))
BY DEF With, WithOne

\* What is held once an area is given up.
LEMMA WithoutIs ==
  \A held, p :
    /\ DOMAIN Without(held, p) = DOMAIN held \ {p}
    /\ \A q \in DOMAIN held \ {p} : Without(held, p)[q] = held[q]
BY DEF Without

\* A new area in a used block.
LEMMA HoldsWith ==
  ASSUME NEW bs, NEW held, Holds(bs, held), NEW a \in DOMAIN bs, a \in Nat, ~bs[a].free,
         NEW n \in Sizes, n <= bs[a].size
  PROVE  Holds(bs, With(held, a + 1, n))
<1> DEFINE new == With(held, a + 1, n)
<1>1. DOMAIN new = DOMAIN held \cup {a + 1} /\ new[a + 1] = n
      /\ \A q \in DOMAIN held : q # a + 1 => new[q] = held[q]
  <2>1. WithOne(held, a + 1, n, new)
    BY WithIs
  <2> HIDE DEF new
  <2> QED
    BY <2>1 DEF WithOne
<1> HIDE DEF new
<1>2. a + 1 \in Nat \ {0} /\ (a + 1) - 1 = a
  OBVIOUS
<1>3. Holds(bs, new)
  <2> SUFFICES ASSUME NEW p \in DOMAIN new
               PROVE  /\ p \in Nat \ {0} /\ p - 1 \in DOMAIN bs /\ ~bs[p - 1].free
                      /\ new[p] \in Sizes /\ new[p] <= bs[p - 1].size
    BY DEF Holds
  <2>1. CASE p = a + 1
    BY <1>1, <1>2, <2>1
  <2>2. CASE p # a + 1
    BY <1>1, <2>2 DEF Holds
  <2> QED
    BY <2>1, <2>2
<1> QED
  BY <1>3 DEF new

\* After free, what is held but the area freed.
LEMMA HoldsWithout ==
  ASSUME MallocOK, Moderate, NEW h, HeapIs(h), h.brk <= Space,
         NEW held, Holds(h.blocks, held), NEW p \in DOMAIN held
  PROVE  Holds(Released(h, p - 1).blocks, Without(held, p))
<1> DEFINE bs == h.blocks
           cs == Released(h, p - 1).blocks
           new == Without(held, p)
<1>1. p - 1 \in DOMAIN bs /\ p \in Nat \ {0}
  BY DEF Holds
<1>2. /\ HeapIs(Released(h, p - 1))
      /\ \A b \in DOMAIN bs \ {p - 1} : ~bs[b].free =>
           b \in DOMAIN cs /\ ~cs[b].free /\ bs[b].size <= cs[b].size
  BY <1>1, ReleasedHeap
<1>3. ChainIs(bs, h.brk) /\ ChainIs(cs, Released(h, p - 1).brk)
  BY <1>2 DEF HeapIs
<1>4. DOMAIN new = DOMAIN held \ {p} /\ \A q \in DOMAIN held \ {p} : new[q] = held[q]
  BY WithoutIs
<1> HIDE DEF bs, cs, new
<1>5. Holds(bs, held)
  BY DEF bs
<1>6. Holds(cs, new)
  <2> SUFFICES ASSUME NEW q \in DOMAIN held \ {p}
               PROVE  /\ q \in Nat \ {0} /\ q - 1 \in DOMAIN cs /\ ~cs[q - 1].free
                      /\ held[q] \in Sizes /\ held[q] <= cs[q - 1].size
    BY <1>4 DEF Holds
  <2>1. /\ q \in Nat \ {0} /\ q - 1 \in DOMAIN bs /\ ~bs[q - 1].free
        /\ held[q] \in Sizes /\ held[q] <= bs[q - 1].size
    BY <1>5 DEF Holds
  <2>2. q - 1 # p - 1
    BY <1>1, <2>1
  <2>3. q - 1 \in DOMAIN cs /\ ~cs[q - 1].free /\ bs[q - 1].size <= cs[q - 1].size
    BY <1>2, <2>1, <2>2
  <2> DEFINE x == bs[q - 1].size
             y == cs[q - 1].size
  <2>4. x \in Nat /\ y \in Nat /\ held[q] \in Nat
    BY <1>3, <2>1, <2>3, BlockFacts DEF Sizes, MallocOK
  <2>5. held[q] <= x /\ x <= y
    BY <2>1, <2>3
  <2> HIDE DEF x, y
  <2>6. held[q] <= y
    BY <2>4, <2>5
  <2> QED
    BY <2>1, <2>3, <2>6 DEF y
<1> QED
  BY <1>6 DEF cs, new

\* The area of a block is disjoint from those of the others.
LEMMA RangesApart ==
  ASSUME MallocOK, NEW bs, NEW end, ChainIs(bs, end), end <= Space,
         NEW held, Holds(bs, held), NEW a \in DOMAIN bs, a + 1 \notin DOMAIN held,
         NEW n \in Nat, n <= bs[a].size
  PROVE  /\ a + 1 .. a + 1 + n - 1 \subseteq Held!Addresses \ Held!Taken(held)
         /\ a + 1 \in Held!Addresses
         /\ n <= Space
<1>1. /\ a \in Nat /\ end \in Nat /\ Space \in Nat
      /\ bs[a].size \in Nat /\ NextBlock(bs, a) = a + 1 + bs[a].size /\ NextBlock(bs, a) <= end
  BY BlockFacts DEF MallocOK
<1> DEFINE z == bs[a].size
<1>2. z \in Nat /\ NextBlock(bs, a) = a + 1 + z /\ a + 1 + z <= Space /\ n <= z
  BY <1>1
<1> HIDE DEF z
<1>3. a + 1 \in 0..Space /\ n <= Space
  BY <1>1, <1>2
<1>4. ASSUME NEW i \in a + 1 .. a + 1 + n - 1 PROVE i \in 0..Space /\ a < i /\ i <= a + z
  BY <1>1, <1>2
<1>5. ASSUME NEW i \in a + 1 .. a + 1 + n - 1, NEW p \in DOMAIN held, i \in p .. p + held[p] - 1
      PROVE  FALSE
  <2>1. p \in Nat \ {0} /\ p - 1 \in DOMAIN bs /\ held[p] \in Nat /\ held[p] <= bs[p - 1].size
    BY DEF Holds, Sizes, MallocOK
  <2> DEFINE b == p - 1
             y == bs[p - 1].size
  <2>2. y \in Nat /\ NextBlock(bs, b) = b + 1 + y /\ b \in Nat /\ p = b + 1 /\ b \in DOMAIN bs
    BY <2>1, BlockFacts
  <2>3. held[p] <= y
    BY <2>1
  <2> HIDE DEF b, y
  <2>4. b < i /\ i <= b + y
    BY <1>1, <1>4, <1>5, <2>1, <2>2, <2>3
  <2>5. b # a
    BY <2>2
  <2>6. a < b => a + 1 + z <= b
    BY <1>2, <2>2 DEF ChainIs
  <2>7. b < a => b + 1 + y <= a
    BY <2>2 DEF ChainIs
  <2> QED
    BY <1>1, <1>2, <1>4, <2>2, <2>4, <2>5, <2>6, <2>7
<1> QED
  BY <1>3, <1>4, <1>5 DEF Held!Addresses, Held!Taken

\* The numbers there are.
LEMMA MallocConstants ==
  ASSUME MallocOK
  PROVE  /\ Space \in Nat /\ Sizes \subseteq Nat \ {0}
         /\ Held!Addresses = 0..Space
BY DEF MallocOK, Sizes, Held!Addresses

\* What the invariant says of the heap and of an area.
LEMMA HeapInvFacts ==
  ASSUME MallocOK, HeapInv
  PROVE  /\ HeapIs(heap) /\ heap.brk <= Space /\ Space \in Nat
         /\ ChainIs(heap.blocks, heap.brk) /\ heap.brk \in Nat
         /\ Holds(heap.blocks, areas)
BY DEF HeapInv, HeapIs, ChainIs, MallocOK

\* The heap is empty at first.
LEMMA MallocStart ==
  ASSUME MallocOK, MallocInit
  PROVE  HeapInv /\ Held!Init
<1>1. heap = [brk |-> 0, blocks |-> NoFunction] /\ areas = NoFunction
  BY DEF MallocInit
<1>2. DOMAIN NoFunction = {} /\ NoFunction = [a \in DOMAIN NoFunction |-> NoFunction[a]]
  BY DEF NoFunction
<1>3. heap.brk = 0 /\ heap.blocks = NoFunction
  BY <1>1
<1>4. ChainIs(NoFunction, 0)
  <2>1. NoFunction \in [DOMAIN NoFunction -> Blocks]
    BY <1>2
  <2> QED
    BY <1>2, <2>1 DEF ChainIs
<1>5. Coalesced(NoFunction, 0)
  BY <1>2 DEF Coalesced, NoTwoFree
<1>6. HeapIs(heap)
  BY <1>1, <1>3, <1>4, <1>5 DEF HeapIs
<1>7. Holds(heap.blocks, areas)
  BY <1>1, <1>2 DEF Holds
<1>8. heap.brk <= Space
  BY <1>3 DEF MallocOK
<1>9. Held!Init
  BY <1>1 DEF Held!Init, NoFunction
<1> QED
  BY <1>1, <1>2, <1>6, <1>7, <1>8, <1>9 DEF HeapInv

\* A block for n: what malloc and realloc do with it.
LEMMA NewArea ==
  ASSUME MallocOK, Moderate, HeapInv, NEW n \in Sizes, NEW out \in Mallocs(heap, n)
  PROVE  /\ HeapIs(out[1]) /\ out[1].brk <= Space
         /\ Holds(out[1].blocks, areas)
         /\ out[2] \in Nat /\ out[2] \in DOMAIN out[1].blocks
         /\ ~out[1].blocks[out[2]].free /\ n <= out[1].blocks[out[2]].size
         /\ out[2] + 1 \notin DOMAIN areas
         /\ Held!Hand(areas, out[2] + 1, n) <=> areas' = With(areas, out[2] + 1, n)
         /\ out[2] + 1 .. out[2] + 1 + n - 1 \subseteq Held!Addresses \ Held!Taken(areas)
         /\ out[2] + 1 \in Held!Addresses /\ n \in 1..Space
<1>1. /\ HeapIs(heap) /\ heap.brk <= Space /\ Space \in Nat
      /\ ChainIs(heap.blocks, heap.brk) /\ Holds(heap.blocks, areas)
      /\ n \in Nat \ {0}
  BY HeapInvFacts, MallocConstants
<1>2. /\ HeapIs(out[1]) /\ out[1].brk <= Space
      /\ out[2] \in DOMAIN out[1].blocks
      /\ ~out[1].blocks[out[2]].free
      /\ n <= out[1].blocks[out[2]].size
      /\ Keeps(heap.blocks, out[1].blocks)
      /\ out[2] \in DOMAIN heap.blocks => heap.blocks[out[2]].free
  BY <1>1, MallocsHeap
<1>3. ChainIs(out[1].blocks, out[1].brk)
  BY <1>2 DEF HeapIs
<1>4. Holds(out[1].blocks, areas)
  BY <1>1, <1>2, <1>3, HoldsKept
<1>5. out[2] \in Nat
  BY <1>2, <1>3, BlockFacts
<1>6. out[2] + 1 \notin DOMAIN areas
  <2>1. (out[2] + 1) - 1 = out[2]
    BY <1>5
  <2> QED
    BY <1>1, <1>2, <2>1 DEF Holds
<1>7. /\ out[2] + 1 .. out[2] + 1 + n - 1 \subseteq Held!Addresses \ Held!Taken(areas)
      /\ out[2] + 1 \in Held!Addresses /\ n <= Space
  BY <1>1, <1>2, <1>3, <1>4, <1>6, RangesApart
<1>8. Held!Hand(areas, out[2] + 1, n) <=> areas' = With(areas, out[2] + 1, n)
  BY <1>7 DEF Held!Hand, Held!With, With
<1>9. n \in 1..Space
  BY <1>1, <1>7
<1> QED
  BY <1>2, <1>4, <1>5, <1>6, <1>7, <1>8, <1>9

\* malloc keeps the invariant, and hands out a new area.
LEMMA MallocStep ==
  ASSUME MallocOK, Moderate, HeapInv, NEW n \in Sizes, Malloc(n)
  PROVE  HeapInv' /\ Held!Next
<1>1. PICK out \in Mallocs(heap, n) : heap' = out[1] /\ areas' = With(areas, out[2] + 1, n)
  BY DEF Malloc
<1>2. /\ HeapIs(out[1]) /\ out[1].brk <= Space
      /\ Holds(out[1].blocks, areas)
      /\ out[2] \in Nat /\ out[2] \in DOMAIN out[1].blocks
      /\ ~out[1].blocks[out[2]].free /\ n <= out[1].blocks[out[2]].size
  BY NewArea
<1>3. Held!Hand(areas, out[2] + 1, n) /\ out[2] + 1 \in Held!Addresses /\ n \in 1..Space
  BY <1>1, NewArea
<1>4. Holds(out[1].blocks, With(areas, out[2] + 1, n))
  BY <1>2, HoldsWith
<1>5. Held!Next
  BY <1>3 DEF Held!Next, Held!Alloc
<1> QED
  BY <1>1, <1>2, <1>4, <1>5 DEF HeapInv

\* free keeps it, and takes the area back.
LEMMA FreeStep ==
  ASSUME MallocOK, Moderate, HeapInv, NEW p \in DOMAIN areas, Free(p)
  PROVE  HeapInv' /\ Held!Next
<1>1. heap' = Released(heap, p - 1) /\ areas' = Without(areas, p)
  BY DEF Free
<1>2. HeapIs(heap) /\ heap.brk <= Space /\ heap.brk \in Nat /\ Space \in Nat /\ Holds(heap.blocks, areas)
  BY HeapInvFacts
<1>3. p - 1 \in DOMAIN heap.blocks
  BY <1>2 DEF Holds
<1>4. HeapIs(Released(heap, p - 1)) /\ Released(heap, p - 1).brk <= heap.brk
  BY <1>2, <1>3, ReleasedHeap
<1>5. Holds(Released(heap, p - 1).blocks, Without(areas, p))
  BY <1>2, HoldsWithout
<1>6. heap'.brk <= Space
  <2>1. Released(heap, p - 1).brk \in Nat
    BY <1>4 DEF HeapIs, ChainIs
  <2> QED
    BY <1>1, <1>2, <1>4, <2>1
<1>7. Held!Next
  BY <1>1 DEF Held!Next, Held!Release, Held!Without, Without
<1> QED
  BY <1>1, <1>4, <1>5, <1>6, <1>7 DEF HeapInv

\* realloc keeps it: the old area stays, or gives way to a new one.
LEMMA ReallocStep ==
  ASSUME MallocOK, Moderate, HeapInv, NEW p \in DOMAIN areas, NEW n \in Sizes, Realloc(p, n)
  PROVE  HeapInv' /\ Held!Next
<1>1. /\ HeapIs(heap) /\ heap.brk <= Space /\ heap.brk \in Nat /\ Space \in Nat
      /\ ChainIs(heap.blocks, heap.brk)
      /\ Holds(heap.blocks, areas) /\ n \in Nat \ {0}
  BY HeapInvFacts, MallocConstants
<1>2. p \in Nat \ {0} /\ p - 1 \in DOMAIN heap.blocks /\ ~heap.blocks[p - 1].free /\ (p - 1) + 1 = p
  BY <1>1 DEF Holds
<1>3. CASE heap.blocks[p - 1].size >= n
  <2>1. heap' = heap /\ areas' = With(areas, p, n)
    BY <1>3 DEF Realloc
  <2>2. heap.blocks[p - 1].size \in Nat
    BY <1>1, <1>2, BlockFacts
  <2>3. n <= heap.blocks[p - 1].size
    BY <1>1, <1>3, <2>2
  <2>4. p - 1 \in Nat
    BY <1>2
  <2>5. Holds(heap.blocks, With(areas, p - 1 + 1, n))
    BY <1>1, <1>2, <2>3, <2>4, HoldsWith
  <2>6. Holds(heap.blocks, With(areas, p, n))
    BY <1>2, <2>5
  <2> DEFINE rest == Without(areas, p)
  <2>8. DOMAIN rest = DOMAIN areas \ {p} /\ \A q \in DOMAIN areas \ {p} : rest[q] = areas[q]
    BY WithoutIs
  <2>9. With(rest, p, n) = With(areas, p, n)
    <3>1. DOMAIN rest \cup {p} = DOMAIN areas \cup {p}
      BY <2>8
    <3>2. \A q \in DOMAIN areas \cup {p} : q # p => rest[q] = areas[q]
      BY <2>8
    <3> HIDE DEF rest
    <3> QED
      BY <3>1, <3>2 DEF With
  <2>10. rest = Held!Without(areas, p)
    BY DEF Held!Without, Without
  <2> HIDE DEF rest
  <2>11. Holds(heap.blocks, rest)
    BY <1>1, <2>8 DEF Holds
  <2>12. p - 1 + 1 \notin DOMAIN rest
    BY <1>2, <2>8
  <2>13. /\ p - 1 + 1 .. p - 1 + 1 + n - 1 \subseteq Held!Addresses \ Held!Taken(rest)
         /\ n <= Space
    BY <1>1, <1>2, <2>3, <2>11, <2>12, RangesApart
  <2>14. p .. p + n - 1 \subseteq Held!Addresses \ Held!Taken(rest)
    BY <1>2, <2>13
  <2>15. Held!Hand(rest, p, n)
    BY <2>1, <2>9, <2>14 DEF Held!Hand, Held!With, With
  <2>16. n \in 1..Space
    BY <1>1, <2>13
  <2>17. Held!Next
    BY <2>10, <2>15, <2>16 DEF Held!Next, Held!Resize
  <2> QED
    BY <1>1, <2>1, <2>6, <2>17 DEF HeapInv
<1>4. CASE ~(heap.blocks[p - 1].size >= n)
  <2>1. PICK out \in Mallocs(heap, n) :
          /\ heap' = Released(out[1], p - 1)
          /\ areas' = With(Without(areas, p), out[2] + 1, n)
    BY <1>4 DEF Realloc
  <2>2. /\ HeapIs(out[1]) /\ out[1].brk <= Space
        /\ Holds(out[1].blocks, areas)
        /\ out[2] \in Nat /\ out[2] \in DOMAIN out[1].blocks
        /\ ~out[1].blocks[out[2]].free /\ n <= out[1].blocks[out[2]].size
        /\ out[2] + 1 \notin DOMAIN areas
    BY NewArea
  <2>3. /\ out[2] + 1 .. out[2] + 1 + n - 1 \subseteq Held!Addresses \ Held!Taken(areas)
        /\ out[2] + 1 \in Held!Addresses /\ n \in 1..Space
    BY NewArea
  <2> DEFINE a == out[2] + 1
             all == With(areas, a, n)
             left == Without(all, p)
  <2>4. Holds(out[1].blocks, all)
    BY <2>2, HoldsWith
  <2>5. DOMAIN all = DOMAIN areas \cup {a} /\ all[a] = n /\ \A q \in DOMAIN areas : q # a => all[q] = areas[q]
    <3>1. WithOne(areas, a, n, all)
      BY WithIs
    <3> HIDE DEF all, a
    <3> QED
      BY <3>1 DEF WithOne
  <2>6. p \in DOMAIN all /\ a # p
    BY <2>2, <2>5
  <2>7. With(Without(areas, p), a, n) = left
    <3>1. /\ DOMAIN Without(areas, p) = DOMAIN areas \ {p}
          /\ \A q \in DOMAIN areas \ {p} : Without(areas, p)[q] = areas[q]
      BY WithoutIs
    <3> HIDE DEF all, a
    <3>2. (DOMAIN areas \ {p}) \cup {a} = DOMAIN all \ {p}
      BY <2>5, <2>6
    <3>3. \A q \in DOMAIN all \ {p} : all[q] = IF q = a THEN n ELSE Without(areas, p)[q]
      BY <2>5, <3>1
    <3> QED
      BY <3>1, <3>2, <3>3 DEF With, Without
  <2>8. Holds(Released(out[1], p - 1).blocks, left)
    <3> HIDE DEF all
    <3> QED
      BY <2>2, <2>4, <2>6, HoldsWithout
  <2>9. p - 1 \in DOMAIN out[1].blocks
    BY <2>2 DEF Holds
  <2>10. HeapIs(Released(out[1], p - 1)) /\ Released(out[1], p - 1).brk <= out[1].brk
    BY <2>2, <2>9, ReleasedHeap
  <2>11. heap'.brk <= Space
    <3>1. Released(out[1], p - 1).brk \in Nat /\ out[1].brk \in Nat
      BY <2>2, <2>10 DEF HeapIs, ChainIs
    <3> QED
      BY <1>1, <2>1, <2>2, <2>10, <3>1
  <2>13. Held!Next
    <3>1. areas' = Held!With(Held!Without(areas, p), out[2] + 1, n)
      BY <2>1 DEF Held!With, Held!Without, With, Without
    <3> QED
      BY <2>3, <3>1 DEF Held!Next, Held!Resize
  <2> QED
    BY <2>1, <2>7, <2>8, <2>10, <2>11, <2>13 DEF HeapInv
<1> QED
  BY <1>3, <1>4

\* Every step keeps it, and is one of Areas.
LEMMA MallocSteps ==
  ASSUME MallocOK, Moderate, HeapInv, [MallocNext]_mallocVars
  PROVE  HeapInv' /\ [Held!Next]_areas
<1>1. CASE UNCHANGED mallocVars
  BY <1>1 DEF mallocVars, HeapInv
<1>2. CASE MallocNext
  BY <1>2, MallocStep, FreeStep, ReallocStep DEF MallocNext
<1> QED
  BY <1>1, <1>2

\* The invariant is the property, and the types.
LEMMA HeapIsChained ==
  ASSUME MallocOK, HeapInv
  PROVE  Chained /\ MallocTypeOK
<1> DEFINE bs == heap.blocks
           end == heap.brk
<1>1. /\ ChainIs(bs, end) /\ Coalesced(bs, end) /\ end <= Space /\ Space \in Nat
      /\ Holds(bs, areas)
  BY HeapInvFacts DEF HeapIs
<1>2. \A a \in DOMAIN bs : /\ a \in Nat /\ end \in Nat /\ bs[a].size \in Nat \ {0}
                           /\ NextBlock(bs, a) \in Nat /\ a + 2 <= NextBlock(bs, a)
                           /\ NextBlock(bs, a) = a + 1 + bs[a].size
                           /\ NextBlock(bs, a) <= end
                           /\ NextBlock(bs, a) \in DOMAIN bs \cup {end}
  BY <1>1, BlockFacts
<1>3. bs \in [DOMAIN bs -> Blocks] /\ end \in Nat
  BY <1>1 DEF ChainIs
<1>4. Chained
  <2>1. {NextBlock(bs, a) : a \in DOMAIN bs} \cup {0} = DOMAIN bs \cup {end}
    <3>1. \A a \in DOMAIN bs : NextBlock(bs, a) \in DOMAIN bs \cup {end}
      BY <1>2
    <3>2. \A b \in DOMAIN bs \cup {end} : b # 0 => \E a \in DOMAIN bs : NextBlock(bs, a) = b
      BY <1>1 DEF ChainIs
    <3>3. 0 \in DOMAIN bs \cup {end}
      BY <1>1 DEF ChainIs
    <3> QED
      BY <3>1, <3>2, <3>3
  <2>2. \A a, b \in DOMAIN bs : a < b => NextBlock(bs, a) <= b
    BY <1>1 DEF ChainIs
  <2> QED
    BY <1>1, <2>1, <2>2 DEF Chained, Coalesced, NoTwoFree
<1>5. MallocTypeOK
  <2>1. end \in 0..Space
    BY <1>1, <1>3
  <2>2. \A a \in DOMAIN bs : a \in 0..(Space - 1) /\ bs[a].size \in 1..Space
    BY <1>1, <1>2
  <2>3. \A a \in DOMAIN bs : bs[a] \in [size : 1..Space, free : BOOLEAN]
    BY <1>3, <2>2 DEF Blocks
  <2>4. \A p \in DOMAIN areas : areas[p] \in Sizes
    BY <1>1 DEF Holds
  <2> QED
    BY <2>1, <2>2, <2>3, <2>4 DEF MallocTypeOK
<1> QED
  BY <1>4, <1>5

\* The values of malloc's variables have their types, if no request and no heap
\* comes to 2 GiB.
THEOREM MallocTyped == ASSUME MallocOK, Moderate PROVE MallocSpec => []MallocTypeOK
<1>1. MallocInit => HeapInv
  BY MallocStart
<1>2. HeapInv /\ [MallocNext]_mallocVars => HeapInv'
  BY MallocSteps
<1>3. HeapInv => MallocTypeOK
  BY HeapIsChained
<1> QED
  BY <1>1, <1>2, <1>3, PTL DEF MallocSpec

\* The blocks are one chain from heap_base to the break, without free neighbours
\* and without a free block at the end, if no request and no heap comes to 2 GiB.
THEOREM HeapChained == ASSUME MallocOK, Moderate PROVE MallocSpec => []Chained
<1>1. MallocInit => HeapInv
  BY MallocStart
<1>2. HeapInv /\ [MallocNext]_mallocVars => HeapInv'
  BY MallocSteps
<1>3. HeapInv => Chained
  BY HeapIsChained
<1> QED
  BY <1>1, <1>2, <1>3, PTL DEF MallocSpec

\* malloc, free and realloc hand out areas that are the program's alone, if no
\* request and no heap comes to 2 GiB.
THEOREM AreasServed == ASSUME MallocOK, Moderate PROVE MallocSpec => ServesAreas
<1>1. MallocInit => HeapInv /\ Held!Init
  BY MallocStart
<1>2. HeapInv /\ [MallocNext]_mallocVars => HeapInv' /\ [Held!Next]_areas
  BY MallocSteps
<1> QED
  BY <1>1, <1>2, PTL DEF MallocSpec, ServesAreas, Held!Spec

-----------------------------------------------------------------------------
(* Paths: the walk of a path in given trees and mounts.                      *)

\* Type, in a given tree,
TypeIn(tr, node) == IF node = Nowhere THEN None ELSE tr[node.fs][node.path]

\* Lookup in it,
LookupIn(tr, node, name) ==
  LET p == Append(node.path, name)
  IN IF p \notin Paths \/ tr[node.fs][p] = None THEN Nowhere ELSE [fs |-> node.fs, path |-> p]

\* and MountRoot with given mounts.
MountedIn(ms, path) ==
  LET at == {i \in DOMAIN ms : ms[i].path = path}
  IN IF at = {} THEN Nowhere ELSE ms[Min(at)].root

\* Where component k leads from the node before.
NextIn(tr, ms, path, f, k, prev) ==
  LET mounted == MountedIn(ms, SubSeq(path, 1, k))
  IN IF prev = Nowhere THEN Nowhere
     ELSE IF mounted # Nowhere /\ (f \/ k < Len(path)) THEN mounted
     ELSE LookupIn(tr, prev, path[k])

\* One step of the walk.
StepIn(rt, tr, ms, path, f, k, prev) ==
  IF k = 0 \/ rt = Nowhere THEN rt
  ELSE IF k < Len(path) /\ TypeIn(tr, NextIn(tr, ms, path, f, k, prev)) # "directory" THEN Nowhere
  ELSE NextIn(tr, ms, path, f, k, prev)

\* The walk of a path, and the node it ends at.
IsWalk(w, rt, tr, ms, path, f) ==
  w = [k \in 0 .. Len(path) |-> StepIn(rt, tr, ms, path, f, k, w[k - 1])]

WalkIn(rt, tr, ms, path, f) == CHOOSE w : IsWalk(w, rt, tr, ms, path, f)

ResolveIn(rt, tr, ms, path, f) == WalkIn(rt, tr, ms, path, f)[Len(path)]

\* Type is this in the trees there are now,
LEMMA TypeNow == \A node : Type(node) = TypeIn(tree, node)
BY DEF Type, TypeIn

\* and so are Lookup,
LEMMA LookupNow == \A node, name : Lookup(node, name) = LookupIn(tree, node, name)
BY DEF Lookup, LookupIn

\* MountRoot,
LEMMA MountRootNow == \A path : MountRoot(path) = MountedIn(mounts, path)
BY DEF MountRoot, MountedIn

\* The first n + 1 steps of a walk.
Begins(w, n, rt, tr, ms, path, f) ==
  w = [k \in 0 .. n |-> StepIn(rt, tr, ms, path, f, k, w[k - 1])]

\* That the last component is followed, too.
Follow == TRUE

\* Node,
LEMMA NodeNow == \A path : Node(path) = ResolveIn(root, tree, mounts, path, Follow)
BY DEF Follow, Node, Resolve, ResolveIn, WalkIn, IsWalk, StepIn, NextIn, TypeIn, LookupIn, MountedIn, Type, Lookup, MountRoot

\* That it is not.
Stay == FALSE

\* and Resolve without the last mount.
LEMMA StayNow == \A path : Resolve(path, FALSE) = ResolveIn(root, tree, mounts, path, Stay)
BY DEF Stay, Resolve, ResolveIn, WalkIn, IsWalk, StepIn, NextIn, TypeIn, LookupIn, MountedIn, Type, Lookup, MountRoot

\* A walk begins at the root.
LEMMA FirstStep ==
  \A rt, tr, ms, path, f, a : StepIn(rt, tr, ms, path, f, 0, a) = rt
BY DEF StepIn

\* Every walk can be begun.
LEMMA WalkBegins ==
  ASSUME NEW rt, NEW tr, NEW ms, NEW path, NEW f, NEW n \in Nat
  PROVE  \E w : Begins(w, n, rt, tr, ms, path, f)
<1> DEFINE St(k, a) == StepIn(rt, tr, ms, path, f, k, a)
           S == {m \in Nat : \E w : w = [k \in 0 .. m |-> St(k, w[k - 1])]}
<1>1. \A a : St(0, a) = rt
  BY FirstStep
<1> HIDE DEF St
<1>2. 0 \in S
  <2> DEFINE w == [k \in 0 .. 0 |-> rt]
  <2>1. w = [k \in 0 .. 0 |-> St(k, w[k - 1])]
    BY <1>1
  <2> QED
    BY <2>1
<1>3. ASSUME NEW m \in S PROVE m + 1 \in S
  <2>1. PICK w : w = [k \in 0 .. m |-> St(k, w[k - 1])]
    OBVIOUS
  <2> DEFINE u == [k \in 0 .. m + 1 |-> IF k = m + 1 THEN St(k, w[m]) ELSE w[k]]
  <2>2. \A k \in 0 .. m + 1 : u[k] = St(k, u[k - 1])
    <3> SUFFICES ASSUME NEW k \in 0 .. m + 1 PROVE u[k] = St(k, u[k - 1])
      OBVIOUS
    <3>1. CASE k = m + 1
      BY <3>1
    <3>2. CASE k # m + 1 /\ k # 0
      BY <2>1, <3>2
    <3>3. CASE k = 0
      BY <1>1, <2>1, <3>3
    <3> QED
      BY <3>1, <3>2, <3>3
  <2>3. u = [k \in 0 .. m + 1 |-> St(k, u[k - 1])]
    BY <2>2
  <2> HIDE DEF u
  <2>4. m + 1 \in Nat
    OBVIOUS
  <2> QED
    BY <2>3, <2>4
<1>4. S = Nat
  <2>1. S \in SUBSET Nat
    OBVIOUS
  <2> HIDE DEF S
  <2> QED
    BY <1>2, <1>3, <2>1, Induct
<1>5. \E w : w = [k \in 0 .. n |-> St(k, w[k - 1])]
  BY <1>4
<1> QED
  BY <1>5 DEF Begins, St

\* The walk of a path goes from node to node.
LEMMA WalkSteps ==
  ASSUME NEW rt, NEW tr, NEW ms, NEW path, NEW f, Len(path) \in Nat
  PROVE  \A k \in 0 .. Len(path) :
           WalkIn(rt, tr, ms, path, f)[k] = StepIn(rt, tr, ms, path, f, k, WalkIn(rt, tr, ms, path, f)[k - 1])
<1>1. \E w : IsWalk(w, rt, tr, ms, path, f)
  <2>1. \E w : Begins(w, Len(path), rt, tr, ms, path, f)
    BY WalkBegins
  <2> QED
    BY <2>1 DEF Begins, IsWalk
<1> DEFINE w == WalkIn(rt, tr, ms, path, f)
<1>2. IsWalk(w, rt, tr, ms, path, f)
  BY <1>1 DEF WalkIn
<1>3. w = [k \in 0 .. Len(path) |-> StepIn(rt, tr, ms, path, f, k, w[k - 1])]
  BY <1>2 DEF IsWalk
<1> HIDE DEF w
<1>4. \A k \in 0 .. Len(path) : w[k] = StepIn(rt, tr, ms, path, f, k, w[k - 1])
  BY <1>3
<1> QED
  BY <1>4 DEF w

-----------------------------------------------------------------------------
(* The types of a walk. *)

\* The values there are.
Names == UNION {Range(p) : p \in Paths}
Kinds == {"directory", "file", None}
AnyNode == {Nowhere} \cup [fs : FileSystems, path : Paths]
Roots == {Nowhere} \cup {Root(fs) : fs \in FileSystems}
Mounts == [path : Paths, root : Roots]
Trees == [FileSystems -> [Paths -> Kinds]]

\* Paths are sequences.
LEMMA PathFacts ==
  ASSUME VfsOK, NEW path \in Paths
  PROVE  path \in Seq(Names) /\ Len(path) \in Nat /\ DOMAIN path = 1 .. Len(path)
<1>1. path \in Seq(Names)
  BY DEF VfsOK, Names
<1> QED
  BY <1>1, LenProperties

\* A root is a node, and no root of a file system is nowhere.
LEMMA RootsAre ==
  ASSUME VfsOK
  PROVE  Roots \subseteq AnyNode /\ \A fs \in FileSystems : Root(fs) # Nowhere
<1>1. <<>> \in Paths /\ None \notin FileSystems
  BY DEF VfsOK, FileSystems, None
<1> QED
  BY <1>1 DEF Roots, AnyNode, Root, Nowhere

\* vfs_get_mount_root gives a root.
LEMMA MountedTyped ==
  ASSUME NEW ms \in Seq(Mounts), NEW path
  PROVE  MountedIn(ms, path) \in Roots
<1> DEFINE at == {i \in DOMAIN ms : ms[i].path = path}
<1>1. DOMAIN ms \in SUBSET Nat
  BY LenProperties
<1>2. CASE at = {}
  BY <1>2 DEF MountedIn, Roots
<1>3. CASE at # {}
  <2>1. Min(at) \in at
    BY <1>1, <1>3, MinIs
  <2>2. ms[Min(at)] \in Mounts
    BY <2>1, ElementOfSeq, LenProperties
  <2>3. MountedIn(ms, path) = ms[Min(at)].root
    BY <1>3 DEF MountedIn
  <2> QED
    BY <2>2, <2>3 DEF Mounts
<1> QED
  BY <1>2, <1>3

\* A lookup gives a node.
LEMMA LookupTyped ==
  ASSUME VfsOK, NEW tr, NEW node \in AnyNode, node # Nowhere, NEW name
  PROVE  LookupIn(tr, node, name) \in AnyNode
BY DEF LookupIn, AnyNode

\* And so does a step of a walk.
LEMMA NextTyped ==
  ASSUME VfsOK, NEW tr, NEW ms \in Seq(Mounts), NEW path, NEW f, NEW k, NEW node \in AnyNode
  PROVE  NextIn(tr, ms, path, f, k, node) \in AnyNode
<1>1. MountedIn(ms, SubSeq(path, 1, k)) \in AnyNode
  BY MountedTyped, RootsAre
<1>2. node # Nowhere => LookupIn(tr, node, path[k]) \in AnyNode
  BY LookupTyped
<1>3. Nowhere \in AnyNode
  BY DEF AnyNode
<1> QED
  BY <1>1, <1>2, <1>3 DEF NextIn

\* A walk from a root, step by step.
LEMMA WalkIs ==
  ASSUME NEW rt, rt # Nowhere, NEW tr, NEW ms, NEW path, NEW f, Len(path) \in Nat
  PROVE  /\ WalkIn(rt, tr, ms, path, f)[0] = rt
         /\ \A k \in 1 .. Len(path) :
              WalkIn(rt, tr, ms, path, f)[k] =
                IF k < Len(path) /\ TypeIn(tr, NextIn(tr, ms, path, f, k, WalkIn(rt, tr, ms, path, f)[k - 1])) # "directory"
                THEN Nowhere
                ELSE NextIn(tr, ms, path, f, k, WalkIn(rt, tr, ms, path, f)[k - 1])
<1>1. \A k \in 0 .. Len(path) :
        WalkIn(rt, tr, ms, path, f)[k] = StepIn(rt, tr, ms, path, f, k, WalkIn(rt, tr, ms, path, f)[k - 1])
  BY WalkSteps
<1> HIDE DEF WalkIn
<1>2. 0 \in 0 .. Len(path) /\ \A k \in 1 .. Len(path) : k \in 0 .. Len(path) /\ k # 0
  OBVIOUS
<1> QED
  BY <1>1, <1>2, Zenon DEF StepIn

\* Every node of a walk is one.
LEMMA WalkTyped ==
  ASSUME VfsOK, NEW rt \in Roots, rt # Nowhere, NEW tr, NEW ms \in Seq(Mounts),
         NEW path \in Paths, NEW f
  PROVE  \A k \in 0 .. Len(path) : WalkIn(rt, tr, ms, path, f)[k] \in AnyNode
<1> DEFINE w == WalkIn(rt, tr, ms, path, f)
           n == Len(path)
           S == {m \in Nat : m <= n => w[m] \in AnyNode}
<1>1. n \in Nat
  BY PathFacts
<1>2. /\ w[0] = rt
      /\ \A k \in 1 .. n : w[k] \in {Nowhere, NextIn(tr, ms, path, f, k, w[k - 1])}
  BY <1>1, WalkIs
<1>3. Nowhere \in AnyNode /\ rt \in AnyNode
  BY RootsAre DEF AnyNode
<1> HIDE DEF w, n
<1>4. 0 \in S
  BY <1>2, <1>3
<1>5. ASSUME NEW m \in S PROVE m + 1 \in S
  <2> SUFFICES ASSUME m + 1 <= n PROVE w[m + 1] \in AnyNode
    OBVIOUS
  <2>1. m \in Nat /\ m <= n /\ m + 1 \in 1 .. n /\ (m + 1) - 1 = m
    BY <1>1
  <2>2. w[m] \in AnyNode
    BY <2>1
  <2>3. NextIn(tr, ms, path, f, m + 1, w[m]) \in AnyNode
    BY <2>2, NextTyped
  <2> QED
    BY <1>2, <1>3, <2>1, <2>3
<1>6. S = Nat
  <2>1. S \in SUBSET Nat
    OBVIOUS
  <2> HIDE DEF S
  <2> QED
    BY <1>4, <1>5, <2>1, Induct
<1>7. \A k \in 0 .. n : w[k] \in AnyNode
  BY <1>1, <1>6
<1> QED
  BY <1>7 DEF w, n

-----------------------------------------------------------------------------
(* Two walks. *)

\* Paths that begin with the same m components
Alike(p, q, m) ==
  /\ m < Len(p) /\ m < Len(q)
  /\ \A k \in 1 .. m : p[k] = q[k] /\ SubSeq(p, 1, k) = SubSeq(q, 1, k)

\* are walked alike.
LEMMA WalksAgree ==
  ASSUME NEW rt, rt # Nowhere, NEW tr, NEW ms, NEW p, NEW q, NEW f, NEW g, NEW m \in Nat,
         Len(p) \in Nat, Len(q) \in Nat, Alike(p, q, m)
  PROVE  \A k \in 0 .. m : WalkIn(rt, tr, ms, p, f)[k] = WalkIn(rt, tr, ms, q, g)[k]
<1> DEFINE w == WalkIn(rt, tr, ms, p, f)
           u == WalkIn(rt, tr, ms, q, g)
           S == {k \in Nat : k <= m => w[k] = u[k]}
<1>1. /\ w[0] = rt
      /\ \A k \in 1 .. Len(p) :
           w[k] = IF k < Len(p) /\ TypeIn(tr, NextIn(tr, ms, p, f, k, w[k - 1])) # "directory"
                  THEN Nowhere ELSE NextIn(tr, ms, p, f, k, w[k - 1])
  BY WalkIs
<1>2. /\ u[0] = rt
      /\ \A k \in 1 .. Len(q) :
           u[k] = IF k < Len(q) /\ TypeIn(tr, NextIn(tr, ms, q, g, k, u[k - 1])) # "directory"
                  THEN Nowhere ELSE NextIn(tr, ms, q, g, k, u[k - 1])
  BY WalkIs
<1> HIDE DEF w, u
<1> USE DEF Alike
<1>3. 0 \in S
  BY <1>1, <1>2
<1>4. ASSUME NEW k \in S PROVE k + 1 \in S
  <2> SUFFICES ASSUME k + 1 <= m PROVE w[k + 1] = u[k + 1]
    OBVIOUS
  <2>1. /\ k \in Nat /\ k <= m /\ k + 1 \in 1 .. m /\ (k + 1) - 1 = k
        /\ k + 1 \in 1 .. Len(p) /\ k + 1 \in 1 .. Len(q) /\ k + 1 < Len(p) /\ k + 1 < Len(q)
    OBVIOUS
  <2>2. w[k] = u[k]
    BY <2>1
  <2>3. p[k + 1] = q[k + 1] /\ SubSeq(p, 1, k + 1) = SubSeq(q, 1, k + 1)
    BY <2>1
  <2>4. NextIn(tr, ms, p, f, k + 1, w[k]) = NextIn(tr, ms, q, g, k + 1, u[k])
    BY <2>1, <2>2, <2>3, Zenon DEF NextIn
  <2>5. /\ w[k + 1] = IF TypeIn(tr, NextIn(tr, ms, p, f, k + 1, w[k])) # "directory"
                      THEN Nowhere ELSE NextIn(tr, ms, p, f, k + 1, w[k])
        /\ u[k + 1] = IF TypeIn(tr, NextIn(tr, ms, q, g, k + 1, u[k])) # "directory"
                      THEN Nowhere ELSE NextIn(tr, ms, q, g, k + 1, u[k])
    BY <1>1, <1>2, <2>1
  <2> QED
    BY <2>4, <2>5, Zenon
<1>5. S = Nat
  <2>1. S \in SUBSET Nat
    OBVIOUS
  <2> HIDE DEF S
  <2> QED
    BY <1>3, <1>4, <2>1, Induct
<1>6. \A k \in 0 .. m : w[k] = u[k]
  BY <1>5
<1> QED
  BY <1>6 DEF w, u

\* The path of the parent.
LEMMA ParentFacts ==
  ASSUME VfsOK, NEW path \in Paths, path # <<>>
  PROVE  /\ Len(path) \in Nat \ {0}
         /\ Parent(path) \in Paths /\ Len(Parent(path)) = Len(path) - 1
         /\ \A k \in 1 .. Len(path) - 1 :
              Parent(path)[k] = path[k] /\ SubSeq(Parent(path), 1, k) = SubSeq(path, 1, k)
         /\ path = Append(Parent(path), path[Len(path)])
         /\ SubSeq(path, 1, Len(path)) = path
<1> DEFINE n == Len(path)
           q == Parent(path)
<1>1. path \in Seq(Names) /\ n \in Nat \ {0}
  BY PathFacts, EmptySeq
<1>2. q = SubSeq(path, 1, n - 1)
  BY DEF Parent
<1>3. q \in Seq(Names) /\ Len(q) = n - 1 /\ \A k \in 1 .. n - 1 : q[k] = path[k]
  <2>1. \A i \in 1 .. n - 1 : path[i] \in Names
    BY <1>1, ElementOfSeq
  <2>2. n - 1 \in Int /\ 1 \in Int
    BY <1>1
  <2>3. /\ SubSeq(path, 1, n - 1) \in Seq(Names)
        /\ Len(SubSeq(path, 1, n - 1)) = IF 1 <= n - 1 THEN (n - 1) - 1 + 1 ELSE 0
        /\ \A i \in 1 .. (n - 1) - 1 + 1 : SubSeq(path, 1, n - 1)[i] = path[1 + i - 1]
    BY <2>1, <2>2, SubSeqProperties
  <2>4. Len(SubSeq(path, 1, n - 1)) = n - 1
    <3> DEFINE l == Len(SubSeq(path, 1, n - 1))
    <3>1. l = IF 1 <= n - 1 THEN (n - 1) - 1 + 1 ELSE 0
      BY <2>3
    <3> HIDE DEF l, n
    <3>2. l = n - 1
      BY <1>1, <3>1
    <3> QED
      BY <3>2 DEF l
  <2>5. ASSUME NEW i \in 1 .. n - 1 PROVE SubSeq(path, 1, n - 1)[i] = path[i]
    <3>1. i \in 1 .. (n - 1) - 1 + 1 /\ 1 + i - 1 = i
      BY <1>1
    <3> QED
      BY <2>3, <3>1
  <2> HIDE DEF n, q
  <2> QED
    BY <1>2, <2>3, <2>4, <2>5
<1>4. q \in Paths
  <2>1. CASE n = 1
    <3>1. Len(q) = 0
      BY <1>3, <2>1
    <3>2. q = <<>>
      BY <1>3, <3>1, EmptySeq
    <3> QED
      BY <3>2 DEF VfsOK
  <2>2. CASE n # 1
    <3>1. DOMAIN path = 1 .. n
      BY PathFacts
    <3>2. 1 \in DOMAIN path /\ n - 1 \in DOMAIN path
      BY <1>1, <2>2, <3>1
    <3> QED
      BY <1>2, <3>2 DEF VfsOK
  <2> QED
    BY <2>1, <2>2
<1>5. \A k \in 1 .. n - 1 : SubSeq(q, 1, k) = SubSeq(path, 1, k)
  BY <1>1, <1>3
<1>6. path = Append(q, path[n])
  BY <1>1, <1>3
<1>7. SubSeq(path, 1, n) = path
  BY <1>1
<1> QED
  BY <1>1, <1>3, <1>4, <1>5, <1>6, <1>7

\* A walk comes by the node that the path of the parent leads to.
LEMMA ParentWalk ==
  ASSUME VfsOK, NEW path \in Paths, path # <<>>, NEW rt, rt # Nowhere, NEW tr, NEW ms, NEW f,
         TypeIn(tr, ResolveIn(rt, tr, ms, Parent(path), Follow)) = "directory"
  PROVE  WalkIn(rt, tr, ms, path, f)[Len(path) - 1] = ResolveIn(rt, tr, ms, Parent(path), Follow)
<1> DEFINE n == Len(path)
           q == Parent(path)
           w == WalkIn(rt, tr, ms, path, f)
           u == WalkIn(rt, tr, ms, q, Follow)
<1>1. n \in Nat \ {0} /\ Len(q) = n - 1 /\ Len(q) \in Nat
  BY ParentFacts
<1>2. \A k \in 1 .. n - 1 : q[k] = path[k] /\ SubSeq(q, 1, k) = SubSeq(path, 1, k)
  BY ParentFacts
<1>3. ResolveIn(rt, tr, ms, q, Follow) = u[n - 1]
  BY <1>1 DEF ResolveIn
<1>4. /\ w[0] = rt
      /\ \A k \in 1 .. n :
           w[k] = IF k < n /\ TypeIn(tr, NextIn(tr, ms, path, f, k, w[k - 1])) # "directory"
                  THEN Nowhere ELSE NextIn(tr, ms, path, f, k, w[k - 1])
  BY <1>1, WalkIs
<1>5. /\ u[0] = rt
      /\ \A k \in 1 .. Len(q) :
           u[k] = IF k < Len(q) /\ TypeIn(tr, NextIn(tr, ms, q, Follow, k, u[k - 1])) # "directory"
                  THEN Nowhere ELSE NextIn(tr, ms, q, Follow, k, u[k - 1])
  BY <1>1, WalkIs
<1>6. CASE n = 1
  BY <1>3, <1>4, <1>5, <1>6
<1>7. CASE n # 1
  <2> DEFINE m == n - 2
  <2>1. m \in Nat /\ m < n /\ m < Len(q) /\ m \in 0 .. m /\ (n - 1) - 1 = m
    BY <1>1, <1>7
  <2>2. \A k \in 1 .. m : path[k] = q[k] /\ SubSeq(path, 1, k) = SubSeq(q, 1, k)
    BY <1>1, <1>2
  <2>3. w[m] = u[m]
    <3>1. \A k \in 0 .. m : w[k] = u[k]
      <4>1. Len(path) \in Nat /\ Len(q) \in Nat /\ m \in Nat /\ Alike(path, q, m)
        BY <1>1, <2>1, <2>2 DEF Alike
      <4> HIDE DEF m, q
      <4> QED
        BY ONLY <4>1, rt # Nowhere, WalksAgree
    <3> QED
      BY <2>1, <3>1
  <2> HIDE DEF w, u, q, n
  <2>4. /\ n - 1 \in 1 .. n /\ n - 1 \in 1 .. Len(q) /\ n - 1 < n /\ ~(n - 1 < Len(q))
        /\ n - 1 \in 1 .. n - 1
    BY <1>1, <1>7
  <2>5. NextIn(tr, ms, path, f, n - 1, w[m]) = NextIn(tr, ms, q, Follow, n - 1, u[m])
    <3>1. path[n - 1] = q[n - 1] /\ SubSeq(path, 1, n - 1) = SubSeq(q, 1, n - 1)
      BY <1>2, <2>4
    <3> QED
      BY <2>3, <2>4, <3>1 DEF NextIn, n, Follow
  <2>6. u[n - 1] = NextIn(tr, ms, q, Follow, n - 1, u[m])
    BY <1>5, <2>1, <2>4
  <2>7. w[n - 1] = IF TypeIn(tr, NextIn(tr, ms, path, f, n - 1, w[m])) # "directory"
                   THEN Nowhere ELSE NextIn(tr, ms, path, f, n - 1, w[m])
    BY <1>4, <2>1, <2>4
  <2> QED
    BY <1>3, <2>5, <2>6, <2>7 DEF q, n, w
<1> QED
  BY <1>6, <1>7

\* The last step of a walk.
LEMMA LastStep ==
  ASSUME VfsOK, NEW path \in Paths, path # <<>>, NEW rt, rt # Nowhere, NEW tr, NEW ms, NEW f
  PROVE  ResolveIn(rt, tr, ms, path, f) =
           IF WalkIn(rt, tr, ms, path, f)[Len(path) - 1] = Nowhere THEN Nowhere
           ELSE IF f /\ MountedIn(ms, path) # Nowhere THEN MountedIn(ms, path)
           ELSE LookupIn(tr, WalkIn(rt, tr, ms, path, f)[Len(path) - 1], path[Len(path)])
<1> DEFINE n == Len(path)
           w == WalkIn(rt, tr, ms, path, f)
<1>1. n \in Nat \ {0} /\ SubSeq(path, 1, n) = path
  BY ParentFacts
<1>2. \A k \in 1 .. n :
        w[k] = IF k < n /\ TypeIn(tr, NextIn(tr, ms, path, f, k, w[k - 1])) # "directory"
               THEN Nowhere ELSE NextIn(tr, ms, path, f, k, w[k - 1])
  BY <1>1, WalkIs
<1> HIDE DEF w
<1>3. n \in 1 .. n /\ ~(n < n)
  BY <1>1
<1>4. w[n] = NextIn(tr, ms, path, f, n, w[n - 1])
  BY <1>2, <1>3
<1>5. ResolveIn(rt, tr, ms, path, f) = w[n]
  BY DEF ResolveIn, w
<1>6. NextIn(tr, ms, path, f, n, w[n - 1]) =
        IF w[n - 1] = Nowhere THEN Nowhere
        ELSE IF f /\ MountedIn(ms, path) # Nowhere THEN MountedIn(ms, path)
        ELSE LookupIn(tr, w[n - 1], path[n])
  BY <1>1, <1>3 DEF NextIn
<1> QED
  BY <1>4, <1>5, <1>6 DEF w

\* Whatever there is in tr is the same in ts.
Below(tr, ts) == \A fs \in FileSystems, p \in Paths : tr[fs][p] \in {None, ts[fs][p]}

\* A node of the smaller tree is one of the larger.
LEMMA NodeBelow ==
  ASSUME VfsOK, NEW tr, NEW ts, Below(tr, ts), NEW node \in AnyNode
  PROVE  /\ TypeIn(tr, node) \in {None, TypeIn(ts, node)}
         /\ node # Nowhere => \A name :
              LookupIn(tr, node, name) \in {Nowhere, LookupIn(ts, node, name)}
<1>1. node # Nowhere => node.fs \in FileSystems /\ node.path \in Paths
  BY DEF AnyNode
<1>2. TypeIn(tr, node) \in {None, TypeIn(ts, node)}
  BY <1>1 DEF TypeIn, Below
<1>3. node # Nowhere => \A name :
        LookupIn(tr, node, name) \in {Nowhere, LookupIn(ts, node, name)}
  BY <1>1 DEF LookupIn, Below
<1> QED
  BY <1>2, <1>3

\* And a step in it one in the larger, or none.
LEMMA NextBelow ==
  ASSUME VfsOK, NEW tr, NEW ts, Below(tr, ts), NEW ms, NEW path, NEW f, NEW k,
         NEW new \in AnyNode, NEW old \in {Nowhere, new}
  PROVE  NextIn(tr, ms, path, f, k, old) \in {Nowhere, NextIn(ts, ms, path, f, k, new)}
<1>1. CASE old = Nowhere
  BY <1>1 DEF NextIn
<1>2. CASE old = new /\ old # Nowhere
  <2>1. LookupIn(tr, new, path[k]) \in {Nowhere, LookupIn(ts, new, path[k])}
    BY <1>2, NodeBelow
  <2> QED
    BY <1>2, <2>1 DEF NextIn
<1> QED
  BY <1>1, <1>2

\* A walk of the smaller tree is one of the larger as far as it gets.
LEMMA WalkBelow ==
  ASSUME VfsOK, NEW tr, NEW ts, Below(tr, ts),
         NEW rt \in Roots, rt # Nowhere, NEW ms \in Seq(Mounts), NEW path \in Paths, NEW f
  PROVE  \A k \in 0 .. Len(path) :
           WalkIn(rt, tr, ms, path, f)[k] \in {Nowhere, WalkIn(rt, ts, ms, path, f)[k]}
<1> DEFINE w == WalkIn(rt, tr, ms, path, f)
           u == WalkIn(rt, ts, ms, path, f)
           n == Len(path)
           S == {m \in Nat : m <= n => w[m] \in {Nowhere, u[m]}}
<1>1. n \in Nat
  BY PathFacts
<1>2. /\ w[0] = rt
      /\ \A k \in 1 .. n :
           w[k] = IF k < n /\ TypeIn(tr, NextIn(tr, ms, path, f, k, w[k - 1])) # "directory"
                  THEN Nowhere ELSE NextIn(tr, ms, path, f, k, w[k - 1])
  BY <1>1, WalkIs
<1>3. /\ u[0] = rt
      /\ \A k \in 1 .. n :
           u[k] = IF k < n /\ TypeIn(ts, NextIn(ts, ms, path, f, k, u[k - 1])) # "directory"
                  THEN Nowhere ELSE NextIn(ts, ms, path, f, k, u[k - 1])
  BY <1>1, WalkIs
<1>4. \A k \in 0 .. n : u[k] \in AnyNode
  BY WalkTyped
<1> HIDE DEF w, u, n
<1>5. 0 \in S
  BY <1>2, <1>3
<1>6. ASSUME NEW m \in S PROVE m + 1 \in S
  <2> SUFFICES ASSUME m + 1 <= n PROVE w[m + 1] \in {Nowhere, u[m + 1]}
    OBVIOUS
  <2>1. m \in Nat /\ m <= n /\ m \in 0 .. n /\ m + 1 \in 1 .. n /\ (m + 1) - 1 = m
    BY <1>1
  <2> DEFINE a == NextIn(tr, ms, path, f, m + 1, w[m])
             b == NextIn(ts, ms, path, f, m + 1, u[m])
  <2>2. w[m] \in {Nowhere, u[m]} /\ u[m] \in AnyNode
    BY <1>4, <2>1
  <2>3. a \in {Nowhere, b}
    BY <2>2, NextBelow
  <2>4. b \in AnyNode
    BY <2>2, NextTyped
  <2>5. TypeIn(tr, b) \in {None, TypeIn(ts, b)}
    BY <2>4, NodeBelow
  <2>6. w[m + 1] = IF m + 1 < n /\ TypeIn(tr, a) # "directory" THEN Nowhere ELSE a
    BY <1>2, <2>1
  <2>7. u[m + 1] = IF m + 1 < n /\ TypeIn(ts, b) # "directory" THEN Nowhere ELSE b
    BY <1>3, <2>1
  <2> HIDE DEF a, b
  <2>8. None # "directory"
    BY DEF None
  <2> QED
    BY <2>3, <2>5, <2>6, <2>7, <2>8
<1>7. S = Nat
  <2>1. S \in SUBSET Nat
    OBVIOUS
  <2> HIDE DEF S
  <2> QED
    BY <1>5, <1>6, <2>1, Induct
<1>8. \A k \in 0 .. n : w[k] \in {Nowhere, u[k]}
  BY <1>1, <1>7
<1> QED
  BY <1>8 DEF w, u, n

\* Without a root there is nothing.
LEMMA NoRoot ==
  ASSUME VfsOK, NEW tr, NEW ms, NEW path \in Paths, NEW f
  PROVE  ResolveIn(Nowhere, tr, ms, path, f) = Nowhere
<1>1. Len(path) \in Nat /\ Len(path) \in 0 .. Len(path)
  BY PathFacts
<1>2. \A k \in 0 .. Len(path) :
        WalkIn(Nowhere, tr, ms, path, f)[k] = StepIn(Nowhere, tr, ms, path, f, k, WalkIn(Nowhere, tr, ms, path, f)[k - 1])
  BY <1>1, WalkSteps
<1> QED
  BY <1>1, <1>2 DEF ResolveIn, StepIn

\* What is there without its last mount is there.
LEMMA FollowFinds ==
  ASSUME VfsOK, NEW path \in Paths, path # <<>>, NEW rt, NEW tr, NEW ms,
         ResolveIn(rt, tr, ms, path, Stay) # Nowhere
  PROVE  ResolveIn(rt, tr, ms, path, Follow) # Nowhere
<1> DEFINE m == Len(path) - 1
<1>1. rt # Nowhere
  BY NoRoot
<1>2. Len(path) \in Nat /\ m \in Nat /\ m \in 0 .. m /\ Alike(path, path, m)
  BY ParentFacts DEF Alike
<1> HIDE DEF m
<1>3. \A k \in 0 .. m : WalkIn(rt, tr, ms, path, Stay)[k] = WalkIn(rt, tr, ms, path, Follow)[k]
  BY ONLY <1>1, <1>2, WalksAgree
<1>4. WalkIn(rt, tr, ms, path, Stay)[m] = WalkIn(rt, tr, ms, path, Follow)[m]
  BY <1>2, <1>3
<1>5. ResolveIn(rt, tr, ms, path, Stay) =
        IF WalkIn(rt, tr, ms, path, Stay)[m] = Nowhere THEN Nowhere
        ELSE IF Stay /\ MountedIn(ms, path) # Nowhere THEN MountedIn(ms, path)
        ELSE LookupIn(tr, WalkIn(rt, tr, ms, path, Stay)[m], path[Len(path)])
  BY <1>1, LastStep DEF m
<1>6. ResolveIn(rt, tr, ms, path, Follow) =
        IF WalkIn(rt, tr, ms, path, Follow)[m] = Nowhere THEN Nowhere
        ELSE IF Follow /\ MountedIn(ms, path) # Nowhere THEN MountedIn(ms, path)
        ELSE LookupIn(tr, WalkIn(rt, tr, ms, path, Follow)[m], path[Len(path)])
  BY <1>1, LastStep DEF m
<1> QED
  BY <1>4, <1>5, <1>6, Zenon DEF Stay, Follow

-----------------------------------------------------------------------------
(* What the calls make of the trees. *)

\* A tree with a node of a kind.
SetIn(tr, fs, p, kind) == [tr EXCEPT ![fs] = [@ EXCEPT ![p] = kind]]

\* What it holds.
LEMMA SetIs ==
  ASSUME NEW tr \in Trees, NEW fs \in FileSystems, NEW p \in Paths, NEW kind \in Kinds
  PROVE  /\ SetIn(tr, fs, p, kind) \in Trees
         /\ \A g \in FileSystems, q \in Paths :
              SetIn(tr, fs, p, kind)[g][q] = IF g = fs /\ q = p THEN kind ELSE tr[g][q]
BY DEF SetIn, Trees

\* The root of a file system is a directory, and every other node is in one.
Rooted(tr) ==
  /\ \A fs \in FileSystems : tr[fs][<<>>] = "directory"
  /\ \A fs \in FileSystems : \A p \in Paths :
       p # <<>> /\ tr[fs][p] # None => tr[fs][Parent(p)] = "directory"

\* The path of an entry is not the root's, and its parent's is what it was.
LEMMA EntryFacts ==
  ASSUME VfsOK, NEW p \in Paths, NEW name, Append(p, name) \in Paths
  PROVE  /\ Append(p, name) # <<>> /\ Parent(Append(p, name)) = p
         /\ Append(p, name) # p
<1> DEFINE q == Append(p, name)
           n == Len(p)
           S == Names \cup {name}
<1>1. p \in Seq(S) /\ n \in Nat /\ name \in S
  BY PathFacts
<1>2. q \in Seq(S) /\ Len(q) = n + 1 /\ \A i \in 1 .. n : q[i] = p[i]
  BY <1>1, AppendProperties
<1>3. Parent(q) = SubSeq(q, 1, n)
  BY <1>1, <1>2 DEF Parent
<1>4. SubSeq(q, 1, n) = p
  BY <1>1, <1>2
<1>5. q # p /\ Len(q) # 0
  BY <1>1, <1>2
<1>6. q # <<>>
  BY <1>2, <1>5, EmptySeq
<1> QED
  BY <1>3, <1>4, <1>5, <1>6

\* A new node in a directory leaves the tree rooted, and all that was there.
LEMMA MadeTree ==
  ASSUME VfsOK, NEW tr \in Trees, Rooted(tr), NEW node \in AnyNode, TypeIn(tr, node) = "directory",
         NEW name, Append(node.path, name) \in Paths, tr[node.fs][Append(node.path, name)] = None,
         NEW kind \in {"directory", "file"}
  PROVE  /\ node # Nowhere /\ node.fs \in FileSystems /\ node.path \in Paths
         /\ SetIn(tr, node.fs, Append(node.path, name), kind) \in Trees
         /\ Rooted(SetIn(tr, node.fs, Append(node.path, name), kind))
         /\ Below(tr, SetIn(tr, node.fs, Append(node.path, name), kind))
<1> DEFINE q == Append(node.path, name)
           ts == SetIn(tr, node.fs, q, kind)
<1>1. node # Nowhere /\ node.fs \in FileSystems /\ node.path \in Paths
  BY DEF TypeIn, AnyNode, None
<1>2. tr[node.fs][node.path] = "directory"
  BY <1>1 DEF TypeIn
<1>3. kind \in Kinds /\ kind # None
  BY DEF Kinds, None
<1>4. /\ ts \in Trees
      /\ \A g \in FileSystems, p \in Paths :
           ts[g][p] = IF g = node.fs /\ p = q THEN kind ELSE tr[g][p]
  <2>1. q \in Paths
    OBVIOUS
  <2> HIDE DEF q
  <2>2. SetIn(tr, node.fs, q, kind) \in Trees
    BY <1>1, <1>3, <2>1, SetIs
  <2>3. \A g \in FileSystems, p \in Paths :
          SetIn(tr, node.fs, q, kind)[g][p] = IF g = node.fs /\ p = q THEN kind ELSE tr[g][p]
    BY ONLY tr \in Trees, <1>1, <1>3, <2>1, SetIs
  <2> QED
    BY <2>2, <2>3
<1>5. q # <<>> /\ Parent(q) = node.path /\ q # node.path
  BY <1>1, EntryFacts
<1>6. <<>> \in Paths /\ \A p \in Paths : p # <<>> => Parent(p) \in Paths
  BY ParentFacts DEF VfsOK
<1> HIDE DEF q, ts
<1>7. Below(tr, ts)
  BY <1>4 DEF Below, q
<1>8. \A fs \in FileSystems : ts[fs][<<>>] = "directory"
  BY <1>4, <1>5, <1>6 DEF Rooted
<1>9. ASSUME NEW fs \in FileSystems, NEW p \in Paths, p # <<>>, ts[fs][p] # None
      PROVE  ts[fs][Parent(p)] = "directory"
  <2>1. Parent(p) \in Paths
    BY <1>6, <1>9
  <2>2. CASE fs = node.fs /\ p = q
    BY <1>1, <1>2, <1>4, <1>5, <2>1, <2>2
  <2>3. CASE ~(fs = node.fs /\ p = q)
    <3>1. tr[fs][Parent(p)] = "directory"
      BY <1>4, <1>9, <2>3 DEF Rooted
    <3>2. ~(fs = node.fs /\ Parent(p) = q)
      BY <3>1 DEF q, None
    <3> QED
      BY <1>4, <2>1, <3>1, <3>2
  <2> QED
    BY <2>2, <2>3
<1> QED
  BY <1>1, <1>4, <1>7, <1>8, <1>9 DEF Rooted, q, ts

\* And the path that was given leads to it, or to what is mounted there.
LEMMA MadeShows ==
  ASSUME VfsOK, NEW rt \in Roots, NEW ms \in Seq(Mounts), NEW path \in Paths, path # <<>>,
         NEW tr \in Trees, Rooted(tr), NEW node,
         node = ResolveIn(rt, tr, ms, Parent(path), Follow), TypeIn(tr, node) = "directory",
         Append(node.path, path[Len(path)]) \in Paths,
         tr[node.fs][Append(node.path, path[Len(path)])] = None,
         NEW kind \in {"directory", "file"}
  PROVE  /\ SetIn(tr, node.fs, Append(node.path, path[Len(path)]), kind) \in Trees
         /\ Rooted(SetIn(tr, node.fs, Append(node.path, path[Len(path)]), kind))
         /\ ResolveIn(rt, SetIn(tr, node.fs, Append(node.path, path[Len(path)]), kind), ms, path, Follow) =
              IF MountedIn(ms, path) # Nowhere THEN MountedIn(ms, path)
              ELSE [fs |-> node.fs, path |-> Append(node.path, path[Len(path)])]
         /\ TypeIn(SetIn(tr, node.fs, Append(node.path, path[Len(path)]), kind),
                   [fs |-> node.fs, path |-> Append(node.path, path[Len(path)])]) = kind
<1> DEFINE q == Append(node.path, path[Len(path)])
           ts == SetIn(tr, node.fs, q, kind)
           m == Len(path) - 1
           made == [fs |-> node.fs, path |-> q]
<1>1. /\ Len(path) \in Nat \ {0} /\ Parent(path) \in Paths /\ Len(Parent(path)) = m
      /\ Len(Parent(path)) \in 0 .. Len(Parent(path)) /\ m \in 0 .. Len(path)
  BY ParentFacts
<1>2. rt # Nowhere
  BY <1>1, NoRoot DEF TypeIn, None
<1>3. node \in AnyNode
  BY <1>1, <1>2, WalkTyped DEF ResolveIn
<1>4. WalkIn(rt, tr, ms, path, Follow)[m] = node
  BY <1>2, ParentWalk
<1> HIDE DEF m
<1>5. /\ node # Nowhere /\ node.fs \in FileSystems /\ node.path \in Paths
      /\ ts \in Trees /\ Rooted(ts) /\ Below(tr, ts)
  BY <1>3, MadeTree
<1>6. ts[node.fs][q] = kind
  BY <1>5, SetIs DEF Kinds
<1> HIDE DEF ts, q
<1>7. WalkIn(rt, ts, ms, path, Follow)[m] = node
  <2>1. WalkIn(rt, tr, ms, path, Follow)[m] \in {Nowhere, WalkIn(rt, ts, ms, path, Follow)[m]}
    BY <1>1, <1>2, <1>5, WalkBelow
  <2> QED
    BY <1>4, <1>5, <2>1
<1>8. LookupIn(ts, node, path[Len(path)]) = made
  BY <1>5, <1>6 DEF LookupIn, q, None
<1>9. ResolveIn(rt, ts, ms, path, Follow) =
        IF WalkIn(rt, ts, ms, path, Follow)[m] = Nowhere THEN Nowhere
        ELSE IF Follow /\ MountedIn(ms, path) # Nowhere THEN MountedIn(ms, path)
        ELSE LookupIn(ts, WalkIn(rt, ts, ms, path, Follow)[m], path[Len(path)])
  BY <1>2, LastStep DEF m
<1>10. ResolveIn(rt, ts, ms, path, Follow) =
        IF MountedIn(ms, path) # Nowhere THEN MountedIn(ms, path) ELSE made
  BY <1>5, <1>7, <1>8, <1>9, Zenon DEF Follow
<1>11. made # Nowhere /\ TypeIn(ts, made) = kind
  <2>1. None \notin FileSystems
    BY DEF VfsOK, FileSystems, None
  <2> QED
    BY <1>5, <1>6, <2>1 DEF TypeIn, Nowhere
<1> QED
  BY <1>5, <1>10, <1>11 DEF ts, q

\* A node without entries
Bare(tr, fs, q) == \A p \in Paths : Len(p) = Len(q) + 1 /\ Parent(p) = q => tr[fs][p] = None

\* can go.
LEMMA RemovedTree ==
  ASSUME VfsOK, NEW tr \in Trees, Rooted(tr), NEW fs \in FileSystems, NEW q \in Paths, q # <<>>,
         Bare(tr, fs, q)
  PROVE  /\ SetIn(tr, fs, q, None) \in Trees
         /\ Rooted(SetIn(tr, fs, q, None))
         /\ Below(SetIn(tr, fs, q, None), tr)
<1> DEFINE ts == SetIn(tr, fs, q, None)
<1>1. /\ ts \in Trees
      /\ \A g \in FileSystems, p \in Paths :
           ts[g][p] = IF g = fs /\ p = q THEN None ELSE tr[g][p]
  <2>1. None \in Kinds
    BY DEF Kinds
  <2> QED
    BY ONLY tr \in Trees, fs \in FileSystems, q \in Paths, <2>1, SetIs
<1>2. <<>> \in Paths /\ \A p \in Paths : p # <<>> => Parent(p) \in Paths
  BY ParentFacts DEF VfsOK
<1> HIDE DEF ts
<1>3. Below(ts, tr)
  BY <1>1 DEF Below
<1>4. \A g \in FileSystems : ts[g][<<>>] = "directory"
  BY <1>1, <1>2 DEF Rooted
<1>5. ASSUME NEW g \in FileSystems, NEW p \in Paths, p # <<>>, ts[g][p] # None
      PROVE  ts[g][Parent(p)] = "directory"
  <2>1. Parent(p) \in Paths /\ Len(p) \in Nat \ {0} /\ Len(Parent(p)) = Len(p) - 1
    BY <1>5, ParentFacts
  <2>2. tr[g][p] # None /\ ts[g][p] = tr[g][p]
    BY <1>1, <1>5
  <2>3. tr[g][Parent(p)] = "directory"
    BY <1>5, <2>2 DEF Rooted
  <2>4. ~(g = fs /\ Parent(p) = q)
    <3> SUFFICES ASSUME g = fs, Parent(p) = q PROVE FALSE
      OBVIOUS
    <3>1. Len(p) = Len(q) + 1
      BY <2>1
    <3> QED
      BY <2>2, <3>1 DEF Bare
  <2> QED
    BY <1>1, <2>1, <2>3, <2>4
<1> QED
  BY <1>1, <1>3, <1>4, <1>5 DEF Rooted, ts

\* The entry q, of the directory node, that a path names.
Entry(rt, tr, ms, path, node, q) ==
  /\ node = ResolveIn(rt, tr, ms, Parent(path), Follow) /\ TypeIn(tr, node) = "directory"
  /\ q = Append(node.path, path[Len(path)]) /\ q \in Paths

\* Once it is removed the path leads nowhere, if nothing is mounted there.
LEMMA RemovedShows ==
  ASSUME VfsOK, NEW rt \in Roots, NEW ms \in Seq(Mounts), NEW path \in Paths, path # <<>>,
         NEW tr \in Trees, Rooted(tr), NEW node, NEW q, Entry(rt, tr, ms, path, node, q),
         Bare(tr, node.fs, q)
  PROVE  /\ SetIn(tr, node.fs, q, None) \in Trees
         /\ Rooted(SetIn(tr, node.fs, q, None))
         /\ MountedIn(ms, path) = Nowhere =>
              ResolveIn(rt, SetIn(tr, node.fs, q, None), ms, path, Follow) = Nowhere
<1> DEFINE ts == SetIn(tr, node.fs, q, None)
           m == Len(path) - 1
<1> USE DEF Entry
<1>1. /\ Len(path) \in Nat \ {0} /\ Parent(path) \in Paths /\ Len(Parent(path)) = m
      /\ Len(Parent(path)) \in 0 .. Len(Parent(path)) /\ m \in 0 .. Len(path)
  BY ParentFacts
<1>2. rt # Nowhere
  BY <1>1, NoRoot DEF TypeIn, None
<1>3. node \in AnyNode
  BY <1>1, <1>2, WalkTyped DEF ResolveIn
<1>4. WalkIn(rt, tr, ms, path, Follow)[m] = node
  BY <1>2, ParentWalk
<1>5. node # Nowhere /\ node.fs \in FileSystems /\ node.path \in Paths
  BY <1>3 DEF TypeIn, AnyNode, None
<1>6. q # <<>>
  BY <1>5, EntryFacts
<1> HIDE DEF m
<1>7. ts \in Trees /\ Rooted(ts) /\ Below(ts, tr)
  BY <1>5, <1>6, RemovedTree
<1>8. ts[node.fs][q] = None
  <2>1. None \in Kinds
    BY DEF Kinds
  <2>2. \A g \in FileSystems, p \in Paths :
          SetIn(tr, node.fs, q, None)[g][p] = IF g = node.fs /\ p = q THEN None ELSE tr[g][p]
    BY ONLY tr \in Trees, <1>5, q \in Paths, <2>1, SetIs
  <2> QED
    BY <1>5, <2>2
<1> HIDE DEF ts
<1>9. WalkIn(rt, ts, ms, path, Follow)[m] \in {Nowhere, node}
  BY <1>1, <1>2, <1>4, <1>7, WalkBelow
<1>10. LookupIn(ts, node, path[Len(path)]) = Nowhere
  BY <1>8 DEF LookupIn
<1>11. ResolveIn(rt, ts, ms, path, Follow) =
        IF WalkIn(rt, ts, ms, path, Follow)[m] = Nowhere THEN Nowhere
        ELSE IF Follow /\ MountedIn(ms, path) # Nowhere THEN MountedIn(ms, path)
        ELSE LookupIn(ts, WalkIn(rt, ts, ms, path, Follow)[m], path[Len(path)])
  BY <1>2, LastStep DEF m
<1>12. ASSUME MountedIn(ms, path) = Nowhere PROVE ResolveIn(rt, ts, ms, path, Follow) = Nowhere
  <2>1. CASE WalkIn(rt, ts, ms, path, Follow)[m] = Nowhere
    BY <1>11, <2>1, Zenon
  <2>2. CASE WalkIn(rt, ts, ms, path, Follow)[m] = node
    BY <1>5, <1>10, <1>11, <1>12, <2>2, Zenon
  <2> QED
    BY <1>9, <2>1, <2>2
<1> QED
  BY <1>7, <1>12 DEF ts

-----------------------------------------------------------------------------
(* The invariant of paths and mounts. *)

\* What CallsShow says of the last call, in given trees and mounts.
Shows(rt, tr, ms, call) ==
  /\ call.op = "mkdir" => ResolveIn(rt, tr, ms, call.path, Follow) # Nowhere
  /\ call.op = "create" => TypeIn(tr, ResolveIn(rt, tr, ms, call.path, Follow)) = "file"
  /\ call.op \in {"rmdir", "unlink"} /\ MountedIn(ms, call.path) = Nowhere =>
       ResolveIn(rt, tr, ms, call.path, Follow) = Nowhere

\* The disks that have a path to be mounted at.
Mountable == {d \in Devices : <<Mnt, d>> \in Paths}

\* The disks are mounted before the first call.
VfsInv ==
  /\ root \in Roots /\ mounts \in Seq(Mounts) /\ calls \in 0 .. MaxCalls
  /\ tree \in Trees /\ Rooted(tree)
  /\ todo \in Seq(Mountable) /\ (todo # <<>> => last = [op |-> None])
  /\ Shows(root, tree, mounts, last)

\* It says what the run checks.
LEMMA VfsFromInv ==
  ASSUME VfsOK, VfsInv
  PROVE  VfsTypeOK /\ CallsShow
<1>1. VfsTypeOK
  <2>1. \A i \in DOMAIN mounts : mounts[i] \in Mounts
    BY ElementOfSeq, LenProperties DEF VfsInv
  <2>2. \A i \in DOMAIN mounts : mounts[i].path \in Paths
    BY <2>1 DEF Mounts
  <2>3. \A fs \in FileSystems : tree[fs] \in [Paths -> {"directory", "file", None}]
    BY DEF VfsInv, Trees, Kinds
  <2>4. root \in {Nowhere} \cup {Root(fs) : fs \in FileSystems} /\ calls \in 0 .. MaxCalls
    BY DEF VfsInv, Roots
  <2> QED
    BY <2>2, <2>3, <2>4 DEF VfsTypeOK
<1>2. \A fs \in FileSystems : \A p \in Paths :
        p # <<>> /\ tree[fs][p] # None => tree[fs][Parent(p)] = "directory"
  BY DEF VfsInv, Rooted
<1>3. (CASE last.op = "mkdir" -> Node(last.path) # Nowhere
        [] last.op = "create" -> Type(Node(last.path)) = "file"
        [] last.op \in {"rmdir", "unlink"} -> MountRoot(last.path) = Nowhere => Node(last.path) = Nowhere
        [] OTHER -> TRUE)
  <2>1. /\ last.op = "mkdir" => Node(last.path) # Nowhere
        /\ last.op = "create" => Type(Node(last.path)) = "file"
        /\ last.op \in {"rmdir", "unlink"} => (MountRoot(last.path) = Nowhere => Node(last.path) = Nowhere)
    BY NodeNow, TypeNow, MountRootNow DEF VfsInv, Shows
  <2> QED
    BY <2>1
<1> QED
  BY <1>1, <1>2, <1>3 DEF CallsShow

\* It holds at first.
LEMMA VfsStart == ASSUME VfsOK, VfsInit PROVE VfsInv
<1>1. /\ <<>> \in Paths /\ <<Mnt>> \in Paths /\ <<Dev>> \in Paths
      /\ \A d \in Devices : <<d>> \in Paths
  BY DEF VfsOK
<1>2. root \in Roots
  BY DEF VfsInit, Roots, FileSystems
<1>3. mounts \in Seq(Mounts)
  <2>1. Root("devfs") \in Roots /\ Root("rootfs") \in Roots
    BY DEF Roots, FileSystems
  <2>2. [path |-> <<Dev>>, root |-> Root("devfs")] \in Mounts /\ [path |-> <<>>, root |-> root] \in Mounts
    BY <1>1, <1>2, <2>1 DEF Mounts
  <2> QED
    BY <2>2 DEF VfsInit
<1>4. ASSUME NEW nodes, \A p \in nodes : \E e : p = <<e>>
      PROVE  Only(nodes) \in [Paths -> Kinds]
  BY DEF Only, Kinds
<1>5. ASSUME NEW nodes, \A p \in nodes : \E e : p = <<e>>, NEW p \in Paths, p # <<>>, Only(nodes)[p] # None
      PROVE  Only(nodes)[Parent(p)] = "directory"
  <2>1. PICK e : p = <<e>>
    BY <1>5 DEF Only
  <2>2. Len(p) = 1
    BY <2>1
  <2>3. Parent(p) \in Paths /\ Len(Parent(p)) = 0
    BY <1>5, <2>2, ParentFacts
  <2>4. Parent(p) = <<>>
    BY <2>3, PathFacts, EmptySeq
  <2> QED
    BY <1>1, <2>4 DEF Only
<1>6. tree \in Trees /\ Rooted(tree)
  <2>1. tree \in [FileSystems -> {Only({}), Only({<<Mnt>>}), Only({<<d>> : d \in Devices})}]
    BY DEF VfsInit
  <2>2. \A fs \in FileSystems : \E nodes : tree[fs] = Only(nodes) /\ \A p \in nodes : \E e : p = <<e>>
    <3> SUFFICES ASSUME NEW fs \in FileSystems
                 PROVE  \E nodes : tree[fs] = Only(nodes) /\ \A p \in nodes : \E e : p = <<e>>
      OBVIOUS
    <3>1. tree[fs] \in {Only({}), Only({<<Mnt>>}), Only({<<d>> : d \in Devices})}
      BY <2>1
    <3>2. CASE tree[fs] = Only({})
      BY <3>2
    <3>3. CASE tree[fs] = Only({<<Mnt>>})
      BY <3>3
    <3>4. CASE tree[fs] = Only({<<d>> : d \in Devices})
      <4> DEFINE nodes == {<<d>> : d \in Devices}
      <4>1. \A p \in nodes : \E e : p = <<e>>
        OBVIOUS
      <4> HIDE DEF nodes
      <4>2. tree[fs] = Only(nodes)
        BY <3>4 DEF nodes
      <4> QED
        BY <4>1, <4>2
    <3> QED
      BY <3>1, <3>2, <3>3, <3>4
  <2>3. \A fs \in FileSystems : tree[fs] \in [Paths -> Kinds]
    BY <1>4, <2>2
  <2>4. tree \in Trees
    BY <2>1, <2>3 DEF Trees
  <2>5. \A fs \in FileSystems : tree[fs][<<>>] = "directory"
    BY <1>1, <2>2 DEF Only
  <2>6. \A fs \in FileSystems : \A p \in Paths :
          p # <<>> /\ tree[fs][p] # None => tree[fs][Parent(p)] = "directory"
    BY <1>5, <2>2
  <2> QED
    BY <2>4, <2>5, <2>6 DEF Rooted
<1>7. todo \in Seq(Mountable)
  <2>1. PICK n \in 0 .. Len(Disks) : todo = SubSeq(Disks, 1, n)
    BY DEF VfsInit
  <2>2. Len(Disks) \in Nat /\ DOMAIN Disks = 1 .. Len(Disks)
    BY LenProperties DEF VfsOK
  <2>3. \A i \in 1 .. n : Disks[i] \in Mountable
    <3>1. \A i \in 1 .. n : i \in DOMAIN Disks
      BY <2>2
    <3>2. \A i \in DOMAIN Disks : Disks[i] \in Devices
      BY <2>2, ElementOfSeq DEF VfsOK
    <3> QED
      BY <3>1, <3>2 DEF Mountable, VfsOK
  <2>4. 1 \in Int /\ n \in Int
    BY <2>2
  <2>5. SubSeq(Disks, 1, n) \in Seq(Mountable)
    BY ONLY <2>3, <2>4, SubSeqProperties
  <2> QED
    BY <2>1, <2>5
<1>8. calls \in 0 .. MaxCalls /\ last = [op |-> None]
  BY DEF VfsInit, VfsOK
<1>9. Shows(root, tree, mounts, last)
  BY <1>8 DEF Shows, None
<1> QED
  BY <1>2, <1>3, <1>6, <1>7, <1>8, <1>9 DEF VfsInv

\* A path leads to a node.
LEMMA NodeTyped ==
  ASSUME VfsOK, VfsInv, NEW path \in Paths
  PROVE  Node(path) \in AnyNode
<1>1. Node(path) = ResolveIn(root, tree, mounts, path, Follow)
  BY NodeNow
<1>2. root \in Roots /\ mounts \in Seq(Mounts)
  BY DEF VfsInv
<1>3. CASE root = Nowhere
  BY <1>1, <1>3, NoRoot DEF AnyNode
<1>4. CASE root # Nowhere
  <2>1. Len(path) \in 0 .. Len(path)
    BY PathFacts
  <2> QED
    BY <1>1, <1>2, <1>4, <2>1, WalkTyped DEF ResolveIn
<1> QED
  BY <1>3, <1>4

\* Where there is no node, the directory has none.
LEMMA NotThere ==
  ASSUME VfsOK, NEW node \in AnyNode, node # Nowhere, NEW name, NEW tr,
         Append(node.path, name) \in Paths, LookupIn(tr, node, name) = Nowhere
  PROVE  tr[node.fs][Append(node.path, name)] = None
<1>1. node.fs \in FileSystems /\ None \notin FileSystems
  BY DEF AnyNode, VfsOK, FileSystems, None
<1>2. [fs |-> node.fs, path |-> Append(node.path, name)] # Nowhere
  BY <1>1 DEF Nowhere
<1> QED
  BY <1>2 DEF LookupIn

\* vfs_mkdir leaves a rooted tree, and what it made is there.
LEMMA MkdirTrees ==
  ASSUME VfsOK, VfsInv, NEW path \in Paths, path # <<>>
  PROVE  /\ MkdirTree(path) \in Trees /\ Rooted(MkdirTree(path))
         /\ MkdirTree(path) # tree =>
              ResolveIn(root, MkdirTree(path), mounts, path, Follow) # Nowhere
<1> DEFINE parent == Node(Parent(path))
           name == path[Len(path)]
           q == Append(parent.path, name)
<1>1. /\ root \in Roots /\ mounts \in Seq(Mounts) /\ tree \in Trees /\ Rooted(tree)
      /\ Parent(path) \in Paths
  BY ParentFacts DEF VfsInv
<1>2. parent \in AnyNode /\ parent = ResolveIn(root, tree, mounts, Parent(path), Follow)
  BY <1>1, NodeTyped, NodeNow
<1> HIDE DEF parent
<1>3. CASE MkdirTree(path) = tree
  BY <1>1, <1>3
<1>4. CASE MkdirTree(path) # tree
  <2>1. /\ MayMake(parent, name, {"rootfs"} \cup Devices) /\ Lookup(parent, name) = Nowhere
        /\ MkdirTree(path) = Added(parent, name, "directory")
    BY <1>4 DEF MkdirTree, parent
  <2>2. TypeIn(tree, parent) = "directory" /\ q \in Paths
    BY <2>1, TypeNow DEF MayMake
  <2>3. parent # Nowhere
    BY <2>2 DEF TypeIn, None
  <2>4. tree[parent.fs][q] = None
    BY <1>2, <2>1, <2>2, <2>3, NotThere, LookupNow
  <2>5. MkdirTree(path) = SetIn(tree, parent.fs, q, "directory")
    BY <2>1 DEF Added, SetIn
  <2>6. /\ SetIn(tree, parent.fs, q, "directory") \in Trees
        /\ Rooted(SetIn(tree, parent.fs, q, "directory"))
        /\ ResolveIn(root, SetIn(tree, parent.fs, q, "directory"), mounts, path, Follow) =
             IF MountedIn(mounts, path) # Nowhere THEN MountedIn(mounts, path)
             ELSE [fs |-> parent.fs, path |-> q]
    BY <1>1, <1>2, <2>2, <2>4, MadeShows
  <2>7. [fs |-> parent.fs, path |-> q] # Nowhere
    <3>1. parent.fs \in FileSystems /\ None \notin FileSystems
      BY <1>2, <2>3 DEF AnyNode, VfsOK, FileSystems, None
    <3> QED
      BY <3>1 DEF Nowhere
  <2> QED
    BY <2>5, <2>6, <2>7
<1> QED
  BY <1>3, <1>4

\* vfs_mkdir keeps it,
LEMMA MkdirStep ==
  ASSUME VfsOK, VfsInv, NEW path \in Paths, Mkdir(path)
  PROVE  VfsInv'
<1>1. /\ path # <<>> /\ todo = <<>> /\ tree' = MkdirTree(path)
      /\ Resolve(path, FALSE) # Nowhere \/ MkdirTree(path) # tree
      /\ calls < MaxCalls /\ calls' = calls + 1 /\ last' = [op |-> "mkdir", path |-> path]
      /\ root' = root /\ mounts' = mounts /\ todo' = todo
  BY DEF Mkdir, Called
<1>2. tree' \in Trees /\ Rooted(tree')
  BY <1>1, MkdirTrees
<1>3. ResolveIn(root', tree', mounts', path, Follow) # Nowhere
  <2>1. CASE MkdirTree(path) # tree
    BY <1>1, <2>1, MkdirTrees
  <2>2. CASE MkdirTree(path) = tree
    <3>1. ResolveIn(root, tree, mounts, path, Stay) # Nowhere
      BY <1>1, <2>2, StayNow
    <3>2. ResolveIn(root, tree, mounts, path, Follow) # Nowhere
      BY <1>1, <3>1, FollowFinds
    <3> QED
      BY <1>1, <2>2, <3>2
  <2> QED
    BY <2>1, <2>2
<1>4. Shows(root', tree', mounts', last')
  BY <1>1, <1>3 DEF Shows
<1>5. calls' \in 0 .. MaxCalls
  BY <1>1 DEF VfsInv, VfsOK
<1> QED
  BY <1>1, <1>2, <1>4, <1>5 DEF VfsInv

\* and so do vfs_open with VFS_O_CREAT,
LEMMA CreateStep ==
  ASSUME VfsOK, VfsInv, NEW path \in Paths, CreateFile(path)
  PROVE  VfsInv'
<1> DEFINE parent == Node(Parent(path))
           name == path[Len(path)]
           q == Append(parent.path, name)
<1>1. /\ path # <<>> /\ todo = <<>> /\ Node(path) = Nowhere
      /\ MayMake(parent, name, Devices) /\ tree' = Added(parent, name, "file")
      /\ calls < MaxCalls /\ calls' = calls + 1 /\ last' = [op |-> "create", path |-> path]
      /\ root' = root /\ mounts' = mounts /\ todo' = todo
  BY DEF CreateFile, Called
<1>2. /\ root \in Roots /\ mounts \in Seq(Mounts) /\ tree \in Trees /\ Rooted(tree)
      /\ Parent(path) \in Paths
  BY <1>1, ParentFacts DEF VfsInv
<1>3. parent \in AnyNode /\ parent = ResolveIn(root, tree, mounts, Parent(path), Follow)
  BY <1>2, NodeTyped, NodeNow
<1> HIDE DEF parent
<1>4. TypeIn(tree, parent) = "directory" /\ q \in Paths
  BY <1>1, TypeNow DEF MayMake
<1>5. parent # Nowhere
  BY <1>4 DEF TypeIn, None
<1>6. root # Nowhere
  BY <1>2, <1>3, <1>5, NoRoot
<1>7. MountedIn(mounts, path) = Nowhere /\ LookupIn(tree, parent, name) = Nowhere
  <2>1. WalkIn(root, tree, mounts, path, Follow)[Len(path) - 1] = parent
    BY <1>1, <1>3, <1>4, <1>6, ParentWalk
  <2>2. ResolveIn(root, tree, mounts, path, Follow) =
          IF WalkIn(root, tree, mounts, path, Follow)[Len(path) - 1] = Nowhere THEN Nowhere
          ELSE IF Follow /\ MountedIn(mounts, path) # Nowhere THEN MountedIn(mounts, path)
          ELSE LookupIn(tree, WalkIn(root, tree, mounts, path, Follow)[Len(path) - 1], name)
    BY <1>1, <1>6, LastStep
  <2>3. ResolveIn(root, tree, mounts, path, Follow) = Nowhere
    BY <1>1, NodeNow
  <2> QED
    BY <1>5, <2>1, <2>2, <2>3, Zenon DEF Follow
<1>8. tree[parent.fs][q] = None
  BY <1>3, <1>4, <1>5, <1>7, NotThere
<1>9. tree' = SetIn(tree, parent.fs, q, "file")
  BY <1>1 DEF Added, SetIn
<1>10. /\ SetIn(tree, parent.fs, q, "file") \in Trees
       /\ Rooted(SetIn(tree, parent.fs, q, "file"))
       /\ ResolveIn(root, SetIn(tree, parent.fs, q, "file"), mounts, path, Follow) =
            IF MountedIn(mounts, path) # Nowhere THEN MountedIn(mounts, path)
            ELSE [fs |-> parent.fs, path |-> q]
       /\ TypeIn(SetIn(tree, parent.fs, q, "file"), [fs |-> parent.fs, path |-> q]) = "file"
  BY <1>1, <1>2, <1>3, <1>4, <1>8, MadeShows
<1>11. TypeIn(tree', ResolveIn(root', tree', mounts', path, Follow)) = "file"
  BY <1>1, <1>7, <1>9, <1>10
<1>12. Shows(root', tree', mounts', last')
  BY <1>1, <1>11 DEF Shows
<1>13. calls' \in 0 .. MaxCalls
  BY <1>1 DEF VfsInv, VfsOK
<1> QED
  BY <1>1, <1>9, <1>10, <1>12, <1>13 DEF VfsInv

\* vfs_rmdir and vfs_unlink,
LEMMA RemoveStep ==
  ASSUME VfsOK, VfsInv, NEW path \in Paths, NEW op \in {"rmdir", "unlink"}, NEW kind,
         Remove(op, kind, path)
  PROVE  VfsInv'
<1> DEFINE parent == Node(Parent(path))
           name == path[Len(path)]
           q == Append(parent.path, name)
           node == Lookup(parent, name)
<1>1. /\ path # <<>> /\ todo = <<>> /\ Type(parent) = "directory"
      /\ node # Nowhere /\ Empty(node) /\ tree' = Removed(node)
      /\ calls < MaxCalls /\ calls' = calls + 1 /\ last' = [op |-> op, path |-> path]
      /\ root' = root /\ mounts' = mounts /\ todo' = todo
  BY DEF Remove, Called
<1>2. /\ root \in Roots /\ mounts \in Seq(Mounts) /\ tree \in Trees /\ Rooted(tree)
      /\ Parent(path) \in Paths
  BY <1>1, ParentFacts DEF VfsInv
<1>3. parent = ResolveIn(root, tree, mounts, Parent(path), Follow)
  BY NodeNow
<1> HIDE DEF parent
<1>4. TypeIn(tree, parent) = "directory"
  BY <1>1, TypeNow
<1>5. q \in Paths /\ node.fs = parent.fs /\ node.path = q
  BY <1>1 DEF Lookup
<1>6. Bare(tree, parent.fs, q)
  BY <1>1, <1>5 DEF Empty, Bare
<1>7. tree' = SetIn(tree, parent.fs, q, None)
  BY <1>1, <1>5 DEF Removed, SetIn
<1>8. /\ SetIn(tree, parent.fs, q, None) \in Trees
      /\ Rooted(SetIn(tree, parent.fs, q, None))
      /\ MountedIn(mounts, path) = Nowhere =>
           ResolveIn(root, SetIn(tree, parent.fs, q, None), mounts, path, Follow) = Nowhere
  <2>1. q = Append(parent.path, path[Len(path)])
    OBVIOUS
  <2>2. path # <<>> /\ q \in Paths
    BY <1>1, <1>5
  <2>3. Entry(root, tree, mounts, path, parent, q)
    BY <1>3, <1>4, <2>1, <2>2 DEF Entry
  <2> HIDE DEF q, node
  <2> QED
    BY ONLY VfsOK, path \in Paths, <1>2, <1>6, <2>2, <2>3, RemovedShows
<1>9. MountedIn(mounts', path) = Nowhere =>
        ResolveIn(root', tree', mounts', path, Follow) = Nowhere
  BY <1>1, <1>7, <1>8
<1>10. Shows(root', tree', mounts', last')
  BY <1>1, <1>9 DEF Shows
<1>11. calls' \in 0 .. MaxCalls
  BY <1>1 DEF VfsInv, VfsOK
<1> QED
  BY <1>1, <1>7, <1>8, <1>10, <1>11 DEF VfsInv

\* Before the first call there is nothing to see.
LEMMA NoCallYet == \A rt, tr, ms : Shows(rt, tr, ms, [op |-> None])
BY DEF Shows, None

\* What is left to mount.
LEMMA TodoTail ==
  ASSUME VfsInv, todo # <<>>
  PROVE  /\ todo[1] \in Devices /\ <<Mnt, todo[1]>> \in Paths
         /\ Tail(todo) \in Seq(Mountable) /\ last = [op |-> None]
<1>1. todo \in Seq(Mountable) /\ last = [op |-> None]
  BY DEF VfsInv
<1>2. Head(todo) \in Mountable /\ Tail(todo) \in Seq(Mountable)
  BY <1>1, HeadTailProperties
<1>3. todo[1] \in Mountable
  BY <1>1, <1>2
<1> QED
  BY <1>1, <1>2, <1>3 DEF Mountable

\* A directory right below the root, if nothing has its name.
Booted(tr, d, p) == SetIn(tr, d, p, IF tr[d][p] = None THEN "directory" ELSE tr[d][p])

\* It leaves the tree rooted.
LEMMA BootTree ==
  ASSUME VfsOK, NEW tr \in Trees, Rooted(tr), NEW d \in Devices, NEW p \in Paths, NEW e, p = <<e>>
  PROVE  Booted(tr, d, p) \in Trees /\ Rooted(Booted(tr, d, p))
<1> DEFINE kind == IF tr[d][p] = None THEN "directory" ELSE tr[d][p]
           ts == Booted(tr, d, p)
<1>1. d \in FileSystems /\ kind \in Kinds
  BY DEF FileSystems, Trees, Kinds
<1>2. /\ ts \in Trees
      /\ \A g \in FileSystems, q \in Paths :
           ts[g][q] = IF g = d /\ q = p THEN kind ELSE tr[g][q]
  <2>1. ts = SetIn(tr, d, p, kind)
    BY DEF Booted
  <2> HIDE DEF kind, ts
  <2>2. /\ SetIn(tr, d, p, kind) \in Trees
        /\ \A g \in FileSystems, q \in Paths :
             SetIn(tr, d, p, kind)[g][q] = IF g = d /\ q = p THEN kind ELSE tr[g][q]
    BY ONLY tr \in Trees, p \in Paths, <1>1, SetIs
  <2> QED
    BY <2>1, <2>2
<1>3. <<>> \in Paths /\ p # <<>> /\ Parent(p) = <<>>
  <2>1. Len(p) = 1
    OBVIOUS
  <2>2. p # <<>>
    OBVIOUS
  <2>3. Parent(p) \in Paths /\ Len(Parent(p)) = Len(p) - 1
    BY ONLY VfsOK, p \in Paths, <2>2, ParentFacts
  <2>4. Parent(p) = <<>>
    <3>1. Parent(p) \in Seq(Names)
      BY <2>3, PathFacts
    <3>2. Len(Parent(p)) = 0
      BY <2>1, <2>3
    <3> QED
      BY <3>1, <3>2, EmptySeq
  <2> QED
    BY <2>2, <2>4 DEF VfsOK
<1>4. \A q \in Paths : q # <<>> => Parent(q) \in Paths
  BY ParentFacts
<1> HIDE DEF ts
<1>5. \A g \in FileSystems : ts[g][<<>>] = "directory"
  BY <1>2, <1>3 DEF Rooted
<1>6. ASSUME NEW g \in FileSystems, NEW q \in Paths, q # <<>>, ts[g][q] # None
      PROVE  ts[g][Parent(q)] = "directory"
  <2>1. Parent(q) \in Paths
    BY <1>4, <1>6
  <2>2. CASE g = d /\ q = p
    BY <1>3, <1>5, <2>2
  <2>3. CASE ~(g = d /\ q = p)
    <3>1. tr[g][Parent(q)] = "directory"
      BY <1>2, <1>6, <2>3 DEF Rooted
    <3>2. "directory" # None
      BY DEF None
    <3> QED
      BY <1>2, <2>1, <3>1, <3>2
  <2> QED
    BY <2>2, <2>3
<1> QED
  BY <1>2, <1>5, <1>6 DEF Rooted, ts

\* the mount of the primary disk
LEMMA MountPrimaryStep ==
  ASSUME VfsOK, VfsInv, NEW ok \in BOOLEAN, MountPrimary(ok)
  PROVE  VfsInv'
<1> DEFINE d == todo[1]
           new == IF ok THEN Root(d) ELSE Nowhere
<1>1. /\ todo # <<>> /\ root' = new
      /\ mounts' = << [path |-> <<Dev>>, root |-> Root("devfs")], [path |-> <<>>, root |-> new] >> \o mounts
      /\ tree' = IF ok THEN [tree EXCEPT ![d] = BootDirs(d)] ELSE tree
      /\ todo' = Tail(todo) /\ calls' = calls /\ last' = last
  BY DEF MountPrimary
<1>2. /\ d \in Devices /\ Tail(todo) \in Seq(Mountable) /\ last = [op |-> None]
      /\ mounts \in Seq(Mounts) /\ tree \in Trees /\ Rooted(tree) /\ calls \in 0 .. MaxCalls
  BY <1>1, TodoTail DEF VfsInv
<1>3. <<>> \in Paths /\ <<Dev>> \in Paths /\ <<Bin>> \in Paths /\ <<Mnt>> \in Paths
  BY DEF VfsOK
<1> HIDE DEF d
<1>4. root' \in Roots
  BY <1>1, <1>2 DEF Roots, FileSystems
<1>5. mounts' \in Seq(Mounts)
  <2>1. Root("devfs") \in Roots
    BY DEF Roots, FileSystems
  <2>2. [path |-> <<Dev>>, root |-> Root("devfs")] \in Mounts /\ [path |-> <<>>, root |-> new] \in Mounts
    BY <1>1, <1>3, <1>4, <2>1 DEF Mounts
  <2> HIDE DEF new
  <2>3. << [path |-> <<Dev>>, root |-> Root("devfs")], [path |-> <<>>, root |-> new] >> \in Seq(Mounts)
    BY <2>2
  <2> QED
    BY <1>1, <1>2, <2>3, ConcatProperties
<1>6. tree' \in Trees /\ Rooted(tree')
  <2> DEFINE mid == Booted(tree, d, <<Bin>>)
             end == Booted(mid, d, <<Mnt>>)
  <2>1. mid \in Trees /\ Rooted(mid)
    BY <1>2, <1>3, BootTree
  <2>2. end \in Trees /\ Rooted(end)
    <3> HIDE DEF mid
    <3> QED
      BY <1>2, <1>3, <2>1, BootTree
  <2>3. [tree EXCEPT ![d] = BootDirs(d)] = end
    <3> DEFINE a == [tree[d] EXCEPT ![<<Bin>>] = IF tree[d][<<Bin>>] = None THEN "directory" ELSE tree[d][<<Bin>>]]
               b == [a EXCEPT ![<<Mnt>>] = IF a[<<Mnt>>] = None THEN "directory" ELSE a[<<Mnt>>]]
    <3>1. d \in FileSystems /\ DOMAIN tree = FileSystems
      BY <1>2 DEF FileSystems, Trees
    <3>2. mid = [tree EXCEPT ![d] = a]
      BY DEF Booted, SetIn
    <3>3. BootDirs(d) = b
      BY DEF BootDirs
    <3> HIDE DEF a, mid
    <3>4. mid[d] = a
      BY <3>1, <3>2
    <3>5. end = [mid EXCEPT ![d] = b]
      BY <3>4 DEF Booted, SetIn
    <3> HIDE DEF b, end
    <3>6. [mid EXCEPT ![d] = b] = [tree EXCEPT ![d] = b]
      BY <1>2, <3>1, <3>2 DEF Trees
    <3> QED
      BY <3>3, <3>5, <3>6
  <2> HIDE DEF mid, end
  <2> QED
    BY <1>1, <1>2, <2>2, <2>3
<1>7. Shows(root', tree', mounts', last')
  BY <1>1, <1>2, NoCallYet
<1> QED
  BY <1>1, <1>2, <1>4, <1>5, <1>6, <1>7 DEF VfsInv

\* and that of another.
LEMMA MountOtherStep ==
  ASSUME VfsOK, VfsInv, NEW ok \in BOOLEAN, MountOther(ok)
  PROVE  VfsInv'
<1> DEFINE path == <<Mnt, todo[1]>>
           new == IF ok THEN Root(todo[1]) ELSE Nowhere
<1>1. /\ todo # <<>> /\ root' = root /\ tree' = MkdirTree(path)
      /\ mounts' \in {mounts, << [path |-> path, root |-> new] >> \o mounts}
      /\ todo' = Tail(todo) /\ calls' = calls /\ last' = last
  BY DEF MountOther
<1>2. /\ todo[1] \in Devices /\ path \in Paths /\ Tail(todo) \in Seq(Mountable)
      /\ last = [op |-> None] /\ mounts \in Seq(Mounts)
  BY <1>1, TodoTail DEF VfsInv
<1>3. tree' \in Trees /\ Rooted(tree')
  <2>1. path # <<>>
    OBVIOUS
  <2> HIDE DEF path
  <2> QED
    BY <1>1, <1>2, <2>1, MkdirTrees
<1>4. mounts' \in Seq(Mounts)
  <2>1. [path |-> path, root |-> new] \in Mounts
    BY <1>2 DEF Mounts, Roots, FileSystems
  <2> HIDE DEF path, new
  <2>2. << [path |-> path, root |-> new] >> \in Seq(Mounts)
    BY <2>1
  <2>3. << [path |-> path, root |-> new] >> \o mounts \in Seq(Mounts)
    BY <1>2, <2>2, ConcatProperties
  <2> QED
    BY <1>1, <1>2, <2>3
<1>5. Shows(root', tree', mounts', last')
  BY <1>1, <1>2, NoCallYet
<1> QED
  BY <1>1, <1>2, <1>3, <1>4, <1>5 DEF VfsInv

\* Every step keeps it.
LEMMA VfsStep == ASSUME VfsOK, VfsInv, [VfsNext]_vfsVars PROVE VfsInv'
<1>1. CASE UNCHANGED vfsVars
  BY <1>1 DEF vfsVars, VfsInv
<1>2. ASSUME NEW ok \in BOOLEAN, MountPrimary(ok) \/ MountOther(ok) PROVE VfsInv'
  BY <1>2, MountPrimaryStep, MountOtherStep
<1>3. ASSUME NEW path \in Paths, Mkdir(path) \/ CreateFile(path) \/ Rmdir(path) \/ Unlink(path)
      PROVE  VfsInv'
  BY <1>3, MkdirStep, CreateStep, RemoveStep DEF Rmdir, Unlink
<1> QED
  BY <1>1, <1>2, <1>3 DEF VfsNext

\* So it always holds.
LEMMA PathsInv == ASSUME VfsOK PROVE VfsSpec => []VfsInv
<1>1. VfsInit => VfsInv
  BY VfsStart
<1>2. VfsInv /\ [VfsNext]_vfsVars => VfsInv'
  BY VfsStep
<1> QED
  BY <1>1, <1>2, PTL DEF VfsSpec

\* Paths, mounts and trees have their types (vfs.c).
THEOREM PathsTyped == ASSUME VfsOK PROVE VfsSpec => []VfsTypeOK
<1>1. VfsInv => VfsTypeOK
  BY VfsFromInv
<1> QED
  BY <1>1, PathsInv, PTL

\* Whatever paths, disks and mounts there are and whichever mounts fail: later
\* calls see what vfs_mkdir, vfs_open, vfs_rmdir and vfs_unlink have done under
\* the path they were given, and every file of a disk is in a directory of it.
THEOREM CallsAreSeen == ASSUME VfsOK PROVE VfsSpec => []CallsShow
<1>1. VfsInv => CallsShow
  BY VfsFromInv
<1> QED
  BY <1>1, PathsInv, PTL
=============================================================================
