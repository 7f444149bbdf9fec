-------------------------------- MODULE Fat ---------------------------------
(* The FAT driver as the system calls use it (fat.c behind vfs.c): directories,
   chains of clusters, and the vnodes, of which every open makes a fresh copy
   of the directory entry. The sectors of a cluster are not told apart; a
   cluster holds Width cells of file data or DirSlots directory slots ("." and
   ".." aside, which no operation looks at). The table's entries are those of
   ClusterTable, which FatTable implements; sectors come from the buffer cache,
   and running out of kernel heap is left to FatTable and BufferCache. System
   calls run one at a time: each is one step.

   `lost` and the `as` of a slot are history: the clusters failed calls left
   behind, and the name a file was created under.                           *)
EXTENDS Naturals, Sequences, FiniteSets

CONSTANTS
    Names,        \* names in paths
    Clipped,      \* those to_fat_name cuts down to one and the same 8.3 name
    Last,         \* the clusters are 2 .. Last
    RootSlots, DirSlots, Width,
    Values, MaxCount,   \* cells, and how many of them one call reads or writes
    Fds,
    Sharing,      \* files are opened twice, or removed while open
    Foreign,      \* a name on the disk that another system stored, as a long name
    KernelApi     \* kernel.c stores its README.TXT, as on every start

FatOK ==
    /\ Last \in Nat \ {0} /\ RootSlots \in Nat /\ DirSlots \in Nat
    /\ Width \in Nat \ {0} /\ MaxCount \in Nat
    /\ Fds \in SUBSET Nat /\ IsFiniteSet(Fds)
    /\ Sharing \in BOOLEAN /\ KernelApi \in BOOLEAN

VARIABLES fat, cells, dirs, nodes, files, lost

vars == <<fat, cells, dirs, nodes, files, lost>>

Free == 0
Eoc == Last + 1
Clusters == 2 .. Last
Table == 0 .. Last      \* entries 0 and 1 are reserved

(* to_fat_name, which find_in_directory compares. *)
Short(n) == IF n \in Clipped THEN "clipped" ELSE n

EndSlot == [kind |-> "end", name |-> "", dir |-> FALSE, first |-> 0, size |-> 0, as |-> ""]
Entry(n, dir, first, size) ==
    [kind |-> "entry", name |-> Short(n), dir |-> dir, first |-> first,
     size |-> size, as |-> n]
LongSlot(n) == [EndSlot EXCEPT !.kind = "long", !.name = n]

LeastOf(S) == CHOOSE x \in S : \A y \in S : x <= y

-----------------------------------------------------------------------------
(* Directories. *)

\* Mutant of Visible: a deleted entry ends the directory.
VisibleToDeleted(d) ==
    {i \in DOMAIN dirs[d] : /\ dirs[d][i].kind = "entry"
                            /\ \A k \in 1 .. i : dirs[d][k].kind \notin {"end", "deleted"}}

(* The entries a scan of d meets before the end mark. *)
Visible(d) ==
    {i \in DOMAIN dirs[d] : /\ dirs[d][i].kind = "entry"
                            /\ \A k \in 1 .. i : dirs[d][k].kind # "end"}

(* The long name a scan has collected when it comes to slot i: the slot before
   it holds one, whatever entry it was written for. Checksums are not looked
   at, and a deleted entry discards it.                                      *)
LongAt(d, i) ==
    IF i > 1 /\ dirs[d][i - 1].kind = "long" THEN {dirs[d][i - 1].name} ELSE {}

Matches(d, i, n) == dirs[d][i].name = Short(n) \/ n \in LongAt(d, i)

(* find_in_directory: the first match, 0 for none. *)
Find(d, n) ==
    LET found == {i \in Visible(d) : Matches(d, i, n)} IN
    IF found = {} THEN 0 ELSE LeastOf(found)

(* fat_find_entry_slot: by the 8.3 name alone. *)
FindShort(d, s) ==
    LET found == {i \in Visible(d) : dirs[d][i].name = s} IN
    IF found = {} THEN 0 ELSE LeastOf(found)

(* The name fat_vfs_readdir reports for slot i. *)
ListedName(d, i) ==
    IF LongAt(d, i) # {} THEN dirs[d][i - 1].name ELSE dirs[d][i].name

(* The slot create_entry takes: a directory never grows. *)
Slot(d) ==
    LET unused == {i \in DOMAIN dirs[d] : dirs[d][i].kind \in {"end", "deleted"}} IN
    IF unused = {} THEN 0 ELSE LeastOf(unused)

(* The directories that paths lead to: the least set that holds the root and
   every directory that an entry in one of them names.                       *)
HoldsPaths(D) ==
    /\ 0 \in D
    /\ \A d \in D : \A i \in Visible(d) : dirs[d][i].dir => dirs[d][i].first \in D
Directories == {d \in Table : \A D \in SUBSET Table : HoldsPaths(D) => d \in D}

(* A new directory's slots. *)
Empty(slots) == [i \in 1 .. slots |-> EndSlot]
IsEmptyDir(d) == Visible(d) = {}                 \* fat_dir_is_empty

Insert(D, d, e) == [D EXCEPT ![d][Slot(d)] = e]

(* 0xE5 over the first letter; nothing looks at the rest of the slot again, nor
   into a removed directory.                                                 *)
DeletedSlot == [EndSlot EXCEPT !.kind = "deleted"]
Delete(d, i) == dirs' = [c \in Table |->
    IF c = d THEN [dirs[d] EXCEPT ![i] = DeletedSlot]
    ELSE IF dirs[d][i].dir /\ c = dirs[d][i].first THEN Empty(DirSlots)
    ELSE dirs[c]]

-----------------------------------------------------------------------------
(* Chains. *)

FreeIn(f) == {c \in Clusters : f[c] = Free}

(* The clusters of the chain that starts at c: the least set that holds c and
   every cluster that one of its clusters is linked to.                      *)
HoldsLinks(f, S) == \A e \in S : f[e] \in Clusters => f[e] \in S
Chain(f, c) ==
    {x \in Clusters : c \in Clusters /\
        \A S \in SUBSET Clusters : c \in S /\ HoldsLinks(f, S) => x \in S}

\* Mutant of FreeChain: only the first cluster.
FreeFirst(c) == fat' = [e \in Table |-> IF c >= 2 /\ e = c THEN Free ELSE fat[e]]

(* The loop that frees the chain of a removed entry. *)
FreeChain(c) == fat' = [e \in Table |-> IF e \in Chain(fat, c) THEN Free ELSE fat[e]]

\* Mutant of Grow: the new cluster is not marked as taken.
GrowUnmarked(f, c) == [f EXCEPT ![c] = LeastOf(FreeIn(f))]

(* Cluster c is linked to the lowest free cluster, which ends the chain. *)
Grow(f, c) ==
    LET new == LeastOf(FreeIn(f)) IN [f EXCEPT ![c] = new, ![new] = Eoc]

(* The loops of fat_vfs_write over the first k clusters of a file: the table
   and the clusters they have come to. They follow what the table holds, and
   grow the chain at its end as long as there is a free cluster.             *)
WalkStart(first) ==
    IF first >= 2 THEN [fat |-> fat, path |-> <<first>>]
    ELSE IF FreeIn(fat) = {} THEN [fat |-> fat, path |-> <<>>]
    ELSE LET c == LeastOf(FreeIn(fat))
         IN [fat |-> [fat EXCEPT ![c] = Eoc], path |-> <<c>>]
Stuck(w) ==
    \/ w.path = <<>>
    \/ w.fat[w.path[Len(w.path)]] = Eoc /\ FreeIn(w.fat) = {}
WalkOn(w) ==
    LET c == w.path[Len(w.path)]
        f == IF w.fat[c] = Eoc THEN Grow(w.fat, c) ELSE w.fat
    IN IF Stuck(w) THEN w ELSE [fat |-> f, path |-> Append(w.path, f[c])]
Walk(first, k) ==
    LET walk[i \in 1 .. k] == IF i = 1 THEN WalkStart(first) ELSE WalkOn(walk[i - 1])
    IN walk[k]

-----------------------------------------------------------------------------
(* Files. *)

Open == {fd \in Fds : files[fd] # {}}
FileOf(fd) == CHOOSE f \in files[fd] : TRUE
NoNode == [dir |-> 0, name |-> "", first |-> 0, size |-> 0]
FreshNode == LeastOf({k \in Fds : \A fd \in Open : FileOf(fd).node # k})

(* Some descriptor is open on entry i of directory d. *)
IsOpen(d, i) == \E fd \in Open :
    LET v == nodes[FileOf(fd).node] IN v.dir = d /\ v.name = dirs[d][i].name

(* fat_vfs_lookup and the rest of vfs_open: a node of its own, with what the
   entry says at this moment.                                                *)
OpenEntry(D, d, i, fd, append) ==
    LET e == D[d][i] IN
    /\ nodes' = [nodes EXCEPT ![FreshNode] =
                   [dir |-> d, name |-> e.name, first |-> e.first, size |-> e.size]]
    /\ files' = [files EXCEPT ![fd] = {[node |-> FreshNode, append |-> append,
                   pos |-> IF append THEN e.size ELSE 0]}]

(* vfs_open of a file, with VFS_O_CREAT: fat_vfs_create makes it if the lookup
   finds nothing.                                                            *)
OpenFile(d, n, fd, append) ==
    LET i == Find(d, n) IN
    /\ files[fd] = {}
    /\ IF i # 0
       THEN /\ ~dirs[d][i].dir /\ (Sharing \/ ~IsOpen(d, i))
            /\ UNCHANGED dirs
            /\ OpenEntry(dirs, d, i, fd, append)
       ELSE /\ Slot(d) # 0
            /\ dirs' = Insert(dirs, d, Entry(n, FALSE, 0, 0))
            /\ OpenEntry(dirs', d, Slot(d), fd, append)
    /\ UNCHANGED <<fat, cells, lost>>

(* task_fork's copy of the file table: another file object, the same node. *)
Duplicate(fd, other) ==
    /\ fd \in Open /\ files[other] = {}
    /\ files' = [files EXCEPT ![other] = files[fd]]
    /\ UNCHANGED <<fat, cells, dirs, nodes, lost>>

(* vfs_close. The node is never freed; the model forgets it with its last
   descriptor.                                                               *)
Close(fd) ==
    /\ fd \in Open
    /\ files' = [files EXCEPT ![fd] = {}]
    /\ nodes' = [k \in Fds |->
         IF \E g \in Open \ {fd} : FileOf(g).node = k THEN nodes[k] ELSE NoNode]
    /\ UNCHANGED <<fat, cells, dirs, lost>>

\* Mutant of Got: the offset inside the cluster is not looked at.
GotAligned(v, pos, n) ==
    LET count == IF n < v.size - pos THEN n ELSE v.size - pos
        cluster[k \in Nat] == IF k = 0 THEN v.first ELSE fat[cluster[k - 1]]
    IN [j \in 1 .. count |-> cells[cluster[pos \div Width + (j - 1) \div Width]][(j - 1) % Width]]

(* fat_vfs_read of up to n cells from position pos: the chain is followed from
   the node's first cluster, as far as the node's size goes.                 *)
Got(v, pos, n) ==
    LET size == IF v.size > pos THEN v.size - pos ELSE 0
        count == IF n < size THEN n ELSE size
        cluster[k \in Nat] == IF k = 0 THEN v.first ELSE
                                IF cluster[k - 1] = Eoc THEN Eoc ELSE fat[cluster[k - 1]]
        readable == {j \in 0 .. count : \A k \in 0 .. j - 1 :
                       cluster[(pos + k) \div Width] \in Clusters}
        got == CHOOSE j \in readable : \A k \in readable : k <= j
    IN [j \in 1 .. got |-> cells[cluster[(pos + j - 1) \div Width]][(pos + j - 1) % Width]]

Read(fd, n) ==
    LET f == FileOf(fd) IN
    /\ fd \in Open
    /\ files' = [files EXCEPT ![fd] = {[f EXCEPT !.pos = @ + Len(Got(nodes[f.node], f.pos, n))]}]
    /\ UNCHANGED <<fat, cells, dirs, nodes, lost>>

\* Mutants of Finalized: only the size, or only the first cluster, is stored.
FinalizedSize(v) ==
    LET i == FindShort(v.dir, v.name) IN
    IF i = 0 THEN dirs ELSE [dirs EXCEPT ![v.dir][i].size = v.size]
FinalizedFirst(v) ==
    LET i == FindShort(v.dir, v.name) IN
    IF i = 0 THEN dirs ELSE [dirs EXCEPT ![v.dir][i].first = v.first]

(* fat_vfs_write finds the directory entry again by its 8.3 name and stores the
   node's first cluster and size there, whatever the entry said.             *)
Finalized(v) ==
    LET i == FindShort(v.dir, v.name) IN
    IF i = 0 THEN dirs
    ELSE [dirs EXCEPT ![v.dir][i].first = v.first, ![v.dir][i].size = v.size]

(* vfs_write and fat_vfs_write of n cells x. When there is no cluster left to
   start in, the call fails and stores nothing; otherwise it writes what fits. *)
Write(fd, n, x) ==
    LET f == FileOf(fd)
        v == nodes[f.node]
        pos == IF f.append THEN v.size ELSE f.pos
        walk == Walk(v.first, (pos + n - 1) \div Width + 1)
        room == Len(walk.path) * Width
        written == IF room > pos + n THEN n ELSE room - pos
        cellsOf(c) == {j \in 0 .. written - 1 : walk.path[(pos + j) \div Width + 1] = c}
        node == [v EXCEPT !.first = IF walk.path = <<>> THEN @ ELSE walk.path[1],
                          !.size = IF pos + written > @ THEN pos + written ELSE @]
    IN
    /\ fd \in Open
    /\ fat' = walk.fat
    /\ IF room <= pos
       THEN /\ nodes' = [nodes EXCEPT ![f.node].first = node.first]
            /\ files' = [files EXCEPT ![fd] = {[f EXCEPT !.pos = pos]}]
            /\ UNCHANGED <<cells, dirs>>
       ELSE /\ cells' = [c \in Table |-> [k \in 0 .. Width - 1 |->
                 IF \E j \in cellsOf(c) : (pos + j) % Width = k THEN x ELSE cells[c][k]]]
            /\ nodes' = [nodes EXCEPT ![f.node] = node]
            /\ files' = [files EXCEPT ![fd] = {[f EXCEPT !.pos = pos + written]}]
            /\ dirs' = Finalized(node)
    /\ UNCHANGED lost

-----------------------------------------------------------------------------
(* Directory operations. *)

(* vfs_mkdir and fat_vfs_mkdir: the cluster is claimed before there is a slot
   for the entry, and is not given back when there is none.                  *)
Mkdir(d, n) ==
    LET c == LeastOf(FreeIn(fat))
        D == [dirs EXCEPT ![c] = Empty(DirSlots)]
    IN
    /\ Find(d, n) = 0
    /\ FreeIn(fat) # {}
    /\ fat' = [fat EXCEPT ![c] = Eoc]
    /\ IF Slot(d) = 0
       THEN dirs' = D /\ lost' = lost \cup {c}
       ELSE dirs' = Insert(D, d, Entry(n, TRUE, c, 0)) /\ UNCHANGED lost
    /\ UNCHANGED <<cells, nodes, files>>

(* fat_vfs_unlink: the entry is marked deleted, its chain is freed. *)
Unlink(d, n) ==
    LET i == Find(d, n) IN
    /\ i # 0 /\ ~dirs[d][i].dir
    /\ Sharing \/ ~IsOpen(d, i)
    /\ Delete(d, i)
    /\ FreeChain(dirs[d][i].first)
    /\ UNCHANGED <<cells, nodes, files, lost>>

(* fat_vfs_rmdir: as unlink, for a directory with no entry left. *)
Rmdir(d, n) ==
    LET i == Find(d, n) IN
    /\ i # 0 /\ dirs[d][i].dir
    /\ IsEmptyDir(dirs[d][i].first)
    /\ Delete(d, i)
    /\ FreeChain(dirs[d][i].first)
    /\ UNCHANGED <<cells, nodes, files, lost>>

(* fat_create_file of n cells in the root, which init_storage calls at every
   start, when no file is open: it does not look whether the name is there;
   clusters taken before it fails stay taken.                                *)
CreateFile(n, count, x) ==
    LET walk == Walk(0, (count - 1) \div Width + 1)
        fits == Len(walk.path) * Width >= count
        taken == {walk.path[k] : k \in 1 .. Len(walk.path)}
    IN
    /\ KernelApi /\ Open = {}
    /\ fat' = walk.fat
    /\ cells' = [c \in Table |-> IF c \in taken
          THEN [k \in 0 .. Width - 1 |->
                  IF \E i \in 1 .. Len(walk.path) :
                       walk.path[i] = c /\ (i - 1) * Width + k < count
                  THEN x ELSE 0]
          ELSE cells[c]]
    /\ IF fits /\ Slot(0) # 0
       THEN /\ dirs' = Insert(dirs, 0, Entry(n, FALSE, walk.path[1], count))
            /\ UNCHANGED lost
       ELSE lost' = lost \cup taken /\ UNCHANGED dirs
    /\ UNCHANGED <<nodes, files>>

-----------------------------------------------------------------------------
(* fat_format, or a disk on which another system stored one file under a long
   name.                                                                     *)
Init ==
    /\ fat = [c \in Table |-> IF c < 2 THEN Eoc ELSE Free]
    /\ cells = [c \in Table |-> [k \in 0 .. Width - 1 |-> 0]]
    /\ dirs = [c \in Table |->
         IF c # 0 THEN Empty(DirSlots)
         ELSE [i \in 1 .. RootSlots |->
                 CASE i = 1 /\ Foreign # {} -> LongSlot(CHOOSE n \in Foreign : TRUE)
                   [] i = 2 /\ Foreign # {} ->
                        [Entry("foreign", FALSE, 0, 0) EXCEPT !.as = CHOOSE n \in Foreign : TRUE]
                   [] OTHER -> EndSlot]]
    /\ nodes = [k \in Fds |-> NoNode]
    /\ files = [fd \in Fds |-> {}]
    /\ lost = {}

Next ==
    \/ \E d \in Directories, n \in Names :
        \/ \E fd \in Fds, append \in BOOLEAN : OpenFile(d, n, fd, append)
        \/ Mkdir(d, n) \/ Unlink(d, n) \/ Rmdir(d, n)
    \/ \E fd \in Fds :
        \/ \E other \in Fds : Duplicate(fd, other)
        \/ Close(fd)
        \/ \E n \in 1 .. MaxCount : Read(fd, n) \/ \E x \in Values : Write(fd, n, x)
    \/ \E n \in Names, count \in 1 .. MaxCount, x \in Values : CreateFile(n, count, x)

Spec == Init /\ [][Next]_vars

-----------------------------------------------------------------------------
(* What the state means. *)

Entries == {e \in Directories \X (1 .. RootSlots + DirSlots) : e[2] \in Visible(e[1])}
At(e) == dirs[e[1]][e[2]]
Used == {c \in Clusters : fat[c] # Free}
Reachable == UNION {Chain(fat, At(e).first) : e \in Entries}

Nth(first, k) ==
    LET nth[i \in 0 .. k] == IF i = 0 THEN first ELSE fat[nth[i - 1]] IN nth[k]
Data(e) == [j \in 1 .. e.size |-> cells[Nth(e.first, (j - 1) \div Width)][(j - 1) % Width]]

(* The paths of the directories, with their clusters. *)
PathsOf ==
    LET Sub(x) == {<<Append(x[1], dirs[x[2]][i].as), dirs[x[2]][i].first>> :
                     i \in {k \in Visible(x[2]) : dirs[x[2]][k].dir}}
        level[k \in 0 .. Last] ==
          IF k = 0 THEN {<<<<>>, 0>>}
          ELSE level[k - 1] \cup UNION {Sub(x) : x \in level[k - 1]}
    IN level[Last]
NodePath(v) ==
    LET x == CHOOSE y \in PathsOf : y[2] = v.dir
    IN Append(x[1], dirs[v.dir][FindShort(v.dir, v.name)].as)

TypeOK ==
    /\ fat \in [Table -> 0 .. Eoc]
    /\ cells \in [Table -> [0 .. Width - 1 -> Values \cup {0}]]
    /\ \A d \in Table : \A i \in DOMAIN dirs[d] :
          /\ dirs[d][i].kind \in {"end", "deleted", "long", "entry"}
          /\ dirs[d][i].first \in Table
    /\ \A fd \in Open : /\ FileOf(fd).node \in Fds
                         /\ FileOf(fd).pos <= nodes[FileOf(fd).node].size
    /\ lost \subseteq Clusters

(* Every cluster belongs to one file or directory at most, and each chain runs
   over claimed clusters to an end mark: no sequence of creates, writes,
   removals and failures for lack of space links two files into each other
   (fat_vfs_write, fat_vfs_unlink, fat_vfs_rmdir, fat_find_free_cluster).     *)
NoCrossLinks ==
    \A c \in Clusters :
        /\ Cardinality({e \in Entries : At(e).first = c})
             + Cardinality({b \in Table : fat[b] = c}) <= 1
        /\ c \in Reachable => fat[c] \in Clusters \cup {Eoc}

(* The clusters of a file are the ones its size calls for: a reader bounded by
   the size never runs off the chain, and no cluster hangs behind the end.   *)
SizeFitsChain ==
    \A e \in Entries : ~At(e).dir =>
        Cardinality(Chain(fat, At(e).first)) = (At(e).size + Width - 1) \div Width

(* A cluster that is claimed belongs to a file or a directory, unless a call
   that failed for want of a directory slot or of space left it behind: writes
   that run out of space leak nothing.                                       *)
LostOnlyByFailure == Used = Reachable \cup lost /\ Reachable \cap lost = {}

(* No two entries of a directory answer to one name (fat_vfs_create and
   vfs_mkdir look before they create; filesystem.md:129, "-EEXIST: File
   already exists").                                                         *)
NamesUnique ==
    \A e, g \in Entries : e[1] = g[1] /\ At(e).name = At(g).name => e = g

(* What FileStore's variables stand for: every path with its file's cells, and
   every descriptor with the path of its vnode.                              *)
StoredTree ==
    LET found == UNION {{<<Append(x[1], dirs[x[2]][i].as), dirs[x[2]][i]>> :
                           i \in Visible(x[2])} : x \in PathsOf}
    IN [p \in {x[1] : x \in found} |->
         LET e == (CHOOSE x \in found : x[1] = p)[2]
         IN [dir |-> e.dir, data |-> Data(e)]]
OpenHandles ==
    [fd \in Fds |-> {[path |-> NodePath(nodes[f.node]), pos |-> f.pos, append |-> f.append] :
                        f \in files[fd]}]

(* The driver implements FileStore: whatever clusters and slots are used, files
   hold what was written to them, appending and overwriting across clusters,
   reads return it, and no operation on one file shows in another.           *)
Store == INSTANCE FileStore WITH
    Handles <- Fds, MaxDepth <- IF DirSlots = 0 THEN 1 ELSE Last, Values <- Values \cup {0},
    tree <- StoredTree, handles <- OpenHandles
StoresFiles == Store!Spec

(* A read returns what the file holds from the descriptor's position on, and no
   more, although it goes by the first cluster and the size its vnode copied
   when the file was opened (fat_vfs_read, fat_vfs_write's update of both).   *)
ReadsBack ==
    \A fd \in Open : LET f == FileOf(fd)
                         v == nodes[f.node]
                         data == Data(dirs[v.dir][FindShort(v.dir, v.name)])
                     IN Got(v, f.pos, MaxCount) = SubSeq(data, f.pos + 1,
                          IF f.pos + MaxCount < Len(data) THEN f.pos + MaxCount ELSE Len(data))

(* "Updates offset, may extend file size" (docs/kernel/filesystem.md:77): a write never makes a
   file shorter, whoever else has it open (fat_vfs_write's last steps).       *)
WriteNeverShrinks ==
    [][\A fd \in Fds, n \in 1 .. MaxCount, x \in Values : Write(fd, n, x) =>
        \A d \in Table : \A i \in DOMAIN dirs[d] : dirs'[d][i].size >= dirs[d][i].size]_vars

(* "Checksum validates LFN matches DOS name" (docs/kernel/filesystem.md:219),
   "Long File Names (LFN): Extended filename support beyond 8.3 format" (144):
   an entry is listed under the name it was created by, and no other name
   finds it (find_in_directory, fat_vfs_readdir, create_entry).              *)
NamesKept ==
    \A e \in Entries :
        /\ ListedName(e[1], e[2]) = At(e).as
        /\ \A n \in Names : Find(e[1], n) = e[2] => n = At(e).as
=============================================================================
