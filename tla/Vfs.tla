--------------------------------- MODULE Vfs ---------------------------------
(* Paths, mounts and directories: resolve_path_ext, vfs_mount, vfs_mkdir and the
   like in vfs.c, the directory trees of rootfs.c, devfs.c and, by their
   effect, of fat.c, and the mounting of the disks by init_storage (kernel.c).

   A path is the sequence of its components, a node a file system and the path
   in it. Of fat.c only what its calls do to the tree is here (Fat has the
   rest), without "." and "..". The vnode that a disk is mounted on is a fresh
   one of fat_vfs_lookup, so that its mounted_vnode is never looked at again;
   that of a root that fat_mount makes is not initialised, and read.          *)
EXTENDS Naturals, Sequences, FiniteSetsExt

CONSTANTS
    Disks,          \* the disks there are, in the order of their registration
    Paths,          \* the paths there may be, and what of them is in a file system
    Mnt, Bin, Dev,  \* "mnt", "bin", "dev"
    Devices,        \* the devices in devfs, the disks among them
    MaxCalls,       \* bound on the calls that change a directory
    RootsZeroed     \* fat_mount's memory happens to be zero

None == "none"

VfsOK ==
    /\ Disks \in Seq(Devices) /\ \A i \in DOMAIN Disks : <<Mnt, Disks[i]>> \in Paths
    /\ None \notin Devices /\ Paths \subseteq Seq(UNION {Range(p) : p \in Paths})
    /\ {<<>>, <<Mnt>>, <<Bin>>, <<Dev>>} \cup {<<d>> : d \in Devices} \subseteq Paths
    /\ \A p \in Paths : \A i, k \in DOMAIN p : SubSeq(p, i, k) \in Paths
    /\ MaxCalls \in Nat /\ RootsZeroed \in BOOLEAN

Nowhere == [fs |-> None, path |-> <<>>]     \* no node
FileSystems == {"rootfs", "devfs"} \cup Devices
Root(fs) == [fs |-> fs, path |-> <<>>]

VARIABLES
    root,      \* root_vnode
    mounts,    \* mount_list, the newest first: [path, root]
    tree,      \* file system |-> path in it |-> "directory", "file" or None
    todo,      \* the disks that init_storage has still to come to
    primary,   \* primary_storage
    calls,     \* how many calls there were
    last       \* history: the last call that succeeded, [op, path]

vfsVars == <<root, mounts, tree, todo, primary, calls, last>>

Only(nodes) == [p \in Paths |-> IF p = <<>> THEN "directory" ELSE IF p \in nodes THEN "file" ELSE None]

(* vfs_init has mounted rootfs and devfs; a disk is empty, or has a file where
   the kernel expects the directory /mnt.                                    *)
VfsInit ==
    /\ root = Root("rootfs")
    /\ mounts = << [path |-> <<Dev>>, root |-> Root("devfs")], [path |-> <<>>, root |-> root] >>
    /\ tree \in [FileSystems -> {Only({}), Only({<<Mnt>>}), Only({<<d>> : d \in Devices})}]
    /\ tree["rootfs"] = Only({}) /\ tree["devfs"] = Only({<<d>> : d \in Devices})
    /\ \A d \in Devices : tree[d] # Only({<<e>> : e \in Devices})
    /\ todo \in {SubSeq(Disks, 1, n) : n \in 0 .. Len(Disks)}
    /\ primary = None /\ calls = 0 /\ last = [op |-> None]

-----------------------------------------------------------------------------
Type(node) == IF node = Nowhere THEN None ELSE tree[node.fs][node.path]

(* The lookup of a file system. *)
Lookup(node, name) ==
    LET p == Append(node.path, name)
    IN IF p \notin Paths \/ tree[node.fs][p] = None THEN Nowhere ELSE [fs |-> node.fs, path |-> p]

(* vfs_get_mount_root. *)
MountRoot(path) ==
    LET at == {i \in DOMAIN mounts : mounts[i].path = path}
    IN IF at = {} THEN Nowhere ELSE mounts[Min(at)].root

(* resolve_path_ext, a component after the other. *)
Resolve(path, followLast) ==
    LET walk[k \in 0 .. Len(path)] ==
          IF k = 0 \/ root = Nowhere THEN root
          ELSE LET mounted == MountRoot(SubSeq(path, 1, k))
                   next == IF walk[k - 1] = Nowhere THEN Nowhere
                           ELSE IF mounted # Nowhere /\ (followLast \/ k < Len(path)) THEN mounted
                           ELSE Lookup(walk[k - 1], path[k])
               IN IF k < Len(path) /\ Type(next) # "directory" THEN Nowhere ELSE next
    IN walk[Len(path)]

Node(path) == Resolve(path, TRUE)
Parent(path) == SubSeq(path, 1, Len(path) - 1)      \* split_path

(* The root of a disk is followed to wherever its mounted_vnode points. *)
Wild(path) == ~RootsZeroed /\ \E k \in 1 .. Len(path) :
    LET m == MountRoot(SubSeq(path, 1, k)) IN m # Nowhere /\ m.fs \in Devices

-----------------------------------------------------------------------------
(* What a call makes of the trees: a new node of a kind below its parent. Only
   rootfs and the disks have mkdir, only the disks the rest.                 *)
Added(parent, name, kind) ==
    [tree EXCEPT ![parent.fs] = [@ EXCEPT ![Append(parent.path, name)] = kind]]
Removed(node) == [tree EXCEPT ![node.fs] = [@ EXCEPT ![node.path] = None]]
Empty(node) == \A p \in Paths : Len(p) = Len(node.path) + 1 /\ Parent(p) = node.path => tree[node.fs][p] = None

MayMake(parent, name, fss) ==
    Type(parent) = "directory" /\ parent.fs \in fss /\ Append(parent.path, name) \in Paths

\* Mutant of MkdirTree: the parent is taken without following the last mount.
MkdirTreeBelow(path) ==
    LET parent == Resolve(Parent(path), FALSE)
    IN IF Resolve(path, FALSE) = Nowhere /\ MayMake(parent, path[Len(path)], {"rootfs"} \cup Devices)
       THEN Added(parent, path[Len(path)], "directory") ELSE tree
(* vfs_mkdir, the trees after it: what is there already, under a mount or not,
   counts as made.                                                           *)
MkdirTree(path) ==
    LET parent == Node(Parent(path))
    IN IF Resolve(path, FALSE) = Nowhere /\ MayMake(parent, path[Len(path)], {"rootfs"} \cup Devices)
          /\ Lookup(parent, path[Len(path)]) = Nowhere
       THEN Added(parent, path[Len(path)], "directory") ELSE tree

Called(op, path) == calls < MaxCalls /\ calls' = calls + 1 /\ last' = [op |-> op, path |-> path]

Mkdir(path) ==
    /\ todo = <<>> /\ path # <<>>
    /\ Resolve(path, FALSE) # Nowhere \/ MkdirTree(path) # tree
    /\ tree' = MkdirTree(path)
    /\ Called("mkdir", path)
    /\ UNCHANGED <<root, mounts, todo, primary>>

(* vfs_open with VFS_O_CREAT of a file that is not there. *)
CreateFile(path) ==
    /\ todo = <<>> /\ path # <<>> /\ Node(path) = Nowhere
    /\ MayMake(Node(Parent(path)), path[Len(path)], Devices)
    /\ tree' = Added(Node(Parent(path)), path[Len(path)], "file")
    /\ Called("create", path)
    /\ UNCHANGED <<root, mounts, todo, primary>>

(* vfs_rmdir and vfs_unlink ask the file system of the parent, also for the
   entry under a mount point.                                                *)
Remove(op, kind, path) ==
    /\ todo = <<>> /\ path # <<>>
    /\ LET parent == Node(Parent(path))
       IN /\ Type(parent) = "directory" /\ parent.fs \in Devices
          /\ LET node == Lookup(parent, path[Len(path)])
             IN node # Nowhere /\ Type(node) = kind /\ Empty(node) /\ tree' = Removed(node)
    /\ Called(op, path)
    /\ UNCHANGED <<root, mounts, todo, primary>>

Rmdir(path) == Remove("rmdir", "directory", path)
Unlink(path) == Remove("unlink", "file", path)

-----------------------------------------------------------------------------
(* init_storage, one disk. fat_init, after fat_format if need be, and
   fat_mount's own may fail: a first disk that fails takes root_vnode with it. *)

(* /bin and /mnt, if the disk has nothing of the name. *)
BootDirs(d) == [tree[d] EXCEPT ![<<Bin>>] = IF @ = None THEN "directory" ELSE @,
                               ![<<Mnt>>] = IF @ = None THEN "directory" ELSE @]

MountPrimary(ok) ==
    /\ todo # <<>> /\ primary = None
    /\ LET d == todo[1]
           new == IF ok THEN Root(d) ELSE Nowhere
       IN /\ root' = new
          /\ mounts' = << [path |-> <<Dev>>, root |-> Root("devfs")], [path |-> <<>>, root |-> new] >> \o mounts
          /\ primary' = IF ok THEN d ELSE None
          /\ tree' = IF ok THEN [tree EXCEPT ![d] = BootDirs(d)] ELSE tree
    /\ todo' = Tail(todo)
    /\ UNCHANGED <<calls, last>>

(* The others go to /mnt/<name>; README.TXT on them is left out. *)
MountOther(ok) ==
    /\ todo # <<>> /\ primary # None
    /\ LET path == <<Mnt, todo[1]>>
       IN /\ tree' = MkdirTree(path)
          /\ mounts' = IF (Type(Node(path)) = "directory" \/ tree' # tree)
                       THEN << [path |-> path, root |-> IF ok THEN Root(todo[1]) ELSE Nowhere] >> \o mounts
                       ELSE mounts
    /\ todo' = Tail(todo)
    /\ UNCHANGED <<root, primary, calls, last>>

VfsNext ==
    \/ \E ok \in BOOLEAN : MountPrimary(ok) \/ MountOther(ok)
    \/ \E path \in Paths : Mkdir(path) \/ CreateFile(path) \/ Rmdir(path) \/ Unlink(path)

VfsSpec == VfsInit /\ [][VfsNext]_vfsVars

-----------------------------------------------------------------------------
VfsTypeOK ==
    /\ root \in {Nowhere} \cup {Root(fs) : fs \in FileSystems}
    /\ \A i \in DOMAIN mounts : mounts[i].path \in Paths
    /\ \A fs \in FileSystems : tree[fs] \in [Paths -> {"directory", "file", None}]
    /\ calls \in 0 .. MaxCalls

(* Later calls see what a call has done under the path it was given, whichever
   file systems the path goes through: what mkdir or open made is there, and
   what rmdir or unlink removed is not, unless a file system is mounted there
   (vfs_mkdir, vfs_open, vfs_rmdir, vfs_unlink, resolve_path_ext); every file
   of a disk is in a directory of it.                                        *)
CallsShow ==
    /\ CASE last.op = "mkdir" -> Node(last.path) # Nowhere
         [] last.op = "create" -> Type(Node(last.path)) = "file"
         [] last.op \in {"rmdir", "unlink"} -> MountRoot(last.path) = Nowhere => Node(last.path) = Nowhere
         [] OTHER -> TRUE
    /\ \A fs \in FileSystems : \A p \in Paths :
         p # <<>> /\ tree[fs][p] # None => tree[fs][Parent(p)] = "directory"

(* "For stable path-based resolution" (vfs.c:130): a disk that was mounted stays
   where it is, whatever becomes of the directories above it.                *)
MountsStay == \A i \in DOMAIN mounts : mounts[i].root # Nowhere /\ mounts[i].path # <<>> /\ root # Nowhere =>
    Node(mounts[i].path) = mounts[i].root

(* A path that leads through a mounted disk leads to a file of that disk: the
   vnode of its root is one that fat_mount has filled in.                    *)
RootsFilled == \A p \in Paths : ~Wild(p)
=============================================================================
