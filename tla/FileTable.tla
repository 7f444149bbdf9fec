------------------------------ MODULE FileTable ------------------------------
(* The descriptor tables of the tasks and the file objects they point to, from
   the kernel's heap (vfs_task_file_table_* and vfs_open to vfs_close in vfs.c,
   their callers in task.c). Whatever a call of kmalloc is for, it may fail.
   A dead task keeps its table until cleanup_zombies frees it.

   The walks over paths are Vfs's; here open is given the vnode. One of a file
   is fresh at every open (fat_vfs_lookup) and has its own copy of the size;
   only forks share it. It stays in memory for good, but nobody can tell once
   no descriptor leads to it, and it may stand for a new one.                 *)
EXTENDS Naturals, Sequences

CONSTANTS
    Tasks,
    MaxFiles,     \* MAX_FILES_PER_PROCESS
    Objects,      \* the file_t objects there can be at once
    Closed,       \* the descriptors programs close
    Vnodes,       \* the vnodes of files that descriptors lead to at once
    MaxSize       \* bound on the size of a file: none is written beyond

NoFile == "NULL"

ConstantsOK ==
    /\ MaxFiles \in Nat /\ MaxFiles > 3 /\ MaxSize \in Nat
    /\ Closed \subseteq 0 .. MaxFiles - 1
    /\ NoFile \notin Objects

Fds == 0 .. MaxFiles - 1
Stdio == <<"kbd0", "tty0", "tty0">>     \* stdio_paths; devices, which keep no position
Nodes == Vnodes \cup {"kbd0", "tty0"}

VARIABLES
    state,   \* none, alive, zombie
    table,   \* task |-> file_table
    file,    \* object |-> {} or {[node, position, append]}
    size,    \* vnode |-> its size
    leaked   \* history: the objects of tasks that were not created after all

vars == <<state, table, file, size, leaked>>

Descriptor == [node : Nodes, position : 0 .. MaxSize, append : BOOLEAN]

Unused == {o \in Objects : file[o] = {}}
Used(t) == {fd \in Fds : table[t][fd] # NoFile}
FileOf(t, fd) == CHOOSE f \in file[table[t][fd]] : TRUE
EmptyTable == [fd \in Fds |-> NoFile]
Owned(t) == {table[t][fd] : fd \in Used(t)}

Init ==
    /\ state = [t \in Tasks |-> "none"]
    /\ table = [t \in Tasks |-> EmptyTable]
    /\ file = [o \in Objects |-> {}]
    /\ size = [v \in Vnodes |-> 0]
    /\ leaked = {}

-----------------------------------------------------------------------------
(* One kmalloc for each of the descriptors in fds, from what is unused; which
   object it is makes no difference.                                         *)
Distinct(new) == \A f, g \in DOMAIN new : new[f] = new[g] => f = g
Allocations(fds) ==
    IF \E new \in [fds -> Unused] : Distinct(new)
    THEN {CHOOSE new \in [fds -> Unused] : Distinct(new)} ELSE {}

(* The table with the objects of new, and their contents. *)
Gets(t, new, content) ==
    /\ table' = [table EXCEPT ![t] =
                    [fd \in Fds |-> IF fd \in DOMAIN new THEN new[fd] ELSE NoFile]]
    /\ file' = [o \in Objects |->
                  IF \E fd \in DOMAIN new : new[fd] = o
                  THEN {content[CHOOSE fd \in DOMAIN new : new[fd] = o]} ELSE file[o]]

Standard == [fd \in 0 .. 2 |-> [node |-> Stdio[fd + 1], position |-> 0, append |-> FALSE]]

(* vfs_task_file_table_init for a new task. Without memory what was taken is
   given back, and there is no task.                                         *)
Create(t) ==
    /\ state[t] = "none"
    /\ \E new \in Allocations(0 .. 2) : Gets(t, new, Standard)
    /\ state' = [state EXCEPT ![t] = "alive"]
    /\ UNCHANGED <<size, leaked>>

(* task_create_elf and task_create_user may fail behind it, for want of frames:
   they free the task and its stack only.                                    *)
LoadFails(t) ==
    /\ state[t] = "none"
    /\ \E new \in Allocations(0 .. 2) :
          /\ file' = [o \in Objects |-> IF \E fd \in 0 .. 2 : new[fd] = o
                        THEN {Standard[CHOOSE fd \in 0 .. 2 : new[fd] = o]} ELSE file[o]]
          /\ leaked' = leaked \cup {new[fd] : fd \in 0 .. 2}
    /\ UNCHANGED <<state, table, size>>

\* Mutant of Clones: the objects themselves are passed on.
ClonesShared(p) == {[fd \in Used(p) |-> table[p][fd]]}
(* The objects the descriptors of p may be copied into, each by one kmalloc. *)
Clones(p) == Allocations(Used(p))

(* task_fork: the standard three come and go first. vfs_task_file_table_copy
   leaves the child without descriptors when one of them cannot be copied,
   which task_fork does not look at.                                         *)
Fork(p, c) ==
    /\ state[p] = "alive" /\ state[c] = "none"
    /\ Allocations(0 .. 2) # {}
    /\ \/ \E new \in Clones(p) : Gets(c, new, [fd \in Used(p) |-> FileOf(p, fd)])
       \/ UNCHANGED <<table, file>>
    /\ state' = [state EXCEPT ![c] = "alive"]
    /\ UNCHANGED <<size, leaked>>

\* Mutant of Freed: the last object is forgotten.
FreedButStdio(t) == {table[t][fd] : fd \in Used(t) \cap 0 .. 2}
(* The objects vfs_task_file_table_destroy frees. *)
Freed(t) == Owned(t)

Exit(t) ==
    /\ state[t] = "alive"
    /\ state' = [state EXCEPT ![t] = "zombie"]
    /\ UNCHANGED <<table, file, size, leaked>>

(* cleanup_zombies, and vfs_task_file_table_destroy. *)
Reap(t) ==
    /\ state[t] = "zombie"
    /\ file' = [o \in Objects |-> IF o \in Freed(t) THEN {} ELSE file[o]]
    /\ table' = [table EXCEPT ![t] = EmptyTable]
    /\ state' = [state EXCEPT ![t] = "none"]
    /\ UNCHANGED <<size, leaked>>

-----------------------------------------------------------------------------
(* The system calls of a task that runs. *)

SizeOf(n) == IF n \in Vnodes THEN size[n] ELSE 0

(* The lowest free descriptor from 3 on, or none. *)
LowestFree(t) ==
    LET free == Fds \ (Used(t) \cup 0 .. 2)
    IN {fd \in free : \A g \in free : fd <= g}

(* vfs_open of a device, or of a file of size s, 0 if it was just created.
   Without a descriptor or memory the call fails.                            *)
Fresh(n) == n \in Vnodes => \A o \in Objects \ Unused : \A d \in file[o] : d.node # n

Open(t, n, s, append) ==
    /\ state[t] = "alive" /\ Fresh(n)
    /\ size' = IF n \in Vnodes THEN [size EXCEPT ![n] = s] ELSE size
    /\ \E fd \in LowestFree(t) : \E new \in Allocations({fd}) :
          /\ table' = [table EXCEPT ![t][fd] = new[fd]]
          /\ file' = [file EXCEPT ![new[fd]] =
                {[node |-> n, append |-> append,
                  position |-> IF append /\ n \in Vnodes THEN s ELSE 0]}]
    /\ UNCHANGED <<state, leaked>>

(* vfs_read and vfs_write of one unit: a device keeps no position; a write to a
   descriptor opened for appending first goes to the end of the file, as its
   vnode has it.                                                             *)
Read(t, fd) ==
    /\ state[t] = "alive" /\ fd \in Used(t)
    /\ FileOf(t, fd).position < SizeOf(FileOf(t, fd).node)
    /\ file' = [file EXCEPT ![table[t][fd]] = {[FileOf(t, fd) EXCEPT !.position = @ + 1]}]
    /\ UNCHANGED <<state, table, size, leaked>>

Write(t, fd) ==
    /\ state[t] = "alive" /\ fd \in Used(t)
    /\ FileOf(t, fd).node \in Vnodes
    /\ LET f == FileOf(t, fd)
           end == 1 + (IF f.append THEN SizeOf(f.node) ELSE f.position)
       IN /\ end <= MaxSize
          /\ file' = [file EXCEPT ![table[t][fd]] = {[f EXCEPT !.position = end]}]
          /\ size' = [size EXCEPT ![f.node] = IF end > @ THEN end ELSE @]
    /\ UNCHANGED <<state, table, leaked>>

Close(t, fd) ==
    /\ state[t] = "alive" /\ fd \in Used(t) \cap Closed
    /\ file' = [file EXCEPT ![table[t][fd]] = {}]
    /\ table' = [table EXCEPT ![t][fd] = NoFile]
    /\ UNCHANGED <<state, size, leaked>>

Next ==
    \E t \in Tasks :
        \/ Create(t) \/ LoadFails(t) \/ Exit(t) \/ Reap(t)
        \/ \E c \in Tasks : Fork(t, c)
        \/ \E n \in Nodes, s \in 0 .. MaxSize, append \in BOOLEAN : Open(t, n, s, append)
        \/ \E fd \in Fds : Read(t, fd) \/ Write(t, fd) \/ Close(t, fd)

Spec == Init /\ [][Next]_vars

-----------------------------------------------------------------------------
TypeOK ==
    /\ state \in [Tasks -> {"none", "alive", "zombie"}]
    /\ table \in [Tasks -> [Fds -> Objects \cup {NoFile}]]
    /\ file \in [Objects -> SUBSET Descriptor]
    /\ \A o \in Objects : \A d, e \in file[o] : d = e
    /\ size \in [Vnodes -> 0 .. MaxSize]
    /\ leaked \subseteq Objects

(* Every file object is pointed to by exactly one descriptor of one task, dead
   ones included until they are reaped: none is used after it was freed, no two
   tasks share one, and none is leaked, whatever allocation failed, but by the
   creation of a task whose program could not be loaded
   (vfs_task_file_table_init, _copy, _destroy, vfs_open, vfs_close).          *)
OneOwner ==
    /\ \A t \in Tasks, fd \in Fds : fd \in Used(t) =>
          /\ table[t][fd] \notin Unused \cup leaked
          /\ \A u \in Tasks, g \in Fds : table[u][g] = table[t][fd] => u = t /\ g = fd
    /\ Objects \subseteq Unused \cup leaked \cup UNION {Owned(t) : t \in Tasks}
    /\ \A t \in Tasks : state[t] = "none" => Used(t) = {}

(* The values behind the pointers. *)
Descriptors == [t \in Tasks |-> [fd \in Fds |->
    IF table[t][fd] = NoFile THEN {} ELSE file[table[t][fd]]]]

(* The tables of pointers implement private tables of values: no task's opens,
   closes, reads or writes move another's descriptors, its parent's and its
   children's included.                                                      *)
Private == INSTANCE DescriptorTables WITH descriptors <- Descriptors
DescriptorsPrivate == Private!Spec

(* "Copies parent's memory, registers, and file descriptors"
   (docs/api/syscall-reference.md:416): a child starts with all descriptors of
   its parent (task.c:640).                                                  *)
ForkInherits ==
    [][\A p, c \in Tasks : Fork(p, c) => Used(p) = {fd \in Fds : table'[c][fd] # NoFile}]_vars
=============================================================================
