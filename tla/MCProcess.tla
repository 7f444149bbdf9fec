------------------------------ MODULE MCProcess ------------------------------
(* What the kernel and the library keep for a process, for TLC: the descriptor
   tables of FileTable, the heap that malloc hands out, and the paths and
   mounts. They share no state in these models, so every behaviour explores one
   of them, and the others stay in an initial state.                         *)
EXTENDS FileTable, Malloc, Vfs

CONSTANTS d1, d2     \* two disks

VARIABLE explored

allVars == <<explored, vars, mallocVars, vfsVars>>

Parts(p) == {SubSeq(p, i, k) : i \in 1 .. Len(p), k \in 0 .. Len(p)}
ThePaths == UNION {Parts(p) : p \in {<<Mnt, d2, Bin>>, <<Dev, d1>>, <<Bin, Mnt>>, <<Mnt, d1>>}}
TheDisks == <<d1, d2>>

ASSUME ConstantsOK /\ MallocOK /\ Moderate /\ VfsOK

AllInit ==
    /\ explored \in {"files", "malloc", "paths"}
    /\ Init /\ MallocInit /\ VfsInit
    /\ explored # "paths" => todo = <<>> /\ \A d \in {d1, d2} : tree[d] = Only({})

AllNext ==
    /\ UNCHANGED explored
    /\ \/ /\ explored = "files" /\ Next
          /\ UNCHANGED <<mallocVars, vfsVars>>
       \/ /\ explored = "malloc" /\ MallocNext
          /\ UNCHANGED <<vars, vfsVars>>
       \/ /\ explored = "paths" /\ VfsNext
          /\ UNCHANGED <<vars, mallocVars>>

AllSpec == AllInit /\ [][AllNext]_allVars

-----------------------------------------------------------------------------
(* The types of the three components' states. The properties of the run are
   those of the modules it extends.                                          *)
AllTypeOK == TypeOK /\ MallocTypeOK /\ VfsTypeOK
=============================================================================
