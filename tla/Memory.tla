------------------------------- MODULE Memory -------------------------------
(* Page directories and the frames behind them (memory.c), as the system calls
   use them: sys_brk (syscalls.c), the copying of task_fork and the new image
   of task_execve (task.c, elf.c), and the kernel's heap when it needs one more
   page table (heap_sbrk in kmalloc.c).

   The frames are handed out in order and never taken back. The kernel's half
   of a directory is a copy of that of initial_page_dir. The calls that map
   many pages are a step per page here, and nothing comes in between: they run
   with interrupts masked, or with preemption disabled.

   init has been started and the main task has ended. Page tables and frames
   are numbers, 0 for none; so are directories, 0 for initial_page_dir.       *)
EXTENDS Naturals, FiniteSets, Sequences

CONSTANTS
    Tasks, Init1,   \* the tasks there can be, and the one that runs first
    Frames,         \* how many frames there are
    HeapPages,      \* how many pages a user heap may have
    PerTable,       \* pages per page table, 1024
    KernelTables,   \* the page tables the kernel's heap may still need
    MaxActive,      \* MAX_ACTIVE_PAGEDIRS
    MaxDirs         \* bound on the directories made

ConstantsOK ==
    /\ Init1 \in Tasks
    /\ {Frames, HeapPages, MaxActive, MaxDirs} \subseteq Nat
    /\ PerTable \in Nat \ {0, 1} /\ HeapPages > 0 /\ MaxDirs > 0 /\ Frames > 5

(* The pages of a program: its code, its heap, which may grow, its stack. *)
Code == 0
Stack == HeapPages + 1
Pages == Code .. Stack
TableOf(p) == IF p = Stack THEN Stack ELSE p \div PerTable
UserTables == {TableOf(p) : p \in Pages}
Dirs == 0 .. MaxDirs

VARIABLES
    next,      \* the frames taken are 1 .. next: physical_memory_bitmap
    dirs,      \* the page directories
    made,      \* how many there are, apart from initial_page_dir
    cr3,       \* the directory in use
    current,   \* current_task
    pd,        \* task |-> page_directory, 0 for no task
    heap,      \* task |-> [brk, mapped]: heap_break and heap_mapped_end, in pages
    job,       \* the call that is mapping pages
    failed     \* history: a failure the code goes on after as if there were none

vars == <<next, dirs, made, cr3, current, pd, heap, job, failed>>

NoDir == [kernel |-> [k \in KernelTables |-> 0], tables |-> [u \in UserTables |-> 0],
          pages |-> [p \in Pages |-> 0]]
NoHeap == [brk |-> 1, mapped |-> 1]     \* heap_start is the page behind the code
NoJob == [op |-> "none"]

(* init: a directory, tables for code and stack, a page of code, heap, stack. *)
Init ==
    /\ next = 6
    /\ dirs = [d \in Dirs |-> IF d # 1 THEN NoDir ELSE
          [kernel |-> NoDir.kernel,
           tables |-> [u \in UserTables |-> IF u = TableOf(Code) THEN 2
                                            ELSE IF u = TableOf(Stack) THEN 3 ELSE 0],
           pages |-> [p \in Pages |-> IF p = Code THEN 4 ELSE IF p = 1 THEN 5
                                      ELSE IF p = Stack THEN 6 ELSE 0]]]
    /\ made = 1
    /\ cr3 = 1 /\ current = Init1
    /\ pd = [t \in Tasks |-> IF t = Init1 THEN 1 ELSE 0]
    /\ heap = [t \in Tasks |-> IF t = Init1 THEN [brk |-> 1, mapped |-> 2] ELSE NoHeap]
    /\ job = NoJob
    /\ failed = FALSE

-----------------------------------------------------------------------------
Alive == {t \in Tasks : pd[t] # 0}
Active == {d \in Dirs : d # 0 /\ d <= made /\ d <= MaxActive}    \* active_pagedirs
Mapped(d) == {p \in Pages : dirs[d].pages[p] # 0}
Left == Frames - next                                            \* for pmm_alloc_page_frame
InUser == job = NoJob

\* Mutant of Filled: the frame is the last one handed out.
FilledAgain(d, p, table) ==
    [kernel |-> d.kernel, tables |-> [d.tables EXCEPT ![TableOf(p)] = table],
     pages |-> [d.pages EXCEPT ![p] = next]]
(* The directory d with the next frame at page p, and a page table for it. *)
Filled(d, p, table) ==
    [kernel |-> d.kernel, tables |-> [d.tables EXCEPT ![TableOf(p)] = table],
     pages |-> [d.pages EXCEPT ![p] = next + 1]]

(* The frames that a new page takes: with the table, if there is none yet. *)
Needs(d, p) == IF dirs[d].tables[TableOf(p)] = 0 THEN 2 ELSE 1

(* memory_map_page of a new frame in the lower part of directory d: the table
   that it may need comes after the frame; without one the page is not mapped,
   and the caller is not told.                                               *)
MapNew(d, p) ==
    LET table == dirs[d].tables[TableOf(p)]
    IN IF Left < Needs(d, p) THEN UNCHANGED dirs /\ next' = Frames
       ELSE /\ dirs' = [dirs EXCEPT ![d] = Filled(@, p, IF table = 0 THEN next + 2 ELSE table)]
            /\ next' = next + Needs(d, p)

\* Mutant of Synced: only the directory in use is brought up to date.
SyncedOne(ds, kernel) == [d \in Dirs |-> IF d \in {0, cr3} THEN [ds[d] EXCEPT !.kernel = kernel]
                                         ELSE ds[d]]
(* memory_sync_pagedirs, and initial_page_dir itself. *)
Synced(ds, kernel) ==
    [d \in Dirs |-> IF d \in Active \cup {0} THEN [ds[d] EXCEPT !.kernel = kernel] ELSE ds[d]]

(* heap_sbrk needs a page, and memory_map_page one more kernel page table for
   it, in initial_page_dir. Without a frame for the table memory_map_page
   returns with that directory in use.                                       *)
KernelGrows(k) ==
    /\ InUser
    /\ Left > 0 /\ dirs[0].kernel[k] = 0
    /\ IF Left > 1
       THEN /\ next' = next + 2
            /\ LET kernel == [dirs[0].kernel EXCEPT ![k] = next + 2]
               IN dirs' = IF cr3 = 0 THEN [dirs EXCEPT ![0].kernel = kernel]
                          ELSE Synced(dirs, kernel)
            /\ UNCHANGED <<cr3, failed>>
       ELSE /\ next' = next + 1
            /\ cr3' = 0 /\ failed' = TRUE
            /\ UNCHANGED dirs
    /\ UNCHANGED <<made, current, pd, heap, job>>

(* context_switch. *)
Switch(t) ==
    /\ InUser /\ t \in Alive \ {current}
    /\ current' = t /\ cr3' = pd[t]
    /\ UNCHANGED <<next, dirs, made, pd, heap, job, failed>>

(* task_exit and cleanup_zombies: the directory stays. *)
Exit(t) ==
    /\ InUser /\ t \in Alive \ {current}
    /\ current' = t /\ cr3' = pd[t]
    /\ pd' = [pd EXCEPT ![current] = 0]
    /\ heap' = [heap EXCEPT ![current] = NoHeap]
    /\ UNCHANGED <<next, dirs, made, job, failed>>

-----------------------------------------------------------------------------
(* sys_brk. *)

\* Mutant of Brk: the page behind the mapped ones counts as mapped.
BrkOneMore(pages) ==
    /\ InUser /\ pages \in 1 .. HeapPages + 1
    /\ IF pages <= heap[current].mapped + 1
       THEN heap' = [heap EXCEPT ![current].brk = pages] /\ UNCHANGED job
       ELSE job' = [op |-> "brk", page |-> heap[current].mapped, end |-> pages] /\ UNCHANGED heap
    /\ UNCHANGED <<next, dirs, made, cr3, current, pd, failed>>
Brk(pages) ==
    /\ InUser /\ pages \in 1 .. HeapPages + 1
    /\ IF pages <= heap[current].mapped
       THEN heap' = [heap EXCEPT ![current].brk = pages] /\ UNCHANGED job
       ELSE job' = [op |-> "brk", page |-> heap[current].mapped, end |-> pages] /\ UNCHANGED heap
    /\ UNCHANGED <<next, dirs, made, cr3, current, pd, failed>>

(* A page that is there already is passed over; without a frame the call fails
   and keeps what it has mapped.                                             *)
BrkPage ==
    /\ job.op = "brk" /\ job.page < job.end
    /\ IF dirs[cr3].pages[job.page] # 0 THEN UNCHANGED <<next, dirs>>
       ELSE IF Left = 0 THEN UNCHANGED <<next, dirs>>
       ELSE MapNew(cr3, job.page)
    /\ job' = IF dirs[cr3].pages[job.page] = 0 /\ Left = 0 THEN NoJob
              ELSE [job EXCEPT !.page = @ + 1]
    /\ failed' = (failed \/ (dirs[cr3].pages[job.page] = 0 /\ Left = 1 /\ Needs(cr3, job.page) = 2))
    /\ UNCHANGED <<made, cr3, current, pd, heap>>

BrkDone ==
    /\ job.op = "brk" /\ job.page = job.end
    /\ heap' = [heap EXCEPT ![current] = [brk |-> job.end, mapped |-> job.end]]
    /\ job' = NoJob
    /\ UNCHANGED <<next, dirs, made, cr3, current, pd, failed>>

-----------------------------------------------------------------------------
(* memory_create_user_pagedir: the frame of the directory, the kernel's half. *)
MakeDir ==
    /\ made < MaxDirs /\ Left > 0
    /\ next' = next + 1 /\ made' = made + 1
    /\ dirs' = [dirs EXCEPT ![made + 1] = [NoDir EXCEPT !.kernel = dirs[0].kernel]]

(* task_fork, to memory_clone_pagedir. *)
Fork(c) ==
    /\ InUser /\ c \in Tasks \ Alive
    /\ MakeDir
    /\ job' = [op |-> "fork", child |-> c, todo |-> Mapped(cr3)]
    /\ UNCHANGED <<cr3, current, pd, heap, failed>>

(* A table, if it is the first page in it, and a frame with a copy of the page.
   Without either the fork fails; what was copied is lost.                   *)
ForkPage == \E p \in (IF job.op = "fork" THEN job.todo ELSE {}) :
    /\ \A q \in job.todo : p <= q
    /\ IF Left < Needs(made, p)
       THEN next' = Frames /\ job' = NoJob /\ UNCHANGED dirs
       ELSE MapNew(made, p) /\ job' = [job EXCEPT !.todo = @ \ {p}]
    /\ UNCHANGED <<made, cr3, current, pd, heap, failed>>

(* The kernel stack and the descriptors may still fail. *)
ForkDone ==
    /\ job.op = "fork" /\ job.todo = {}
    /\ \/ /\ pd' = [pd EXCEPT ![job.child] = made]
          /\ heap' = [heap EXCEPT ![job.child] = heap[current]]
       \/ UNCHANGED <<pd, heap>>
    /\ job' = NoJob
    /\ UNCHANGED <<next, dirs, made, cr3, current, failed>>

(* task_execve: the new directory is in use while the image is loaded, first
   the stack's page, then the segments, here one page of code.               *)
Exec ==
    /\ InUser
    /\ MakeDir
    /\ cr3' = made + 1
    /\ job' = [op |-> "exec", todo |-> <<Stack, Code>>]
    /\ UNCHANGED <<current, pd, heap, failed>>

(* Without a frame for the stack the page is mapped all the same, to frame 0,
   which is no page here; without one for a segment the call fails.          *)
ExecPage(p) ==
    /\ job.op = "exec" /\ job.todo # <<>> /\ p = job.todo[1]
    /\ IF Left > 0 THEN MapNew(cr3, p) ELSE UNCHANGED <<next, dirs>>
    /\ IF p = Code /\ Left = 0 THEN cr3' = pd[current] /\ job' = NoJob
       ELSE /\ job' = [job EXCEPT !.todo = Tail(@)]
            /\ UNCHANGED cr3
    /\ failed' = (failed \/ Left < Needs(cr3, p))
    /\ UNCHANGED <<made, current, pd, heap>>

(* The task's page_directory and heap are overwritten before the heap's first
   page is there; without a frame for it the old directory is in use again, and
   the call fails.                                                           *)
ExecDone ==
    /\ job.op = "exec" /\ job.todo = <<>>
    /\ pd' = [pd EXCEPT ![current] = made]
    /\ IF Left > 0
       THEN /\ MapNew(cr3, 1)
            /\ heap' = [heap EXCEPT ![current] = [brk |-> 1, mapped |-> 2]]
            /\ failed' = (failed \/ Left < Needs(cr3, 1))
            /\ UNCHANGED cr3
       ELSE /\ heap' = [heap EXCEPT ![current] = NoHeap]
            /\ cr3' = pd[current] /\ failed' = TRUE
            /\ UNCHANGED <<next, dirs>>
    /\ job' = NoJob
    /\ UNCHANGED <<made, current>>

Next ==
    \/ \E k \in KernelTables : KernelGrows(k)
    \/ \E t \in Tasks : Switch(t) \/ Exit(t) \/ Fork(t)
    \/ \E pages \in 1 .. HeapPages + 1 : Brk(pages)
    \/ BrkPage \/ BrkDone \/ ForkPage \/ ForkDone \/ Exec \/ ExecDone
    \/ \E p \in {Stack, Code} : ExecPage(p)

Spec == Init /\ [][Next]_vars

-----------------------------------------------------------------------------
Directory == [kernel : [KernelTables -> 0 .. Frames], tables : [UserTables -> 0 .. Frames],
              pages : [Pages -> 0 .. Frames]]
Jobs == {NoJob} \cup [op : {"brk"}, page : 1 .. Stack, end : 1 .. Stack]
    \cup [op : {"fork"}, child : Tasks, todo : SUBSET Pages]
    \cup [op : {"exec"}, todo : {<<Stack, Code>>, <<Code>>, <<>>}]

TypeOK ==
    /\ next \in 0 .. Frames /\ made \in 1 .. MaxDirs /\ cr3 \in 0 .. made
    /\ dirs \in [Dirs -> Directory]
    /\ current \in Tasks /\ pd \in [Tasks -> 0 .. made] /\ failed \in BOOLEAN
    /\ heap \in [Tasks -> [brk : 1 .. HeapPages + 1, mapped : 1 .. HeapPages + 1]]
    /\ job \in Jobs

(* "User tasks are isolated and run in their own virtual address space"
   (docs/getting-started/experimenting.md:33): no frame is at two pages, of one
   task or of two, and none is a page table as well, however forks, execves and
   brks end.                                                                 *)
Isolated ==
    /\ \A t, u \in Alive : t # u => pd[t] # pd[u]
    /\ \A t, u \in Alive : \A p \in Mapped(pd[t]), q \in Mapped(pd[u]) :
          dirs[pd[t]].pages[p] = dirs[pd[u]].pages[q] => <<t, p>> = <<u, q>>
    /\ \A t, u \in Alive : \A p \in Mapped(pd[t]) :
          dirs[pd[t]].pages[p] \notin {dirs[pd[u]].tables[v] : v \in UserTables}
                                         \cup {dirs[0].kernel[k] : k \in KernelTables}

(* Whichever task runs, the kernel finds its heap: the directory in use has
   every page table of the kernel that initial_page_dir has
   (memory_sync_pagedirs, memory_create_user_pagedir).                       *)
KernelShared == dirs[cr3].kernel = dirs[0].kernel

(* What sys_brk has granted is there: the pages of the heap below the break are
   mapped in the task's own directory, also those of a child and of a heap that
   shrank and grew again (sys_brk, memory_clone_pagedir).                    *)
HeapMapped ==
    ~failed /\ InUser => \A t \in Alive : 1 .. heap[t].brk - 1 \subseteq Mapped(pd[t])

(* A program runs in its own directory: after every call that changes it for a
   while, whatever failed, the directory in use is the task's
   (memory_map_page, task_execve).                                           *)
OwnDirectory == InUser => cr3 = pd[current]
=============================================================================
