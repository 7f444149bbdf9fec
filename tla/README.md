# TilekarOS in TLA+

TilekarOS is a small i386 kernel: one processor, a round-robin scheduler over a circular
list of tasks, Unix-like processes with signals, paging, a kernel heap, a VFS with FAT,
drivers, and a C library with a shell. This directory models the parts of it that keep
state, checks the models with TLC on small instances, and proves the main invariants of
all fourteen with TLAPS for all instances.

`K` stands for `src/kernel/arch/i386`.

## The system

| Part | State | Operations | Correct when |
|---|---|---|---|
| Process table, scheduler (`K/task/task.c`) | circular list of `task_t`, `current_task`, `zombie_list`, `next_tid`, per task: state, parent, `preempt_count`, wait fields | `task_create*`, `task_fork`, `task_yield`, `task_exit`, `task_waitpid`, `cleanup_zombies`, `task_switch_to`, `task_execve`, `task_block_current`/`task_unblock` | the list stays one ring; one task runs; no parent pointer dangles; exit statuses reach their parents; nobody waits or starves for ever |
| System call entry (`K/syscalls`) | `preempt_count`, the saved frame | `syscall_handler`, `syscall_dispatch`, the `sys_*` functions | no task is preempted in a call; the count is balanced |
| Interrupts, exceptions (`K/cpu/idt.c`) | the PIC's in-service state, IF | `irq_handler`, `isr_handler` | every IRQ gets one EOI; a fault ends its own task only |
| Timer triggers (`K/drivers/timer.c`) | a growing table of triggers, counts | `insert_trigger`, `remove_trigger`, setters, `onIrq0` | a trigger fires when due, and once; slots are not shared |
| Signals (`task.c`, `syscalls.c`, libc trampolines) | queue with tail, pending and blocked masks, handlers, frames on the user stack | `sys_kill`, `sys_sigaction`, `sys_sigprocmask`, `check_signals`, `sys_sigreturn` | no signal lost or taken twice; masks restored; no handler inside itself |
| Keyboard (`K/drivers/keyboard.c`) | 256-byte ring, Shift and lock states, one waiting task | `keyboard_handler`, `keyboard_getchar`, `keyboard_read` | keys in order, none twice; a reader is woken |
| Physical memory, paging (`K/mm/memory.c`) | frame bitmap, page directories, `active_pagedirs` | `pmm_alloc_page_frame`, `memory_map_page`, `memory_clone_pagedir`, `memory_sync_pagedirs` | a frame has one owner; the kernel's half is the same everywhere |
| Kernel heap (`K/mm/kmalloc.c`) | list of blocks | `kmalloc`, `kmalloc_aligned`, `kfree`, `krealloc`, `heap_sbrk` | blocks tile the heap and never overlap; a freed block comes back whole |
| User heap (`libc/stdlib/malloc.c`, `sys_brk`) | chain of blocks, break | `malloc`, `free`, `realloc`, `sbrk` | areas are disjoint; free memory is merged and given back |
| File tables (`K/fs/vfs.c`, `task.c`) | per task a table of pointers to `file_t` | open, read, write, close, `vfs_task_file_table_init/copy/destroy` | each `file_t` has one descriptor and is freed once; tasks do not see each other's positions |
| Paths, mounts (`K/fs/vfs.c`, `rootfs.c`, `devfs.c`, `kernel.c`) | mount list, directory trees | `resolve_path_ext`, mkdir, rmdir, unlink, create, `init_storage` | what a call did is there for the next one, across mounts |
| FAT (`K/fs/fat.c`) | table of entries, directories, chains, one vnode per open | read, write, create, mkdir, rmdir, unlink, format, mount | chains do not cross; copies of the table agree; files hold what was written |
| Buffer cache (`K/fs/buffer.c`) | list of buffers, dirty flags, counts | `buffer_get`, `buffer_release`, `buffer_flush`, `buffer_flush_all` | one buffer per sector; what is flushed is on the disk |
| Disk drivers, PCI, terminal, boot, libc formatting, userland | registers or little state | | not modelled, see below |

How they meet: programs enter through `syscall_handler`, which disables preemption,
calls one handler, enables preemption and takes signals. Interrupts arrive whenever IF
is set, also inside system calls, because the system call gate is a trap gate. The tick
calls `task_yield` from the timer's trigger; the keyboard's handler unblocks a reader.
`cleanup_zombies` runs inside every `task_yield` and every creation, in whatever task
makes the call, frees dead tasks (their file table and stack; frames never come back)
and writes the answers of waiting parents into their wait fields. Fork copies the page
directory, the file table and the signal state; execve replaces the first and resets
part of the last. FAT reaches the disk through the buffer cache only.

Hard here: ticks and keys between any two instructions of a system call; tasks that end
inside the tick, in the middle of the walk over the triggers; parents, children and
grandchildren that end in any order while others wait; memory of a dead task reused by
the next; interrupts held back by a missing EOI; fairness of a scheduler whose tick is
dropped while preemption is disabled; allocations that fail in the middle of fork and
execve; disks that fill up in the middle of a write; two descriptors with a copy each of
one directory entry; names across mounts; power lost between a change and its flush.
`hazards` in PROJECT.json lists them by line.

The documentation differs from the code in ways that matter for a reader of these
modules: the VFS counts no references and has no seek (a vnode is never freed, a
`file_t` has one owner); FAT has no rename; the buffer cache has no LRU, no limit and no
eviction; the keyboard does not track Ctrl and Alt. The modules follow the code.

## Modules

| Module | Contents | Against |
|---|---|---|
| `Task` | process table, scheduler, waitpid, with the trap, interrupt and tick code that enters them | |
| `Kmalloc` | the kernel heap | |
| `Signal` | the signals of one task | |
| `Keyboard` | the ring of characters, the waiter slot, blocking and waking | `KeyQueue`, a bounded queue of what keys give |
| `Keycodes` | scan codes to characters | a model of the keyboard |
| `Timer` | triggers, and the scheduler's use of them | |
| `Memory` | frames, page directories, fork, execve and brk | |
| `Malloc` | the user heap | `Areas`, disjoint areas |
| `FileTable` | descriptor tables | `DescriptorTables`, tables of values |
| `Vfs` | paths, mounts, directory trees | |
| `FatTable` | the allocation table, byte by byte | `ClusterTable`, a number per cluster |
| `Fat` | directories, chains, vnodes | `FileStore`, a tree of files |
| `FatFormat` | formatting and mounting | |
| `BufferCache` | buffers, flushes, restarts | |
| `TaskProofs`, `KmallocProofs`, `SignalProofs`, `MemoryProofs` | inductive invariants and theorems | |
| `ProcessProofs` | the same for `FileTable`, `Malloc` and `Vfs` | |
| `DeviceProofs` | the same for `Timer`, `Keyboard` and `Keycodes` | |
| `StorageProofs` | the same for `BufferCache`, `FatTable` and `FatFormat` | |
| `FatProofs` | the same for `Fat` | |
| `MCTask`, `MCFat` | a module for TLC, with its symmetry | |
| `MCDevices`, `MCStorage`, `MCProcess` | several modules for TLC in one run, see Runs | |

The last column names the abstract specification which the module is shown to implement,
by INSTANCE with a refinement mapping and the abstract `Spec` as a property
(`KeysInOrder`, `ServesAreas`, `DescriptorsPrivate`, `EntriesIndependent`,
`StoresFiles`). The last three build on one another: `Fat` uses one entry per cluster
where `FatTable` shows that the bytes behave so.

The components meet by what one lets the others do. `Fork`, `Exit` and the reaping of
`Task` are actions of `FileTable` and `Memory` too, and `Fork` and `Exec` of `Signal`,
each with what that component does in the call; failures of one (no memory for a
descriptor, no frame) are free choices in the others. `Keyboard` and `Timer` contain
what `task_yield` does to the tasks they need.

### Task

A slot is the address of a `task_t`. `live` and `next` are the circular list, `zombie`
is `zombie_list` (each entry with what is still read of the dead task; `below` holds the
entries further down, which is the order of the list), `task` has the fields of the live
tasks, `current` is `current_task`. `picBusy` says that IRQ 0 is in service, so that the
PIC holds back every interrupt. `pc` and `inIrq` say where a task is, or will be when it
is picked again.

The kernel masks interrupts in most of the process code (`interrupt_save`), so such a
stretch is one step, however many functions it calls: `TimerIrq` is `onIrq0` with
`task_yield`, `cleanup_zombies`, `check_signals` and the switch. Where the code runs
with interrupts on, or where a task leaves the processor in the middle of a function,
the step ends: entering and leaving a system call, the loop of `task_waitpid` (`wait`,
`waited`), the rest of `irq_handler` after the switch (`IrqReturn`). `waitpid`'s wait
fields are written by whoever runs `cleanup_zombies`, and read by the waiter much later,
as in the code.

| Action | Code |
|---|---|
| `TimerIrq`, `IrqReturn`, `DeviceIrq` | `onIrq0` and `irq_handler` |
| `SyscallEnter`, `SyscallReturn`, `SyscallCheck` | `syscall_handler` |
| `SysYield`, `SysKill`, `SysSigaction`, `SysWaitpid`, `Fork`, `Exit`, `OtherCall` | `syscall_dispatch` and the handlers |
| `WaitLoop`, `WaitAgain`, `WaitWake` | `task_waitpid` |
| `Spawn`, `SpawnFails` in `Fork`, `TaskCreate`, `LaunchInit` | `task_fork`, `task_create`, `task_create_user`, `task_create_elf` |
| `Quit` in `Exit`, `Killed`, `UserFault`, `KernelFault`, `MainExit` | `task_exit` |
| `KernelYield`, `SwitchTo`, `RestartTids` | `task_yield(NULL)`, `task_switch_to`, `set_next_tid` |

Abstractions. Signals are one bit, a queued fatal signal, and SIGCHLD ignored or not
(`Signal` has the rest). What the code reads through a dangling parent pointer is a free
choice when the memory is free (`Dangling`), and the new task's fields when the slot is
used again; what it would write through one is left out. Statuses are a small set. A
task's memory and files are in `Memory` and `FileTable`: here their allocation may fail
at every creation (`SpawnFails`). No action of `Task` blocks a task on the keyboard:
what its properties say of blocked tasks is said of waiters; readers are `Keyboard`'s.

### Kmalloc

`block` maps the address of each header on the list to its fields; `head` is always
`Start`, since `kmalloc_init` succeeds at boot and the first block is never merged away.
`heapEnd`, `mappedTop` and `frames` are `heap_end`, `heap_mapped_top` and what the frame
allocator has left. `owned` is what the callers hold: an address, the bytes they may
use, and the header `kfree` will find, which for an aligned address is the one its fake
header points to.

| Action | Code |
|---|---|
| `Kmalloc` | `kmalloc`, `kcalloc`: first fit with split (`Carved`), or growth of the last block or by a new one (`Sbrk`), or failure (`SbrkFails`) |
| `KmallocAligned` | `kmalloc_aligned` |
| `Kfree` | `kfree` with both merges (`Released`) |
| `Krealloc`, `KreallocFree` | `krealloc` up to its copy, and its `kfree`: it is not masked, so others run in between |

Contents are left out, and so are other takers of frames: `frames` is what the heap may
have. Sums wrap at `Word`, as `uintptr_t` does.

### Signal

`queue` is the list by its `next` pointers, an item a signal and the count of its
sending; `tail` is `signal_queue_tail`, the count of the item it points to. An append
goes through the tail, so that with a wrong tail the item is lost (`Linked`). `frames`
is the user stack's frames of handlers, innermost last, each with the mask that
`sigreturn` restores. `check_signals` takes one signal each time the task is about to
return to user mode, so several handlers may begin before one has run an instruction.
`owed` and `opened` are history.

| Action | Code |
|---|---|
| `Send` | `task_signal_enqueue`, from `sys_kill` and for SIGCHLD |
| `CheckSignals` | `check_signals`: the first item that is not blocked, its removal with the tail and the pending mask, ignoring, ending, or a new frame and mask |
| `SigReturn`, `SigAction`, `SigProcMask` | `sys_sigreturn`, `sys_sigaction`, `sys_sigprocmask` |
| `Forked`, `Exec` | the signal fields in `task_fork` (the child's) and `task_execve` |

A program does not forge a frame. The bytes on the user stack are left out.

### Keyboard and Keycodes

`kbdHead`, `kbdTail`, `ring` and `waiter` are the driver's variables; `char` is what a
reader has copied, and `keyed`, the last key, is history. `KeyQueue` sees all of it but
the waiter, so that no key and no read is a stutter there: every key is appended unless
the queue is full, and a reader takes what it has got, the character at the front,
before anybody gets the next. The handler runs between
any two instructions of a reader, so a step of a reader is one access to what the
handler also accesses: `TryPop` and `NextTail` (the two halves of `kbd_try_pop`), `Arm`
(`keyboard_waiting_task = current_task`), `Block` and `YieldRead` (the two halves of
`task_block_current`). `KeyIrq` is the handler with `kbd_push` and `task_unblock`.
`Tick`, `Exit`, `Fork` and `WaitAgain` are what other tasks do to the list meanwhile;
`Resched` is the search of `task_yield`, which returns to a blocked caller if it finds
nobody.

`Keycodes` is the handler's translation: prefix, break bit, the four lock and shift
variables, `resolve_keycode` and `keycode_to_char`, for one key of each kind. Its
environment is the keyboard as a user sees it (`Press`, `Repeat`, `Release`), with the
shift codes a keyboard pretends around extended keys. `InFlight` bounds the bytes that
are under way.

### Timer

`table` is the array of triggers, `walk` says for each task which trigger its suspended
`onIrq0` comes to next. `OnIrq0` starts a walk; `WalkOn` calls a client; at the
scheduler's trigger `Preempt` switches, `KilledInTick` ends the task in `check_signals`,
and `Yield` is a switch outside of a tick. `InsertTrigger` and `RemoveTrigger` are any client's,
`StopScheduler` and `StartScheduler` the kernel's.

### Memory

Frames are numbers, handed out in order and never taken back, as in the code: `next` is
the first free bit of the bitmap. A directory has the page tables of the kernel's heap,
the page tables of the program and, for each of its pages, the frame. `memory_map_page`
is `MapNew`; the calls that map many pages are a step per page (`job`), which nothing
interrupts.

| Action | Code |
|---|---|
| `KernelGrows` | `heap_sbrk` when it needs a page table, with `memory_sync_pagedirs` |
| `Brk`, `BrkPage`, `BrkDone` | `sys_brk` |
| `Fork`, `ForkPage`, `ForkDone` | `task_fork` and `memory_clone_pagedir` |
| `Exec`, `ExecPage`, `ExecDone` | `task_execve` with a one-page ELF image, and what it leaves when it fails |
| `Switch`, `Exit` | the change of CR3 in `task_yield`, `task_switch_to`, `task_exit` |

Not here: flags and contents of pages, and the temporary windows through which
`memory.c` reaches other directories, which are private to a masked stretch.

### Malloc

The chain from `heap_base` to the break, in units of eight bytes: `Mallocs` is
`find_fit` with `split_block`, or `sbrk`; `Released` the merging pass over the whole chain
and the return of the last block to the kernel. `areas` is history. `Signed` is the cast
to the `intptr_t` that `sbrk` takes, with `Word` the units in 2^32 bytes: a request of
2 GiB or more lowers the break into blocks that are held, and succeeds. That is listed
under `findings`; the properties of the run and the theorems are for `Moderate` constants,
where neither a request nor the heap comes to 2 GiB. The model stops behind such a call
(`Whole`): later calls would read headers in areas that the program writes to.

### FileTable

`table[t][fd]` is a pointer to an object or `NoFile`, `file[o]` what the object holds,
or nothing when it is free memory. Every `kmalloc` may fail: in `Create` (the three
standard files), in `Fork` (`vfs_task_file_table_copy`, which destroys what it has
made), in `Open`. `LoadFails` is a creation that fails behind the file table and leaks
its objects (`leaked`, history). A zombie keeps its table until `Reap`. Vnodes are fresh
at every open; only a fork shares one.

### Vfs

A node is a file system and a path in it. `Resolve` is `resolve_path_ext` with its mount
table lookup (`MountRoot`) and parents (`Parent`); `Mkdir`, `CreateFile`, `Rmdir`, `Unlink`
are the calls, `MountPrimary` and `MountOther` the loop of `init_storage`, with disks
that cannot be mounted. What FAT's calls do to the tree is taken from `Fat`.

### FatTable, Fat, FatFormat, BufferCache

`FatTable` has the bytes of all copies of the table: `Decode`, `Put` are
`fat_get_fat_entry` and `fat_set_fat_entry`, sector by sector through buffers that may
be missing; `Claim` and `Link` are the two ways the driver writes.

`Fat` has the entries, directories as arrays of slots (end, deleted, short, long name),
and a vnode per open with its own copy of the first cluster and the size. A system call
is one step, because calls do not run in parallel; inside it are all the steps of
`fat_vfs_write` (`Walk` with `WalkStart`, `WalkOn` and `Grow`, `Finalized`), `Find` and
`ListedName` with their treatment of long names, `Slot` of `create_entry`. A chain, and
the directories that paths lead to, are the least sets closed under their links
(`Chain`, `Directories`), which is what a loop along them visits. Sectors within a
cluster, times and attributes are left out. `lost` and `as` are history.

`FatFormat` uses the code's own numbers: `Start` and `Size` are `fat_format` with its
loop, `Mount` is the arithmetic of `fat_init`.

`BufferCache` has the steps between which another task or a failure matters: a buffer is
linked (`Create`) before it is filled (`ReadDone`, `ReadFailed`), and a flush is `Flush`
or `FlushFailed`, `Clean`, `FlushDone`. `Restart` loses all buffers. `truth` and
`stored` are history.

## Runs

Some components share no state in these models. `MCDevices` (what comes to a task from
outside), `MCStorage` (memory and disks) and `MCProcess` (what a process has) check
several in one run. `explored` is chosen in the initial state and says which one a
behaviour explores; the others stay in an initial state, so a run explores the union of
the components' state spaces and not their product. The components are extended, so that
the theorems are about the very definitions the run checks; for that most of them have
names of their own for `Init`, `Next` and the like (`CacheInit`, `TimerNext`, `VfsSpec`).
A second keyboard, with one reader and two waiters (`Alone`), is instantiated beside the
first.

| Run | Module | Shows |
|---|---|---|
| `user` | `MCTask` | the released kernel, with signals, exceptions and failed allocations: one ring, parents, waiters, reports; a child is never freed behind a live parent's back |
| `test_build` | `MCTask` | one task runs, also when kernel tasks, which the tick does preempt inside kernel code, create, wait, fault and use `task_switch_to` |
| `live` | `MCTask` | every READY task runs, every waiter with a dead child returns, every orphan is freed |
| `heap` | `Kmalloc` | the kernel heap under any order of calls: tiling, merging, one holder per block, areas that fit and stay |
| `devices` | `MCDevices` | signals: the queue, its tail and the pending mask agree and nothing is lost, no handler inside itself; keyboard: the ring is a bounded queue, every key appended unless it is full and every character got by one reader, a reader whose fellow tasks are all blocked is served, letters follow Shift and Caps Lock; triggers: a trigger counts each tick once, though walks are suspended and finished later |
| `storage` | `MCStorage` | memory: no frame at two pages, one kernel half, granted heap is mapped; allocation table: neighbours are independent, copies agree (16 bits); cache: buffers hold the latest, what was flushed is on the disk after a restart; formatting ends wherever some size of the table is right for the disk (there is none for 258f + 32 and 258f + 33 sectors), with a table that fits and a type that mounting agrees on |
| `process` | `MCProcess` | file tables: one owner, private tables, whichever allocation fails; user heap: the chain is whole, areas are disjoint; paths: calls see what earlier ones did, across mounts |
| `fat_chains` | `MCFat` | no cluster is in two chains, sizes fit chains, clusters are lost by failed calls only, on a disk that fills up |
| `fat_store` | `MCFat` | the driver implements a tree of files; reads return what was written; names are unique |

Three runs end in a counterexample to what the documentation says:

| Run | Counterexample |
|---|---|
| `eoi` | a fatal signal taken inside the tick: `task_exit` switches without an EOI, the next task runs with all interrupts held back |
| `keyboard_lost` | a key between the test of the ring and the block, with another task ready: a lost wakeup, the reader sleeps on a ring with a key in it |
| `fat_shrink` | two descriptors of one file, opened apart: a write through one cuts off what the other wrote |

The rest of `findings` in PROJECT.json are shown by configurations that are kept here
and not in the list of runs, or by a change of constants which the finding names:

| Configuration, property | Counterexample |
|---|---|
| `MCTaskReparent`, `ZombiesReparented` | a child is dead when its parent exits: it keeps the pointer to the parent, which is freed |
| `MCTaskPidZero`, `PidZeroReported` | a child with pid 0 is reaped and `waitpid` does not return it. In the released kernel only init has pid 0, and its parent never waits: the case needs `ENABLE_TEST` and another order of its tests |
| `MCTaskLive` with `TickSpec`, `ReadyRuns` | with a tick that merely recurs, a program that is in a system call at every end of slice is never preempted |
| `KmallocRealloc`, `AreasFit` | `krealloc` of an aligned address returns it unchanged although the room behind it is too small |
| `TimerLate`, `SchedulerKeepsTrigger` | the slot of the stopped scheduler is given away, and the scheduler started again starts that other trigger |
| `TimerKill`, `NoTickLost` | a task killed inside the walk: the triggers behind the scheduler's miss the tick |
| `MCDevicesKill`, `KillNotBlocked` | a handler's mask blocks SIGKILL |
| `MCStorage`, `CopiesAgree` without its `fat16` | an odd 12-bit entry is shifted once per copy: the second copy is wrong |
| `FatFormatEnds`, `FormatEnds` | on disks of 258f + 32 or 258f + 33 sectors the search for the table's size alternates between f and f + 1 for ever |
| `Malloc` with `Space = 11`, `MaxRequest = 30`, `Word = 32`, `ServesAreas` | a request of 2 GiB or more lowers the break into a held block, and what it returns lies behind the break |
| `BufferCacheRead`, `HoldsLatest` | after a failed read the buffer is used as the sector's content |
| `MCFatReadme`, `NamesUnique` | every start adds another README.TXT |
| `MCFatReuse`, `NoCrossLinks` | a removed file that is open, its clusters in a new file |
| `MCFatOrphan`, `NamesKept` | a new entry behind another's long name answers to that name |
| `MCProcessMounts`, `MountsStay` | `rmdir` of the directory under a mount |
| `MCProcessForks`, `ForkInherits` | the copy of the file table fails, and the child runs with none |
| `MemoryDirectory`, `OwnDirectory` | `memory_map_page`, asked for a page of the kernel while no frame is left for its page table, returns with `initial_page_dir` in use: the task goes on without its user half; a failed `task_execve` leaves the task with the new directory and runs it in the old one |

### Bounds

- `Task`: three slots give init, a child, a grandchild after `kernel_main` has left (its
  slot is used again), a parent ending before its child and after it, a waiter with one
  live and one dead child. `MaxTid` bounds the creations, hence the reuse of slots: with
  4, init and three forks. `Status` has two values where statuses are told apart. The
  slots other than `main` are symmetric; `live` uses no symmetry.
- `Kmalloc`: a page of 64 bytes at first and a frame for another: five blocks, so that a
  block can have free and used neighbours on both sides. The sizes split a block with
  and without a remainder, grow a free last block and a used one, and run out of frames;
  20 is rounded up; two alignments give fake headers with and without a gap.
- `Signal`: three signals, one of which cannot be blocked; three queued, three sent,
  three handlers deep: an item can be taken from the front, the middle and the end.
- `Keyboard`: a ring of four, full with three; two readers with the third task idle, or
  one with two waiters, so that `task_yield` finds nobody. `Timer`: a slice of two
  ticks, two clients with a period of three, five ticks: suspended walks overlap.
- `Keycodes`: a key of each kind, every order of presses and releases, one byte at a
  time.
- `Memory`: three tasks, two heap pages in two page tables, frames that run out in every
  call; three directories, so that execve follows fork.
- `FatTable`: sectors of four bytes, so that entries lie across sectors; entry values
  that set every bit position both ways. `Fat`: two clusters, two names, a nested
  directory, writes over the end of a cluster and of the disk.
- `FatFormat`: floppy and small disk sizes, the first 420 sizes that get 16-bit entries,
  with two changes of the table's size (33 to 34 and 34 to 35 sectors), and ten sizes
  around each of four later changes. The two sizes in the middle of every change, for
  which the search does not end, are among them: `FormattingEnds` speaks of the others.
  The sizes that a table or a type does not fit (3104 to 8400 sectors) are left to the
  findings.
- `BufferCache`: two sectors, two tasks. `FileTable`: two tasks, four descriptors, six
  objects, so that allocation fails at each place. `Malloc`: eleven units and three
  sizes: four blocks; 24 units stand for 4 GiB, so that nothing comes to 2 GiB. `Vfs`: two disks, five names, paths of three components, three
  calls in a row.

The type invariants (`TypeOK`, and `AllTypeOK` of the three combining modules) hold in
the state spaces of these runs too, and for every module they are theorems.

### Fairness

`Task`: interrupts delay code but do not stop it: each task's own kernel steps are
strongly fair for the task that holds the processor (`CodeStep`), and the end of an
interrupt handler weakly fair. The PIT ticks for ever and the PIC keeps a tick that
arrives with interrupts masked, so `TimerIrq` is strongly fair (`Ticks`). That is not
enough for `ReadyRuns` (under `TickSpec` it fails): `Slices` adds that the tick also arrives,
again and again, outside system calls, which a real clock grants a program that is not
in step with it. User code owes nothing: it may loop for ever without a system call.

`Keyboard`: the reader's steps and the waiters' loops are weakly fair, the tick
strongly, for the same reasons; a reader need not read. `AloneIsServed` says that a
reader that has asked for a key goes on with one, if again and again there is a key to
be read (`KeysKeepComing`, a premise of the property and not a fairness of the kernel).
It holds when all other tasks are blocked, and fails otherwise (`keyboard_lost`).

`FatFormat`: one sequential computation, weakly fair.

## Proofs

The theorems hold for every value of the constants that satisfies the assumption of the
module, which states what the code relies on (sets are disjoint, bounds are natural
numbers). Where a theorem needs more, that is said here, with the run or the
configuration that shows the property fail without it, if it does.

### TaskProofs

Any finite set of slots, any bound on tids, test suite, signals and exceptions present
or not.

| Theorem | Property |
|---|---|
| `TaskInvariant` | `TaskInv`, the inductive invariant |
| `TypeCorrect`, `RingStaysIntact`, `AtMostOneRunner`, `ParentsStayLive`, `WaitersHaveChildren`, `PreemptStaysBalanced`, `ReportsAreKept` | the invariants `TypeOK` ... `ReportsKept` |
| `SyscallsKeepTheProcessor`, `NothingReapedSilently` | the action properties `NoPreemptInSyscall`, `NoSilentReap` |

The properties are not inductive. `TaskInv` adds:

- for the ring, that no two tasks have one successor (`NoMerge`), so that the
  predecessor `task_exit` finds is the only one. The ring itself is stated as "no proper
  part of the list is closed under `next`", which a splice preserves by a set argument
  instead of an induction along the list;
- for the zombies, that the list has no cycle (`Stacked`), so that the walk's first
  match exists;
- that parent pointers form no cycle (`Kinship`). When no other task is READY,
  `task_yield` returns to its caller even if that one is blocked. With acyclic parents
  the blocked tasks cannot all have live children, and the pass just made has woken
  those with dead ones, so the caller is not blocked;
- per task (`Fit`), where kernel and user tasks can be, the balance of `preempt_count`
  there, and that a task blocked in waitpid has no answer yet, so that an answer is
  never overwritten;
- that the current task is RUNNING.

The lemmas follow the code: what the pass of `cleanup_zombies`, the switch, reparenting
and linking do to a table (`SweepGood`, `ReschedGood`, `QuitGood`, `SpawnInv`), then one
lemma per action or kind of action.

### KmallocProofs

Every page size, heap and number of frames, all sets of sizes and alignments whose sums
stay inside the machine word (`RequestsSmall`), if `krealloc` is not given aligned
addresses (`~ReallocAligned`); two findings about `AreasFit` show that neither can be
dropped.

| Theorem | Property |
|---|---|
| `HeapInvariant` | `KmallocInv`, the inductive invariant |
| `HeapTypeCorrect`, `BlocksTileTheHeap`, `FreeBlocksAreMerged`, `BlocksHeldOnce`, `HeldAreasFit` | the invariants `TypeOK` ... `AreasFit` |
| `HeldAreasStay` | the action property `AreasStay` |

`KmallocInv` adds that blocks do not overlap and end below the break, stated for any two
blocks, so that no induction along the list is needed; and that the mapped memory and
the free frames together never exceed `Roof`, so that no sum wraps. The lemmas
`SplitList`, `GrownList`, `AppendedList`, `MergedList` say of any list that each surgery
keeps it a list; `AllocDone` is the interface between the three ways to allocate and
their callers.

### SignalProofs

Any signals, any sets of actions and masks, any bounds.

| Theorem | Property |
|---|---|
| `TypeCorrect` | `TypeOK` |
| `QueueCorrect` | `QueueKept`: the queue is what was sent and not taken, in order, and `pending` its signals |
| `HandlersCorrect` | `NoReentry`: no handler inside itself, unless the program opened it |

`QueueInv` adds that the tail is the last item (`TailRight`) and that items are numbered
as sent (`Counted`): without the first an append could be lost. `HandlersInv` adds that
running handlers' signals are blocked (`Masked`) and in the saved masks of those above
them (`Saved`), so that a return does not open one that still runs. `Removed` says what
taking an item out of a sequence leaves.

### ProcessProofs

`FileTable`: any tasks, objects, vnodes, table size and file size, whichever allocation fails.

| Theorem | Property |
|---|---|
| `TypeCorrect` | `TypeOK` |
| `OwnerCorrect` | `OneOwner`: no object has two descriptors, none is freed twice or lost but by `LoadFails` |
| `PrivateCorrect` | `DescriptorsPrivate`: every step is one of `DescriptorTables` or a stutter |

`TablesInv` is `OneOwner` taken apart: descriptors point to objects (`Points`),
different ones to different objects (`Apart`), every object in use is reached
(`Reached`), tasks that do not exist have no descriptors (`NothingDead`), leaked objects
stay taken (`LeakedHeld`). The refinement also needs that no position lies behind the
end of its file (`InFile`). Its proof has a lemma per action that computes the
descriptors after the step from those before it.

`Malloc`: any space and sizes of requests, if they satisfy `Moderate`: below 2 GiB no
increment changes its sign (`SignedIs`), on the way up or down.

| Theorem | Property |
|---|---|
| `MallocTyped` | `MallocTypeOK` |
| `HeapChained` | `Chained`: the headers lead from the start to the break, and free blocks are merged and given back |
| `AreasServed` | `ServesAreas`: every step is one of `Areas`, or a stutter |

`HeapInv` says it of blocks and not of a walk: every block is followed by one or by the
break, every header but the first is behind a block, and none lies inside another
(`ChainIs`); no two free blocks are neighbours and the last is used (`Coalesced`); the
areas handed out lie in used blocks, one each (`Holds`). `Holds` is what makes the
refinement hold: a block that is used keeps its place and does not shrink, whatever is
split or merged around it (`Keeps`). The merging pass of `free` is one step of the model,
defined by which headers survive; `MergedChain` shows that what is left is a chain
without free neighbours, from the greatest header before and the least behind a place,
which exist by the order of the naturals.

`Vfs`: any paths, disks and devices, whichever mounts fail, whatever memory holds.

| Theorem | Property |
|---|---|
| `PathsTyped` | `VfsTypeOK` |
| `CallsAreSeen` | `CallsShow`: what a call did under a path is there, or gone, for the next walk of that path |

`VfsInv` adds that the root of every file system is a directory and every node is in one
(`Rooted`), so that a directory that is removed leaves nothing below it, and that no call
comes before the last disk is mounted, so that no mount comes between a call and what it
shows. A walk is a recursive function in the model; that it exists, and what two walks
have in common, is proved by induction over its steps: paths that begin alike are walked
alike (`WalksAgree`), so that `mkdir`'s walk of the parent is the beginning of the later
walk of the path (`ParentWalk`), and a walk of a tree with fewer nodes is the same as far
as it gets (`WalkBelow`), which serves for what is made and for what is removed.

### DeviceProofs

`Timer`: any tasks that can run, clients, slice and period.

| Theorem | Property |
|---|---|
| `TriggersTyped` | `TimerTypeOK` |
| `TicksAreCountedOnce` | `TicksCountedOnce`: a trigger is never ahead of the time since its installation by more than the walks that were suspended then |

`TimerInv` adds that a trigger that calls a client is the one the client knows (`Served`),
so that a slot given to another does not inherit its counts; that the other triggers in
use are the scheduler's (`InUse`); and that the walks which have yet to come to a trigger
began at ticks of their own (`WalksCounted`).

`Keyboard`: any tasks and readers, any size of the ring.

| Theorem | Property |
|---|---|
| `KeyboardTyped` | `KeyboardTypeOK` |
| `RingIsQueue` | `KeysInOrder`: a key is appended unless `Size` - 1 characters wait, readers get and take the one at the front; nothing else changes the queue |

`KeyboardInv` adds that only the current task is between two steps of a read (`InCall`),
and that while one is taken out there is a character, the one that was copied (`Taking`):
without that `kbdTail` could pass `kbdHead`, and the queue would be full of old
characters, or a reader would take another character than it has got.

`Keycodes`: any number of codes under way.

| Theorem | Property |
|---|---|
| `KeycodesTyped` | `KeycodesTypeOK` |
| `LettersFollowShift` | `LettersMatchShift`: a letter is a capital exactly when one of Shift and Caps Lock applies |

`KeycodesInv` adds what the bytes that are under way will do: for each Shift key the last
byte for it says whether the key is down, and without one the driver knows
(`ShiftsFollow`); and no prefix is without its code (`NoLonePrefix`), so that a byte
means the same when it is read as when it was sent.

### MemoryProofs

Any tasks, frames, pages, page tables and directories.

| Theorem | Property |
|---|---|
| `TypeCorrect` | `TypeOK` |
| `IsolatedCorrect` | `Isolated`: no frame at two pages, none of a program's is a page table |
| `KernelCorrect` | `KernelShared`: the directory in use has all the kernel's page tables, if `MaxDirs <= MaxActive`: directories beyond `active_pagedirs` are not synchronised |
| `HeapCorrect` | `HeapMapped`: what `sys_brk` granted is mapped, unless a failure went unnoticed |

`Inv` adds that every frame in a directory has been taken (`Taken`), so that the next
one is new, and that no two tasks have one directory (`Own`). Steps are classed by what
they do to the directories: one more mapping (`Mapping`), a new directory (`Making`), a
new page table of the kernel, shared out (`Sharing`), or nothing, with frames taken and
lost perhaps (`Losing`); the invariants of frames are proved of the four classes and not
of the twelve actions. `KernelInv` and `HeapInv` say of all directories and tasks what
the properties say of those in use, and of a fork half done what it has copied.

### StorageProofs

`BufferCache`: any tasks, sectors and values, writes that fail or not, restarts at any
point. Two hypotheses: `~Preemptible`, system calls as they are, and `~ReadFails`; the
findings on `HoldsLatest` show that neither can be dropped.

| Theorem | Property |
|---|---|
| `BuffersLatest` | `HoldsLatest`: a buffer that is held has the latest data of its sector |
| `FlushedPersists` | `Persists`: what a flush stored is on the disk until a later one stores something newer |

`CacheInv` adds that one task at most is inside the cache (`Alone`), that the buffer it
works on is on the list (`Working`), that a buffer holds what was last written to its
sector, and the disk too unless the buffer is dirty (`Coherent`), that a sector a flush
has just written is what the disk holds (`WrittenOut`), and that the disk has what the
last flush stored, but for the sectors the flush under way has written and not yet
recorded (`Stored`).

`FatTable`: any disks whose table is large enough (`TableOK`), with one copy or two,
whichever sectors are out of reach.

| Theorem | Property |
|---|---|
| `BytesStored` | the types: what is composed of an entry's bits and its neighbour's is a byte |
| `TableImplemented` | `EntriesIndependent`: every step is one of `ClusterTable` or a stutter |
| `CopiesKept` | `CopiesAgree`: the copies of a table of 16-bit entries are equal |

The proof is about two bytes and four bits: `EvenValue`, `EvenSame` and `OddSame` say
what a write of 12 bits into two bytes makes of the entry and of the one that shares a
byte with it, `Meet` which entries share one, `PutCopy` what a copy then holds.

`FatFormat`: any set of disks for which `FormatOK` holds.

| Theorem | Property |
|---|---|
| `FormatsTyped` | the types, in 16 bits |
| `FormatsSound` | `FormatSound`: mount sees the type that was formatted, and the last cluster's entry lies in the table |

`FormatsSound` is for disks of up to 3103 sectors, and for those of more than 8400 whose
number of sectors modulo 65536 is 4150 at least (`FitsTable`); in between are the sizes
of two findings, and a disk whose 16-bit count is lower is formatted for that count.
That formatting ends where there is a size to be found stays with TLC.

### FatProofs

Any number of clusters, slots, names, cells and descriptors. Four hypotheses:
`Sharing = FALSE`, files are not opened twice or removed while they are open, without
which `fat_shrink` and `MCFatReuse` have their counterexamples; `Foreign = {}`, the disk
was formatted by this system, so that a name is found by its 8.3 form alone; for
`NamesStayUnique` and `FilesAreStored`, `KernelApi = FALSE`, without which `MCFatReadme`
has its; and for `FilesAreStored`, that no name is cut short (`Names \cap Clipped = {}`),
as two names that `to_fat_name` makes one are one file of the disk.

| Theorem | Property |
|---|---|
| `FatTyped` | `TypeOK` |
| `LinksUncrossed` | `NoCrossLinks`: no cluster has two owners, chains run over claimed clusters to an end mark |
| `SizesFit` | `SizeFitsChain`: a file has the clusters its size calls for |
| `NothingLeaks` | `LostOnlyByFailure`: what is claimed belongs to an entry, or a failed call left it behind |
| `NamesStayUnique` | `NamesUnique` |
| `ReadsAreTrue` | `ReadsBack`: a read goes by the vnode's copy of the entry, and returns what the entry holds |
| `FilesAreStored` | `StoresFiles`: the driver implements `FileStore`, a tree of files and handles |

None of the invariants is inductive: that a write does not link two files needs the chain
to end where the size says, that needs the vnode to agree with the entry it writes to,
and that needs names to be found. `FatInv` has it all:

- the table (`ChainsOK`): no two links to one cluster, no link to a free one;
- the entries (`EntriesOK`, `FirstsApart`): each names a cluster that nothing is linked
  to and no other entry names, and a file's chain has as many clusters as its size calls
  for. Chains from different such clusters are disjoint (`ChainsApart`);
- the clusters in use are those of entries and the lost ones, and none is both
  (`LostOK`);
- the directories (`DirsOK`, `PathsOK`): nothing behind an end mark, and entries only in
  directories that a path leads to;
- the vnodes (`FilesOK`, `NodesOK`): each agrees with the first entry of its name, and
  no two stand for one entry.

TLC checked `FatInv` as an invariant on instances with and without subdirectories before
it was proved. The lemmas come in layers: what claiming, linking and freeing a cluster
does to all chains (`Claimed`, `Linked`, `Freed`); the walk of `fat_vfs_write`, by
induction over its length (`Walks`): wherever it runs out of clusters, it has claimed
free ones only and lengthened one chain only (`Walked`); a change of one entry and its
chain (`Edited`), which creation, writing and removal are; and one lemma per call.

Chains are least closed sets, so most of this needs no induction. Where the code counts
(the k-th cluster of a walk or of a read), induction over the naturals is used for sets
(`Induct`), proved from the least element that a well-founded order gives.

`FilesAreStored` maps the disk to a tree: `StoredTree` gives each path the kind and the
cells of its entry, `OpenHandles` each descriptor the path of its vnode and its position.
Besides `FatInv` it needs that entries are stored under their own names (`Plain`). The
proof goes in four steps:

- The paths. `PathsOf` adds one level of directories as often as there are clusters.
  `PathsFound` shows that this reaches them all: a level that adds nothing is followed
  only by such levels, and each that adds something takes a cluster of its own. They are
  the only set that holds the root and is closed under subdirectories with nothing
  besides (`IsPaths`, `OnePaths`), so the recursion is not needed again: the paths after a
  call are guessed, and shown to be closed (`DirPathsStay`, `DirPathAdded`,
  `DirPathGone`).
- The tree. When one entry comes, goes or changes, and the items of the others stay, one
  path of the tree does the same (`TreeAdded`, `TreeRemoved`, `TreeChanged`). A new
  directory has no entries, and one that goes had none, so nothing moves with it.
- The cells. Others' items stay because chains are disjoint (`OthersApart`, `ItemsStay`).
  For the file that is written, the clusters along its chain are numbered without
  repetition (`Nths`), a walk keeps those numbers (`WriteContinues`), and position by
  position the cells are those of the abstract `Overwrite` (`CellAfter`, `DataWritten`).
- The calls. One lemma each (`StoreOpens`, `StoreWrites`, `StoreUnlinks`, ...). A mkdir
  that claims a cluster and finds no slot, and a write without room, show nothing or write
  nothing; `StoreSteps` puts them together.

### Only model-checked

Liveness under fairness, which the prover does not reason about: `ReadyRuns`,
`WaiterReturns`, `OrphansFreed`, `AloneIsServed`, `FormattingEnds`. The
counterexamples. All other properties of the runs that pass are theorems.

## Not modelled

- ATA, AHCI and PCI drivers: register protocols of hardware the repository does not
  describe. Only the failure of a read or a write reaches the models (`BufferCache`).
  The one interrupt flag that `ata.c` shares between requests is listed as a hazard
  without a property.
- Terminal output, boot and descriptor tables, `init_memory`, the list of devices: run
  once, or keep no state that matters.
- The frames on kernel stacks, arguments of execve, ELF headers and overlapping
  segments, contents of pages and of user stacks.
- Parts of FAT behind no system call: `fat_list_dir`, `fat_read_file`, `fat_mkdir`;
  `vfs_readdir` beyond the names it lists, which `NamesKept` uses;
  `vfs_task_file_table_set`, which nothing calls.
- `keyboard_clear_buffer` (tests only) and `active_callback` (nobody sets it).
- libc's formatting and string functions: sequential, and tested by `libc_test`.
- Userland: programs are clients, and any order of calls is allowed instead.

## What could follow

1. An abstract life cycle of processes (running, dead, reaped, with who was told),
   implemented by `Task` under a refinement mapping, and its proof.
2. The composition of `Fat` with `BufferCache`, so that a restart in the middle of a
   write shows which orders of flushes leave a consistent disk.
