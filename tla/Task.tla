-------------------------------- MODULE Task --------------------------------
(***************************************************************************)
(* The process table, the scheduler and waitpid of the TilekarOS kernel    *)
(* (arch/i386/task/task.c), with the parts of the trap, interrupt and      *)
(* timer code that enter it.  The machine has one processor.  A step is a  *)
(* stretch of kernel code that runs with interrupts masked, or one that    *)
(* nothing else can observe.                                               *)
(*                                                                         *)
(* A task_t lives at an address in Slots that kmalloc hands out; cleanup   *)
(* frees it and a later task may get the same address.  What is left in a  *)
(* freed slot is read only through dangling pointers (see Dangling).       *)
(***************************************************************************)
EXTENDS Integers, FiniteSets

CONSTANTS
  Slots,        \* the addresses kmalloc can return for a task_t
  NoTask,       \* NULL
  Main,         \* main_task, made by task_init_scheduler
  Status,       \* the exit statuses told apart
  MaxTid,       \* bound on next_tid: no task is made beyond it
  EnableTest,   \* kernel built with ENABLE_TEST=1: kernel_main runs the tests
  Kills,        \* programs send each other fatal signals
  Faults        \* programs and system calls raise CPU exceptions

ASSUME TaskAssumption ==
  /\ Main \in Slots
  /\ NoTask \notin Slots
  /\ IsFiniteSet(Slots)
  /\ Status \subseteq Int
  /\ Status # {}
  /\ MaxTid \in Nat
  /\ {EnableTest, Kills, Faults} \subseteq BOOLEAN

VARIABLES
  live,         \* the slots linked in the circular task list
  next,         \* task->next of the live tasks
  task,         \* the other fields of the live tasks
  zombie,       \* zombie_list: what is still read of the tasks on it
  current,      \* current_task
  picBusy,      \* IRQ 0 is in service: the PIC holds back every interrupt
  nextTid       \* next_tid

vars == <<live, next, task, zombie, current, picBusy, nextTid>>

AnyChild == -1

\* Where a task runs, or resumes when it is picked again:
\*   user     in user code (cs & 3 = 3)
\*   kernel   in a kernel task's code, or in a system call before its handler
\*   wait     in task_waitpid, interrupts on, about to start its loop over
\*   waited   in task_waitpid, interrupts off, its task_yield about to return
\*   ret      in syscall_handler, the call's result known
\*   check    in syscall_handler, preemption enabled again
\*   launch, leave   in kernel_main, after set_next_tid(0), before task_exit
\*   halted   in the hlt loop of the last task to exit
\*   hung     in the endless loop of an exception in a kernel task with pid 0
Control == {"user", "kernel", "wait", "waited", "ret", "check", "launch",
            "leave", "halted", "hung"}

Report == [pid : Int, status : Int]

\* A live task.  The wait fields hold a value only during a waitpid: each call
\* sets them before it reads them.
TaskRec ==
  [ pid : Int,
    parent : Slots \cup {NoTask},
    priv : {0, 3},
    state : {"READY", "RUNNING", "BLOCKED", "BLOCKED_WAIT"},
    preempt : Nat,           \* preempt_count
    waitPid : Int,
    waitRet : Int,
    waitStatus : Int,
    sigign : BOOLEAN,        \* sigactions[SIGCHLD].sa_handler == SIG_IGN
    doomed : BOOLEAN,        \* an unblocked signal is queued whose default kills
    pc : Control,
    inIrq : BOOLEAN,         \* inside irq_handler, after its trigger returned
    due : SUBSET Report ]    \* history: reaped for this task's waitpid, which
                             \* has not returned it yet

ZombieRec ==
  [ pid : Int, parent : Slots \cup {NoTask}, status : Int, sigign : BOOLEAN,
    below : SUBSET Slots ]   \* the zombies further down zombie_list

NewTask(id, ppid, privilege, ign, where) ==
  [ pid |-> id, parent |-> ppid, priv |-> privilege, state |-> "READY",
    preempt |-> 0, waitPid |-> 0, waitRet |-> 0, waitStatus |-> 0,
    sigign |-> ign, doomed |-> FALSE, pc |-> where, inIrq |-> FALSE, due |-> {} ]

Blank == NewTask(-1, NoTask, 0, FALSE, "kernel")

zombies == DOMAIN zombie
Free == Slots \ (live \cup zombies)
self == task[current]
UserTask == self.priv = 3
InterruptsOn == ~self.inIrq /\ self.pc # "waited"
Executes(where) == self.pc = where /\ ~self.inIrq

\* Where the current task goes when the kernel function it called returns.
Done == IF UserTask THEN "ret" ELSE "kernel"
-----------------------------------------------------------------------------
\* Boot: task_init_scheduler.  It leaves main_task's sigactions as kmalloc
\* returned them, so SIGCHLD may or may not be ignored there.
Init ==
  /\ live = {Main}
  /\ next = [s \in Slots |-> Main]
  /\ \E ign \in BOOLEAN :
       task = [s \in Slots |-> IF s = Main
                 THEN [NewTask(-1, NoTask, 0, ign, "kernel") EXCEPT !.state = "RUNNING"]
                 ELSE Blank]
  /\ zombie = [z \in {} |-> {}]
  /\ current = Main
  /\ picBusy = FALSE
  /\ nextTid = 0
-----------------------------------------------------------------------------
(* cleanup_zombies: one pass over zombie_list, over the table tk.           *)

Matches(tk, p, z) ==
  zombie[z].parent = p /\ tk[p].waitPid \in {AnyChild, zombie[z].pid}

\* Mutant of Woken: a waiter for any child (-1) is woken by no child.
WokenByPidOnly(tk) ==
  {p \in live : tk[p].state = "BLOCKED_WAIT"
                /\ \E z \in zombies : Matches(tk, p, z) /\ tk[p].waitPid = zombie[z].pid}

Woken(tk) ==
  {p \in live : tk[p].state = "BLOCKED_WAIT" /\ \E z \in zombies : Matches(tk, p, z)}

\* The list is walked from its head: the first match makes the waiter READY,
\* and the zombies after it no longer find it waiting.
FirstMatch(tk, p) ==
  CHOOSE z \in zombies :
    /\ Matches(tk, p, z)
    /\ \A y \in zombies : Matches(tk, p, y) => z \notin zombie[y].below

\* Mutant of IgnoredByParent: every parent is taken to ignore SIGCHLD.
IgnoredByAnyParent(tk, z) == zombie[z].parent \in live \cup zombies

\* The parent ignores SIGCHLD; it may be a zombie itself.
IgnoredByParent(tk, z) ==
  \/ zombie[z].parent \in live /\ tk[zombie[z].parent].sigign
  \/ zombie[z].parent \in zombies /\ zombie[zombie[z].parent].sigign

\* Zombies whose parent field points into freed memory: the code reads a state
\* and a handler there, so each of them may look ignored by its parent or not.
Dangling == {z \in zombies : zombie[z].parent \in Free}

\* Mutant of Reaped: zombies without a parent are left to somebody else.
ReapedForParents(tk, junk) ==
  {z \in zombies :
     \/ \E p \in Woken(tk) : z = FirstMatch(tk, p)
     \/ IgnoredByParent(tk, z)
     \/ z \in junk}

Reaped(tk, junk) ==
  {z \in zombies :
     \/ zombie[z].parent = NoTask
     \/ \E p \in Woken(tk) : z = FirstMatch(tk, p)
     \/ IgnoredByParent(tk, z)
     \/ z \in junk}

ReportOf(z) == [pid |-> zombie[z].pid, status |-> zombie[z].status]

\* The table after the pass.
Swept(tk) ==
  [p \in Slots |->
     IF p \in Woken(tk)
     THEN LET answer == ReportOf(FirstMatch(tk, p))
          IN [tk[p] EXCEPT !.state = "READY", !.waitRet = answer.pid,
                           !.waitStatus = answer.status, !.due = @ \cup {answer}]
     ELSE tk[p]]

\* zombie_list after the pass.
Freed(gone) ==
  [z \in zombies \ gone |-> [zombie[z] EXCEPT !.below = @ \ gone]]
-----------------------------------------------------------------------------
\* The k-th task after the current one in the circular list.
Hop[k \in Nat] == IF k = 0 THEN current ELSE next[Hop[k - 1]]

FirstReady(tk, n) ==
  \E k \in 1..(Cardinality(live) - 1) :
    /\ Hop[k] = n
    /\ tk[n].state = "READY"
    /\ \A j \in 1..(k - 1) : tk[Hop[j]].state # "READY"

\* Mutant of SwitchCpu: the task that loses the processor stays RUNNING.
SwitchCpuNoDemotion(tk, n) ==
  /\ current' = n
  /\ task' = [tk EXCEPT ![n].state = "RUNNING"]

SwitchCpu(tk, n) ==
  /\ current' = n
  /\ task' = [tk EXCEPT
       ![current].state = IF @ = "RUNNING" THEN "READY" ELSE @,
       ![n].state = "RUNNING"]

\* task_yield from its search on: the first READY task after the current one,
\* or the current one, in whatever state, when no other is READY.
Resched(tk) ==
  \/ \E n \in live \ {current} : FirstReady(tk, n) /\ SwitchCpu(tk, n)
  \/ /\ \A n \in live \ {current} : tk[n].state # "READY"
     /\ UNCHANGED current
     /\ task' = [tk EXCEPT ![current].state = IF @ = "READY" THEN "RUNNING" ELSE @]

\* task_yield for a caller whose interrupt number needs no look.
Yield(tk) ==
  /\ \E junk \in SUBSET Dangling : zombie' = Freed(Reaped(tk, junk))
  /\ Resched(Swept(tk))

\* Mutant of Adopted: the children keep their parent.
AdoptedByNobody(tk) == tk

\* task_exit hands the children still in the task list to the grandparent.
Adopted(tk) ==
  [t \in Slots |-> IF t \in live \ {current} /\ tk[t].parent = current
                    THEN [tk[t] EXCEPT !.parent = tk[current].parent] ELSE tk[t]]

\* task_exit, with the table tk and the zombies zs: the task is unlinked and pushed
\* on zombie_list, and its successor gets the processor in whatever state it
\* is, without an EOI.  The last task halts instead.  Without a predecessor
\* (the list corruption task_exit reports) there is no step.
Quit(tk, zs, status) ==
  \/ /\ next[current] = current
     /\ task' = [Adopted(tk) EXCEPT ![current].pc = "halted"]
     /\ zombie' = zs
     /\ UNCHANGED <<live, next, current>>
  \/ \E prev \in live \ {current} :
       /\ next[prev] = current
       /\ next' = [next EXCEPT ![prev] = next[current], ![current] = Main]
       /\ live' = live \ {current}
       /\ current' = next[current]
       /\ task' = [Adopted(tk) EXCEPT ![current] = Blank,
                                      ![next[current]].state = "RUNNING"]
       /\ zombie' = [z \in DOMAIN zs \cup {current} |->
            IF z = current
            THEN [pid |-> tk[z].pid, parent |-> tk[z].parent, status |-> status,
                  sigign |-> tk[z].sigign, below |-> DOMAIN zs]
            ELSE zs[z]]

\* check_signals with a user frame, when a fatal signal is queued.  It may
\* also take another one, queued earlier, and return.
Killed(tk, zs) == UserTask /\ self.doomed /\ \E v \in Status : Quit(tk, zs, v)

Goto(where) == task' = [task EXCEPT ![current].pc = where]
-----------------------------------------------------------------------------
(* Interrupts                                                               *)

\* Mutant of Preemptible: preemption never allowed.
PreemptibleNever == FALSE

Preemptible == self.preempt = 0

\* The tick on which the scheduler's trigger fires: onIrq0 calls task_yield,
\* which reaps, kills a doomed user task, does nothing but an EOI in a task
\* with preemption disabled, and otherwise switches with an EOI.  Control goes
\* back to irq_handler in a later step (IrqReturn).
TimerIrq ==
  /\ InterruptsOn /\ ~picBusy
  /\ \E junk \in SUBSET Dangling :
       LET zs == Freed(Reaped(task, junk))
           irq == Swept([task EXCEPT ![current].inIrq = TRUE])
       IN \/ /\ self.pc = "user"
             /\ Killed(Swept(task), zs)
             /\ picBusy' = TRUE
          \/ /\ IF Preemptible
                THEN Resched(irq)
                ELSE task' = irq /\ UNCHANGED current
             /\ zombie' = zs
             /\ UNCHANGED <<live, next, picBusy>>
  /\ UNCHANGED nextTid

\* The rest of irq_handler: an EOI, check_signals, and back to the code that
\* was interrupted.
IrqReturn ==
  /\ self.inIrq
  /\ LET tk == [task EXCEPT ![current].inIrq = FALSE]
     IN \/ self.pc = "user" /\ Killed(tk, zombie)
        \/ task' = tk /\ UNCHANGED <<live, next, zombie, current>>
  /\ picBusy' = FALSE
  /\ UNCHANGED nextTid

\* Any other interrupt: EOI, then check_signals.
DeviceIrq ==
  /\ InterruptsOn /\ ~picBusy
  /\ self.pc = "user"
  /\ Killed(task, zombie)
  /\ UNCHANGED <<picBusy, nextTid>>
-----------------------------------------------------------------------------
(* System calls: syscall_handler around syscall_dispatch                    *)

SyscallEnter ==
  /\ Executes("user")
  /\ task' = [task EXCEPT ![current].pc = "kernel", ![current].preempt = @ + 1]
  /\ UNCHANGED <<live, next, zombie, current, picBusy, nextTid>>

\* task_preempt_enable
SyscallReturn ==
  /\ Executes("ret")
  /\ task' = [task EXCEPT ![current].pc = "check",
                          ![current].preempt = IF @ > 0 THEN @ - 1 ELSE @]
  /\ UNCHANGED <<live, next, zombie, current, picBusy, nextTid>>

SyscallCheck ==
  /\ Executes("check")
  /\ \/ Killed(task, zombie)
     \/ Goto("user") /\ UNCHANGED <<live, next, zombie, current>>
  /\ UNCHANGED <<picBusy, nextTid>>

InCall == Executes("kernel") /\ UserTask

\* A call that does not touch the process table.
OtherCall ==
  /\ InCall
  /\ Goto("ret")
  /\ UNCHANGED <<live, next, zombie, current, picBusy, nextTid>>

\* SYS_YIELD passes its frame, whose intr_num is 128: task_yield checks signals
\* and sends an EOI no interrupt asked for.
SysYield ==
  /\ InCall
  /\ \/ /\ \E junk \in SUBSET Dangling : Killed(Swept(task), Freed(Reaped(task, junk)))
        /\ UNCHANGED picBusy
     \/ /\ Yield([task EXCEPT ![current].pc = "ret"])
        /\ picBusy' = FALSE
        /\ UNCHANGED <<live, next>>
  /\ UNCHANGED nextTid

\* sys_kill with a fatal signal the target neither catches, ignores nor
\* blocks.  A kernel task gets it queued and never looks.
SysKill ==
  /\ Kills /\ InCall
  /\ \E t \in live :
       task' = [task EXCEPT ![t].doomed = @ \/ task[t].priv = 3, ![current].pc = "ret"]
  /\ UNCHANGED <<live, next, zombie, current, picBusy, nextTid>>

\* sys_sigaction(SIGCHLD)
SysSigaction ==
  /\ InCall
  /\ \E b \in BOOLEAN :
       task' = [task EXCEPT ![current].sigign = b, ![current].pc = "ret"]
  /\ UNCHANGED <<live, next, zombie, current, picBusy, nextTid>>
-----------------------------------------------------------------------------
(* Creation: task_create, task_create_user, task_create_elf and task_fork   *)
(* reap first, then take a slot (one just freed may come back), and link    *)
(* the new task right behind the current one.                               *)

\* Mutant of Inserted: the new task is linked back to the current one, which
\* cuts off the others.
InsertedShort(s) == [next EXCEPT ![s] = current, ![current] = s]

Inserted(s) == [next EXCEPT ![s] = next[current], ![current] = s]

Spawn(privilege, ign, then) ==
  /\ nextTid < MaxTid
  /\ \E junk \in SUBSET Dangling :
       LET gone == Reaped(task, junk)
           where == IF privilege = 3 THEN "user" ELSE "kernel"
       IN \E s \in Slots \ (live \cup (zombies \ gone)) :
            /\ live' = live \cup {s}
            /\ next' = Inserted(s)
            /\ task' = [Swept(task) EXCEPT
                          ![s] = NewTask(nextTid, current, privilege, ign, where),
                          ![current].pc = then]
            /\ zombie' = Freed(gone)
  /\ nextTid' = nextTid + 1
  /\ UNCHANGED <<current, picBusy>>

\* An allocation fails: the zombies are gone and perhaps a tid is used up.
SpawnFails(then) ==
  /\ \E junk \in SUBSET Dangling : zombie' = Freed(Reaped(task, junk))
  /\ task' = [Swept(task) EXCEPT ![current].pc = then]
  /\ nextTid' \in {nextTid} \cup ({nextTid + 1} \cap 0..MaxTid)
  /\ UNCHANGED <<live, next, current, picBusy>>

Fork == InCall /\ (Spawn(3, self.sigign, "ret") \/ SpawnFails("ret"))

InKernelTask == EnableTest /\ Executes("kernel") /\ ~UserTask

KernelMain == self.pid = -1

\* A kernel task of the test suite creates a task.
TaskCreate ==
  /\ InKernelTask
  /\ \/ \E privilege \in {0, 3} : Spawn(privilege, FALSE, "kernel")
     \/ SpawnFails("kernel")
-----------------------------------------------------------------------------
(* task_waitpid                                                             *)

\* Mutant of HasChildren: any child will do, whatever pid was asked for.
HasAnyChild(arg) ==
  \/ \E t \in live \ {current} : task[t].parent = current
  \/ \E z \in zombies : zombie[z].parent = current

HasChildren(arg) ==
  \/ \E t \in live \ {current} : task[t].parent = current /\ arg \in {AnyChild, task[t].pid}
  \/ \E z \in zombies : zombie[z].parent = current /\ arg \in {AnyChild, zombie[z].pid}

ForgetWait(t) == [t EXCEPT !.waitPid = 0, !.waitRet = 0, !.waitStatus = 0]

\* One turn of the loop: ECHILD, or the wait fields are set, the task blocks,
\* and its own task_yield reaps.
WaitLoop(arg) ==
  \/ /\ ~HasChildren(arg)
     /\ task' = [task EXCEPT ![current] = [ForgetWait(self) EXCEPT !.pc = Done]]
     /\ UNCHANGED <<live, next, zombie, current, picBusy, nextTid>>
  \/ /\ HasChildren(arg)
     /\ Yield([task EXCEPT ![current].state = "BLOCKED_WAIT", ![current].pc = "waited",
                           ![current].waitPid = arg, ![current].waitRet = 0])
     /\ UNCHANGED <<live, next, picBusy, nextTid>>

SysWaitpid ==
  /\ InCall \/ InKernelTask
  /\ \E arg \in {AnyChild} \cup 0..(MaxTid - 1) : WaitLoop(arg)

WaitAgain == Executes("wait") /\ WaitLoop(self.waitPid)

\* Mutant of WaitWake: off by one, child 1 is taken for no child.
WaitWakeAboveOne ==
  /\ Executes("waited")
  /\ IF self.waitRet > 1
     THEN LET answer == [pid |-> self.waitRet, status |-> self.waitStatus]
          IN task' = [task EXCEPT ![current] =
                        [ForgetWait(self) EXCEPT !.pc = Done, !.due = self.due \ {answer}]]
     ELSE Goto("wait")
  /\ UNCHANGED <<live, next, zombie, current, picBusy, nextTid>>

\* task_yield has returned: a positive wait_ret_pid is the answer.
WaitWake ==
  /\ Executes("waited")
  /\ IF self.waitRet > 0
     THEN LET answer == [pid |-> self.waitRet, status |-> self.waitStatus]
          IN task' = [task EXCEPT ![current] =
                        [ForgetWait(self) EXCEPT !.pc = Done, !.due = self.due \ {answer}]]
     ELSE Goto("wait")
  /\ UNCHANGED <<live, next, zombie, current, picBusy, nextTid>>
-----------------------------------------------------------------------------
(* Ends of tasks                                                            *)

\* sys_exit, and task_exit called or returned into by a kernel task.
Exit ==
  /\ InCall \/ (InKernelTask /\ ~KernelMain)
  /\ \E v \in Status : Quit(task, zombie, v)
  /\ UNCHANGED <<picBusy, nextTid>>

\* isr_handler, for an exception in user code.
UserFault ==
  /\ Faults /\ Executes("user")
  /\ \E v \in Status : Quit(task, zombie, v)
  /\ UNCHANGED <<picBusy, nextTid>>

\* isr_handler, for an exception in kernel code: pid 0 is taken for the main
\* kernel task and spins with interrupts on.
KernelFault ==
  /\ Faults /\ Executes("kernel")
  /\ \/ self.pid # 0 /\ \E v \in Status : Quit(task, zombie, v)
     \/ self.pid = 0 /\ Goto("hung") /\ UNCHANGED <<live, next, zombie, current>>
  /\ UNCHANGED <<picBusy, nextTid>>
-----------------------------------------------------------------------------
(* Kernel tasks.  Without ENABLE_TEST there is one, kernel_main: it creates *)
(* init under pid 0 and exits.                                              *)

\* task_yield(NULL): no signals, no EOI.
KernelYield ==
  /\ InKernelTask
  /\ Yield(task)
  /\ UNCHANGED <<live, next, picBusy, nextTid>>

\* The test suite's task_switch_to, to a task it has created.
SwitchTo ==
  /\ InKernelTask /\ KernelMain
  /\ \E n \in live \ {current} : task[n].parent = current /\ SwitchCpu(task, n)
  /\ UNCHANGED <<live, next, zombie, picBusy, nextTid>>

\* set_next_tid(0)
RestartTids ==
  /\ Executes("kernel") /\ KernelMain
  /\ nextTid' = 0
  /\ Goto("launch")
  /\ UNCHANGED <<live, next, zombie, current, picBusy>>

LaunchInit == Executes("launch") /\ (Spawn(3, FALSE, "leave") \/ SpawnFails("leave"))

MainExit ==
  /\ Executes("leave")
  /\ \E v \in Status : Quit(task, zombie, v)
  /\ UNCHANGED <<picBusy, nextTid>>

\* The loops of a halted or hung task.
Spin == Executes("halted") \/ Executes("hung")
-----------------------------------------------------------------------------
Next ==
  \/ TimerIrq \/ IrqReturn \/ DeviceIrq
  \/ SyscallEnter \/ SyscallReturn \/ SyscallCheck
  \/ OtherCall \/ SysYield \/ SysKill \/ SysSigaction
  \/ Fork \/ TaskCreate
  \/ SysWaitpid \/ WaitAgain \/ WaitWake
  \/ Exit \/ UserFault \/ KernelFault
  \/ KernelYield \/ SwitchTo
  \/ RestartTids \/ LaunchInit \/ MainExit
  \/ Spin /\ UNCHANGED vars

Spec == Init /\ [][Next]_vars
-----------------------------------------------------------------------------
(* Fairness.  The processor executes the kernel code a task has begun, even *)
(* if interrupts arrive in between (strong fairness, task by task), and     *)
(* finishes interrupt handlers.  The PIT keeps ticking and the PIC latches  *)
(* a tick that arrives with interrupts masked, hence strong fairness for    *)
(* the tick; Slices asks for it outside system calls too.  User code owes   *)
(* nothing.                                                                 *)

CodeStep ==
  \/ SyscallReturn \/ SyscallCheck
  \/ OtherCall \/ SysYield \/ SysKill \/ SysSigaction \/ Fork
  \/ SysWaitpid \/ WaitAgain \/ WaitWake \/ Exit
  \/ RestartTids \/ LaunchInit \/ MainExit

Ticks ==
  /\ WF_vars(IrqReturn)
  /\ SF_vars(TimerIrq)
  /\ \A s \in Slots : SF_vars(current = s /\ CodeStep)

Slices == Ticks /\ SF_vars(TimerIrq /\ Preemptible)

TickSpec == Spec /\ Ticks
SliceSpec == Spec /\ Slices
-----------------------------------------------------------------------------
\* Every variable has its type; the current task is in the task list, and no
\* task is in both lists.
TypeOK ==
  /\ live \subseteq Slots
  /\ next \in [Slots -> Slots]
  /\ task \in [Slots -> TaskRec]
  /\ zombies \subseteq Slots \ live
  /\ zombie \in [zombies -> ZombieRec]
  /\ current \in live
  /\ picBusy \in BOOLEAN
  /\ nextTid \in 0..MaxTid

\* The list that task_create, task_fork and task_exit splice is one cycle
\* through all live tasks (no proper part of it is closed under next), so that
\* task_exit always finds its predecessor and never reports "Task list
\* corruption".
RingIntact ==
  /\ \A t \in live : next[t] \in live
  /\ \A ring \in SUBSET live :
       ring # {} /\ (\A t \in ring : next[t] \in ring) => ring = live

\* At most the current task is RUNNING: whatever took the processor from a
\* task (tick, yield, waitpid, exit, task_switch_to) changed its state.
OneRunner == \A t \in live : task[t].state = "RUNNING" => t = current

\* The parent pointer of a live task is NULL or leads to a live task, so the
\* SIGCHLD of task_exit never goes to freed memory.
LiveParents == \A t \in live : task[t].parent \in live \cup {NoTask}

\* A task blocked in waitpid has a child, running or dead, that can end its
\* wait: no reaping, reparenting or exit in between leaves it waiting for
\* nobody.
NoStuckWaiter ==
  \A p \in live : task[p].state = "BLOCKED_WAIT" =>
    \/ \E t \in live : task[t].parent = p /\ task[p].waitPid \in {AnyChild, task[t].pid}
    \/ \E z \in zombies : Matches(task, p, z)

\* Preemption is disabled exactly in the user tasks that are inside a system
\* call, however they left the processor in between (the last task may halt
\* either way).
PreemptBalanced ==
  \A t \in live : task[t].pc # "halted" =>
    task[t].preempt =
      IF task[t].priv = 3 /\ task[t].pc \in {"kernel", "wait", "waited", "ret", "hung"}
      THEN 1 ELSE 0

\* A child cleanup_zombies has freed in its waiting parent's name stays in the
\* parent's wait fields until waitpid returns it (children with pid 0 apart,
\* see PidZeroReported).
ReportsKept ==
  \A p \in live : \A r \in task[p].due :
    r.pid # 0 => /\ task[p].pc = "waited"
                 /\ task[p].waitRet = r.pid
                 /\ task[p].waitStatus = r.status

\* cleanup_zombies never frees a child behind the back of a live parent: it
\* ignores SIGCHLD, or its waitpid is about to return that child.
NoSilentReap ==
  [][\A z \in zombies :
       LET p == zombie[z].parent
       IN z \notin zombies' /\ p \in live \cap live'
            => task[p].sigign \/ ReportOf(z) \in task'[p].due]_vars

\* Inside a system call a task gives the processor up only by its own doing:
\* the tick takes nothing from it.
NoPreemptInSyscall ==
  [][current' # current /\ self.preempt > 0
       => current \notin live' \/ task'[current].pc # self.pc]_vars

\* A READY task eventually runs or leaves: round-robin starves nobody.
ReadyRuns ==
  \A s \in Slots :
    s \in live /\ task[s].state = "READY" ~> s \notin live \/ s = current

\* A task blocked in waitpid with a dead child it waits for gets out of it.
WaiterReturns ==
  \A s \in Slots :
    (s \in live /\ task[s].state = "BLOCKED_WAIT" /\ \E z \in zombies : Matches(task, s, z))
      ~> (s \in live => task[s].pc \notin {"wait", "waited"})

\* The memory of a dead task without a parent is eventually freed.
OrphansFreed ==
  \A s \in Slots :
    (s \in zombies /\ zombie[s].parent = NoTask) ~> s \notin zombies
-----------------------------------------------------------------------------
(* What the sources say of the program and the code does not do.            *)

\* task.c:920, "Reparent children to grandfather (or NULL)": no child, dead or
\* alive, keeps a parent that has exited.
ZombiesReparented == \A z \in zombies : zombie[z].parent \in live \cup {NoTask}

\* timer.c:29, "send EOI if going to change context": no task but the one
\* inside irq_handler runs with IRQ 0 still in service.
EoiSent == picBusy => self.inIrq

\* process_test.h:30, waitpid reports the child it has reaped, whatever its pid.
PidZeroReported ==
  \A p \in live : \A r \in task[p].due : task[p].pc = "waited"

\* idt.c:309, the endless loop is for an exception in the main kernel task.
OnlyMainHangs == \A t \in live : task[t].pc = "hung" => task[t].pid = -1

\* multitasking.md:16, the scheduler picks tasks that are READY.
PicksReady ==
  [][current' # current => task[current'].state = "READY"
                           \/ task[current'].state = "RUNNING"]_vars
=============================================================================
