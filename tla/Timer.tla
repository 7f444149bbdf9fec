------------------------------- MODULE Timer -------------------------------
(***************************************************************************)
(* The timer's triggers (drivers/timer.c) and the scheduler's use of them  *)
(* (task/task.c).  onIrq0 walks the table with interrupts masked, but one  *)
(* of the functions it calls is task_yield, which may switch to another    *)
(* task in the middle of the walk: the rest of the walk is done when the   *)
(* interrupted task gets the processor back.                               *)
(***************************************************************************)
EXTENDS Integers, Sequences, FiniteSets

CONSTANTS
  Runnable,     \* the tasks, all of them ready to run
  Slice,        \* the period of the scheduler's trigger (100 in the code)
  Clients,      \* the other users of triggers
  Period,       \* the period the clients ask for
  Global,       \* they may set TIMER_TRIGGER_USE_GLOBAL
  Registered,   \* the client registered at boot, or NoClient
  Late,         \* clients also come and go while tasks run
  Kills,        \* a fatal signal may end a task inside the tick
  NoClient,
  MaxTicks      \* bound on ticks

Scheduler == "task_yield"

TimerOK ==
  /\ IsFiniteSet(Runnable) /\ IsFiniteSet(Clients)
  /\ {Slice, Period, MaxTicks} \subseteq Nat \ {0}
  /\ NoClient \notin Clients
  /\ Registered \in Clients \cup {NoClient}
  /\ Scheduler \notin Clients
  /\ {Global, Late, Kills} \subseteq BOOLEAN

VARIABLES
  ticks,
  table,        \* triggers
  index,        \* what insert_trigger returned to each client, 0 for none
  stopped,      \* task_stop_scheduler was called last
  runs,         \* current_task
  walk,         \* the trigger each task's onIrq0 comes to next, 0 outside it
  start, fired  \* history, per client: ticks when its trigger was installed,
                \* and how often its function was called since

timerVars == <<ticks, table, index, stopped, runs, walk, start, fired>>

\* A trigger; its function is named by whose it is.  Indices count from 1.
Trigger == [mod : Nat, cur : Nat, func : Clients \cup {Scheduler, NoClient},
            active : BOOLEAN, global : BOOLEAN]

schedulerIndex == 1     \* scheduler_trigger_index, from task_init_scheduler

TimerTypeOK ==
  /\ ticks \in 0..MaxTicks
  /\ table \in Seq(Trigger)
  /\ Len(table) \in 1..(1 + Cardinality(Clients))
  /\ index \in [Clients -> 0..Len(table)]
  /\ stopped \in BOOLEAN
  /\ runs \in Runnable
  /\ walk \in [Runnable -> 0..Len(table)]
  /\ start \in [Clients -> 0..MaxTicks]
  /\ fired \in [Clients -> 0..MaxTicks]

NewTrigger(mod, func, global) ==
  [mod |-> mod, cur |-> 0, func |-> func, active |-> TRUE, global |-> global]

\* init_timer, task_init_scheduler, and the clients of the boot.
TimerInit ==
  /\ ticks = 0
  /\ table = <<NewTrigger(Slice, Scheduler, FALSE)>> \o
             (IF Registered = NoClient THEN <<>>
              ELSE <<NewTrigger(Period, Registered, Global)>>)
  /\ index = [c \in Clients |-> IF c = Registered THEN 2 ELSE 0]
  /\ stopped = FALSE
  /\ runs \in Runnable
  /\ walk = [t \in Runnable |-> 0]
  /\ start = [c \in Clients |-> 0]
  /\ fired = [c \in Clients |-> 0]
-----------------------------------------------------------------------------
(* insert_trigger, remove_trigger, task_stop_scheduler, task_start_scheduler *)

\* In kernel code of the current task, outside the interrupt.
InCode == walk[runs] = 0

Vacant == {i \in DOMAIN table : ~table[i].active}

\* The first inactive trigger, or a new one behind the others.
Slot == IF Vacant = {} THEN Len(table) + 1
        ELSE CHOOSE i \in Vacant : \A j \in Vacant : i <= j

\* A krealloc that fails leaves everything as it was and needs no step.
InsertTrigger(c) ==
  /\ Late /\ InCode
  /\ index[c] = 0
  /\ LET trigger == NewTrigger(Period, c, Global) IN
       table' = IF Slot \in DOMAIN table THEN [table EXCEPT ![Slot] = trigger]
                ELSE Append(table, trigger)
  /\ index' = [index EXCEPT ![c] = Slot]
  /\ start' = [start EXCEPT ![c] = ticks]
  /\ fired' = [fired EXCEPT ![c] = 0]
  /\ UNCHANGED <<ticks, stopped, runs, walk>>

RemoveTrigger(c) ==
  /\ Late /\ InCode
  /\ index[c] # 0
  /\ table' = [table EXCEPT ![index[c]] =
                 [mod |-> 0, cur |-> 0, func |-> NoClient, active |-> FALSE, global |-> FALSE]]
  /\ index' = [index EXCEPT ![c] = 0]
  /\ UNCHANGED <<ticks, stopped, runs, walk, start, fired>>

\* task_stop_scheduler clears the flag of the trigger, not the trigger.
StopScheduler ==
  /\ InCode
  /\ table' = [table EXCEPT ![schedulerIndex].active = FALSE]
  /\ stopped' = TRUE
  /\ UNCHANGED <<ticks, index, runs, walk, start, fired>>

StartScheduler ==
  /\ InCode
  /\ table' = [table EXCEPT ![schedulerIndex].cur = 0, ![schedulerIndex].active = TRUE]
  /\ stopped' = FALSE
  /\ UNCHANGED <<ticks, index, runs, walk, start, fired>>
-----------------------------------------------------------------------------
(* onIrq0                                                                   *)

OnIrq0 ==
  /\ InCode
  /\ ticks < MaxTicks
  /\ ticks' = ticks + 1
  /\ walk' = [walk EXCEPT ![runs] = 1]
  /\ UNCHANGED <<table, index, stopped, runs, start, fired>>

\* Where a walk goes behind trigger i: on, or out of the handler.
After(i) == IF i < Len(table) THEN i + 1 ELSE 0

Here == walk[runs]
trigger == table[Here]

\* Mutant of Counted: the count is not taken back when the function is called.
CountedOn == [table EXCEPT ![Here].cur = @ + 1]

\* The table when trigger Here has counted this tick.
Counted ==
  IF trigger.global THEN table
  ELSE [table EXCEPT ![Here].cur = IF @ + 1 >= trigger.mod THEN 0 ELSE @ + 1]

Due == trigger.active /\ IF trigger.global THEN ticks >= trigger.mod
                         ELSE trigger.cur + 1 >= trigger.mod

\* A trigger that is inactive, not due yet, or a client's.
WalkOn ==
  /\ Here # 0
  /\ ~(Due /\ trigger.func = Scheduler)
  /\ table' = IF trigger.active THEN Counted ELSE table
  /\ fired' = IF Due /\ trigger.func \in Clients
              THEN [fired EXCEPT ![trigger.func] = @ + 1] ELSE fired
  /\ walk' = [walk EXCEPT ![runs] = After(Here)]
  /\ UNCHANGED <<ticks, index, stopped, runs, start>>

\* The scheduler's trigger is due, and task_yield switches: it sets the count of
\* scheduler_trigger_index to 0, and the next task goes on where it was, in its
\* own code or in the walk that it was preempted in.  A task with preemption
\* disabled keeps the processor.
Preempt ==
  /\ Here # 0
  /\ Due /\ trigger.func = Scheduler
  /\ \/ /\ table' = Counted
        /\ UNCHANGED runs
     \/ /\ table' = [Counted EXCEPT ![schedulerIndex].cur = 0]
        /\ runs' \in Runnable \ {runs}
  /\ walk' = [walk EXCEPT ![runs] = After(Here)]
  /\ UNCHANGED <<ticks, index, stopped, start, fired>>

\* check_signals in that task_yield ends the task: the rest of its walk is never
\* done.  A new task may take its place.
KilledInTick ==
  /\ Kills
  /\ Here # 0
  /\ Due /\ trigger.func = Scheduler
  /\ table' = Counted
  /\ runs' \in Runnable \ {runs}
  /\ walk' = [walk EXCEPT ![runs] = 0]
  /\ UNCHANGED <<ticks, index, stopped, start, fired>>

\* task_yield from a task's own code; here, too, the next task may go on in a walk.
Yield ==
  /\ InCode
  /\ table' = [table EXCEPT ![schedulerIndex].cur = 0]
  /\ runs' \in Runnable \ {runs}
  /\ UNCHANGED <<ticks, index, stopped, walk, start, fired>>

TimerNext ==
  \/ \E c \in Clients : InsertTrigger(c) \/ RemoveTrigger(c)
  \/ StopScheduler \/ StartScheduler
  \/ OnIrq0 \/ WalkOn \/ Preempt \/ KilledInTick \/ Yield

TimerSpec == TimerInit /\ [][TimerNext]_timerVars
-----------------------------------------------------------------------------
(* Properties                                                               *)

\* The walks that have yet to come to trigger i.
Owed(i) == {t \in Runnable : walk[t] \in 1..i}

\* The ticks that client c's trigger has counted or is going to count.
TicksSeen(c) ==
  fired[c] * Period + table[index[c]].cur + Cardinality(Owed(index[c]))

\* A walk may be suspended in the middle, overtaken by walks of other tasks and
\* finished much later.  Still no tick is counted twice: a trigger runs ahead of
\* the time since its installation only by the walks that were suspended then,
\* fewer than there are tasks (timer.c:122-136, task.c:857-891).
TicksCountedOnce ==
  \A c \in Clients : index[c] # 0 /\ ~Global =>
    TicksSeen(c) <= ticks - start[c] + Cardinality(Runnable) - 1

\* "Functions to be scheduled to run every X ticks": no tick is lost.
NoTickLost ==
  \A c \in Clients : index[c] # 0 => TicksSeen(c) >= ticks - start[c]

\* "Functions to be scheduled to run every X ticks": not more often.
NotTooOften ==
  \A c \in Clients : index[c] # 0 => fired[c] * Period <= ticks - start[c]

\* The scheduler has a trigger that preempts tasks, at its index.
SchedulerKeepsTrigger == table[schedulerIndex].func = Scheduler
=============================================================================
