------------------------------ MODULE Keyboard ------------------------------
(***************************************************************************)
(* The keyboard's ring of characters and its readers (drivers/keyboard.c), *)
(* with task_block_current, task_unblock and what task_yield does to tasks *)
(* that block in a system call (task/task.c).  A step of a reader is one   *)
(* access to what keyboard_handler also accesses, because the handler runs *)
(* between any two of them: system calls do not mask interrupts.           *)
(***************************************************************************)
EXTENDS Integers, Sequences, FiniteSets

CONSTANTS
  N,          \* the tasks are 1..N; task->next leads from t to t + 1, from N to 1; the
              \* list skips those that are gone
  Readers,    \* the user tasks that read the keyboard
  Waiting,    \* the tasks blocked in waitpid for a child that lives on
  Chars,      \* the characters told apart
  NewLine,    \* '\n'
  Size        \* KBD_BUF_SIZE

KeyboardOK ==
  /\ N \in Nat \ {0}
  /\ Readers \subseteq 1..N
  /\ Waiting \subseteq (1..N) \ Readers
  /\ Waiting # 1..N
  /\ NewLine \in Chars
  /\ Size \in Nat \ {0, 1}

Tasks == 1..N
NoTask == 0

VARIABLES
  kbdHead, kbdTail,  \* kbd_head, kbd_tail
  ring,        \* kbd_buffer
  waiter,      \* keyboard_waiting_task
  state,       \* task->state
  current,     \* current_task
  pc,          \* where each task is, or resumes
  char,        \* the local variable c of each reader
  keyed        \* history: the last key's character, and a bit that every key turns over

keyboardVars == <<kbdHead, kbdTail, ring, waiter, state, current, pc, char, keyed>>

\* Where a reader is:
\*   user    in its program
\*   try     before kbd_try_pop
\*   copied  in kbd_try_pop, the character copied, before kbd_tail moves
\*   arm     before keyboard_waiting_task = current_task
\*   block   before task_block_current
\*   yield   in task_block_current, before its task_yield
\* A task that never reads is in "user", or in "gone" after its exit.
Control == {"user", "try", "copied", "arm", "block", "yield", "gone"}

KeyboardTypeOK ==
  /\ {kbdHead, kbdTail} \subseteq 0..(Size - 1)
  /\ ring \in [0..(Size - 1) -> Chars]
  /\ waiter \in Tasks \cup {NoTask}
  /\ state \in [Tasks -> {"READY", "RUNNING", "BLOCKED", "BLOCKED_WAIT"}]
  /\ current \in Tasks
  /\ pc \in [Tasks -> Control]
  /\ char \in [Tasks -> Chars]
  /\ keyed \in [char : Chars, odd : BOOLEAN]

\* init_keyboard, and task 1's program under way.  What the static array
\* holds is never read before it is written.
KeyboardInit ==
  /\ kbdHead = 0
  /\ kbdTail = 0
  /\ ring = [i \in 0..(Size - 1) |-> NewLine]
  /\ waiter = NoTask
  /\ current \in Tasks \ Waiting
  /\ state = [t \in Tasks |-> IF t \in Waiting THEN "BLOCKED_WAIT"
                              ELSE IF t = current THEN "RUNNING" ELSE "READY"]
  /\ pc = [t \in Tasks |-> "user"]
  /\ char = [t \in Tasks |-> NewLine]
  /\ keyed = [char |-> NewLine, odd |-> FALSE]
-----------------------------------------------------------------------------
(* The ring.  The handler runs in the context of any task and owns the     *)
(* head, the readers own the tail.                                         *)

Empty == kbdHead = kbdTail

\* Mutant of Full: the ring is filled to its last cell.
FullLate == FALSE

Full == (kbdHead + 1) % Size = kbdTail

\* The characters in the ring, oldest first.
Held == (kbdHead - kbdTail) % Size
Contents == [i \in 1..Held |-> ring[(kbdTail + i - 1) % Size]]
-----------------------------------------------------------------------------
(* The scheduler, as far as readers meet it.                                *)

Alive == {t \in Tasks : pc[t] # "gone"}

\* How far t is behind the current task in the circular list.
Distance(t) == (t - current - 1) % N

Nearest(S) == CHOOSE t \in S : \A u \in S : Distance(t) <= Distance(u)

\* task_yield from its search on, with the states st: the first READY task after
\* the current one runs, and the current one becomes READY only if it was
\* RUNNING.  When no other is READY it returns to the current one, which may
\* be BLOCKED and goes on all the same.
Resched(st) ==
  LET ready == {t \in Alive \ {current} : st[t] = "READY"} IN
    IF ready = {}
    THEN /\ UNCHANGED current
         /\ state' = [st EXCEPT ![current] = IF @ = "READY" THEN "RUNNING" ELSE @]
    ELSE /\ current' = Nearest(ready)
         /\ state' = [st EXCEPT ![current] = IF @ = "RUNNING" THEN "READY" ELSE @,
                                ![Nearest(ready)] = "RUNNING"]

\* The tick at the end of a slice.  In a system call, preemption is disabled
\* and task_yield returns at once.
Tick ==
  /\ pc[current] = "user"
  /\ current \notin Waiting
  /\ Resched(state)
  /\ UNCHANGED <<kbdHead, kbdTail, ring, waiter, pc, char, keyed>>

\* The program of the current task ends.  task_exit gives the processor to
\* the next task in the list in whatever state it is.
Exit ==
  /\ pc[current] = "user"
  /\ current \notin Waiting
  /\ Alive # {current}
  /\ current' = Nearest(Alive \ {current})
  /\ state' = [state EXCEPT ![current'] = "RUNNING"]
  /\ pc' = [pc EXCEPT ![current] = "gone"]
  /\ UNCHANGED <<kbdHead, kbdTail, ring, waiter, char, keyed>>

\* task_fork: the child is READY in its parent's program.  It may get the memory of
\* a task that has ended, to which the waiter slot may still point.
Fork ==
  /\ pc[current] = "user"
  /\ current \notin Waiting
  /\ \E child \in Tasks \ Alive :
       /\ pc' = [pc EXCEPT ![child] = "user"]
       /\ state' = [state EXCEPT ![child] = "READY"]
  /\ UNCHANGED <<kbdHead, kbdTail, ring, waiter, current, char, keyed>>

\* A task picked that way inside waitpid finds no dead child and blocks again.
WaitAgain ==
  /\ current \in Waiting
  /\ Resched([state EXCEPT ![current] = "BLOCKED_WAIT"])
  /\ UNCHANGED <<kbdHead, kbdTail, ring, waiter, pc, char, keyed>>
-----------------------------------------------------------------------------
(* keyboard_handler                                                         *)

\* task_unblock(keyboard_waiting_task).  The task may have ended: what is then
\* written goes to freed memory, and no task of this model is there.
Woken ==
  [t \in Tasks |-> IF t = waiter /\ pc[t] # "gone" /\ state[t] = "BLOCKED"
                   THEN "READY" ELSE state[t]]

\* A key that gives a character: kbd_push, then the waiter is woken and forgotten.
KeyIrq(c) ==
  /\ IF Full THEN UNCHANGED <<kbdHead, ring>>
     ELSE /\ ring' = [ring EXCEPT ![kbdHead] = c]
          /\ kbdHead' = (kbdHead + 1) % Size
  /\ state' = Woken
  /\ waiter' = NoTask
  /\ keyed' = [char |-> c, odd |-> ~keyed.odd]
  /\ UNCHANGED <<kbdTail, current, pc, char>>
-----------------------------------------------------------------------------
(* keyboard_read                                                            *)

At(where) == current \in Readers /\ pc[current] = where
Goto(where) == pc' = [pc EXCEPT ![current] = where]

ReadCall ==
  /\ At("user")
  /\ Goto("try")
  /\ UNCHANGED <<kbdHead, kbdTail, ring, waiter, state, current, char, keyed>>

\* kbd_try_pop: the ring is empty, or the oldest character is copied.
TryPop ==
  /\ At("try")
  /\ IF Empty THEN Goto("arm") /\ UNCHANGED char
     ELSE Goto("copied") /\ char' = [char EXCEPT ![current] = ring[kbdTail]]
  /\ UNCHANGED <<kbdHead, kbdTail, ring, waiter, state, current, keyed>>

NextTail == (kbdTail + 1) % Size

\* The rest of kbd_try_pop.  The call returns after a newline and when the
\* caller's buffer, of any size, is full.
Pop ==
  /\ At("copied")
  /\ kbdTail' = NextTail
  /\ \/ Goto("user")
     \/ char[current] # NewLine /\ Goto("try")
  /\ UNCHANGED <<kbdHead, ring, waiter, state, current, char, keyed>>

Arm ==
  /\ At("arm")
  /\ waiter' = current
  /\ Goto("block")
  /\ UNCHANGED <<kbdHead, kbdTail, ring, state, current, char, keyed>>

\* task_block_current, its masked part.
Block ==
  /\ At("block")
  /\ state' = [state EXCEPT ![current] = "BLOCKED"]
  /\ Goto("yield")
  /\ UNCHANGED <<kbdHead, kbdTail, ring, waiter, current, char, keyed>>

\* Mutant of YieldRead: the reader waits again before it looks at the ring.
YieldReadBlind ==
  /\ At("yield")
  /\ Resched(state)
  /\ Goto("arm")
  /\ UNCHANGED <<kbdHead, kbdTail, ring, waiter, char, keyed>>

\* task_yield(NULL), which does not look at preempt_count.
YieldRead ==
  /\ At("yield")
  /\ Resched(state)
  /\ Goto("try")
  /\ UNCHANGED <<kbdHead, kbdTail, ring, waiter, char, keyed>>

ReadStep == TryPop \/ Pop \/ Arm \/ Block \/ YieldRead

KeyboardNext ==
  \/ Tick
  \/ Exit
  \/ Fork
  \/ ReadCall
  \/ ReadStep
  \/ WaitAgain
  \/ \E c \in Chars : KeyIrq(c)

KeyboardSpec == KeyboardInit /\ [][KeyboardNext]_keyboardVars

\* Interrupts delay the kernel's code without stopping it, and the timer
\* ticks for ever: also in programs, not only in system calls.
KeyboardFairSpec == KeyboardSpec /\ WF_keyboardVars(ReadStep \/ WaitAgain) /\ SF_keyboardVars(Tick)
-----------------------------------------------------------------------------
(* Properties                                                               *)

\* The ring is the promised queue: a key is dropped only when Size - 1
\* characters wait, and readers get the others in the order of the keys, each of
\* them once, whenever the handler interrupts kbd_try_pop (keyboard.c:21-34).
Queue == INSTANCE KeyQueue WITH Capacity <- Size - 1, queue <- Contents, got <- char,
                                taking <- {t \in Readers : pc[t] = "copied"}
KeysInOrder == Queue!Spec

KeysKeepComing == []<>(~Empty)

\* A reader that has asked for a character goes on with one, if keys keep
\* being there to be read.
ReadersAreServed ==
  KeysKeepComing => \A t \in Readers : pc[t] = "try" ~> pc[t] = "copied"

\* A task that the tick takes the processor from becomes READY.  A reader may
\* return to its program while it is still BLOCKED, and is then never picked
\* again (task.c:837-841, keyboard.c:62-65).
PreemptedIsReady ==
  [][Tick /\ current' # current => state'[current] = "READY"]_keyboardVars
=============================================================================
