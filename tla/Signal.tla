------------------------------- MODULE Signal -------------------------------
(* The signals of one user task: task_signal_enqueue and check_signals in
   task.c, sys_kill, sys_sigaction, sys_sigprocmask and sys_sigreturn in
   syscalls.c. check_signals takes one signal whenever the task is about to go
   back to user mode, so several handlers may be begun before one has run; the
   masks to go back to are on the user stack.

   The memory of siginfo and registers is left out; a signal sent is known by
   its number and a count. A task does not forge the frame of a handler.      *)
EXTENDS Naturals, SequencesExt

CONSTANTS
    Sigs,         \* the signal numbers
    Unblockable,  \* those that sigprocmask does not block, SIGKILL and SIGSTOP
    Quiet,        \* those that the default action ignores, SIGCHLD and the like
    Actions,      \* the sigactions that the program sets
    Masks,        \* the sets that it gives to sigprocmask
    MaxQueue,     \* bound on the signals queued
    MaxNested,    \* bound on the handlers within handlers
    MaxSent       \* bound on the signals sent

SigActions == [handler : {"default", "ignore", "run"}, mask : SUBSET Sigs,
               nodefer : BOOLEAN, resethand : BOOLEAN]

ConstantsOK ==
    /\ Unblockable \cup Quiet \subseteq Sigs
    /\ Masks \subseteq SUBSET Sigs
    /\ Actions \subseteq SigActions
    /\ {MaxQueue, MaxNested, MaxSent} \subseteq Nat

VARIABLES
    pending,   \* pending_signals
    queue,     \* signal_queue, by the next pointers
    tail,      \* signal_queue_tail: the count of an item, 0 for none
    blocked,   \* blocked_signals
    actions,   \* sigactions
    frames,    \* the handlers that run, the innermost last: [sig, mask]
    ended,     \* task_exit by a signal
    sent,      \* how many signals were sent
    owed,      \* history: those not taken yet
    opened     \* history: the signals unblocked by a handler, or SA_NODEFER

vars == <<pending, queue, tail, blocked, actions, frames, ended, sent, owed, opened>>

Default == [handler |-> "default", mask |-> {}, nodefer |-> FALSE, resethand |-> FALSE]

Init ==
    /\ pending = {} /\ queue = <<>> /\ tail = 0
    /\ blocked = {} /\ actions = [s \in Sigs |-> Default]
    /\ frames = <<>> /\ ended = FALSE
    /\ sent = 0 /\ owed = {} /\ opened = {}

-----------------------------------------------------------------------------
(* task_signal_enqueue, for sys_kill or for SIGCHLD: the new item goes behind
   the one that the tail points to, which only the queue's last keeps in it.
   Without memory for the item the signal is dropped.                        *)
Linked(q, end, item) ==
    IF q = <<>> \/ end = Last(q).n THEN Append(q, item) ELSE q

Send(s) ==
    /\ ~ended /\ Len(queue) < MaxQueue /\ sent < MaxSent
    /\ sent' = sent + 1
    /\ LET item == [sig |-> s, n |-> sent + 1]
       IN queue' = Linked(queue, tail, item) /\ owed' = owed \cup {item}
    /\ tail' = sent + 1 /\ pending' = pending \cup {s}
    /\ UNCHANGED <<blocked, actions, frames, ended, opened>>

-----------------------------------------------------------------------------
Deliverable == {i \in DOMAIN queue : queue[i].sig \in pending \ blocked}

\* Mutant of TailWithout: the tail is only looked after when the queue is empty.
TailWithoutLast(i) == IF Len(queue) = 1 THEN 0 ELSE tail
TailWithout(i) ==
    IF i < Len(queue) THEN tail ELSE IF i = 1 THEN 0 ELSE queue[i - 1].n

(* The mask while the handler for s runs. *)
\* Mutant of MaskFor: the mask of the handler replaces the one in force.
MaskForNew(s, act) == act.mask \cup (IF act.nodefer THEN {} ELSE {s})
MaskFor(s, act) == blocked \cup act.mask \cup (IF act.nodefer THEN {} ELSE {s})

(* check_signals: the first item that is not blocked; its number stays pending
   while another item has it; then what the sigaction says.                  *)
CheckSignals ==
    /\ ~ended
    /\ \E i \in Deliverable :
       LET s == queue[i].sig
           rest == RemoveAt(queue, i)
           act == actions[s]
       IN /\ \A j \in Deliverable : i <= j
          /\ queue' = rest /\ tail' = TailWithout(i)
          /\ pending' = IF \E k \in DOMAIN rest : rest[k].sig = s THEN pending ELSE pending \ {s}
          /\ owed' = owed \ {queue[i]}
          /\ ended' = (act.handler = "default" /\ s \notin Quiet)
          /\ IF act.handler = "run"
             THEN /\ Len(frames) < MaxNested
                  /\ frames' = Append(frames, [sig |-> s, mask |-> blocked])
                  /\ blocked' = MaskFor(s, act)
                  /\ actions' = IF act.resethand THEN [actions EXCEPT ![s].handler = "default"] ELSE actions
                  /\ opened' = IF act.nodefer THEN opened \cup {s} ELSE opened
             ELSE UNCHANGED <<blocked, actions, frames, opened>>
    /\ UNCHANGED sent

(* sys_sigreturn, by the restorer of the innermost handler. *)
SigReturn ==
    /\ ~ended /\ frames # <<>>
    /\ blocked' = Last(frames).mask /\ frames' = Front(frames)
    /\ opened' = IF Len(frames) = 1 THEN {} ELSE opened
    /\ UNCHANGED <<pending, queue, tail, actions, ended, sent, owed>>

(* sys_sigaction, not for SIGKILL and SIGSTOP. *)
SigAction(s, act) ==
    /\ ~ended /\ s \notin Unblockable
    /\ actions' = [actions EXCEPT ![s] = act]
    /\ UNCHANGED <<pending, queue, tail, blocked, frames, ended, sent, owed, opened>>

(* sys_sigprocmask; SIG_SETMASK is a SIG_UNBLOCK and a SIG_BLOCK at once. *)
SigProcMask(how, set) ==
    /\ ~ended
    /\ LET val == set \ Unblockable
       IN blocked' = CASE how = "block" -> blocked \cup val
                       [] how = "unblock" -> blocked \ val
                       [] how = "setmask" -> val
    /\ opened' = IF frames # <<>> THEN opened \cup (blocked \ blocked') ELSE opened
    /\ UNCHANGED <<pending, queue, tail, actions, frames, ended, sent, owed>>

(* The task as its child sees it after task_fork: no signals, but the mask and
   the sigactions of the parent, and the handlers on its copy of the stack.  *)
Forked ==
    /\ ~ended
    /\ pending' = {} /\ queue' = <<>> /\ tail' = 0 /\ owed' = {}
    /\ UNCHANGED <<blocked, actions, frames, ended, sent, opened>>

(* task_execve: the stack is gone, all that the kernel has about signals stays. *)
Exec ==
    /\ ~ended
    /\ frames' = <<>> /\ opened' = {}
    /\ UNCHANGED <<pending, queue, tail, blocked, actions, ended, sent, owed>>

Next ==
    \/ \E s \in Sigs : Send(s) \/ \E act \in Actions : SigAction(s, act)
    \/ \E how \in {"block", "unblock", "setmask"}, set \in Masks : SigProcMask(how, set)
    \/ CheckSignals \/ SigReturn \/ Forked \/ Exec

Spec == Init /\ [][Next]_vars

-----------------------------------------------------------------------------
Item == [sig : Sigs, n : 1 .. MaxSent]
Frame == [sig : Sigs, mask : SUBSET Sigs]

TypeOK ==
    /\ pending \subseteq Sigs /\ blocked \subseteq Sigs /\ opened \subseteq Sigs
    /\ queue \in Seq(Item) /\ Len(queue) <= MaxQueue
    /\ tail \in 0 .. MaxSent /\ sent \in 0 .. MaxSent
    /\ actions \in [Sigs -> SigActions]
    /\ frames \in Seq(Frame) /\ Len(frames) <= MaxNested
    /\ ended \in BOOLEAN

(* No signal is lost or overtaken by a later one of its number, and the mask of
   pending signals, which check_signals looks at first, has exactly the numbers
   that are queued, through every removal from the middle or the end of the
   queue (task_signal_enqueue, check_signals).                               *)
QueueKept ==
    /\ owed = {queue[i] : i \in DOMAIN queue}
    /\ \A i, j \in DOMAIN queue : i < j => queue[i].n < queue[j].n
    /\ pending = {queue[i].sig : i \in DOMAIN queue}

(* A handler is not entered again while it runs, however handlers interrupt
   each other and return, unless one of them unblocks the signal or it was
   installed with SA_NODEFER (check_signals, sys_sigreturn).                 *)
NoReentry ==
    \A i, j \in DOMAIN frames : i < j /\ frames[i].sig = frames[j].sig => frames[i].sig \in opened

(* "Cannot block SIGKILL or SIGSTOP" (syscalls.c:155). *)
KillNotBlocked == blocked \cap Unblockable = {}
=============================================================================
