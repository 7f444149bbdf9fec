----------------------------- MODULE TaskProofs -----------------------------
(***************************************************************************)
(* Proofs about the process table of module Task: an inductive invariant,  *)
(* TaskInv, the invariants of Task that follow from it, and two of its     *)
(* action properties.                                                      *)
(*                                                                         *)
(* The invariant has a part for the two lists (Base) and a part for the    *)
(* table of tasks (Good).  Good takes the table as an argument, because    *)
(* task_yield and task_exit work on tables that are no state of the        *)
(* system: after the pass of cleanup_zombies, before the switch.           *)
(***************************************************************************)
EXTENDS Task, TLAPS

\* zombie_list is a stack: below leads nowhere outside the list and not back,
\* so every set of zombies has one nearest the head (what FirstMatch
\* chooses); and a zombie that has a parent has a tid that next_tid gave it.
Stacked(zs) ==
  /\ \A z \in DOMAIN zs : zs[z].below \subseteq DOMAIN zs \ {z}
  /\ \A Z \in SUBSET DOMAIN zs :
       Z # {} => \E z \in Z : \A y \in Z : z \notin zs[y].below
  /\ \A z \in DOMAIN zs : zs[z].parent # NoTask => zs[z].pid >= 0

\* No two live tasks have the same successor in the task list.
NoMerge == \A t, u \in live : next[t] = next[u] => t = u

\* What the invariant says of the two lists.
Base == TypeOK /\ RingIntact /\ NoMerge /\ Stacked(zombie)

\* A table of tasks.
Table == [Slots -> TaskRec]

\* The parent pointers of the tasks in lv stay among them, and form no cycle:
\* every set of live tasks has one that is nobody's parent in it.  A cycle of
\* blocked waiters would leave task_yield nobody to run but a blocked caller.
Kinship(lv, tk) ==
  /\ \A t \in lv : tk[t].parent \in lv \cup {NoTask}
  /\ \A S \in SUBSET lv : S # {} => \E m \in S : \A t \in S : tk[t].parent # m

\* Only cur is RUNNING; nobody is BLOCKED, since no step of Task blocks a
\* task on anything but a child.
Runner(lv, cur, tk) ==
  \A t \in lv : /\ tk[t].state # "BLOCKED"
                /\ tk[t].state = "RUNNING" => t = cur

\* A task in lv is a child the waiter p can end with.
HasChild(lv, tk, p) ==
  \E t \in lv : tk[t].parent = p /\ tk[p].waitPid \in {AnyChild, tk[t].pid}

\* A zombie in zs is a child the waiter p can end with.
HasCorpse(zs, tk, p) ==
  \E z \in DOMAIN zs : zs[z].parent = p /\ tk[p].waitPid \in {AnyChild, zs[z].pid}

\* What holds of each task by itself: where a kernel task and a user task can
\* be, the balance of preempt_count, the report a waiter holds, and that a
\* task blocked in waitpid has not been answered.
Fit(r) ==
  /\ r.priv = 3 => r.pc \notin {"launch", "leave"}
  /\ r.priv = 0 => r.pc \notin {"user", "ret", "check"}
  /\ r.pid = -1 => r.priv = 0
  /\ r.parent # NoTask => r.pid >= 0
  /\ r.pc # "halted" =>
       r.preempt = IF r.priv = 3 /\ r.pc \in {"kernel", "wait", "waited", "ret", "hung"}
                   THEN 1 ELSE 0
  /\ \A x \in r.due :
       /\ x.pid >= 0
       /\ x.pid # 0 => /\ r.pc = "waited"
                       /\ r.waitRet = x.pid
                       /\ r.waitStatus = x.status
  /\ r.state = "BLOCKED_WAIT" => r.pc = "waited" /\ r.waitRet = 0

\* What the invariant says of the table tk with the tasks lv, the current
\* task cur and the zombies zs.
Good(lv, cur, tk, zs) ==
  /\ tk \in Table
  /\ Kinship(lv, tk)
  /\ Runner(lv, cur, tk)
  /\ \A t \in lv : Fit(tk[t])
  /\ \A p \in lv : tk[p].state = "BLOCKED_WAIT" => HasChild(lv, tk, p) \/ HasCorpse(zs, tk, p)

\* The inductive invariant.
TaskInv ==
  /\ Base
  /\ Good(live, current, task, zombie)
  /\ self.state = "RUNNING"

-----------------------------------------------------------------------------
(* Operators of cleanup_zombies, task_yield and task_exit                   *)

\* The walk of cleanup_zombies finds a match when there is one.
LEMMA FirstMatchOK ==
  ASSUME Stacked(zombie), NEW tk, NEW p, \E z \in zombies : Matches(tk, p, z)
  PROVE  /\ FirstMatch(tk, p) \in zombies
         /\ Matches(tk, p, FirstMatch(tk, p))
<1> DEFINE Z == {z \in zombies : Matches(tk, p, z)}
<1>1. PICK z \in Z : \A y \in Z : z \notin zombie[y].below
  BY DEF Stacked, zombies
<1>2. /\ z \in zombies
      /\ Matches(tk, p, z)
      /\ \A y \in zombies : Matches(tk, p, y) => z \notin zombie[y].below
  BY <1>1
<1> QED
  BY <1>2 DEF FirstMatch

\* The pass of cleanup_zombies keeps the type of the table.
LEMMA SweptType ==
  ASSUME TypeOK, Stacked(zombie), NEW tk \in Table
  PROVE  Swept(tk) \in Table
<1> SUFFICES ASSUME NEW p \in Slots PROVE Swept(tk)[p] \in TaskRec
  BY DEF Swept, Table
<1>1. CASE p \notin Woken(tk)
  BY <1>1 DEF Swept, Table
<1>2. CASE p \in Woken(tk)
  <2> DEFINE answer == ReportOf(FirstMatch(tk, p))
  <2>1. answer \in Report
    BY <1>2, FirstMatchOK DEF Woken, ReportOf, TypeOK, ZombieRec, Report
  <2>2. answer.pid \in Int /\ answer.status \in Int
    BY <2>1 DEF Report
  <2>3. Swept(tk)[p] = [tk[p] EXCEPT !.state = "READY", !.waitRet = answer.pid,
                           !.waitStatus = answer.status, !.due = @ \cup {answer}]
    BY <1>2 DEF Swept
  <2>4. tk[p] \in TaskRec
    BY DEF Table
  <2> HIDE DEF answer
  <2>5. ASSUME NEW r \in TaskRec
        PROVE  [r EXCEPT !.state = "READY", !.waitRet = answer.pid,
                  !.waitStatus = answer.status, !.due = @ \cup {answer}] \in TaskRec
    BY <2>1, <2>2 DEF TaskRec
  <2> QED
    BY <2>3, <2>4, <2>5
<1> QED
  BY <1>1, <1>2

\* What is left of zombie_list after frees is a zombie_list.
LEMMA FreedOK ==
  ASSUME TypeOK, Stacked(zombie), NEW gone
  PROVE  /\ Freed(gone) \in [zombies \ gone -> ZombieRec]
         /\ DOMAIN Freed(gone) = zombies \ gone
         /\ Stacked(Freed(gone))
<1> DEFINE zs == Freed(gone)
<1>1. DOMAIN zs = zombies \ gone
  BY DEF Freed
<1>2. \A z \in zombies \ gone : /\ zs[z] \in ZombieRec
                             /\ zs[z].below = zombie[z].below \ gone
                             /\ zs[z].parent = zombie[z].parent
                             /\ zs[z].pid = zombie[z].pid
  <2> TAKE z \in zombies \ gone
  <2>1. zombie[z] \in ZombieRec
    BY DEF TypeOK
  <2>2. zs[z] = [zombie[z] EXCEPT !.below = @ \ gone]
    BY DEF Freed
  <2> QED
    BY <2>1, <2>2 DEF ZombieRec
<1>3. zs \in [zombies \ gone -> ZombieRec]
  BY <1>2 DEF Freed
<1>4. Stacked(zs)
  <2> HIDE DEF zs
  <2> QED BY <1>1, <1>2 DEF Stacked, zombies
<1> QED
  BY <1>1, <1>3, <1>4

\* task_yield's choice keeps the type of the table and picks a live task.
LEMMA ReschedType ==
  ASSUME TypeOK, NEW tk \in Table, Resched(tk)
  PROVE  task' \in Table /\ current' \in live
<1>1. ASSUME NEW n \in live, SwitchCpu(tk, n)
      PROVE  task' \in Table /\ current' \in live
  BY <1>1 DEF SwitchCpu, TypeOK, Table, TaskRec
<1>2. CASE UNCHANGED current /\ task' = [tk EXCEPT ![current].state = IF @ = "READY" THEN "RUNNING" ELSE @]
  BY <1>2 DEF TypeOK, Table, TaskRec
<1> QED
  BY <1>1, <1>2 DEF Resched

\* Reparenting keeps the type of the table.
LEMMA AdoptedType ==
  ASSUME TypeOK, NEW tk \in Table
  PROVE  Adopted(tk) \in Table
<1> SUFFICES ASSUME NEW t \in Slots PROVE Adopted(tk)[t] \in TaskRec
  BY DEF Adopted, Table
<1>1. tk[t] \in TaskRec /\ tk[current] \in TaskRec
  BY DEF Table, TypeOK
<1>2. ASSUME NEW r \in TaskRec, NEW q \in TaskRec
      PROVE  [r EXCEPT !.parent = q.parent] \in TaskRec
  BY DEF TaskRec
<1> QED
  BY <1>1, <1>2 DEF Adopted

-----------------------------------------------------------------------------
(* task_exit keeps the lists                                                *)

\* task_exit keeps both lists well formed: the predecessor found is the only
\* one, the ring without the dead task is one ring, the dead task heads
\* zombie_list.
LEMMA QuitBase ==
  ASSUME Base, NEW tk \in Table, NEW zs, Stacked(zs), DOMAIN zs \subseteq zombies,
         zs \in [DOMAIN zs -> ZombieRec],
         tk[current].parent # NoTask => tk[current].pid >= 0,
         NEW v \in Int, Quit(tk, zs, v), picBusy' \in BOOLEAN, nextTid' \in 0..MaxTid
  PROVE  Base'
<1> USE DEF zombies
<1>0. Adopted(tk) \in Table
  BY AdoptedType DEF Base
<1>1. CASE /\ next[current] = current
           /\ task' = [Adopted(tk) EXCEPT ![current].pc = "halted"]
           /\ zombie' = zs
           /\ UNCHANGED <<live, next, current>>
  <2>1. task' \in Table
    <3>1. current \in Slots
      BY DEF Base, TypeOK
    <3>2. ASSUME NEW u \in Table
          PROVE  [u EXCEPT ![current].pc = "halted"] \in Table
      BY <3>1 DEF Table, TaskRec, Control
    <3> QED
      BY <1>0, <1>1, <3>2
  <2>2. TypeOK'
    BY <1>1, <2>1 DEF Base, TypeOK, Table
  <2>3. RingIntact' /\ NoMerge' /\ Stacked(zombie)'
    BY <1>1 DEF Base, RingIntact, NoMerge, Stacked
  <2> QED
    BY <2>2, <2>3 DEF Base
<1>2. ASSUME NEW prev \in live \ {current},
             next[prev] = current,
             next' = [next EXCEPT ![prev] = next[current], ![current] = Main],
             live' = live \ {current},
             current' = next[current],
             task' = [Adopted(tk) EXCEPT ![current] = Blank,
                                      ![next[current]].state = "RUNNING"],
             zombie' = [z \in DOMAIN zs \cup {current} |->
               IF z = current
               THEN [pid |-> tk[z].pid, parent |-> tk[z].parent, status |-> v,
                     sigign |-> tk[z].sigign, below |-> DOMAIN zs]
               ELSE zs[z]]
      PROVE  Base'
  <2>0. /\ current \in live /\ live \subseteq Slots /\ Main \in Slots
        /\ next \in [Slots -> Slots]
        /\ current \notin DOMAIN zs
    BY TaskAssumption DEF Base, TypeOK
  <2>1. next[current] \in live \ {current}
    BY <1>2, <2>0 DEF Base, RingIntact, NoMerge
  <2>2. \A t \in live \ {current} : next'[t] = IF t = prev THEN next[current] ELSE next[t]
    BY <1>2, <2>0
  <2>3. \A t \in live \ {current} : next'[t] \in live \ {current}
    BY <1>2, <2>0, <2>1, <2>2 DEF Base, RingIntact, NoMerge
  <2>4. NoMerge'
    BY <1>2, <2>0, <2>2 DEF Base, RingIntact, NoMerge
  <2>5. RingIntact'
    <3> SUFFICES ASSUME NEW ring \in SUBSET (live \ {current}), ring # {},
                        \A t \in ring : next'[t] \in ring
                 PROVE  ring = live \ {current}
      BY <1>2, <2>3 DEF RingIntact
    <3>1. CASE prev \in ring
      <4>1. next[current] \in ring
        BY <2>2, <3>1
      <4>2. \A t \in ring \cup {current} : next[t] \in ring \cup {current}
        BY <1>2, <2>2, <4>1
      <4>3. ring \cup {current} \in SUBSET live /\ ring \cup {current} # {}
        BY <2>0
      <4>4. ring \cup {current} = live
        BY <4>2, <4>3 DEF Base, RingIntact
      <4> QED
        BY <4>4
    <3>2. CASE prev \notin ring
      <4>1. \A t \in ring : next[t] \in ring
        BY <2>2, <3>2
      <4>2. ring = live
        BY <4>1 DEF Base, RingIntact
      <4> QED
        BY <1>2, <3>2, <4>2
    <3> QED
      BY <3>1, <3>2
  <2>6. Blank \in TaskRec
    BY DEF Blank, NewTask, TaskRec, Control
  <2>7. task' \in Table
    <3> DEFINE u == [Adopted(tk) EXCEPT ![current] = Blank]
    <3>1. u \in Table
      BY <1>0, <2>0, <2>6 DEF Table
    <3>2. task' = [u EXCEPT ![next[current]].state = "RUNNING"]
      BY <1>2
    <3> HIDE DEF u
    <3> QED
      BY <2>0, <2>1, <3>1, <3>2 DEF Table, TaskRec
  <2>8. DOMAIN zombie' = DOMAIN zs \cup {current}
    BY <1>2
  <2>9. zombie'[current] \in ZombieRec /\ zombie'[current].below = DOMAIN zs
    <3>1. tk[current] \in TaskRec
      BY <2>0 DEF Table
    <3>2. DOMAIN zs \subseteq Slots
      BY DEF Base, TypeOK
    <3>3. zombie'[current] = [pid |-> tk[current].pid, parent |-> tk[current].parent, status |-> v,
                     sigign |-> tk[current].sigign, below |-> DOMAIN zs]
      BY <1>2
    <3> QED
      BY <3>1, <3>2, <3>3 DEF TaskRec, ZombieRec
  <2>10. \A z \in DOMAIN zs : zombie'[z] = zs[z]
    BY <1>2, <2>0
  <2>11. zombie' \in [DOMAIN zs \cup {current} -> ZombieRec]
    <3>1. \A z \in DOMAIN zs \cup {current} : zombie'[z] \in ZombieRec
      BY <2>9, <2>10
    <3> QED
      BY <1>2, <3>1
  <2>12. Stacked(zombie)'
    <3>1. \A z \in DOMAIN zombie' : zombie'[z].below \subseteq DOMAIN zombie' \ {z}
      BY <2>0, <2>8, <2>9, <2>10 DEF Stacked
    <3>2. ASSUME NEW Z \in SUBSET DOMAIN zombie', Z # {}
          PROVE  \E z \in Z : \A y \in Z : z \notin zombie'[y].below
      <4>1. CASE current \in Z
        <5>1. \A y \in Z : current \notin zombie'[y].below
          BY <2>0, <2>8, <2>9, <2>10 DEF Stacked
        <5> QED
          BY <4>1, <5>1
      <4>2. CASE current \notin Z
        <5>1. Z \in SUBSET DOMAIN zs
          BY <2>8, <4>2
        <5> QED
          BY <2>10, <3>2, <5>1 DEF Stacked
      <4> QED
        BY <4>1, <4>2
    <3>3. ASSUME NEW z \in DOMAIN zombie', zombie'[z].parent # NoTask
          PROVE  zombie'[z].pid >= 0
      <4>1. CASE z = current
        <5>1. zombie'[z].parent = tk[current].parent /\ zombie'[z].pid = tk[current].pid
          BY <1>2, <2>8, <4>1
        <5> QED
          BY <3>3, <5>1
      <4>2. CASE z # current
        BY <2>8, <2>10, <3>3, <4>2 DEF Stacked
      <4> QED
        BY <4>1, <4>2
    <3> QED
      BY <3>1, <3>2, <3>3 DEF Stacked
  <2>13. TypeOK'
    <3>1. next' \in [Slots -> Slots]
      BY <1>2, <2>0
    <3>2. DOMAIN zombie' \subseteq Slots \ live'
      BY <1>2, <2>0, <2>8 DEF Base, TypeOK
    <3> QED
      BY <1>2, <2>0, <2>1, <2>7, <2>8, <2>11, <3>1, <3>2 DEF TypeOK, Table
  <2> QED
    BY <2>4, <2>5, <2>12, <2>13 DEF Base
<1> QED
  BY <1>1, <1>2 DEF Quit

-----------------------------------------------------------------------------
(* The table of tasks                                                       *)

\* What the pass of cleanup_zombies does to each field of a task.
LEMMA SweptFields ==
  ASSUME TypeOK, Stacked(zombie), NEW tk \in Table, NEW p \in Slots
  PROVE  /\ Swept(tk)[p].pid = tk[p].pid
         /\ Swept(tk)[p].parent = tk[p].parent
         /\ Swept(tk)[p].priv = tk[p].priv
         /\ Swept(tk)[p].preempt = tk[p].preempt
         /\ Swept(tk)[p].waitPid = tk[p].waitPid
         /\ Swept(tk)[p].pc = tk[p].pc
         /\ Swept(tk)[p].sigign = tk[p].sigign
         /\ p \notin Woken(tk) => Swept(tk)[p] = tk[p]
         /\ p \in Woken(tk) =>
              LET answer == ReportOf(FirstMatch(tk, p))
              IN /\ Swept(tk)[p].state = "READY"
                 /\ Swept(tk)[p].waitRet = answer.pid
                 /\ Swept(tk)[p].waitStatus = answer.status
                 /\ Swept(tk)[p].due = tk[p].due \cup {answer}
<1>1. CASE p \notin Woken(tk)
  BY <1>1 DEF Swept
<1>2. CASE p \in Woken(tk)
  <2> DEFINE answer == ReportOf(FirstMatch(tk, p))
  <2>1. Swept(tk)[p] = [tk[p] EXCEPT !.state = "READY", !.waitRet = answer.pid,
                           !.waitStatus = answer.status, !.due = @ \cup {answer}]
    BY <1>2 DEF Swept
  <2>2. tk[p] \in TaskRec
    BY DEF Table
  <2> HIDE DEF answer
  <2>3. ASSUME NEW r \in TaskRec, NEW q,
               q = [r EXCEPT !.state = "READY", !.waitRet = answer.pid,
                      !.waitStatus = answer.status, !.due = @ \cup {answer}]
        PROVE  /\ q.pid = r.pid /\ q.parent = r.parent /\ q.priv = r.priv
               /\ q.preempt = r.preempt /\ q.waitPid = r.waitPid /\ q.pc = r.pc
               /\ q.sigign = r.sigign
               /\ q.state = "READY" /\ q.waitRet = answer.pid
               /\ q.waitStatus = answer.status /\ q.due = r.due \cup {answer}
    BY <2>3 DEF TaskRec
  <2>4. /\ Swept(tk)[p].pid = tk[p].pid /\ Swept(tk)[p].parent = tk[p].parent
        /\ Swept(tk)[p].priv = tk[p].priv /\ Swept(tk)[p].preempt = tk[p].preempt
        /\ Swept(tk)[p].waitPid = tk[p].waitPid /\ Swept(tk)[p].pc = tk[p].pc
        /\ Swept(tk)[p].sigign = tk[p].sigign
        /\ Swept(tk)[p].state = "READY" /\ Swept(tk)[p].waitRet = answer.pid
        /\ Swept(tk)[p].waitStatus = answer.status
        /\ Swept(tk)[p].due = tk[p].due \cup {answer}
    BY <2>1, <2>2, <2>3
  <2> QED
    BY <1>2, <2>4 DEF answer
<1> QED
  BY <1>1, <1>2

\* A change to the current task alone, which keeps its pid and parent, keeps
\* the table good.
LEMMA EditGood ==
  ASSUME NEW tk, NEW zs, Good(live, current, tk, zs), live \subseteq Slots, current \in live,
         NEW u \in Table, \A t \in live \ {current} : u[t] = tk[t],
         u[current].pid = tk[current].pid,
         u[current].parent = tk[current].parent,
         u[current].state = "BLOCKED_WAIT" => HasChild(live, u, current) \/ HasCorpse(zs, u, current),
         u[current].state # "BLOCKED",
         Fit(u[current])
  PROVE  Good(live, current, u, zs)
<1>1. \A t \in live : u[t].pid = tk[t].pid /\ u[t].parent = tk[t].parent
  OBVIOUS
<1>2. Kinship(live, u)
  BY <1>1 DEF Good, Kinship
<1>3. Runner(live, current, u)
  BY DEF Good, Runner
<1>4. \A t \in live : Fit(u[t])
  BY DEF Good
<1>5. ASSUME NEW p \in live, u[p].state = "BLOCKED_WAIT"
      PROVE  HasChild(live, u, p) \/ HasCorpse(zs, u, p)
  <2>1. CASE p = current
    BY <1>5, <2>1
  <2>2. CASE p # current
    <3>1. u[p] = tk[p]
      BY <2>2
    <3>2. HasChild(live, tk, p) \/ HasCorpse(zs, tk, p)
      BY <1>5, <3>1 DEF Good
    <3> QED
      BY <1>1, <3>1, <3>2 DEF HasChild, HasCorpse
  <2> QED
    BY <2>1, <2>2
<1> QED
  BY <1>2, <1>3, <1>4, <1>5 DEF Good

\* The pass of cleanup_zombies keeps the table good whatever zombies are
\* left, and the tasks it leaves blocked have live children.
LEMMA SweepGood ==
  ASSUME TypeOK, Stacked(zombie), NEW tk, Good(live, current, tk, zombie), NEW zs
  PROVE  /\ Good(live, current, Swept(tk), zs)
         /\ \A p \in live : Swept(tk)[p].state = "BLOCKED_WAIT" => HasChild(live, Swept(tk), p)
<1> DEFINE u == Swept(tk)
<1>0. /\ tk \in Table
      /\ u \in Table
      /\ live \subseteq Slots
  BY SweptType DEF Good, TypeOK
<1>1. \A t \in live : /\ u[t].pid = tk[t].pid /\ u[t].parent = tk[t].parent
                      /\ u[t].priv = tk[t].priv /\ u[t].preempt = tk[t].preempt
                      /\ u[t].waitPid = tk[t].waitPid /\ u[t].pc = tk[t].pc
  BY <1>0, SweptFields
<1>2. \A t \in live : t \notin Woken(tk) => u[t] = tk[t]
  BY <1>0, SweptFields
<1>3. \A t \in live : t \in Woken(tk) =>
         LET answer == ReportOf(FirstMatch(tk, t))
         IN /\ u[t].state = "READY" /\ u[t].waitRet = answer.pid
            /\ u[t].waitStatus = answer.status
            /\ u[t].due = tk[t].due \cup {answer}
  BY <1>0, SweptFields
<1> HIDE DEF u
<1>4. Kinship(live, u)
  BY <1>1 DEF Good, Kinship
<1>5. Runner(live, current, u)
  BY <1>2, <1>3 DEF Good, Runner
<1>6. ASSUME NEW t \in live PROVE Fit(u[t])
  <2>1. Fit(tk[t])
    BY DEF Good
  <2>2. CASE t \notin Woken(tk)
    BY <1>2, <2>1, <2>2
  <2>3. CASE t \in Woken(tk)
    <3> DEFINE answer == ReportOf(FirstMatch(tk, t))
    <3>1. tk[t].state = "BLOCKED_WAIT"
      BY <2>3 DEF Woken
    <3>2. /\ tk[t].pc = "waited" /\ tk[t].waitRet = 0
          /\ \A x \in tk[t].due : x.pid = 0
      BY <2>1, <3>1 DEF Fit
    <3>4. answer.pid >= 0
      <4>1. \E z \in zombies : Matches(tk, t, z)
        BY <2>3 DEF Woken
      <4>2. FirstMatch(tk, t) \in zombies /\ zombie[FirstMatch(tk, t)].parent = t
        BY <4>1, FirstMatchOK DEF Matches
      <4>3. t # NoTask
        BY <1>0, TaskAssumption
      <4> QED
        BY <4>2, <4>3 DEF Stacked, zombies, ReportOf
    <3>3. /\ u[t].state = "READY" /\ u[t].waitRet = answer.pid
          /\ u[t].waitStatus = answer.status
          /\ u[t].due = tk[t].due \cup {answer}
      BY <1>3, <2>3
    <3> HIDE DEF answer
    <3> QED
      BY <1>1, <2>1, <3>2, <3>3, <3>4 DEF Fit
  <2> QED
    BY <2>2, <2>3
<1>7. ASSUME NEW p \in live, u[p].state = "BLOCKED_WAIT"
      PROVE  HasChild(live, u, p)
  <2>1. p \notin Woken(tk) /\ tk[p].state = "BLOCKED_WAIT"
    BY <1>2, <1>3, <1>7
  <2>2. ~HasCorpse(zombie, tk, p)
    BY <2>1 DEF Woken, HasCorpse, Matches, zombies
  <2>3. HasChild(live, tk, p)
    BY <2>1, <2>2 DEF Good
  <2> QED
    BY <1>1, <2>3 DEF HasChild
<1>8. Good(live, current, u, zs)
  BY <1>0, <1>4, <1>5, <1>6, <1>7 DEF Good, u
<1> QED
  BY <1>7, <1>8 DEF u

\* Handing the processor to a live task keeps the table good.
LEMMA SwitchGood ==
  ASSUME TypeOK, NEW tk, NEW zs, Good(live, current, tk, zs),
         NEW n \in live \ {current}, SwitchCpu(tk, n)
  PROVE  /\ current' \in live
         /\ Good(live, current', task', zs)
         /\ task'[current'].state = "RUNNING"
<1>0. /\ tk \in Table /\ task' \in Table /\ current \in live /\ live \subseteq Slots
      /\ current' = n
  <2>1. tk \in Table /\ current \in live /\ live \subseteq Slots /\ current' = n
    BY DEF Good, TypeOK, SwitchCpu
  <2>2. ASSUME NEW u \in Table, NEW a \in Slots, NEW x \in {"READY", "RUNNING", "BLOCKED", "BLOCKED_WAIT"}
        PROVE  [u EXCEPT ![a].state = x] \in Table
    BY DEF Table, TaskRec
  <2>3. task' = [[tk EXCEPT ![current].state = IF @ = "RUNNING" THEN "READY" ELSE @]
                   EXCEPT ![n].state = "RUNNING"]
    BY DEF SwitchCpu
  <2>4. tk[current].state \in {"READY", "RUNNING", "BLOCKED", "BLOCKED_WAIT"}
    BY <2>1 DEF Table, TaskRec
  <2>5. [tk EXCEPT ![current].state = IF @ = "RUNNING" THEN "READY" ELSE @] \in Table
    BY <2>1, <2>2, <2>4
  <2> QED
    BY <2>1, <2>2, <2>3, <2>5
<1>1. \A t \in live : /\ task'[t].pid = tk[t].pid /\ task'[t].parent = tk[t].parent
                      /\ task'[t].waitPid = tk[t].waitPid
  BY <1>0 DEF SwitchCpu, Table, TaskRec
<1>2. \A t \in live : task'[t].state =
        IF t = n THEN "RUNNING"
        ELSE IF t = current /\ tk[t].state = "RUNNING" THEN "READY" ELSE tk[t].state
  BY <1>0 DEF SwitchCpu, Table, TaskRec
<1>3. \A t \in live : Fit(task'[t])
  <2> TAKE t \in live
  <2>1. Fit(tk[t])
    BY DEF Good
  <2>2. /\ task'[t].priv = tk[t].priv /\ task'[t].pc = tk[t].pc
        /\ task'[t].pid = tk[t].pid /\ task'[t].preempt = tk[t].preempt
        /\ task'[t].due = tk[t].due /\ task'[t].waitRet = tk[t].waitRet
        /\ task'[t].waitStatus = tk[t].waitStatus
    BY <1>0 DEF SwitchCpu, Table, TaskRec
  <2>3. task'[t].state = "BLOCKED_WAIT" => tk[t].state = "BLOCKED_WAIT"
    BY <1>2
  <2> QED
    BY <1>1, <2>1, <2>2, <2>3 DEF Fit
<1>4. Kinship(live, task')
  BY <1>1 DEF Good, Kinship
<1>5. Runner(live, n, task')
  <2>1. Runner(live, current, tk)
    BY DEF Good
  <2> QED
    BY <1>2, <2>1 DEF Runner
<1>6. ASSUME NEW p \in live, task'[p].state = "BLOCKED_WAIT"
      PROVE  HasChild(live, task', p) \/ HasCorpse(zs, task', p)
  <2>1. tk[p].state = "BLOCKED_WAIT"
    BY <1>2, <1>6
  <2>2. HasChild(live, tk, p) \/ HasCorpse(zs, tk, p)
    BY <2>1 DEF Good
  <2> QED
    BY <1>1, <2>2 DEF HasChild, HasCorpse
<1> QED
  BY <1>0, <1>2, <1>3, <1>4, <1>5, <1>6 DEF Good

\* The second half of task_yield keeps the table good and leaves its choice
\* RUNNING. When no other task is READY the caller cannot be blocked: all
\* tasks would be, each with a live child, against Kinship.
LEMMA ReschedGood ==
  ASSUME TypeOK, NEW tk, NEW zs, Good(live, current, tk, zs),
         \A p \in live : tk[p].state = "BLOCKED_WAIT" => HasChild(live, tk, p),
         Resched(tk)
  PROVE  /\ current' \in live
         /\ Good(live, current', task', zs)
         /\ task'[current'].state = "RUNNING"
<1>0. tk \in Table /\ task' \in Table /\ current \in live /\ live \subseteq Slots
  BY ReschedType DEF Good, TypeOK
<1>3. Runner(live, current, tk)
  BY DEF Good
<1>1. ASSUME NEW n \in live \ {current}, SwitchCpu(tk, n)
      PROVE  /\ current' \in live
             /\ Good(live, current', task', zs)
             /\ task'[current'].state = "RUNNING"
  BY <1>1, SwitchGood
<1>2. ASSUME \A n \in live \ {current} : tk[n].state # "READY",
             UNCHANGED current,
             task' = [tk EXCEPT ![current].state = IF @ = "READY" THEN "RUNNING" ELSE @]
      PROVE  /\ Good(live, current, task', zs)
             /\ task'[current].state = "RUNNING"
  <2>0. \A t \in live : tk[t].state \in {"READY", "RUNNING", "BLOCKED", "BLOCKED_WAIT"}
    <3> TAKE t \in live
    <3>1. tk[t] \in TaskRec
      BY <1>0 DEF Table
    <3> QED
      BY <3>1 DEF TaskRec
  <2>1. tk[current].state # "BLOCKED_WAIT"
    <3> SUFFICES ASSUME tk[current].state = "BLOCKED_WAIT" PROVE FALSE
      OBVIOUS
    <3>1. \A t \in live \ {current} : tk[t].state # "BLOCKED" /\ tk[t].state # "RUNNING"
      BY <1>3 DEF Runner
    <3>2. \A t \in live : tk[t].state = "BLOCKED_WAIT"
      BY <1>2, <2>0, <3>1
    <3>3. \A p \in live : \E t \in live : tk[t].parent = p
      BY <3>2 DEF HasChild
    <3>4. \E m \in live : \A t \in live : tk[t].parent # m
      BY <1>0 DEF Good, Kinship
    <3> QED
      BY <3>3, <3>4
  <2>2. tk[current].state \in {"READY", "RUNNING"}
    BY <1>0, <1>3, <2>0, <2>1 DEF Runner
  <2>3. /\ task'[current].pid = tk[current].pid
        /\ task'[current].parent = tk[current].parent
        /\ task'[current].state = "RUNNING"
        /\ task'[current].priv = tk[current].priv /\ task'[current].pc = tk[current].pc
        /\ task'[current].preempt = tk[current].preempt
        /\ task'[current].due = tk[current].due
        /\ task'[current].waitRet = tk[current].waitRet
        /\ task'[current].waitStatus = tk[current].waitStatus
    BY <1>0, <1>2, <2>2 DEF Table, TaskRec
  <2>4. Fit(tk[current])
    BY <1>0 DEF Good
  <2>5. Fit(task'[current])
    BY <2>3, <2>4 DEF Fit
  <2>6. \A t \in live \ {current} : task'[t] = tk[t]
    BY <1>0, <1>2
  <2> QED
    BY <1>0, <2>3, <2>5, <2>6, EditGood
<1> QED
  BY <1>0, <1>1, <1>2 DEF Resched

\* What reparenting does to each field of a task.
LEMMA AdoptedFields ==
  ASSUME TypeOK, NEW tk \in Table, NEW t \in Slots
  PROVE  /\ Adopted(tk)[t].pid = tk[t].pid
         /\ Adopted(tk)[t].priv = tk[t].priv
         /\ Adopted(tk)[t].state = tk[t].state
         /\ Adopted(tk)[t].preempt = tk[t].preempt
         /\ Adopted(tk)[t].waitPid = tk[t].waitPid
         /\ Adopted(tk)[t].waitRet = tk[t].waitRet
         /\ Adopted(tk)[t].waitStatus = tk[t].waitStatus
         /\ Adopted(tk)[t].pc = tk[t].pc
         /\ Adopted(tk)[t].sigign = tk[t].sigign
         /\ Adopted(tk)[t].due = tk[t].due
         /\ Adopted(tk)[t].parent =
              IF t \in live \ {current} /\ tk[t].parent = current
              THEN tk[current].parent ELSE tk[t].parent
<1>1. tk[t] \in TaskRec
  BY DEF Table
<1>2. ASSUME NEW r \in TaskRec, NEW a, NEW q, q = [r EXCEPT !.parent = a]
      PROVE  /\ q.pid = r.pid /\ q.priv = r.priv /\ q.state = r.state
             /\ q.preempt = r.preempt /\ q.waitPid = r.waitPid /\ q.waitRet = r.waitRet
             /\ q.waitStatus = r.waitStatus /\ q.pc = r.pc /\ q.sigign = r.sigign
             /\ q.due = r.due /\ q.parent = a
  BY <1>2 DEF TaskRec
<1> QED
  BY <1>1, <1>2 DEF Adopted

\* task_exit keeps the table good: a waiter's dying child becomes a zombie it
\* can end with, and grandchildren go to a live grandparent.
LEMMA QuitGood ==
  ASSUME Base, NEW tk, NEW zs, Good(live, current, tk, zs), DOMAIN zs \subseteq zombies,
         tk[current].state = "RUNNING", tk[current].pc # "waited",
         NEW v, Quit(tk, zs, v)
  PROVE  /\ Good(live', current', task', zombie')
         /\ task'[current'].state = "RUNNING"
<1> DEFINE ad == Adopted(tk)
<1>0. /\ TypeOK /\ RingIntact /\ NoMerge
      /\ tk \in Table /\ ad \in Table /\ current \in live /\ live \subseteq Slots
      /\ current \notin DOMAIN zs
  BY AdoptedType DEF Base, Good, TypeOK
<1>1. \A t \in live :
         /\ ad[t].pid = tk[t].pid /\ ad[t].priv = tk[t].priv /\ ad[t].state = tk[t].state
         /\ ad[t].preempt = tk[t].preempt /\ ad[t].waitPid = tk[t].waitPid
         /\ ad[t].waitRet = tk[t].waitRet /\ ad[t].waitStatus = tk[t].waitStatus
         /\ ad[t].pc = tk[t].pc /\ ad[t].due = tk[t].due
         /\ ad[t].parent = IF t # current /\ tk[t].parent = current
                           THEN tk[current].parent ELSE tk[t].parent
  BY <1>0, AdoptedFields
<1>2. \A t \in live : Fit(ad[t])
  <2> TAKE t \in live
  <2>1. Fit(tk[t])
    BY DEF Good
  <2>2. current # NoTask
    BY <1>0, TaskAssumption
  <2>3. ad[t].parent # NoTask => tk[t].parent # NoTask
    BY <1>1, <2>2
  <2> QED
    BY <1>1, <2>1, <2>3 DEF Fit
<1> HIDE DEF ad
<1>3. CASE /\ next[current] = current
           /\ task' = [ad EXCEPT ![current].pc = "halted"]
           /\ zombie' = zs
           /\ UNCHANGED <<live, next, current>>
  <2>1. live = {current}
    <3>1. {current} \in SUBSET live /\ {current} # {} /\ \A t \in {current} : next[t] \in {current}
      BY <1>0, <1>3
    <3> QED
      BY <1>0, <3>1 DEF RingIntact
  <2>2. /\ task' \in Table
        /\ task'[current].pc = "halted"
        /\ task'[current].pid = ad[current].pid /\ task'[current].priv = ad[current].priv
        /\ task'[current].state = ad[current].state
        /\ task'[current].parent = ad[current].parent
        /\ task'[current].due = ad[current].due
    BY <1>0, <1>3 DEF Table, TaskRec, Control
  <2>3. Fit(task'[current])
    <3>1. Fit(tk[current])
      BY <1>0 DEF Good
    <3> QED
      BY <1>0, <1>1, <2>2, <3>1 DEF Fit
  <2>4. Kinship(live, task')
    BY <1>0, <1>1, <2>1, <2>2 DEF Good, Kinship
  <2>5. Runner(live, current, task')
    BY <1>0, <1>1, <2>1, <2>2 DEF Runner
  <2> QED
    BY <1>0, <1>1, <1>3, <2>1, <2>2, <2>3, <2>4, <2>5 DEF Good
<1>4. ASSUME NEW prev \in live \ {current},
             next[prev] = current,
             live' = live \ {current},
             current' = next[current],
             task' = [ad EXCEPT ![current] = Blank, ![next[current]].state = "RUNNING"],
             zombie' = [z \in DOMAIN zs \cup {current} |->
               IF z = current
               THEN [pid |-> tk[z].pid, parent |-> tk[z].parent, status |-> v,
                     sigign |-> tk[z].sigign, below |-> DOMAIN zs]
               ELSE zs[z]]
      PROVE  /\ Good(live', current', task', zombie')
             /\ task'[current'].state = "RUNNING"
  <2> DEFINE n == next[current]
             lv == live \ {current}
  <2>1. n \in lv
    BY <1>0, <1>4 DEF RingIntact, NoMerge
  <2>2. Blank \in TaskRec
    BY DEF Blank, NewTask, TaskRec, Control
  <2>3. task' \in Table
    <3> DEFINE w == [ad EXCEPT ![current] = Blank]
    <3>1. w \in Table
      BY <1>0, <2>2 DEF Table
    <3>2. task' = [w EXCEPT ![n].state = "RUNNING"]
      BY <1>4
    <3> HIDE DEF w, n
    <3> QED
      BY <1>0, <2>1, <3>1, <3>2 DEF Table, TaskRec
  <2> HIDE DEF n
  <2>4. \A t \in lv : task'[t] = IF t = n THEN [ad[t] EXCEPT !.state = "RUNNING"] ELSE ad[t]
    BY <1>0, <1>4, <2>1 DEF Table, n
  <2>5. \A t \in lv : /\ task'[t].pid = ad[t].pid /\ task'[t].priv = ad[t].priv
                      /\ task'[t].preempt = ad[t].preempt /\ task'[t].waitPid = ad[t].waitPid
                      /\ task'[t].waitRet = ad[t].waitRet
                      /\ task'[t].waitStatus = ad[t].waitStatus /\ task'[t].pc = ad[t].pc
                      /\ task'[t].due = ad[t].due /\ task'[t].parent = ad[t].parent
                      /\ task'[t].state = IF t = n THEN "RUNNING" ELSE ad[t].state
    <3> TAKE t \in lv
    <3>1. ad[t] \in TaskRec
      BY <1>0 DEF Table
    <3> QED
      BY <2>4, <3>1 DEF TaskRec
  <2>6. \A t \in lv : Fit(task'[t])
    <3> TAKE t \in lv
    <3>1. Fit(ad[t])
      BY <1>2
    <3> QED
      BY <2>5, <3>1 DEF Fit
  <2>7. Kinship(lv, task')
    <3>1. \A t \in live : tk[t].parent \in live \cup {NoTask}
      BY DEF Good, Kinship
    <3>2. \A S \in SUBSET live : S # {} => \E m \in S : \A t \in S : tk[t].parent # m
      BY DEF Good, Kinship
    <3>3. tk[current].parent # current
      BY <1>0, <3>2
    <3>4. \A t \in lv : task'[t].parent = IF tk[t].parent = current
                                          THEN tk[current].parent ELSE tk[t].parent
      BY <1>1, <2>5
    <3>5. \A t \in lv : task'[t].parent \in lv \cup {NoTask}
      BY <1>0, <3>1, <3>3, <3>4
    <3>6. ASSUME NEW S \in SUBSET lv, S # {}
          PROVE  \E m \in S : \A t \in S : task'[t].parent # m
      <4>1. S \cup {current} \in SUBSET live /\ S \cup {current} # {}
        BY <1>0
      <4>2. PICK m \in S \cup {current} : \A t \in S \cup {current} : tk[t].parent # m
        BY <3>2, <4>1
      <4>3. CASE m # current
        BY <3>4, <4>2, <4>3
      <4>4. CASE m = current
        <5>1. \A t \in S : task'[t].parent = tk[t].parent
          BY <3>4, <4>2, <4>4
        <5>2. S \in SUBSET live
          OBVIOUS
        <5> QED
          BY <3>2, <3>6, <5>1, <5>2
      <4> QED
        BY <4>3, <4>4
    <3> QED
      BY <3>5, <3>6 DEF Kinship
  <2>8. Runner(lv, n, task')
    <3> SUFFICES ASSUME NEW t \in lv
                 PROVE  /\ task'[t].state # "BLOCKED"
                        /\ task'[t].state = "RUNNING" => t = n
      BY DEF Runner
    <3>1. tk[t].state # "BLOCKED" /\ (tk[t].state = "RUNNING" => t = current)
      <4>1. Runner(live, current, tk)
        BY DEF Good
      <4> QED
        BY <4>1 DEF Runner
    <3> QED
      BY <1>1, <2>5, <3>1
  <2>9. ASSUME NEW p \in lv, task'[p].state = "BLOCKED_WAIT"
        PROVE  HasChild(lv, task', p) \/ HasCorpse(zombie', task', p)
    <3>1. /\ tk[p].state = "BLOCKED_WAIT"
          /\ task'[p].waitPid = tk[p].waitPid
      BY <1>1, <2>5, <2>9
    <3>2. HasChild(live, tk, p) \/ HasCorpse(zs, tk, p)
      BY <3>1 DEF Good
    <3>3. DOMAIN zombie' = DOMAIN zs \cup {current}
      BY <1>4
    <3>4. CASE HasCorpse(zs, tk, p)
      <4>1. \A z \in DOMAIN zs : zombie'[z] = zs[z]
        BY <1>0, <1>4
      <4> QED
        BY <3>1, <3>3, <3>4, <4>1 DEF HasCorpse
    <3>5. CASE HasChild(live, tk, p)
      <4>1. PICK t \in live : tk[t].parent = p /\ tk[p].waitPid \in {AnyChild, tk[t].pid}
        BY <3>5 DEF HasChild
      <4>2. CASE t = current
        <5>1. zombie'[t].parent = tk[t].parent /\ zombie'[t].pid = tk[t].pid
          BY <1>4, <4>2
        <5> QED
          BY <3>1, <3>3, <4>1, <4>2, <5>1 DEF HasCorpse
      <4>3. CASE t # current
        <5>1. t \in lv /\ task'[t].parent = p /\ task'[t].pid = tk[t].pid
          BY <1>1, <2>5, <4>1, <4>3
        <5> QED
          BY <3>1, <4>1, <5>1 DEF HasChild
      <4> QED
        BY <4>2, <4>3
    <3> QED
      BY <3>2, <3>4, <3>5
  <2>10. task'[n].state = "RUNNING"
    BY <2>1, <2>5
  <2>11. Good(lv, n, task', zombie')
    BY <2>3, <2>6, <2>7, <2>8, <2>9 DEF Good
  <2> QED
    BY <1>4, <2>10, <2>11 DEF n
<1> QED
  BY <1>3, <1>4 DEF Quit, ad

-----------------------------------------------------------------------------
(* Steps: what each kind of step keeps                                      *)

\* Linking a new task right behind the current one keeps the invariant.
LEMMA SpawnInv ==
  ASSUME TaskInv, NEW tk, NEW zs, Good(live, current, tk, zs),
         zs \in [DOMAIN zs -> ZombieRec], DOMAIN zs \subseteq zombies, Stacked(zs),
         NEW s \in Slots, s \notin live, s \notin DOMAIN zs,
         NEW r \in TaskRec, r.parent = current, r.state = "READY", Fit(r),
         NEW c \in TaskRec, c.pid = tk[current].pid, c.parent = tk[current].parent,
         c.state = "RUNNING", Fit(c),
         task' \in Table, task'[s] = r, task'[current] = c,
         \A t \in live \ {current} : task'[t] = tk[t],
         live' = live \cup {s}, next' = Inserted(s), zombie' = zs, current' = current,
         picBusy' \in BOOLEAN, nextTid' \in 0..MaxTid
  PROVE  TaskInv'
<1> USE DEF zombies
<1>0. /\ TypeOK /\ RingIntact /\ NoMerge
      /\ current \in live /\ live \subseteq Slots /\ next \in [Slots -> Slots]
  BY DEF TaskInv, Base, TypeOK
<1>1. /\ next'[s] = next[current]
      /\ next'[current] = s
      /\ \A t \in live \ {current} : next'[t] = next[t]
      /\ next' \in [Slots -> Slots]
  BY <1>0 DEF Inserted
<1>2. NoMerge'
  BY <1>0, <1>1 DEF NoMerge, RingIntact
<1>3. RingIntact'
  <2>1. \A t \in live \cup {s} : next'[t] \in live \cup {s}
    BY <1>0, <1>1 DEF RingIntact
  <2>2. ASSUME NEW ring \in SUBSET (live \cup {s}), ring # {},
               \A t \in ring : next'[t] \in ring
        PROVE  ring = live \cup {s}
    <3> DEFINE old == ring \ {s}
    <3>1. next[current] \in live
      BY <1>0 DEF RingIntact
    <3>2. \E t \in ring : t # s
      BY <1>1, <2>2, <3>1
    <3>3. ASSUME NEW t \in old PROVE next[t] \in old
      <4>1. t \in live
        OBVIOUS
      <4>2. next[t] \in live
        BY <1>0, <4>1 DEF RingIntact
      <4>3. CASE t = current
        BY <1>1, <2>2, <4>2, <4>3
      <4>4. CASE t # current
        BY <1>1, <2>2, <4>1, <4>2, <4>4
      <4> QED
        BY <4>3, <4>4
    <3>4. old \in SUBSET live /\ old # {}
      BY <3>2
    <3>5. old = live
      BY <1>0, <3>3, <3>4 DEF RingIntact
    <3>6. s \in ring
      BY <1>0, <1>1, <2>2, <3>5
    <3> QED
      BY <3>5, <3>6
  <2> QED
    BY <2>1, <2>2 DEF RingIntact
<1>4. Base'
  <2>1. TypeOK'
    BY <1>0, <1>1 DEF TypeOK, Table
  <2> QED
    BY <1>2, <1>3, <2>1 DEF Base, Stacked
<1> DEFINE lv == live \cup {s}
<1>5. \A t \in live : task'[t].pid = tk[t].pid /\ task'[t].parent = tk[t].parent
  OBVIOUS
<1>6. Kinship(lv, task')
  <2>1. \A t \in live : tk[t].parent \in live \cup {NoTask}
    BY DEF Good, Kinship
  <2>2. \A S \in SUBSET live : S # {} => \E m \in S : \A t \in S : tk[t].parent # m
    BY DEF Good, Kinship
  <2>3. \A t \in lv : task'[t].parent \in lv \cup {NoTask}
    BY <1>0, <1>5, <2>1
  <2>4. ASSUME NEW S \in SUBSET lv, S # {}
        PROVE  \E m \in S : \A t \in S : task'[t].parent # m
    <3>1. CASE s \in S
      <4>1. s # NoTask
        BY TaskAssumption
      <4>2. \A t \in lv : task'[t].parent # s
        BY <1>0, <1>5, <2>1, <4>1
      <4> QED
        BY <3>1, <4>2
    <3>2. CASE s \notin S
      <4>1. S \in SUBSET live
        BY <3>2
      <4> QED
        BY <1>5, <2>2, <2>4, <4>1
    <3> QED
      BY <3>1, <3>2
  <2> QED
    BY <2>3, <2>4 DEF Kinship
<1>7. Runner(lv, current, task')
  <2>1. Runner(live, current, tk)
    BY DEF Good
  <2> QED
    BY <2>1 DEF Runner
<1>8. \A t \in lv : Fit(task'[t])
  <2>1. \A t \in live : Fit(tk[t])
    BY DEF Good
  <2> QED
    BY <2>1
<1>9. ASSUME NEW p \in lv, task'[p].state = "BLOCKED_WAIT"
      PROVE  HasChild(lv, task', p) \/ HasCorpse(zs, task', p)
  <2>1. p \in live /\ p # current /\ task'[p] = tk[p]
    BY <1>9
  <2>2. HasChild(live, tk, p) \/ HasCorpse(zs, tk, p)
    BY <1>9, <2>1 DEF Good
  <2> QED
    BY <1>5, <2>1, <2>2 DEF HasChild, HasCorpse
<1>10. Good(lv, current, task', zs)
  BY <1>6, <1>7, <1>8, <1>9 DEF Good
<1> QED
  BY <1>0, <1>4, <1>10 DEF TaskInv, self

\* A step that changes nothing but fields of the current task keeps the
\* invariant.
LEMMA QuietInv ==
  ASSUME TaskInv, task' \in Table,
         \A t \in live \ {current} : task'[t] = task[t],
         task'[current].pid = self.pid, task'[current].parent = self.parent,
         task'[current].state = self.state, Fit(task'[current]),
         UNCHANGED <<live, next, zombie, current>>,
         picBusy' \in BOOLEAN, nextTid' \in 0..MaxTid
  PROVE  TaskInv'
<1>1. Base'
  BY DEF TaskInv, Base, TypeOK, Table, RingIntact, NoMerge, Stacked, zombies
<1>2. Good(live, current, task', zombie)
  BY EditGood DEF TaskInv, Base, TypeOK, self
<1> QED
  BY <1>1, <1>2 DEF TaskInv, self

\* task_exit keeps the invariant.
LEMMA QuitInv ==
  ASSUME TaskInv, NEW tk, NEW zs, Good(live, current, tk, zs), Stacked(zs),
         DOMAIN zs \subseteq zombies, zs \in [DOMAIN zs -> ZombieRec],
         tk[current].state = "RUNNING", tk[current].pc # "waited",
         NEW v \in Status, Quit(tk, zs, v), picBusy' \in BOOLEAN, nextTid' \in 0..MaxTid
  PROVE  TaskInv'
<1>1. v \in Int /\ tk \in Table /\ Base
  BY TaskAssumption DEF Good, TaskInv
<1>2. Base'
  <2>1. current \in live
    BY DEF TaskInv, Base, TypeOK
  <2>2. tk[current].parent # NoTask => tk[current].pid >= 0
    BY <2>1 DEF Good, Fit
  <2> QED
    BY <1>1, <2>2, QuitBase
<1>3. /\ Good(live', current', task', zombie')
      /\ task'[current'].state = "RUNNING"
  BY <1>1, QuitGood
<1> QED
  BY <1>2, <1>3 DEF TaskInv, self

\* FreedOK for the next state.
LEMMA FreedNext ==
  ASSUME TypeOK, Stacked(zombie), NEW gone, zombie' = Freed(gone)
  PROVE  /\ zombie' \in [zombies \ gone -> ZombieRec]
         /\ zombies' = zombies \ gone
         /\ Stacked(zombie)'
<1>1. /\ Freed(gone) \in [zombies \ gone -> ZombieRec]
      /\ DOMAIN Freed(gone) = zombies \ gone
      /\ Stacked(Freed(gone))
  BY FreedOK
<1>2. zombies' = zombies \ gone
  BY <1>1 DEF zombies
<1> DEFINE zs == Freed(gone)
<1> HIDE DEF zs
<1>3. Stacked(zs) /\ zombie' = zs
  BY <1>1 DEF zs
<1>4. Stacked(zombie)'
  BY <1>3 DEF Stacked
<1> QED
  BY <1>1, <1>2, <1>4

\* A pass of cleanup_zombies that does not switch tasks keeps the invariant.
LEMMA PassInv ==
  ASSUME TaskInv, NEW tk, Good(live, current, tk, zombie), tk[current].state = "RUNNING",
         NEW gone, zombie' = Freed(gone), task' = Swept(tk),
         UNCHANGED <<live, next, current>>,
         picBusy' \in BOOLEAN, nextTid' \in 0..MaxTid
  PROVE  TaskInv'
<1>0. TypeOK /\ Stacked(zombie) /\ tk \in Table /\ current \in Slots
  BY DEF TaskInv, Base, TypeOK, Good
<1>1. /\ zombie' \in [zombies \ gone -> ZombieRec]
      /\ zombies' = zombies \ gone
      /\ Stacked(zombie)'
  BY <1>0, FreedNext
<1>2. Good(live, current, task', zombie') /\ task' \in Table
  BY <1>0, SweepGood DEF Good
<1>3. Base'
  BY <1>0, <1>1, <1>2 DEF TaskInv, Base, TypeOK, Table, RingIntact, NoMerge
<1>4. task'[current].state = "RUNNING"
  BY <1>0, SweptFields DEF Woken
<1> QED
  BY <1>2, <1>3, <1>4 DEF TaskInv, self

\* A pass of cleanup_zombies and a switch keep the invariant.
LEMMA YieldInv ==
  ASSUME TaskInv, NEW tk, Good(live, current, tk, zombie),
         NEW gone, zombie' = Freed(gone), Resched(Swept(tk)),
         UNCHANGED <<live, next>>,
         picBusy' \in BOOLEAN, nextTid' \in 0..MaxTid
  PROVE  TaskInv'
<1>0. TypeOK /\ Stacked(zombie) /\ tk \in Table
  BY DEF TaskInv, Base, TypeOK, Good
<1>1. /\ zombie' \in [zombies \ gone -> ZombieRec]
      /\ zombies' = zombies \ gone
      /\ Stacked(zombie)'
  BY <1>0, FreedNext
<1>2. /\ Good(live, current, Swept(tk), zombie')
      /\ \A p \in live : Swept(tk)[p].state = "BLOCKED_WAIT" => HasChild(live, Swept(tk), p)
  BY <1>0, SweepGood
<1>3. /\ current' \in live
      /\ Good(live, current', task', zombie')
      /\ task'[current'].state = "RUNNING"
  BY <1>0, <1>2, ReschedGood
<1>4. Base'
  BY <1>0, <1>1, <1>3 DEF TaskInv, Base, TypeOK, Table, RingIntact, NoMerge, Good
<1> QED
  BY <1>3, <1>4 DEF TaskInv, self

\* What the invariant says of the current task and the types.
LEMMA Here ==
  ASSUME TaskInv
  PROVE  /\ TypeOK /\ Stacked(zombie)
         /\ task \in Table /\ current \in live /\ current \in Slots /\ live \subseteq Slots
         /\ self \in TaskRec /\ Fit(self) /\ self.state = "RUNNING"
         /\ Good(live, current, task, zombie)
         /\ zombie \in [DOMAIN zombie -> ZombieRec]
         /\ picBusy \in BOOLEAN /\ nextTid \in 0..MaxTid /\ nextTid \in Nat
BY TaskAssumption DEF TaskInv, Base, TypeOK, Good, Table, self, zombies

-----------------------------------------------------------------------------
(* Steps: the actions of Next                                               *)

\* The end of irq_handler.
LEMMA IrqReturnInv == TaskInv /\ IrqReturn => TaskInv'
<1> SUFFICES ASSUME TaskInv, IrqReturn PROVE TaskInv'
  OBVIOUS
<1> USE Here
<1> DEFINE tk == [task EXCEPT ![current].inIrq = FALSE]
<1>1. /\ tk \in Table
      /\ \A t \in live \ {current} : tk[t] = task[t]
      /\ tk[current].pid = self.pid /\ tk[current].parent = self.parent
      /\ tk[current].state = self.state /\ tk[current].pc = self.pc /\ Fit(tk[current])
  BY DEF Table, TaskRec, self, Fit
<1>2. picBusy' \in BOOLEAN /\ nextTid' \in 0..MaxTid
  BY DEF IrqReturn
<1>3. CASE task' = tk /\ UNCHANGED <<live, next, zombie, current>>
  BY <1>1, <1>2, <1>3, QuietInv
<1>4. CASE self.pc = "user" /\ Killed(tk, zombie)
  <2>1. Good(live, current, tk, zombie)
    BY <1>1, EditGood DEF self
  <2>2. PICK v \in Status : Quit(tk, zombie, v)
    BY <1>4 DEF Killed
  <2> QED
    BY <1>1, <1>2, <1>4, <2>1, <2>2, QuitInv DEF zombies
<1> QED
  BY <1>3, <1>4 DEF IrqReturn

\* The task r may move to w.
CanGoto(r, w) ==
  /\ w \in Control \ {"halted"}
  /\ r.priv = 3 => w \notin {"launch", "leave"}
  /\ r.priv = 0 => w \notin {"user", "ret", "check"}
  /\ r.preempt = IF r.priv = 3 /\ w \in {"kernel", "wait", "waited", "ret", "hung"}
                 THEN 1 ELSE 0
  /\ \A x \in r.due : x.pid = 0

\* A task that moves to where it may be stays fit.
LEMMA GotoFit ==
  ASSUME NEW r \in TaskRec, Fit(r), r.state = "RUNNING", NEW w, CanGoto(r, w),
         NEW q, q = [r EXCEPT !.pc = w]
  PROVE  /\ q \in TaskRec /\ Fit(q)
         /\ q.pid = r.pid /\ q.parent = r.parent /\ q.state = r.state
<1>1. q \in TaskRec
  BY DEF TaskRec, CanGoto
<1>2. /\ q.pid = r.pid /\ q.parent = r.parent /\ q.state = r.state /\ q.priv = r.priv
      /\ q.due = r.due /\ q.pc = w /\ q.preempt = r.preempt
  BY DEF TaskRec
<1>3. Fit(q)
  BY <1>2 DEF Fit, CanGoto
<1> QED
  BY <1>1, <1>2, <1>3

\* A step that only moves the current task keeps the invariant.
LEMMA GotoInv ==
  ASSUME TaskInv, NEW w, CanGoto(self, w), Goto(w),
         UNCHANGED <<live, next, zombie, current>>,
         picBusy' \in BOOLEAN, nextTid' \in 0..MaxTid
  PROVE  TaskInv'
<1> USE Here
<1>1. task'[current] = [self EXCEPT !.pc = w]
  BY DEF Goto, Table, self
<1>2. \A t \in live \ {current} : task'[t] = task[t]
  BY DEF Goto, Table
<1>3. /\ task'[current] \in TaskRec /\ Fit(task'[current])
      /\ task'[current].pid = self.pid /\ task'[current].parent = self.parent
      /\ task'[current].state = self.state
  BY <1>1, GotoFit
<1>4. task' \in Table
  BY <1>3 DEF Goto, Table
<1> QED
  BY <1>2, <1>3, <1>4, QuietInv

\* Outside waitpid no report is due but the lost ones of pid 0.
LEMMA NothingDue ==
  ASSUME NEW r, Fit(r), r.pc # "waited"
  PROVE  \A x \in r.due : x.pid = 0
BY DEF Fit

\* A task runs in ring 0 or ring 3.
LEMMA PrivOK == ASSUME NEW r \in TaskRec PROVE r.priv \in {0, 3}
BY DEF TaskRec

\* Calls that leave the process table alone.
LEMMA OtherCallInv == TaskInv /\ OtherCall => TaskInv'
<1> SUFFICES ASSUME TaskInv, OtherCall PROVE TaskInv'
  OBVIOUS
<1> USE Here
<1>1. self.pc = "kernel" /\ self.priv = 3
  BY DEF OtherCall, InCall, Executes, UserTask
<1>2. CanGoto(self, "ret")
  BY <1>1, NothingDue DEF CanGoto, Control, Fit
<1> QED
  BY <1>2, GotoInv DEF OtherCall

\* set_next_tid(0).
LEMMA RestartTidsInv == TaskInv /\ RestartTids => TaskInv'
<1> SUFFICES ASSUME TaskInv, RestartTids PROVE TaskInv'
  OBVIOUS
<1> USE Here
<1>1. self.pc = "kernel" /\ self.priv = 0
  BY DEF RestartTids, Executes, KernelMain, Fit
<1>2. CanGoto(self, "launch")
  BY <1>1, NothingDue DEF CanGoto, Control, Fit
<1>3. nextTid' \in 0..MaxTid
  BY TaskAssumption DEF RestartTids
<1> QED
  BY <1>2, <1>3, GotoInv DEF RestartTids

\* task_exit from the table as it is.
LEMMA QuitNow ==
  ASSUME TaskInv, NEW v \in Status, Quit(task, zombie, v), self.pc # "waited",
         picBusy' \in BOOLEAN, nextTid' \in 0..MaxTid
  PROVE  TaskInv'
BY Here, QuitInv DEF self, zombies

\* check_signals at the end of a system call.
LEMMA SyscallCheckInv == TaskInv /\ SyscallCheck => TaskInv'
<1> SUFFICES ASSUME TaskInv, SyscallCheck PROVE TaskInv'
  OBVIOUS
<1> USE Here
<1>1. self.pc = "check" /\ self.priv = 3
  <2>1. self.pc = "check"
    BY DEF SyscallCheck, Executes
  <2> QED
    BY <2>1, PrivOK DEF Fit
<1>2. picBusy' \in BOOLEAN /\ nextTid' \in 0..MaxTid
  BY DEF SyscallCheck
<1>3. CASE Killed(task, zombie)
  BY <1>1, <1>2, <1>3, QuitNow DEF Killed
<1>4. CASE Goto("user") /\ UNCHANGED <<live, next, zombie, current>>
  <2>1. CanGoto(self, "user")
    BY <1>1, NothingDue DEF CanGoto, Control, Fit
  <2> QED
    BY <1>2, <1>4, <2>1, GotoInv
<1> QED
  BY <1>3, <1>4 DEF SyscallCheck

\* The ends of tasks that go straight to task_exit.
LEMMA EndsInv ==
  TaskInv /\ (DeviceIrq \/ Exit \/ UserFault \/ MainExit) => TaskInv'
<1> SUFFICES ASSUME TaskInv, DeviceIrq \/ Exit \/ UserFault \/ MainExit PROVE TaskInv'
  OBVIOUS
<1> USE Here
<1>1. picBusy' \in BOOLEAN /\ nextTid' \in 0..MaxTid
  BY DEF DeviceIrq, Exit, UserFault, MainExit
<1>2. self.pc # "waited"
  BY DEF DeviceIrq, Exit, UserFault, MainExit, InCall, InKernelTask, Executes
<1>3. \E v \in Status : Quit(task, zombie, v)
  BY DEF DeviceIrq, Exit, UserFault, MainExit, Killed
<1> QED
  BY <1>1, <1>2, <1>3, QuitNow

\* An exception in kernel code.
LEMMA KernelFaultInv == TaskInv /\ KernelFault => TaskInv'
<1> SUFFICES ASSUME TaskInv, KernelFault PROVE TaskInv'
  OBVIOUS
<1> USE Here
<1>1. self.pc = "kernel" /\ picBusy' \in BOOLEAN /\ nextTid' \in 0..MaxTid
  BY DEF KernelFault, Executes
<1>2. CASE \E v \in Status : Quit(task, zombie, v)
  BY <1>1, <1>2, QuitNow
<1>3. CASE Goto("hung") /\ UNCHANGED <<live, next, zombie, current>>
  <2>1. CanGoto(self, "hung")
    BY <1>1, NothingDue DEF CanGoto, Control, Fit
  <2> QED
    BY <1>1, <1>3, <2>1, GotoInv
<1> QED
  BY <1>2, <1>3 DEF KernelFault

\* Entry to syscall_handler.
LEMMA SyscallEnterInv == TaskInv /\ SyscallEnter => TaskInv'
<1> SUFFICES ASSUME TaskInv, SyscallEnter PROVE TaskInv'
  OBVIOUS
<1> USE Here
<1>1. task'[current] = [self EXCEPT !.pc = "kernel", !.preempt = self.preempt + 1]
  BY DEF SyscallEnter, Table, self
<1>2. \A t \in live \ {current} : task'[t] = task[t]
  BY DEF SyscallEnter, Table
<1>3. /\ task'[current] \in TaskRec
      /\ task'[current].pid = self.pid /\ task'[current].parent = self.parent
      /\ task'[current].state = self.state
      /\ Fit(task'[current])
  <2>1. self \in TaskRec /\ Fit(self) /\ self.pc = "user" /\ self.state = "RUNNING"
    BY DEF SyscallEnter, Executes
  <2>2. self.priv = 3 /\ self.preempt = 0
    BY <2>1, PrivOK DEF Fit
  <2>3. task'[current] = [self EXCEPT !.pc = "kernel", !.preempt = 1]
    BY <1>1, <2>2
  <2>4. ASSUME NEW r \in TaskRec, Fit(r), r.pc = "user", r.state = "RUNNING", r.priv = 3,
               NEW q, q = [r EXCEPT !.pc = "kernel", !.preempt = 1]
        PROVE  /\ q \in TaskRec /\ Fit(q)
               /\ q.pid = r.pid /\ q.parent = r.parent /\ q.state = r.state
    <3>1. q \in TaskRec
      BY <2>4 DEF TaskRec, Control
    <3>2. /\ q.pid = r.pid /\ q.parent = r.parent /\ q.state = r.state /\ q.priv = r.priv
          /\ q.due = r.due /\ q.pc = "kernel" /\ q.preempt = 1
      BY <2>4 DEF TaskRec
    <3> QED
      BY <2>4, <3>1, <3>2 DEF Fit
  <2> QED
    BY <2>1, <2>2, <2>3, <2>4
<1>4. task' \in Table
  BY <1>3 DEF SyscallEnter, Table
<1> QED
  BY <1>2, <1>3, <1>4, QuietInv DEF SyscallEnter, self

\* task_preempt_enable at the end of syscall_handler.
LEMMA SyscallReturnInv == TaskInv /\ SyscallReturn => TaskInv'
<1> SUFFICES ASSUME TaskInv, SyscallReturn PROVE TaskInv'
  OBVIOUS
<1> USE Here
<1>1. self.pc = "ret" /\ self.priv = 3 /\ self.preempt = 1
  <2>1. self.pc = "ret"
    BY DEF SyscallReturn, Executes
  <2> QED
    BY <2>1, PrivOK DEF Fit
<1>2. task'[current] = [self EXCEPT !.pc = "check", !.preempt = 0]
  BY <1>1 DEF SyscallReturn, Table, self
<1>3. \A t \in live \ {current} : task'[t] = task[t]
  BY DEF SyscallReturn, Table
<1>4. /\ task'[current] \in TaskRec
      /\ task'[current].pid = self.pid /\ task'[current].parent = self.parent
      /\ task'[current].state = self.state
      /\ Fit(task'[current])
  <2>1. ASSUME NEW r \in TaskRec, Fit(r), r.pc = "ret", r.state = "RUNNING", r.priv = 3,
               NEW q, q = [r EXCEPT !.pc = "check", !.preempt = 0]
        PROVE  /\ q \in TaskRec /\ Fit(q)
               /\ q.pid = r.pid /\ q.parent = r.parent /\ q.state = r.state
    <3>1. q \in TaskRec
      BY <2>1 DEF TaskRec, Control
    <3>2. /\ q.pid = r.pid /\ q.parent = r.parent /\ q.state = r.state /\ q.priv = r.priv
          /\ q.due = r.due /\ q.pc = "check" /\ q.preempt = 0
      BY <2>1 DEF TaskRec
    <3> QED
      BY <2>1, <3>1, <3>2 DEF Fit
  <2> QED
    BY <1>1, <1>2, <2>1
<1>5. task' \in Table
  BY <1>4 DEF SyscallReturn, Table
<1> QED
  BY <1>3, <1>4, <1>5, QuietInv DEF SyscallReturn

\* sys_sigaction.
LEMMA SysSigactionInv == TaskInv /\ SysSigaction => TaskInv'
<1> SUFFICES ASSUME TaskInv, SysSigaction PROVE TaskInv'
  OBVIOUS
<1> USE Here
<1>1. self.pc = "kernel" /\ self.priv = 3
  BY DEF SysSigaction, InCall, Executes, UserTask
<1>2. PICK b \in BOOLEAN : task' = [task EXCEPT ![current].sigign = b, ![current].pc = "ret"]
  BY DEF SysSigaction
<1>3. task'[current] = [self EXCEPT !.sigign = b, !.pc = "ret"]
  BY <1>2 DEF Table, self
<1>4. \A t \in live \ {current} : task'[t] = task[t]
  BY <1>2 DEF Table
<1>5. /\ task'[current] \in TaskRec
      /\ task'[current].pid = self.pid /\ task'[current].parent = self.parent
      /\ task'[current].state = self.state
      /\ Fit(task'[current])
  <2>1. ASSUME NEW r \in TaskRec, Fit(r), r.pc = "kernel", r.state = "RUNNING", r.priv = 3,
               NEW q, q = [r EXCEPT !.sigign = b, !.pc = "ret"]
        PROVE  /\ q \in TaskRec /\ Fit(q)
               /\ q.pid = r.pid /\ q.parent = r.parent /\ q.state = r.state
    <3>1. q \in TaskRec
      BY <2>1 DEF TaskRec, Control
    <3>2. /\ q.pid = r.pid /\ q.parent = r.parent /\ q.state = r.state /\ q.priv = r.priv
          /\ q.due = r.due /\ q.pc = "ret" /\ q.preempt = r.preempt
      BY <2>1 DEF TaskRec
    <3> QED
      BY <2>1, <3>1, <3>2 DEF Fit
  <2> QED
    BY <1>1, <1>3, <2>1
<1>6. task' \in Table
  BY <1>2, <1>5 DEF Table
<1> QED
  BY <1>4, <1>5, <1>6, QuietInv DEF SysSigaction

\* sys_kill.
LEMMA SysKillInv == TaskInv /\ SysKill => TaskInv'
<1> SUFFICES ASSUME TaskInv, SysKill PROVE TaskInv'
  OBVIOUS
<1> USE Here
<1>1. PICK k \in live :
        task' = [task EXCEPT ![k].doomed = @ \/ task[k].priv = 3, ![current].pc = "ret"]
  BY DEF SysKill
<1> DEFINE w == [task EXCEPT ![k].doomed = @ \/ task[k].priv = 3]
<1>2. /\ w \in Table
      /\ \A t \in live : /\ w[t].pid = task[t].pid /\ w[t].parent = task[t].parent
                         /\ w[t].state = task[t].state /\ w[t].pc = task[t].pc
                         /\ w[t].priv = task[t].priv /\ w[t].preempt = task[t].preempt
                         /\ w[t].due = task[t].due /\ w[t].waitRet = task[t].waitRet
                         /\ w[t].waitPid = task[t].waitPid
                         /\ w[t].waitStatus = task[t].waitStatus
  BY DEF Table, TaskRec
<1>3. task' = [w EXCEPT ![current].pc = "ret"]
  BY <1>1
<1> HIDE DEF w
<1>4. \A t \in live : Fit(w[t])
  BY <1>2 DEF Good, Fit
<1>5. Good(live, current, w, zombie)
  <2>1. Kinship(live, w)
    BY <1>2 DEF Good, Kinship
  <2>2. Runner(live, current, w)
    BY <1>2 DEF Good, Runner
  <2>3. \A p \in live : w[p].state = "BLOCKED_WAIT" => HasChild(live, w, p) \/ HasCorpse(zombie, w, p)
    BY <1>2 DEF Good, HasChild, HasCorpse
  <2> QED
    BY <1>2, <1>4, <2>1, <2>2, <2>3 DEF Good
<1>6. w[current] \in TaskRec /\ CanGoto(w[current], "ret") /\ w[current].state = "RUNNING"
  <2>1. self.pc = "kernel" /\ self.priv = 3
    BY DEF SysKill, InCall, Executes, UserTask
  <2>2. \A x \in self.due : x.pid = 0
    BY <2>1, NothingDue
  <2> QED
    BY <1>2, <2>1, <2>2 DEF CanGoto, Control, Fit, self, Table
<1>7. task'[current] = [w[current] EXCEPT !.pc = "ret"]
  BY <1>2, <1>3 DEF Table
<1>8. /\ task'[current] \in TaskRec /\ Fit(task'[current])
      /\ task'[current].pid = w[current].pid /\ task'[current].parent = w[current].parent
      /\ task'[current].state = w[current].state
  BY <1>4, <1>6, <1>7, GotoFit
<1>9. task' \in Table
  BY <1>2, <1>3, <1>8 DEF Table
<1>10. \A t \in live \ {current} : task'[t] = w[t]
  BY <1>2, <1>3 DEF Table
<1>11. Good(live, current, task', zombie)
  BY <1>5, <1>6, <1>8, <1>9, <1>10, EditGood
<1>12. UNCHANGED <<live, next, zombie, current, picBusy, nextTid>>
  BY DEF SysKill
<1>13. Base'
  BY <1>9, <1>12 DEF TaskInv, Base, TypeOK, Table, RingIntact, NoMerge, Stacked, zombies
<1> QED
  BY <1>6, <1>8, <1>11, <1>12, <1>13 DEF TaskInv, self

\* Setting the wait fields keeps the type of a task.
LEMMA WaitFieldsType ==
  ASSUME NEW r \in TaskRec, NEW a \in Int, NEW b \in Int, NEW c \in Int
  PROVE  [r EXCEPT !.waitPid = a, !.waitRet = b, !.waitStatus = c] \in TaskRec
BY DEF TaskRec

\* Blocking keeps the type of a task.
LEMMA BlockedType ==
  ASSUME NEW r \in TaskRec, NEW a \in Int, NEW b \in Int, NEW w \in Control
  PROVE  [r EXCEPT !.state = "BLOCKED_WAIT", !.pc = w, !.waitPid = a, !.waitRet = b] \in TaskRec
BY DEF TaskRec

\* Clearing the wait fields changes no other field.
LEMMA ForgetFields ==
  ASSUME NEW r \in TaskRec
  PROVE  /\ ForgetWait(r) \in TaskRec
         /\ ForgetWait(r).pid = r.pid /\ ForgetWait(r).parent = r.parent
         /\ ForgetWait(r).state = r.state /\ ForgetWait(r).priv = r.priv
         /\ ForgetWait(r).preempt = r.preempt /\ ForgetWait(r).due = r.due
<1>1. 0 \in Int
  OBVIOUS
<1>2. ForgetWait(r) \in TaskRec
  BY <1>1, WaitFieldsType DEF ForgetWait
<1>3. /\ ForgetWait(r).pid = r.pid /\ ForgetWait(r).parent = r.parent
      /\ ForgetWait(r).state = r.state /\ ForgetWait(r).priv = r.priv
      /\ ForgetWait(r).preempt = r.preempt /\ ForgetWait(r).due = r.due
  BY DEF TaskRec, ForgetWait
<1> QED
  BY <1>2, <1>3

\* The task r back from task_waitpid at w, with d due.
Returned(r, w, d) == [ForgetWait(r) EXCEPT !.pc = w, !.due = d]

\* A task whose task_waitpid returns stays fit.
LEMMA DoneFit ==
  ASSUME NEW r \in TaskRec, Fit(r), r.state = "RUNNING", NEW w,
         w \in Control \ {"halted"},
         r.priv = 3 => w \notin {"launch", "leave"},
         r.priv = 0 => w \notin {"user", "ret", "check"},
         r.preempt = IF r.priv = 3 /\ w \in {"kernel", "wait", "waited", "ret", "hung"}
                     THEN 1 ELSE 0,
         NEW d \in SUBSET r.due, \A x \in d : x.pid = 0,
         NEW q, q = Returned(r, w, d)
  PROVE  /\ q \in TaskRec /\ Fit(q)
         /\ q.pid = r.pid /\ q.parent = r.parent /\ q.state = r.state
<1> DEFINE f == ForgetWait(r)
<1>1. /\ f \in TaskRec
      /\ f.pid = r.pid /\ f.parent = r.parent /\ f.state = r.state /\ f.priv = r.priv
      /\ f.preempt = r.preempt /\ f.due = r.due
  BY ForgetFields
<1> HIDE DEF f
<1>2. q = [f EXCEPT !.pc = w, !.due = d]
  BY DEF f, Returned
<1>3. d \in SUBSET Report
  BY DEF TaskRec
<1>4. q \in TaskRec
  BY <1>1, <1>2, <1>3 DEF TaskRec
<1>5. /\ q.pid = r.pid /\ q.parent = r.parent /\ q.state = r.state /\ q.priv = r.priv
      /\ q.due = d /\ q.pc = w /\ q.preempt = r.preempt
  BY <1>1, <1>2 DEF TaskRec
<1>6. Fit(q)
  BY <1>5 DEF Fit
<1> QED
  BY <1>4, <1>5, <1>6

\* The task r blocked in task_waitpid for a.
Blocked(r, a) ==
  [r EXCEPT !.state = "BLOCKED_WAIT", !.pc = "waited", !.waitPid = a, !.waitRet = 0]

\* A task that blocks in task_waitpid stays fit.
LEMMA BlockFit ==
  ASSUME NEW r \in TaskRec, Fit(r), NEW arg \in Int,
         \A x \in r.due : x.pid = 0,
         r.priv \in {0, 3},
         r.preempt = IF r.priv = 3 THEN 1 ELSE 0,
         NEW q, q = Blocked(r, arg)
  PROVE  /\ q \in TaskRec /\ Fit(q)
         /\ q.pid = r.pid /\ q.parent = r.parent
         /\ q.state = "BLOCKED_WAIT" /\ q.waitPid = arg
<1>0. 0 \in Int /\ "waited" \in Control
  BY DEF Control
<1>1. q \in TaskRec
  BY <1>0, BlockedType DEF Blocked
<1>2. /\ q.pid = r.pid /\ q.parent = r.parent /\ q.state = "BLOCKED_WAIT" /\ q.priv = r.priv
      /\ q.due = r.due /\ q.pc = "waited" /\ q.preempt = r.preempt
      /\ q.waitPid = arg /\ q.waitRet = 0
  BY DEF TaskRec, Blocked
<1>3. Fit(q)
  BY <1>2 DEF Fit
<1> QED
  BY <1>1, <1>2, <1>3

\* One turn of the loop of task_waitpid.
LEMMA WaitLoopInv ==
  ASSUME TaskInv, NEW arg \in Int, self.pc \in {"kernel", "wait"}, WaitLoop(arg)
  PROVE  TaskInv'
<1> USE Here
<1>0. /\ \A x \in self.due : x.pid = 0
      /\ self.priv \in {0, 3}
      /\ self.preempt = IF self.priv = 3 THEN 1 ELSE 0
  BY NothingDue, PrivOK DEF Fit
<1>1. CASE /\ task' = [task EXCEPT ![current] = [ForgetWait(self) EXCEPT !.pc = Done]]
           /\ UNCHANGED <<live, next, zombie, current, picBusy, nextTid>>
  <2>2. CanGoto(self, Done)
    BY <1>0 DEF CanGoto, Done, UserTask, Control
  <2>3. task'[current] = [ForgetWait(self) EXCEPT !.pc = Done]
    BY <1>1 DEF Table
  <2>4. /\ task'[current] \in TaskRec /\ Fit(task'[current])
        /\ task'[current].pid = self.pid /\ task'[current].parent = self.parent
        /\ task'[current].state = self.state
    <3>1. task'[current] = Returned(self, Done, self.due)
      BY <2>3 DEF ForgetWait, TaskRec, Returned
    <3>2. self \in TaskRec /\ Fit(self) /\ self.state = "RUNNING"
      OBVIOUS
    <3>3. self.due \in SUBSET self.due
      OBVIOUS
    <3> HIDE Here
    <3> QED
      BY <1>0, <2>2, <3>1, <3>2, <3>3, DoneFit DEF CanGoto
  <2>5. task' \in Table /\ \A t \in live \ {current} : task'[t] = task[t]
    BY <1>1, <2>3, <2>4 DEF Table
  <2> QED
    BY <1>1, <2>4, <2>5, QuietInv
<1> DEFINE tk == [task EXCEPT ![current].state = "BLOCKED_WAIT", ![current].pc = "waited",
                              ![current].waitPid = arg, ![current].waitRet = 0]
<1>2. CASE /\ HasChildren(arg)
           /\ Yield(tk)
           /\ UNCHANGED <<live, next, picBusy, nextTid>>
  <2>1. tk[current] = Blocked(self, arg)
    BY DEF Table, self, Blocked
  <2>2. \A t \in live \ {current} : tk[t] = task[t]
    BY DEF Table
  <2>3. tk = [task EXCEPT ![current] = tk[current]]
    BY DEF Table
  <2> HIDE DEF tk
  <2>4. /\ tk[current] \in TaskRec /\ Fit(tk[current])
        /\ tk[current].pid = self.pid /\ tk[current].parent = self.parent
        /\ tk[current].state = "BLOCKED_WAIT" /\ tk[current].waitPid = arg
    BY <1>0, <2>1, BlockFit
  <2>5. tk \in Table
    BY <2>3, <2>4 DEF Table
  <2>6. HasChild(live, tk, current) \/ HasCorpse(zombie, tk, current)
    <3>1. \A t \in live : tk[t].parent = task[t].parent /\ tk[t].pid = task[t].pid
      BY <2>2, <2>4 DEF self
    <3> QED
      BY <1>2, <2>4, <3>1 DEF HasChildren, HasChild, HasCorpse, zombies
  <2>7. Good(live, current, tk, zombie)
    BY <2>2, <2>4, <2>5, <2>6, EditGood DEF self
  <2>8. PICK junk \in SUBSET Dangling : zombie' = Freed(Reaped(tk, junk))
    BY <1>2 DEF Yield
  <2> QED
    BY <1>2, <2>7, <2>8, YieldInv DEF Yield
<1> QED
  BY <1>1, <1>2 DEF WaitLoop

\* The entry to task_waitpid and the later turns of its loop.
LEMMA WaitsInv == TaskInv /\ (SysWaitpid \/ WaitAgain) => TaskInv'
<1> SUFFICES ASSUME TaskInv, SysWaitpid \/ WaitAgain PROVE TaskInv'
  OBVIOUS
<1> USE Here
<1>1. CASE SysWaitpid
  <2>1. PICK arg \in {AnyChild} \cup 0..(MaxTid - 1) : WaitLoop(arg)
    BY <1>1 DEF SysWaitpid
  <2>2. arg \in Int /\ self.pc = "kernel"
    BY <1>1, TaskAssumption DEF SysWaitpid, InCall, InKernelTask, Executes, AnyChild
  <2> QED
    BY <2>1, <2>2, WaitLoopInv
<1>2. CASE WaitAgain
  <2>1. self.waitPid \in Int /\ self.pc = "wait" /\ WaitLoop(self.waitPid)
    BY <1>2 DEF WaitAgain, Executes, TaskRec
  <2> QED
    BY <2>1, WaitLoopInv
<1> QED
  BY <1>1, <1>2

\* task_waitpid after its task_yield.
LEMMA WaitWakeInv == TaskInv /\ WaitWake => TaskInv'
<1> SUFFICES ASSUME TaskInv, WaitWake PROVE TaskInv'
  OBVIOUS
<1> USE Here
<1>0. /\ self.pc = "waited"
      /\ self.priv \in {0, 3}
      /\ self.preempt = IF self.priv = 3 THEN 1 ELSE 0
      /\ self.due \subseteq Report
      /\ self.waitRet \in Int
  BY PrivOK DEF WaitWake, Executes, Fit, TaskRec
<1> DEFINE answer == [pid |-> self.waitRet, status |-> self.waitStatus]
<1>1. CASE /\ self.waitRet > 0
           /\ task' = [task EXCEPT ![current] =
                [ForgetWait(self) EXCEPT !.pc = Done, !.due = self.due \ {answer}]]
  <2>1. \A x \in self.due \ {answer} : x.pid = 0
    <3> TAKE x \in self.due \ {answer}
    <3>1. x \in Report /\ x # answer
      BY <1>0
    <3>2. x = [pid |-> x.pid, status |-> x.status]
      BY <3>1 DEF Report
    <3>3. x.pid # 0 => x.pid = self.waitRet /\ x.status = self.waitStatus
      BY DEF Fit
    <3> QED
      BY <3>1, <3>2, <3>3
  <2> HIDE DEF answer
  <2>3. task'[current] = [ForgetWait(self) EXCEPT !.pc = Done, !.due = self.due \ {answer}]
    BY <1>1 DEF Table
  <2>4. /\ Done \in Control \ {"halted"}
        /\ self.priv = 3 => Done = "ret"
        /\ self.priv = 0 => Done = "kernel"
    BY <1>0 DEF Done, UserTask, Control
  <2>5. /\ task'[current] \in TaskRec /\ Fit(task'[current])
        /\ task'[current].pid = self.pid /\ task'[current].parent = self.parent
        /\ task'[current].state = self.state
    <3>1. /\ self.preempt = IF self.priv = 3 /\ Done \in {"kernel", "wait", "waited", "ret", "hung"}
                            THEN 1 ELSE 0
          /\ self.priv = 3 => Done \notin {"launch", "leave"}
          /\ self.priv = 0 => Done \notin {"user", "ret", "check"}
      BY <1>0, <2>4
    <3>4. task'[current] = Returned(self, Done, self.due \ {answer})
      BY <2>3 DEF Returned
    <3>2. self \in TaskRec /\ Fit(self) /\ self.state = "RUNNING"
      OBVIOUS
    <3>3. self.due \ {answer} \in SUBSET self.due
      OBVIOUS
    <3> HIDE Here
    <3> QED
      BY <2>1, <2>4, <3>1, <3>2, <3>3, <3>4, DoneFit
  <2>6. task' \in Table /\ \A t \in live \ {current} : task'[t] = task[t]
    BY <1>1, <2>3, <2>5 DEF Table
  <2> QED
    BY <2>5, <2>6, QuietInv DEF WaitWake
<1>2. CASE ~(self.waitRet > 0) /\ Goto("wait")
  <2>1. \A x \in self.due : x.pid = 0
    BY <1>0, <1>2 DEF Fit, Report
  <2>2. CanGoto(self, "wait")
    BY <1>0, <2>1 DEF CanGoto, Control
  <2> QED
    BY <1>2, <2>2, GotoInv DEF WaitWake
<1> QED
  BY <1>1, <1>2 DEF WaitWake

\* The pass of cleanup_zombies over the table as it is.
LEMMA SweptHere ==
  ASSUME TaskInv, NEW gone
  PROVE  /\ Good(live, current, Swept(task), Freed(gone))
         /\ Stacked(Freed(gone))
         /\ Freed(gone) \in [zombies \ gone -> ZombieRec]
         /\ DOMAIN Freed(gone) = zombies \ gone
         /\ Swept(task)[current] = self
<1>1. Good(live, current, Swept(task), Freed(gone))
  BY Here, SweepGood
<1>2. current \notin Woken(task)
  BY Here DEF Woken, self
<1>3. Swept(task)[current] = self
  BY <1>2, Here DEF Swept, self
<1> QED
  BY <1>1, <1>3, Here, FreedOK

\* A pass of cleanup_zombies and then a fatal signal.
LEMMA SweptQuit ==
  ASSUME TaskInv, NEW gone, NEW v \in Status, Quit(Swept(task), Freed(gone), v),
         self.pc # "waited", picBusy' \in BOOLEAN, nextTid' \in 0..MaxTid
  PROVE  TaskInv'
<1> DEFINE zs == Freed(gone)
           tk == Swept(task)
<1>1. /\ Good(live, current, tk, zs) /\ Stacked(zs)
      /\ zs \in [DOMAIN zs -> ZombieRec] /\ DOMAIN zs \subseteq zombies
      /\ tk[current] = self /\ Quit(tk, zs, v) /\ self.state = "RUNNING"
  BY SweptHere, Here
<1> HIDE DEF zs, tk
<1> QED
  BY <1>1, QuitInv

\* The scheduler's tick.
LEMMA TimerIrqInv == TaskInv /\ TimerIrq => TaskInv'
<1> SUFFICES ASSUME TaskInv, TimerIrq PROVE TaskInv'
  OBVIOUS
<1> USE Here
<1> DEFINE tk == [task EXCEPT ![current].inIrq = TRUE]
<1>1. PICK junk \in SUBSET Dangling :
        \/ /\ self.pc = "user"
           /\ Killed(Swept(task), Freed(Reaped(task, junk)))
           /\ picBusy' = TRUE
        \/ /\ IF Preemptible THEN Resched(Swept(tk))
              ELSE task' = Swept(tk) /\ UNCHANGED current
           /\ zombie' = Freed(Reaped(task, junk))
           /\ UNCHANGED <<live, next, picBusy>>
  BY DEF TimerIrq
<1> DEFINE gone == Reaped(task, junk)
<1>2. nextTid' \in 0..MaxTid /\ picBusy' \in BOOLEAN
  BY <1>1 DEF TimerIrq
<1>3. CASE self.pc = "user" /\ Killed(Swept(task), Freed(gone))
  BY <1>2, <1>3, SweptQuit DEF Killed
<1>4. CASE /\ IF Preemptible THEN Resched(Swept(tk))
              ELSE task' = Swept(tk) /\ UNCHANGED current
           /\ zombie' = Freed(gone)
           /\ UNCHANGED <<live, next>>
  <2>1. /\ tk \in Table
        /\ \A t \in live \ {current} : tk[t] = task[t]
        /\ tk[current].pid = self.pid /\ tk[current].parent = self.parent
        /\ tk[current].state = self.state /\ Fit(tk[current])
    BY DEF Table, TaskRec, self, Fit
  <2>2. Good(live, current, tk, zombie)
    BY <2>1, EditGood DEF self
  <2> HIDE DEF tk, gone
  <2>3. CASE Preemptible
    BY <1>2, <1>4, <2>2, <2>3, YieldInv
  <2>4. CASE ~Preemptible
    BY <1>2, <1>4, <2>1, <2>2, <2>4, PassInv
  <2> QED
    BY <2>3, <2>4
<1> QED
  BY <1>1, <1>3, <1>4

\* SYS_YIELD.
LEMMA SysYieldInv == TaskInv /\ SysYield => TaskInv'
<1> SUFFICES ASSUME TaskInv, SysYield PROVE TaskInv'
  OBVIOUS
<1> USE Here
<1>0. self.pc = "kernel" /\ self.priv = 3
  BY DEF SysYield, InCall, Executes, UserTask
<1>1. nextTid' \in 0..MaxTid /\ picBusy' \in BOOLEAN
  BY DEF SysYield
<1>2. ASSUME NEW junk \in SUBSET Dangling,
             Killed(Swept(task), Freed(Reaped(task, junk)))
      PROVE  TaskInv'
  BY <1>0, <1>1, <1>2, SweptQuit DEF Killed
<1> DEFINE tk == [task EXCEPT ![current].pc = "ret"]
<1>3. CASE Yield(tk) /\ UNCHANGED <<live, next>>
  <2>1. CanGoto(self, "ret")
    BY <1>0, NothingDue DEF CanGoto, Control, Fit
  <2>2. tk[current] = [self EXCEPT !.pc = "ret"]
    BY DEF Table, self
  <2>3. /\ tk[current] \in TaskRec /\ Fit(tk[current])
        /\ tk[current].pid = self.pid /\ tk[current].parent = self.parent
        /\ tk[current].state = self.state
    <3> HIDE DEF tk
    <3> QED BY <2>1, <2>2, GotoFit
  <2>4. tk \in Table /\ \A t \in live \ {current} : tk[t] = task[t]
    BY <2>3 DEF Table
  <2> HIDE DEF tk
  <2>5. Good(live, current, tk, zombie)
    BY <2>3, <2>4, EditGood DEF self
  <2>6. PICK junk \in SUBSET Dangling : zombie' = Freed(Reaped(tk, junk))
    BY <1>3 DEF Yield
  <2> QED
    BY <1>1, <1>3, <2>5, <2>6, YieldInv DEF Yield
<1> QED
  BY <1>2, <1>3 DEF SysYield

\* task_yield(NULL).
LEMMA KernelYieldInv == TaskInv /\ KernelYield => TaskInv'
<1> SUFFICES ASSUME TaskInv, KernelYield PROVE TaskInv'
  OBVIOUS
<1>1. PICK junk \in SUBSET Dangling : zombie' = Freed(Reaped(task, junk))
  BY DEF KernelYield, Yield
<1> QED
  BY <1>1, Here, YieldInv DEF KernelYield, Yield

\* task_switch_to.
LEMMA SwitchToInv == TaskInv /\ SwitchTo => TaskInv'
<1> SUFFICES ASSUME TaskInv, SwitchTo PROVE TaskInv'
  OBVIOUS
<1>1. PICK n \in live \ {current} : SwitchCpu(task, n)
  BY DEF SwitchTo
<1>2. /\ current' \in live
      /\ Good(live, current', task', zombie)
      /\ task'[current'].state = "RUNNING"
  BY <1>1, Here, SwitchGood
<1>3. UNCHANGED <<live, next, zombie, picBusy, nextTid>>
  BY DEF SwitchTo
<1>4. Base'
  BY <1>2, <1>3 DEF TaskInv, Base, TypeOK, Table, RingIntact, NoMerge, Good, Stacked, zombies
<1> QED
  BY <1>2, <1>3, <1>4 DEF TaskInv, self

\* The creation of a task.
LEMMA SpawnStep ==
  ASSUME TaskInv, NEW privilege \in {0, 3}, NEW ign \in BOOLEAN, NEW then,
         CanGoto(self, then), Spawn(privilege, ign, then)
  PROVE  TaskInv'
<1> USE Here
<1> DEFINE where == IF privilege = 3 THEN "user" ELSE "kernel"
           r == NewTask(nextTid, current, privilege, ign, where)
           tk == Swept(task)
<1>1. PICK junk \in SUBSET Dangling :
        \E s \in Slots \ (live \cup (zombies \ Reaped(task, junk))) :
        /\ live' = live \cup {s}
        /\ next' = Inserted(s)
        /\ task' = [tk EXCEPT ![s] = r, ![current].pc = then]
        /\ zombie' = Freed(Reaped(task, junk))
  BY DEF Spawn
<1>0. PICK s \in Slots \ (live \cup (zombies \ Reaped(task, junk))) :
        /\ live' = live \cup {s}
        /\ next' = Inserted(s)
        /\ task' = [tk EXCEPT ![s] = r, ![current].pc = then]
        /\ zombie' = Freed(Reaped(task, junk))
  BY <1>1
<1> DEFINE gone == Reaped(task, junk)
           zs == Freed(gone)
<1>2. /\ Good(live, current, tk, zs) /\ Stacked(zs)
      /\ zs \in [DOMAIN zs -> ZombieRec] /\ DOMAIN zs = zombies \ gone
      /\ tk[current] = self /\ tk \in Table
  BY SweptHere, SweptType
<1>3. r \in TaskRec /\ r.parent = current /\ r.state = "READY" /\ Fit(r)
  <2>1. where \in Control /\ nextTid \in Int /\ nextTid >= 0
    BY DEF Control
  <2> HIDE DEF where
  <2>2. r \in TaskRec
    BY <2>1 DEF NewTask, TaskRec
  <2>3. /\ r.parent = current /\ r.state = "READY" /\ r.priv = privilege /\ r.pc = where
        /\ r.pid = nextTid /\ r.preempt = 0 /\ r.due = {}
    BY DEF NewTask
  <2>4. Fit(r)
    BY <2>1, <2>3 DEF Fit, where
  <2> QED
    BY <2>2, <2>3, <2>4
<1>4. picBusy' \in BOOLEAN /\ nextTid' \in 0..MaxTid /\ current' = current
  BY TaskAssumption DEF Spawn
<1> HIDE DEF r, tk, zs
<1>5. /\ task'[s] = r
      /\ task'[current] = [self EXCEPT !.pc = then]
      /\ \A t \in live \ {current} : task'[t] = tk[t]
  BY <1>0, <1>2 DEF Table
<1>6. /\ task'[current] \in TaskRec /\ Fit(task'[current])
      /\ task'[current].pid = self.pid /\ task'[current].parent = self.parent
      /\ task'[current].state = self.state
  BY <1>5, GotoFit
<1>7. task' \in Table
  <2>1. /\ task' = [[tk EXCEPT ![s] = r] EXCEPT ![current] = task'[current]]
    BY <1>0, <1>2, <1>3 DEF Table
  <2> QED
    BY <1>2, <1>3, <1>6, <2>1 DEF Table
<1>8. s \in Slots /\ s \notin live /\ s \notin DOMAIN zs /\ zombie' = zs
      /\ live' = live \cup {s} /\ next' = Inserted(s) /\ DOMAIN zs \subseteq zombies
  BY <1>0, <1>2 DEF zs
<1>9. /\ task'[current].pid = tk[current].pid /\ task'[current].parent = tk[current].parent
      /\ task'[current].state = "RUNNING"
  BY <1>2, <1>6
<1> DEFINE c == task'[current]
<1>10. /\ c \in TaskRec /\ c.pid = tk[current].pid /\ c.parent = tk[current].parent
       /\ c.state = "RUNNING" /\ Fit(c) /\ task'[current] = c
  BY <1>6, <1>9
<1> HIDE Here DEF c
<1> QED
  BY <1>2, <1>3, <1>4, <1>5, <1>7, <1>8, <1>10, SpawnInv

\* A creation that fails after its pass of cleanup_zombies.
LEMMA SpawnFailsStep ==
  ASSUME TaskInv, NEW then, CanGoto(self, then), SpawnFails(then)
  PROVE  TaskInv'
<1> USE Here
<1> DEFINE tk == Swept(task)
<1>1. PICK junk \in SUBSET Dangling : zombie' = Freed(Reaped(task, junk))
  BY DEF SpawnFails
<1> DEFINE gone == Reaped(task, junk)
<1>2. /\ Good(live, current, tk, Freed(gone))
      /\ tk[current] = self /\ tk \in Table
  BY SweptHere, SweptType
<1>3. task' = [tk EXCEPT ![current].pc = then]
  BY DEF SpawnFails
<1> HIDE DEF tk, gone
<1>4. /\ task'[current] = [self EXCEPT !.pc = then]
      /\ \A t \in live \ {current} : task'[t] = tk[t]
  BY <1>2, <1>3 DEF Table
<1>5. /\ task'[current] \in TaskRec /\ Fit(task'[current])
      /\ task'[current].pid = self.pid /\ task'[current].parent = self.parent
      /\ task'[current].state = self.state
  BY <1>4, GotoFit
<1>6. task' \in Table
  BY <1>2, <1>3, <1>5 DEF Table
<1>7. Good(live, current, task', Freed(gone))
  BY <1>2, <1>4, <1>5, <1>6, EditGood
<1>8. /\ zombie' \in [zombies \ gone -> ZombieRec]
      /\ zombies' = zombies \ gone
      /\ Stacked(zombie)'
  BY <1>1, FreedNext DEF gone
<1>9. Base'
  <2>1. nextTid' \in 0..MaxTid /\ UNCHANGED <<live, next, current, picBusy>>
    BY TaskAssumption DEF SpawnFails
  <2> QED
    BY <1>6, <1>8, <2>1 DEF TaskInv, Base, TypeOK, Table, RingIntact, NoMerge
<1> QED
  BY <1>1, <1>5, <1>7, <1>9 DEF TaskInv, self, SpawnFails, gone

\* task_fork and the task_create functions.
LEMMA CreationInv ==
  TaskInv /\ (Fork \/ TaskCreate \/ LaunchInit) => TaskInv'
<1> SUFFICES ASSUME TaskInv, Fork \/ TaskCreate \/ LaunchInit PROVE TaskInv'
  OBVIOUS
<1> USE Here
<1>1. CASE Fork
  <2>1. self.pc = "kernel" /\ self.priv = 3 /\ self.sigign \in BOOLEAN
    BY <1>1 DEF Fork, InCall, Executes, UserTask, TaskRec
  <2>2. CanGoto(self, "ret")
    BY <2>1, NothingDue DEF CanGoto, Control, Fit
  <2> QED
    BY <1>1, <2>1, <2>2, SpawnStep, SpawnFailsStep DEF Fork
<1>2. CASE TaskCreate
  <2>1. self.pc = "kernel" /\ self.priv = 0
    BY <1>2, PrivOK DEF TaskCreate, InKernelTask, Executes, UserTask
  <2>2. CanGoto(self, "kernel")
    BY <2>1, NothingDue DEF CanGoto, Control, Fit
  <2> QED
    BY <1>2, <2>2, SpawnStep, SpawnFailsStep DEF TaskCreate
<1>3. CASE LaunchInit
  <2>1. self.pc = "launch" /\ self.priv = 0
    BY <1>3, PrivOK DEF LaunchInit, Executes, Fit
  <2>2. CanGoto(self, "leave")
    BY <2>1, NothingDue DEF CanGoto, Control, Fit
  <2> QED
    BY <1>3, <2>2, SpawnStep, SpawnFailsStep DEF LaunchInit
<1> QED
  BY <1>1, <1>2, <1>3

\* task_init_scheduler establishes the invariant.
LEMMA InitInv == Init => TaskInv
<1> SUFFICES ASSUME Init PROVE TaskInv
  OBVIOUS
<1> USE TaskAssumption
<1>1. PICK ign \in BOOLEAN :
        task = [s \in Slots |-> IF s = Main
                 THEN [NewTask(-1, NoTask, 0, ign, "kernel") EXCEPT !.state = "RUNNING"]
                 ELSE Blank]
  BY DEF Init
<1> DEFINE r == [NewTask(-1, NoTask, 0, ign, "kernel") EXCEPT !.state = "RUNNING"]
<1>2. NewTask(-1, NoTask, 0, ign, "kernel") \in TaskRec /\ Blank \in TaskRec
  BY DEF NewTask, Blank, TaskRec, Control
<1>3. /\ r \in TaskRec /\ r.state = "RUNNING" /\ r.parent = NoTask /\ r.pid = -1
      /\ r.pc = "kernel" /\ r.priv = 0 /\ r.preempt = 0 /\ r.due = {}
  <2> DEFINE m == NewTask(-1, NoTask, 0, ign, "kernel")
  <2>1. /\ m \in TaskRec /\ m.parent = NoTask /\ m.pid = -1
        /\ m.pc = "kernel" /\ m.priv = 0 /\ m.preempt = 0 /\ m.due = {}
    BY <1>2 DEF NewTask
  <2>2. r = [m EXCEPT !.state = "RUNNING"]
    OBVIOUS
  <2> HIDE DEF m, r
  <2> QED
    BY <2>1, <2>2 DEF TaskRec
<1> HIDE DEF r
<1>4. task \in Table /\ task[Main] = r
  BY <1>1, <1>2, <1>3 DEF Table, r
<1>5. /\ live = {Main} /\ current = Main /\ next \in [Slots -> Slots] /\ next[Main] = Main
      /\ zombies = {} /\ zombie \in [zombies -> ZombieRec]
      /\ picBusy \in BOOLEAN /\ nextTid \in 0..MaxTid
  <2>1. zombies = {} /\ zombie \in [zombies -> ZombieRec]
    BY DEF Init, zombies
  <2>2. next \in [Slots -> Slots] /\ next[Main] = Main
    BY DEF Init
  <2>3. picBusy \in BOOLEAN /\ nextTid \in 0..MaxTid
    <3>1. picBusy = FALSE /\ nextTid = 0
      BY DEF Init
    <3>2. MaxTid \in Nat
      OBVIOUS
    <3>3. picBusy \in BOOLEAN
      BY <3>1, Zenon
    <3>4. nextTid \in 0..MaxTid
      BY <3>1, <3>2
    <3> QED
      BY <3>3, <3>4
  <2>4. live = {Main} /\ current = Main
    BY DEF Init
  <2> QED
    BY <2>1, <2>2, <2>3, <2>4
<1>6. Base
  BY <1>4, <1>5 DEF Base, TypeOK, Table, RingIntact, NoMerge, Stacked, zombies
<1>7. Fit(r)
  BY <1>3 DEF Fit
<1>8. Kinship(live, task) /\ Runner(live, current, task)
  BY <1>3, <1>4, <1>5 DEF Kinship, Runner
<1>9. Good(live, current, task, zombie)
  BY <1>3, <1>4, <1>5, <1>7, <1>8 DEF Good
<1> QED
  BY <1>3, <1>4, <1>5, <1>6, <1>9 DEF TaskInv, self

\* A step that changes nothing keeps the invariant.
LEMMA StutterInv == TaskInv /\ UNCHANGED vars => TaskInv'
BY DEF vars, TaskInv, Base, TypeOK, RingIntact, NoMerge, Stacked, Good, self, zombies

\* Every step keeps the invariant.
LEMMA NextInv == TaskInv /\ [Next]_vars => TaskInv'
<1> SUFFICES ASSUME TaskInv, [Next]_vars PROVE TaskInv'
  OBVIOUS
<1>1. CASE TimerIrq
  BY <1>1, TimerIrqInv
<1>2. CASE IrqReturn
  BY <1>2, IrqReturnInv
<1>3. CASE SyscallEnter \/ SyscallReturn \/ SyscallCheck
  BY <1>3, SyscallEnterInv, SyscallReturnInv, SyscallCheckInv
<1>4. CASE OtherCall \/ SysYield \/ SysKill \/ SysSigaction
  BY <1>4, OtherCallInv, SysYieldInv, SysKillInv, SysSigactionInv
<1>5. CASE Fork \/ TaskCreate \/ LaunchInit
  BY <1>5, CreationInv
<1>6. CASE SysWaitpid \/ WaitAgain \/ WaitWake
  BY <1>6, WaitsInv, WaitWakeInv
<1>7. CASE DeviceIrq \/ Exit \/ UserFault \/ MainExit
  BY <1>7, EndsInv
<1>8. CASE KernelFault \/ KernelYield \/ SwitchTo \/ RestartTids
  BY <1>8, KernelFaultInv, KernelYieldInv, SwitchToInv, RestartTidsInv
<1>9. CASE UNCHANGED vars
  BY <1>9, StutterInv
<1> QED
  BY <1>1, <1>2, <1>3, <1>4, <1>5, <1>6, <1>7, <1>8, <1>9 DEF Next

-----------------------------------------------------------------------------
(* The theorems                                                             *)

\* The invariant holds of the process table at all times, for any number of
\* slots, tids and statuses.
THEOREM TaskInvariant == Spec => []TaskInv
<1>1. Init => TaskInv
  BY InitInv
<1>2. TaskInv /\ [Next]_vars => TaskInv'
  BY NextInv
<1> QED
  BY <1>1, <1>2, PTL DEF Spec

\* The variables of the process table keep their types: the current task is
\* in the task list, and no task is in the task list and in zombie_list at
\* once.
THEOREM TypeCorrect == Spec => []TypeOK
<1>1. TaskInv => TypeOK
  BY DEF TaskInv, Base
<1> QED
  BY <1>1, TaskInvariant, PTL

\* The circular task list stays one cycle through all live tasks, whatever
\* creations and exits splice it.
THEOREM RingStaysIntact == Spec => []RingIntact
<1>1. TaskInv => RingIntact
  BY DEF TaskInv, Base
<1> QED
  BY <1>1, TaskInvariant, PTL

\* No task but the current one is ever RUNNING.
THEOREM AtMostOneRunner == Spec => []OneRunner
<1>1. TaskInv => OneRunner
  BY DEF TaskInv, Good, Runner, OneRunner
<1> QED
  BY <1>1, TaskInvariant, PTL

\* The parent pointer of a live task never dangles.
THEOREM ParentsStayLive == Spec => []LiveParents
<1>1. TaskInv => LiveParents
  BY DEF TaskInv, Good, Kinship, LiveParents
<1> QED
  BY <1>1, TaskInvariant, PTL

\* A task blocked in waitpid always has a child that can end its wait.
THEOREM WaitersHaveChildren == Spec => []NoStuckWaiter
<1>1. TaskInv => NoStuckWaiter
  BY DEF TaskInv, Good, HasChild, HasCorpse, NoStuckWaiter, Matches, zombies
<1> QED
  BY <1>1, TaskInvariant, PTL

\* preempt_count is 1 in user tasks inside a system call and 0 in all others.
THEOREM PreemptStaysBalanced == Spec => []PreemptBalanced
<1>1. TaskInv => PreemptBalanced
  BY DEF TaskInv, Good, Fit, PreemptBalanced
<1> QED
  BY <1>1, TaskInvariant, PTL

\* A child reaped for a waiting parent stays in the parent's wait fields
\* until waitpid returns it.
THEOREM ReportsAreKept == Spec => []ReportsKept
<1>1. TaskInv => ReportsKept
  BY DEF TaskInv, Good, Fit, ReportsKept
<1> QED
  BY <1>1, TaskInvariant, PTL

-----------------------------------------------------------------------------
(* Action properties                                                        *)

\* A switch of tasks changes neither where a task is nor what it is due.
LEMMA ReschedFields ==
  ASSUME TypeOK, NEW tk \in Table, Resched(tk), NEW t \in live
  PROVE  task'[t].pc = tk[t].pc /\ task'[t].due = tk[t].due
<1>0. current \in live /\ live \subseteq Slots
  BY DEF TypeOK
<1>1. ASSUME NEW u \in Table, NEW a \in Slots, NEW x
      PROVE  /\ [u EXCEPT ![a].state = x][t].pc = u[t].pc
             /\ [u EXCEPT ![a].state = x][t].due = u[t].due
  BY <1>0 DEF Table, TaskRec
<1>2. ASSUME NEW u \in Table, NEW a \in Slots, NEW x \in {"READY", "RUNNING", "BLOCKED", "BLOCKED_WAIT"}
      PROVE  [u EXCEPT ![a].state = x] \in Table
  BY DEF Table, TaskRec
<1>3. ASSUME NEW n \in live, SwitchCpu(tk, n)
      PROVE  task'[t].pc = tk[t].pc /\ task'[t].due = tk[t].due
  <2> DEFINE u == [tk EXCEPT ![current].state = IF @ = "RUNNING" THEN "READY" ELSE @]
  <2>1. tk[current].state \in {"READY", "RUNNING", "BLOCKED", "BLOCKED_WAIT"}
    BY <1>0 DEF Table, TaskRec
  <2>2. u \in Table
    BY <1>0, <1>2, <2>1
  <2>3. u[t].pc = tk[t].pc /\ u[t].due = tk[t].due
    BY <1>0, <1>1
  <2>4. task' = [u EXCEPT ![n].state = "RUNNING"]
    BY <1>3 DEF SwitchCpu
  <2> HIDE DEF u
  <2> QED
    BY <1>0, <1>1, <2>2, <2>3, <2>4
<1>4. CASE task' = [tk EXCEPT ![current].state = IF @ = "READY" THEN "RUNNING" ELSE @]
  BY <1>0, <1>1, <1>4
<1> QED
  BY <1>3, <1>4 DEF Resched

\* When task_exit switches, the task is no longer live.
LEMMA QuitLeaves ==
  ASSUME NEW tk, NEW zs, NEW v, Quit(tk, zs, v), current' # current
  PROVE  current \notin live'
BY DEF Quit

\* The task that calls task_yield stays where it was.
LEMMA YieldPc ==
  ASSUME TaskInv, NEW tk \in Table, Resched(Swept(tk))
  PROVE  task'[current].pc = tk[current].pc
BY Here, SweptType, SweptFields, ReschedFields

\* Inside a system call a task loses the processor only by its own doing,
\* never to the tick.
THEOREM SyscallsKeepTheProcessor == Spec => NoPreemptInSyscall
<1> DEFINE Kept == current' # current /\ self.preempt > 0
                     => current \notin live' \/ task'[current].pc # self.pc
<1>1. TaskInv /\ [Next]_vars => Kept
  <2> SUFFICES ASSUME TaskInv, [Next]_vars, current' # current, self.preempt > 0
               PROVE  current \notin live' \/ task'[current].pc # self.pc
    OBVIOUS
  <2>1. self.pc # "halted" => self.priv = 3 /\ self.pc \in {"kernel", "wait", "waited", "ret", "hung"}
    <3>1. Fit(self)
      BY Here
    <3> QED
      BY <3>1 DEF Fit
  <2>2. CASE TimerIrq
    <3>1. \/ \E junk \in SUBSET Dangling : \E v \in Status :
               Quit(Swept(task), Freed(Reaped(task, junk)), v)
          \/ Preemptible
          \/ current' = current
      BY <2>2 DEF TimerIrq, Killed
    <3> QED
      BY <3>1, QuitLeaves DEF Preemptible
  <2>3. CASE \/ IrqReturn \/ DeviceIrq \/ SyscallCheck
             \/ Exit \/ UserFault \/ KernelFault \/ MainExit
    BY <2>3, QuitLeaves DEF IrqReturn, DeviceIrq, SyscallCheck, Exit, UserFault, KernelFault,
         MainExit, Killed
  <2>4. CASE \/ SyscallEnter \/ SyscallReturn \/ OtherCall \/ SysKill \/ SysSigaction
             \/ Fork \/ TaskCreate \/ LaunchInit \/ WaitWake \/ RestartTids \/ UNCHANGED vars
    BY <2>4 DEF SyscallEnter, SyscallReturn, OtherCall, SysKill, SysSigaction, Fork,
         TaskCreate, LaunchInit, Spawn, SpawnFails, WaitWake, RestartTids, vars
  <2>5. CASE SysYield
    <3>1. self.pc = "kernel"
      BY <2>5 DEF SysYield, InCall, Executes
    <3>2. CASE \E junk \in SUBSET Dangling : Killed(Swept(task), Freed(Reaped(task, junk)))
      BY <3>2, QuitLeaves DEF Killed
    <3>3. CASE Yield([task EXCEPT ![current].pc = "ret"])
      <4> DEFINE tk == [task EXCEPT ![current].pc = "ret"]
      <4>1. tk \in Table /\ tk[current].pc = "ret"
        BY Here DEF Table, TaskRec, Control
      <4>2. Resched(Swept(tk))
        BY <3>3 DEF Yield
      <4> HIDE DEF tk
      <4> QED
        BY <3>1, <4>1, <4>2, YieldPc
    <3> QED
      BY <2>5, <3>2, <3>3 DEF SysYield
  <2>6. CASE SysWaitpid \/ WaitAgain
    <3>1. PICK arg \in Int : WaitLoop(arg)
      BY <2>6, Here, TaskAssumption DEF SysWaitpid, WaitAgain, AnyChild, TaskRec
    <3>2. self.pc # "waited"
      BY <2>6 DEF SysWaitpid, WaitAgain, InCall, InKernelTask, Executes
    <3> DEFINE tk == [task EXCEPT ![current].state = "BLOCKED_WAIT", ![current].pc = "waited",
                              ![current].waitPid = arg, ![current].waitRet = 0]
    <3>3. Resched(Swept(tk))
      BY <2>6, <3>1 DEF WaitLoop, Yield
    <3>4. tk = [task EXCEPT ![current] = Blocked(self, arg)]
      BY Here DEF Table, self, Blocked
    <3>5. Blocked(self, arg) \in TaskRec /\ Blocked(self, arg).pc = "waited"
      <4>1. 0 \in Int /\ "waited" \in Control /\ self \in TaskRec
        BY Here DEF Control
      <4>2. Blocked(self, arg) \in TaskRec
        BY <4>1, BlockedType DEF Blocked
      <4> QED
        BY <4>1, <4>2 DEF Blocked, TaskRec
    <3> HIDE DEF tk
    <3>6. tk \in Table /\ tk[current].pc = "waited"
      BY <3>4, <3>5, Here DEF Table
    <3> QED
      BY <3>2, <3>3, <3>6, YieldPc
  <2>7. CASE KernelYield \/ SwitchTo
    BY <2>1, <2>7 DEF KernelYield, SwitchTo, InKernelTask, Executes, UserTask
  <2> QED
    BY <2>2, <2>3, <2>4, <2>5, <2>6, <2>7 DEF Next, Spin
<1> QED
  BY <1>1, TaskInvariant, PTL DEF Spec, NoPreemptInSyscall

\* task_exit frees no zombie and takes no report from a task that lives on.
LEMMA QuitDue ==
  ASSUME TypeOK, NEW tk \in Table, NEW zs, NEW v, Quit(tk, zs, v)
  PROVE  /\ DOMAIN zs \subseteq zombies'
         /\ \A p \in live \cap live' : task'[p].due = tk[p].due
<1> DEFINE ad == Adopted(tk)
<1>0. /\ ad \in Table /\ live \subseteq Slots /\ current \in live /\ next \in [Slots -> Slots]
      /\ \A p \in live : ad[p].due = tk[p].due
  BY AdoptedType, AdoptedFields DEF TypeOK
<1> HIDE DEF ad
<1>1. ASSUME task' = [ad EXCEPT ![current].pc = "halted"], zombie' = zs
      PROVE  /\ DOMAIN zs \subseteq zombies'
             /\ \A p \in live : task'[p].due = ad[p].due
  BY <1>0, <1>1 DEF Table, TaskRec, zombies
<1>2. ASSUME task' = [ad EXCEPT ![current] = Blank, ![next[current]].state = "RUNNING"],
             DOMAIN zombie' = DOMAIN zs \cup {current}, live' = live \ {current}
      PROVE  /\ DOMAIN zs \subseteq zombies'
             /\ \A p \in live \cap live' : task'[p].due = ad[p].due
  <2>1. ASSUME NEW p \in live \ {current} PROVE task'[p].due = ad[p].due
    <3> DEFINE n == next[current]
               w == [ad EXCEPT ![current] = Blank]
    <3>1. n \in Slots /\ p \in Slots /\ p # current
      BY <1>0
    <3>2. w[p] = ad[p] /\ w[p] \in TaskRec /\ DOMAIN w = Slots
      BY <1>0, <3>1 DEF Table
    <3>3. task' = [w EXCEPT ![n].state = "RUNNING"]
      BY <1>2
    <3> HIDE DEF w, n
    <3>4. task'[p] = w[p] \/ task'[p] = [w[p] EXCEPT !.state = "RUNNING"]
      BY <3>1, <3>2, <3>3
    <3> QED
      BY <3>2, <3>4 DEF TaskRec
  <2> QED
    BY <1>2, <2>1 DEF zombies
<1> QED
  BY <1>0, <1>1, <1>2 DEF Quit, ad

\* Why a zombie of a live parent is reaped: the parent ignores SIGCHLD, or it
\* is given the report.
Accounted(z, sigign, due) ==
  LET p == zombie[z].parent IN sigign[p].sigign \/ ReportOf(z) \in due[p].due

\* The zombie of a live parent is reaped only if that parent ignores SIGCHLD
\* or is given its report.
LEMMA ReapReason ==
  ASSUME TaskInv, NEW tk \in Table, NEW junk \in SUBSET Dangling,
         \A t \in live : tk[t].sigign = task[t].sigign,
         NEW z \in Reaped(tk, junk), zombie[z].parent \in live
  PROVE  Accounted(z, task, Swept(tk))
<1> DEFINE p == zombie[z].parent
<1> USE Here
<1>1. z \in zombies /\ p \in live /\ p \in Slots /\ p # NoTask
  BY TaskAssumption DEF Reaped
<1>2. z \notin junk
  BY <1>1 DEF Dangling, Free
<1>3. CASE \E q \in Woken(tk) : z = FirstMatch(tk, q)
  <2>1. PICK q \in Woken(tk) : z = FirstMatch(tk, q)
    BY <1>3
  <2>2. q = p
    BY <2>1, FirstMatchOK DEF Woken, Matches
  <2>3. ReportOf(z) \in Swept(tk)[p].due
    BY <1>1, <2>1, <2>2, SweptFields
  <2> QED
    BY <2>3 DEF Accounted
<1>4. CASE IgnoredByParent(tk, z)
  <2>1. p \notin zombies
    BY <1>1 DEF TypeOK
  <2> QED
    BY <1>1, <1>4, <2>1 DEF IgnoredByParent, Accounted
<1> QED
  BY <1>1, <1>2, <1>3, <1>4 DEF Reaped

\* What NoSilentReap says of a step.
Answered == \A z \in zombies \ zombies' :
  zombie[z].parent \in live \cap live' => Accounted(z, task, task')

\* A step that frees what a pass of cleanup_zombies reaps answers the
\* parents.
LEMMA PassAnswers ==
  ASSUME TaskInv, NEW tk \in Table, NEW junk \in SUBSET Dangling,
         \A t \in live : tk[t].sigign = task[t].sigign,
         zombies \ zombies' \subseteq Reaped(tk, junk),
         \A t \in live \cap live' : task'[t].due = Swept(tk)[t].due
  PROVE  Answered
BY ReapReason DEF Answered, Accounted

\* Freeing a set of zombies frees no other.
LEMMA FreedGone ==
  ASSUME NEW gone, zombie' = Freed(gone)
  PROVE  zombies \ zombies' \subseteq gone
BY DEF Freed, zombies

\* task_yield answers the parents.
LEMMA YieldAnswers ==
  ASSUME TaskInv, NEW tk \in Table,
         \A t \in live : tk[t].sigign = task[t].sigign, Yield(tk)
  PROVE  Answered
<1>1. PICK junk \in SUBSET Dangling : zombie' = Freed(Reaped(tk, junk))
  BY DEF Yield
<1>2. \A t \in live : task'[t].due = Swept(tk)[t].due
  BY Here, SweptType, ReschedFields DEF Yield
<1> QED
  BY <1>1, <1>2, FreedGone, PassAnswers

\* A pass of cleanup_zombies before a fatal signal answers the parents.
LEMMA KilledAnswers ==
  ASSUME TaskInv, NEW junk \in SUBSET Dangling,
         Killed(Swept(task), Freed(Reaped(task, junk)))
  PROVE  Answered
<1> DEFINE zs == Freed(Reaped(task, junk))
<1>1. PICK v \in Status : Quit(Swept(task), zs, v)
  BY DEF Killed
<1>2. DOMAIN zs = zombies \ Reaped(task, junk)
  BY SweptHere
<1> HIDE DEF zs
<1>3. /\ DOMAIN zs \subseteq zombies'
      /\ \A p \in live \cap live' : task'[p].due = Swept(task)[p].due
  BY <1>1, Here, SweptType, QuitDue
<1> QED
  BY <1>2, <1>3, Here, PassAnswers

\* The pass of cleanup_zombies in a creation answers the parents.
LEMMA SpawnAnswers ==
  ASSUME TaskInv, NEW privilege, NEW ign, NEW then,
         Spawn(privilege, ign, then) \/ SpawnFails(then)
  PROVE  Answered
<1> USE Here
<1> DEFINE tk == Swept(task)
<1>0. tk \in Table
  BY SweptType
<1>1. CASE Spawn(privilege, ign, then)
  <2> DEFINE r == NewTask(nextTid, current, privilege, ign,
                          IF privilege = 3 THEN "user" ELSE "kernel")
  <2>1. PICK junk \in SUBSET Dangling :
          /\ zombie' = Freed(Reaped(task, junk))
          /\ \E s \in Slots \ (live \cup (zombies \ Reaped(task, junk))) :
               task' = [tk EXCEPT ![s] = r, ![current].pc = then]
    BY <1>1 DEF Spawn
  <2>2. PICK s \in Slots \ live : task' = [tk EXCEPT ![s] = r, ![current].pc = then]
    BY <2>1
  <2> HIDE DEF r, tk
  <2>3. \A t \in live : task'[t] = tk[t] \/ task'[t] = [tk[t] EXCEPT !.pc = then]
    BY <1>0, <2>2 DEF Table
  <2>4. \A t \in live : task'[t].due = tk[t].due
    BY <1>0, <2>3 DEF Table, TaskRec
  <2> QED
    BY <2>1, <2>4, FreedGone, PassAnswers DEF tk
<1>2. CASE SpawnFails(then)
  <2>1. PICK junk \in SUBSET Dangling : zombie' = Freed(Reaped(task, junk))
    BY <1>2 DEF SpawnFails
  <2>2. task' = [tk EXCEPT ![current].pc = then]
    BY <1>2 DEF SpawnFails
  <2> HIDE DEF tk
  <2>3. \A t \in live : task'[t].due = tk[t].due
    BY <1>0, <2>2 DEF Table, TaskRec
  <2> QED
    BY <2>1, <2>3, FreedGone, PassAnswers DEF tk
<1> QED
  BY <1>1, <1>2

\* The scheduler's tick answers the parents.
LEMMA TimerAnswers == TaskInv /\ TimerIrq => Answered
<1> SUFFICES ASSUME TaskInv, TimerIrq PROVE Answered
  OBVIOUS
<1> USE Here
<1> DEFINE tk == [task EXCEPT ![current].inIrq = TRUE]
<1>1. PICK junk \in SUBSET Dangling :
        \/ Killed(Swept(task), Freed(Reaped(task, junk)))
        \/ /\ Resched(Swept(tk)) \/ task' = Swept(tk)
           /\ zombie' = Freed(Reaped(task, junk))
  BY DEF TimerIrq
<1>2. /\ tk \in Table
      /\ \A t \in live : /\ tk[t].sigign = task[t].sigign
                         /\ tk[t].state = task[t].state /\ tk[t].waitPid = task[t].waitPid
  BY DEF Table, TaskRec
<1>3. \A t \in Slots : tk[t].sigign = task[t].sigign /\ tk[t].waitPid = task[t].waitPid
  BY DEF Table, TaskRec
<1> HIDE DEF tk
<1>4. Reaped(tk, junk) = Reaped(task, junk)
  <2>1. \A q \in live, z \in zombies : Matches(tk, q, z) <=> Matches(task, q, z)
    BY <1>2 DEF Matches
  <2>2. Woken(tk) = Woken(task)
    BY <1>2, <2>1 DEF Woken
  <2>3. \A q \in live : FirstMatch(tk, q) = FirstMatch(task, q)
    BY <1>3 DEF FirstMatch, Matches
  <2>4. \A z : IgnoredByParent(tk, z) <=> IgnoredByParent(task, z)
    BY <1>2 DEF IgnoredByParent
  <2> QED
    BY <2>2, <2>3, <2>4 DEF Reaped, Woken
<1>5. CASE /\ Resched(Swept(tk)) \/ task' = Swept(tk)
           /\ zombie' = Freed(Reaped(task, junk))
  <2>1. \A t \in live : task'[t].due = Swept(tk)[t].due
    BY <1>2, <1>5, SweptType, ReschedFields
  <2> QED
    BY <1>2, <1>4, <1>5, <2>1, FreedGone, PassAnswers
<1> QED
  BY <1>1, <1>5, KilledAnswers

\* cleanup_zombies never frees a child of a live parent that neither ignores
\* SIGCHLD nor is given the child's report in the same step.
THEOREM NothingReapedSilently == Spec => NoSilentReap
<1> DEFINE Told ==
      \A z \in zombies :
        LET p == zombie[z].parent
        IN z \notin zombies' /\ p \in live \cap live'
             => task[p].sigign \/ ReportOf(z) \in task'[p].due
<1>1. TaskInv /\ [Next]_vars => Told
  <2> SUFFICES ASSUME TaskInv, [Next]_vars PROVE Answered
    BY DEF Answered, Accounted
  <2> USE Here
  <2>1. CASE TimerIrq
    BY <2>1, TimerAnswers
  <2>2. CASE SysYield
    <3> DEFINE tk == [task EXCEPT ![current].pc = "ret"]
    <3>1. tk \in Table /\ \A t \in live : tk[t].sigign = task[t].sigign
      BY DEF Table, TaskRec, Control
    <3> HIDE DEF tk
    <3> QED
      BY <2>2, <3>1, KilledAnswers, YieldAnswers DEF SysYield, tk
  <2>3. CASE KernelYield
    BY <2>3, YieldAnswers DEF KernelYield
  <2>4. CASE Fork \/ TaskCreate \/ LaunchInit
    BY <2>4, SpawnAnswers DEF Fork, TaskCreate, LaunchInit
  <2>5. CASE SysWaitpid \/ WaitAgain
    <3>1. PICK arg \in Int : WaitLoop(arg)
      BY <2>5, TaskAssumption DEF SysWaitpid, WaitAgain, AnyChild, TaskRec
    <3> DEFINE tk == [task EXCEPT ![current].state = "BLOCKED_WAIT", ![current].pc = "waited",
                              ![current].waitPid = arg, ![current].waitRet = 0]
    <3>2. tk = [task EXCEPT ![current] = Blocked(self, arg)]
      BY DEF Table, self, Blocked
    <3>3. Blocked(self, arg) \in TaskRec /\ Blocked(self, arg).sigign = self.sigign
      <4>1. 0 \in Int /\ "waited" \in Control
        BY DEF Control
      <4>2. Blocked(self, arg) \in TaskRec
        BY <4>1, BlockedType DEF Blocked
      <4> QED
        BY <4>2 DEF Blocked, TaskRec
    <3>4. CASE Yield(tk)
      <4> HIDE DEF tk
      <4>1. tk \in Table /\ \A t \in live : tk[t].sigign = task[t].sigign
        BY <3>2, <3>3 DEF Table, self
      <4> QED
        BY <3>4, <4>1, YieldAnswers
    <3>5. CASE UNCHANGED zombie
      BY <3>5 DEF Answered, zombies
    <3> QED
      BY <3>1, <3>4, <3>5 DEF WaitLoop
  <2>6. CASE \E v : Quit(task, zombie, v)
    BY <2>6, QuitDue DEF Answered, zombies
  <2>7. CASE UNCHANGED zombie
    BY <2>7 DEF Answered, zombies
  <2>8. CASE IrqReturn
    <3> DEFINE tk == [task EXCEPT ![current].inIrq = FALSE]
    <3>1. tk \in Table
      BY DEF Table, TaskRec
    <3> HIDE DEF tk
    <3> QED
      BY <2>7, <2>8, <3>1, QuitDue DEF IrqReturn, Killed, Answered, zombies, tk
  <2>9. CASE \/ DeviceIrq \/ SyscallCheck \/ Exit \/ UserFault \/ KernelFault \/ MainExit
    BY <2>6, <2>7, <2>9 DEF DeviceIrq, SyscallCheck, Exit, UserFault, KernelFault, MainExit, Killed
  <2>10. CASE \/ SyscallEnter \/ SyscallReturn \/ OtherCall \/ SysKill \/ SysSigaction
              \/ WaitWake \/ SwitchTo \/ RestartTids \/ UNCHANGED vars
    BY <2>7, <2>10 DEF SyscallEnter, SyscallReturn, OtherCall, SysKill, SysSigaction,
         WaitWake, SwitchTo, RestartTids, vars
  <2> QED
    BY <2>1, <2>2, <2>3, <2>4, <2>5, <2>8, <2>9, <2>10 DEF Next, Spin
<1> QED
  BY <1>1, TaskInvariant, PTL DEF Spec, NoSilentReap
=============================================================================
