---------------------------- MODULE SignalProofs ----------------------------
(***************************************************************************)
(* Proofs about the signals of a task: for every set of signals, whatever  *)
(* the program asks for, the queue, its tail and the pending mask agree,   *)
(* no signal is lost, and no handler is entered while it runs unless the   *)
(* program allows it.                                                      *)
(***************************************************************************)
EXTENDS Signal, SequenceTheorems, TLAPS

\* The tail of the queue is the number of its last item.
TailRight ==
  tail = IF queue = <<>> THEN 0 ELSE queue[Len(queue)].n

\* Signals are counted as they are sent.
Counted == \A i \in DOMAIN queue : queue[i].n <= sent

\* What a step needs to know of the queue.
QueueInv == QueueKept /\ TailRight /\ Counted

\* The signals whose handlers run are blocked, and so they are in the masks
\* that the handlers inside them go back to, unless somebody opened them.
Masked == \A i \in DOMAIN frames : frames[i].sig \in blocked \cup opened
Saved ==
  \A i, j \in DOMAIN frames : i < j => frames[i].sig \in frames[j].mask \cup opened

HandlersInv == NoReentry /\ Masked /\ Saved

-----------------------------------------------------------------------------
(* Removal of the i-th element. *)
LEMMA Removed ==
  ASSUME NEW S, NEW q \in Seq(S), NEW i \in DOMAIN q
  PROVE  /\ RemoveAt(q, i) \in Seq(S)
         /\ Len(RemoveAt(q, i)) = Len(q) - 1
         /\ \A k \in 1 .. Len(q) - 1 :
              RemoveAt(q, i)[k] = IF k < i THEN q[k] ELSE q[k + 1]
<1>1. Len(q) \in Nat /\ DOMAIN q = 1 .. Len(q) /\ i \in 1 .. Len(q)
  BY LenProperties
<1>2. \A k \in 1 .. Len(q) : q[k] \in S
  BY ElementOfSeq
<1> DEFINE a == SubSeq(q, 1, i - 1)
           b == SubSeq(q, i + 1, Len(q))
<1>3. /\ a \in Seq(S)
      /\ Len(a) = i - 1
      /\ \A k \in 1 .. i - 1 : a[k] = q[k]
  <2>1. 1 \in Int /\ i - 1 \in Int /\ \A k \in 1 .. i - 1 : q[k] \in S
    BY <1>1, <1>2
  <2>2. /\ a \in Seq(S)
        /\ Len(a) = IF 1 <= i - 1 THEN (i - 1) - 1 + 1 ELSE 0
        /\ \A k \in 1 .. (i - 1) - 1 + 1 : a[k] = q[1 + k - 1]
    BY <2>1, SubSeqProperties
  <2> QED
    BY <2>2, <1>1
<1>4. /\ b \in Seq(S)
      /\ Len(b) = Len(q) - i
      /\ \A k \in 1 .. Len(q) - i : b[k] = q[i + k]
  <2>1. i + 1 \in Int /\ Len(q) \in Int /\ \A k \in i + 1 .. Len(q) : q[k] \in S
    BY <1>1, <1>2
  <2>2. /\ b \in Seq(S)
        /\ Len(b) = IF i + 1 <= Len(q) THEN Len(q) - (i + 1) + 1 ELSE 0
        /\ \A k \in 1 .. Len(q) - (i + 1) + 1 : b[k] = q[(i + 1) + k - 1]
    BY <2>1, SubSeqProperties
  <2>3. ASSUME NEW k \in 1 .. Len(q) - i
        PROVE  b[k] = q[i + k]
    <3>1. k \in 1 .. Len(q) - (i + 1) + 1 /\ (i + 1) + k - 1 = i + k
      BY <1>1
    <3> QED
      BY <3>1, <2>2
  <2>4. Len(b) = Len(q) - i
    BY <2>2, <1>1
  <2> QED
    BY <2>2, <2>3, <2>4
<1>5. RemoveAt(q, i) = a \o b
  BY DEF RemoveAt
<1> HIDE DEF a, b
<1>6. /\ a \o b \in Seq(S)
      /\ Len(a \o b) = Len(a) + Len(b)
      /\ \A k \in 1 .. Len(a) + Len(b) :
           (a \o b)[k] = IF k <= Len(a) THEN a[k] ELSE b[k - Len(a)]
  BY <1>3, <1>4, ConcatProperties, Zenon
<1>7. Len(a) + Len(b) = Len(q) - 1
  BY <1>1, <1>3, <1>4
<1>8. ASSUME NEW k \in 1 .. Len(q) - 1
      PROVE  (a \o b)[k] = IF k < i THEN q[k] ELSE q[k + 1]
  <2>1. CASE k < i
    BY <2>1, <1>1, <1>3, <1>6, <1>7
  <2>2. CASE ~(k < i)
    <3>1. (a \o b)[k] = b[k - (i - 1)]
      BY <2>2, <1>1, <1>3, <1>6, <1>7
    <3>2. k - (i - 1) \in 1 .. Len(q) - i /\ i + (k - (i - 1)) = k + 1
      BY <2>2, <1>1
    <3> QED
      BY <3>1, <3>2, <1>4, <2>2
  <2> QED
    BY <2>1, <2>2
<1> QED
  BY <1>5, <1>6, <1>7, <1>8

(* All but the last element. *)
LEMMA Fronted ==
  ASSUME NEW S, NEW q \in Seq(S), q # <<>>
  PROVE  /\ Front(q) \in Seq(S)
         /\ Len(q) \in Nat /\ Len(q) > 0
         /\ Len(Front(q)) = Len(q) - 1
         /\ \A k \in 1 .. Len(q) - 1 : Front(q)[k] = q[k]
<1>1. Len(q) \in Nat /\ Len(q) > 0
  BY EmptySeq, LenProperties
<1>2. 1 \in Int /\ Len(q) - 1 \in Int /\ \A k \in 1 .. Len(q) - 1 : q[k] \in S
  BY <1>1, ElementOfSeq
<1>3. /\ Front(q) \in Seq(S)
      /\ Len(Front(q)) = IF 1 <= Len(q) - 1 THEN (Len(q) - 1) - 1 + 1 ELSE 0
      /\ \A k \in 1 .. (Len(q) - 1) - 1 + 1 : Front(q)[k] = q[1 + k - 1]
  BY <1>2, SubSeqProperties DEF Front
<1>4. ASSUME NEW k \in 1 .. Len(q) - 1
      PROVE  Front(q)[k] = q[k]
  <2>1. k \in 1 .. (Len(q) - 1) - 1 + 1 /\ 1 + k - 1 = k
    BY <1>1
  <2> QED
    BY <2>1, <1>3
<1>5. Len(Front(q)) = Len(q) - 1
  <2>1. \A n \in Nat : n > 0 => (IF 1 <= n - 1 THEN (n - 1) - 1 + 1 ELSE 0) = n - 1
    OBVIOUS
  <2> QED
    BY <2>1, <1>1, <1>3, Zenon
<1> QED
  BY <1>1, <1>3, <1>4, <1>5

-----------------------------------------------------------------------------
(* Every variable keeps to its type, through every nesting of handlers and
   every removal from the queue (task_signal_enqueue, check_signals, the
   signal system calls).                                                     *)

LEMMA TypeInit == ConstantsOK /\ Init => TypeOK
<1> SUFFICES ASSUME ConstantsOK, Init PROVE TypeOK
  OBVIOUS
<1>1. Default \in SigActions
  BY DEF Default, SigActions
<1>2. actions \in [Sigs -> SigActions]
  BY <1>1, Zenon DEF Init
<1>3. queue \in Seq(Item) /\ Len(queue) = 0 /\ frames \in Seq(Frame) /\ Len(frames) = 0
  BY EmptySeq DEF Init
<1>4. MaxQueue \in Nat /\ MaxNested \in Nat /\ MaxSent \in Nat
  BY DEF ConstantsOK
<1>5. /\ pending \subseteq Sigs /\ blocked \subseteq Sigs /\ opened \subseteq Sigs
      /\ tail \in 0 .. MaxSent /\ sent \in 0 .. MaxSent /\ ended \in BOOLEAN
  <2>1. pending = {} /\ blocked = {} /\ opened = {} /\ ended = FALSE
    BY Zenon DEF Init
  <2>2. tail = 0 /\ sent = 0
    BY Zenon DEF Init
  <2>3. tail \in 0 .. MaxSent /\ sent \in 0 .. MaxSent
    BY <2>2, <1>4
  <2> QED
    BY <2>1, <2>3, Zenon
<1>6. Len(queue) <= MaxQueue /\ Len(frames) <= MaxNested
  BY <1>3, <1>4
<1> QED
  BY <1>2, <1>3, <1>5, <1>6, Zenon DEF TypeOK

LEMMA TypeSend ==
  ASSUME ConstantsOK, TypeOK, NEW s \in Sigs, Send(s)
  PROVE  TypeOK'
<1> DEFINE item == [sig |-> s, n |-> sent + 1]
<1>1. sent \in Nat /\ sent < MaxSent /\ MaxSent \in Nat /\ Len(queue) < MaxQueue /\ MaxQueue \in Nat
  BY DEF TypeOK, Send, ConstantsOK
<1>2. item \in Item
  BY <1>1 DEF Item
<1>3. queue' = Append(queue, item) \/ queue' = queue
  BY DEF Send, Linked
<1> HIDE DEF item
<1>4. queue \in Seq(Item) /\ Len(queue) \in Nat
  BY LenProperties DEF TypeOK
<1>5. queue' \in Seq(Item) /\ Len(queue') <= MaxQueue
  <2>1. CASE queue' = queue
    BY <2>1, <1>1, <1>4
  <2>2. CASE queue' = Append(queue, item)
    BY <2>2, <1>1, <1>2, <1>4, AppendProperties
  <2> QED
    BY <1>3, <2>1, <2>2
<1>6. sent' \in 0 .. MaxSent /\ tail' \in 0 .. MaxSent
  BY <1>1 DEF Send
<1>7. UNCHANGED <<blocked, actions, frames, ended, opened>> /\ pending' = pending \cup {s}
  BY DEF Send
<1> QED
  BY <1>5, <1>6, <1>7 DEF TypeOK

\* What CheckSignals does, for the item it takes.
Taken(i) ==
  /\ i \in DOMAIN queue /\ queue[i].sig \notin blocked
  /\ queue' = RemoveAt(queue, i) /\ tail' = TailWithout(i)
  /\ pending' = IF \E k \in DOMAIN queue' : queue'[k].sig = queue[i].sig
                THEN pending ELSE pending \ {queue[i].sig}
  /\ owed' = owed \ {queue[i]} /\ sent' = sent

\* What it does about the handler for s.
Handled(s) ==
  \/ /\ Len(frames) < MaxNested
     /\ frames' = Append(frames, [sig |-> s, mask |-> blocked])
     /\ blocked' = MaskFor(s, actions[s])
     /\ actions' = IF actions[s].resethand THEN [actions EXCEPT ![s].handler = "default"] ELSE actions
     /\ opened' = IF actions[s].nodefer THEN opened \cup {s} ELSE opened
  \/ UNCHANGED <<blocked, actions, frames, opened>>

LEMMA CheckTakes ==
  ASSUME CheckSignals
  PROVE  \E i \in DOMAIN queue : Taken(i) /\ Handled(queue[i].sig) /\ ended' \in BOOLEAN
<1>1. PICK i \in Deliverable :
        LET s == queue[i].sig
            rest == RemoveAt(queue, i)
            act == actions[s]
        IN /\ queue' = rest /\ tail' = TailWithout(i)
           /\ pending' = IF \E k \in DOMAIN rest : rest[k].sig = s THEN pending ELSE pending \ {s}
           /\ owed' = owed \ {queue[i]}
           /\ ended' = (act.handler = "default" /\ s \notin Quiet)
           /\ IF act.handler = "run"
              THEN /\ Len(frames) < MaxNested
                   /\ frames' = Append(frames, [sig |-> s, mask |-> blocked])
                   /\ blocked' = MaskFor(s, act)
                   /\ actions' = IF act.resethand THEN [actions EXCEPT ![s].handler = "default"] ELSE actions
                   /\ opened' = IF act.nodefer THEN opened \cup {s} ELSE opened
              ELSE UNCHANGED <<blocked, actions, frames, opened>>
  BY Zenon DEF CheckSignals
<1>2. i \in DOMAIN queue /\ queue[i].sig \notin blocked /\ sent' = sent
  BY DEF Deliverable, CheckSignals
<1>3. Taken(i)
  BY <1>1, <1>2, Zenon DEF Taken
<1>4. Handled(queue[i].sig)
  BY <1>1, Zenon DEF Handled
<1>5. ended' \in BOOLEAN
  BY <1>1
<1> QED
  BY <1>2, <1>3, <1>4, <1>5

LEMMA TypeCheck ==
  ASSUME ConstantsOK, TypeOK, CheckSignals
  PROVE  TypeOK'
<1>1. PICK i \in DOMAIN queue : Taken(i) /\ Handled(queue[i].sig) /\ ended' \in BOOLEAN
  BY CheckTakes
<1>2. queue \in Seq(Item) /\ Len(queue) \in Nat /\ DOMAIN queue = 1 .. Len(queue)
  BY LenProperties DEF TypeOK
<1>3. /\ queue' \in Seq(Item)
      /\ Len(queue') = Len(queue) - 1
  BY <1>1, <1>2, Removed DEF Taken
<1>4. Len(queue') <= MaxQueue
  BY <1>2, <1>3 DEF TypeOK, ConstantsOK
<1>5. \A k \in DOMAIN queue : queue[k] \in Item
  BY <1>2, ElementOfSeq
<1>6. queue[i].sig \in Sigs
  BY <1>5 DEF Item
<1>7. tail' \in 0 .. MaxSent
  <2>1. \A k \in DOMAIN queue : queue[k].n \in 0 .. MaxSent
    BY <1>5 DEF Item, ConstantsOK
  <2>2. i # 1 => i - 1 \in DOMAIN queue
    BY <1>2
  <2>3. tail' = tail \/ tail' = 0 \/ (i # 1 /\ tail' = queue[i - 1].n)
    BY <1>1, Zenon DEF Taken, TailWithout
  <2> QED
    BY <2>1, <2>2, <2>3 DEF TypeOK, ConstantsOK
<1>8. pending' \subseteq Sigs /\ sent' \in 0 .. MaxSent
  BY <1>1 DEF Taken, TypeOK
<1> DEFINE s == queue[i].sig
           act == actions[s]
<1>9. /\ blocked' \subseteq Sigs /\ opened' \subseteq Sigs
      /\ actions' \in [Sigs -> SigActions]
      /\ frames' \in Seq(Frame) /\ Len(frames') <= MaxNested
  <2>1. CASE UNCHANGED <<blocked, actions, frames, opened>>
    BY <2>1 DEF TypeOK
  <2>2. CASE /\ Len(frames) < MaxNested
             /\ frames' = Append(frames, [sig |-> s, mask |-> blocked])
             /\ blocked' = MaskFor(s, actions[s])
             /\ actions' = IF actions[s].resethand THEN [actions EXCEPT ![s].handler = "default"] ELSE actions
             /\ opened' = IF actions[s].nodefer THEN opened \cup {s} ELSE opened
    <3>1. act \in SigActions
      BY <1>6 DEF TypeOK
    <3>2. act.mask \subseteq Sigs
      BY <3>1 DEF SigActions
    <3>3. blocked' \subseteq Sigs /\ opened' \subseteq Sigs
      BY <2>2, <3>2, <1>6 DEF MaskFor, TypeOK
    <3>4. [act EXCEPT !.handler = "default"] \in SigActions
      BY <3>1 DEF SigActions
    <3>5. actions' \in [Sigs -> SigActions]
      BY <2>2, <3>4, <1>6 DEF TypeOK
    <3>6. [sig |-> s, mask |-> blocked] \in Frame
      BY <1>6 DEF Frame, TypeOK
    <3>7. frames \in Seq(Frame) /\ Len(frames) \in Nat /\ MaxNested \in Nat
      BY LenProperties DEF TypeOK, ConstantsOK
    <3>8. frames' \in Seq(Frame) /\ Len(frames') = Len(frames) + 1
      BY <2>2, <3>6, <3>7, AppendProperties
    <3> QED
      BY <2>2, <3>3, <3>5, <3>7, <3>8
  <2> QED
    BY <1>1, <2>1, <2>2 DEF Handled
<1> QED
  BY <1>1, <1>3, <1>4, <1>7, <1>8, <1>9, Zenon DEF TypeOK

LEMMA TypeNext ==
  ASSUME ConstantsOK, TypeOK, [Next]_vars
  PROVE  TypeOK'
<1>1. CASE \E s \in Sigs : Send(s)
  BY <1>1, TypeSend
<1>2. CASE CheckSignals
  BY <1>2, TypeCheck
<1>3. CASE SigReturn
  <2>1. /\ frames # <<>> /\ frames \in Seq(Frame)
        /\ blocked' = frames[Len(frames)].mask /\ frames' = Front(frames)
        /\ opened' \subseteq opened
        /\ UNCHANGED <<pending, queue, tail, actions, ended, sent>>
    BY <1>3 DEF SigReturn, Last, TypeOK
  <2>2. Front(frames) \in Seq(Frame) /\ Len(Front(frames)) = Len(frames) - 1 /\ Len(frames) \in Nat
        /\ Len(frames) > 0
    BY <2>1, Fronted
  <2>3. frames[Len(frames)] \in Frame
    BY <2>1, <2>2, ElementOfSeq
  <2>4. blocked' \subseteq Sigs
    BY <2>1, <2>3 DEF Frame
  <2>5. Len(frames') <= MaxNested
    BY <2>1, <2>2 DEF TypeOK, ConstantsOK
  <2> QED
    BY <2>1, <2>2, <2>4, <2>5 DEF TypeOK
<1>4. CASE \E s \in Sigs, act \in Actions : SigAction(s, act)
  <2>1. PICK s \in Sigs, act \in Actions : SigAction(s, act)
    BY <1>4
  <2>2. actions' \in [Sigs -> SigActions]
    BY <2>1 DEF SigAction, TypeOK, ConstantsOK
  <2> QED
    BY <2>1, <2>2 DEF SigAction, TypeOK
<1>5. CASE \E how \in {"block", "unblock", "setmask"}, set \in Masks : SigProcMask(how, set)
  <2>1. PICK how \in {"block", "unblock", "setmask"}, set \in Masks : SigProcMask(how, set)
    BY <1>5
  <2>2. set \subseteq Sigs
    BY DEF ConstantsOK
  <2>3. blocked' \subseteq Sigs
    BY <2>1, <2>2 DEF SigProcMask, TypeOK
  <2>4. opened' \subseteq Sigs
    BY <2>1 DEF SigProcMask, TypeOK
  <2> QED
    BY <2>1, <2>3, <2>4 DEF SigProcMask, TypeOK
<1>6. CASE Forked
  <2>1. queue' \in Seq(Item) /\ Len(queue') = 0
    BY <1>6, EmptySeq DEF Forked
  <2> QED
    BY <1>6, <2>1 DEF Forked, TypeOK, ConstantsOK
<1>7. CASE Exec
  <2>1. frames' \in Seq(Frame) /\ Len(frames') = 0
    BY <1>7, EmptySeq DEF Exec
  <2> QED
    BY <1>7, <2>1 DEF Exec, TypeOK, ConstantsOK
<1>8. CASE UNCHANGED vars
  BY <1>8 DEF vars, TypeOK
<1> QED
  BY <1>1, <1>2, <1>3, <1>4, <1>5, <1>6, <1>7, <1>8 DEF Next

\* The queue, the masks, the handlers and the frames on the user stack have their
\* types, through every call and every check_signals.
THEOREM TypeCorrect ==
  ASSUME ConstantsOK
  PROVE  Spec => []TypeOK
<1>1. Init => TypeOK
  BY TypeInit
<1>2. TypeOK /\ [Next]_vars => TypeOK'
  BY TypeNext
<1> QED
  BY <1>1, <1>2, PTL DEF Spec

-----------------------------------------------------------------------------
(* The queue: it is never empty with a tail, and never has another tail than
   its last item, so every signal sent is linked into it.                    *)

LEMMA ItemCount ==
  ASSUME ConstantsOK, TypeOK
  PROVE  \A k \in 1 .. Len(queue) : queue[k] \in Item /\ queue[k].n \in Nat
<1>1. MaxSent \in Nat
  BY DEF ConstantsOK
<1>2. \A x \in Item : x.n \in Nat
  BY <1>1 DEF Item
<1>3. \A k \in 1 .. Len(queue) : queue[k] \in Item
  BY ElementOfSeq DEF TypeOK
<1> QED
  BY <1>2, <1>3, Zenon

LEMMA QueueSend ==
  ASSUME ConstantsOK, TypeOK, QueueInv, NEW s \in Sigs, Send(s)
  PROVE  QueueInv'
<1> DEFINE item == [sig |-> s, n |-> sent + 1]
           len == Len(queue)
<1>1. queue \in Seq(Item) /\ len \in Nat /\ DOMAIN queue = 1 .. len /\ sent \in Nat
  BY LenProperties DEF TypeOK
<1>2. queue # <<>> => tail = queue[len].n
  BY DEF QueueInv, TailRight
<1>3. queue' = Append(queue, item)
  <2>1. queue' = Linked(queue, tail, item)
    BY DEF Send
  <2> QED
    BY <2>1, <1>2, Zenon DEF Linked, Last
<1>4. item.n = sent + 1 /\ item.sig = s
  OBVIOUS
<1>5. owed' = owed \cup {item} /\ tail' = sent + 1 /\ sent' = sent + 1 /\ pending' = pending \cup {s}
  BY DEF Send
<1> HIDE DEF item
<1>6. /\ Len(queue') = len + 1
      /\ \A k \in 1 .. len : queue'[k] = queue[k]
      /\ queue'[len + 1] = item
      /\ DOMAIN queue' = 1 .. len + 1 /\ queue' # <<>>
  <2> DEFINE Items == Item \cup {item}
  <2>1. queue \in Seq(Items) /\ item \in Items
    BY <1>1, SeqMonotonic
  <2>2. /\ Append(queue, item) \in Seq(Items)
        /\ Append(queue, item) # <<>>
        /\ Len(Append(queue, item)) = Len(queue) + 1
        /\ \A k \in 1 .. Len(queue) : Append(queue, item)[k] = queue[k]
        /\ Append(queue, item)[Len(queue) + 1] = item
    BY <2>1, AppendProperties, Zenon
  <2>3. DOMAIN Append(queue, item) = 1 .. len + 1
    BY <2>2, LenProperties
  <2> QED
    BY <2>2, <2>3, <1>3, Zenon
<1> HIDE DEF len
<1>7. Counted'
  <2> SUFFICES ASSUME NEW k \in DOMAIN queue' PROVE queue'[k].n <= sent'
    BY DEF Counted
  <2>1. CASE k = len + 1
    BY <2>1, <1>1, <1>4, <1>5, <1>6
  <2>2. CASE k # len + 1
    <3>1. k \in 1 .. len /\ queue'[k] = queue[k]
      BY <2>2, <1>1, <1>6
    <3>2. queue[k].n \in Nat /\ queue[k].n <= sent
      BY <3>1, <1>1, ItemCount DEF len, QueueInv, Counted
    <3> QED
      BY <3>1, <3>2, <1>1, <1>5
  <2> QED
    BY <2>1, <2>2
<1>8. TailRight'
  <2>1. queue'[Len(queue')].n = sent + 1
    BY <1>4, <1>6
  <2> QED
    BY <2>1, <1>5, <1>6, Zenon DEF TailRight
<1>9. QueueKept'
  <2>1. owed' = {queue'[k] : k \in DOMAIN queue'}
    <3>1. owed = {queue[k] : k \in 1 .. len}
      BY <1>1 DEF QueueInv, QueueKept
    <3>2. {queue'[k] : k \in 1 .. len + 1} = {queue[k] : k \in 1 .. len} \cup {item}
      BY <1>1, <1>6
    <3> QED
      BY <3>1, <3>2, <1>5, <1>6, Zenon
  <2>2. ASSUME NEW i \in DOMAIN queue', NEW j \in DOMAIN queue', i < j
        PROVE  queue'[i].n < queue'[j].n
    <3>1. i \in 1 .. len /\ queue'[i] = queue[i]
      BY <2>2, <1>1, <1>6
    <3>2. CASE j = len + 1
      <4>1. queue[i].n <= sent
        BY <3>1, <1>1 DEF QueueInv, Counted
      <4>2. queue[i].n \in Nat
        BY <3>1, ItemCount DEF len
      <4> QED
        BY <3>1, <3>2, <4>1, <4>2, <1>1, <1>4, <1>6
    <3>3. CASE j # len + 1
      <4>1. j \in 1 .. len /\ queue'[j] = queue[j]
        BY <3>3, <1>1, <1>6
      <4> QED
        BY <4>1, <3>1, <2>2, <1>1 DEF QueueInv, QueueKept
    <3> QED
      BY <3>2, <3>3
  <2>3. pending' = {queue'[k].sig : k \in DOMAIN queue'}
    <3>1. pending = {queue[k].sig : k \in 1 .. len}
      BY <1>1 DEF QueueInv, QueueKept
    <3>2. {queue'[k].sig : k \in 1 .. len + 1} = {queue[k].sig : k \in 1 .. len} \cup {s}
      BY <1>1, <1>4, <1>6
    <3> QED
      BY <3>1, <3>2, <1>5, <1>6, Zenon
  <2> QED
    BY <2>1, <2>2, <2>3 DEF QueueKept
<1> QED
  BY <1>7, <1>8, <1>9 DEF QueueInv

LEMMA QueueTaken ==
  ASSUME ConstantsOK, TypeOK, QueueInv, NEW i, Taken(i)
  PROVE  QueueInv'
<1> DEFINE len == Len(queue)
           At(k) == IF k < i THEN k ELSE k + 1
<1>1. /\ queue \in Seq(Item) /\ len \in Nat /\ DOMAIN queue = 1 .. len /\ sent \in Nat
      /\ i \in 1 .. len
  BY LenProperties DEF TypeOK, Taken
<1>2. /\ queue' \in Seq(Item) /\ Len(queue') = len - 1
      /\ \A k \in 1 .. len - 1 : queue'[k] = IF k < i THEN queue[k] ELSE queue[k + 1]
  BY <1>1, Removed DEF Taken
<1>3. DOMAIN queue' = 1 .. len - 1
  BY <1>2, LenProperties
<1>4. \A k \in 1 .. len - 1 : At(k) \in 1 .. len /\ At(k) # i /\ queue'[k] = queue[At(k)]
  BY <1>1, <1>2
<1>5. \A k, m \in 1 .. len - 1 : k < m => At(k) < At(m)
  BY <1>1
<1>6. \A j \in 1 .. len : j # i => \E k \in 1 .. len - 1 : j = At(k)
  <2>1. \A j \in 1 .. len : j < i => j \in 1 .. len - 1 /\ j = At(j)
    BY <1>1
  <2>2. \A j \in 1 .. len : j > i => j - 1 \in 1 .. len - 1 /\ j = At(j - 1)
    BY <1>1
  <2>3. \A j \in 1 .. len : j # i => j < i \/ j > i
    BY <1>1
  <2> QED
    BY <2>1, <2>2, <2>3, Zenon
<1>7. \A k \in 1 .. len : queue[k].n \in Nat
  BY ItemCount
<1>8. \A k, m \in 1 .. len : k < m => queue[k].n < queue[m].n
  BY <1>1 DEF QueueInv, QueueKept
<1>9. \A k \in 1 .. len : k # i => queue[k] # queue[i]
  <2>1. \A k \in 1 .. len : k # i => k < i \/ i < k
    BY <1>1
  <2>2. \A k \in 1 .. len : k # i => queue[k].n # queue[i].n
    BY <2>1, <1>1, <1>7, <1>8
  <2> QED
    BY <2>2, Zenon
<1> HIDE DEF At, len
<1>10. QueueKept'
  <2>1. owed' = {queue'[k] : k \in DOMAIN queue'}
    <3>1. owed = {queue[k] : k \in 1 .. len} /\ owed' = owed \ {queue[i]}
      BY <1>1 DEF QueueInv, QueueKept, Taken
    <3>2. {queue'[k] : k \in 1 .. len - 1} = {queue[k] : k \in 1 .. len} \ {queue[i]}
      <4>1. \A k \in 1 .. len - 1 :
              queue'[k] \in {queue[m] : m \in 1 .. len} /\ queue'[k] # queue[i]
        BY <1>4, <1>9, Zenon
      <4>2. \A m \in 1 .. len : queue[m] # queue[i] =>
              queue[m] \in {queue'[k] : k \in 1 .. len - 1}
        BY <1>4, <1>6, Zenon
      <4> QED
        BY <4>1, <4>2, Zenon
    <3> QED
      BY <3>1, <3>2, <1>3, Zenon
  <2>2. \A k, m \in DOMAIN queue' : k < m => queue'[k].n < queue'[m].n
    BY <1>3, <1>4, <1>5, <1>8, Zenon
  <2>3. pending' = {queue'[k].sig : k \in DOMAIN queue'}
    <3> DEFINE s == queue[i].sig
    <3>1. pending = {queue[k].sig : k \in 1 .. len}
      BY <1>1 DEF QueueInv, QueueKept
    <3>2. pending' = IF \E k \in 1 .. len - 1 : queue'[k].sig = s THEN pending ELSE pending \ {s}
      BY <1>3, Zenon DEF Taken
    <3>3. \A k \in 1 .. len - 1 : queue'[k].sig \in pending
      BY <3>1, <1>4, Zenon
    <3>4. \A x \in pending : x = s \/ \E k \in 1 .. len - 1 : queue'[k].sig = x
      <4> SUFFICES ASSUME NEW x \in pending, x # s
                   PROVE  \E k \in 1 .. len - 1 : queue'[k].sig = x
        OBVIOUS
      <4>1. PICK j \in 1 .. len : x = queue[j].sig
        BY <3>1, Zenon
      <4>2. j # i
        BY <4>1, Zenon
      <4>3. PICK k \in 1 .. len - 1 : j = At(k)
        BY <4>2, <1>6, Zenon
      <4> QED
        BY <4>1, <4>3, <1>4, Zenon
    <3>5. CASE \E k \in 1 .. len - 1 : queue'[k].sig = s
      <4>1. pending' = pending
        BY <3>5, <3>2, Zenon
      <4>2. pending = {queue'[k].sig : k \in 1 .. len - 1}
        BY <3>5, <3>3, <3>4, Zenon
      <4> QED
        BY <4>1, <4>2, <1>3, Zenon
    <3>6. CASE ~ \E k \in 1 .. len - 1 : queue'[k].sig = s
      <4>1. pending' = pending \ {s}
        BY <3>6, <3>2, Zenon
      <4>2. pending \ {s} = {queue'[k].sig : k \in 1 .. len - 1}
        BY <3>6, <3>3, <3>4, Zenon
      <4> QED
        BY <4>1, <4>2, <1>3, Zenon
    <3> QED
      BY <3>5, <3>6, Zenon
  <2> QED
    BY <2>1, <2>2, <2>3 DEF QueueKept
<1>11. Counted'
  <2>1. sent' = sent /\ \A k \in 1 .. len : queue[k].n <= sent
    BY <1>1 DEF QueueInv, Counted, Taken
  <2> QED
    BY <2>1, <1>3, <1>4, Zenon DEF Counted
<1>12. TailRight'
  <2>1. tail' = IF i < len THEN tail ELSE IF i = 1 THEN 0 ELSE queue[i - 1].n
    BY DEF Taken, TailWithout, len
  <2>2. queue # <<>> /\ tail = queue[len].n
    <3>1. queue # <<>>
      BY <1>1, EmptySeq DEF len
    <3> QED
      BY <3>1 DEF QueueInv, TailRight, len
  <2>3. CASE len = 1
    <3>1. Len(queue') = 0 /\ i = 1 /\ tail' = 0
      BY <2>1, <2>3, <1>1, <1>2
    <3>2. queue' = <<>>
      BY <3>1, <1>2, EmptySeq
    <3> QED
      BY <3>1, <3>2 DEF TailRight
  <2>4. CASE len # 1
    <3>1. Len(queue') = len - 1 /\ len - 1 \in 1 .. len - 1 /\ queue' # <<>>
      BY <2>4, <1>1, <1>2, EmptySeq
    <3>2. tail' = queue'[len - 1].n
      <4>1. CASE i < len
        <5>1. At(len - 1) = len
          BY <4>1, <1>1 DEF At
        <5> QED
          BY <5>1, <4>1, <2>1, <2>2, <3>1, <1>4
      <4>2. CASE ~(i < len)
        <5>1. i = len /\ At(len - 1) = len - 1
          BY <4>2, <1>1 DEF At
        <5> QED
          BY <5>1, <4>2, <2>1, <2>4, <3>1, <1>4
      <4> QED
        BY <4>1, <4>2
    <3> QED
      BY <3>1, <3>2 DEF TailRight
  <2> QED
    BY <2>3, <2>4
<1> QED
  BY <1>10, <1>11, <1>12 DEF QueueInv

LEMMA QueueNext ==
  ASSUME ConstantsOK, TypeOK, QueueInv, [Next]_vars
  PROVE  QueueInv'
<1>1. CASE \E s \in Sigs : Send(s)
  BY <1>1, QueueSend
<1>2. CASE CheckSignals
  <2>1. PICK i \in DOMAIN queue : Taken(i)
    BY <1>2, CheckTakes
  <2> QED
    BY <2>1, QueueTaken
<1>3. CASE UNCHANGED <<pending, queue, tail, owed, sent>>
  BY <1>3 DEF QueueInv, QueueKept, TailRight, Counted
<1>4. CASE Forked
  <2>1. pending' = {} /\ queue' = <<>> /\ tail' = 0 /\ owed' = {}
    BY <1>4 DEF Forked
  <2>2. DOMAIN queue' = {}
    BY <2>1
  <2> QED
    BY <2>1, <2>2, Zenon DEF QueueInv, QueueKept, TailRight, Counted
<1>5. SigReturn \/ (\E s \in Sigs, act \in Actions : SigAction(s, act))
      \/ (\E how \in {"block", "unblock", "setmask"}, set \in Masks : SigProcMask(how, set))
      \/ Exec \/ UNCHANGED vars => UNCHANGED <<pending, queue, tail, owed, sent>>
  BY DEF SigReturn, SigAction, SigProcMask, Exec, vars
<1> QED
  BY <1>1, <1>2, <1>3, <1>4, <1>5 DEF Next

(* No signal is lost or overtaken by a later one of its number, and the pending
   mask has exactly the numbers that are queued, for every set of signals and
   whatever is blocked when (task_signal_enqueue, check_signals).            *)
THEOREM QueueCorrect ==
  ASSUME ConstantsOK
  PROVE  Spec => []QueueKept
<1>1. Init => TypeOK
  BY TypeInit
<1>2. Init => QueueInv
  <2> SUFFICES ASSUME Init PROVE QueueInv
    OBVIOUS
  <2>1. pending = {} /\ queue = <<>> /\ tail = 0 /\ owed = {}
    BY DEF Init
  <2>2. DOMAIN queue = {}
    BY <2>1
  <2> QED
    BY <2>1, <2>2, Zenon DEF QueueInv, QueueKept, TailRight, Counted
<1>3. TypeOK /\ [Next]_vars => TypeOK'
  BY TypeNext
<1>4. TypeOK /\ QueueInv /\ [Next]_vars => QueueInv'
  BY QueueNext
<1>5. QueueInv => QueueKept
  BY DEF QueueInv
<1> QED
  BY <1>1, <1>2, <1>3, <1>4, <1>5, PTL DEF Spec

-----------------------------------------------------------------------------
(* The handlers. The mask a handler returns to was in force when it began,
   and the signals whose handlers ran then were in it.                       *)

LEMMA HandlersBegin ==
  ASSUME TypeOK, HandlersInv, NEW s, s \notin blocked, Handled(s)
  PROVE  HandlersInv'
<1>1. frames \in Seq(Frame) /\ Len(frames) \in Nat /\ DOMAIN frames = 1 .. Len(frames)
  BY LenProperties DEF TypeOK
<1>2. CASE UNCHANGED <<blocked, actions, frames, opened>>
  BY <1>2 DEF HandlersInv, NoReentry, Masked, Saved
<1>3. CASE /\ Len(frames) < MaxNested
           /\ frames' = Append(frames, [sig |-> s, mask |-> blocked])
           /\ blocked' = MaskFor(s, actions[s])
           /\ actions' = IF actions[s].resethand THEN [actions EXCEPT ![s].handler = "default"] ELSE actions
           /\ opened' = IF actions[s].nodefer THEN opened \cup {s} ELSE opened
  <2> DEFINE frame == [sig |-> s, mask |-> blocked]
             Items == Frame \cup {frame}
             len == Len(frames)
  <2>1. frames \in Seq(Items) /\ frame \in Items
    BY <1>1, SeqMonotonic
  <2>2. frame.sig = s /\ frame.mask = blocked
    OBVIOUS
  <2> HIDE DEF frame
  <2>3. /\ frames' \in Seq(Items)
        /\ Len(frames') = len + 1
        /\ \A k \in 1 .. len : frames'[k] = frames[k]
        /\ frames'[len + 1] = frame
    <3>1. frames' = Append(frames, frame)
      BY <1>3 DEF frame
    <3> QED
      BY <2>1, <3>1, AppendProperties
  <2>4. DOMAIN frames' = 1 .. len + 1
    BY <2>3, LenProperties
  <2>5. blocked \subseteq blocked' /\ opened \subseteq opened' /\ s \in blocked' \cup opened'
    BY <1>3 DEF MaskFor
  <2> HIDE DEF Items, len
  <2>6. \A k \in 1 .. len + 1 : k \in 1 .. len \/ k = len + 1
    BY <1>1 DEF len
  <2>7. \A k \in 1 .. len : frames'[k].sig \in blocked \cup opened
    BY <1>1, <2>3 DEF HandlersInv, Masked, len
  <2>8. Masked'
    BY <2>2, <2>3, <2>4, <2>5, <2>6, <2>7, Zenon DEF Masked
  <2>9. ASSUME NEW i \in DOMAIN frames', NEW j \in DOMAIN frames', i < j
        PROVE  /\ frames'[i].sig \in frames'[j].mask \cup opened'
               /\ frames'[i].sig = frames'[j].sig => frames'[i].sig \in opened'
    <3>1. i \in 1 .. len
      BY <1>1, <2>4, <2>9 DEF len
    <3>2. CASE j = len + 1
      <4>1. frames'[j].mask = blocked /\ frames'[j].sig = s
        BY <2>2, <2>3, <3>2, Zenon
      <4> QED
        BY <4>1, <3>1, <2>5, <2>7
    <3>3. CASE j \in 1 .. len
      <4>1. frames'[i] = frames[i] /\ frames'[j] = frames[j]
        BY <3>1, <3>3, <2>3
      <4>2. i \in DOMAIN frames /\ j \in DOMAIN frames
        BY <3>1, <3>3, <1>1 DEF len
      <4>3. frames[i].sig \in frames[j].mask \cup opened
        BY <4>2, <2>9 DEF HandlersInv, Saved
      <4>4. frames[i].sig = frames[j].sig => frames[i].sig \in opened
        BY <4>2, <2>9 DEF HandlersInv, NoReentry
      <4> QED
        BY <4>1, <4>3, <4>4, <2>5, Zenon
    <3> QED
      BY <3>2, <3>3, <2>4, <2>6
  <2> QED
    BY <2>8, <2>9, Zenon DEF HandlersInv, Saved, NoReentry
<1> QED
  BY <1>2, <1>3 DEF Handled

LEMMA HandlersReturn ==
  ASSUME TypeOK, HandlersInv, SigReturn
  PROVE  HandlersInv'
<1> DEFINE len == Len(frames)
<1>1. /\ frames # <<>> /\ frames \in Seq(Frame)
      /\ blocked' = frames[len].mask /\ frames' = Front(frames)
      /\ opened' = IF len = 1 THEN {} ELSE opened
  BY DEF SigReturn, Last, TypeOK
<1>2. /\ frames' \in Seq(Frame) /\ len \in Nat /\ len > 0
      /\ Len(frames') = len - 1
      /\ \A k \in 1 .. len - 1 : frames'[k] = frames[k]
  BY <1>1, Fronted
<1>3. DOMAIN frames' = 1 .. len - 1 /\ DOMAIN frames = 1 .. len
  BY <1>1, <1>2, LenProperties
<1>4. CASE len = 1
  <2>1. DOMAIN frames' = {}
    BY <1>3, <1>4
  <2> QED
    BY <2>1, Zenon DEF HandlersInv, NoReentry, Masked, Saved
<1>5. CASE len # 1
  <2>1. opened' = opened
    BY <1>1, <1>5
  <2>2. \A k \in DOMAIN frames' : k \in DOMAIN frames /\ k < len /\ frames'[k] = frames[k]
    BY <1>2, <1>3
  <2>3. len \in DOMAIN frames
    BY <1>2, <1>3
  <2>4. Masked'
    BY <2>1, <2>2, <2>3, <1>1, Zenon DEF HandlersInv, Saved, Masked
  <2>5. Saved' /\ NoReentry'
    BY <2>1, <2>2, Zenon DEF HandlersInv, Saved, NoReentry
  <2> QED
    BY <2>4, <2>5 DEF HandlersInv
<1> QED
  BY <1>4, <1>5

LEMMA HandlersNext ==
  ASSUME TypeOK, HandlersInv, [Next]_vars
  PROVE  HandlersInv'
<1>1. CASE CheckSignals
  <2>1. PICK i \in DOMAIN queue : Taken(i) /\ Handled(queue[i].sig)
    BY <1>1, CheckTakes
  <2>2. queue[i].sig \notin blocked
    BY <2>1 DEF Taken
  <2> QED
    BY <2>1, <2>2, HandlersBegin
<1>2. CASE SigReturn
  BY <1>2, HandlersReturn
<1>3. CASE \E how \in {"block", "unblock", "setmask"}, set \in Masks : SigProcMask(how, set)
  <2>1. frames' = frames
    BY <1>3 DEF SigProcMask
  <2>2. CASE frames = <<>>
    <3>1. DOMAIN frames' = {}
      BY <2>1, <2>2
    <3> QED
      BY <3>1, Zenon DEF HandlersInv, NoReentry, Masked, Saved
  <2>3. CASE frames # <<>>
    <3>1. opened' = opened \cup (blocked \ blocked')
      BY <1>3, <2>3 DEF SigProcMask
    <3>2. blocked \cup opened \subseteq blocked' \cup opened' /\ opened \subseteq opened'
      BY <3>1
    <3> QED
      BY <2>1, <3>2 DEF HandlersInv, NoReentry, Masked, Saved
  <2> QED
    BY <2>2, <2>3
<1>4. CASE Exec
  <2>1. frames' = <<>>
    BY <1>4 DEF Exec
  <2>2. DOMAIN frames' = {}
    BY <2>1
  <2> QED
    BY <2>2, Zenon DEF HandlersInv, NoReentry, Masked, Saved
<1>5. CASE UNCHANGED <<frames, blocked, opened>>
  BY <1>5 DEF HandlersInv, NoReentry, Masked, Saved
<1>6. (\E s \in Sigs : Send(s)) \/ (\E s \in Sigs, act \in Actions : SigAction(s, act))
      \/ Forked \/ UNCHANGED vars => UNCHANGED <<frames, blocked, opened>>
  BY DEF Send, SigAction, Forked, vars
<1> QED
  BY <1>1, <1>2, <1>3, <1>4, <1>5, <1>6 DEF Next

(* A handler is not entered again while it runs, to any depth of handlers
   within handlers and with any masks, unless one of them unblocks the signal
   or it was installed with SA_NODEFER (check_signals, sys_sigreturn).       *)
THEOREM HandlersCorrect ==
  ASSUME ConstantsOK
  PROVE  Spec => []NoReentry
<1>1. Init => TypeOK
  BY TypeInit
<1>2. Init => HandlersInv
  <2> SUFFICES ASSUME Init PROVE HandlersInv
    OBVIOUS
  <2>1. frames = <<>>
    BY DEF Init
  <2>2. DOMAIN frames = {}
    BY <2>1
  <2> QED
    BY <2>2, Zenon DEF HandlersInv, NoReentry, Masked, Saved
<1>3. TypeOK /\ [Next]_vars => TypeOK'
  BY TypeNext
<1>4. TypeOK /\ HandlersInv /\ [Next]_vars => HandlersInv'
  BY HandlersNext
<1>5. HandlersInv => NoReentry
  BY DEF HandlersInv
<1> QED
  BY <1>1, <1>2, <1>3, <1>4, <1>5, PTL DEF Spec

=============================================================================
