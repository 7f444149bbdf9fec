----------------------------- MODULE BufferCache -----------------------------
(* The sectors a driver sees (buffer.c): a list of buffers that only grows, a
   search, a read from the device on a miss, and write-back at a flush. A
   buffer is on the list before its sector has been read; device_read and
   device_write may fail. System calls run with preemption disabled, so that
   one task at a time is inside these functions; tasks of the kernel are not
   protected so (Preemptible). Turning the machine off forgets the buffers.

   truth and stored are history: what was last written to each sector, and
   what it held when buffer_flush_all last returned and had marked it clean.  *)
EXTENDS Naturals, FiniteSets

CONSTANTS
    CacheTasks, Sectors, Data,
    Preemptible,     \* tasks of the kernel use the cache, and the tick switches
    ReadFails, WriteFails

VARIABLES
    disk,       \* what the device holds
    buffers,    \* sector |-> {} or {[data, dirty, refcount]}: buffer_list
    task,       \* task |-> [at, sector]
    unflushed,  \* the sectors buffer_flush_all has yet to come to
    truth, stored

cacheVars == <<disk, buffers, task, unflushed, truth, stored>>

Idle == [at |-> "idle", sector |-> CHOOSE s \in Sectors : TRUE]
At(t, place) == task[t].at = place
Flushing(t) == At(t, "flushes") \/ At(t, "written")
Goes(t, place, s) == task' = [task EXCEPT ![t] = [at |-> place, sector |-> s]]

(* Only a task of the kernel is interrupted between two steps. *)
Runs(t) == Preemptible \/ \A u \in CacheTasks \ {t} : At(u, "idle")

Buffer(s) == CHOOSE b \in buffers[s] : TRUE
Cached(s) == buffers[s] # {}

-----------------------------------------------------------------------------
Raised(b) == [b EXCEPT !.refcount = @ + 1]

(* buffer_get of a buffer on the list, whatever state it is in. *)
GetCached(t, s) ==
    /\ Runs(t) /\ At(t, "idle") /\ Cached(s)
    /\ buffers' = [buffers EXCEPT ![s] = {Raised(Buffer(s))}]
    /\ Goes(t, "holds", s)
    /\ UNCHANGED <<disk, unflushed, truth, stored>>

(* create_buffer: the new buffer holds whatever kmalloc's memory held. *)
Create(t, s) ==
    /\ Runs(t) /\ At(t, "idle") /\ ~Cached(s)
    /\ \E d \in Data :
        buffers' = [buffers EXCEPT ![s] = {[data |-> d, dirty |-> FALSE, refcount |-> 0]}]
    /\ Goes(t, "reads", s)
    /\ UNCHANGED <<disk, unflushed, truth, stored>>

\* Mutant of Loaded: what was read is not kept.
LoadedNothing(b, s) == [b EXCEPT !.refcount = 1]
(* device_read has filled the buffer; the count is set, not raised. *)
Loaded(b, s) == [b EXCEPT !.data = disk[s], !.refcount = 1]

ReadDone(t) ==
    LET s == task[t].sector IN
    /\ Runs(t) /\ At(t, "reads")
    /\ buffers' = [buffers EXCEPT ![s] = {Loaded(Buffer(s), s)}]
    /\ Goes(t, "holds", s)
    /\ UNCHANGED <<disk, unflushed, truth, stored>>

(* device_read fails: a message, and the buffer is handed out all the same. *)
ReadFailed(t) ==
    LET s == task[t].sector IN
    /\ ReadFails
    /\ Runs(t) /\ At(t, "reads")
    /\ buffers' = [buffers EXCEPT ![s] = {[Buffer(s) EXCEPT !.refcount = 1]}]
    /\ Goes(t, "holds", s)
    /\ UNCHANGED <<disk, unflushed, truth, stored>>

(* The caller changes the data and sets dirty. *)
Modify(t, d) ==
    LET s == task[t].sector IN
    /\ Runs(t) /\ At(t, "holds")
    /\ buffers' = [buffers EXCEPT ![s] = {[Buffer(s) EXCEPT !.data = d, !.dirty = TRUE]}]
    /\ truth' = [truth EXCEPT ![s] = d]
    /\ UNCHANGED <<disk, task, unflushed, stored>>

Released(b) == [b EXCEPT !.refcount = IF @ > 0 THEN @ - 1 ELSE @]

Release(t) ==
    LET s == task[t].sector IN
    /\ Runs(t) /\ At(t, "holds")
    /\ buffers' = [buffers EXCEPT ![s] = {Released(Buffer(s))}]
    /\ task' = [task EXCEPT ![t] = Idle]
    /\ UNCHANGED <<disk, unflushed, truth, stored>>

(* buffer_flush_all: every buffer on the list in turn. The model lets one task
   at a time flush.                                                          *)
FlushStart(t) ==
    /\ Runs(t) /\ At(t, "idle")
    /\ \A u \in CacheTasks : ~Flushing(u)
    /\ unflushed' = {s \in Sectors : Cached(s)}
    /\ Goes(t, "flushes", Idle.sector)
    /\ UNCHANGED <<disk, buffers, truth, stored>>

\* Mutant of Written: nothing is written.
WrittenNever(s) == disk
(* buffer_flush: a dirty buffer is written, a clean one is passed over ... *)
Written(s) == IF Buffer(s).dirty THEN [disk EXCEPT ![s] = Buffer(s).data] ELSE disk

Flush(t, s) ==
    /\ Runs(t) /\ At(t, "flushes") /\ s \in unflushed
    /\ disk' = Written(s)
    /\ unflushed' = unflushed \ {s}
    /\ Goes(t, "written", s)
    /\ UNCHANGED <<buffers, truth, stored>>

(* ... and then is dirty no longer. *)
Clean(t) ==
    LET s == task[t].sector IN
    /\ Runs(t) /\ At(t, "written")
    /\ buffers' = [buffers EXCEPT ![s] = {[Buffer(s) EXCEPT !.dirty = FALSE]}]
    /\ Goes(t, "flushes", Idle.sector)
    /\ UNCHANGED <<disk, unflushed, truth, stored>>

(* device_write fails: a message, and the buffer stays dirty. *)
AfterFailure(b) == b

FlushFailed(t, s) ==
    /\ WriteFails
    /\ Runs(t) /\ At(t, "flushes") /\ s \in unflushed /\ Buffer(s).dirty
    /\ buffers' = [buffers EXCEPT ![s] = {AfterFailure(Buffer(s))}]
    /\ unflushed' = unflushed \ {s}
    /\ UNCHANGED <<disk, task, truth, stored>>

FlushDone(t) ==
    /\ Runs(t) /\ At(t, "flushes") /\ unflushed = {}
    /\ stored' = [s \in Sectors |-> IF Cached(s) /\ ~Buffer(s).dirty
                                    THEN Buffer(s).data ELSE stored[s]]
    /\ task' = [task EXCEPT ![t] = Idle]
    /\ UNCHANGED <<disk, buffers, unflushed, truth>>

(* Off and on again: what has not reached the disk is gone. *)
Restart ==
    /\ buffers' = [s \in Sectors |-> {}]
    /\ task' = [t \in CacheTasks |-> Idle]
    /\ unflushed' = {}
    /\ truth' = disk /\ stored' = disk
    /\ UNCHANGED disk

CacheInit ==
    /\ disk \in [Sectors -> Data]
    /\ buffers = [s \in Sectors |-> {}]
    /\ task = [t \in CacheTasks |-> Idle]
    /\ unflushed = {}
    /\ truth = disk /\ stored = disk

CacheNext ==
    \/ \E t \in CacheTasks :
        \/ \E s \in Sectors :
             GetCached(t, s) \/ Create(t, s) \/ Flush(t, s) \/ FlushFailed(t, s)
        \/ ReadDone(t) \/ ReadFailed(t) \/ Release(t)
        \/ FlushStart(t) \/ Clean(t) \/ FlushDone(t)
        \/ \E d \in Data : Modify(t, d)
    \/ Restart

CacheSpec == CacheInit /\ [][CacheNext]_cacheVars

-----------------------------------------------------------------------------
CacheTypeOK ==
    /\ disk \in [Sectors -> Data] /\ truth \in [Sectors -> Data] /\ stored \in [Sectors -> Data]
    /\ \A s \in Sectors : Cardinality(buffers[s]) <= 1
    /\ \A s \in Sectors : \A b \in buffers[s] :
          b.data \in Data /\ b.dirty \in BOOLEAN /\ b.refcount \in 0 .. Cardinality(CacheTasks)
    /\ \A t \in CacheTasks : task[t].at \in {"idle", "reads", "holds", "flushes", "written"}
    /\ unflushed \subseteq Sectors

(* Whoever holds a buffer holds what was last written to its sector, by any
   task, flushed or not: "3. If no: read from disk, add to cache"
   (docs/kernel/filesystem.md:247; buffer_get). A buffer that is not dirty may
   be left out of a flush: the disk holds the same (buffer_flush).            *)
HoldsLatest ==
    /\ \A t \in CacheTasks : At(t, "holds") =>
          /\ Cached(task[t].sector)
          /\ Buffer(task[t].sector).data = truth[task[t].sector]
    /\ \A s \in Sectors : Cached(s) /\ ~Buffer(s).dirty
          /\ (\A t \in CacheTasks : At(t, "reads") => task[t].sector # s)
          => Buffer(s).data = disk[s]

(* "Persistence: All operations persist to disk via buffer cache"
   (docs/kernel/filesystem.md:145): what a sector held when buffer_flush_all
   returned is on the disk until a later flush writes something newer, unless
   the device refused it and the buffer is still dirty.                       *)
Persists ==
    \A s \in Sectors :
        \/ disk[s] = stored[s]
        \/ s \notin unflushed /\ \E t \in CacheTasks : Flushing(t)
=============================================================================
