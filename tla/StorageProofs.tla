--------------------------- MODULE StorageProofs ---------------------------
(***************************************************************************)
(* Proofs about the disk's layers: the buffer cache hands out what was     *)
(* last written and flushes it, the packed allocation table keeps its      *)
(* entries and its copies as one table of numbers would, and a formatted   *)
(* disk is mounted with entries that fit; for every set of sectors, every  *)
(* shape of table and every size of disk the hypotheses admit.             *)
(***************************************************************************)
EXTENDS BufferCache, FatTable, FatFormat, WellFoundedInduction, TLAPS

(* The buffer cache *)

BufferType == [data : Data, dirty : BOOLEAN, refcount : Nat]

\* What the state consists of: a sector has no buffer or one.
CacheTypes ==
  /\ disk \in [Sectors -> Data] /\ truth \in [Sectors -> Data] /\ stored \in [Sectors -> Data]
  /\ buffers \in [Sectors -> {{}} \cup {{b} : b \in BufferType}]
  /\ task \in [CacheTasks -> [at : {"idle", "reads", "holds", "flushes", "written"},
                              sector : Sectors \cup {Idle.sector}]]
  /\ unflushed \subseteq Sectors

\* One task at a time is inside the cache, and what it works on is there.
Alone == \A t, u \in CacheTasks : ~At(t, "idle") /\ ~At(u, "idle") => t = u
Working ==
  \A t \in CacheTasks :
    /\ At(t, "reads") \/ At(t, "holds") \/ At(t, "written") =>
         task[t].sector \in Sectors /\ Cached(task[t].sector)
    /\ Flushing(t) => \A s \in unflushed : Cached(s)

\* A buffer holds what was last written to its sector, and so does the disk if
\* the buffer is clean or there is none; a buffer that is being read is clean.
Reading(s) == \E t \in CacheTasks : At(t, "reads") /\ task[t].sector = s
Coherent ==
  \A s \in Sectors :
    /\ Cached(s) /\ ~Reading(s) => Buffer(s).data = truth[s]
    /\ Cached(s) /\ Buffer(s).dirty => ~Reading(s)
    /\ (Cached(s) /\ Buffer(s).dirty) \/ truth[s] = disk[s]

\* While buffer_flush_all runs, a sector it has written is dirty only until the
\* next step; one it could not write is still what was stored.
WrittenOut ==
  \A t \in CacheTasks : At(t, "written") =>
    disk[task[t].sector] = truth[task[t].sector] /\ task[t].sector \notin unflushed
Stored ==
  \A s \in Sectors :
    \/ disk[s] = stored[s]
    \/ /\ s \notin unflushed
       /\ \E t \in CacheTasks :
            \/ Flushing(t) /\ Cached(s) /\ ~Buffer(s).dirty
            \/ At(t, "written") /\ task[t].sector = s

CacheInv == CacheTypes /\ Alone /\ Working /\ Coherent /\ WrittenOut /\ Stored

\* The element of a singleton.
LEMMA TheBuffer == \A b : (CHOOSE x \in {b} : TRUE) = b
OBVIOUS

\* What there is to know of a buffer on the list.
LEMMA BufferFacts ==
  ASSUME CacheTypes, NEW s \in Sectors, Cached(s)
  PROVE  Buffer(s) \in BufferType /\ buffers[s] = {Buffer(s)}
<1>1. PICK b \in BufferType : buffers[s] = {b}
  BY DEF CacheTypes, Cached
<1>2. Buffer(s) = b
  BY <1>1, TheBuffer DEF Buffer
<1> QED
  BY <1>1, <1>2

\* The buffers after a step that changes one.
LEMMA OneBuffer ==
  ASSUME CacheTypes, NEW s \in Sectors, NEW b \in BufferType,
         buffers' = [buffers EXCEPT ![s] = {b}]
  PROVE  /\ Cached(s)' /\ Buffer(s)' = b
         /\ \A r \in Sectors \ {s} : Cached(r)' = Cached(r) /\ Buffer(r)' = Buffer(r)
         /\ buffers' \in [Sectors -> {{}} \cup {{x} : x \in BufferType}]
<1>1. buffers'[s] = {b} /\ \A r \in Sectors \ {s} : buffers'[r] = buffers[r]
  BY DEF CacheTypes
<1>2. Buffer(s)' = b
  BY <1>1, TheBuffer DEF Buffer
<1>3. \A r \in Sectors \ {s} : Buffer(r)' = Buffer(r)
  BY <1>1 DEF Buffer
<1>4. buffers' \in [Sectors -> {{}} \cup {{x} : x \in BufferType}]
  BY DEF CacheTypes
<1> QED
  BY <1>1, <1>2, <1>3, <1>4 DEF Cached

\* While a system call is inside the cache, no other task is.
LEMMA OthersIdle ==
  ASSUME ~Preemptible, NEW t \in CacheTasks, Runs(t)
  PROVE  \A u \in CacheTasks \ {t} : At(u, "idle")
BY DEF Runs

\* The invariant when t is the only task that may be inside.
SectorOK(t, s) ==
  /\ Cached(s) /\ ~(At(t, "reads") /\ task[t].sector = s) => Buffer(s).data = truth[s]
  /\ Cached(s) /\ Buffer(s).dirty => ~(At(t, "reads") /\ task[t].sector = s)
  /\ (Cached(s) /\ Buffer(s).dirty) \/ truth[s] = disk[s]
  /\ \/ disk[s] = stored[s]
     \/ /\ s \notin unflushed
        /\ \/ Flushing(t) /\ Cached(s) /\ ~Buffer(s).dirty
           \/ At(t, "written") /\ task[t].sector = s
Works(t) ==
  /\ At(t, "reads") \/ At(t, "holds") \/ At(t, "written") =>
       task[t].sector \in Sectors /\ Cached(task[t].sector)
  /\ Flushing(t) => \A s \in unflushed : Cached(s)
  /\ At(t, "written") =>
       disk[task[t].sector] = truth[task[t].sector] /\ task[t].sector \notin unflushed
Inside(t) ==
  /\ t \in CacheTasks
  /\ CacheTypes
  /\ \A u \in CacheTasks \ {t} : At(u, "idle")
  /\ Works(t)
  /\ \A s \in Sectors : SectorOK(t, s)

\* What the task inside the cache needs to know is all there is to know.
LEMMA InsideInvNext == \A t \in CacheTasks : Inside(t)' => CacheInv'
BY DEF Inside, SectorOK, Works, CacheInv, Alone, Working, Coherent, WrittenOut, Stored, Reading,
   At, Flushing

\* The other way round.
LEMMA InvInside ==
  ASSUME CacheInv, ~Preemptible, NEW t \in CacheTasks, Runs(t)
  PROVE  Inside(t)
<1>1. \A u \in CacheTasks \ {t} : At(u, "idle")
  BY OthersIdle
<1> QED
  BY <1>1 DEF Inside, SectorOK, Works, CacheInv, Alone, Working, Coherent, WrittenOut, Stored, Reading, At, Flushing

\* A task that goes on elsewhere leaves the others where they are.
LEMMA GoesFacts ==
  ASSUME CacheTypes, NEW t \in CacheTasks, NEW place \in {"idle", "reads", "holds", "flushes", "written"},
         NEW s \in Sectors \cup {Idle.sector}, Goes(t, place, s)
  PROVE  /\ At(t, place)' /\ task'[t].at = place /\ task'[t].sector = s
         /\ \A u \in CacheTasks \ {t} : task'[u] = task[u]
         /\ task' \in [CacheTasks -> [at : {"idle", "reads", "holds", "flushes", "written"},
                                       sector : Sectors \cup {Idle.sector}]]
BY DEF CacheTypes, Goes, At

\* buffer_get of a sector that has a buffer.
LEMMA GetCachedInside ==
  ASSUME NEW t, Inside(t), NEW s \in Sectors, GetCached(t, s)
  PROVE  Inside(t)'
<1> DEFINE b == Raised(Buffer(s))
<1>1. Buffer(s) \in BufferType
  BY BufferFacts DEF Inside, GetCached
<1>2. b \in BufferType /\ b.data = Buffer(s).data /\ b.dirty = Buffer(s).dirty
  BY <1>1 DEF Raised, BufferType
<1>3. /\ Cached(s)' /\ Buffer(s)' = b
      /\ \A r \in Sectors \ {s} : Cached(r)' = Cached(r) /\ Buffer(r)' = Buffer(r)
      /\ buffers' \in [Sectors -> {{}} \cup {{x} : x \in BufferType}]
  BY <1>2, OneBuffer DEF GetCached, Inside
<1>4. /\ At(t, "holds")' /\ task'[t].at = "holds" /\ task'[t].sector = s
      /\ \A u \in CacheTasks \ {t} : task'[u] = task[u]
      /\ task' \in [CacheTasks -> [at : {"idle", "reads", "holds", "flushes", "written"},
                                       sector : Sectors \cup {Idle.sector}]]
  BY GoesFacts DEF GetCached, Inside
<1>5. CacheTypes'
  BY <1>3, <1>4 DEF Inside, GetCached, CacheTypes
<1>6. \A u \in CacheTasks \ {t} : At(u, "idle")'
  BY <1>4 DEF Inside, At
<1>7. ASSUME NEW r \in Sectors PROVE SectorOK(t, r)'
  BY <1>2, <1>3, <1>4 DEF Inside, SectorOK, GetCached, At, Flushing
<1>8. Works(t)'
  BY <1>2, <1>3, <1>4 DEF Works, At, Flushing, Cached
<1> QED
  BY <1>5, <1>6, <1>7, <1>8 DEF Inside

\* The type of a task that has left.
LEMMA IdleFacts ==
  ASSUME CacheTypes, NEW t \in CacheTasks, task' = [task EXCEPT ![t] = Idle]
  PROVE  /\ At(t, "idle")' /\ task'[t].at = "idle" /\ task'[t].sector = Idle.sector
         /\ \A u \in CacheTasks \ {t} : task'[u] = task[u]
         /\ task' \in [CacheTasks -> [at : {"idle", "reads", "holds", "flushes", "written"},
                                       sector : Sectors \cup {Idle.sector}]]
BY DEF CacheTypes, Idle, At

\* buffer_get of one that has none.
LEMMA CreateInside ==
  ASSUME NEW t, Inside(t), NEW s \in Sectors, Create(t, s)
  PROVE  Inside(t)'
<1>1. PICK b \in BufferType :
        b.dirty = FALSE /\ buffers' = [buffers EXCEPT ![s] = {b}]
  BY DEF Create, BufferType
<1>2. t \in CacheTasks /\ ~Cached(s)
  BY DEF Inside, Create
<1>3. /\ Cached(s)' /\ Buffer(s)' = b
      /\ \A r \in Sectors \ {s} : Cached(r)' = Cached(r) /\ Buffer(r)' = Buffer(r)
      /\ buffers' \in [Sectors -> {{}} \cup {{x} : x \in BufferType}]
  BY <1>1, OneBuffer DEF Inside
<1>4. /\ At(t, "reads")' /\ task'[t].at = "reads" /\ task'[t].sector = s
      /\ \A u \in CacheTasks \ {t} : task'[u] = task[u]
      /\ task' \in [CacheTasks -> [at : {"idle", "reads", "holds", "flushes", "written"},
                                       sector : Sectors \cup {Idle.sector}]]
  BY GoesFacts DEF Create, Inside
<1>5. CacheTypes'
  BY <1>2, <1>3, <1>4 DEF Inside, Create, CacheTypes
<1>6. \A u \in CacheTasks \ {t} : At(u, "idle")'
  BY <1>4 DEF Inside, At
<1>7. ASSUME NEW r \in Sectors PROVE SectorOK(t, r)'
  BY <1>1, <1>2, <1>3, <1>4 DEF Inside, SectorOK, Works, Create, At, Flushing
<1>8. Works(t)'
  BY <1>1, <1>2, <1>3, <1>4 DEF Inside, Works, SectorOK, Create, At, Flushing, Cached
<1> QED
  BY <1>5, <1>6, <1>7, <1>8 DEF Inside

\* The sector a task works on.
LEMMA OwnSector ==
  ASSUME NEW t, Inside(t), At(t, "reads") \/ At(t, "holds") \/ At(t, "written")
  PROVE  /\ t \in CacheTasks /\ task[t].sector \in Sectors /\ Cached(task[t].sector)
         /\ Buffer(task[t].sector) \in BufferType
BY BufferFacts DEF Inside, Works

\* The disk's answer.
LEMMA ReadDoneInside ==
  ASSUME NEW t, Inside(t), ReadDone(t), NEW s, s = task[t].sector
  PROVE  Inside(t)'
<1> DEFINE b == Loaded(Buffer(s), s)
<1>1. s \in Sectors /\ Cached(s) /\ Buffer(s) \in BufferType /\ t \in CacheTasks
  BY OwnSector DEF ReadDone
<1>2. b \in BufferType /\ b.data = disk[s] /\ b.dirty = Buffer(s).dirty
  BY <1>1 DEF Loaded, BufferType, Inside, CacheTypes
<1> HIDE DEF b
<1>3. /\ Cached(s)' /\ Buffer(s)' = b
      /\ \A r \in Sectors \ {s} : Cached(r)' = Cached(r) /\ Buffer(r)' = Buffer(r)
      /\ buffers' \in [Sectors -> {{}} \cup {{x} : x \in BufferType}]
  BY <1>1, <1>2, OneBuffer DEF ReadDone, Inside, b
<1>4. /\ At(t, "holds")' /\ task'[t].at = "holds" /\ task'[t].sector = s
      /\ \A u \in CacheTasks \ {t} : task'[u] = task[u]
      /\ task' \in [CacheTasks -> [at : {"idle", "reads", "holds", "flushes", "written"},
                                       sector : Sectors \cup {Idle.sector}]]
  BY <1>1, GoesFacts DEF ReadDone, Inside
<1>5. CacheTypes'
  BY <1>2, <1>3, <1>4 DEF Inside, ReadDone, CacheTypes
<1>6. \A u \in CacheTasks \ {t} : At(u, "idle")'
  BY <1>4 DEF Inside, At
<1>7. ASSUME NEW r \in Sectors PROVE SectorOK(t, r)'
  BY <1>1, <1>2, <1>3, <1>4 DEF Inside, SectorOK, Works, ReadDone, At, Flushing
<1>8. Works(t)'
  BY <1>1, <1>2, <1>3, <1>4 DEF Inside, Works, SectorOK, ReadDone, At, Flushing, Cached
<1> QED
  BY <1>5, <1>6, <1>7, <1>8 DEF Inside

\* The caller writes to the buffer it holds.
LEMMA ModifyInside ==
  ASSUME NEW t, Inside(t), NEW d \in Data, Modify(t, d), NEW s, s = task[t].sector
  PROVE  Inside(t)'
<1> DEFINE b == [Buffer(s) EXCEPT !.data = d, !.dirty = TRUE]
<1>1. s \in Sectors /\ Cached(s) /\ Buffer(s) \in BufferType /\ t \in CacheTasks
  BY OwnSector DEF Modify
<1>2. b \in BufferType /\ b.data = d /\ b.dirty = TRUE
  BY <1>1 DEF BufferType
<1> HIDE DEF b
<1>3. /\ Cached(s)' /\ Buffer(s)' = b
      /\ \A r \in Sectors \ {s} : Cached(r)' = Cached(r) /\ Buffer(r)' = Buffer(r)
      /\ buffers' \in [Sectors -> {{}} \cup {{x} : x \in BufferType}]
  BY <1>1, <1>2, OneBuffer DEF Modify, Inside, b
<1>4. /\ At(t, "holds")' /\ task' = task /\ task[t].at = "holds"
      /\ truth' \in [Sectors -> Data] /\ truth'[s] = d
      /\ \A r \in Sectors \ {s} : truth'[r] = truth[r]
  BY <1>1 DEF Modify, Inside, CacheTypes, At
<1>5. CacheTypes'
  BY <1>2, <1>3, <1>4 DEF Inside, Modify, CacheTypes
<1>6. \A u \in CacheTasks \ {t} : At(u, "idle")'
  BY <1>4 DEF Inside, At
<1>7. ASSUME NEW r \in Sectors PROVE SectorOK(t, r)'
  BY <1>1, <1>2, <1>3, <1>4 DEF Inside, SectorOK, Works, Modify, At, Flushing
<1>8. Works(t)'
  BY <1>1, <1>2, <1>3, <1>4 DEF Inside, Works, SectorOK, Modify, At, Flushing, Cached
<1> QED
  BY <1>5, <1>6, <1>7, <1>8 DEF Inside

\* buffer_release.
LEMMA ReleaseInside ==
  ASSUME NEW t, Inside(t), Release(t), NEW s, s = task[t].sector
  PROVE  Inside(t)'
<1> DEFINE b == Released(Buffer(s))
<1>1. s \in Sectors /\ Cached(s) /\ Buffer(s) \in BufferType /\ t \in CacheTasks
  BY OwnSector DEF Release
<1>2. b \in BufferType /\ b.data = Buffer(s).data /\ b.dirty = Buffer(s).dirty
  BY <1>1 DEF Released, BufferType
<1> HIDE DEF b
<1>3. /\ Cached(s)' /\ Buffer(s)' = b
      /\ \A r \in Sectors \ {s} : Cached(r)' = Cached(r) /\ Buffer(r)' = Buffer(r)
      /\ buffers' \in [Sectors -> {{}} \cup {{x} : x \in BufferType}]
  BY <1>1, <1>2, OneBuffer DEF Release, Inside, b
<1>4. /\ At(t, "idle")' /\ task'[t].at = "idle" /\ task'[t].sector = Idle.sector
      /\ \A u \in CacheTasks \ {t} : task'[u] = task[u]
      /\ task' \in [CacheTasks -> [at : {"idle", "reads", "holds", "flushes", "written"},
                                       sector : Sectors \cup {Idle.sector}]]
  BY <1>1, IdleFacts DEF Release, Inside
<1>5. CacheTypes'
  BY <1>2, <1>3, <1>4 DEF Inside, Release, CacheTypes
<1>6. \A u \in CacheTasks \ {t} : At(u, "idle")'
  BY <1>4 DEF Inside, At
<1>7. ASSUME NEW r \in Sectors PROVE SectorOK(t, r)'
  BY <1>1, <1>2, <1>3, <1>4 DEF Inside, SectorOK, Works, Release, At, Flushing
<1>8. Works(t)'
  BY <1>1, <1>2, <1>3, <1>4 DEF Inside, Works, SectorOK, Release, At, Flushing, Cached
<1> QED
  BY <1>5, <1>6, <1>7, <1>8 DEF Inside

\* A step that leaves the buffers alone.
LEMMA SameBuffers ==
  ASSUME UNCHANGED buffers
  PROVE  \A s \in Sectors : Cached(s)' = Cached(s) /\ Buffer(s)' = Buffer(s)
BY DEF Cached, Buffer

\* buffer_flush_all begins.
LEMMA FlushStartInside ==
  ASSUME NEW t, Inside(t), FlushStart(t)
  PROVE  Inside(t)'
<1>1. t \in CacheTasks /\ unflushed' = {s \in Sectors : Cached(s)} /\ At(t, "idle")
  BY DEF Inside, FlushStart
<1>2. UNCHANGED buffers
  BY DEF FlushStart
<1>3. \A s \in Sectors : Cached(s)' = Cached(s) /\ Buffer(s)' = Buffer(s)
  BY <1>2, SameBuffers
<1>4. /\ At(t, "flushes")' /\ task'[t].at = "flushes" /\ task'[t].sector = Idle.sector
      /\ \A u \in CacheTasks \ {t} : task'[u] = task[u]
      /\ task' \in [CacheTasks -> [at : {"idle", "reads", "holds", "flushes", "written"},
                                       sector : Sectors \cup {Idle.sector}]]
  BY <1>1, GoesFacts DEF FlushStart, Inside
<1>5. CacheTypes'
  BY <1>2, <1>3, <1>4 DEF Inside, FlushStart, CacheTypes
<1>6. \A u \in CacheTasks \ {t} : At(u, "idle")'
  BY <1>4 DEF Inside, At
<1>7. ASSUME NEW r \in Sectors PROVE SectorOK(t, r)'
  BY <1>1, <1>2, <1>3, <1>4 DEF Inside, SectorOK, Works, FlushStart, At, Flushing
<1>8. Works(t)'
  BY <1>1, <1>2, <1>3, <1>4 DEF Inside, Works, SectorOK, FlushStart, At, Flushing, Cached
<1> QED
  BY <1>5, <1>6, <1>7, <1>8 DEF Inside

\* It writes a dirty buffer.
LEMMA FlushInside ==
  ASSUME NEW t, Inside(t), NEW s \in Sectors, Flush(t, s)
  PROVE  Inside(t)'
<1>1. /\ t \in CacheTasks /\ At(t, "flushes") /\ s \in unflushed /\ Cached(s)
      /\ Buffer(s) \in BufferType
  BY BufferFacts DEF Inside, Flush, Works, Flushing
<1>2. /\ disk' \in [Sectors -> Data] /\ disk'[s] = truth[s]
      /\ \A r \in Sectors \ {s} : disk'[r] = disk[r]
  <2>1. SectorOK(t, s) /\ ~At(t, "reads")
    BY <1>1 DEF Inside, At
  <2>2. Buffer(s).data = truth[s] /\ (Buffer(s).dirty \/ truth[s] = disk[s])
    BY <1>1, <2>1 DEF SectorOK
  <2>3. disk' = Written(s) /\ disk \in [Sectors -> Data] /\ Buffer(s).data \in Data
    BY <1>1 DEF Flush, Inside, CacheTypes, BufferType
  <2> QED
    BY <2>2, <2>3 DEF Written
<1>3. \A r \in Sectors : Cached(r)' = Cached(r) /\ Buffer(r)' = Buffer(r)
  BY SameBuffers DEF Flush
<1>4. /\ At(t, "written")' /\ task'[t].at = "written" /\ task'[t].sector = s
      /\ \A u \in CacheTasks \ {t} : task'[u] = task[u]
      /\ task' \in [CacheTasks -> [at : {"idle", "reads", "holds", "flushes", "written"},
                                       sector : Sectors \cup {Idle.sector}]]
  BY <1>1, GoesFacts DEF Flush, Inside
<1>5. CacheTypes'
  BY <1>2, <1>3, <1>4 DEF Inside, Flush, CacheTypes
<1>6. \A u \in CacheTasks \ {t} : At(u, "idle")'
  BY <1>4 DEF Inside, At
<1>7. ASSUME NEW r \in Sectors PROVE SectorOK(t, r)'
  BY <1>1, <1>2, <1>3, <1>4 DEF Inside, SectorOK, Works, Flush, At, Flushing
<1>8. Works(t)'
  BY <1>1, <1>2, <1>3, <1>4 DEF Inside, Works, SectorOK, Flush, At, Flushing, Cached
<1> QED
  BY <1>5, <1>6, <1>7, <1>8 DEF Inside

\* It marks it clean.
LEMMA CleanInside ==
  ASSUME NEW t, Inside(t), Clean(t), NEW s, s = task[t].sector
  PROVE  Inside(t)'
<1> DEFINE b == [Buffer(s) EXCEPT !.dirty = FALSE]
<1>1. s \in Sectors /\ Cached(s) /\ Buffer(s) \in BufferType /\ t \in CacheTasks
  BY OwnSector DEF Clean
<1>2. b \in BufferType /\ b.data = Buffer(s).data /\ b.dirty = FALSE
  BY <1>1 DEF BufferType
<1> HIDE DEF b
<1>3. /\ Cached(s)' /\ Buffer(s)' = b
      /\ \A r \in Sectors \ {s} : Cached(r)' = Cached(r) /\ Buffer(r)' = Buffer(r)
      /\ buffers' \in [Sectors -> {{}} \cup {{x} : x \in BufferType}]
  BY <1>1, <1>2, OneBuffer DEF Clean, Inside, b
<1>4. /\ At(t, "flushes")' /\ task'[t].at = "flushes" /\ task'[t].sector = Idle.sector
      /\ \A u \in CacheTasks \ {t} : task'[u] = task[u]
      /\ task' \in [CacheTasks -> [at : {"idle", "reads", "holds", "flushes", "written"},
                                       sector : Sectors \cup {Idle.sector}]]
  BY <1>1, GoesFacts DEF Clean, Inside
<1>5. CacheTypes'
  BY <1>2, <1>3, <1>4 DEF Inside, Clean, CacheTypes
<1>6. \A u \in CacheTasks \ {t} : At(u, "idle")'
  BY <1>4 DEF Inside, At
<1>7. ASSUME NEW r \in Sectors PROVE SectorOK(t, r)'
  BY <1>1, <1>2, <1>3, <1>4 DEF Inside, SectorOK, Works, Clean, At, Flushing
<1>8. Works(t)'
  BY <1>1, <1>2, <1>3, <1>4 DEF Inside, Works, SectorOK, Clean, At, Flushing, Cached
<1> QED
  BY <1>5, <1>6, <1>7, <1>8 DEF Inside

\* The disk did not take it.
LEMMA FlushFailedInside ==
  ASSUME NEW t, Inside(t), NEW s \in Sectors, FlushFailed(t, s)
  PROVE  Inside(t)'
<1> DEFINE b == Buffer(s)
<1>1. /\ t \in CacheTasks /\ At(t, "flushes") /\ s \in unflushed /\ Cached(s)
      /\ Buffer(s) \in BufferType /\ Buffer(s).dirty
  BY BufferFacts DEF Inside, FlushFailed, Works, Flushing
<1>2. buffers' = [buffers EXCEPT ![s] = {b}]
  BY DEF FlushFailed, AfterFailure
<1>3. /\ Cached(s)' /\ Buffer(s)' = b
      /\ \A r \in Sectors \ {s} : Cached(r)' = Cached(r) /\ Buffer(r)' = Buffer(r)
      /\ buffers' \in [Sectors -> {{}} \cup {{x} : x \in BufferType}]
  BY <1>1, <1>2, OneBuffer DEF Inside
<1>4. task' = task /\ At(t, "flushes")' /\ task[t].at = "flushes"
  BY <1>1 DEF FlushFailed, At
<1>5. CacheTypes'
  BY <1>2, <1>3, <1>4 DEF Inside, FlushFailed, CacheTypes
<1>6. \A u \in CacheTasks \ {t} : At(u, "idle")'
  BY <1>4 DEF Inside, At
<1>7. ASSUME NEW r \in Sectors PROVE SectorOK(t, r)'
  BY <1>1, <1>2, <1>3, <1>4 DEF Inside, SectorOK, Works, FlushFailed, At, Flushing
<1>8. Works(t)'
  BY <1>1, <1>2, <1>3, <1>4 DEF Inside, Works, SectorOK, FlushFailed, At, Flushing, Cached
<1> QED
  BY <1>5, <1>6, <1>7, <1>8 DEF Inside

\* It returns.
LEMMA FlushDoneInside ==
  ASSUME NEW t, Inside(t), FlushDone(t)
  PROVE  Inside(t)'
<1>1. t \in CacheTasks /\ unflushed = {} /\ task[t].at = "flushes"
  BY DEF Inside, FlushDone, At
<1>2. stored' \in [Sectors -> Data] /\ \A s \in Sectors : disk[s] = stored'[s]
  <2>1. ASSUME NEW s \in Sectors PROVE stored'[s] \in Data /\ disk[s] = stored'[s]
    <3>1. SectorOK(t, s) /\ disk[s] \in Data /\ stored[s] \in Data
      BY DEF Inside, CacheTypes
    <3>2. stored'[s] = IF Cached(s) /\ ~Buffer(s).dirty THEN Buffer(s).data ELSE stored[s]
      BY DEF FlushDone
    <3> QED
      BY <1>1, <3>1, <3>2 DEF SectorOK, At, Flushing
  <2>2. DOMAIN stored' = Sectors /\ stored' = [s \in Sectors |-> stored'[s]]
    BY DEF FlushDone
  <2> QED
    BY <2>1, <2>2
<1>3. \A s \in Sectors : Cached(s)' = Cached(s) /\ Buffer(s)' = Buffer(s)
  BY SameBuffers DEF FlushDone
<1>4. /\ At(t, "idle")' /\ task'[t].at = "idle" /\ task'[t].sector = Idle.sector
      /\ \A u \in CacheTasks \ {t} : task'[u] = task[u]
      /\ task' \in [CacheTasks -> [at : {"idle", "reads", "holds", "flushes", "written"},
                                       sector : Sectors \cup {Idle.sector}]]
  BY <1>1, IdleFacts DEF FlushDone, Inside
<1>5. CacheTypes'
  BY <1>2, <1>3, <1>4 DEF Inside, FlushDone, CacheTypes
<1>6. \A u \in CacheTasks \ {t} : At(u, "idle")'
  BY <1>4 DEF Inside, At
<1>7. ASSUME NEW r \in Sectors PROVE SectorOK(t, r)'
  BY <1>1, <1>2, <1>3, <1>4 DEF Inside, SectorOK, Works, FlushDone, At, Flushing
<1>8. Works(t)'
  BY <1>1, <1>2, <1>3, <1>4 DEF Inside, Works, SectorOK, FlushDone, At, Flushing, Cached
<1> QED
  BY <1>5, <1>6, <1>7, <1>8 DEF Inside

\* The empty cache.
LEMMA CacheInitInv == CacheInit => CacheInv
<1> SUFFICES ASSUME CacheInit PROVE CacheInv
  OBVIOUS
<1>1. /\ CacheTypes
      /\ \A s \in Sectors : buffers[s] = {} /\ truth[s] = disk[s] /\ stored[s] = disk[s]
      /\ \A t \in CacheTasks : task[t].at = "idle"
  BY DEF CacheInit, CacheTypes, Idle
<1> QED
  BY <1>1 DEF CacheInv, Alone, Working, Coherent, WrittenOut, Stored, Cached, At, Flushing

\* Every step of every task, and a restart.
LEMMA CacheNextInv ==
  ASSUME ~Preemptible, ~ReadFails, CacheInv, [CacheNext]_cacheVars
  PROVE  CacheInv'
<1> DEFINE Step(t) ==
      \/ \E s \in Sectors :
            GetCached(t, s) \/ Create(t, s) \/ Flush(t, s) \/ FlushFailed(t, s)
      \/ ReadDone(t) \/ Release(t)
      \/ FlushStart(t) \/ Clean(t) \/ FlushDone(t)
      \/ \E d \in Data : Modify(t, d)
<1>1. CASE UNCHANGED cacheVars
  BY <1>1 DEF cacheVars, CacheInv, CacheTypes, Alone, Working, Coherent, WrittenOut, Stored,
     Reading, Cached, Buffer, At, Flushing
<1>2. CASE Restart
  <2>1. /\ CacheTypes'
        /\ \A s \in Sectors : buffers'[s] = {} /\ truth'[s] = disk'[s] /\ stored'[s] = disk'[s]
        /\ \A t \in CacheTasks : task'[t].at = "idle"
    BY <1>2 DEF Restart, CacheInv, CacheTypes, Idle
  <2> QED
    BY <2>1 DEF CacheInv, Alone, Working, Coherent, WrittenOut, Stored, Cached, At, Flushing
<1>3. ASSUME NEW t \in CacheTasks, Step(t) PROVE CacheInv'
  <2>1. Runs(t)
    BY <1>3 DEF GetCached, Create, Flush, FlushFailed, ReadDone, Release, FlushStart, Clean,
       FlushDone, Modify
  <2>2. Inside(t)
    BY <2>1, InvInside
  <2>3. Inside(t)'
    BY <1>3, <2>2, GetCachedInside, CreateInside, FlushInside, FlushFailedInside, ReadDoneInside,
       ReleaseInside, FlushStartInside, CleanInside, FlushDoneInside, ModifyInside
  <2> QED
    BY <2>3, InsideInvNext
<1> QED
  BY <1>1, <1>2, <1>3 DEF CacheNext, ReadFailed

\* So the invariant holds throughout.
LEMMA CacheSafe ==
  ASSUME ~Preemptible, ~ReadFails
  PROVE  CacheSpec => []CacheInv
BY CacheInitInv, CacheNextInv, PTL DEF CacheSpec

\* In system calls, which no other task interrupts (syscall_handler), and as
\* long as the device can be read: whoever holds a buffer holds what was last
\* written to its sector, and a buffer that a flush passes over because it is
\* clean says what the disk says (buffer_get, buffer_flush).
THEOREM BuffersLatest == ASSUME ~Preemptible, ~ReadFails PROVE CacheSpec => []HoldsLatest
<1>1. CacheInv => HoldsLatest
  <2> SUFFICES ASSUME CacheInv PROVE HoldsLatest
    OBVIOUS
  <2>1. ASSUME NEW t \in CacheTasks, At(t, "holds")
        PROVE  /\ Cached(task[t].sector)
               /\ Buffer(task[t].sector).data = truth[task[t].sector]
    <3>1. task[t].sector \in Sectors /\ Cached(task[t].sector)
      BY <2>1 DEF CacheInv, Working
    <3>2. ~Reading(task[t].sector)
      BY <2>1 DEF CacheInv, Alone, Reading, At
    <3> QED
      BY <3>1, <3>2 DEF CacheInv, Coherent
  <2> QED
    BY <2>1 DEF CacheInv, Coherent, HoldsLatest, Reading
<1> QED
  BY <1>1, CacheSafe, PTL

\* Under the same conditions, and with writes that fail and restarts at any
\* point: what a sector held when buffer_flush_all returned is on the disk until
\* a later flush writes something newer.
THEOREM FlushedPersists == ASSUME ~Preemptible, ~ReadFails PROVE CacheSpec => []Persists
<1>1. CacheInv => Persists
  BY DEF CacheInv, Stored, Persists, Flushing
<1> QED
  BY <1>1, CacheSafe, PTL

-----------------------------------------------------------------------------
(* The allocation table *)

\* A set of numbers has a least element. The order of the numbers:
Less == OpToRel(<, Nat)

\* It has one, as < is well-founded on the naturals.
LEMMA LessWellFounded == IsWellFoundedOn(Less, Nat)
BY NatLessThanWellFounded, Zenon DEF Less

\* Below, in the relation.
LEMMA InLess == \A x, y \in Nat : y < x => <<y, x>> \in Less
BY DEF OpToRel, Less

\* The least element.
LEMMA LeastNat ==
  ASSUME NEW S \in SUBSET Nat, S # {}
  PROVE  \E n \in S : \A m \in S : n <= m
<1>1. \E x \in S : \A y \in S : ~(<<y, x>> \in Less)
  BY LessWellFounded, WFMin, Zenon
<1>2. PICK x \in S : \A y \in S : ~(<<y, x>> \in Less)
  BY <1>1
<1>3. ASSUME NEW y \in S PROVE x <= y
  <2>1. x \in Nat /\ y \in Nat
    OBVIOUS
  <2>2. y < x => <<y, x>> \in Less
    BY <2>1, InLess, Zenon
  <2>3. ~(<<y, x>> \in Less)
    BY <1>2
  <2>4. ~(y < x)
    BY <2>2, <2>3, Zenon
  <2> QED
    BY <2>1, <2>4
<1> QED
  BY <1>3

\* The arithmetic of bytes and of entries packed three bytes to two.
LEMMA Halves ==
  ASSUME NEW c \in Nat
  PROVE  \E k \in Nat : /\ c \div 2 = k
                        /\ (c = 2 * k /\ c % 2 = 0) \/ (c = 2 * k + 1 /\ c % 2 = 1)
OBVIOUS

Bytes == 0 .. 255
Words == {w \in Nat : w <= 65535}
HalfWords == {w \in Nat : w <= 4095}     \* entries of 12 bits

\* A word whose low half byte is clear.
Aligned(w) == (w % 256) % 16 = 0

\* The value to store, moved to the upper 12 bits, leaves the lower half byte clear.
LEMMA ShiftedWord ==
  ASSUME NEW v \in HalfWords, NEW again \in BOOLEAN
  PROVE  Shifted(v, again) \in Words /\ Aligned(Shifted(v, again))
<1>1. 16 * v \in Words
  BY DEF Words, HalfWords
<1>2. Aligned(16 * v)
  BY DEF Aligned, HalfWords
<1>3. (256 * v) % 65536 \in Words
  <2>1. v \in Nat
    BY DEF HalfWords
  <2>2. (256 * v) % 65536 \in Nat
    BY <2>1
  <2>3. (256 * v) % 65536 <= 65535
    BY <2>1
  <2> QED
    BY <2>2, <2>3 DEF Words
<1>4. Aligned((256 * v) % 65536)
  BY DEF Aligned, HalfWords
<1>5. CASE again
  BY <1>3, <1>4, <1>5 DEF Shifted
<1>6. CASE ~again
  BY <1>1, <1>2, <1>6 DEF Shifted
<1> QED
  BY <1>5, <1>6

\* What fat_init has read fits: each entry lies inside its copy.
LEMMA VolumeFacts ==
  ASSUME TableOK, volume \in Volumes
  PROVE  /\ volume.fat16 \in BOOLEAN /\ volume.last \in Nat
         /\ volume.numFats \in {1, 2} /\ 0 \in Copies /\ \A i \in Copies : i \in {0, 1}
         /\ Clusters \subseteq Nat
         /\ \A c \in Clusters : /\ c \in Nat /\ Low(c) \in Nat
                                /\ Low(c) \in Offsets /\ High(c) \in Offsets
<1> DEFINE N == volume.fatSize * volume.sectorSize
<1>1. /\ volume.fat16 \in BOOLEAN /\ volume.last \in Nat /\ volume.numFats \in {1, 2}
      /\ N \in Nat /\ 2 * volume.last + 1 < N
  BY DEF TableOK
<1>2. Offsets = 0 .. N - 1
  BY DEF Offsets
<1> HIDE DEF N
<1>3. ASSUME NEW c \in Clusters
      PROVE  c \in Nat /\ Low(c) \in Nat /\ Low(c) \in Offsets /\ High(c) \in Offsets
  <2>1. c \in Nat /\ c <= volume.last /\ c \div 2 \in Nat /\ c \div 2 <= c
    BY <1>1 DEF Clusters
  <2> QED
    BY <1>1, <1>2, <2>1 DEF Low, High
<1>4. 0 \in Copies /\ \A i \in Copies : i \in {0, 1}
  BY <1>1 DEF Copies
<1> QED
  BY <1>1, <1>3, <1>4 DEF Clusters

\* Where the entries of two clusters may meet: in the byte between an even
\* cluster and the odd one after it.
LEMMA Meet ==
  ASSUME TableOK, volume \in Volumes, NEW c \in Clusters, NEW e \in Clusters, c # e
  PROVE  /\ Low(e) # Low(c) /\ High(e) # High(c)
         /\ Low(e) = High(c) => ~volume.fat16 /\ ~Odd(c) /\ Odd(e)
<1>1. c \in Nat /\ e \in Nat /\ volume.fat16 \in BOOLEAN
  BY VolumeFacts
<1>2. PICK k \in Nat : /\ c \div 2 = k
                       /\ (c = 2 * k /\ c % 2 = 0) \/ (c = 2 * k + 1 /\ c % 2 = 1)
  BY <1>1, Halves
<1>3. PICK j \in Nat : /\ e \div 2 = j
                       /\ (e = 2 * j /\ e % 2 = 0) \/ (e = 2 * j + 1 /\ e % 2 = 1)
  BY <1>1, Halves
<1>4. CASE volume.fat16
  BY <1>1, <1>4 DEF Low, High
<1>5. CASE ~volume.fat16
  <2>1. Low(c) = c + k /\ High(c) = c + k + 1 /\ Low(e) = e + j /\ High(e) = e + j + 1
    BY <1>2, <1>3, <1>5 DEF Low, High
  <2> QED
    BY <1>1, <1>2, <1>3, <1>5, <2>1 DEF Odd
<1> QED
  BY <1>4, <1>5

\* What is stored of an entry is a word.
LEMMA WordType ==
  ASSUME TableOK, volume \in Volumes, NEW c \in Clusters, NEW v \in EntryValues,
         NEW i, NEW missing
  PROVE  /\ Word(c, v, i, missing) \in Words
         /\ ~volume.fat16 /\ Odd(c) => Aligned(Word(c, v, i, missing))
         /\ ~volume.fat16 /\ ~Odd(c) => Word(c, v, i, missing) \in HalfWords
<1>0. v \in IF volume.fat16 THEN Words ELSE HalfWords
  <2>1. CASE volume.fat16
    BY <2>1 DEF EntryValues, Eoc, Words
  <2>2. CASE ~volume.fat16
    BY <2>2 DEF EntryValues, Eoc, HalfWords
  <2> QED
    BY <2>1, <2>2
<1>a. ASSUME NEW w \in HalfWords PROVE w \in Words
  <2>1. w \in Nat /\ w <= 4095
    BY DEF HalfWords
  <2>2. w <= 65535
    BY <2>1
  <2> QED
    BY <2>1, <2>2 DEF Words
<1>1. CASE volume.fat16
  BY <1>0, <1>1 DEF Word
<1>2. CASE ~volume.fat16 /\ Odd(c)
  <2> DEFINE again == i = 1 /\ LowGiven(0, c, missing)
  <2>1. Word(c, v, i, missing) = Shifted(v, again) /\ v \in HalfWords /\ again \in BOOLEAN
    BY <1>0, <1>2 DEF Word
  <2> HIDE DEF again
  <2> QED
    BY <1>2, <2>1, ShiftedWord
<1>3. CASE ~volume.fat16 /\ ~Odd(c)
  BY <1>0, <1>a, <1>3 DEF Word
<1> QED
  BY <1>1, <1>2, <1>3

\* What fat_set_fat_entry stores is a byte, and the byte an entry shares with
\* its neighbour keeps the neighbour's half.
LEMMA LowByteType ==
  ASSUME NEW c, NEW w \in Words, NEW old \in Bytes,
         ~volume.fat16 /\ Odd(c) => Aligned(w)
  PROVE  /\ LowByte(c, w, old) \in Bytes
         /\ ~volume.fat16 /\ Odd(c) => LowByte(c, w, old) % 16 = old % 16
<1> DEFINE x == w % 256
<1>1. x \in Bytes
  BY DEF Bytes, Words
<1>2. ~volume.fat16 /\ Odd(c) => x % 16 = 0
  BY DEF Aligned
<1>3. LowByte(c, w, old) = x + (IF ~volume.fat16 /\ Odd(c) THEN old % 16 ELSE 0)
  BY DEF LowByte
<1> HIDE DEF x
<1>4. CASE ~volume.fat16 /\ Odd(c)
  <2>1. LowByte(c, w, old) = x + (old % 16) /\ x % 16 = 0
    BY <1>2, <1>3, <1>4
  <2>2. (x + (old % 16)) % 16 = old % 16
    BY <1>1, <2>1 DEF Bytes
  <2>3. x + (old % 16) \in Bytes
    BY <1>1, <2>1 DEF Bytes
  <2> QED
    BY <2>1, <2>2, <2>3
<1>5. CASE ~(~volume.fat16 /\ Odd(c))
  BY <1>1, <1>3, <1>5 DEF Bytes
<1> QED
  BY <1>4, <1>5

\* Its high byte, merged with the neighbour's.
LEMMA HighByteType ==
  ASSUME NEW c, NEW w \in Words, NEW old \in Bytes,
         ~volume.fat16 /\ ~Odd(c) => w \in HalfWords
  PROVE  /\ HighByte(c, w, old) \in Bytes
         /\ ~volume.fat16 /\ ~Odd(c) => HighByte(c, w, old) \div 16 = old \div 16
<1> DEFINE y == w \div 256
<1>1. y \in Nat
  BY DEF Words
<1>2. y <= 255
  BY DEF Words
<1>3. ASSUME ~volume.fat16 /\ ~Odd(c) PROVE y <= 15
  <2>1. w \in Nat /\ w <= 4095
    BY <1>3 DEF HalfWords
  <2> QED
    BY <2>1
<1>4. HighByte(c, w, old) = y + (IF ~volume.fat16 /\ ~Odd(c) THEN (old \div 16) * 16 ELSE 0)
  BY DEF HighByte
<1> HIDE DEF y
<1>5. CASE ~volume.fat16 /\ ~Odd(c)
  <2>1. HighByte(c, w, old) = y + ((old \div 16) * 16) /\ y \in 0 .. 15
    BY <1>1, <1>3, <1>4, <1>5
  <2>2. (y + ((old \div 16) * 16)) \div 16 = old \div 16
    BY <2>1 DEF Bytes
  <2>3. y + ((old \div 16) * 16) \in Bytes
    BY <2>1 DEF Bytes
  <2> QED
    BY <2>1, <2>2, <2>3
<1>6. CASE ~(~volume.fat16 /\ ~Odd(c))
  BY <1>1, <1>2, <1>4, <1>6 DEF Bytes
<1> QED
  BY <1>5, <1>6

\* A 12-bit entry goes by one byte and a half.
EvenOf(a, b) == (a + 256 * b) % 4096
OddOf(a, b) == (a + 256 * b) \div 16

\* An even entry, read back.
LEMMA EvenValue ==
  ASSUME NEW a \in Bytes, NEW b \in Bytes
  PROVE  EvenOf(a, b) = a + (256 * (b % 16))
<1> DEFINE q == b \div 16
           r == b % 16
<1>1. a \in Nat /\ a <= 255 /\ b \in Nat
  BY DEF Bytes
<1>2. q \in Nat /\ r \in Nat /\ r <= 15 /\ b = 16 * q + r
  BY <1>1
<1> HIDE DEF q, r
<1>3. a + 256 * b = 4096 * q + (a + 256 * r)
  BY <1>1, <1>2
<1>4. (4096 * q + (a + 256 * r)) % 4096 = a + 256 * r
  BY <1>1, <1>2
<1>5. EvenOf(a, b) = a + 256 * r
  BY <1>3, <1>4 DEF EvenOf
<1> QED
  BY <1>5 DEF r

\* An even entry does not depend on the upper half of its second byte.
LEMMA EvenSame ==
  ASSUME NEW a \in Bytes, NEW b \in Bytes, NEW x \in Bytes, b % 16 = x % 16
  PROVE  EvenOf(a, b) = EvenOf(a, x)
<1>1. EvenOf(a, b) = a + (256 * (b % 16))
  BY EvenValue
<1>2. EvenOf(a, x) = a + (256 * (x % 16))
  BY EvenValue
<1> QED
  BY <1>1, <1>2

\* An odd entry does not depend on the lower half of its first byte.
LEMMA OddSame ==
  ASSUME NEW a \in Bytes, NEW b \in Bytes, NEW x \in Bytes, a \div 16 = x \div 16
  PROVE  OddOf(a, b) = OddOf(x, b)
<1>1. OddOf(a, b) = (a \div 16) + (16 * b)
  BY DEF OddOf, Bytes
<1>2. OddOf(x, b) = (x \div 16) + (16 * b)
  BY DEF OddOf, Bytes
<1> QED
  BY <1>1, <1>2

\* fat_get_fat_entry by its bytes.
LEMMA DecodeBy ==
  ASSUME NEW d, NEW c
  PROVE  Decode(d, c) = IF volume.fat16 THEN d[Low(c)] + 256 * d[High(c)]
                        ELSE IF Odd(c) THEN OddOf(d[Low(c)], d[High(c)])
                        ELSE EvenOf(d[Low(c)], d[High(c)])
BY DEF Decode, OddOf, EvenOf

\* It returns an entry.
LEMMA DecodeType ==
  ASSUME TableOK, volume \in Volumes, NEW d \in [Offsets -> Bytes], NEW c \in Clusters
  PROVE  Decode(d, c) \in Nat
<1>1. d[Low(c)] \in Nat /\ d[High(c)] \in Nat
  BY VolumeFacts DEF Bytes
<1>2. d[Low(c)] + 256 * d[High(c)] \in Nat
  BY <1>1
<1>3. OddOf(d[Low(c)], d[High(c)]) \in Nat
  BY <1>1 DEF OddOf
<1>4. EvenOf(d[Low(c)], d[High(c)]) \in Nat
  BY <1>1 DEF EvenOf
<1> QED
  BY <1>2, <1>3, <1>4, DecodeBy

\* What a write does to one copy.
LEMMA PutCopy ==
  ASSUME TableOK, TableTypeOK, UNCHANGED volume, NEW c \in Clusters, NEW v \in EntryValues,
         NEW missing, Put(c, v, missing), NEW i \in Copies
  PROVE  LET w == Word(c, v, i, missing) IN
         /\ bytes[i] \in [Offsets -> Bytes] /\ bytes'[i] \in [Offsets -> Bytes]
         /\ \A a \in Offsets \ {Low(c), High(c)} : bytes'[i][a] = bytes[i][a]
         /\ \/ bytes'[i][Low(c)] = bytes[i][Low(c)]
            \/ bytes'[i][Low(c)] = LowByte(c, w, bytes[i][Low(c)])
         /\ \/ bytes'[i][High(c)] = bytes[i][High(c)]
            \/ bytes'[i][High(c)] = HighByte(c, w, bytes[i][High(c)])
<1> DEFINE w == Word(c, v, i, missing)
<1>1. bytes[i] \in [Offsets -> Bytes]
  BY DEF TableTypeOK, Bytes
<1>2. bytes'[i] = [a \in Offsets |->
        IF a = Low(c) /\ LowGiven(i, c, missing) THEN LowByte(c, w, bytes[i][a])
        ELSE IF a = High(c) /\ HighGiven(i, c, missing) THEN HighByte(c, w, bytes[i][a])
        ELSE bytes[i][a]]
  BY DEF Put
<1>3. Low(c) \in Offsets /\ High(c) \in Offsets /\ Low(c) # High(c)
  BY VolumeFacts DEF TableTypeOK, High
<1>4. /\ w \in Words
      /\ ~volume.fat16 /\ Odd(c) => Aligned(w)
      /\ ~volume.fat16 /\ ~Odd(c) => w \in HalfWords
  BY WordType DEF TableTypeOK
<1> HIDE DEF w
<1>5. ASSUME NEW a \in Offsets
      PROVE  LowByte(c, w, bytes[i][a]) \in Bytes /\ HighByte(c, w, bytes[i][a]) \in Bytes
  BY <1>1, <1>4, LowByteType, HighByteType
<1>6. bytes'[i] \in [Offsets -> Bytes]
  BY <1>1, <1>2, <1>5
<1> QED
  BY <1>1, <1>2, <1>3, <1>6 DEF w

\* fat_set_fat_entry changes one cluster's entry.
LEMMA Independent ==
  ASSUME TableOK, TableTypeOK, UNCHANGED volume, NEW c \in Clusters, NEW v \in EntryValues,
         NEW missing, Put(c, v, missing), NEW i \in Copies, NEW e \in Clusters, e # c
  PROVE  Decode(bytes'[i], e) = Decode(bytes[i], e)
<1> DEFINE w == Word(c, v, i, missing)
           d == bytes[i]
           x == bytes'[i]
<1>1. /\ d \in [Offsets -> Bytes] /\ x \in [Offsets -> Bytes]
      /\ \A a \in Offsets \ {Low(c), High(c)} : x[a] = d[a]
      /\ x[Low(c)] = d[Low(c)] \/ x[Low(c)] = LowByte(c, w, d[Low(c)])
      /\ x[High(c)] = d[High(c)] \/ x[High(c)] = HighByte(c, w, d[High(c)])
  BY PutCopy
<1>2. /\ w \in Words
      /\ ~volume.fat16 /\ Odd(c) => Aligned(w)
      /\ ~volume.fat16 /\ ~Odd(c) => w \in HalfWords
  BY WordType DEF TableTypeOK
<1> HIDE DEF w, d, x
<1>3. /\ Low(c) \in Offsets /\ High(c) \in Offsets /\ Low(e) \in Offsets /\ High(e) \in Offsets
      /\ volume.fat16 \in BOOLEAN
  BY VolumeFacts DEF TableTypeOK
<1>4. /\ Low(e) # Low(c) /\ High(e) # High(c)
      /\ Low(e) = High(c) => ~volume.fat16 /\ ~Odd(c) /\ Odd(e)
      /\ Low(c) = High(e) => ~volume.fat16 /\ ~Odd(e) /\ Odd(c)
  BY Meet DEF TableTypeOK
<1>5. ~volume.fat16 /\ Odd(c) => x[Low(c)] % 16 = d[Low(c)] % 16
  BY <1>1, <1>2, <1>3, LowByteType
<1>6. ~volume.fat16 /\ ~Odd(c) => x[High(c)] \div 16 = d[High(c)] \div 16
  BY <1>1, <1>2, <1>3, HighByteType
<1>7. CASE volume.fat16
  <2>1. x[Low(e)] = d[Low(e)] /\ x[High(e)] = d[High(e)]
    BY <1>1, <1>3, <1>4, <1>7
  <2> QED
    BY <1>7, <2>1, DecodeBy DEF x, d
<1>8. CASE ~volume.fat16 /\ Odd(e)
  <2>1. x[High(e)] = d[High(e)]
    BY <1>1, <1>3, <1>4, <1>8
  <2>2. x[Low(e)] \div 16 = d[Low(e)] \div 16
    BY <1>1, <1>3, <1>4, <1>6, <1>8
  <2>3. OddOf(x[Low(e)], x[High(e)]) = OddOf(d[Low(e)], d[High(e)])
    BY <1>1, <1>3, <2>1, <2>2, OddSame
  <2> QED
    BY <1>8, <2>3, DecodeBy DEF x, d
<1>9. CASE ~volume.fat16 /\ ~Odd(e)
  <2>1. x[Low(e)] = d[Low(e)]
    BY <1>1, <1>3, <1>4, <1>9
  <2>2. x[High(e)] % 16 = d[High(e)] % 16
    BY <1>1, <1>3, <1>4, <1>5, <1>9
  <2>3. EvenOf(x[Low(e)], x[High(e)]) = EvenOf(d[Low(e)], d[High(e)])
    BY <1>1, <1>3, <2>1, <2>2, EvenSame
  <2> QED
    BY <1>9, <2>3, DecodeBy DEF x, d
<1> QED
  BY <1>7, <1>8, <1>9

\* A cleared table.
LEMMA TableInitType == ASSUME TableOK, TableInit PROVE TableTypeOK
<1>1. ASSUME NEW a
      PROVE  (CASE a = 0 -> 248
                [] a \in (IF volume.fat16 THEN 1 .. 3 ELSE 1 .. 2) -> 255
                [] OTHER -> 0) \in 0 .. 255
  <2> DEFINE marked == IF volume.fat16 THEN 1 .. 3 ELSE 1 .. 2
  <2>1. 0 \notin marked
    OBVIOUS
  <2> HIDE DEF marked
  <2> SUFFICES (CASE a = 0 -> 248 [] a \in marked -> 255 [] OTHER -> 0) \in 0 .. 255
    BY DEF marked
  <2> QED
    BY <2>1
<1> QED
  BY <1>1 DEF TableInit, TableTypeOK

\* Every step writes the entry of one cluster, with a value of its width.
LEMMA StepPuts ==
  ASSUME TableOK, TableTypeOK, TableNext
  PROVE  /\ UNCHANGED <<volume, scarce>>
         /\ \E c \in Clusters, v \in EntryValues, missing \in Missing : Put(c, v, missing)
<1>1. volume.last \in Nat /\ 2 .. volume.last \subseteq Clusters
  BY VolumeFacts DEF TableTypeOK, Clusters
<1>2. CASE Link
  BY <1>1, <1>2 DEF Link
<1>3. CASE Claim
  <2>1. PICK missing \in Missing : FindFree(missing) # 0 /\ Put(FindFree(missing), Eoc, missing)
    BY <1>3 DEF Claim
  <2> DEFINE free == {c \in 2 .. volume.last : Get(c, missing) = 0}
  <2>2. FindFree(missing) \in Clusters
    <3>1. FindFree(missing) = IF free = {} THEN 0
                              ELSE CHOOSE c \in free : \A e \in free : c <= e
      BY DEF FindFree
    <3>2. free # {} /\ free \subseteq Nat
      BY <2>1, <3>1
    <3>3. \E c \in free : \A e \in free : c <= e
      BY <3>2, LeastNat
    <3> QED
      BY <1>1, <3>1, <3>2, <3>3
  <2>3. Eoc \in EntryValues
    BY DEF Eoc, EntryValues
  <2> QED
    BY <1>3, <2>1, <2>2, <2>3 DEF Claim
<1> QED
  BY <1>2, <1>3 DEF TableNext

\* Every step stores bytes.
LEMMA TableNextType ==
  ASSUME TableOK, TableTypeOK, TableNext PROVE TableTypeOK'
<1>1. PICK c \in Clusters, v \in EntryValues, missing \in Missing : Put(c, v, missing)
  BY StepPuts
<1>2. UNCHANGED <<volume, scarce>>
  BY StepPuts
<1>3. \A i \in Copies : bytes'[i] \in [Offsets -> Bytes]
  BY <1>1, <1>2, PutCopy
<1>4. bytes' = [i \in Copies |-> bytes'[i]]
  BY <1>1 DEF Put
<1>5. Copies' = Copies /\ Offsets' = Offsets
  BY <1>2 DEF Copies, Offsets
<1> QED
  BY <1>2, <1>3, <1>4, <1>5 DEF TableTypeOK, Bytes

\* The type of the state, for every disk whose table is large enough for its
\* clusters: what fat_set_fat_entry composes are bytes.
THEOREM BytesStored == ASSUME TableOK PROVE TableSpec => []TableTypeOK
<1>1. TableTypeOK /\ UNCHANGED tableVars => TableTypeOK'
  BY DEF TableTypeOK, tableVars, Copies, Offsets
<1> QED
  BY <1>1, TableInitType, TableNextType, PTL DEF TableSpec

\* A write of one entry leaves every other cluster's alone, whatever sectors
\* are out of reach, for tables of any size and of both widths
\* (fat_set_fat_entry and fat_get_fat_entry).
THEOREM TableImplemented == ASSUME TableOK PROVE TableSpec => EntriesIndependent
<1> DEFINE entries == [c \in Clusters |-> Decode(bytes[0], c)]
<1>1. ASSUME TableTypeOK PROVE 0 \in Copies /\ bytes[0] \in [Offsets -> Bytes]
  BY <1>1, VolumeFacts DEF TableTypeOK, Bytes
<1>2. TableInit => Table!Init
  <2> SUFFICES ASSUME TableInit PROVE Table!Init
    OBVIOUS
  <2>1. TableTypeOK
    BY TableInitType
  <2> QED
    BY <1>1, <2>1, DecodeType DEF Table!Init, TableTypeOK
<1>3. TableTypeOK /\ TableTypeOK' /\ [TableNext]_tableVars => [Table!Next]_entries
  <2> SUFFICES ASSUME TableTypeOK, TableTypeOK', [TableNext]_tableVars
               PROVE  [Table!Next]_entries
    OBVIOUS
  <2>1. CASE UNCHANGED tableVars
    <3>1. UNCHANGED <<volume, bytes>>
      BY <2>1 DEF tableVars
    <3>2. UNCHANGED entries
      BY <3>1 DEF Clusters, Decode, Low, High, Odd
    <3> QED
      BY <3>2
  <2>2. CASE TableNext
    <3>1. UNCHANGED volume
      BY <2>2, StepPuts
    <3>2. PICK c \in Clusters, v \in EntryValues, missing \in Missing : Put(c, v, missing)
      BY <2>2, StepPuts
    <3>3. Clusters' = Clusters /\ Offsets' = Offsets /\ Copies' = Copies
      BY <3>1 DEF Clusters, Offsets, Copies
    <3>4. \A e \in Clusters : Decode(bytes[0], e)' = Decode(bytes'[0], e)
      BY <3>1 DEF Decode, Low, High, Odd
    <3>5. \A e \in Clusters : e # c => Decode(bytes'[0], e) = Decode(bytes[0], e)
      BY <1>1, <3>1, <3>2, Independent
    <3>6. Decode(bytes'[0], c) \in Nat
      BY <1>1, <3>1, <3>3, DecodeType DEF TableTypeOK, Bytes
    <3>7. entries' = [e \in Clusters |-> Decode(bytes'[0], e)]
      BY <3>3, <3>4
    <3>8. entries'[c] = Decode(bytes'[0], c) /\ DOMAIN entries = Clusters
      BY <3>7
    <3>9. entries' = [entries EXCEPT ![c] = entries'[c]]
      BY <3>5, <3>7, <3>8
    <3>10. entries'[c] \in Nat
      BY <3>6, <3>8
    <3>11. Table!Write(c)
      BY <3>9, <3>10 DEF Table!Write
    <3> QED
      BY <3>8, <3>11 DEF Table!Next
  <2> QED
    BY <2>1, <2>2
<1> QED
  BY <1>2, <1>3, BytesStored, PTL DEF EntriesIndependent, Table!Spec, TableSpec

\* With entries of 16 bits, and as long as sectors can be had, every copy of
\* the table says the same (fat_set_fat_entry).
THEOREM CopiesKept == ASSUME TableOK PROVE TableSpec => []CopiesAgree
<1> DEFINE Same == volume.fat16 /\ ~scarce => \A i \in Copies : bytes[i] = bytes[0]
<1>1. TableInit => Same
  <2> SUFFICES ASSUME TableInit, NEW i \in Copies PROVE bytes[i] = bytes[0]
    OBVIOUS
  <2> QED
    BY VolumeFacts DEF TableInit
<1>2. TableTypeOK /\ Same /\ [TableNext]_tableVars => Same'
  <2> SUFFICES ASSUME TableTypeOK, Same, [TableNext]_tableVars, (volume.fat16 /\ ~scarce)'
               PROVE  \A i \in Copies' : bytes'[i] = bytes'[0]
    OBVIOUS
  <2>1. CASE UNCHANGED tableVars
    BY <2>1 DEF tableVars, Copies
  <2>2. CASE TableNext
    <3>1. UNCHANGED <<volume, scarce>> /\ Missing = {{}} /\ volume.fat16
      BY <2>2, StepPuts DEF Missing
    <3>2. PICK c \in Clusters, v \in EntryValues : Put(c, v, {})
      BY <2>2, <3>1, StepPuts
    <3>3. \A i \in Copies : /\ bytes[i] = bytes[0]
                             /\ Word(c, v, i, {}) = v /\ LowGiven(i, c, {}) /\ HighGiven(i, c, {})
      BY <3>1 DEF Word, LowGiven, HighGiven
    <3>4. 0 \in Copies /\ Copies' = Copies
      BY <3>1, VolumeFacts DEF TableTypeOK, Copies
    <3>5. \A i \in Copies : bytes'[i] = [a \in Offsets |->
            IF a = Low(c) THEN LowByte(c, v, bytes[0][a])
            ELSE IF a = High(c) THEN HighByte(c, v, bytes[0][a]) ELSE bytes[0][a]]
      BY <3>2, <3>3 DEF Put
    <3> QED
      BY <3>4, <3>5
  <2> QED
    BY <2>1, <2>2
<1>3. Same => CopiesAgree
  BY DEF CopiesAgree
<1> QED
  BY <1>1, <1>2, <1>3, BytesStored, PTL DEF TableSpec

-----------------------------------------------------------------------------
(* Formatting *)

\* The sizes a file system fits on as fat_format lays it out: for 12 bits, what
\* the nine sectors of its table reach; for 16 bits, enough clusters, of the
\* sectors counted in 16 bits, that fat_init sees a FAT16 disk.
FitsTable(n) == n <= 3103 \/ (UseFat16(n) /\ Total16(n) >= 4150)

BootType == [fat16 : BOOLEAN, totalSectors : Nat, rootEntries : {0, 224, 512}, fatSize : Nat]

\* What the boot sector says of the disk.
Described ==
  /\ boot.fat16 <=> UseFat16(total)
  /\ boot.totalSectors = Total16(total)
  /\ UseFat16(total) => boot.rootEntries = 512
  /\ ~UseFat16(total) => boot.rootEntries = 224 /\ boot.fatSize = 9

\* What fat_format has decided at each step of the way. The table of a FAT16
\* disk is never larger than the sectors call for, so clusters are left.
Decided ==
  /\ total \in Disks /\ boot \in BootType
  /\ pc \in {"start", "sizing", "formatted", "mounted"}
  /\ pc = "start" => boot.fatSize = 0 /\ boot.totalSectors = 0
  /\ pc # "start" => Described
  /\ pc # "start" /\ UseFat16(total) =>
       1 <= boot.fatSize /\ 512 * boot.fatSize <= 2 * boot.totalSectors + 449
  /\ pc = "sizing" => UseFat16(total)
  /\ pc \in {"formatted", "mounted"} /\ UseFat16(total) => NextSize(boot) = boot.fatSize
  /\ pc # "mounted" => type = "none"
  /\ pc = "mounted" =>
       type = (IF ClusterCount(boot) < 4085 THEN "FAT12"
               ELSE IF ClusterCount(boot) < 65525 THEN "FAT16" ELSE "FAT32")

\* The sectors of a disk.
LEMMA Sizes ==
  ASSUME FormatOK, NEW n \in Disks
  PROVE  /\ n \in Nat /\ Total16(n) \in Nat /\ 64 <= Total16(n) /\ Total16(n) < 65536
         /\ n < 65536 => Total16(n) = n
BY DEF FormatOK, Total16

\* The root directory's sectors.
LEMMA Roots == RootSectors(512) = 32 /\ RootSectors(224) = 14
BY DEF RootSectors, EntrySize, SectorSize

\* One turn of the loop, for s sectors and a table of f sectors.
LEMMA Turn ==
  ASSUME NEW s \in Nat, 64 <= s, NEW f \in Nat, 512 * f <= 2 * s + 449
  PROVE  LET c == s - (33 + 2 * f)
             g == ((c + 2) * 2 + 511) \div 512
         IN g \in Nat /\ 1 <= g /\ 512 * g <= 2 * s + 449
OBVIOUS

\* Nothing is decided at first.
LEMMA FormatInitDecided == FormatInit => Decided
BY DEF FormatInit, Decided, BootType

\* The choice of the type.
LEMMA StartDecides ==
  ASSUME FormatOK, Decided, Start
  PROVE  Decided'
<1>1. total \in Disks /\ total' = total /\ pc = "start" /\ type' = type /\ type = "none"
  BY DEF Decided, Start
<1>2. /\ total \in Nat /\ Total16(total) \in Nat
      /\ 64 <= Total16(total) /\ Total16(total) < 65536
  BY <1>1, Sizes
<1>3. /\ UseFat16(total) \in BOOLEAN
      /\ boot' = [fat16 |-> UseFat16(total), totalSectors |-> Total16(total),
                  rootEntries |-> IF UseFat16(total) THEN 512 ELSE 224,
                  fatSize |-> IF UseFat16(total) THEN 1 ELSE 9]
  BY <1>2 DEF Start, UseFat16
<1>4. /\ boot' \in BootType
      /\ boot'.fat16 <=> UseFat16(total)
      /\ boot'.totalSectors = Total16(total)
      /\ UseFat16(total) => boot'.rootEntries = 512 /\ boot'.fatSize = 1
      /\ ~UseFat16(total) => boot'.rootEntries = 224 /\ boot'.fatSize = 9
  BY <1>2, <1>3 DEF BootType
<1>5. pc' = IF UseFat16(total) THEN "sizing" ELSE "formatted"
  BY DEF Start
<1>6. Described'
  BY <1>1, <1>4 DEF Described
<1> QED
  BY <1>1, <1>2, <1>4, <1>5, <1>6 DEF Decided

\* The clusters that a FAT16 table of f sectors leaves.
LEMMA Count16 ==
  ASSUME FormatOK, Decided, pc # "start", UseFat16(total)
  PROVE  /\ ClusterCount(boot) = Total16(total) - (33 + (2 * boot.fatSize))
         /\ NextSize(boot) =
              (((Total16(total) - (33 + (2 * boot.fatSize))) + 2) * 2 + 511) \div 512
<1>1. /\ total \in Disks /\ boot.fatSize \in Nat
      /\ boot.totalSectors = Total16(total) /\ boot.rootEntries = 512
  BY DEF Decided, Described, BootType
<1>2. Total16(total) \in Nat
  BY <1>1, Sizes
<1> DEFINE s == Total16(total)
           f == boot.fatSize
<1>4. ClusterCount(boot) = s - (1 + (2 * f) + 32)
  BY <1>1, Roots DEF ClusterCount, Reserved, NumFats
<1>5. ClusterCount(boot) = s - (33 + (2 * f))
  BY <1>1, <1>2, <1>4
<1> QED
  BY <1>5 DEF NextSize, Needed, SectorSize

\* The loop: the next size is again one the sectors call for.
LEMMA SizeDecides ==
  ASSUME FormatOK, Decided, Size
  PROVE  Decided'
<1>1. /\ total \in Disks /\ total' = total /\ pc = "sizing" /\ type' = type /\ type = "none"
      /\ UseFat16(total) /\ boot \in BootType /\ Described
      /\ boot.fatSize \in Nat /\ 512 * boot.fatSize <= 2 * boot.totalSectors + 449
  BY DEF Decided, Size, BootType
<1>2. /\ Total16(total) \in Nat /\ 64 <= Total16(total)
  BY <1>1, Sizes
<1> DEFINE s == Total16(total)
           f == boot.fatSize
           g == NextSize(boot)
<1>3. boot.totalSectors = s /\ boot.rootEntries = 512 /\ boot.fat16
  BY <1>1 DEF Described
<1>4. g = (((s - (33 + (2 * f))) + 2) * 2 + 511) \div 512
  BY <1>1, Count16
<1>5. g \in Nat /\ 1 <= g /\ 512 * g <= (2 * s) + 449
  BY <1>1, <1>2, <1>3, <1>4, Turn
<1>6. boot' = [boot EXCEPT !.fatSize = g]
  BY DEF Size
<1>7. pc' = IF g = f THEN "formatted" ELSE "sizing"
  BY DEF Size
<1> HIDE DEF g, f, s
<1>8. /\ boot' \in BootType /\ boot'.fatSize = g
      /\ boot'.totalSectors = s /\ boot'.rootEntries = 512 /\ boot'.fat16
  BY <1>1, <1>3, <1>5, <1>6 DEF BootType
<1>9. Described'
  BY <1>1, <1>8 DEF Described, s
<1>11. g = f => boot' = boot
  BY <1>1, <1>6 DEF f, BootType
<1>12. pc' = "formatted" => (NextSize(boot))' = boot'.fatSize
  <2>1. SUFFICES ASSUME pc' = "formatted" PROVE (NextSize(boot))' = boot'.fatSize
    OBVIOUS
  <2>2. boot' = boot /\ g = f
    BY <1>7, <1>11, <2>1
  <2>3. (NextSize(boot))' = NextSize(boot)
    BY <2>2 DEF NextSize, Needed, ClusterCount, RootSectors
  <2> QED
    BY <2>3, <1>8 DEF g
<1>13. pc' \in {"formatted", "sizing"}
  BY <1>7
<1>14. s = boot'.totalSectors
  BY <1>8
<1> QED
  BY <1>1, <1>5, <1>8, <1>9, <1>12, <1>13, <1>14 DEF Decided

\* fat_init.
LEMMA MountDecides ==
  ASSUME FormatOK, Decided, Mount
  PROVE  Decided'
<1>1. pc = "formatted" /\ pc' = "mounted" /\ total' = total /\ boot' = boot
  BY DEF Mount
<1>2. type' = (IF ClusterCount(boot) < 4085 THEN "FAT12"
               ELSE IF ClusterCount(boot) < 65525 THEN "FAT16" ELSE "FAT32")
  BY DEF Mount
<1> QED
  BY <1>1, <1>2 DEF Decided, Described

\* Every step.
LEMMA FormatNextDecided == ASSUME FormatOK, Decided, [FormatNext]_formatVars PROVE Decided'
<1>1. CASE Start
  BY <1>1, StartDecides
<1>2. CASE Size
  BY <1>2, SizeDecides
<1>3. CASE Mount
  BY <1>3, MountDecides
<1>4. CASE UNCHANGED formatVars
  BY <1>4 DEF Decided, Described, formatVars
<1> QED
  BY <1>1, <1>2, <1>3, <1>4 DEF FormatNext

\* So the invariant holds throughout.
LEMMA FormatSafe == ASSUME FormatOK PROVE FormatSpec => []Decided
<1>1. Decided /\ [FormatNext]_formatVars => Decided'
  BY FormatNextDecided
<1> QED
  BY <1>1, FormatInitDecided, PTL DEF FormatSpec

\* The type of the state, for every set of disks whose low 16 bits leave room
\* for a file system: no count on the way leaves its 16 bits (fat_format).
THEOREM FormatsTyped == ASSUME FormatOK PROVE FormatSpec => []FormatTypeOK
<1>1. Decided => FormatTypeOK
  <2> SUFFICES ASSUME Decided PROVE FormatTypeOK
    OBVIOUS
  <2>1. total \in Disks /\ pc \in {"start", "sizing", "formatted", "mounted"}
    BY DEF Decided
  <2>2. Total16(total) \in Nat /\ Total16(total) < 65536
    BY <2>1, Sizes
  <2>3. type \in {"none", "FAT12", "FAT16", "FAT32"}
    BY <2>1 DEF Decided
  <2>4. boot.totalSectors < 65536
    BY <2>1, <2>2 DEF Decided, Described
  <2>5. boot.rootEntries \in {0, 224, 512} /\ boot.fatSize \in Nat
    BY DEF Decided, BootType
  <2>6. boot.fatSize = 9 \/ boot.fatSize = 0 \/ 512 * boot.fatSize <= 2 * boot.totalSectors + 449
    BY DEF Decided, Described
  <2>7. boot.fatSize < 65536
    <3>1. boot.totalSectors \in Nat
      BY DEF Decided, BootType
    <3> QED
      BY <2>4, <2>5, <2>6, <3>1
  <2> QED
    BY <2>1, <2>3, <2>4, <2>5, <2>7 DEF FormatTypeOK
<1> QED
  BY <1>1, FormatSafe, PTL

\* A mounted disk of 12 bits.
LEMMA Mounted12 ==
  ASSUME FormatOK, Decided, pc = "mounted", ~UseFat16(total), FitsTable(total)
  PROVE  FormatSound
<1>1. total \in Disks /\ total \in Nat /\ total <= 3103 /\ Total16(total) = total /\ 64 <= total
  BY Sizes DEF Decided, FitsTable
<1>0. Described /\ boot \in BootType
  BY DEF Decided
<1>2. /\ boot.totalSectors = total /\ boot.rootEntries = 224 /\ boot.fatSize = 9
      /\ boot.fat16 \in BOOLEAN /\ ~boot.fat16
  BY <1>0, <1>1 DEF Described, BootType
<1>3. ClusterCount(boot) = total - 33
  BY <1>0, <1>1, <1>2, Roots DEF ClusterCount, Reserved, NumFats
<1>4. ClusterCount(boot) < 4085
  BY <1>1, <1>3
<1>5. type = "FAT12"
  BY <1>4 DEF Decided
<1>6. (total - 32) + ((total - 32) \div 2) + 2 <= 4608
  BY <1>1
<1>7. ClusterCount(boot) + 1 = total - 32
  BY <1>1, <1>3
<1>8. TypesAgree
  BY <1>2, <1>5 DEF TypesAgree
<1>9. TableFits
  BY <1>2, <1>5, <1>6, <1>7 DEF TableFits, SectorSize
<1> QED
  BY <1>8, <1>9 DEF FormatSound

\* A size the loop has settled at, for s sectors in all.
LEMMA Settled ==
  ASSUME NEW s \in Nat, 4150 <= s, s < 65536, NEW f \in Nat,
         f = (((s - (33 + (2 * f))) + 2) * 2 + 511) \div 512
  PROVE  /\ 4085 <= s - (33 + (2 * f)) /\ s - (33 + (2 * f)) < 65525
         /\ 2 * ((s - (33 + (2 * f))) + 1) + 2 <= f * 512
OBVIOUS

\* A mounted disk of 16 bits.
LEMMA Mounted16 ==
  ASSUME FormatOK, Decided, pc = "mounted", UseFat16(total), FitsTable(total)
  PROVE  FormatSound
<1>1. total \in Disks /\ total \in Nat /\ Total16(total) \in Nat /\ Total16(total) < 65536
  BY Sizes DEF Decided
<1>2. 4150 <= Total16(total)
  BY <1>1 DEF FitsTable, UseFat16
<1>3. boot.fatSize \in Nat /\ NextSize(boot) = boot.fatSize /\ Described /\ boot \in BootType
  BY DEF Decided, BootType
<1> DEFINE s == Total16(total)
           f == boot.fatSize
<1>4. boot.fat16 \in BOOLEAN /\ boot.fat16
  BY <1>3 DEF Described, BootType
<1>5. /\ ClusterCount(boot) = s - (33 + (2 * f))
      /\ f = (((s - (33 + (2 * f))) + 2) * 2 + 511) \div 512
  BY <1>3, Count16
<1>6. /\ 4085 <= s - (33 + (2 * f)) /\ s - (33 + (2 * f)) < 65525
      /\ 2 * ((s - (33 + (2 * f))) + 1) + 2 <= f * 512
  BY <1>1, <1>2, <1>3, <1>5, Settled
<1>7. type = "FAT16"
  <2>1. ~(ClusterCount(boot) < 4085) /\ ClusterCount(boot) < 65525
    BY <1>1, <1>3, <1>5, <1>6
  <2> QED
    BY <2>1 DEF Decided
<1>8. TypesAgree
  BY <1>4, <1>7 DEF TypesAgree
<1>9. TableFits
  BY <1>3, <1>5, <1>6, <1>7 DEF TableFits, SectorSize
<1> QED
  BY <1>8, <1>9 DEF FormatSound

\* For every disk whose sectors FitsTable admits: fat_init sees the type that
\* fat_format laid out, and the entry of the last cluster lies in the table.
THEOREM FormatsSound ==
  ASSUME FormatOK, \A n \in Disks : FitsTable(n)
  PROVE  FormatSpec => []FormatSound
<1>1. Decided => FormatSound
  <2> SUFFICES ASSUME Decided PROVE FormatSound
    OBVIOUS
  <2>1. FitsTable(total)
    BY DEF Decided
  <2>2. CASE pc # "mounted"
    BY <2>2 DEF FormatSound, TypesAgree, TableFits
  <2> QED
    BY <2>1, <2>2, Mounted12, Mounted16
<1> QED
  BY <1>1, FormatSafe, PTL
=============================================================================
