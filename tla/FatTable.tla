------------------------------ MODULE FatTable ------------------------------
(* The file allocation table on the disk, byte by byte (fat.c): entries of 16
   bits, or of 12 bits packed three bytes to two entries, so that two clusters
   share a byte and an entry may lie across two sectors; every copy of the
   table is written by fat_set_fat_entry, and only the first is ever read.

   Sectors go through the buffer cache; buffer_get has none to give when the
   kernel heap is exhausted, and then the entry reads as the end of a chain, a
   copy is left out of a write, or half an entry is written.                  *)
EXTENDS Naturals

CONSTANTS
    Volumes,      \* the disks: what fat_init reads from their boot sectors
    LinkValues    \* the values the model's writes use

(* fat16: entries of 16 bits, not of 12 (type); sectorSize: bytes_per_sector;
   fatSize: fat_size_16, the sectors of one copy; numFats: num_fats; last:
   cluster_count + 1. fat_format writes two copies, and a table that is large
   enough (TableFits of FatFormat).                                          *)
TableOK ==
    /\ LinkValues \subseteq Nat
    /\ \A v \in Volumes :
          /\ v.fat16 \in BOOLEAN
          /\ v.sectorSize \in Nat /\ v.sectorSize > 3 /\ v.sectorSize % 2 = 0
          /\ v.fatSize \in Nat \ {0} /\ v.numFats \in {1, 2} /\ v.last \in Nat
          /\ 2 * v.last + 1 < v.fatSize * v.sectorSize

VARIABLES
    volume,   \* the disk that is mounted
    scarce,   \* the kernel heap may be exhausted
    bytes     \* the copies of its table

tableVars == <<volume, scarce, bytes>>

Copies == 0 .. volume.numFats - 1
Offsets == 0 .. volume.fatSize * volume.sectorSize - 1
Clusters == 0 .. volume.last

-----------------------------------------------------------------------------
(* Where an entry is in each copy: its first byte and its second. *)
Low(c) == IF volume.fat16 THEN 2 * c ELSE c + c \div 2
High(c) == Low(c) + 1
Odd(c) == c % 2 = 1

(* The sectors of all the copies are numbered on. *)
SectorOf(i, a) == i * volume.fatSize + a \div volume.sectorSize
TableSectors == 0 .. volume.numFats * volume.fatSize - 1

Eoc == IF volume.fat16 THEN 65535 ELSE 4095                    \* fat_eoc_value
EntryValues == {v \in Nat : v <= Eoc}
IsEoc(v) == IF volume.fat16 THEN v >= 65528 ELSE v >= 4088     \* fat_is_eoc

(* The entry of cluster c in a copy d. *)
Decode(d, c) ==
    LET word == d[Low(c)] + 256 * d[High(c)] IN
    IF volume.fat16 THEN word ELSE IF Odd(c) THEN word \div 16 ELSE word % 4096

(* fat_get_fat_entry: the first copy; an entry that cannot be read ends its
   chain.                                                                    *)
Get(c, missing) ==
    IF {SectorOf(0, Low(c)), SectorOf(0, High(c))} \cap missing # {}
    THEN Eoc ELSE Decode(bytes[0], c)

\* Mutant of LowGiven: only the first copy is written.
LowGivenOnce(i, c, missing) == i = 0

(* fat_set_fat_entry with the sectors in missing out of reach: a copy whose
   first sector is missing is skipped; the second sector is asked for after
   the first has been changed.                                               *)
LowGiven(i, c, missing) == SectorOf(i, Low(c)) \notin missing
HighGiven(i, c, missing) ==
    LowGiven(i, c, missing) /\ SectorOf(i, High(c)) \notin missing

(* The 16 bits it stores in copy i. An odd value is shifted to its place inside
   the loop over the copies, once more for each that is not skipped.         *)
Shifted(v, again) == IF again THEN (256 * v) % 65536 ELSE 16 * v
Word(c, v, i, missing) ==
    IF ~volume.fat16 /\ Odd(c) THEN Shifted(v, i = 1 /\ LowGiven(0, c, missing)) ELSE v

\* Mutant of LowByte: the neighbour's half byte is not kept.
LowByteClean(c, w, old) == w % 256

(* The half byte of the neighbour an odd or even 12-bit entry keeps. *)
LowByte(c, w, old) == (w % 256) + (IF ~volume.fat16 /\ Odd(c) THEN old % 16 ELSE 0)
HighByte(c, w, old) ==
    w \div 256 + (IF ~volume.fat16 /\ ~Odd(c) THEN (old \div 16) * 16 ELSE 0)

Put(c, v, missing) == bytes' = [i \in Copies |-> [a \in Offsets |->
    LET w == Word(c, v, i, missing)
        old == bytes[i][a]
    IN  IF a = Low(c) /\ LowGiven(i, c, missing) THEN LowByte(c, w, old)
        ELSE IF a = High(c) /\ HighGiven(i, c, missing) THEN HighByte(c, w, old)
        ELSE old]]

(* fat_find_free_cluster: the lowest free cluster, 0 for none. *)
FindFree(missing) ==
    LET free == {c \in 2 .. volume.last : Get(c, missing) = 0} IN
    IF free = {} THEN 0 ELSE CHOOSE c \in free : \A e \in free : c <= e

-----------------------------------------------------------------------------
(* fat_format: zeros after the media byte and the reserved entry. *)
TableInit ==
    /\ volume \in Volumes /\ scarce \in BOOLEAN
    /\ bytes = [i \in Copies |-> [a \in Offsets |->
          CASE a = 0 -> 248
            [] a \in (IF volume.fat16 THEN 1 .. 3 ELSE 1 .. 2) -> 255
            [] OTHER -> 0]]

Missing == IF scarce THEN SUBSET TableSectors ELSE {{}}

(* The driver claims the lowest free cluster as the end of a chain ... *)
Claim == \E missing \in Missing :
    /\ FindFree(missing) # 0
    /\ Put(FindFree(missing), Eoc, missing)
    /\ UNCHANGED <<volume, scarce>>

(* ... links the last cluster of a chain to a new one, or frees a cluster. *)
Link == \E c \in 2 .. volume.last, v \in LinkValues \cap EntryValues, missing \in Missing :
    /\ Put(c, v, missing)
    /\ UNCHANGED <<volume, scarce>>

TableNext == Claim \/ Link

TableSpec == TableInit /\ [][TableNext]_tableVars

-----------------------------------------------------------------------------
TableTypeOK ==
    /\ volume \in Volumes /\ scarce \in BOOLEAN
    /\ bytes \in [Copies -> [Offsets -> 0 .. 255]]

(* "FAT is replicated (at least 2 copies) for redundancy"
   (docs/kernel/filesystem.md:160): as long as sectors can be had, every copy
   of a table of 16-bit entries says the same of every cluster
   (fat_set_fat_entry's loop over num_fats).                                 *)
CopiesAgree ==
    volume.fat16 /\ ~scarce =>
        \A i \in Copies, c \in Clusters : Decode(bytes[i], c) = Decode(bytes[0], c)

(* The packed bytes implement a table of independent entries: writing one
   cluster's entry leaves every other cluster's alone, those that share a byte
   or a sector with it included, with any sectors out of reach
   (fat_set_fat_entry and fat_get_fat_entry).                                *)
Table == INSTANCE ClusterTable WITH table <- [c \in Clusters |-> Decode(bytes[0], c)]
EntriesIndependent == Table!Spec
=============================================================================
