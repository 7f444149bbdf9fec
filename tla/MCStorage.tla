------------------------------ MODULE MCStorage ------------------------------
(* Memory and disks, for TLC: the frames and page directories of Memory, the
   allocation table with entries of 12 and of 16 bits, the buffer cache, and
   formatting and mounting. They share no state in these models, so every
   behaviour explores one of them, and the others stay in an initial state.  *)
EXTENDS Memory, BufferCache, FatTable, FatFormat

VARIABLE explored

layers == <<vars, tableVars, cacheVars, formatVars>>
allVars == <<explored, layers>>

(* Entries of 12 bits that lie across sectors and bytes, a disk so small that
   any of its sectors may be out of reach, and entries of 16 bits.           *)
SmallDisk == [fat16 |-> FALSE, sectorSize |-> 4, fatSize |-> 2, numFats |-> 2, last |-> 3]
MCVolumes ==
    {SmallDisk} \cup [fat16 : BOOLEAN, sectorSize : {4}, fatSize : {4}, numFats : {2}, last : {7}]

(* Floppies, small disks and some large ones, the first sizes that get entries of
   16 bits, with the first two changes of the table's size among them, and the
   sizes around a few later changes. In the middle of every change lie the two
   sizes for which there is no table, so some of these disks are never mounted. *)
MCDisks ==
    {720, 1440, 2048, 2880, 2919, 3103, 69686, 16384, 20480, 32768, 49152, 65535, 74536}
    \cup 8401 .. 8820 \cup UNION {258 * f + 28 .. 258 * f + 37 : f \in {64, 128, 200, 253}}

ASSUME ConstantsOK /\ TableOK /\ FormatOK

AllInit ==
    /\ explored \in {"memory", "table", "cache", "format"}
    /\ Init /\ TableInit /\ CacheInit /\ FormatInit
    /\ scarce = (volume = SmallDisk)
    /\ explored # "table" => volume = SmallDisk
    /\ explored # "cache" => \A s \in DOMAIN disk : disk[s] = CHOOSE d \in Data : TRUE
    /\ explored # "format" => total = 720

AllNext ==
    /\ UNCHANGED explored
    /\ \/ /\ explored = "memory" /\ Next
          /\ UNCHANGED <<tableVars, cacheVars, formatVars>>
       \/ /\ explored = "table" /\ TableNext
          /\ UNCHANGED <<vars, cacheVars, formatVars>>
       \/ /\ explored = "cache" /\ CacheNext
          /\ UNCHANGED <<vars, tableVars, formatVars>>
       \/ /\ explored = "format" /\ FormatNext
          /\ UNCHANGED <<vars, tableVars, cacheVars>>

(* The task that formats goes on, as FatFormat states it. *)
AllSpec == AllInit /\ [][AllNext]_allVars
    /\ WF_allVars(explored = "format" /\ FormatNext
                  /\ UNCHANGED <<explored, vars, tableVars, cacheVars>>)

-----------------------------------------------------------------------------
(* The types of the four layers' states. *)
AllTypeOK == TypeOK /\ TableTypeOK /\ CacheTypeOK /\ FormatTypeOK

(* FindsSize of FatFormat, of the behaviours that format: the while(1) of
   fat_format ends, and the disk is mounted, if any size of the table is right
   for the disk. (For the others see FormatEnds.) The other properties of the
   run are those of the modules it extends.                                  *)
FormattingEnds == explored = "format" => FindsSize
=============================================================================
