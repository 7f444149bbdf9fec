------------------------------ MODULE FatFormat ------------------------------
(* Formatting a disk and mounting it again (fat_format and fat_init in fat.c):
   fat_format decides between 12 and 16 bits by the number of sectors and looks
   for the size of the table in a loop, fat_init decides by the number of
   clusters it computes from the boot sector. init_storage (kernel.c) formats
   whatever it cannot read, and mounts it.

   The numbers are the code's own. The sectors are counted in 16 bits on the
   disk; sizes whose low 16 bits leave no room for a file system, so that the
   subtractions wrap, are left out.                                          *)
EXTENDS Naturals

CONSTANT Disks    \* sizes of disks, in sectors

SectorSize == 512
EntrySize == 32            \* sizeof(fat_directory_entry_t)
Reserved == 1              \* reserved_sector_count
NumFats == 2

FormatOK == Disks \subseteq {n \in Nat : n % 65536 >= 64}

VARIABLES pc, total, boot, type

formatVars == <<pc, total, boot, type>>

RootSectors(entries) == (entries * EntrySize + SectorSize - 1) \div SectorSize

(* The clusters of one sector each that a table of fatSize sectors leaves, of
   those the 16-bit count in the boot sector admits.                         *)
ClusterCount(b) ==
    b.totalSectors - (Reserved + NumFats * b.fatSize + RootSectors(b.rootEntries))

(* The sectors a table of 16-bit entries needs for so many clusters. *)
Needed(count) == ((count + 2) * 2 + SectorSize - 1) \div SectorSize

(* The sectors are counted in 16 bits. *)
Total16(n) == n % 65536

\* Mutant of UseFat16: FAT16 whatever the disk's size.
UseFat16Always(n) == TRUE
UseFat16(n) == n > 8400

-----------------------------------------------------------------------------
FormatInit ==
    /\ pc = "start" /\ total \in Disks
    /\ boot = [fat16 |-> FALSE, totalSectors |-> 0, rootEntries |-> 0, fatSize |-> 0]
    /\ type = "none"

(* The start of fat_format: a table of 12-bit entries always gets 9 sectors. *)
Start ==
    /\ pc = "start"
    /\ boot' = [fat16 |-> UseFat16(total), totalSectors |-> Total16(total),
                rootEntries |-> IF UseFat16(total) THEN 512 ELSE 224,
                fatSize |-> IF UseFat16(total) THEN 1 ELSE 9]
    /\ pc' = IF UseFat16(total) THEN "sizing" ELSE "formatted"
    /\ UNCHANGED <<total, type>>

\* Mutant of NextSize: one more sector every other turn.
NextSizeUp(b) == Needed(ClusterCount(b)) + (b.fatSize % 2)
NextSize(b) == Needed(ClusterCount(b))

(* One turn of its while(1). *)
Size ==
    /\ pc = "sizing"
    /\ boot' = [boot EXCEPT !.fatSize = NextSize(boot)]
    /\ pc' = IF NextSize(boot) = boot.fatSize THEN "formatted" ELSE "sizing"
    /\ UNCHANGED <<total, type>>

(* fat_init: the type follows from the count of clusters. *)
Mount ==
    /\ pc = "formatted"
    /\ type' = IF ClusterCount(boot) < 4085 THEN "FAT12"
               ELSE IF ClusterCount(boot) < 65525 THEN "FAT16" ELSE "FAT32"
    /\ pc' = "mounted"
    /\ UNCHANGED <<total, boot>>

FormatNext == Start \/ Size \/ Mount

(* One task runs it, from start to end. *)
FormatSpec == FormatInit /\ [][FormatNext]_formatVars /\ WF_formatVars(FormatNext)

-----------------------------------------------------------------------------
FormatTypeOK ==
    /\ pc \in {"start", "sizing", "formatted", "mounted"}
    /\ boot.totalSectors < 65536 /\ boot.fatSize \in Nat /\ boot.fatSize < 65536
    /\ boot.rootEntries \in {0, 224, 512}
    /\ type \in {"none", "FAT12", "FAT16", "FAT32"}

(* "FAT12 practical limit around 4K clusters with 1 sector/cluster"
   (fat.c:1027): a disk is mounted with the entries it was formatted with.    *)
TypesAgree == pc = "mounted" => (type = "FAT16") = boot.fat16

(* The entry of every cluster fat_find_free_cluster may hand out lies inside
   its copy of the table, and not in the next copy or the root directory.     *)
TableFits ==
    pc = "mounted" =>
        LET last == ClusterCount(boot) + 1 IN
        (IF type = "FAT16" THEN 2 * last + 2 ELSE last + last \div 2 + 2)
            <= boot.fatSize * SectorSize

(* A formatted disk can be mounted, and used to its last cluster: both of the
   above (fat_format's choices, fat_init's and fat_find_free_cluster's).     *)
FormatSound == TypesAgree /\ TableFits

(* The search for the table's size ends, and the disk is mounted: "5. Boot
   Complete - Kernel ready to execute userspace programs"
   (docs/kernel/filesystem.md:339, the while(1) of fat_format).               *)
FormatEnds == <>(pc = "mounted")

(* Some size of the table is the size that its own clusters need: the search has
   something to find. There is none for 258 * f + 32 and 258 * f + 33 sectors:
   f sectors are too few for the clusters they leave, and f + 1 leave clusters
   for which f would do.                                                     *)
HasSize(n) == UseFat16(n) =>
    \E f \in 1 .. 256 :
        Needed(Total16(n) - (Reserved + NumFats * f + RootSectors(512))) = f

(* What is true of FormatEnds: wherever there is a size to be found the while(1)
   of fat_format finds it, from both sides of it, and the disk is mounted. On a
   disk without one fat_format does not return.                              *)
FindsSize == HasSize(total) => FormatEnds
=============================================================================
