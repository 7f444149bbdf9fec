---------------------------- MODULE ClusterTable ----------------------------
(* What the rest of the driver takes the file allocation table for: one number
   per cluster, written one cluster at a time.                              *)
EXTENDS Naturals

VARIABLE table     \* cluster |-> its entry

Init == \A c \in DOMAIN table : table[c] \in Nat

(* Cluster c gets an entry; no other cluster's changes. *)
Write(c) ==
    /\ table'[c] \in Nat
    /\ table' = [table EXCEPT ![c] = table'[c]]

Next == \E c \in DOMAIN table : Write(c)

Spec == Init /\ [][Next]_table
=============================================================================
