-------------------------------- MODULE Areas --------------------------------
(* What malloc, free and realloc promise their caller: every area handed out is
   disjoint from all the others until it is given back. An area is known by its
   address; sizes and addresses are in units of eight bytes.                  *)
EXTENDS Naturals

CONSTANTS Space     \* how far the areas may reach

VARIABLES areas     \* address |-> size, for every area handed out

Addresses == 0 .. Space
Taken(held) == UNION {p .. p + held[p] - 1 : p \in DOMAIN held}
With(held, p, n) == [q \in DOMAIN held \cup {p} |-> IF q = p THEN n ELSE held[q]]
Without(held, p) == [q \in DOMAIN held \ {p} |-> held[q]]

Init == areas = [p \in {} |-> 0]

Hand(held, p, n) ==
    /\ p .. p + n - 1 \subseteq Addresses \ Taken(held)
    /\ areas' = With(held, p, n)

Alloc == \E p \in Addresses, n \in 1 .. Space : Hand(areas, p, n)
Release == \E p \in DOMAIN areas : areas' = Without(areas, p)

(* realloc: larger or smaller in its place, or moved; the new area is disjoint
   from the old one, whose contents are copied.                              *)
Resize == \E p \in DOMAIN areas, n \in 1 .. Space :
    \/ Hand(Without(areas, p), p, n)
    \/ \E q \in Addresses : /\ q .. q + n - 1 \subseteq Addresses \ Taken(areas)
                            /\ areas' = With(Without(areas, p), q, n)

Next == Alloc \/ Release \/ Resize
Spec == Init /\ [][Next]_areas
=============================================================================
