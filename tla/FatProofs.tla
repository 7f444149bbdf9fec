----------------------------- MODULE FatProofs ------------------------------
(* Proofs about Fat, for every number of clusters, slots, names and descriptors.

   The first part is about tables alone: what a chain is, what claiming,
   linking and freeing clusters does to all chains at once, and the walk of
   fat_vfs_write, by induction over its steps. The second part has the
   inductive invariant FatInv: each entry has a chain of its own, whose length
   is what its size calls for; what no entry has is free or lost; each vnode
   agrees with the entry it was made from. Every call keeps it. The third part
   shows that Fat implements FileStore: it finds the paths of directories and
   what a disk shows as a tree, for any table, cells and directories, and how
   the tree changes when one entry does; each call is then a step of the store.

   Files are not shared and not removed while they are open, and the disk is
   one that this system formatted (Sharing = FALSE, Foreign = {}).            *)
EXTENDS Fat, FiniteSetTheorems, SequenceTheorems, WellFoundedInduction, TLAPS

-----------------------------------------------------------------------------
(* Tables and chains. *)

\* The kinds of entries and of clusters.
LEMMA Kinds ==
  ASSUME FatOK
  PROVE  /\ Clusters \in SUBSET Table /\ Table \in SUBSET Nat /\ 0 \in Table
         /\ Free # Eoc /\ Free \notin Clusters /\ Eoc \notin Clusters /\ 1 \notin Clusters
         /\ \A v \in 0 .. Eoc : v = Free \/ v = 1 \/ v = Eoc \/ v \in Clusters
         /\ \A c \in Table : c >= 2 <=> c \in Clusters
         /\ Clusters \subseteq 0 .. Eoc
BY DEF FatOK, Clusters, Table, Free, Eoc

\* No two clusters are linked to the same one, links lead to claimed clusters,
\* and the reserved entries to none.
ChainsOK(f) ==
  /\ f \in [Table -> 0 .. Eoc]
  /\ \A b \in Table : f[b] # 1 /\ (b \notin Clusters => f[b] = Eoc)
  /\ \A b \in Table : f[b] \in Clusters => f[f[b]] # Free
  /\ \A a, b \in Table : f[a] = f[b] /\ f[a] \in Clusters => a = b

\* A claimed cluster that none is linked to.
Starts(f, c) == f[c] # Free /\ \A b \in Table : f[b] # c

\* The clusters of a chain.
LEMMA ChainIn == ASSUME NEW f, NEW c PROVE Chain(f, c) \in SUBSET Clusters
BY DEF Chain

\* A file without a first cluster has no chain.
LEMMA ChainNone == ASSUME NEW f, NEW c, c \notin Clusters PROVE Chain(f, c) = {}
BY DEF Chain

\* A chain holds its first cluster.
LEMMA ChainFirst == ASSUME NEW f, NEW c \in Clusters PROVE c \in Chain(f, c)
BY DEF Chain

\* A chain holds what its clusters are linked to.
LEMMA ChainHolds == ASSUME NEW f, NEW c PROVE HoldsLinks(f, Chain(f, c))
BY DEF Chain, HoldsLinks

\* A chain is part of every set that holds its first cluster and what it leads to.
LEMMA ChainLeast ==
  ASSUME NEW f, NEW c, NEW S \in SUBSET Clusters, c \in S, HoldsLinks(f, S)
  PROVE  Chain(f, c) \subseteq S
BY DEF Chain

\* Some cluster of a chain is linked to each one but the first.
LEMMA ChainBefore ==
  ASSUME NEW f, NEW c, NEW x \in Chain(f, c), x # c
  PROVE  \E y \in Chain(f, c) : f[y] = x
<1> SUFFICES ASSUME \A y \in Chain(f, c) : f[y] # x
             PROVE  FALSE
  OBVIOUS
<1> DEFINE S == Chain(f, c) \ {x}
<1>1. S \in SUBSET Clusters /\ x \in Clusters
  BY ChainIn
<1>2. c \in Clusters
  BY ChainNone
<1>3. c \in S
  BY <1>2, ChainFirst
<1>4. HoldsLinks(f, S)
  BY ChainHolds DEF HoldsLinks
<1>5. Chain(f, c) \subseteq S
  BY <1>1, <1>3, <1>4, ChainLeast
<1> QED
  BY <1>5

\* Every cluster of a chain is in use.
LEMMA ChainUsed ==
  ASSUME FatOK, NEW f, NEW c, ChainsOK(f), c \in Clusters => f[c] # Free, NEW x \in Chain(f, c)
  PROVE  x \in Clusters /\ f[x] # Free
<1>1. x \in Clusters
  BY ChainIn
<1>2. CASE x = c
  BY <1>1, <1>2
<1>3. CASE x # c
  <2>1. PICK y \in Chain(f, c) : f[y] = x
    BY <1>3, ChainBefore
  <2>2. y \in Table
    BY ChainIn, Kinds
  <2> QED
    BY <1>1, <2>1, <2>2 DEF ChainsOK
<1> QED
  BY <1>2, <1>3

\* Chains that start apart have no cluster in common.
LEMMA ChainsApart ==
  ASSUME FatOK, NEW f, ChainsOK(f), NEW a \in Clusters, NEW b \in Clusters,
         Starts(f, a), Starts(f, b), a # b
  PROVE  Chain(f, a) \cap Chain(f, b) = {}
<1> DEFINE S == Chain(f, a) \ Chain(f, b)
<1>1. S \in SUBSET Clusters
  BY ChainIn
<1>2. a \in S
  <2>1. ASSUME a \in Chain(f, b) PROVE FALSE
    <3>1. PICK y \in Chain(f, b) : f[y] = a
      BY <2>1, ChainBefore
    <3> QED
      BY <3>1, ChainIn, Kinds DEF Starts
  <2> QED
    BY <2>1, ChainFirst
<1>3. ASSUME NEW e \in S, f[e] \in Clusters PROVE f[e] \in S
  <2>1. f[e] \in Chain(f, a)
    BY <1>3, ChainHolds DEF HoldsLinks
  <2>2. ASSUME f[e] \in Chain(f, b) PROVE FALSE
    <3>1. e \in Table
      BY <1>1, Kinds
    <3>2. f[e] # b
      BY <3>1 DEF Starts
    <3>3. PICK y \in Chain(f, b) : f[y] = f[e]
      BY <2>2, <3>2, ChainBefore
    <3>4. y \in Table
      BY ChainIn, Kinds
    <3>5. y = e
      BY <1>3, <3>1, <3>3, <3>4 DEF ChainsOK
    <3> QED
      BY <3>5
  <2> QED
    BY <2>1, <2>2
<1>4. HoldsLinks(f, S)
  BY <1>3 DEF HoldsLinks
<1>5. Chain(f, a) \subseteq S
  BY <1>1, <1>2, <1>4, ChainLeast
<1> QED
  BY <1>5

\* A change elsewhere in the table leaves a chain as it is.
LEMMA SameChain ==
  ASSUME NEW f, NEW g, NEW c, \A x \in Chain(f, c) : g[x] = f[x]
  PROVE  Chain(g, c) = Chain(f, c)
<1>1. CASE c \notin Clusters
  BY <1>1, ChainNone
<1>2. CASE c \in Clusters
  <2>1. Chain(g, c) \subseteq Chain(f, c)
    <3>1. HoldsLinks(g, Chain(f, c))
      BY ChainHolds DEF HoldsLinks
    <3> QED
      BY <1>2, <3>1, ChainLeast, ChainIn, ChainFirst
  <2> DEFINE S == Chain(f, c) \cap Chain(g, c)
  <2>2. HoldsLinks(f, S)
    BY ChainHolds DEF HoldsLinks
  <2>3. c \in S /\ S \in SUBSET Clusters
    BY <1>2, ChainIn, ChainFirst
  <2>4. Chain(f, c) \subseteq S
    BY <2>2, <2>3, ChainLeast
  <2> QED
    BY <2>1, <2>4
<1> QED
  BY <1>1, <1>2

\* Freeing a chain, claiming a cluster, and linking one behind the last.
LEMMA Freed ==
  ASSUME FatOK, NEW f, NEW c, ChainsOK(f), c \in Clusters => Starts(f, c),
         NEW g, g = [e \in Table |-> IF e \in Chain(f, c) THEN Free ELSE f[e]]
  PROVE  /\ ChainsOK(g)
         /\ \A a \in Clusters : Starts(f, a) /\ a # c =>
              Starts(g, a) /\ Chain(g, a) = Chain(f, a)
<1>1. \A e \in Table : g[e] = IF e \in Chain(f, c) THEN Free ELSE f[e]
  OBVIOUS
<1>2. ASSUME NEW b \in Table, f[b] \in Chain(f, c), b \notin Chain(f, c) PROVE FALSE
  <2>1. f[b] # c
    BY <1>2, ChainNone DEF Starts
  <2>2. PICK y \in Chain(f, c) : f[y] = f[b]
    BY <1>2, <2>1, ChainBefore
  <2>3. y \in Table /\ f[b] \in Clusters
    BY <1>2, ChainIn, Kinds
  <2> QED
    BY <1>2, <2>2, <2>3 DEF ChainsOK
<1>3. Chain(f, c) \subseteq Clusters /\ Clusters \subseteq Table
  BY ChainIn, Kinds
<1>4. Free \in 0 .. Eoc /\ Free # 1 /\ Free \notin Clusters
  BY Kinds DEF Free, Eoc, FatOK
<1>5. g \in [Table -> 0 .. Eoc]
  BY <1>4 DEF ChainsOK
<1>6. ASSUME NEW b \in Table PROVE g[b] # 1 /\ (b \notin Clusters => g[b] = Eoc)
  BY <1>1, <1>3, <1>4 DEF ChainsOK
<1>7. ASSUME NEW b \in Table, g[b] \in Clusters PROVE g[g[b]] # Free
  <2>1. b \notin Chain(f, c) /\ g[b] = f[b]
    BY <1>1, <1>4, <1>7
  <2>2. f[b] \notin Chain(f, c)
    BY <1>2, <2>1
  <2>3. f[b] \in Table /\ f[f[b]] # Free
    BY <1>3, <1>7, <2>1 DEF ChainsOK
  <2> QED
    BY <1>1, <2>1, <2>2, <2>3
<1>8. ASSUME NEW a \in Table, NEW b \in Table, g[a] = g[b], g[a] \in Clusters PROVE a = b
  BY <1>1, <1>4, <1>8 DEF ChainsOK
<1>9. ChainsOK(g)
  BY <1>5, <1>6, <1>7, <1>8 DEF ChainsOK
<1>10. ASSUME NEW a \in Clusters, Starts(f, a), a # c
       PROVE  Starts(g, a) /\ Chain(g, a) = Chain(f, a)
  <2>1. Chain(f, a) \cap Chain(f, c) = {}
    BY <1>10, ChainsApart, ChainNone
  <2>2. Chain(g, a) = Chain(f, a)
    <3>1. \A x \in Chain(f, a) : g[x] = f[x]
      BY <1>1, <2>1, ChainIn, Kinds
    <3> QED
      BY <3>1, SameChain
  <2>3. a \notin Chain(f, c) /\ a \in Table
    BY <2>1, ChainFirst, Kinds
  <2> QED
    BY <1>1, <1>4, <1>10, <2>2, <2>3 DEF Starts
<1> QED
  BY <1>9, <1>10

\* The table with one more cluster marked as the end of a chain.
LEMMA ClaimedTable ==
  ASSUME FatOK, NEW f \in [Table -> 0 .. Eoc], NEW n \in Clusters,
         NEW g, [f EXCEPT ![n] = Eoc] = g
  PROVE  /\ g \in [Table -> 0 .. Eoc] /\ g[n] = Eoc
         /\ \A e \in Table : e # n => g[e] = f[e]
<1>1. n \in Table /\ Eoc \in 0 .. Eoc
  BY Kinds DEF Eoc, FatOK
<1> QED
  BY <1>1

\* Claiming a free cluster starts a chain of its own and leaves the others alone.
LEMMA Claimed ==
  ASSUME FatOK, NEW f, ChainsOK(f), NEW n \in Clusters, f[n] = Free,
         NEW g \in [Table -> 0 .. Eoc], g[n] = Eoc, \A e \in Table : e # n => g[e] = f[e]
  PROVE  /\ ChainsOK(g) /\ Starts(g, n) /\ Chain(g, n) = {n}
         /\ \A a \in Clusters : Starts(f, a) => Starts(g, a) /\ Chain(g, a) = Chain(f, a)
<1>1. n \in Table /\ Eoc \in 0 .. Eoc /\ Eoc # Free /\ Eoc # 1 /\ Eoc \notin Clusters
      /\ Clusters \subseteq Table
  BY Kinds DEF Eoc, Free, FatOK, Clusters
<1>3. ChainsOK(g)
  BY <1>1 DEF ChainsOK
<1>4. \A b \in Table : f[b] # n
  BY DEF ChainsOK
<1>5. Starts(g, n)
  BY <1>1, <1>4 DEF Starts
<1>6. Chain(g, n) = {n}
  <2>1. HoldsLinks(g, {n})
    BY <1>1 DEF HoldsLinks
  <2> QED
    BY <2>1, ChainLeast, ChainFirst
<1>7. ASSUME NEW a \in Clusters, Starts(f, a)
      PROVE  Starts(g, a) /\ Chain(g, a) = Chain(f, a)
  <2>1. \A x \in Chain(f, a) : g[x] = f[x]
    BY <1>1, <1>7, ChainUsed DEF Starts
  <2>2. Chain(g, a) = Chain(f, a)
    BY <2>1, SameChain
  <2> QED
    BY <1>1, <1>7, <2>2 DEF Starts
<1> QED
  BY <1>3, <1>5, <1>6, <1>7

\* Linking the end of a chain to a free cluster adds that cluster to this chain only.
LEMMA Linked ==
  ASSUME FatOK, NEW f, ChainsOK(f), NEW t \in Clusters, f[t] = Eoc,
         NEW n \in Clusters, f[n] = Free,
         NEW g \in [Table -> 0 .. Eoc], g[t] = n, g[n] = Eoc,
         \A e \in Table : e # t /\ e # n => g[e] = f[e]
  PROVE  /\ ChainsOK(g)
         /\ \A a \in Clusters : Starts(f, a) =>
              /\ Starts(g, a)
              /\ t \in Chain(f, a) => Chain(g, a) = Chain(f, a) \cup {n}
              /\ t \notin Chain(f, a) => Chain(g, a) = Chain(f, a)
<1>1. /\ n \in Table /\ t \in Table /\ Eoc \in 0 .. Eoc /\ Eoc # Free /\ Eoc # 1
      /\ Eoc \notin Clusters /\ Clusters \subseteq Table /\ Clusters \subseteq 0 .. Eoc
      /\ t # n /\ n # Free /\ n # 1 /\ n # Eoc
  BY Kinds DEF Eoc, Free, FatOK, Clusters
<1>2. /\ g \in [Table -> 0 .. Eoc] /\ g[n] = Eoc /\ g[t] = n
      /\ \A e \in Table : e # n /\ e # t => g[e] = f[e]
  BY <1>1 DEF ChainsOK
<1>3. \A b \in Table : f[b] # n
  BY DEF ChainsOK
<1>4. ChainsOK(g)
  <2>1. \A b \in Table : g[b] # 1 /\ (b \notin Clusters => g[b] = Eoc)
    BY <1>1, <1>2 DEF ChainsOK
  <2>2. \A b \in Table : g[b] \in Clusters => g[g[b]] # Free
    BY <1>1, <1>2 DEF ChainsOK
  <2>3. \A a, b \in Table : g[a] = g[b] /\ g[a] \in Clusters => a = b
    BY <1>1, <1>2, <1>3 DEF ChainsOK
  <2> QED
    BY <1>2, <2>1, <2>2, <2>3 DEF ChainsOK
<1>5. ASSUME NEW a \in Clusters, Starts(f, a)
      PROVE  /\ Starts(g, a)
             /\ t \in Chain(f, a) => Chain(g, a) = Chain(f, a) \cup {n}
             /\ t \notin Chain(f, a) => Chain(g, a) = Chain(f, a)
  <2>1. \A x \in Chain(f, a) : x \in Table /\ x # n
    BY <1>5, ChainUsed, Kinds DEF Starts
  <2>2. Starts(g, a)
    <3>1. a # n /\ a \in Table
      BY <1>1, <1>5 DEF Starts
    <3> QED
      BY <1>1, <1>2, <1>5, <3>1 DEF Starts
  <2>3. ASSUME t \notin Chain(f, a) PROVE Chain(g, a) = Chain(f, a)
    <3>1. \A x \in Chain(f, a) : g[x] = f[x]
      BY <1>2, <2>1, <2>3
    <3> QED
      BY <3>1, SameChain
  <2>4. ASSUME t \in Chain(f, a) PROVE Chain(g, a) = Chain(f, a) \cup {n}
    <3>1. HoldsLinks(g, Chain(f, a) \cup {n})
      BY <1>1, <1>2, <2>1, ChainHolds DEF HoldsLinks
    <3>2. Chain(g, a) \subseteq Chain(f, a) \cup {n}
      BY <3>1, ChainLeast, ChainIn, ChainFirst
    <3>3. Chain(f, a) \subseteq Chain(g, a)
      <4> DEFINE S == Chain(f, a) \cap Chain(g, a)
      <4>1. ASSUME NEW e \in S, f[e] \in Clusters PROVE f[e] \in S
        <5>1. e # t
          BY <1>1, <4>1
        <5>2. g[e] = f[e]
          BY <1>2, <2>1, <5>1
        <5> QED
          BY <4>1, <5>2, ChainHolds DEF HoldsLinks
      <4>2. HoldsLinks(f, S)
        BY <4>1 DEF HoldsLinks
      <4>3. a \in S /\ S \in SUBSET Clusters
        BY ChainIn, ChainFirst
      <4>4. Chain(f, a) \subseteq S
        BY <4>2, <4>3, ChainLeast
      <4> QED
        BY <4>4
    <3>4. n \in Chain(g, a)
      <4>1. t \in Chain(g, a) /\ HoldsLinks(g, Chain(g, a))
        BY <2>4, <3>3, ChainHolds
      <4>2. g[t] \in Clusters /\ g[t] = n
        BY <1>2
      <4> QED
        BY <4>1, <4>2 DEF HoldsLinks
    <3> QED
      BY <3>2, <3>3, <3>4
  <2> QED
    BY <2>2, <2>3, <2>4
<1> QED
  BY <1>2, <1>4, <1>5

-----------------------------------------------------------------------------
(* Paths along chains. *)

\* The clusters a walk along a chain has come to, one after the other.
PathSet(p) == {p[i] : i \in 1 .. Len(p)}

\* A path that follows the links from the first cluster of a chain.
OnPath(f, p) ==
  /\ p \in Seq(Clusters) /\ p # <<>>
  /\ Starts(f, p[1])
  /\ PathSet(p) \subseteq Chain(f, p[1])
  /\ \A i, j \in 1 .. Len(p) : p[i] = p[j] => i = j
  /\ \A i \in 1 .. Len(p) - 1 : f[p[i]] = p[i + 1]
  /\ Cardinality(PathSet(p)) = Len(p)

\* A path one cluster longer.
LEMMA Appended ==
  ASSUME NEW p \in Seq(Clusters), NEW n \in Clusters
  PROVE  /\ Append(p, n) \in Seq(Clusters) /\ Len(Append(p, n)) = Len(p) + 1
         /\ Append(p, n) # <<>>
         /\ \A i \in 1 .. Len(p) : Append(p, n)[i] = p[i]
         /\ Append(p, n)[Len(p) + 1] = n
         /\ PathSet(Append(p, n)) = PathSet(p) \cup {n}
<1> DEFINE q == Append(p, n)
<1>1. /\ q \in Seq(Clusters) /\ Len(q) = Len(p) + 1 /\ q # <<>>
      /\ \A i \in 1 .. Len(p) : q[i] = p[i]
      /\ q[Len(p) + 1] = n /\ Len(p) \in Nat
  OBVIOUS
<1> HIDE DEF q
<1>2. 1 .. Len(q) = (1 .. Len(p)) \cup {Len(p) + 1}
  BY <1>1
<1>3. PathSet(q) = PathSet(p) \cup {n}
  BY <1>1, <1>2 DEF PathSet
<1> QED
  BY <1>1, <1>3 DEF q

\* Chains and their parts are finite.
LEMMA ChainFinite ==
  ASSUME FatOK, NEW f, NEW c
  PROVE  /\ IsFiniteSet(Chain(f, c)) /\ Cardinality(Chain(f, c)) \in Nat
         /\ \A S \in SUBSET Chain(f, c) : IsFiniteSet(S) /\ Cardinality(S) <= Cardinality(Chain(f, c))
<1>1. IsFiniteSet(Clusters)
  BY FS_Interval DEF Clusters, FatOK
<1>2. IsFiniteSet(Chain(f, c))
  BY <1>1, ChainIn, FS_Subset
<1> QED
  BY <1>2, FS_Subset, FS_CardinalityType

\* The two ends of a path.
LEMMA PathEnds ==
  ASSUME FatOK, NEW f, NEW p, OnPath(f, p)
  PROVE  /\ Len(p) \in Nat /\ 1 <= Len(p) /\ p[1] \in Clusters /\ p[Len(p)] \in Clusters
         /\ p[1] \in PathSet(p) /\ p[Len(p)] \in PathSet(p) /\ p[Len(p)] \in Chain(f, p[1])
<1>1. Len(p) \in Nat /\ 1 <= Len(p) /\ p[1] \in Clusters /\ p[Len(p)] \in Clusters
  BY DEF OnPath
<1>2. 1 \in 1 .. Len(p) /\ Len(p) \in 1 .. Len(p)
  BY <1>1
<1>3. p[1] \in PathSet(p) /\ p[Len(p)] \in PathSet(p)
  BY <1>2 DEF PathSet
<1> QED
  BY <1>1, <1>3 DEF OnPath

\* One cluster on.
LEMMA PathNext ==
  ASSUME FatOK, NEW f, ChainsOK(f), NEW p, OnPath(f, p), f[p[Len(p)]] \in Clusters
  PROVE  /\ OnPath(f, Append(p, f[p[Len(p)]]))
         /\ Len(p) < Cardinality(Chain(f, p[1]))
<1> DEFINE n == f[p[Len(p)]]
           q == Append(p, n)
<1>1. /\ Len(p) \in Nat /\ 1 <= Len(p) /\ p[1] \in Clusters /\ p[Len(p)] \in Clusters
      /\ p[Len(p)] \in Chain(f, p[1]) /\ p \in Seq(Clusters) /\ n \in Clusters
  BY PathEnds DEF OnPath
<1>2. n \in Chain(f, p[1])
  <2>1. HoldsLinks(f, Chain(f, p[1]))
    BY ChainHolds
  <2> QED
    BY <1>1, <2>1 DEF HoldsLinks
<1>3. ASSUME NEW j \in 1 .. Len(p), p[j] = n PROVE FALSE
  <2>1. p[Len(p)] \in Table
    BY <1>1, Kinds
  <2>2. j # 1
    BY <1>3, <2>1 DEF OnPath, Starts
  <2>3. /\ j - 1 \in 1 .. Len(p) - 1 /\ j - 1 \in 1 .. Len(p) /\ (j - 1) + 1 = j
        /\ Len(p) \in 1 .. Len(p) /\ j - 1 # Len(p)
    BY <1>1, <2>2
  <2>4. f[p[j - 1]] = n /\ p[j - 1] \in Clusters
    BY <1>1, <1>3, <2>3 DEF OnPath
  <2>5. p[j - 1] = p[Len(p)]
    BY <1>1, <2>1, <2>4, Kinds DEF ChainsOK
  <2> QED
    BY <2>3, <2>5 DEF OnPath
<1> HIDE DEF n
<1>4. /\ q \in Seq(Clusters) /\ Len(q) = Len(p) + 1 /\ q # <<>>
      /\ \A i \in 1 .. Len(p) : q[i] = p[i]
      /\ q[Len(p) + 1] = n /\ PathSet(q) = PathSet(p) \cup {n}
  BY <1>1, Appended
<1> HIDE DEF q
<1>5. q[1] = p[1]
  BY <1>1, <1>4
<1>6. PathSet(q) \subseteq Chain(f, q[1])
  BY <1>2, <1>4, <1>5 DEF OnPath
<1>7. n \notin PathSet(p)
  BY <1>3 DEF PathSet
<1>8. PathSet(p) \subseteq Chain(f, p[1]) /\ Cardinality(PathSet(p)) = Len(p)
  BY DEF OnPath
<1>9. Cardinality(PathSet(q)) = Len(p) + 1
  <2>1. IsFiniteSet(PathSet(p))
    BY <1>8, ChainFinite
  <2>2. Cardinality(PathSet(p) \cup {n}) = Cardinality(PathSet(p)) + 1
    BY <1>7, <2>1, FS_AddElement
  <2> QED
    BY <1>4, <1>8, <2>2
<1>10. Len(p) + 1 <= Cardinality(Chain(f, p[1]))
  BY <1>5, <1>6, <1>9, ChainFinite
<1>11. \A i, j \in 1 .. Len(q) : q[i] = q[j] => i = j
  <2>1. \A i \in 1 .. Len(q) : i \in 1 .. Len(p) \/ i = Len(p) + 1
    BY <1>1, <1>4
  <2> QED
    BY <1>3, <1>4, <2>1 DEF OnPath
<1>12. ASSUME NEW i \in 1 .. Len(q) - 1 PROVE f[q[i]] = q[i + 1]
  <2>1. i \in 1 .. Len(p)
    BY <1>1, <1>4
  <2>2. CASE i = Len(p)
    BY <1>4, <2>1, <2>2 DEF n
  <2>3. CASE i # Len(p)
    <3>1. i \in 1 .. Len(p) - 1 /\ i + 1 \in 1 .. Len(p)
      BY <1>1, <2>1, <2>3
    <3> QED
      BY <1>4, <2>1, <3>1 DEF OnPath
  <2> QED
    BY <2>2, <2>3
<1>13. Starts(f, q[1])
  BY <1>5 DEF OnPath
<1>14. OnPath(f, q)
  BY <1>4, <1>6, <1>9, <1>11, <1>12, <1>13 DEF OnPath
<1>15. Cardinality(Chain(f, p[1])) \in Nat
  BY ChainFinite
<1> QED
  BY <1>1, <1>10, <1>14, <1>15 DEF n, q

\* At the end of the chain the path is the chain.
LEMMA PathWhole ==
  ASSUME FatOK, NEW f, NEW p, OnPath(f, p), f[p[Len(p)]] \notin Clusters
  PROVE  Chain(f, p[1]) = PathSet(p) /\ Cardinality(Chain(f, p[1])) = Len(p)
<1>1. /\ Len(p) \in Nat /\ 1 <= Len(p) /\ p[1] \in PathSet(p)
      /\ PathSet(p) \in SUBSET Clusters /\ p \in Seq(Clusters)
  BY PathEnds, ChainIn DEF OnPath
<1>2. ASSUME NEW e \in PathSet(p), f[e] \in Clusters PROVE f[e] \in PathSet(p)
  <2>1. PICK i \in 1 .. Len(p) : e = p[i]
    BY DEF PathSet
  <2>2. i # Len(p)
    BY <1>2, <2>1
  <2>3. i \in 1 .. Len(p) - 1 /\ i + 1 \in 1 .. Len(p)
    BY <1>1, <2>1, <2>2
  <2>4. f[e] = p[i + 1]
    BY <2>1, <2>3 DEF OnPath
  <2> QED
    BY <2>3, <2>4 DEF PathSet
<1>3. HoldsLinks(f, PathSet(p))
  BY <1>2 DEF HoldsLinks
<1>4. Chain(f, p[1]) \subseteq PathSet(p)
  BY <1>1, <1>3, ChainLeast
<1>5. Chain(f, p[1]) = PathSet(p)
  BY <1>4 DEF OnPath
<1> QED
  BY <1>5 DEF OnPath

\* The path after its last cluster, the last of the chain, was linked to n.
LEMMA PathGrown ==
  ASSUME FatOK, NEW f, ChainsOK(f), NEW p, OnPath(f, p), f[p[Len(p)]] = Eoc,
         NEW n \in Clusters, f[n] = Free,
         NEW g \in [Table -> 0 .. Eoc], g[p[Len(p)]] = n, g[n] = Eoc,
         \A e \in Table : e # p[Len(p)] /\ e # n => g[e] = f[e]
  PROVE  /\ OnPath(g, Append(p, n))
         /\ Chain(g, p[1]) = Chain(f, p[1]) \cup {n}
         /\ Cardinality(Chain(g, p[1])) = Len(p) + 1
<1> DEFINE t == p[Len(p)]
           q == Append(p, n)
<1>1. /\ Len(p) \in Nat /\ 1 <= Len(p) /\ p[1] \in Clusters /\ t \in Clusters
      /\ t \in Chain(f, p[1]) /\ p \in Seq(Clusters) /\ Starts(f, p[1])
  BY PathEnds DEF OnPath
<1>2. Starts(g, p[1]) /\ Chain(g, p[1]) = Chain(f, p[1]) \cup {n}
  BY <1>1, Linked
<1>3. Chain(f, p[1]) = PathSet(p) /\ Cardinality(PathSet(p)) = Len(p)
  BY PathWhole, Kinds DEF OnPath
<1>4. n \notin PathSet(p)
  BY <1>1, <1>3, ChainUsed DEF Starts
<1>5. /\ q \in Seq(Clusters) /\ Len(q) = Len(p) + 1 /\ q # <<>>
      /\ \A i \in 1 .. Len(p) : q[i] = p[i]
      /\ q[Len(p) + 1] = n /\ PathSet(q) = PathSet(p) \cup {n}
  BY <1>1, Appended
<1> HIDE DEF q
<1>6. q[1] = p[1]
  BY <1>1, <1>5
<1>7. PathSet(q) \subseteq Chain(g, q[1])
  BY <1>2, <1>3, <1>5, <1>6
<1>8. Cardinality(PathSet(q)) = Len(p) + 1
  <2>1. IsFiniteSet(PathSet(p))
    BY <1>3, ChainFinite
  <2>2. Cardinality(PathSet(p) \cup {n}) = Cardinality(PathSet(p)) + 1
    BY <1>4, <2>1, FS_AddElement
  <2> QED
    BY <1>3, <1>5, <2>2
<1>9. \A i \in 1 .. Len(p) : p[i] # n /\ p[i] \in Table
  BY <1>1, <1>4, Kinds DEF PathSet
<1>10. \A i, j \in 1 .. Len(q) : q[i] = q[j] => i = j
  <2>1. \A i \in 1 .. Len(q) : i \in 1 .. Len(p) \/ i = Len(p) + 1
    BY <1>1, <1>5
  <2> QED
    BY <1>5, <1>9, <2>1 DEF OnPath
<1>11. ASSUME NEW i \in 1 .. Len(q) - 1 PROVE g[q[i]] = q[i + 1]
  <2>1. i \in 1 .. Len(p)
    BY <1>1, <1>5
  <2>2. CASE i = Len(p)
    BY <1>5, <2>1, <2>2
  <2>3. CASE i # Len(p)
    <3>1. i \in 1 .. Len(p) - 1 /\ i + 1 \in 1 .. Len(p) /\ Len(p) \in 1 .. Len(p)
      BY <1>1, <2>1, <2>3
    <3>2. p[i] # t
      BY <2>1, <2>3, <3>1 DEF OnPath
    <3>3. g[p[i]] = f[p[i]]
      BY <1>9, <2>1, <3>2
    <3> QED
      BY <1>5, <2>1, <3>1, <3>3 DEF OnPath
  <2> QED
    BY <2>2, <2>3
<1>12. OnPath(g, q)
  BY <1>2, <1>5, <1>6, <1>7, <1>8, <1>10, <1>11 DEF OnPath
<1>13. Cardinality(Chain(g, p[1])) = Len(p) + 1
  BY <1>2, <1>3, <1>5, <1>8
<1> QED
  BY <1>2, <1>12, <1>13 DEF q

-----------------------------------------------------------------------------
(* Numbers. *)

\* Sets of numbers have a least element, and induction.
Less == OpToRel(<, Nat)

\* The order of the naturals is well-founded.
LEMMA LessWellFounded == IsWellFoundedOn(Less, Nat)
BY NatLessThanWellFounded, Zenon DEF Less

\* What that order holds.
LEMMA InLess == \A x, y \in Nat : y < x => <<y, x>> \in Less
BY DEF OpToRel, Less

\* A set of naturals has a least element.
LEMMA LeastNat ==
  ASSUME NEW S \in SUBSET Nat, S # {}
  PROVE  \E n \in S : \A m \in S : n <= m
<1>1. \E x \in S : \A y \in S : ~(<<y, x>> \in Less)
  BY LessWellFounded, WFMin, Zenon
<1>2. PICK x \in S : \A y \in S : ~(<<y, x>> \in Less)
  BY <1>1
<1>3. ASSUME NEW y \in S PROVE x <= y
  <2>1. x \in Nat /\ y \in Nat
    OBVIOUS
  <2>2. y < x => <<y, x>> \in Less
    BY <2>1, InLess, Zenon
  <2>3. ~(<<y, x>> \in Less)
    BY <1>2
  <2>4. ~(y < x)
    BY <2>2, <2>3, Zenon
  <2> QED
    BY <2>1, <2>4
<1> QED
  BY <1>3

\* Induction over the naturals, for sets.
LEMMA Induct ==
  ASSUME NEW S \in SUBSET Nat, 0 \in S, \A n \in S : n + 1 \in S
  PROVE  S = Nat
<1> SUFFICES ASSUME S # Nat PROVE FALSE
  OBVIOUS
<1>1. PICK n \in Nat \ S : \A m \in Nat \ S : n <= m
  <2>1. Nat \ S \in SUBSET Nat /\ Nat \ S # {}
    OBVIOUS
  <2> QED
    BY <2>1, LeastNat
<1>2. n - 1 \in Nat /\ n - 1 < n /\ (n - 1) + 1 = n
  OBVIOUS
<1>3. n - 1 \in S
  BY <1>1, <1>2
<1> QED
  BY <1>2, <1>3

\* LeastOf is the least element.
LEMMA LeastIn ==
  ASSUME NEW S \in SUBSET Nat, S # {}
  PROVE  LeastOf(S) \in S /\ \A y \in S : LeastOf(S) <= y
<1>1. \E n \in S : \A m \in S : n <= m
  BY LeastNat
<1> QED
  BY <1>1 DEF LeastOf

\* The lowest free cluster is one.
LEMMA LeastFree ==
  ASSUME FatOK, NEW f, FreeIn(f) # {}
  PROVE  LeastOf(FreeIn(f)) \in Clusters /\ f[LeastOf(FreeIn(f))] = Free
<1>1. FreeIn(f) \in SUBSET Nat
  BY Kinds DEF FreeIn
<1>2. LeastOf(FreeIn(f)) \in FreeIn(f)
  BY <1>1, LeastIn
<1> QED
  BY <1>2 DEF FreeIn

-----------------------------------------------------------------------------
(* Walks. *)

\* The clusters that a walk has claimed.
New(f) == {c \in Clusters : fat[c] = Free /\ f[c] # Free}

\* What a walk leaves alone.
Spared(first, f) ==
  /\ \A c \in Table : fat[c] # Free =>
       f[c] # Free /\ (c \notin Chain(fat, first) => f[c] = fat[c])
  /\ \A a \in Clusters : Starts(fat, a) =>
       Starts(f, a) /\ (a # first => Chain(f, a) = Chain(fat, a))

\* How far a walk along a chain has come, and by how much it has grown.
Walked(first, f, p) ==
  /\ ChainsOK(f) /\ Spared(first, f)
  /\ p = <<>> => f = fat /\ first \notin Clusters
  /\ p # <<>> =>
       /\ OnPath(f, p)
       /\ first \in Clusters => p[1] = first
       /\ first \notin Clusters => fat[p[1]] = Free
       /\ Chain(f, p[1]) = Chain(fat, first) \cup New(f)
       /\ \/ /\ f = fat
             /\ Cardinality(Chain(fat, first)) = Cardinality(Chain(f, p[1]))
          \/ /\ Cardinality(Chain(f, p[1])) = Len(p)
             /\ Cardinality(Chain(fat, first)) < Len(p)

\* A walk starts at the first cluster, or claims one, or finds none.
LEMMA Started ==
  ASSUME FatOK, ChainsOK(fat), NEW first \in Table, first \in Clusters => Starts(fat, first)
  PROVE  LET w == WalkStart(first) IN
           /\ w = [fat |-> w.fat, path |-> w.path] /\ Walked(first, w.fat, w.path)
           /\ Len(w.path) \in Nat /\ Len(w.path) <= 1
<1>1. first >= 2 <=> first \in Clusters
  BY Kinds
<1> DEFINE w == WalkStart(first)
<1>2. CASE first \in Clusters
  <2>1. w = [fat |-> fat, path |-> <<first>>]
    BY <1>1, <1>2 DEF WalkStart
  <2>2. /\ w.fat = fat /\ w.path = <<first>> /\ w.path \in Seq(Clusters) /\ w.path # <<>>
        /\ Len(w.path) = 1 /\ w.path[1] = first /\ PathSet(w.path) = {first}
    BY <1>2, <2>1 DEF PathSet
  <2> HIDE DEF w
  <2>3. Cardinality({first}) = 1
    BY FS_Singleton
  <2>4. OnPath(fat, w.path)
    BY <1>2, <2>2, <2>3, ChainFirst DEF OnPath
  <2>5. New(fat) = {}
    BY DEF New
  <2>6. Spared(first, fat)
    BY DEF Spared
  <2>7. w = [fat |-> w.fat, path |-> w.path]
    BY <2>1, <2>2
  <2>8. Walked(first, w.fat, w.path)
    BY <1>2, <2>2, <2>4, <2>5, <2>6, <2>7 DEF Walked
  <2> QED
    BY <2>2, <2>7, <2>8 DEF w
<1>3. CASE first \notin Clusters /\ FreeIn(fat) = {}
  <2>1. w = [fat |-> fat, path |-> <<>>]
    BY <1>1, <1>3 DEF WalkStart
  <2>2. w.fat = fat /\ w.path = <<>> /\ Len(w.path) = 0
    BY <2>1
  <2>3. Spared(first, fat)
    BY DEF Spared
  <2> HIDE DEF w
  <2>4. w = [fat |-> w.fat, path |-> w.path]
    BY <2>1, <2>2
  <2>5. Walked(first, w.fat, w.path)
    BY <1>3, <2>2, <2>3, <2>4 DEF Walked
  <2> QED
    BY <2>2, <2>4, <2>5 DEF w
<1>4. CASE first \notin Clusters /\ FreeIn(fat) # {}
  <2> DEFINE n == LeastOf(FreeIn(fat))
             g == [fat EXCEPT ![n] = Eoc]
  <2>1. n \in Clusters /\ fat[n] = Free
    BY <1>4, LeastFree
  <2>2. w = [fat |-> g, path |-> <<n>>]
    BY <1>1, <1>4 DEF WalkStart
  <2>3. [fat EXCEPT ![n] = Eoc] = g
    OBVIOUS
  <2>4. fat \in [Table -> 0 .. Eoc] /\ n \in Clusters
    BY <2>1 DEF ChainsOK
  <2> HIDE DEF n, g
  <2>5. /\ g \in [Table -> 0 .. Eoc] /\ g[n] = Eoc
        /\ \A e \in Table : e # n => g[e] = fat[e]
    BY <2>4, <2>3, ClaimedTable
  <2>6. /\ ChainsOK(g) /\ Starts(g, n) /\ Chain(g, n) = {n}
        /\ \A a \in Clusters : Starts(fat, a) => Starts(g, a) /\ Chain(g, a) = Chain(fat, a)
    BY <2>1, <2>5, Claimed
  <2>7. Eoc # Free /\ n \in Table /\ Clusters \subseteq Table
    BY <2>1, Kinds
  <2>8. /\ w.fat = g /\ w.path = <<n>> /\ w.path \in Seq(Clusters) /\ w.path # <<>>
        /\ Len(w.path) = 1 /\ w.path[1] = n /\ PathSet(w.path) = {n}
    BY <2>1, <2>2 DEF PathSet
  <2> HIDE DEF w
  <2>9. Cardinality({n}) = 1
    BY FS_Singleton
  <2>10. OnPath(g, w.path)
    BY <2>1, <2>6, <2>8, <2>9 DEF OnPath
  <2>11. New(g) = {n}
    BY <2>1, <2>5, <2>7 DEF New
  <2>12. Chain(fat, first) = {} /\ Cardinality(Chain(fat, first)) = 0
    BY <1>4, ChainNone, FS_EmptySet
  <2>13. Spared(first, g)
    BY <2>1, <2>6, <2>5, <2>7 DEF Spared
  <2>14. w = [fat |-> w.fat, path |-> w.path]
    BY <2>2, <2>8
  <2>15. Walked(first, w.fat, w.path)
    BY <1>4, <2>1, <2>6, <2>8, <2>9, <2>10, <2>11, <2>12, <2>13, <2>14 DEF Walked
  <2> QED
    BY <2>8, <2>14, <2>15 DEF w
<1> QED
  BY <1>2, <1>3, <1>4

\* A walk goes on along the chain.
LEMMA Follows ==
  ASSUME FatOK, ChainsOK(fat), NEW first \in Table, first \in Clusters => Starts(fat, first),
         NEW f, NEW p, Walked(first, f, p), p # <<>>, f[p[Len(p)]] # Eoc
  PROVE  /\ Walked(first, f, Append(p, f[p[Len(p)]]))
         /\ Len(Append(p, f[p[Len(p)]])) = Len(p) + 1
<1> DEFINE c == p[Len(p)]
           n == f[c]
<1>1. ChainsOK(f) /\ OnPath(f, p)
  BY DEF Walked
<1>2. /\ c \in Chain(f, p[1]) /\ p[1] \in Clusters /\ c \in Table
      /\ Starts(f, p[1]) /\ p \in Seq(Clusters)
      /\ Len(p) \in Nat /\ 1 <= Len(p)
  BY <1>1, PathEnds, Kinds DEF OnPath
<1>3. n # Free
  BY <1>1, <1>2, ChainUsed DEF Starts
<1>4. n \in Clusters
  BY <1>1, <1>2, <1>3, Kinds DEF ChainsOK
<1>5. /\ OnPath(f, Append(p, n))
      /\ Len(p) < Cardinality(Chain(f, p[1]))
  BY <1>1, <1>4, PathNext
<1>6. /\ Len(Append(p, n)) = Len(p) + 1 /\ Append(p, n) # <<>>
      /\ Append(p, n)[1] = p[1]
  BY <1>2, <1>4, Appended
<1>7. Cardinality(Chain(f, p[1])) \in Nat
  BY ChainFinite
<1>8. /\ f = fat
      /\ Cardinality(Chain(fat, first)) = Cardinality(Chain(f, p[1]))
  BY <1>2, <1>5, <1>7 DEF Walked
<1> HIDE DEF n
<1>9. Walked(first, f, Append(p, n))
  BY <1>1, <1>5, <1>6, <1>8 DEF Walked
<1> QED
  BY <1>6, <1>9 DEF n

\* The table with one more link, to a new end.
LEMMA GrownTable ==
  ASSUME FatOK, NEW f \in [Table -> 0 .. Eoc], NEW c \in Clusters, NEW n \in Clusters, c # n,
         NEW g, [f EXCEPT ![c] = n, ![n] = Eoc] = g
  PROVE  /\ g \in [Table -> 0 .. Eoc] /\ g[c] = n /\ g[n] = Eoc
         /\ \A e \in Table : e # c /\ e # n => g[e] = f[e]
<1>1. c \in Table /\ n \in Table /\ n \in 0 .. Eoc /\ Eoc \in 0 .. Eoc
  BY Kinds DEF Eoc, FatOK
<1> QED
  BY <1>1

\* A walk goes on by growing the chain at its end.
LEMMA Grows ==
  ASSUME FatOK, ChainsOK(fat), NEW first \in Table, first \in Clusters => Starts(fat, first),
         NEW f, NEW p, Walked(first, f, p), p # <<>>,
         f[p[Len(p)]] = Eoc, NEW n \in Clusters, f[n] = Free,
         NEW g \in [Table -> 0 .. Eoc], g[p[Len(p)]] = n, g[n] = Eoc,
         \A e \in Table : e # p[Len(p)] /\ e # n => g[e] = f[e]
  PROVE  Walked(first, g, Append(p, n)) /\ Len(Append(p, n)) = Len(p) + 1
<1> DEFINE q == Append(p, n)
           c == p[Len(p)]
<1>1. ChainsOK(f) /\ OnPath(f, p) /\ Spared(first, f)
  BY DEF Walked
<1>3. /\ c \in Chain(f, p[1]) /\ p[1] \in Clusters /\ c \in Clusters
      /\ Starts(f, p[1]) /\ p \in Seq(Clusters)
      /\ Len(p) \in Nat /\ 1 <= Len(p)
  BY <1>1, PathEnds DEF OnPath
<1>5. c # n /\ c \in Table /\ n \in Table /\ Eoc # Free /\ n # Free
  BY <1>3, Kinds
<1>7. /\ OnPath(g, Append(p, n))
      /\ Chain(g, p[1]) = Chain(f, p[1]) \cup {n}
      /\ Cardinality(Chain(g, p[1])) = Len(p) + 1
  <2> HIDE DEF q, c
  <2>1. ChainsOK(f) /\ OnPath(f, p)
    BY <1>1
  <2>2. OnPath(g, Append(p, n))
    BY ONLY FatOK, <2>1, f[p[Len(p)]] = Eoc, n \in Clusters, f[n] = Free,
       g \in [Table -> 0 .. Eoc], g[p[Len(p)]] = n, g[n] = Eoc,
       \A e \in Table : e # p[Len(p)] /\ e # n => g[e] = f[e], PathGrown
  <2>3. Chain(g, p[1]) = Chain(f, p[1]) \cup {n}
    BY <1>1, <1>3, Linked DEF c
  <2>4. Cardinality(Chain(g, p[1])) = Len(p) + 1
    BY ONLY FatOK, <2>1, f[p[Len(p)]] = Eoc, n \in Clusters, f[n] = Free,
       g \in [Table -> 0 .. Eoc], g[p[Len(p)]] = n, g[n] = Eoc,
       \A e \in Table : e # p[Len(p)] /\ e # n => g[e] = f[e], PathGrown
  <2> QED
    BY <2>2, <2>3, <2>4
<1>8. /\ ChainsOK(g)
      /\ \A a \in Clusters : Starts(f, a) =>
            /\ Starts(g, a)
            /\ c \notin Chain(f, a) => Chain(g, a) = Chain(f, a)
  BY <1>1, <1>3, Linked
<1>9. Len(q) = Len(p) + 1 /\ q # <<>> /\ q[1] = p[1]
  BY <1>3, Appended
<1>10. OnPath(g, q)
  BY <1>7
<1> HIDE DEF q
<1>11. fat[n] = Free
  BY <1>1, <1>5 DEF Spared
<1>12. New(g) = New(f) \cup {n}
  <2>1. f[c] # Free
    BY <1>5
  <2> QED
    BY <1>5, <1>11, <2>1, Kinds DEF New
<1>13. Chain(g, q[1]) = Chain(fat, first) \cup New(g)
  BY <1>7, <1>9, <1>12 DEF Walked
<1>14. Cardinality(Chain(g, q[1])) = Len(q) /\ Cardinality(Chain(fat, first)) < Len(q)
  <2>1. Cardinality(Chain(f, p[1])) = Len(p)
    BY <1>1, PathWhole, Kinds
  <2>2. Cardinality(Chain(fat, first)) \in Nat
    BY ChainFinite
  <2>3. \/ Cardinality(Chain(fat, first)) = Len(p)
        \/ Cardinality(Chain(fat, first)) < Len(p)
    BY <2>1 DEF Walked
  <2>4. Cardinality(Chain(g, q[1])) = Len(p) + 1
    BY <1>7, <1>9
  <2>5. Cardinality(Chain(fat, first)) < Len(p) + 1
    BY <1>3, <2>2, <2>3
  <2> QED
    BY <1>9, <2>4, <2>5
<1>15. ASSUME NEW e \in Table, fat[e] # Free
       PROVE  g[e] # Free /\ (e \notin Chain(fat, first) => g[e] = fat[e])
  <2>1. f[e] # Free /\ (e \notin Chain(fat, first) => f[e] = fat[e])
    BY <1>1, <1>15 DEF Spared
  <2>2. e # n
    BY <1>11, <1>15
  <2>3. CASE e = c
    <3>1. c \in Chain(fat, first) \/ c \in New(f)
      BY <1>3 DEF Walked
    <3> QED
      BY <1>5, <1>15, <2>3, <3>1 DEF New
  <2>4. CASE e # c
    BY <2>1, <2>2, <2>4
  <2> QED
    BY <2>3, <2>4
<1>16. ASSUME NEW a \in Clusters, Starts(fat, a)
       PROVE  Starts(g, a) /\ (a # first => Chain(g, a) = Chain(fat, a))
  <2>1. Starts(f, a) /\ (a # first => Chain(f, a) = Chain(fat, a))
    BY <1>1, <1>16 DEF Spared
  <2>2. ASSUME a # first PROVE c \notin Chain(f, a)
    <3>1. a # p[1]
      <4>1. CASE first \in Clusters
        BY <2>2, <4>1 DEF Walked
      <4>2. CASE first \notin Clusters
        BY <1>16, <4>2 DEF Walked, Starts
      <4> QED
        BY <4>1, <4>2
    <3>2. Chain(f, a) \cap Chain(f, p[1]) = {}
      BY <1>1, <1>3, <2>1, <3>1, ChainsApart
    <3> QED
      BY <1>3, <3>2
  <2> QED
    BY <1>8, <2>1, <2>2
<1>17. Spared(first, g)
  BY <1>15, <1>16 DEF Spared
<1>18. first \in Clusters => q[1] = first
  BY <1>9 DEF Walked
<1>19. first \notin Clusters => fat[q[1]] = Free
  BY <1>9 DEF Walked
<1>20. Walked(first, g, q)
  BY <1>7, <1>8, <1>9, <1>10, <1>13, <1>14, <1>17, <1>18, <1>19 DEF Walked
<1> QED
  BY <1>9, <1>20 DEF q

\* A step of a walk keeps what is known of it.
LEMMA WalksOn ==
  ASSUME FatOK, ChainsOK(fat), NEW first \in Table, first \in Clusters => Starts(fat, first),
         NEW f, NEW p, Walked(first, f, p), Len(p) \in Nat
  PROVE  LET x == WalkOn([fat |-> f, path |-> p]) IN
           /\ x = [fat |-> x.fat, path |-> x.path] /\ Walked(first, x.fat, x.path)
           /\ Len(x.path) \in Nat /\ Len(x.path) <= Len(p) + 1
<1> DEFINE w == [fat |-> f, path |-> p]
           c == p[Len(p)]
           g == Grow(f, c)
           x == WalkOn(w)
<1>0. w.fat = f /\ w.path = p
  OBVIOUS
<1> DEFINE Goes == /\ x = [fat |-> x.fat, path |-> x.path] /\ Walked(first, x.fat, x.path)
                   /\ Len(x.path) \in Nat /\ Len(x.path) <= Len(p) + 1
<1> SUFFICES Goes
  BY DEF Goes, x, w
<1> HIDE DEF w
<1>1. CASE Stuck(w)
  <2>1. x = w
    BY <1>1 DEF WalkOn
  <2>2. x = [fat |-> x.fat, path |-> x.path]
    BY <1>0, <2>1 DEF w
  <2> HIDE DEF x
  <2> QED
    BY <1>0, <2>1, <2>2
<1>2. CASE ~Stuck(w) /\ f[c] # Eoc
  <2>1. x = [fat |-> f, path |-> Append(p, f[c])]
    BY <1>0, <1>2 DEF WalkOn
  <2>2. p # <<>>
    BY <1>0, <1>2 DEF Stuck
  <2>3. Walked(first, f, Append(p, f[c])) /\ Len(Append(p, f[c])) = Len(p) + 1
    BY <1>2, <2>2, Follows
  <2> HIDE DEF x
  <2>4. x.fat = f /\ x.path = Append(p, f[c]) /\ x = [fat |-> x.fat, path |-> x.path]
    BY <2>1
  <2> QED
    BY <2>3, <2>4
<1>3. CASE ~Stuck(w) /\ f[c] = Eoc
  <2> DEFINE n == LeastOf(FreeIn(f))
  <2>1. x = [fat |-> g, path |-> Append(p, g[c])]
    BY <1>0, <1>3 DEF WalkOn
  <2>2. p # <<>> /\ FreeIn(f) # {}
    BY <1>0, <1>3 DEF Stuck
  <2>3. n \in Clusters /\ f[n] = Free
    BY <2>2, LeastFree
  <2>4. c \in Clusters /\ f \in [Table -> 0 .. Eoc]
    BY <2>2, PathEnds DEF Walked, ChainsOK
  <2>5. [f EXCEPT ![c] = n, ![n] = Eoc] = g
    BY DEF Grow
  <2> HIDE DEF n, g, x
  <2>6. c # n
    BY <1>3, <2>3, Kinds
  <2>7. /\ g \in [Table -> 0 .. Eoc] /\ g[c] = n /\ g[n] = Eoc
        /\ \A e \in Table : e # c /\ e # n => g[e] = f[e]
    BY <2>3, <2>4, <2>5, <2>6, GrownTable
  <2>8. Walked(first, g, Append(p, n)) /\ Len(Append(p, n)) = Len(p) + 1
    BY <1>3, <2>2, <2>3, <2>7, Grows
  <2>9. x.fat = g /\ x.path = Append(p, n) /\ x = [fat |-> x.fat, path |-> x.path]
    BY <2>1, <2>7
  <2> QED
    BY <2>8, <2>9
<1> QED
  BY <1>1, <1>2, <1>3

\* The steps of a walk over k clusters.
Steps(first, k, g) ==
  g = [i \in 1 .. k |-> IF i = 1 THEN WalkStart(first) ELSE WalkOn(g[i - 1])]

\* A walk of any length is defined.
LEMMA StepsExist ==
  ASSUME NEW first, NEW k \in Nat
  PROVE  \E g : Steps(first, k, g)
<1> DEFINE S == {m \in Nat : \E g : Steps(first, m, g)}
<1>1. 0 \in S
  <2> DEFINE g == [i \in 1 .. 0 |-> WalkStart(first)]
  <2>1. g = [i \in 1 .. 0 |-> IF i = 1 THEN WalkStart(first) ELSE WalkOn(g[i - 1])]
    OBVIOUS
  <2>2. Steps(first, 0, g)
    BY <2>1 DEF Steps
  <2> QED
    BY <2>2
<1>2. ASSUME NEW m \in S PROVE m + 1 \in S
  <2>1. m \in Nat
    OBVIOUS
  <2>2. PICK g : Steps(first, m, g)
    OBVIOUS
  <2> DEFINE last == IF m = 0 THEN WalkStart(first) ELSE WalkOn(g[m])
             h == [i \in 1 .. m + 1 |-> IF i = m + 1 THEN last ELSE g[i]]
  <2>3. \A i \in 1 .. m : g[i] = IF i = 1 THEN WalkStart(first) ELSE WalkOn(g[i - 1])
    BY <2>2 DEF Steps
  <2>4. ASSUME NEW i \in 1 .. m + 1
        PROVE  h[i] = IF i = 1 THEN WalkStart(first) ELSE WalkOn(h[i - 1])
    <3>1. CASE i = m + 1 /\ m = 0
      BY <3>1
    <3>2. CASE i = m + 1 /\ m # 0
      <4>1. h[i] = WalkOn(g[m]) /\ h[m] = g[m] /\ i # 1 /\ i - 1 = m
        BY <2>1, <3>2
      <4> QED
        BY <4>1
    <3>3. CASE i # m + 1
      <4>1. i \in 1 .. m /\ h[i] = g[i]
        BY <2>1, <3>3
      <4>2. i # 1 => h[i - 1] = g[i - 1]
        BY <2>1, <4>1
      <4> QED
        BY <2>3, <4>1, <4>2
    <3> QED
      BY <3>1, <3>2, <3>3
  <2>5. h = [i \in 1 .. m + 1 |-> h[i]]
    OBVIOUS
  <2> HIDE DEF h
  <2>6. Steps(first, m + 1, h)
    BY <2>4, <2>5 DEF Steps
  <2> QED
    BY <2>1, <2>6
<1> HIDE DEF S
<1>3. S \in SUBSET Nat
  BY DEF S
<1>4. S = Nat
  BY <1>1, <1>2, <1>3, Induct
<1> QED
  BY <1>4 DEF S

\* What is known of a walk w over k clusters.
WalkOK(first, k, w) ==
  /\ w = [fat |-> w.fat, path |-> w.path] /\ Walked(first, w.fat, w.path)
  /\ Len(w.path) \in Nat /\ Len(w.path) <= k

\* So what is known of a walk holds of the whole of it.
LEMMA Walks ==
  ASSUME FatOK, ChainsOK(fat), NEW first \in Table, first \in Clusters => Starts(fat, first),
         NEW k \in Nat, 1 <= k
  PROVE  WalkOK(first, k, Walk(first, k))
<1>1. PICK g : Steps(first, k, g)
  BY StepsExist
<1> DEFINE walk == CHOOSE h : h = [i \in 1 .. k |-> IF i = 1 THEN WalkStart(first)
                                                    ELSE WalkOn(h[i - 1])]
<1>2. walk = [i \in 1 .. k |-> IF i = 1 THEN WalkStart(first) ELSE WalkOn(walk[i - 1])]
  BY <1>1 DEF Steps
<1>3. Walk(first, k) = walk[k]
  BY DEF Walk
<1> HIDE DEF walk
<1> DEFINE S == {m \in Nat : m + 1 <= k => WalkOK(first, m + 1, walk[m + 1])}
<1>4. 0 \in S
  <2>1. walk[1] = WalkStart(first)
    BY <1>2
  <2>2. WalkOK(first, 1, walk[1])
    BY <2>1, Started DEF WalkOK
  <2>3. 0 + 1 = 1 /\ 0 \in Nat
    OBVIOUS
  <2> QED
    BY <2>2, <2>3
<1>5. ASSUME NEW m \in S PROVE m + 1 \in S
  <2> SUFFICES ASSUME m + 2 <= k PROVE WalkOK(first, m + 2, walk[m + 2])
    OBVIOUS
  <2>1. m \in Nat /\ WalkOK(first, m + 1, walk[m + 1])
    OBVIOUS
  <2>2. m + 2 \in 1 .. k /\ m + 2 # 1 /\ (m + 2) - 1 = m + 1
    BY <2>1
  <2>3. walk[m + 2] = WalkOn(walk[m + 1])
    BY <1>2, <2>2
  <2> DEFINE w == walk[m + 1]
             x == WalkOn(w)
  <2> HIDE DEF w
  <2>4. w = [fat |-> w.fat, path |-> w.path] /\ Walked(first, w.fat, w.path)
        /\ Len(w.path) \in Nat /\ Len(w.path) <= m + 1
    BY <2>1 DEF w, WalkOK
  <2>5. /\ x = [fat |-> x.fat, path |-> x.path] /\ Walked(first, x.fat, x.path)
        /\ Len(x.path) \in Nat /\ Len(x.path) <= Len(w.path) + 1
    BY <2>4, WalksOn
  <2> HIDE DEF x
  <2>6. Len(x.path) <= m + 2
    BY <2>1, <2>4, <2>5
  <2>7. WalkOK(first, m + 2, x)
    BY <2>5, <2>6 DEF WalkOK
  <2>8. walk[m + 2] = x
    BY <2>3 DEF x, w
  <2> QED
    BY <2>7, <2>8
<1> HIDE DEF S
<1>6. S \in SUBSET Nat
  BY DEF S
<1>7. S = Nat
  BY <1>4, <1>5, <1>6, Induct
<1>8. k - 1 \in S /\ (k - 1) + 1 = k
  BY <1>7
<1>9. WalkOK(first, k, walk[k])
  BY <1>8 DEF S
<1> QED
  BY <1>3, <1>9

-----------------------------------------------------------------------------
(* What is true of the disk, the vnodes and the descriptors. *)

\* What slots hold.
Labels == {Short(n) : n \in Names \cup {"foreign"}} \cup Names \cup {"", "foreign"}
SlotSet == [kind : {"end", "deleted", "entry"}, name : Labels, dir : BOOLEAN,
            first : Table, size : Nat, as : Labels]
SlotsOf(d) == 1 .. IF d = 0 THEN RootSlots ELSE DirSlots

\* Directories hold slots, and behind an end mark there are only end marks.
DirsOK(D) ==
  /\ DOMAIN D = Table
  /\ \A d \in Table :
       /\ D[d] \in [SlotsOf(d) -> SlotSet]
       /\ \A i, j \in SlotsOf(d) : i < j /\ D[d][i].kind = "end" => D[d][j].kind = "end"

\* The entries of a directory.
Ents(D, d) == {i \in SlotsOf(d) : D[d][i].kind = "entry"}

\* The directories that paths lead to; every entry is in one of them.
Paths(D, S) == 0 \in S /\ \A d \in S : \A i \in Ents(D, d) : D[d][i].dir => D[d][i].first \in S
Dirs(D) == {d \in Table : \A S \in SUBSET Table : Paths(D, S) => d \in S}
PathsOK(D) == \A d \in Table : Ents(D, d) # {} => d \in Dirs(D)

\* What an entry says fits the table, and no two entries name one cluster.
Chunks(size) == (size + Width - 1) \div Width
EntryOK(f, e) ==
  /\ e.first \in Clusters => Starts(f, e.first)
  /\ e.first \in Clusters \cup {0}
  /\ e.dir => e.first \in Clusters
  /\ ~e.dir => Cardinality(Chain(f, e.first)) = Chunks(e.size)
EntriesOK(f, D) == \A d \in Table : \A i \in Ents(D, d) : EntryOK(f, D[d][i])
FirstsApart(D) ==
  \A d, b \in Table : \A i \in Ents(D, d) : \A j \in Ents(D, b) :
    D[d][i].first = D[b][j].first /\ D[d][i].first \in Clusters => d = b /\ i = j

\* The clusters of entries, and those that failed calls left behind.
InUse(f) == {c \in Clusters : f[c] # Free}
Owned(f, D) ==
  {x \in Clusters : \E d \in Table : \E i \in Ents(D, d) : x \in Chain(f, D[d][i].first)}
LostOK(f, D, L) ==
  L \in SUBSET Clusters /\ InUse(f) = Owned(f, D) \cup L /\ Owned(f, D) \cap L = {}

\* Open files: their vnodes say what the entry of that name says, and no two
\* vnodes stand for one entry.
FileSet == [node : Fds, append : BOOLEAN, pos : Nat]
NodeSet == [dir : Table, name : Labels, first : Table, size : Nat]
FilesOK(N, F) ==
  /\ F \in [Fds -> SUBSET FileSet] /\ N \in [Fds -> NodeSet]
  /\ \A fd \in Fds : \A r \in F[fd] : F[fd] = {r}
  /\ \A fd \in Fds : \A r \in F[fd] : r.pos <= N[r.node].size
EntryOf(D, v, i) ==
  /\ i \in Ents(D, v.dir) /\ D[v.dir][i].name = v.name
  /\ \A j \in Ents(D, v.dir) : D[v.dir][j].name = v.name => i <= j
NodeOK(D, v) ==
  \E i \in Ents(D, v.dir) :
    /\ EntryOf(D, v, i)
    /\ ~D[v.dir][i].dir /\ D[v.dir][i].first = v.first /\ D[v.dir][i].size = v.size
NodesOK(D, N, F) ==
  /\ \A fd \in Fds : \A r \in F[fd] : NodeOK(D, N[r.node])
  /\ \A fd, gd \in Fds : \A r \in F[fd] : \A q \in F[gd] :
       r.node # q.node => N[r.node].dir # N[q.node].dir \/ N[r.node].name # N[q.node].name

\* A directory holds a name once.
NamesApart(D) ==
  \A d \in Table : \A i, j \in Ents(D, d) : D[d][i].name = D[d][j].name => i = j

CellsOK == cells \in [Table -> [0 .. Width - 1 -> Values \cup {0}]]

\* The inductive invariant.
FatInv ==
  /\ ChainsOK(fat) /\ CellsOK /\ DirsOK(dirs) /\ PathsOK(dirs)
  /\ EntriesOK(fat, dirs) /\ FirstsApart(dirs) /\ LostOK(fat, dirs, lost)
  /\ FilesOK(nodes, files) /\ NodesOK(dirs, nodes, files)
  /\ (~KernelApi => NamesApart(dirs))

\* The entries of a directory are those a scan meets.
LEMMA Seen ==
  ASSUME FatOK, NEW D, DirsOK(D), NEW d \in Table
  PROVE  /\ Ents(D, d) = {i \in DOMAIN D[d] : /\ D[d][i].kind = "entry"
                                              /\ \A k \in 1 .. i : D[d][k].kind # "end"}
         /\ Ents(D, d) \in SUBSET SlotsOf(d) /\ SlotsOf(d) \in SUBSET Nat /\ 0 \notin SlotsOf(d)
         /\ DOMAIN D[d] = SlotsOf(d)
         /\ \A i \in SlotsOf(d) : D[d][i] \in SlotSet
         /\ \A i \in SlotsOf(d) : 1 .. i \subseteq SlotsOf(d)
<1>1. SlotsOf(d) \in SUBSET Nat /\ 0 \notin SlotsOf(d)
  BY DEF SlotsOf, FatOK
<1>2. DOMAIN D[d] = SlotsOf(d) /\ \A i \in SlotsOf(d) : D[d][i] \in SlotSet
  BY DEF DirsOK
<1>3. \A i \in SlotsOf(d) : 1 .. i \subseteq SlotsOf(d)
  BY DEF SlotsOf, FatOK
<1>4. ASSUME NEW i \in Ents(D, d), NEW k \in 1 .. i, D[d][k].kind = "end"
      PROVE  FALSE
  <2>1. i \in SlotsOf(d) /\ k \in SlotsOf(d) /\ i \in Nat /\ k \in Nat /\ k <= i
    BY <1>1, <1>3 DEF Ents
  <2>2. k # i
    BY <1>4 DEF Ents
  <2>3. D[d][i].kind = "end"
    BY <1>4, <2>1, <2>2 DEF DirsOK
  <2> QED
    BY <2>3 DEF Ents
<1> QED
  BY <1>1, <1>2, <1>3, <1>4 DEF Ents

\* No slot holds a long name.
LEMMA NoLong ==
  ASSUME FatOK, DirsOK(dirs), NEW d \in Table, NEW i \in SlotsOf(d)
  PROVE  LongAt(d, i) = {}
<1>1. CASE i > 1
  <2>1. i - 1 \in SlotsOf(d)
    BY <1>1 DEF SlotsOf, FatOK
  <2>2. dirs[d][i - 1].kind # "long"
    BY <2>1, Seen DEF SlotSet
  <2> QED
    BY <2>2 DEF LongAt
<1>2. CASE ~(i > 1)
  BY <1>2 DEF LongAt
<1> QED
  BY <1>1, <1>2

\* What a search by the 8.3 name finds.
LEMMA FoundShort ==
  ASSUME FatOK, DirsOK(dirs), NEW d \in Table, NEW s
  PROVE  LET i == FindShort(d, s) IN
           /\ i = 0 => \A j \in Ents(dirs, d) : dirs[d][j].name # s
           /\ i # 0 => /\ i \in Ents(dirs, d) /\ dirs[d][i].name = s
                       /\ \A j \in Ents(dirs, d) : dirs[d][j].name = s => i <= j
<1> DEFINE found == {i \in Ents(dirs, d) : dirs[d][i].name = s}
<1>0. Visible(d) = Ents(dirs, d)
  BY Seen DEF Visible
<1>1. FindShort(d, s) = IF found = {} THEN 0 ELSE LeastOf(found)
  BY <1>0 DEF FindShort
<1>2. found \in SUBSET Nat /\ 0 \notin found
  BY Seen
<1>3. CASE found = {}
  BY <1>1, <1>3
<1>4. CASE found # {}
  <2>1. LeastOf(found) \in found /\ \A y \in found : LeastOf(found) <= y
    BY <1>2, <1>4, LeastIn
  <2> QED
    BY <1>1, <1>2, <1>4, <2>1
<1> QED
  BY <1>3, <1>4

\* A search by any name is one by the 8.3 name.
LEMMA Finds ==
  ASSUME FatOK, DirsOK(dirs), NEW d \in Table, NEW n
  PROVE  Find(d, n) = FindShort(d, Short(n))
<1>1. \A i \in Ents(dirs, d) : Matches(d, i, n) <=> dirs[d][i].name = Short(n)
  BY Seen, NoLong DEF Matches
<1>2. Visible(d) = Ents(dirs, d)
  BY Seen DEF Visible
<1>3. {i \in Visible(d) : Matches(d, i, n)} = {i \in Visible(d) : dirs[d][i].name = Short(n)}
  BY <1>1, <1>2
<1> QED
  BY <1>3 DEF Find, FindShort

\* The search by the 8.3 name finds the entry of a vnode.
LEMMA FoundEntry ==
  ASSUME FatOK, DirsOK(dirs), NEW v, v.dir \in Table, NEW i, EntryOf(dirs, v, i)
  PROVE  FindShort(v.dir, v.name) = i /\ i # 0
<1> DEFINE j == FindShort(v.dir, v.name)
<1>1. i \in Ents(dirs, v.dir) /\ dirs[v.dir][i].name = v.name
  BY DEF EntryOf
<1>2. j # 0
  BY <1>1, FoundShort
<1>3. j \in Ents(dirs, v.dir) /\ j <= i
  BY <1>1, <1>2, FoundShort
<1>4. i <= j
  BY <1>2, FoundShort DEF EntryOf
<1>5. i \in Nat /\ j \in Nat
  BY <1>1, <1>3, Seen
<1> QED
  BY <1>2, <1>3, <1>4, <1>5

\* The slot for a new entry is the first that is not taken.
LEMMA SlotFound ==
  ASSUME FatOK, DirsOK(dirs), NEW d \in Table, Slot(d) # 0
  PROVE  /\ Slot(d) \in SlotsOf(d) /\ dirs[d][Slot(d)].kind \in {"end", "deleted"}
         /\ \A j \in SlotsOf(d) : j < Slot(d) => dirs[d][j].kind = "entry"
<1> DEFINE unused == {i \in DOMAIN dirs[d] : dirs[d][i].kind \in {"end", "deleted"}}
<1>1. unused # {} /\ Slot(d) = LeastOf(unused)
  BY DEF Slot
<1>2. unused \in SUBSET Nat
  BY Seen
<1>3. LeastOf(unused) \in unused /\ \A y \in unused : LeastOf(unused) <= y
  BY <1>1, <1>2, LeastIn
<1>4. Slot(d) \in Nat
  BY <1>1, <1>2, <1>3
<1>5. ASSUME NEW j \in SlotsOf(d), j < Slot(d) PROVE dirs[d][j].kind = "entry"
  <2>0. j \in Nat /\ ~(Slot(d) <= j)
    BY <1>4, <1>5, Seen
  <2>1. j \notin unused
    BY <1>1, <1>3, <2>0
  <2> QED
    BY <2>0, <2>1, Seen DEF SlotSet
<1> QED
  BY <1>1, <1>3, <1>5, Seen

\* No entry but the one in slot s of directory d differs between D and E.
SameBut(D, E, d, s) ==
  \A x \in Table : \A i \in SlotsOf(x) : x # d \/ i # s =>
    /\ i \in Ents(E, x) <=> i \in Ents(D, x)
    /\ i \in Ents(D, x) => E[x][i] = D[x][i]

\* create_entry fills the slot it found.
LEMMA Inserted ==
  ASSUME FatOK, NEW D, DirsOK(D), NEW d \in Table, NEW s \in SlotsOf(d),
         D[d][s].kind \in {"end", "deleted"},
         \A j \in SlotsOf(d) : j < s => D[d][j].kind = "entry",
         NEW e \in SlotSet, e.kind = "entry", NEW E, [D EXCEPT ![d][s] = e] = E
  PROVE  /\ DirsOK(E) /\ SameBut(D, E, d, s)
         /\ s \notin Ents(D, d) /\ s \in Ents(E, d) /\ E[d][s] = e
<1>1. /\ DOMAIN E = Table /\ \A x \in Table : x # d => E[x] = D[x]
      /\ E[d] = [D[d] EXCEPT ![s] = e]
  BY DEF DirsOK
<1>2. /\ E[d] \in [SlotsOf(d) -> SlotSet] /\ E[d][s] = e
      /\ \A j \in SlotsOf(d) : j # s => E[d][j] = D[d][j]
  BY <1>1 DEF DirsOK
<1>3. ASSUME NEW i \in SlotsOf(d), NEW j \in SlotsOf(d), i < j, E[d][i].kind = "end"
      PROVE  E[d][j].kind = "end"
  <2>1. i # s
    BY <1>2, <1>3
  <2>2. D[d][i].kind = "end"
    BY <1>2, <1>3, <2>1
  <2>3. ~(i < s)
    BY <2>2
  <2>4. i \in Nat /\ j \in Nat /\ s \in Nat
    BY Seen
  <2>5. j # s
    BY <1>3, <2>3, <2>4
  <2>6. D[d][j].kind = "end"
    BY <1>3, <2>2 DEF DirsOK
  <2> QED
    BY <1>2, <2>5, <2>6
<1>4. \A x \in Table : E[x] \in [SlotsOf(x) -> SlotSet]
  BY <1>1, <1>2 DEF DirsOK
<1>5. DirsOK(E)
  <2> SUFFICES ASSUME NEW x \in Table, NEW i \in SlotsOf(x), NEW j \in SlotsOf(x),
                      i < j, E[x][i].kind = "end"
               PROVE  E[x][j].kind = "end"
    BY <1>1, <1>4 DEF DirsOK
  <2>1. CASE x = d
    BY <1>3, <2>1
  <2>2. CASE x # d
    BY <1>1, <2>2 DEF DirsOK
  <2> QED
    BY <2>1, <2>2
<1>6. SameBut(D, E, d, s)
  <2> SUFFICES ASSUME NEW x \in Table, NEW i \in SlotsOf(x), x # d \/ i # s
               PROVE  E[x][i] = D[x][i]
    BY DEF SameBut, Ents
  <2> QED
    BY <1>1, <1>2
<1> QED
  BY <1>2, <1>5, <1>6 DEF Ents

\* A slot of an entry takes other contents that are an entry, or deleted.
LEMMA Stored ==
  ASSUME FatOK, NEW D, DirsOK(D), NEW d \in Table, NEW s \in Ents(D, d),
         NEW e \in SlotSet, e.kind # "end", NEW E, [D EXCEPT ![d][s] = e] = E
  PROVE  /\ DirsOK(E) /\ SameBut(D, E, d, s)
         /\ s \in Ents(E, d) <=> e.kind = "entry"
         /\ E[d][s] = e
<1>0. s \in SlotsOf(d) /\ D[d][s].kind = "entry"
  BY DEF Ents
<1>1. /\ DOMAIN E = Table /\ \A x \in Table : x # d => E[x] = D[x]
      /\ E[d] = [D[d] EXCEPT ![s] = e]
  BY DEF DirsOK
<1>2. /\ E[d] \in [SlotsOf(d) -> SlotSet] /\ E[d][s] = e
      /\ \A j \in SlotsOf(d) : j # s => E[d][j] = D[d][j]
  BY <1>0, <1>1 DEF DirsOK
<1>3. ASSUME NEW i \in SlotsOf(d), NEW j \in SlotsOf(d), i < j, E[d][i].kind = "end"
      PROVE  E[d][j].kind = "end"
  <2>1. i # s
    BY <1>2, <1>3
  <2>2. D[d][i].kind = "end"
    BY <1>2, <1>3, <2>1
  <2>3. D[d][j].kind = "end"
    BY <1>3, <2>2 DEF DirsOK
  <2>4. j # s
    BY <1>0, <2>3
  <2> QED
    BY <1>2, <2>3, <2>4
<1>4. \A x \in Table : E[x] \in [SlotsOf(x) -> SlotSet]
  BY <1>1, <1>2 DEF DirsOK
<1>5. DirsOK(E)
  <2> SUFFICES ASSUME NEW x \in Table, NEW i \in SlotsOf(x), NEW j \in SlotsOf(x),
                      i < j, E[x][i].kind = "end"
               PROVE  E[x][j].kind = "end"
    BY <1>1, <1>4 DEF DirsOK
  <2>1. CASE x = d
    BY <1>3, <2>1
  <2>2. CASE x # d
    BY <1>1, <2>2 DEF DirsOK
  <2> QED
    BY <2>1, <2>2
<1>6. SameBut(D, E, d, s)
  <2> SUFFICES ASSUME NEW x \in Table, NEW i \in SlotsOf(x), x # d \/ i # s
               PROVE  E[x][i] = D[x][i]
    BY DEF SameBut, Ents
  <2> QED
    BY <1>1, <1>2
<1> QED
  BY <1>0, <1>2, <1>5, <1>6 DEF Ents

\* A directory without entries is emptied.
LEMMA Emptied ==
  ASSUME FatOK, NEW D, DirsOK(D), NEW c \in Clusters, Ents(D, c) = {},
         NEW E, [D EXCEPT ![c] = Empty(DirSlots)] = E, NEW d, NEW s
  PROVE  DirsOK(E) /\ SameBut(D, E, d, s)
<1>1. c \in Table /\ c # 0
  BY Kinds DEF Clusters
<1>2. /\ DOMAIN E = Table /\ \A x \in Table : x # c => E[x] = D[x]
      /\ E[c] = [i \in SlotsOf(c) |-> EndSlot]
  BY <1>1 DEF DirsOK, Empty, SlotsOf
<1>3. EndSlot \in SlotSet /\ EndSlot.kind = "end"
  BY Kinds DEF EndSlot, SlotSet, Labels
<1>4. /\ E[c] \in [SlotsOf(c) -> SlotSet]
      /\ \A i \in SlotsOf(c) : E[c][i].kind = "end"
  BY <1>2, <1>3
<1>5. DirsOK(E)
  <2> SUFFICES ASSUME NEW x \in Table
               PROVE  /\ E[x] \in [SlotsOf(x) -> SlotSet]
                      /\ \A i, j \in SlotsOf(x) : i < j /\ E[x][i].kind = "end" => E[x][j].kind = "end"
    BY <1>2 DEF DirsOK
  <2>1. CASE x = c
    BY <1>4, <2>1
  <2>2. CASE x # c
    BY <1>2, <2>2 DEF DirsOK
  <2> QED
    BY <2>1, <2>2
<1>6. Ents(E, c) = {}
  BY <1>4 DEF Ents
<1>7. \A x \in Table : x # c => Ents(E, x) = Ents(D, x)
  BY <1>2 DEF Ents
<1> QED
  BY <1>2, <1>5, <1>6, <1>7 DEF SameBut

\* The directories of the disk, in terms of its entries.
LEMMA DirectoriesAre ==
  ASSUME FatOK, DirsOK(dirs)
  PROVE  Directories = Dirs(dirs)
<1>1. ASSUME NEW S \in SUBSET Table PROVE HoldsPaths(S) <=> Paths(dirs, S)
  <2>1. \A d \in S : Visible(d) = Ents(dirs, d)
    BY Seen DEF Visible
  <2> QED
    BY <2>1 DEF HoldsPaths, Paths
<1> QED
  BY <1>1 DEF Directories, Dirs

\* The entries of a directory name directories.
LEMMA DirsHold ==
  ASSUME FatOK, NEW D, DirsOK(D)
  PROVE  Dirs(D) \in SUBSET Table /\ Paths(D, Dirs(D))
<1>1. ASSUME NEW d \in Dirs(D), NEW i \in Ents(D, d), D[d][i].dir
      PROVE  D[d][i].first \in Dirs(D)
  <2>1. d \in Table /\ D[d][i].first \in Table
    BY Seen DEF Dirs, SlotSet
  <2> QED
    BY <1>1, <2>1 DEF Dirs, Paths
<1>2. 0 \in Dirs(D)
  BY Kinds DEF Dirs, Paths
<1> QED
  BY <1>1, <1>2 DEF Paths, Dirs

\* Every directory but the root has an entry.
LEMMA DirNamed ==
  ASSUME FatOK, NEW D, DirsOK(D), NEW c \in Dirs(D), c # 0
  PROVE  \E d \in Dirs(D) : \E i \in Ents(D, d) : D[d][i].dir /\ D[d][i].first = c
<1> SUFFICES ASSUME \A d \in Dirs(D) : \A i \in Ents(D, d) : D[d][i].dir => D[d][i].first # c
             PROVE  FALSE
  OBVIOUS
<1> DEFINE S == Dirs(D) \ {c}
<1>1. Paths(D, S)
  BY DirsHold DEF Paths
<1>2. S \in SUBSET Table
  BY DirsHold
<1> QED
  BY <1>1, <1>2 DEF Dirs

\* Entries are added, or change without naming another directory.
LEMMA PathsKept ==
  ASSUME FatOK, NEW D, NEW E, DirsOK(D), DirsOK(E), NEW d, NEW s, SameBut(D, E, d, s),
         PathsOK(D),
         d \in Table /\ s \in Ents(D, d) /\ D[d][s].dir =>
           s \in Ents(E, d) /\ E[d][s].dir /\ E[d][s].first = D[d][s].first,
         d \in Table /\ s \in Ents(E, d) => d \in Dirs(D)
  PROVE  PathsOK(E)
<1>1. ASSUME NEW S \in SUBSET Table, Paths(E, S) PROVE Paths(D, S)
  <2> SUFFICES ASSUME NEW x \in S, NEW i \in Ents(D, x), D[x][i].dir
               PROVE  D[x][i].first \in S
    BY <1>1 DEF Paths
  <2>1. x \in Table /\ i \in SlotsOf(x)
    BY DEF Ents
  <2>2. CASE x = d /\ i = s
    BY <1>1, <2>1, <2>2 DEF Paths
  <2>3. CASE x # d \/ i # s
    <3>1. i \in Ents(E, x) /\ E[x][i] = D[x][i]
      BY <2>1, <2>3 DEF SameBut
    <3> QED
      BY <1>1, <3>1 DEF Paths
  <2> QED
    BY <2>2, <2>3
<1>2. Dirs(D) \subseteq Dirs(E)
  BY <1>1 DEF Dirs
<1> SUFFICES ASSUME NEW x \in Table, NEW i \in Ents(E, x) PROVE x \in Dirs(D)
  BY <1>2 DEF PathsOK
<1>3. CASE x = d /\ i = s
  BY <1>3
<1>4. CASE x # d \/ i # s
  <2>1. i \in Ents(D, x)
    BY <1>4 DEF SameBut, Ents
  <2> QED
    BY <2>1 DEF PathsOK
<1> QED
  BY <1>3, <1>4

\* The entry of a directory without entries is removed.
LEMMA PathsWithout ==
  ASSUME FatOK, NEW D, NEW E, DirsOK(D), DirsOK(E), NEW d \in Table, NEW s \in Ents(D, d),
         SameBut(D, E, d, s), PathsOK(D), s \notin Ents(E, d),
         NEW c \in Clusters, D[d][s].first = c, Ents(D, c) = {}
  PROVE  PathsOK(E)
<1>0. c \in Table /\ c # 0 /\ 0 \in Table
  BY Kinds DEF Clusters
<1>1. ASSUME NEW S \in SUBSET Table, Paths(E, S) PROVE Paths(D, S \cup {c})
  <2> SUFFICES ASSUME NEW x \in S \cup {c}, NEW i \in Ents(D, x), D[x][i].dir
               PROVE  D[x][i].first \in S \cup {c}
    BY <1>1 DEF Paths
  <2>1. x \in S /\ x \in Table /\ i \in SlotsOf(x)
    BY DEF Ents
  <2>2. CASE x = d /\ i = s
    BY <2>2
  <2>3. CASE x # d \/ i # s
    <3>1. i \in Ents(E, x) /\ E[x][i] = D[x][i]
      BY <2>1, <2>3 DEF SameBut
    <3> QED
      BY <1>1, <2>1, <3>1 DEF Paths
  <2> QED
    BY <2>2, <2>3
<1>2. ASSUME NEW x \in Dirs(D), x # c, NEW S \in SUBSET Table, Paths(E, S) PROVE x \in S
  <2>1. S \cup {c} \in SUBSET Table /\ Paths(D, S \cup {c})
    BY <1>0, <1>1, <1>2
  <2> QED
    BY <1>2, <2>1 DEF Dirs
<1> SUFFICES ASSUME NEW x \in Table, NEW i \in Ents(E, x) PROVE x \in Dirs(E)
  BY DEF PathsOK
<1>3. i \in Ents(D, x)
  BY DEF SameBut, Ents
<1>4. x \in Dirs(D) /\ x # c
  BY <1>3 DEF PathsOK
<1> QED
  BY <1>2, <1>4 DEF Dirs

-----------------------------------------------------------------------------
(* One entry changes, and its chain with it. *)

\* g keeps the chains of f, but the one that starts at c.
Keeps(f, g, c) ==
  \A a \in Clusters : Starts(f, a) /\ a # c => Starts(g, a) /\ Chain(g, a) = Chain(f, a)

\* Cluster c is named by no entry but the one in slot s of d.
OnlyAt(D, d, s, c) ==
  \A x \in Table : \A i \in Ents(D, x) :
    (x # d \/ i # s) /\ D[x][i].first = c => c \notin Clusters

\* An entry keeps its chain when the chain of another one changes.
LEMMA ChainKept ==
  ASSUME NEW f, NEW g, NEW e, NEW c, EntryOK(f, e), Keeps(f, g, c), e.first = c => c \notin Clusters
  PROVE  EntryOK(g, e) /\ Chain(g, e.first) = Chain(f, e.first)
<1>1. Chain(g, e.first) = Chain(f, e.first)
  BY ChainNone DEF Keeps, EntryOK
<1> QED
  BY <1>1 DEF Keeps, EntryOK

\* Entries stay as they should be when one of them changes.
LEMMA EntriesStep ==
  ASSUME NEW D, NEW E, NEW d, NEW s, SameBut(D, E, d, s),
         NEW f, NEW g, NEW c, EntriesOK(f, D), Keeps(f, g, c), OnlyAt(D, d, s, c),
         d \in Table /\ s \in Ents(E, d) => EntryOK(g, E[d][s])
  PROVE  EntriesOK(g, E)
<1> SUFFICES ASSUME NEW x \in Table, NEW i \in Ents(E, x) PROVE EntryOK(g, E[x][i])
  BY DEF EntriesOK
<1>1. CASE x = d /\ i = s
  BY <1>1
<1>2. CASE x # d \/ i # s
  <2>1. i \in Ents(D, x) /\ E[x][i] = D[x][i]
    BY <1>2 DEF SameBut, Ents
  <2>2. EntryOK(f, D[x][i])
    BY <2>1 DEF EntriesOK
  <2>3. D[x][i].first = c => c \notin Clusters
    BY <1>2, <2>1 DEF OnlyAt
  <2>4. EntryOK(g, D[x][i])
    BY <2>2, <2>3, ChainKept
  <2> QED
    BY <2>1, <2>4
<1> QED
  BY <1>1, <1>2

\* So do their first clusters.
LEMMA FirstsStep ==
  ASSUME NEW D, NEW E, NEW d, NEW s, SameBut(D, E, d, s), FirstsApart(D),
         d \in Table /\ s \in Ents(E, d) => OnlyAt(D, d, s, E[d][s].first)
  PROVE  FirstsApart(E)
<1>1. ASSUME NEW x \in Table, NEW i \in Ents(E, x), x # d \/ i # s
      PROVE  i \in Ents(D, x) /\ E[x][i] = D[x][i]
  BY <1>1 DEF SameBut, Ents
<1> SUFFICES ASSUME NEW x \in Table, NEW y \in Table, NEW i \in Ents(E, x), NEW j \in Ents(E, y),
                    E[x][i].first = E[y][j].first, E[x][i].first \in Clusters
             PROVE  x = y /\ i = j
  BY DEF FirstsApart
<1>2. CASE x = d /\ i = s
  <2>1. ASSUME y # d \/ j # s PROVE FALSE
    BY <1>1, <1>2, <2>1 DEF OnlyAt
  <2> QED
    BY <1>2, <2>1
<1>3. CASE y = d /\ j = s
  <2>1. ASSUME x # d \/ i # s PROVE FALSE
    BY <1>1, <1>3, <2>1 DEF OnlyAt
  <2> QED
    BY <1>3, <2>1
<1>4. CASE (x # d \/ i # s) /\ (y # d \/ j # s)
  BY <1>1, <1>4 DEF FirstsApart
<1> QED
  BY <1>2, <1>3, <1>4

\* The clusters of the other entries, and those of the entry in slot s of d.
Rest(f, D, d, s) ==
  {c \in Clusters : \E x \in Table : \E i \in Ents(D, x) :
     (x # d \/ i # s) /\ c \in Chain(f, D[x][i].first)}

\* The clusters of one entry; the rest are those of all the others.
Own(f, D, d, s) ==
  {c \in Clusters : d \in Table /\ s \in Ents(D, d) /\ c \in Chain(f, D[d][s].first)}

\* The clusters of all entries are those of one and the rest.
LEMMA Split ==
  ASSUME FatOK, NEW f, ChainsOK(f), NEW D, EntriesOK(f, D), FirstsApart(D), NEW d, NEW s
  PROVE  /\ Owned(f, D) = Rest(f, D, d, s) \cup Own(f, D, d, s)
         /\ Rest(f, D, d, s) \cap Own(f, D, d, s) = {}
<1>1. Owned(f, D) = Rest(f, D, d, s) \cup Own(f, D, d, s)
  BY DEF Owned, Rest, Own
<1>2. ASSUME NEW c \in Rest(f, D, d, s), c \in Own(f, D, d, s) PROVE FALSE
  <2>0. PICK x \in Table : \E i \in Ents(D, x) :
           (x # d \/ i # s) /\ c \in Chain(f, D[x][i].first)
    BY DEF Rest
  <2>1. PICK i \in Ents(D, x) : (x # d \/ i # s) /\ c \in Chain(f, D[x][i].first)
    BY <2>0
  <2>2. d \in Table /\ s \in Ents(D, d) /\ c \in Chain(f, D[d][s].first)
    BY <1>2 DEF Own
  <2>3. D[x][i].first \in Clusters /\ D[d][s].first \in Clusters
    BY <2>1, <2>2, ChainNone
  <2>4. D[x][i].first # D[d][s].first
    BY <2>1, <2>2, <2>3 DEF FirstsApart
  <2>5. Starts(f, D[x][i].first) /\ Starts(f, D[d][s].first)
    BY <2>1, <2>2, <2>3 DEF EntriesOK, EntryOK
  <2>6. Chain(f, D[x][i].first) \cap Chain(f, D[d][s].first) = {}
    BY <2>3, <2>4, <2>5, ChainsApart
  <2> QED
    BY <2>1, <2>2, <2>6
<1> QED
  BY <1>1, <1>2

\* The rest does not change with the one.
LEMMA RestKept ==
  ASSUME NEW D, NEW E, NEW d, NEW s, SameBut(D, E, d, s),
         NEW f, NEW g, NEW c, EntriesOK(f, D), Keeps(f, g, c), OnlyAt(D, d, s, c)
  PROVE  Rest(g, E, d, s) = Rest(f, D, d, s)
<1>1. ASSUME NEW x \in Table, NEW i, x # d \/ i # s
      PROVE  i \in Ents(E, x) <=> i \in Ents(D, x)
  BY <1>1 DEF SameBut, Ents
<1>2. ASSUME NEW x \in Table, NEW i \in Ents(D, x), x # d \/ i # s
      PROVE  Chain(g, E[x][i].first) = Chain(f, D[x][i].first)
  <2>1. E[x][i] = D[x][i]
    BY <1>2 DEF SameBut, Ents
  <2>2. EntryOK(f, D[x][i])
    BY DEF EntriesOK
  <2>3. D[x][i].first = c => c \notin Clusters
    BY <1>2 DEF OnlyAt
  <2>4. Chain(g, D[x][i].first) = Chain(f, D[x][i].first)
    BY <2>2, <2>3, ChainKept
  <2> QED
    BY <2>1, <2>4
<1> QED
  BY <1>1, <1>2 DEF Rest

\* A vnode whose entry is another one keeps it.
LEMMA NodeKept ==
  ASSUME FatOK, NEW D, NEW E, DirsOK(D), DirsOK(E), NEW d, NEW s, SameBut(D, E, d, s),
         NEW v, v.dir \in Table, NodeOK(D, v),
         v.dir = d /\ s \in Ents(D, d) => D[d][s].name # v.name,
         v.dir = d /\ s \in Ents(E, d) => E[d][s].name # v.name
  PROVE  NodeOK(E, v)
<1>1. PICK i \in Ents(D, v.dir) :
        /\ EntryOf(D, v, i)
        /\ ~D[v.dir][i].dir /\ D[v.dir][i].first = v.first /\ D[v.dir][i].size = v.size
  BY DEF NodeOK
<1>2. v.dir # d \/ i # s
  BY <1>1 DEF EntryOf
<1>3. i \in Ents(E, v.dir) /\ E[v.dir][i] = D[v.dir][i]
  BY <1>2 DEF SameBut, Ents
<1>4. ASSUME NEW j \in Ents(E, v.dir), E[v.dir][j].name = v.name PROVE i <= j
  <2>1. v.dir # d \/ j # s
    BY <1>4
  <2>2. j \in Ents(D, v.dir) /\ E[v.dir][j] = D[v.dir][j]
    BY <2>1 DEF SameBut, Ents
  <2> QED
    BY <1>1, <1>4, <2>2 DEF EntryOf
<1>5. EntryOf(E, v, i)
  BY <1>1, <1>3, <1>4 DEF EntryOf
<1> QED
  BY <1>1, <1>3, <1>5 DEF NodeOK

-----------------------------------------------------------------------------
(* Vnodes and descriptors. *)

\* An open descriptor has one file.
LEMMA FileIs ==
  ASSUME NEW N, FilesOK(N, files), NEW fd \in Fds, files[fd] # {}
  PROVE  FileOf(fd) \in files[fd] /\ files[fd] = {FileOf(fd)} /\ FileOf(fd) \in FileSet
<1>1. FileOf(fd) \in files[fd]
  BY DEF FileOf
<1> QED
  BY <1>1 DEF FilesOK

\* There is a vnode to open a file with: there are as many as descriptors.
LEMMA FreshIs ==
  ASSUME FatOK, NEW N, FilesOK(N, files), NEW fd \in Fds, files[fd] = {}
  PROVE  /\ FreshNode \in Fds
         /\ \A g \in Fds : \A r \in files[g] : r.node # FreshNode
<1> DEFINE unused == {k \in Fds : \A g \in Open : FileOf(g).node # k}
<1>1. unused # {}
  <2> SUFFICES ASSUME \A k \in Fds : \E g \in Open : FileOf(g).node = k
               PROVE  FALSE
    OBVIOUS
  <2> DEFINE h == [k \in Fds |-> CHOOSE g \in Open : FileOf(g).node = k]
             T == Fds \ {fd}
  <2>1. \A k \in Fds : h[k] \in Open /\ FileOf(h[k]).node = k
    OBVIOUS
  <2>2. Open \subseteq T
    BY DEF Open
  <2>3. h \in [Fds -> T]
    BY <2>1, <2>2
  <2>4. \A k, m \in Fds : h[k] = h[m] => k = m
    BY <2>1
  <2> HIDE DEF h
  <2>5. h \in Injection(Fds, T)
    BY <2>3, <2>4 DEF Injection, IsInjective
  <2>6. IsFiniteSet(Fds) /\ IsFiniteSet(T) /\ Cardinality(T) = Cardinality(Fds) - 1
        /\ Cardinality(Fds) \in Nat
    BY FS_RemoveElement, FS_CardinalityType DEF FatOK
  <2>7. Cardinality(Fds) <= Cardinality(T)
    BY <2>5, <2>6, FS_Injection
  <2> QED
    BY <2>6, <2>7
<1>2. FreshNode \in unused
  <2>1. unused \in SUBSET Nat
    BY DEF FatOK
  <2> QED
    BY <1>1, <2>1, LeastIn DEF FreshNode
<1>3. ASSUME NEW g \in Fds, NEW r \in files[g] PROVE r.node # FreshNode
  <2>1. g \in Open /\ FileOf(g) = r
    BY FileIs DEF Open
  <2> QED
    BY <1>2, <2>1
<1> QED
  BY <1>2, <1>3

\* A file is opened with a vnode of its own.
LEMMA Opened ==
  ASSUME NEW E, NEW N, NEW F, FilesOK(N, F), NodesOK(E, N, F),
         NEW k \in Fds, \A g \in Fds : \A r \in F[g] : r.node # k,
         NEW fd \in Fds,
         NEW v \in NodeSet, NodeOK(E, v),
         \A g \in Fds : \A r \in F[g] : N[r.node].dir # v.dir \/ N[r.node].name # v.name,
         NEW q \in FileSet, q.node = k, q.pos <= v.size,
         NEW M, [N EXCEPT ![k] = v] = M, NEW G, [F EXCEPT ![fd] = {q}] = G
  PROVE  FilesOK(M, G) /\ NodesOK(E, M, G)
<1>1. /\ M \in [Fds -> NodeSet] /\ M[k] = v
      /\ \A m \in Fds : m # k => M[m] = N[m]
  BY DEF FilesOK
<1>2. /\ G \in [Fds -> SUBSET FileSet] /\ G[fd] = {q}
      /\ \A g \in Fds : g # fd => G[g] = F[g]
  BY DEF FilesOK
<1>3. \A g \in Fds : \A r \in F[g] : r.node \in Fds
  BY DEF FilesOK, FileSet
<1>4. \A g \in Fds : \A r \in G[g] : r = q \/ (g # fd /\ r \in F[g] /\ M[r.node] = N[r.node])
  BY <1>1, <1>2, <1>3
<1>5. FilesOK(M, G)
  <2>1. ASSUME NEW g \in Fds, NEW r \in G[g] PROVE G[g] = {r} /\ r.pos <= M[r.node].size
    <3>1. CASE g = fd
      BY <1>1, <1>2, <3>1
    <3>2. CASE g # fd
      BY <1>1, <1>2, <1>3, <3>2 DEF FilesOK
    <3> QED
      BY <3>1, <3>2
  <2> QED
    BY <1>1, <1>2, <2>1 DEF FilesOK
<1>6. ASSUME NEW g \in Fds, NEW r \in G[g] PROVE NodeOK(E, M[r.node])
  BY <1>1, <1>4 DEF NodesOK
<1>7. ASSUME NEW g \in Fds, NEW h \in Fds, NEW r \in G[g], NEW p \in G[h], r.node # p.node
      PROVE  M[r.node].dir # M[p.node].dir \/ M[r.node].name # M[p.node].name
  <2>1. CASE r = q /\ p # q
    BY <1>1, <1>4, <2>1
  <2>2. CASE r # q /\ p = q
    BY <1>1, <1>4, <2>2
  <2>3. CASE r # q /\ p # q
    BY <1>4, <1>7, <2>3 DEF NodesOK
  <2> QED
    BY <1>7, <2>1, <2>2, <2>3
<1> QED
  BY <1>5, <1>6, <1>7 DEF NodesOK

\* A vnode and the position of a descriptor that is open on it move on.
LEMMA Moved ==
  ASSUME NEW E, NEW N, NEW F, FilesOK(N, F), NEW fd \in Fds, NEW p \in F[fd],
         NEW v \in NodeSet, NodeOK(E, v),
         v.dir = N[p.node].dir, v.name = N[p.node].name, N[p.node].size <= v.size,
         \A g \in Fds : \A r \in F[g] : r.node # p.node => NodeOK(E, N[r.node]),
         \A g, h \in Fds : \A r \in F[g] : \A s \in F[h] :
           r.node # s.node => N[r.node].dir # N[s.node].dir \/ N[r.node].name # N[s.node].name,
         NEW q \in FileSet, q.node = p.node, q.pos <= v.size,
         NEW M, [N EXCEPT ![p.node] = v] = M, NEW G, [F EXCEPT ![fd] = {q}] = G
  PROVE  FilesOK(M, G) /\ NodesOK(E, M, G)
<1> DEFINE k == p.node
<1>0. k \in Fds
  BY DEF FilesOK, FileSet
<1>1. /\ M \in [Fds -> NodeSet] /\ M[k] = v
      /\ \A m \in Fds : m # k => M[m] = N[m]
  BY <1>0 DEF FilesOK
<1>2. /\ G \in [Fds -> SUBSET FileSet] /\ G[fd] = {q}
      /\ \A g \in Fds : g # fd => G[g] = F[g]
  BY DEF FilesOK
<1>3. \A g \in Fds : \A r \in F[g] : r \in FileSet /\ r.node \in Fds
  BY DEF FilesOK, FileSet
<1>4. /\ \A m \in Fds : M[m].dir = N[m].dir /\ M[m].name = N[m].name
      /\ \A m \in Fds : m # k => M[m].size = N[m].size
  BY <1>1
<1>5. \A g \in Fds : \A r \in G[g] : \E h \in Fds : \E s \in F[h] : s.node = r.node
  BY <1>2
<1>6. ASSUME NEW g \in Fds, NEW r \in F[g] PROVE r.pos <= M[r.node].size
  <2>1. r.pos <= N[r.node].size
    BY DEF FilesOK
  <2>2. CASE r.node # k
    BY <1>3, <1>4, <2>1, <2>2
  <2>3. CASE r.node = k
    <3>1. r.pos \in Nat /\ N[k].size \in Nat /\ v.size \in Nat
      BY <1>0, <1>3 DEF FilesOK, FileSet, NodeSet
    <3> QED
      BY <1>1, <2>1, <2>3, <3>1
  <2> QED
    BY <2>2, <2>3
<1>7. FilesOK(M, G)
  <2>1. ASSUME NEW g \in Fds, NEW r \in G[g] PROVE G[g] = {r} /\ r.pos <= M[r.node].size
    <3>1. CASE g = fd
      BY <1>1, <1>2, <3>1
    <3>2. CASE g # fd
      BY <1>2, <1>6, <3>2 DEF FilesOK
    <3> QED
      BY <3>1, <3>2
  <2> QED
    BY <1>1, <1>2, <2>1 DEF FilesOK
<1>8. ASSUME NEW g \in Fds, NEW r \in G[g] PROVE NodeOK(E, M[r.node])
  <2>1. PICK h \in Fds : \E s \in F[h] : s.node = r.node
    BY <1>5
  <2>2. PICK s \in F[h] : s.node = r.node
    BY <2>1
  <2>3. s.node \in Fds
    BY <1>3
  <2> QED
    BY <1>1, <2>2, <2>3
<1>9. ASSUME NEW g \in Fds, NEW h \in Fds, NEW r \in G[g], NEW s \in G[h], r.node # s.node
      PROVE  M[r.node].dir # M[s.node].dir \/ M[r.node].name # M[s.node].name
  <2>1. PICK gg \in Fds : \E rr \in F[gg] : rr.node = r.node
    BY <1>5
  <2>2. PICK rr \in F[gg] : rr.node = r.node
    BY <2>1
  <2>3. PICK hh \in Fds : \E ss \in F[hh] : ss.node = s.node
    BY <1>5
  <2>4. PICK ss \in F[hh] : ss.node = s.node
    BY <2>3
  <2>5. N[rr.node].dir # N[ss.node].dir \/ N[rr.node].name # N[ss.node].name
    BY <1>9, <2>2, <2>4
  <2>6. rr.node \in Fds /\ ss.node \in Fds
    BY <1>3
  <2> QED
    BY <1>4, <2>2, <2>4, <2>5, <2>6
<1> QED
  BY <1>7, <1>8, <1>9 DEF NodesOK

\* How much a read returns.
LEMMA GotFits ==
  ASSUME NEW v, v.size \in Nat, NEW pos \in Nat, pos <= v.size, NEW n \in Nat
  PROVE  Len(Got(v, pos, n)) \in Nat /\ pos + Len(Got(v, pos, n)) <= v.size
<1> DEFINE size == IF v.size > pos THEN v.size - pos ELSE 0
           count == IF n < size THEN n ELSE size
           cluster == CHOOSE f : f = [k \in Nat |-> IF k = 0 THEN v.first ELSE
                                        IF f[k - 1] = Eoc THEN Eoc ELSE fat[f[k - 1]]]
           readable == {j \in 0 .. count : \A k \in 0 .. j - 1 :
                          cluster[(pos + k) \div Width] \in Clusters}
           got == CHOOSE j \in readable : \A k \in readable : k <= j
           data == [j \in 1 .. got |->
                      cells[cluster[(pos + j - 1) \div Width]][(pos + j - 1) % Width]]
<1>1. Got(v, pos, n) = data
  BY DEF Got
<1>2. count \in Nat /\ pos + count <= v.size
  OBVIOUS
<1> HIDE DEF cluster, count
<1>3. readable \in SUBSET (0 .. count) /\ 0 \in readable
  BY <1>2
<1> HIDE DEF readable
<1>4. \E j \in readable : \A k \in readable : k <= j
  <2> DEFINE bounds == {m \in Nat : \A k \in readable : k <= m}
  <2>1. count \in bounds
    BY <1>2, <1>3
  <2>2. PICK m \in bounds : \A b \in bounds : m <= b
    BY <2>1, LeastNat
  <2>3. ASSUME m \notin readable PROVE FALSE
    <3>1. m # 0 /\ m \in Nat
      BY <1>3, <2>3
    <3>2. \A k \in readable : k <= m - 1
      BY <1>2, <1>3, <2>3, <3>1
    <3>3. m - 1 \in bounds
      BY <3>1, <3>2
    <3> QED
      BY <2>2, <3>1, <3>3
  <2> QED
    BY <2>3
<1>5. got \in readable
  BY <1>4
<1> HIDE DEF got
<1>6. got \in Nat /\ got <= count
  BY <1>2, <1>3, <1>5
<1>7. Len(data) = got
  BY <1>6
<1> QED
  BY <1>1, <1>2, <1>6, <1>7

\* Descriptors are closed, copied or moved on; vnodes that are in use stay.
LEMMA Reopened ==
  ASSUME NEW E, NEW N, NEW F, FilesOK(N, F), NodesOK(E, N, F),
         NEW M \in [Fds -> NodeSet], NEW G \in [Fds -> SUBSET FileSet],
         \A g \in Fds : \A r \in G[g] :
           /\ G[g] = {r} /\ r.pos <= N[r.node].size /\ M[r.node] = N[r.node]
           /\ \E h \in Fds : \E s \in F[h] : s.node = r.node
  PROVE  FilesOK(M, G) /\ NodesOK(E, M, G)
<1>1. FilesOK(M, G)
  BY DEF FilesOK
<1>2. ASSUME NEW g \in Fds, NEW r \in G[g] PROVE NodeOK(E, M[r.node])
  <2>1. PICK h \in Fds : \E s \in F[h] : s.node = r.node
    OBVIOUS
  <2>2. PICK s \in F[h] : s.node = r.node
    BY <2>1
  <2>3. NodeOK(E, N[s.node])
    BY DEF NodesOK
  <2> QED
    BY <2>2, <2>3
<1>3. ASSUME NEW g \in Fds, NEW h \in Fds, NEW r \in G[g], NEW s \in G[h], r.node # s.node
      PROVE  M[r.node].dir # M[s.node].dir \/ M[r.node].name # M[s.node].name
  <2>1. PICK gg \in Fds : \E rr \in F[gg] : rr.node = r.node
    OBVIOUS
  <2>2. PICK rr \in F[gg] : rr.node = r.node
    BY <2>1
  <2>3. PICK hh \in Fds : \E ss \in F[hh] : ss.node = s.node
    OBVIOUS
  <2>4. PICK ss \in F[hh] : ss.node = s.node
    BY <2>3
  <2>5. N[rr.node].dir # N[ss.node].dir \/ N[rr.node].name # N[ss.node].name
    BY <1>3, <2>2, <2>4 DEF NodesOK
  <2>6. M[r.node] = N[rr.node] /\ M[s.node] = N[ss.node]
    BY <2>2, <2>4
  <2> QED
    BY <2>5, <2>6
<1> QED
  BY <1>1, <1>2, <1>3 DEF NodesOK

\* What an action that only touches descriptors and vnodes keeps.
LEMMA DiskSame ==
  ASSUME FatInv, UNCHANGED <<fat, cells, dirs, lost>>,
         FilesOK(nodes', files'), NodesOK(dirs, nodes', files')
  PROVE  FatInv'
BY DEF FatInv, CellsOK

\* Closing a descriptor.
LEMMA Closes ==
  ASSUME FatOK, FatInv, NEW fd \in Fds, Close(fd)
  PROVE  FatInv'
<1>1. FilesOK(nodes, files) /\ NodesOK(dirs, nodes, files)
  BY DEF FatInv
<1>2. /\ files' = [files EXCEPT ![fd] = {}]
      /\ nodes' = [k \in Fds |->
           IF \E g \in Open \ {fd} : FileOf(g).node = k THEN nodes[k] ELSE NoNode]
      /\ UNCHANGED <<fat, cells, dirs, lost>>
  BY DEF Close
<1>3. NoNode \in NodeSet
  BY Kinds DEF NoNode, NodeSet, Labels
<1>4. nodes' \in [Fds -> NodeSet] /\ files' \in [Fds -> SUBSET FileSet]
  BY <1>1, <1>2, <1>3 DEF FilesOK
<1>5. ASSUME NEW g \in Fds, NEW r \in files'[g]
      PROVE  g # fd /\ r \in files[g] /\ files'[g] = {r} /\ nodes'[r.node] = nodes[r.node]
             /\ r.pos <= nodes[r.node].size
  <2>1. g # fd /\ r \in files[g] /\ files'[g] = files[g]
    BY <1>1, <1>2 DEF FilesOK
  <2>2. g \in Open \ {fd} /\ FileOf(g) = r /\ r \in FileSet /\ files[g] = {r}
    BY <1>1, <2>1, FileIs DEF Open
  <2>3. r.node \in Fds
    BY <2>2 DEF FileSet
  <2>4. nodes'[r.node] = nodes[r.node]
    BY <1>2, <2>2, <2>3
  <2> QED
    BY <1>1, <2>1, <2>2, <2>4 DEF FilesOK
<1>6. FilesOK(nodes', files') /\ NodesOK(dirs, nodes', files')
  BY <1>1, <1>4, <1>5, Reopened
<1> QED
  BY <1>2, <1>6, DiskSame

\* Duplicating a descriptor.
LEMMA Duplicates ==
  ASSUME FatOK, FatInv, NEW fd \in Fds, NEW other \in Fds, Duplicate(fd, other)
  PROVE  FatInv'
<1>1. FilesOK(nodes, files) /\ NodesOK(dirs, nodes, files)
  BY DEF FatInv
<1>2. /\ files' = [files EXCEPT ![other] = files[fd]]
      /\ UNCHANGED <<fat, cells, dirs, nodes, lost>>
  BY DEF Duplicate
<1>3. nodes' \in [Fds -> NodeSet] /\ files' \in [Fds -> SUBSET FileSet]
  BY <1>1, <1>2 DEF FilesOK
<1>4. \A g \in Fds : files'[g] = files[g] \/ files'[g] = files[fd]
  BY <1>1, <1>2 DEF FilesOK
<1>5. \A g \in Fds : \A r \in files'[g] :
        /\ files'[g] = {r} /\ r.pos <= nodes[r.node].size /\ nodes'[r.node] = nodes[r.node]
        /\ \E h \in Fds : \E s \in files[h] : s.node = r.node
  BY <1>1, <1>2, <1>4 DEF FilesOK
<1>6. FilesOK(nodes', files') /\ NodesOK(dirs, nodes', files')
  BY <1>1, <1>3, <1>5, Reopened
<1> QED
  BY <1>2, <1>6, DiskSame

\* Reading.
LEMMA Reads ==
  ASSUME FatOK, FatInv, NEW fd \in Fds, NEW n \in 1 .. MaxCount, Read(fd, n)
  PROVE  FatInv'
<1> DEFINE f == FileOf(fd)
           v == nodes[f.node]
           got == Len(Got(v, f.pos, n))
           q == [f EXCEPT !.pos = @ + got]
<1>1. FilesOK(nodes, files) /\ NodesOK(dirs, nodes, files)
  BY DEF FatInv
<1>2. /\ files' = [files EXCEPT ![fd] = {q}]
      /\ UNCHANGED <<fat, cells, dirs, nodes, lost>>
  BY DEF Read
<1>3. f \in files[fd] /\ f \in FileSet
  BY <1>1, FileIs DEF Read, Open
<1>4. f.pos \in Nat /\ f.node \in Fds /\ v \in NodeSet /\ v.size \in Nat /\ f.pos <= v.size
      /\ n \in Nat
  <2> HIDE DEF f
  <2>1. f.pos \in Nat /\ f.node \in Fds /\ n \in Nat
    BY <1>3 DEF FileSet, FatOK
  <2>2. v \in NodeSet /\ f.pos <= v.size
    BY <1>1, <1>3, <2>1 DEF FilesOK
  <2>3. v.size \in Nat
    BY <2>2 DEF NodeSet
  <2> QED
    BY <2>1, <2>2, <2>3
<1>5. got \in Nat /\ f.pos + got <= v.size
  BY <1>4, GotFits
<1> HIDE DEF got
<1>6. q \in FileSet /\ q.node = f.node /\ q.pos = f.pos + got
  BY <1>3, <1>4, <1>5 DEF FileSet
<1> HIDE DEF q
<1>7. nodes' \in [Fds -> NodeSet] /\ files' \in [Fds -> SUBSET FileSet]
  BY <1>1, <1>2, <1>6 DEF FilesOK
<1>8. files'[fd] = {q} /\ \A g \in Fds : g # fd => files'[g] = files[g]
  BY <1>1, <1>2 DEF FilesOK
<1>9. ASSUME NEW g \in Fds, NEW r \in files'[g]
      PROVE  /\ files'[g] = {r} /\ r.pos <= nodes[r.node].size
             /\ nodes'[r.node] = nodes[r.node]
             /\ \E h \in Fds : \E s \in files[h] : s.node = r.node
  <2>1. CASE g = fd
    BY <1>2, <1>3, <1>5, <1>6, <1>8, <2>1
  <2>2. CASE g # fd
    BY <1>1, <1>2, <1>8, <2>2 DEF FilesOK
  <2> QED
    BY <2>1, <2>2
<1>10. FilesOK(nodes', files') /\ NodesOK(dirs, nodes', files')
  BY <1>1, <1>7, <1>9, Reopened
<1> QED
  BY <1>2, <1>10, DiskSame

-----------------------------------------------------------------------------
(* The beginning, and the calls that change directories. *)

\* A formatted disk.
LEMMA StartOK ==
  ASSUME FatOK, Foreign = {}, Init
  PROVE  FatInv
<1>1. /\ fat \in [Table -> 0 .. Eoc] /\ fat = [c \in Table |-> IF c < 2 THEN Eoc ELSE Free]
      /\ \A c \in Table : c \in Clusters => fat[c] = Free
      /\ \A c \in Table : c \notin Clusters => fat[c] = Eoc
      /\ Eoc # 1
  BY Kinds DEF Init, Eoc, Free, FatOK
<1>2. ChainsOK(fat)
  BY <1>1, Kinds DEF ChainsOK, Free
<1>3. CellsOK
  BY DEF CellsOK, Init
<1>4. EndSlot \in SlotSet /\ EndSlot.kind = "end"
  BY Kinds DEF EndSlot, SlotSet, Labels
<1>5. \A d \in Table : dirs[d] = [i \in SlotsOf(d) |-> EndSlot]
  BY DEF Init, Empty, SlotsOf
<1>6. DOMAIN dirs = Table
  BY DEF Init
<1>7. DirsOK(dirs)
  BY <1>4, <1>5, <1>6 DEF DirsOK
<1>8. \A d \in Table : Ents(dirs, d) = {}
  BY <1>4, <1>5 DEF Ents
<1>9. PathsOK(dirs) /\ EntriesOK(fat, dirs) /\ FirstsApart(dirs) /\ NamesApart(dirs)
  BY <1>8 DEF PathsOK, EntriesOK, FirstsApart, NamesApart
<1>10. LostOK(fat, dirs, lost)
  <2>1. Owned(fat, dirs) = {}
    BY <1>8 DEF Owned
  <2>2. InUse(fat) = {}
    BY <1>1, Kinds DEF InUse
  <2> QED
    BY <2>1, <2>2 DEF LostOK, Init
<1>11. FilesOK(nodes, files) /\ NodesOK(dirs, nodes, files)
  <2>1. NoNode \in NodeSet
    BY Kinds DEF NoNode, NodeSet, Labels
  <2>2. nodes \in [Fds -> NodeSet] /\ files \in [Fds -> SUBSET FileSet]
        /\ \A fd \in Fds : files[fd] = {}
    BY <2>1 DEF Init
  <2> QED
    BY <2>2 DEF FilesOK, NodesOK
<1> QED
  BY <1>2, <1>3, <1>7, <1>9, <1>10, <1>11 DEF FatInv

\* One entry is added, changed or removed: O and P are the clusters that were
\* and are its own, X those that a failure leaves behind.
LEMMA Edited ==
  ASSUME FatOK, NEW f, NEW D, NEW L, ChainsOK(f), EntriesOK(f, D), FirstsApart(D), LostOK(f, D, L),
         NEW g, NEW E, NEW d, NEW s, SameBut(D, E, d, s),
         NEW c, Keeps(f, g, c), OnlyAt(D, d, s, c),
         d \in Table /\ s \in Ents(E, d) =>
           EntryOK(g, E[d][s]) /\ OnlyAt(D, d, s, E[d][s].first),
         NEW O, O = Own(f, D, d, s), NEW P, P = Own(g, E, d, s), NEW X \in SUBSET Clusters,
         InUse(g) = (InUse(f) \ O) \cup P \cup X,
         (P \cup X) \cap (InUse(f) \ O) = {}, P \cap X = {}
  PROVE  EntriesOK(g, E) /\ FirstsApart(E) /\ LostOK(g, E, L \cup X)
<1>1. EntriesOK(g, E)
  BY EntriesStep
<1>2. FirstsApart(E)
  BY FirstsStep
<1> DEFINE R == Rest(f, D, d, s)
<1>3. Owned(f, D) = R \cup O /\ R \cap O = {}
  BY Split
<1>4. Owned(g, E) = R \cup P
  <2>1. Owned(g, E) = Rest(g, E, d, s) \cup P
    BY DEF Owned, Rest, Own
  <2> QED
    BY <2>1, RestKept
<1> HIDE DEF R
<1>5. L \in SUBSET Clusters /\ InUse(f) = R \cup O \cup L /\ (R \cup O) \cap L = {}
  BY <1>3 DEF LostOK
<1>6. InUse(g) = (R \cup P) \cup (L \cup X) /\ (R \cup P) \cap (L \cup X) = {}
  BY <1>3, <1>5
<1>7. LostOK(g, E, L \cup X)
  BY <1>4, <1>5, <1>6 DEF LostOK
<1> QED
  BY <1>1, <1>2, <1>7

\* Nothing but cluster 0, which is none, is claimed twice.
LEMMA Nowhere ==
  ASSUME FatOK, NEW f, NEW D, NEW d, NEW s
  PROVE  Keeps(f, f, 0) /\ OnlyAt(D, d, s, 0)
BY DEF Keeps, OnlyAt, Clusters

\* An empty file calls for no clusters.
LEMMA NoChunks ==
  ASSUME FatOK
  PROVE  Chunks(0) = 0
BY DEF Chunks, FatOK

\* What an entry holds when it is made.
LEMMA EntryIs ==
  ASSUME FatOK, NEW n \in Names, NEW dir \in BOOLEAN, NEW first \in Table, NEW size \in Nat
  PROVE  LET e == Entry(n, dir, first, size) IN
           /\ e \in SlotSet /\ e.kind = "entry" /\ e.name = Short(n) /\ e.dir = dir
           /\ e.first = first /\ e.size = size
BY DEF Entry, SlotSet, Labels

\* A file without clusters is added to a directory.
LEMMA Created ==
  ASSUME FatOK, FatInv, NEW d \in Directories, NEW n \in Names, Find(d, n) = 0, Slot(d) # 0,
         NEW E, Insert(dirs, d, Entry(n, FALSE, 0, 0)) = E
  PROVE  /\ DirsOK(E) /\ SameBut(dirs, E, d, Slot(d)) /\ PathsOK(E)
         /\ EntriesOK(fat, E) /\ FirstsApart(E) /\ LostOK(fat, E, lost)
         /\ Slot(d) \notin Ents(dirs, d) /\ Slot(d) \in Ents(E, d)
         /\ E[d][Slot(d)] = Entry(n, FALSE, 0, 0)
<1> DEFINE s == Slot(d)
           e == Entry(n, FALSE, 0, 0)
<1>1. DirsOK(dirs) /\ ChainsOK(fat) /\ PathsOK(dirs) /\ EntriesOK(fat, dirs)
      /\ FirstsApart(dirs) /\ LostOK(fat, dirs, lost)
  BY DEF FatInv
<1>2. d \in Table /\ d \in Dirs(dirs)
  BY <1>1, DirectoriesAre, DirsHold
<1>3. /\ s \in SlotsOf(d) /\ dirs[d][s].kind \in {"end", "deleted"}
      /\ \A j \in SlotsOf(d) : j < s => dirs[d][j].kind = "entry"
  BY <1>1, <1>2, SlotFound
<1>4. 0 \in Table /\ 0 \notin Clusters
  BY Kinds DEF Clusters
<1>5. e \in SlotSet /\ e.kind = "entry" /\ ~e.dir /\ e.first = 0 /\ e.size = 0
  BY <1>4 DEF Entry, SlotSet, Labels
<1>6. [dirs EXCEPT ![d][s] = e] = E
  BY DEF Insert
<1> HIDE DEF s, e
<1>7. /\ DirsOK(E) /\ SameBut(dirs, E, d, s)
      /\ s \notin Ents(dirs, d) /\ s \in Ents(E, d) /\ E[d][s] = e
  BY <1>1, <1>2, <1>3, <1>5, <1>6, Inserted
<1>8. PathsOK(E)
  BY <1>1, <1>2, <1>7, PathsKept
<1>9. Chain(fat, 0) = {} /\ EntryOK(fat, e)
  <2>1. Chain(fat, 0) = {}
    BY <1>4, ChainNone
  <2>2. Cardinality(Chain(fat, e.first)) = Chunks(e.size)
    BY <1>5, <2>1, NoChunks, FS_EmptySet
  <2> QED
    BY <1>4, <1>5, <2>1, <2>2 DEF EntryOK
<1>10. Own(fat, dirs, d, s) = {} /\ Own(fat, E, d, s) = {}
  BY <1>5, <1>7, <1>9 DEF Own
<1>11. EntriesOK(fat, E) /\ FirstsApart(E) /\ LostOK(fat, E, lost \cup {})
  <2>1. Keeps(fat, fat, 0) /\ OnlyAt(dirs, d, s, 0)
    BY Nowhere
  <2>2. EntryOK(fat, E[d][s]) /\ OnlyAt(dirs, d, s, E[d][s].first)
    BY <1>5, <1>7, <1>9, <2>1
  <2>3. InUse(fat) = (InUse(fat) \ {}) \cup {} \cup {}
        /\ ({} \cup {}) \cap (InUse(fat) \ {}) = {}
        /\ {} \cap {} = {}
    OBVIOUS
  <2> QED
    BY <1>1, <1>7, <1>10, <2>1, <2>2, <2>3, Edited
<1>12. LostOK(fat, E, lost)
  BY <1>11 DEF LostOK
<1> QED
  BY <1>7, <1>8, <1>11, <1>12 DEF s, e

\* What a step keeps of the vnodes when it changes one entry that no open
\* file stands for.
LEMMA NodesKept ==
  ASSUME FatOK, NEW D, NEW E, DirsOK(D), DirsOK(E), NEW d, NEW s, SameBut(D, E, d, s),
         NEW N, NEW F, FilesOK(N, F), NodesOK(D, N, F),
         \A g \in Fds : \A r \in F[g] : N[r.node].dir = d =>
           /\ s \in Ents(D, d) => D[d][s].name # N[r.node].name
           /\ s \in Ents(E, d) => E[d][s].name # N[r.node].name
  PROVE  NodesOK(E, N, F)
<1>1. ASSUME NEW g \in Fds, NEW r \in F[g] PROVE NodeOK(E, N[r.node])
  <2> DEFINE v == N[r.node]
  <2>1. v.dir \in Table
    BY DEF FilesOK, FileSet, NodeSet
  <2>2. NodeOK(D, v)
    BY DEF NodesOK
  <2>3. /\ v.dir = d /\ s \in Ents(D, d) => D[d][s].name # v.name
        /\ v.dir = d /\ s \in Ents(E, d) => E[d][s].name # v.name
    OBVIOUS
  <2> HIDE DEF v
  <2>4. NodeOK(E, v)
    BY <2>1, <2>2, <2>3, NodeKept
  <2> QED
    BY <2>4 DEF v
<1> QED
  BY <1>1 DEF NodesOK

\* No open file has a name that is not in its directory.
LEMMA NotOpen ==
  ASSUME FatOK, DirsOK(dirs), NEW v, v.dir \in Table, NodeOK(dirs, v)
  PROVE  FindShort(v.dir, v.name) # 0
BY FoundEntry DEF NodeOK

\* An entry whose name was not there keeps names apart.
LEMMA NameAdded ==
  ASSUME FatOK, NEW D, NEW E, NEW d, NEW s, SameBut(D, E, d, s), NamesApart(D),
         d \in Table /\ s \in Ents(E, d) =>
           \A j \in Ents(D, d) : j # s => D[d][j].name # E[d][s].name
  PROVE  NamesApart(E)
<1> SUFFICES ASSUME NEW x \in Table, NEW i \in Ents(E, x), NEW j \in Ents(E, x),
                    E[x][i].name = E[x][j].name
             PROVE  i = j
  BY DEF NamesApart
<1>1. ASSUME NEW k \in Ents(E, x), x # d \/ k # s
      PROVE  k \in Ents(D, x) /\ E[x][k] = D[x][k]
  BY <1>1 DEF SameBut, Ents
<1>2. CASE x = d /\ (i = s \/ j = s)
  BY <1>1, <1>2
<1>3. CASE x # d \/ (i # s /\ j # s)
  BY <1>1, <1>3 DEF NamesApart
<1> QED
  BY <1>2, <1>3

\* What opening entry i of directory d does, once D holds it.
LEMMA OpensEntry ==
  ASSUME FatOK, NEW D, DirsOK(D), FilesOK(nodes, files), NodesOK(D, nodes, files),
         NEW d \in Table, NEW i \in Ents(D, d), ~D[d][i].dir,
         \A j \in Ents(D, d) : D[d][j].name = D[d][i].name => i <= j,
         \A g \in Fds : \A r \in files[g] :
           nodes[r.node].dir # d \/ nodes[r.node].name # D[d][i].name,
         NEW fd \in Fds, files[fd] = {}, NEW append \in BOOLEAN, OpenEntry(D, d, i, fd, append)
  PROVE  FilesOK(nodes', files') /\ NodesOK(D, nodes', files')
<1> DEFINE e == D[d][i]
           v == [dir |-> d, name |-> e.name, first |-> e.first, size |-> e.size]
           q == [node |-> FreshNode, append |-> append, pos |-> IF append THEN e.size ELSE 0]
<1>1. FreshNode \in Fds /\ \A g \in Fds : \A r \in files[g] : r.node # FreshNode
  BY FreshIs
<1>2. [nodes EXCEPT ![FreshNode] = v] = nodes' /\ [files EXCEPT ![fd] = {q}] = files'
  BY DEF OpenEntry
<1>3. e \in SlotSet
  BY Seen
<1> HIDE DEF e
<1>4. e.first \in Table /\ e.size \in Nat /\ e.name \in Labels
  BY <1>3 DEF SlotSet
<1>5. /\ v \in NodeSet /\ v.dir = d /\ v.name = e.name /\ v.first = e.first /\ v.size = e.size
      /\ q \in FileSet /\ q.node = FreshNode /\ q.pos <= v.size
  BY <1>1, <1>4 DEF NodeSet, FileSet
<1> HIDE DEF v, q
<1>6. EntryOf(D, v, i)
  BY <1>5 DEF EntryOf, e
<1>7. NodeOK(D, v)
  BY <1>5, <1>6 DEF NodeOK, e
<1>8. \A g \in Fds : \A r \in files[g] : nodes[r.node].dir # v.dir \/ nodes[r.node].name # v.name
  BY <1>5 DEF e
<1> QED
  BY <1>1, <1>2, <1>5, <1>7, <1>8, Opened

\* Opening a file, and creating it.
LEMMA Opens ==
  ASSUME FatOK, Sharing = FALSE, FatInv, NEW d \in Directories, NEW n \in Names,
         NEW fd \in Fds, NEW append \in BOOLEAN, OpenFile(d, n, fd, append)
  PROVE  FatInv'
<1>1. /\ ChainsOK(fat) /\ CellsOK /\ DirsOK(dirs) /\ PathsOK(dirs)
      /\ EntriesOK(fat, dirs) /\ FirstsApart(dirs) /\ LostOK(fat, dirs, lost)
      /\ FilesOK(nodes, files) /\ NodesOK(dirs, nodes, files)
      /\ (~KernelApi => NamesApart(dirs))
  BY DEF FatInv
<1>2. d \in Table /\ d \in Dirs(dirs)
  BY <1>1, DirectoriesAre, DirsHold
<1>3. files[fd] = {} /\ UNCHANGED <<fat, cells, lost>>
  BY DEF OpenFile
<1>4. Find(d, n) = FindShort(d, Short(n))
  BY <1>1, <1>2, Finds
<1>5. \A g \in Fds : \A r \in files[g] : nodes[r.node] \in NodeSet /\ NodeOK(dirs, nodes[r.node])
  BY <1>1 DEF FilesOK, FileSet, NodesOK
<1>6. CASE Find(d, n) # 0
  <2> DEFINE i == Find(d, n)
  <2>1. ~dirs[d][i].dir /\ ~IsOpen(d, i) /\ UNCHANGED dirs /\ OpenEntry(dirs, d, i, fd, append)
    BY <1>6 DEF OpenFile
  <2>2. /\ i \in Ents(dirs, d) /\ dirs[d][i].name = Short(n)
        /\ \A j \in Ents(dirs, d) : dirs[d][j].name = Short(n) => i <= j
    BY <1>1, <1>2, <1>4, <1>6, FoundShort
  <2> HIDE DEF i
  <2>3. \A g \in Fds : \A r \in files[g] :
          nodes[r.node].dir # d \/ nodes[r.node].name # dirs[d][i].name
    <3> SUFFICES ASSUME NEW g \in Fds, NEW r \in files[g]
                 PROVE  nodes[r.node].dir # d \/ nodes[r.node].name # dirs[d][i].name
      OBVIOUS
    <3>1. g \in Open /\ FileOf(g) = r
      BY <1>1, FileIs DEF Open
    <3> QED
      BY <2>1, <3>1 DEF IsOpen
  <2>4. FilesOK(nodes', files') /\ NodesOK(dirs, nodes', files')
    BY <1>1, <1>2, <1>3, <2>1, <2>2, <2>3, OpensEntry
  <2> QED
    BY <1>3, <2>1, <2>4, DiskSame
<1>7. CASE Find(d, n) = 0
  <2> DEFINE s == Slot(d)
             e == Entry(n, FALSE, 0, 0)
  <2>1. s # 0 /\ Insert(dirs, d, e) = dirs' /\ OpenEntry(dirs', d, s, fd, append)
    BY <1>7 DEF OpenFile
  <2>2. /\ DirsOK(dirs') /\ SameBut(dirs, dirs', d, s) /\ PathsOK(dirs')
        /\ EntriesOK(fat, dirs') /\ FirstsApart(dirs') /\ LostOK(fat, dirs', lost)
        /\ s \notin Ents(dirs, d) /\ s \in Ents(dirs', d)
        /\ dirs'[d][s] = e
    BY <1>7, <2>1, Created
  <2>3. e.name = Short(n) /\ ~e.dir
    BY DEF Entry
  <2> HIDE DEF s, e
  <2>4. \A j \in Ents(dirs, d) : dirs[d][j].name # Short(n)
    BY <1>1, <1>2, <1>4, <1>7, FoundShort
  <2>5. \A g \in Fds : \A r \in files[g] :
          nodes[r.node].dir # d \/ nodes[r.node].name # dirs'[d][s].name
    <3> SUFFICES ASSUME NEW g \in Fds, NEW r \in files[g], nodes[r.node].dir = d,
                        nodes[r.node].name = Short(n)
                 PROVE  FALSE
      BY <2>2, <2>3
    <3>1. FindShort(nodes[r.node].dir, nodes[r.node].name) # 0
      BY <1>1, <1>2, <1>5, NotOpen
    <3> QED
      BY <1>4, <1>7, <3>1
  <2>6. NodesOK(dirs', nodes, files)
    BY <1>1, <2>2, <2>5, NodesKept
  <2>7. \A j \in Ents(dirs', d) : dirs'[d][j].name = dirs'[d][s].name => s <= j
    <3> SUFFICES ASSUME NEW j \in Ents(dirs', d), dirs'[d][j].name = Short(n) PROVE s <= j
      BY <2>2, <2>3
    <3>1. CASE j = s
      BY <1>2, <2>2, <3>1, Seen
    <3>2. CASE j # s
      <4>1. j \in Ents(dirs, d) /\ dirs'[d][j] = dirs[d][j]
        BY <1>2, <2>2, <3>2 DEF SameBut, Ents
      <4> QED
        BY <2>4, <4>1
    <3> QED
      BY <3>1, <3>2
  <2>8. FilesOK(nodes', files') /\ NodesOK(dirs', nodes', files')
    BY <1>1, <1>2, <1>3, <2>1, <2>2, <2>3, <2>5, <2>6, <2>7, OpensEntry
  <2>9. ~KernelApi => NamesApart(dirs')
    BY <1>1, <2>2, <2>3, <2>4, NameAdded
  <2> QED
    BY <1>1, <1>3, <2>2, <2>8, <2>9 DEF FatInv, CellsOK
<1> QED
  BY <1>6, <1>7

\* Two changes of one and the same slot are one change.
LEMMA SameThen ==
  ASSUME NEW C, NEW D, NEW E, NEW d, NEW s, SameBut(C, D, d, s), SameBut(D, E, d, s)
  PROVE  SameBut(C, E, d, s)
BY DEF SameBut

\* An entry is removed, and so is the directory it names, which has no entries.
LEMMA Deletes ==
  ASSUME FatOK, DirsOK(dirs), NEW d \in Table, NEW i \in Ents(dirs, d),
         NEW c, dirs[d][i].first = c,
         dirs[d][i].dir => c \in Clusters /\ Ents(dirs, c) = {}, Delete(d, i)
  PROVE  DirsOK(dirs') /\ SameBut(dirs, dirs', d, i) /\ i \notin Ents(dirs', d)
<1> DEFINE A == [dirs EXCEPT ![d][i] = DeletedSlot]
<1>1. DeletedSlot \in SlotSet /\ DeletedSlot.kind = "deleted"
  BY Kinds DEF DeletedSlot, EndSlot, SlotSet, Labels
<1>2. DirsOK(A) /\ SameBut(dirs, A, d, i) /\ i \notin Ents(A, d)
  <2>1. DeletedSlot.kind # "end" /\ DeletedSlot.kind # "entry"
    BY <1>1
  <2> QED
    BY <1>1, <2>1, Stored
<1>3. /\ DOMAIN A = Table /\ DOMAIN dirs = Table
      /\ A = [x \in Table |-> IF x = d THEN [dirs[d] EXCEPT ![i] = DeletedSlot] ELSE dirs[x]]
  BY DEF DirsOK
<1>4. dirs' = [x \in Table |->
         IF x = d THEN [dirs[d] EXCEPT ![i] = DeletedSlot]
         ELSE IF dirs[d][i].dir /\ x = c THEN Empty(DirSlots) ELSE dirs[x]]
  BY DEF Delete
<1>5. CASE ~dirs[d][i].dir
  <2>1. dirs' = A
    BY <1>3, <1>4, <1>5
  <2> QED
    BY <1>2, <2>1
<1>6. CASE dirs[d][i].dir
  <2>1. c \in Clusters /\ Ents(dirs, c) = {} /\ c \in Table /\ c # d
    BY <1>6, Kinds
  <2>2. dirs' = [A EXCEPT ![c] = Empty(DirSlots)]
    BY <1>3, <1>4, <1>6, <2>1
  <2>3. A[c] = dirs[c] /\ A[d] = dirs'[d]
    BY <1>3, <2>1, <2>2
  <2> HIDE DEF A
  <2>4. Ents(A, c) = {}
    BY <2>1, <2>3 DEF Ents
  <2>5. DirsOK(dirs') /\ SameBut(A, dirs', d, i)
    BY <1>2, <2>1, <2>2, <2>4, Emptied
  <2>6. i \notin Ents(dirs', d)
    BY <1>2, <2>3 DEF Ents
  <2> QED
    BY <1>2, <2>5, <2>6, SameThen
<1> QED
  BY <1>5, <1>6

\* An entry that no open file stands for is removed with its chain.
LEMMA Removes ==
  ASSUME FatOK, FatInv, NEW d \in Directories, NEW n, NEW i, i = Find(d, n), i # 0,
         dirs[d][i].dir => Ents(dirs, dirs[d][i].first) = {},
         ~dirs[d][i].dir => ~IsOpen(d, i),
         Delete(d, i), FreeChain(dirs[d][i].first), UNCHANGED <<cells, nodes, files, lost>>
  PROVE  FatInv'
<1> DEFINE c == dirs[d][i].first
<1>1. /\ ChainsOK(fat) /\ CellsOK /\ DirsOK(dirs) /\ PathsOK(dirs)
      /\ EntriesOK(fat, dirs) /\ FirstsApart(dirs) /\ LostOK(fat, dirs, lost)
      /\ FilesOK(nodes, files) /\ NodesOK(dirs, nodes, files)
      /\ (~KernelApi => NamesApart(dirs))
  BY DEF FatInv
<1>2. d \in Table /\ d \in Dirs(dirs)
  BY <1>1, DirectoriesAre, DirsHold
<1>3. i = FindShort(d, Short(n)) /\ i \in Ents(dirs, d) /\ dirs[d][i].name = Short(n)
  BY <1>1, <1>2, Finds, FoundShort
<1>4. EntryOK(fat, dirs[d][i])
  BY <1>1, <1>2, <1>3 DEF EntriesOK
<1>5. /\ c \in Clusters => Starts(fat, c)
      /\ dirs[d][i].dir => c \in Clusters
  BY <1>4 DEF EntryOK
<1>6. fat' = [e \in Table |-> IF e \in Chain(fat, c) THEN Free ELSE fat[e]]
  BY DEF FreeChain
<1>7. DirsOK(dirs') /\ SameBut(dirs, dirs', d, i) /\ i \notin Ents(dirs', d)
  BY <1>1, <1>2, <1>3, <1>5, Deletes
<1>8. ChainsOK(fat') /\ Keeps(fat, fat', c)
  BY <1>1, <1>5, <1>6, Freed DEF Keeps
<1>9. OnlyAt(dirs, d, i, c)
  BY <1>1, <1>2, <1>3 DEF OnlyAt, FirstsApart
<1>10. PathsOK(dirs')
  <2>1. CASE dirs[d][i].dir
    BY <1>1, <1>2, <1>3, <1>5, <1>7, <2>1, PathsWithout
  <2>2. CASE ~dirs[d][i].dir
    BY <1>1, <1>2, <1>3, <1>7, <2>2, PathsKept
  <2> QED
    BY <2>1, <2>2
<1>11. Own(fat, dirs, d, i) = Chain(fat, c) /\ Own(fat', dirs', d, i) = {}
  BY <1>2, <1>3, <1>7, ChainIn DEF Own
<1>12. InUse(fat') = InUse(fat) \ Chain(fat, c)
  <2>1. Clusters \subseteq Table
    BY Kinds
  <2> QED
    BY <1>6, <2>1 DEF InUse
<1> HIDE DEF c
<1>13. EntriesOK(fat', dirs') /\ FirstsApart(dirs') /\ LostOK(fat', dirs', lost \cup {})
  <2>1. InUse(fat') = (InUse(fat) \ Chain(fat, c)) \cup {} \cup {}
        /\ ({} \cup {}) \cap (InUse(fat) \ Chain(fat, c)) = {}
        /\ {} \cap {} = {}
    BY <1>12
  <2> QED
    BY <1>1, <1>7, <1>8, <1>9, <1>11, <2>1, Edited
<1>14. LostOK(fat', dirs', lost)
  BY <1>13 DEF LostOK
<1>15. NodesOK(dirs', nodes, files)
  <2>1. ASSUME NEW g \in Fds, NEW r \in files[g], nodes[r.node].dir = d,
               dirs[d][i].name = nodes[r.node].name
        PROVE  FALSE
    <3> DEFINE v == nodes[r.node]
    <3>1. NodeOK(dirs, v)
      BY <1>1 DEF NodesOK
    <3>2. PICK j \in Ents(dirs, v.dir) : EntryOf(dirs, v, j) /\ ~dirs[v.dir][j].dir
      BY <3>1 DEF NodeOK
    <3>3. j = i
      BY <1>1, <1>2, <1>3, <2>1, <3>2, FoundEntry
    <3>4. g \in Open /\ FileOf(g) = r
      BY <1>1, FileIs DEF Open
    <3>5. IsOpen(d, i)
      BY <2>1, <3>4 DEF IsOpen
    <3> QED
      BY <2>1, <3>2, <3>3, <3>5
  <2> QED
    BY <1>1, <1>7, <2>1, NodesKept
<1>16. ~KernelApi => NamesApart(dirs')
  BY <1>1, <1>7, NameAdded
<1> QED
  BY <1>1, <1>7, <1>8, <1>10, <1>13, <1>14, <1>15, <1>16 DEF FatInv, CellsOK

\* Removing a file.
LEMMA Unlinks ==
  ASSUME FatOK, Sharing = FALSE, FatInv, NEW d \in Directories, NEW n \in Names, Unlink(d, n)
  PROVE  FatInv'
BY Removes DEF Unlink

\* Removing a directory.
LEMMA Rmdirs ==
  ASSUME FatOK, FatInv, NEW d \in Directories, NEW n \in Names, Rmdir(d, n)
  PROVE  FatInv'
<1> DEFINE i == Find(d, n)
           c == dirs[d][i].first
<1>1. DirsOK(dirs) /\ EntriesOK(fat, dirs)
  BY DEF FatInv
<1>2. d \in Table
  BY <1>1, DirectoriesAre, DirsHold
<1>3. i # 0 /\ dirs[d][i].dir /\ Visible(c) = {}
      /\ Delete(d, i) /\ FreeChain(c) /\ UNCHANGED <<cells, nodes, files, lost>>
  BY DEF Rmdir, IsEmptyDir
<1>4. i \in Ents(dirs, d)
  BY <1>1, <1>2, <1>3, Finds, FoundShort
<1>5. c \in Table
  BY <1>1, <1>2, <1>4, Seen DEF SlotSet
<1>6. Ents(dirs, c) = {}
  BY <1>1, <1>3, <1>5, Seen DEF Visible
<1> QED
  BY <1>3, <1>6, Removes

\* No entry names a free cluster, and a free cluster holds no entries.
LEMMA FreeUnnamed ==
  ASSUME FatOK, FatInv, NEW c \in Clusters, fat[c] = Free
  PROVE  /\ \A d, s : OnlyAt(dirs, d, s, c)
         /\ Ents(dirs, c) = {} /\ c \notin Dirs(dirs)
<1>1. DirsOK(dirs) /\ PathsOK(dirs) /\ EntriesOK(fat, dirs)
  BY DEF FatInv
<1>2. \A x \in Table : \A i \in Ents(dirs, x) : dirs[x][i].first # c
  BY <1>1 DEF EntriesOK, EntryOK, Starts
<1>3. c \notin Dirs(dirs)
  <2>1. c # 0
    BY DEF Clusters
  <2> QED
    BY <1>1, <1>2, <2>1, DirNamed, DirsHold
<1>4. Ents(dirs, c) = {}
  BY <1>1, <1>3, Kinds DEF PathsOK
<1> QED
  BY <1>2, <1>3, <1>4 DEF OnlyAt

\* Making a directory.
LEMMA Mkdirs ==
  ASSUME FatOK, FatInv, NEW d \in Directories, NEW n \in Names, Mkdir(d, n)
  PROVE  FatInv'
<1> DEFINE c == LeastOf(FreeIn(fat))
           A == [dirs EXCEPT ![c] = Empty(DirSlots)]
           s == Slot(d)
           e == Entry(n, TRUE, c, 0)
<1>1. /\ ChainsOK(fat) /\ CellsOK /\ DirsOK(dirs) /\ PathsOK(dirs)
      /\ EntriesOK(fat, dirs) /\ FirstsApart(dirs) /\ LostOK(fat, dirs, lost)
      /\ FilesOK(nodes, files) /\ NodesOK(dirs, nodes, files)
      /\ (~KernelApi => NamesApart(dirs))
  BY DEF FatInv
<1>2. d \in Table /\ d \in Dirs(dirs)
  BY <1>1, DirectoriesAre, DirsHold
<1>3. /\ Find(d, n) = 0 /\ FreeIn(fat) # {} /\ fat' = [fat EXCEPT ![c] = Eoc]
      /\ UNCHANGED <<cells, nodes, files>>
  BY DEF Mkdir
<1>4. c \in Clusters /\ fat[c] = Free
  BY <1>3, LeastFree
<1>5. s = 0 => dirs' = A /\ lost' = lost \cup {c}
  BY DEF Mkdir
<1>6. s # 0 => [A EXCEPT ![d][s] = e] = dirs' /\ lost' = lost
  BY DEF Mkdir, Insert
<1>7. e.kind = "entry" /\ e \in SlotSet /\ e.name = Short(n) /\ e.dir /\ e.first = c
  BY <1>4, Kinds DEF Entry, SlotSet, Labels
<1> HIDE DEF c, e, s
<1>8. /\ ChainsOK(fat') /\ Starts(fat', c) /\ Chain(fat', c) = {c}
      /\ \A a \in Clusters : Starts(fat, a) => Starts(fat', a) /\ Chain(fat', a) = Chain(fat, a)
  <2>1. [fat EXCEPT ![c] = Eoc] = fat' /\ fat \in [Table -> 0 .. Eoc]
    BY <1>1, <1>3 DEF ChainsOK
  <2>2. /\ fat' \in [Table -> 0 .. Eoc] /\ fat'[c] = Eoc
        /\ \A a \in Table : a # c => fat'[a] = fat[a]
    BY <1>4, <2>1, ClaimedTable
  <2> QED
    BY <1>1, <1>4, <2>2, Claimed
<1>9. Keeps(fat, fat', 0)
  BY <1>8 DEF Keeps
<1>10. InUse(fat') = InUse(fat) \cup {c} /\ c \notin InUse(fat)
  BY <1>1, <1>3, <1>4, Kinds DEF InUse, ChainsOK
<1>11. (\A x, i : OnlyAt(dirs, x, i, c)) /\ Ents(dirs, c) = {} /\ c # d
  BY <1>2, <1>4, FreeUnnamed
<1>12. DirsOK(A) /\ \A x, i : SameBut(dirs, A, x, i)
  BY <1>1, <1>4, <1>11, Emptied
<1>13. A[d] = dirs[d]
  BY <1>1, <1>2, <1>11 DEF DirsOK
<1>14. \A x, i : OnlyAt(dirs, x, i, 0)
  BY Nowhere
<1> HIDE DEF A
<1>15. CASE s = 0
  <2>1. dirs' = A /\ SameBut(dirs, dirs', 0, 0) /\ DirsOK(dirs') /\ lost' = lost \cup {c}
    BY <1>5, <1>12, <1>15
  <2>2. 0 \notin Ents(dirs, 0) /\ 0 \notin Ents(dirs', 0) /\ 0 \in Table
    BY <1>1, <2>1, Seen, Kinds
  <2>3. PathsOK(dirs')
    BY <1>1, <2>1, <2>2, PathsKept
  <2>4. Own(fat, dirs, 0, 0) = {} /\ Own(fat', dirs', 0, 0) = {}
    BY <2>2 DEF Own
  <2>5. EntriesOK(fat', dirs') /\ FirstsApart(dirs') /\ LostOK(fat', dirs', lost \cup {c})
    <3>1. InUse(fat') = (InUse(fat) \ {}) \cup {} \cup {c}
          /\ ({} \cup {c}) \cap (InUse(fat) \ {}) = {}
          /\ {} \cap {c} = {} /\ {c} \in SUBSET Clusters
      BY <1>4, <1>10
    <3>2. 0 \in Table /\ 0 \in Ents(dirs', 0) =>
            EntryOK(fat', dirs'[0][0]) /\ OnlyAt(dirs, 0, 0, dirs'[0][0].first)
      BY <2>2
    <3>3. OnlyAt(dirs, 0, 0, 0) /\ SameBut(dirs, dirs', 0, 0)
      BY <1>14, <2>1
    <3> QED
      BY <1>1, <1>9, <2>4, <3>1, <3>2, <3>3, Edited
  <2>6. NodesOK(dirs', nodes, files)
    BY <1>1, <2>1, <2>2, NodesKept
  <2>7. ~KernelApi => NamesApart(dirs')
    BY <1>1, <2>1, <2>2, NameAdded
  <2> QED
    BY <1>1, <1>3, <1>8, <2>1, <2>3, <2>5, <2>6, <2>7 DEF FatInv, CellsOK
<1>16. CASE s # 0
  <2>1. /\ s \in SlotsOf(d) /\ dirs[d][s].kind \in {"end", "deleted"}
        /\ \A j \in SlotsOf(d) : j < s => dirs[d][j].kind = "entry"
    BY <1>1, <1>2, <1>16, SlotFound DEF s
  <2>2. /\ DirsOK(dirs') /\ SameBut(A, dirs', d, s)
        /\ s \notin Ents(A, d) /\ s \in Ents(dirs', d) /\ dirs'[d][s] = e
    BY <1>2, <1>6, <1>7, <1>12, <1>13, <1>16, <2>1, Inserted
  <2>3. SameBut(dirs, dirs', d, s)
    BY <1>12, <2>2, SameThen
  <2>4. s \notin Ents(dirs, d)
    BY <2>1 DEF Ents
  <2>5. PathsOK(dirs')
    BY <1>1, <1>2, <2>2, <2>3, <2>4, PathsKept
  <2>6. Own(fat, dirs, d, s) = {} /\ Own(fat', dirs', d, s) = {c}
    BY <1>2, <1>4, <1>7, <1>8, <2>2, <2>4 DEF Own
  <2>7. EntryOK(fat', e)
    BY <1>4, <1>7, <1>8 DEF EntryOK
  <2>8. EntriesOK(fat', dirs') /\ FirstsApart(dirs') /\ LostOK(fat', dirs', lost \cup {})
    <3>1. InUse(fat') = (InUse(fat) \ {}) \cup {c} \cup {}
          /\ ({c} \cup {}) \cap (InUse(fat) \ {}) = {}
          /\ {c} \cap {} = {}
      BY <1>10
    <3>2. d \in Table /\ s \in Ents(dirs', d) =>
            EntryOK(fat', dirs'[d][s]) /\ OnlyAt(dirs, d, s, dirs'[d][s].first)
      BY <1>7, <1>11, <2>2, <2>7
    <3>3. OnlyAt(dirs, d, s, 0)
      BY <1>14
    <3> QED
      BY <1>1, <1>9, <2>3, <2>6, <3>1, <3>2, <3>3, Edited
  <2>9. LostOK(fat', dirs', lost') /\ lost' = lost
    BY <1>6, <1>16, <2>8 DEF LostOK
  <2>10. Find(d, n) = FindShort(d, Short(n))
    BY <1>1, <1>2, Finds
  <2>11. \A j \in Ents(dirs, d) : dirs[d][j].name # Short(n)
    BY <1>1, <1>2, <1>3, <2>10, FoundShort
  <2>12. NodesOK(dirs', nodes, files)
    <3> SUFFICES ASSUME NEW g \in Fds, NEW r \in files[g], nodes[r.node].dir = d,
                        nodes[r.node].name = Short(n)
                 PROVE  FALSE
      BY <1>1, <1>7, <2>2, <2>3, <2>4, NodesKept
    <3>1. NodeOK(dirs, nodes[r.node])
      BY <1>1 DEF NodesOK
    <3>2. FindShort(nodes[r.node].dir, nodes[r.node].name) # 0
      BY <1>1, <1>2, <3>1, NotOpen
    <3> QED
      BY <1>3, <2>10, <3>2
  <2>13. ~KernelApi => NamesApart(dirs')
    BY <1>1, <1>7, <2>2, <2>3, <2>11, NameAdded
  <2> QED
    BY <1>1, <1>3, <1>8, <2>2, <2>5, <2>8, <2>9, <2>12, <2>13 DEF FatInv, CellsOK
<1> QED
  BY <1>15, <1>16

-----------------------------------------------------------------------------
(* Writes, and files made at start. *)

\* Products grow with their factors.
LEMMA Times ==
  ASSUME NEW a \in Nat, NEW b \in Nat, NEW w \in Nat \ {0}
  PROVE  a <= b <=> a * w <= b * w
<1>1. a <= b => a * w <= b * w
  OBVIOUS
<1>2. ASSUME b < a PROVE b * w < a * w
  <2>1. PICK k \in Nat : a = b + 1 + k
    BY <1>2
  <2>2. a * w = b * w + w + k * w
    BY <2>1
  <2>3. b * w \in Nat /\ k * w \in Nat
    BY <2>1
  <2> QED
    BY <2>2, <2>3
<1>3. a * w \in Nat /\ b * w \in Nat
  OBVIOUS
<1> QED
  BY <1>1, <1>2, <1>3

\* What division leaves.
LEMMA Quotient ==
  ASSUME NEW a \in Nat, NEW w \in Nat \ {0}
  PROVE  /\ a \div w \in Nat /\ (a \div w) * w \in Nat
         /\ (a \div w) * w <= a /\ a < (a \div w) * w + w
<1>1. a \div w \in Nat
  OBVIOUS
<1>2. a = (a \div w) * w + (a % w) /\ a % w \in Nat /\ a % w < w
  OBVIOUS
<1>3. (a \div w) * w \in Nat
  BY <1>1
<1> QED
  BY <1>1, <1>2, <1>3

\* The number of clusters a size calls for.
LEMMA ChunksAre ==
  ASSUME FatOK, NEW size \in Nat
  PROVE  /\ Chunks(size) \in Nat /\ size <= Chunks(size) * Width
         /\ \A m \in Nat : Chunks(size) <= m <=> size <= m * Width
<1> DEFINE q == Chunks(size)
           a == size + Width - 1
<1>1. Width \in Nat \ {0} /\ Width \in Nat /\ 1 <= Width /\ a \in Nat /\ q = a \div Width
  BY DEF FatOK, Chunks
<1> HIDE DEF q, a
<1>2. q \in Nat /\ q * Width \in Nat /\ q * Width <= a /\ a < q * Width + Width
  BY <1>1, Quotient
<1>3. a = size + Width - 1
  BY DEF a
<1>4. size <= q * Width
  BY <1>1, <1>2, <1>3
<1>5. ASSUME NEW m \in Nat PROVE q <= m <=> size <= m * Width
  <2>1. m * Width \in Nat /\ (m + 1) * Width = m * Width + Width
    BY <1>1
  <2>2. ASSUME q <= m PROVE size <= m * Width
    <3>1. q * Width <= m * Width
      BY <1>1, <1>2, <2>2, Times
    <3> QED
      BY <1>2, <1>4, <2>1, <3>1
  <2>3. ASSUME ~(q <= m) PROVE ~(size <= m * Width)
    <3>1. m + 1 <= q /\ m + 1 \in Nat
      BY <1>2, <2>3
    <3>2. (m + 1) * Width <= q * Width
      BY <1>1, <1>2, <3>1, Times
    <3> QED
      BY <1>1, <1>2, <1>3, <2>1, <3>2
  <2> QED
    BY <2>2, <2>3
<1> QED
  BY <1>2, <1>4, <1>5 DEF q

\* The clusters that n cells from position pos on are spread over.
Needed(pos, n) == (pos + n - 1) \div Width + 1

\* A walk over l clusters, which k are called for: the size that writing up to
\* the end of the walk, or of the data, leaves fits m clusters.
LEMMA Sized ==
  ASSUME FatOK, NEW size \in Nat, NEW pos \in Nat, pos <= size, NEW n \in Nat, 1 <= n,
         NEW l \in Nat, l <= Needed(pos, n), pos < l * Width,
         NEW m \in Nat, (Chunks(size) = m /\ l <= m) \/ (Chunks(size) < l /\ m = l),
         NEW end \in Nat, end <= l * Width, end = pos + n \/ end = l * Width,
         NEW top \in Nat, top = end \/ top = size, end <= top, size <= top
  PROVE  Chunks(top) = m
<1> DEFINE a == pos + n - 1
           k == a \div Width
<1>1. Width \in Nat \ {0} /\ Width \in Nat /\ 1 <= Width /\ a \in Nat
  BY DEF FatOK
<1>2. k \in Nat /\ k * Width \in Nat /\ k * Width <= a /\ l <= k + 1
  BY <1>1, Quotient DEF Needed
<1>3. a + 1 = pos + n
  OBVIOUS
<1>4. l * Width \in Nat /\ m * Width \in Nat /\ end <= l * Width /\ top \in Nat /\ size <= top
  BY <1>1
<1> HIDE DEF a, k
<1>5. Chunks(top) <= m
  <2>1. CASE Chunks(size) = m /\ l <= m
    <3>1. size <= m * Width /\ l * Width <= m * Width
      BY <1>1, <2>1, ChunksAre, Times
    <3>2. top <= m * Width
      BY <1>4, <3>1
    <3> QED
      BY <1>4, <3>2, ChunksAre
  <2>2. CASE Chunks(size) < l /\ m = l
    <3>1. Chunks(size) <= l
      BY <2>2, ChunksAre
    <3>2. size <= l * Width
      BY <3>1, ChunksAre
    <3>3. top <= m * Width
      BY <1>4, <2>2, <3>2
    <3> QED
      BY <1>4, <3>3, ChunksAre
  <2> QED
    BY <2>1, <2>2
<1>6. Chunks(top) \in Nat /\ Chunks(size) \in Nat
  <2> QED
    BY <1>4, ChunksAre
<1>7. m <= Chunks(top)
  <2>1. CASE Chunks(size) = m /\ l <= m
    <3>1. top <= Chunks(top) * Width
      <4> QED
        BY <1>4, ChunksAre
    <3>2. Chunks(top) * Width \in Nat
      BY <1>1, <1>6
    <3>3. size <= Chunks(top) * Width
      BY <1>4, <3>1, <3>2
    <3>4. Chunks(size) <= Chunks(top)
      BY <1>6, <3>3, ChunksAre
    <3> QED
      BY <2>1, <3>4
  <2>2. CASE Chunks(size) < l /\ m = l
    <3>1. PICK j \in Nat : l = j + 1
      BY <1>6, <2>2
    <3>2. j <= k /\ j * Width \in Nat /\ l * Width = j * Width + Width
      BY <1>1, <1>2, <3>1
    <3>3. j * Width <= k * Width
      BY <1>1, <1>2, <3>2, Times
    <3>4. j * Width < end
      BY <1>1, <1>2, <1>3, <3>2, <3>3
    <3>5. end <= top /\ j * Width < top
      BY <1>4, <3>2, <3>4
    <3>6. ~(Chunks(top) <= j)
      BY <1>4, <3>2, <3>5, ChunksAre
    <3> QED
      BY <1>6, <2>2, <3>1, <3>6
  <2> QED
    BY <2>1, <2>2
<1> QED
  BY <1>5, <1>6, <1>7

\* fat_vfs_write stores the vnode's first cluster and size in the entry.
LEMMA Finalizes ==
  ASSUME FatOK, DirsOK(dirs), NEW v, v.dir \in Table, NEW i, EntryOf(dirs, v, i),
         v.first \in Table, v.size \in Nat
  PROVE  LET e == [dirs[v.dir][i] EXCEPT !.first = v.first, !.size = v.size] IN
           /\ e \in SlotSet /\ e.kind = "entry" /\ e.name = v.name /\ e.dir = dirs[v.dir][i].dir
           /\ e.first = v.first /\ e.size = v.size
           /\ DirsOK(Finalized(v)) /\ SameBut(dirs, Finalized(v), v.dir, i)
           /\ i \in Ents(Finalized(v), v.dir) /\ Finalized(v)[v.dir][i] = e
<1> DEFINE d == v.dir
           e == [dirs[d][i] EXCEPT !.first = v.first, !.size = v.size]
           E == [dirs EXCEPT ![d][i] = e]
<1>1. i = FindShort(d, v.name) /\ i # 0
  BY FoundEntry
<1>2. i \in Ents(dirs, d) /\ dirs[d][i].name = v.name
  BY DEF EntryOf
<1>3. dirs[d][i] \in SlotSet /\ dirs[d][i].kind = "entry" /\ i \in SlotsOf(d)
      /\ DOMAIN dirs = Table /\ DOMAIN dirs[d] = SlotsOf(d)
  BY <1>2, Seen DEF Ents, DirsOK
<1>4. /\ e \in SlotSet /\ e.kind = "entry" /\ e.name = v.name /\ e.dir = dirs[d][i].dir
      /\ e.first = v.first /\ e.size = v.size
  BY <1>2, <1>3 DEF SlotSet
<1>5. Finalized(v) = [dirs EXCEPT ![d][i].first = v.first, ![d][i].size = v.size]
  BY <1>1 DEF Finalized
<1>6. Finalized(v) = E
  BY <1>3, <1>5
<1> DEFINE F == Finalized(v)
<1>7. [dirs EXCEPT ![d][i] = e] = F
  BY <1>6
<1> HIDE DEF e, F
<1>8. DirsOK(F) /\ SameBut(dirs, F, d, i) /\ i \in Ents(F, d) /\ F[d][i] = e
  BY <1>2, <1>4, <1>7, Stored
<1> QED
  BY <1>4, <1>8 DEF e, F

\* What a walk has come to.
LEMMA WalkEnds ==
  ASSUME FatOK, NEW first \in Table, NEW f, NEW p, Walked(first, f, p), p # <<>>
  PROVE  /\ p[1] \in Clusters /\ Starts(f, p[1])
         /\ p[1] = first \/ (first \notin Clusters /\ fat[p[1]] = Free)
         /\ PathSet(p) \subseteq Chain(f, p[1]) /\ Cardinality(PathSet(p)) = Len(p)
         /\ Len(p) \in Nat /\ 1 <= Len(p)
         /\ \A i \in 1 .. Len(p) : p[i] \in Clusters
         /\ Chain(f, p[1]) = Chain(fat, first) \cup New(f)
         /\ \/ f = fat /\ p[1] = first
            \/ /\ Cardinality(Chain(f, p[1])) = Len(p)
               /\ Cardinality(Chain(fat, first)) < Len(p)
<1>1. OnPath(f, p)
  BY DEF Walked
<1>2. p[1] \in Clusters /\ Len(p) \in Nat /\ 1 <= Len(p) /\ p \in Seq(Clusters)
  BY <1>1, PathEnds DEF OnPath
<1>3. f[p[1]] # Free /\ Starts(f, p[1])
  BY <1>1 DEF OnPath, Starts
<1>4. p[1] = first \/ (first \notin Clusters /\ fat[p[1]] = Free)
  BY DEF Walked
<1>5. \A i \in 1 .. Len(p) : p[i] \in Clusters
  BY <1>2
<1> QED
  BY <1>1, <1>2, <1>3, <1>4, <1>5 DEF Walked, OnPath

\* The clusters in use after a walk.
LEMMA WalkTakes ==
  ASSUME FatOK, NEW first, NEW f, NEW p, Walked(first, f, p)
  PROVE  InUse(f) = InUse(fat) \cup New(f) /\ New(f) \cap InUse(fat) = {}
<1>1. \A c \in Clusters : fat[c] # Free => f[c] # Free
  BY Kinds DEF Walked, Spared
<1> QED
  BY <1>1 DEF InUse, New

\* An open descriptor, its vnode and the entry it stands for.
LEMMA OpenIs ==
  ASSUME FatOK, FatInv, NEW fd \in Open
  PROVE  LET f == FileOf(fd)
             v == nodes[f.node]
             i == FindShort(v.dir, v.name)
             e == dirs[v.dir][i]
         IN /\ f \in files[fd] /\ f \in FileSet /\ f.node \in Fds /\ f.pos \in Nat
            /\ v \in NodeSet /\ v.dir \in Table /\ v.first \in Table /\ v.size \in Nat
            /\ f.pos <= v.size
            /\ EntryOf(dirs, v, i) /\ i \in Ents(dirs, v.dir) /\ e.name = v.name
            /\ ~e.dir /\ e.first = v.first /\ e.size = v.size /\ EntryOK(fat, e)
<1> DEFINE f == FileOf(fd)
           v == nodes[f.node]
           i == FindShort(v.dir, v.name)
<1>1. DirsOK(dirs) /\ EntriesOK(fat, dirs) /\ FilesOK(nodes, files) /\ NodesOK(dirs, nodes, files)
  BY DEF FatInv
<1>2. fd \in Fds /\ f \in files[fd] /\ f \in FileSet
  BY <1>1, FileIs DEF Open
<1> HIDE DEF f
<1>3. f.node \in Fds /\ f.pos \in Nat
  BY <1>2 DEF FileSet
<1>4. v \in NodeSet /\ f.pos <= v.size
  BY <1>1, <1>2, <1>3 DEF FilesOK
<1>5. v.dir \in Table /\ v.first \in Table /\ v.size \in Nat
  BY <1>4 DEF NodeSet
<1>6. NodeOK(dirs, v)
  BY <1>1, <1>2 DEF NodesOK
<1> HIDE DEF v
<1>7. PICK j \in Ents(dirs, v.dir) :
        /\ EntryOf(dirs, v, j)
        /\ ~dirs[v.dir][j].dir /\ dirs[v.dir][j].first = v.first /\ dirs[v.dir][j].size = v.size
  BY <1>6 DEF NodeOK
<1>8. j = i
  BY <1>1, <1>5, <1>7, FoundEntry
<1>9. EntryOf(dirs, v, i) /\ i \in Ents(dirs, v.dir) /\ dirs[v.dir][i].name = v.name
      /\ ~dirs[v.dir][i].dir /\ dirs[v.dir][i].first = v.first /\ dirs[v.dir][i].size = v.size
  BY <1>7, <1>8 DEF EntryOf
<1>10. EntryOK(fat, dirs[v.dir][i])
  BY <1>1, <1>5, <1>9 DEF EntriesOK
<1> QED
  BY <1>2, <1>3, <1>4, <1>5, <1>9, <1>10 DEF f, v

\* A write that finds no room leaves the file as it is.
LEMMA NoRoom ==
  ASSUME FatOK, NEW first \in Table, NEW f, NEW p, Walked(first, f, p),
         NEW size \in Nat, Cardinality(Chain(fat, first)) = Chunks(size),
         Len(p) * Width <= size
  PROVE  f = fat /\ (p # <<>> => p[1] = first)
<1>1. CASE p = <<>>
  BY <1>1 DEF Walked
<1>2. CASE p # <<>>
  <2>1. Len(p) \in Nat
    BY <1>2, WalkEnds
  <2>2. ASSUME Chunks(size) < Len(p) PROVE FALSE
    <3>1. Width \in Nat \ {0} /\ Chunks(size) \in Nat /\ size <= Chunks(size) * Width
      BY ChunksAre DEF FatOK
    <3>2. Len(p) * Width \in Nat /\ Chunks(size) * Width \in Nat
      BY <2>1, <3>1
    <3>3. Len(p) * Width <= Chunks(size) * Width
      BY <3>1, <3>2
    <3>4. Len(p) <= Chunks(size)
      BY <2>1, <3>1, <3>3, Times
    <3> QED
      BY <2>1, <2>2, <3>1, <3>4
  <2> QED
    BY <1>2, <2>2, WalkEnds
<1> QED
  BY <1>1, <1>2

\* How many clusters a file has after a write.
LEMMA RoomUsed ==
  ASSUME FatOK, NEW first \in Table, NEW f, NEW p, Walked(first, f, p), p # <<>>,
         NEW size \in Nat, Cardinality(Chain(fat, first)) = Chunks(size),
         NEW pos \in Nat, pos <= size, NEW n \in Nat, 1 <= n,
         Len(p) <= Needed(pos, n), ~(Len(p) * Width <= pos),
         NEW written,
         written = IF Len(p) * Width > pos + n THEN n ELSE Len(p) * Width - pos
  PROVE  /\ written \in Nat /\ pos + written \in Nat
         /\ Cardinality(Chain(f, p[1])) =
              Chunks(IF pos + written > size THEN pos + written ELSE size)
<1> DEFINE m == Cardinality(Chain(f, p[1]))
           l == Len(p)
           end == pos + written
<1>1. l \in Nat /\ m \in Nat
  BY WalkEnds, ChainFinite
<1>2. l <= m
  BY WalkEnds, ChainFinite
<1>3. (Chunks(size) = m /\ l <= m) \/ (Chunks(size) < l /\ m = l)
  <2>1. CASE f = fat /\ p[1] = first
    BY <1>2, <2>1
  <2>2. CASE m = l /\ Cardinality(Chain(fat, first)) < l
    BY <2>2
  <2> QED
    BY <2>1, <2>2, WalkEnds
<1> HIDE DEF m, l
<1>4. l * Width \in Nat /\ pos < l * Width
  BY <1>1 DEF FatOK, l
<1>5. written \in Nat /\ end \in Nat /\ end = (IF l * Width > pos + n THEN pos + n ELSE l * Width)
  BY <1>4 DEF l
<1> HIDE DEF end
<1>6. l <= Needed(pos, n)
  BY DEF l
<1> DEFINE top == IF end > size THEN end ELSE size
<1>7. /\ end \in Nat /\ end <= l * Width /\ (end = pos + n \/ end = l * Width)
      /\ top \in Nat /\ (top = end \/ top = size) /\ end <= top /\ size <= top
  BY <1>4, <1>5
<1> HIDE DEF top
<1>8. Chunks(top) = m
  BY <1>1, <1>3, <1>4, <1>6, <1>7, Sized
<1> QED
  BY <1>5, <1>8 DEF end, m, top

\* An entry takes the clusters and the size that a write leaves.
LEMMA EntryWritten ==
  ASSUME FatOK, FatInv, NEW d \in Table, NEW i \in Ents(dirs, d), ~dirs[d][i].dir,
         NEW c, dirs[d][i].first = c,
         NEW g, NEW p, Walked(c, g, p),
         NEW a \in Clusters, Starts(g, a), a = c \/ (c \notin Clusters /\ fat[a] = Free),
         Chain(g, a) = Chain(fat, c) \cup New(g),
         NEW E, DirsOK(E), SameBut(dirs, E, d, i), i \in Ents(E, d),
         ~E[d][i].dir, E[d][i].first = a, E[d][i].name = dirs[d][i].name,
         Cardinality(Chain(g, a)) = Chunks(E[d][i].size)
  PROVE  /\ ChainsOK(g) /\ PathsOK(E) /\ EntriesOK(g, E) /\ FirstsApart(E) /\ LostOK(g, E, lost)
         /\ (~KernelApi => NamesApart(E))
<1>1. /\ ChainsOK(fat) /\ DirsOK(dirs) /\ PathsOK(dirs)
      /\ EntriesOK(fat, dirs) /\ FirstsApart(dirs) /\ LostOK(fat, dirs, lost)
      /\ (~KernelApi => NamesApart(dirs))
  BY DEF FatInv
<1>2. EntryOK(fat, dirs[d][i])
  BY <1>1 DEF EntriesOK
<1>3. c \in Clusters => Starts(fat, c)
  BY <1>2 DEF EntryOK
<1>4. ChainsOK(g) /\ Keeps(fat, g, c)
  BY DEF Walked, Spared, Keeps
<1>5. OnlyAt(dirs, d, i, c)
  BY <1>1 DEF OnlyAt, FirstsApart
<1>6. OnlyAt(dirs, d, i, a)
  BY <1>5, FreeUnnamed
<1>7. EntryOK(g, E[d][i])
  BY DEF EntryOK
<1>8. PathsOK(E)
  <2>1. d \in Dirs(dirs)
    BY <1>1 DEF PathsOK
  <2> QED
    BY <1>1, <2>1, PathsKept
<1> DEFINE O == Own(fat, dirs, d, i)
           P == Own(g, E, d, i)
           X == {}
<1>9. O = Chain(fat, c) /\ P = Chain(g, a)
  BY ChainIn DEF Own
<1>10. Chain(fat, c) \subseteq InUse(fat)
  <2>1. c \in Clusters => fat[c] # Free
    BY <1>3 DEF Starts
  <2> QED
    BY <1>1, <2>1, ChainUsed DEF InUse
<1>11. EntriesOK(g, E) /\ FirstsApart(E) /\ LostOK(g, E, lost \cup X)
  <2>1. O = Own(fat, dirs, d, i) /\ P = Own(g, E, d, i)
    OBVIOUS
  <2> HIDE DEF O, P
  <2>2. InUse(g) = (InUse(fat) \ O) \cup P \cup X
        /\ (P \cup X) \cap (InUse(fat) \ O) = {}
        /\ P \cap X = {} /\ X \in SUBSET Clusters
    <3>1. InUse(g) = InUse(fat) \cup New(g) /\ New(g) \cap InUse(fat) = {}
      BY WalkTakes
    <3> QED
      BY <1>9, <1>10, <3>1
  <2>3. d \in Table /\ i \in Ents(E, d) =>
          EntryOK(g, E[d][i]) /\ OnlyAt(dirs, d, i, E[d][i].first)
    BY <1>6, <1>7
  <2>4. ChainsOK(fat) /\ EntriesOK(fat, dirs) /\ FirstsApart(dirs) /\ LostOK(fat, dirs, lost)
    BY <1>1
  <2> HIDE DEF X
  <2> QED
    BY <1>4, <1>5, <2>1, <2>2, <2>3, <2>4, Edited
<1>12. LostOK(g, E, lost)
  BY <1>11 DEF LostOK
<1>13. ~KernelApi => NamesApart(E)
  <2>1. ASSUME NamesApart(dirs)
        PROVE  \A j \in Ents(dirs, d) : j # i => dirs[d][j].name # E[d][i].name
    BY <2>1 DEF NamesApart
  <2> QED
    BY <1>1, <2>1, NameAdded
<1> QED
  BY <1>4, <1>8, <1>11, <1>12, <1>13

\* The vnodes after a write: the others keep their entries.
LEMMA NodesWritten ==
  ASSUME FatOK, DirsOK(dirs), FilesOK(nodes, files), NodesOK(dirs, nodes, files),
         NEW fd \in Fds, NEW f \in files[fd],
         NEW d \in Table, nodes[f.node].dir = d,
         NEW i \in Ents(dirs, d), EntryOf(dirs, nodes[f.node], i),
         NEW E, DirsOK(E), SameBut(dirs, E, d, i), i \in Ents(E, d),
         E[d][i].name = dirs[d][i].name, ~E[d][i].dir,
         NEW v \in NodeSet, v.dir = d, v.name = dirs[d][i].name,
         v.first = E[d][i].first, v.size = E[d][i].size, nodes[f.node].size <= v.size,
         NEW q \in FileSet, q.node = f.node, q.pos <= v.size,
         NEW M, [nodes EXCEPT ![f.node] = v] = M, NEW G, [files EXCEPT ![fd] = {q}] = G
  PROVE  FilesOK(M, G) /\ NodesOK(E, M, G)
<1>0. nodes[f.node].name = dirs[d][i].name
  BY DEF EntryOf
<1>1. NodeOK(E, v)
  <2>1. ASSUME NEW j \in Ents(E, d), E[d][j].name = v.name PROVE i <= j
    <3>1. CASE j = i
      BY <3>1, Seen
    <3>2. CASE j # i
      <4>1. j \in Ents(dirs, d) /\ E[d][j] = dirs[d][j]
        BY <3>2 DEF SameBut, Ents
      <4> QED
        BY <2>1, <4>1 DEF EntryOf
    <3> QED
      BY <3>1, <3>2
  <2>2. EntryOf(E, v, i)
    BY <2>1 DEF EntryOf
  <2> QED
    BY <2>2 DEF NodeOK
<1>2. ASSUME NEW h \in Fds, NEW r \in files[h], r.node # f.node
      PROVE  NodeOK(E, nodes[r.node])
  <2> DEFINE u == nodes[r.node]
  <2>1. u.dir \in Table /\ NodeOK(dirs, u)
    BY DEF FilesOK, FileSet, NodeSet, NodesOK
  <2>2. u.dir # d \/ u.name # dirs[d][i].name
    BY <1>0, <1>2 DEF NodesOK
  <2> HIDE DEF u
  <2>3. /\ u.dir = d /\ i \in Ents(dirs, d) => dirs[d][i].name # u.name
        /\ u.dir = d /\ i \in Ents(E, d) => E[d][i].name # u.name
    BY <2>2
  <2>4. NodeOK(E, u)
    BY <2>1, <2>3, NodeKept
  <2> QED
    BY <2>4 DEF u
<1>3. v.dir = nodes[f.node].dir /\ v.name = nodes[f.node].name
  BY <1>0
<1>4. \A x, y \in Fds : \A r \in files[x] : \A s \in files[y] :
        r.node # s.node => nodes[r.node].dir # nodes[s.node].dir
                           \/ nodes[r.node].name # nodes[s.node].name
  BY DEF NodesOK
<1> QED
  BY <1>1, <1>2, <1>3, <1>4, Moved

\* Writing.
LEMMA Writes ==
  ASSUME FatOK, FatInv, NEW fd \in Fds, NEW n \in 1 .. MaxCount, NEW x \in Values,
         Write(fd, n, x)
  PROVE  FatInv'
<1> DEFINE f == FileOf(fd)
           v == nodes[f.node]
           pos == IF f.append THEN v.size ELSE f.pos
           k == (pos + n - 1) \div Width + 1
           walk == Walk(v.first, k)
           p == walk.path
           g == walk.fat
           room == Len(p) * Width
           written == IF room > pos + n THEN n ELSE room - pos
           cellsOf(c) == {j \in 0 .. written - 1 : p[(pos + j) \div Width + 1] = c}
           first == IF p = <<>> THEN v.first ELSE p[1]
           size == IF pos + written > v.size THEN pos + written ELSE v.size
           node == [v EXCEPT !.first = first, !.size = size]
           q == [f EXCEPT !.pos = pos + written]
           i == FindShort(v.dir, v.name)
<1>1. /\ ChainsOK(fat) /\ CellsOK /\ DirsOK(dirs) /\ FilesOK(nodes, files)
      /\ NodesOK(dirs, nodes, files)
  BY DEF FatInv
<1>2. /\ fd \in Open /\ f \in files[fd] /\ f \in FileSet /\ f.node \in Fds /\ f.pos \in Nat
      /\ v \in NodeSet /\ v.dir \in Table /\ v.first \in Table /\ v.size \in Nat /\ f.pos <= v.size
      /\ EntryOf(dirs, v, i) /\ i \in Ents(dirs, v.dir) /\ dirs[v.dir][i].name = v.name
      /\ ~dirs[v.dir][i].dir /\ dirs[v.dir][i].first = v.first /\ dirs[v.dir][i].size = v.size
      /\ EntryOK(fat, dirs[v.dir][i])
  BY OpenIs DEF Write
<1>3. /\ fat' = g
      /\ room <= pos =>
           /\ nodes' = [nodes EXCEPT ![f.node].first = first]
           /\ files' = [files EXCEPT ![fd] = {[f EXCEPT !.pos = pos]}]
           /\ UNCHANGED <<cells, dirs>>
      /\ ~(room <= pos) =>
           /\ cells' = [c \in Table |-> [b \in 0 .. Width - 1 |->
                IF \E j \in cellsOf(c) : (pos + j) % Width = b THEN x ELSE cells[c][b]]]
           /\ nodes' = [nodes EXCEPT ![f.node] = node]
           /\ files' = [files EXCEPT ![fd] = {q}]
           /\ dirs' = Finalized(node)
      /\ UNCHANGED lost
  <2> DEFINE given == [v EXCEPT !.first = IF p = <<>> THEN @ ELSE p[1],
                                !.size = IF pos + written > @ THEN pos + written ELSE @]
  <2>1. /\ fat' = g
        /\ room <= pos =>
             /\ nodes' = [nodes EXCEPT ![f.node].first = given.first]
             /\ files' = [files EXCEPT ![fd] = {[f EXCEPT !.pos = pos]}]
             /\ UNCHANGED <<cells, dirs>>
        /\ ~(room <= pos) =>
             /\ cells' = [c \in Table |-> [b \in 0 .. Width - 1 |->
                  IF \E j \in cellsOf(c) : (pos + j) % Width = b THEN x ELSE cells[c][b]]]
             /\ nodes' = [nodes EXCEPT ![f.node] = given]
             /\ files' = [files EXCEPT ![fd] = {q}]
             /\ dirs' = Finalized(given)
        /\ UNCHANGED lost
    BY DEF Write
  <2>2. given = node /\ given.first = first
    <3>1. v \in NodeSet
      BY <1>2
    <3> HIDE DEF v, p, pos, written
    <3> QED
      BY <3>1 DEF NodeSet
  <2> HIDE DEF given, node, first, q, written, cellsOf, p, room, pos, v, f
  <2> QED
    BY <2>1, <2>2
<1>4. n \in Nat /\ 1 <= n /\ pos \in Nat /\ pos <= v.size
  <2>1. n \in Nat /\ 1 <= n
    BY DEF FatOK
  <2>2. v.size \in Nat /\ f.pos \in Nat /\ f.pos <= v.size
    BY <1>2
  <2> HIDE DEF f, v
  <2> QED
    BY <2>1, <2>2
<1> HIDE DEF f, v, pos, i
<1>5. k \in Nat /\ 1 <= k /\ k = Needed(pos, n)
  <2>1. (pos + n - 1) \in Nat /\ Width \in Nat \ {0}
    BY <1>4 DEF FatOK
  <2> QED
    BY <2>1, Quotient DEF Needed
<1> HIDE DEF k
<1>6. v.first \in Clusters => Starts(fat, v.first)
  BY <1>2 DEF EntryOK
<1>7. Cardinality(Chain(fat, v.first)) = Chunks(v.size)
  BY <1>2 DEF EntryOK
<1>8. Walked(v.first, g, p) /\ Len(p) \in Nat /\ Len(p) <= Needed(pos, n)
  BY <1>1, <1>2, <1>5, <1>6, Walks DEF WalkOK
<1> HIDE DEF g, p
<1>9. room \in Nat
  BY <1>8 DEF FatOK
<1>10. CASE room <= pos
  <2>1. fat' = fat /\ first = v.first
    BY <1>2, <1>3, <1>4, <1>7, <1>8, <1>9, <1>10, NoRoom
  <2> HIDE DEF first, room
  <2> DEFINE r == [f EXCEPT !.pos = pos]
  <2>2. r \in FileSet /\ r.node = f.node /\ r.pos = pos
    BY <1>2, <1>4 DEF FileSet
  <2>3. nodes' = [nodes EXCEPT ![f.node].first = v.first] /\ files' = [files EXCEPT ![fd] = {r}]
        /\ UNCHANGED <<fat, cells, dirs, lost>>
    BY <1>3, <1>10, <2>1
  <2> HIDE DEF r
  <2>4. \A m \in Fds : nodes'[m] = nodes[m]
    <3>1. [v EXCEPT !.first = v.first] = v
      BY <1>2 DEF NodeSet
    <3>2. nodes \in [Fds -> NodeSet]
      BY <1>1 DEF FilesOK
    <3> QED
      BY <1>2, <2>3, <3>1, <3>2 DEF v
  <2>5. nodes' \in [Fds -> NodeSet] /\ files' \in [Fds -> SUBSET FileSet]
    <3>1. nodes' = [m \in Fds |-> nodes[m]] /\ nodes \in [Fds -> NodeSet]
      BY <1>1, <2>3, <2>4 DEF FilesOK
    <3> QED
      BY <1>1, <2>2, <2>3, <3>1 DEF FilesOK
  <2>6. fd \in Fds /\ files'[fd] = {r} /\ \A h \in Fds : h # fd => files'[h] = files[h]
    BY <1>1, <1>2, <2>3 DEF FilesOK, Open
  <2>7. ASSUME NEW h \in Fds, NEW s \in files'[h]
        PROVE  /\ files'[h] = {s} /\ s.pos <= nodes[s.node].size
               /\ nodes'[s.node] = nodes[s.node]
               /\ \E b \in Fds : \E t \in files[b] : t.node = s.node
    <3>1. CASE h = fd
      <4>1. s = r /\ nodes[s.node] = v
        BY <2>2, <2>6, <3>1 DEF v
      <4> QED
        BY <1>2, <1>4, <2>2, <2>4, <2>6, <3>1, <4>1
    <3>2. CASE h # fd
      <4>1. s \in files[h] /\ files'[h] = files[h]
        BY <2>6, <3>2
      <4>2. files[h] = {s} /\ s.pos <= nodes[s.node].size /\ s.node \in Fds
        BY <1>1, <4>1 DEF FilesOK, FileSet
      <4> QED
        BY <2>4, <4>1, <4>2
    <3> QED
      BY <3>1, <3>2
  <2>8. FilesOK(nodes', files') /\ NodesOK(dirs, nodes', files')
    BY <1>1, <2>5, <2>7, Reopened
  <2> QED
    BY <2>3, <2>8, DiskSame
<1>11. CASE ~(room <= pos)
  <2>1. p # <<>>
    <3> SUFFICES ASSUME p = <<>> PROVE FALSE
      OBVIOUS
    <3>1. room = 0
      BY DEF FatOK
    <3> QED
      BY <1>4, <1>11, <3>1
  <2> DEFINE a == p[1]
  <2>2. first = a
    BY <2>1
  <2> HIDE DEF first
  <2>3. /\ a \in Clusters /\ Starts(g, a)
        /\ a = v.first \/ (v.first \notin Clusters /\ fat[a] = Free)
        /\ Chain(g, a) = Chain(fat, v.first) \cup New(g)
    BY <1>2, <1>8, <2>1, WalkEnds
  <2>4. written \in Nat /\ pos + written \in Nat /\ Cardinality(Chain(g, a)) = Chunks(size)
    BY <1>2, <1>4, <1>7, <1>8, <1>11, <2>1, RoomUsed
  <2>5. CellsOK'
    <3> DEFINE Hit(c, b) == \E j \in cellsOf(c) : (pos + j) % Width = b
    <3>1. cells' = [c \in Table |-> [b \in 0 .. Width - 1 |->
                      IF Hit(c, b) THEN x ELSE cells[c][b]]]
      BY <1>3, <1>11
    <3> HIDE DEF Hit
    <3>2. \A c \in Table : \A b \in 0 .. Width - 1 : cells[c][b] \in Values \cup {0}
      BY <1>1 DEF CellsOK
    <3> QED
      BY <3>1, <3>2 DEF CellsOK
  <2>6. /\ [nodes EXCEPT ![f.node] = node] = nodes' /\ [files EXCEPT ![fd] = {q}] = files'
        /\ dirs' = Finalized(node) /\ fat' = g /\ lost' = lost
    BY <1>3, <1>11
  <2> HIDE DEF room, written, a
  <2>7. size \in Nat /\ v.size <= size /\ pos + written <= size
    BY <1>2, <2>4
  <2> HIDE DEF size
  <2>8. a \in Table
    BY <2>3, Kinds
  <2>9. /\ node \in NodeSet /\ node.dir = v.dir /\ node.name = v.name /\ node.first = a
        /\ node.size = size
    BY <1>2, <2>2, <2>7, <2>8 DEF NodeSet
  <2>10. q \in FileSet /\ q.node = f.node /\ q.pos = pos + written
    BY <1>2, <2>4 DEF FileSet
  <2> HIDE DEF node, q
  <2>11. EntryOf(dirs, node, i)
    BY <1>2, <2>9 DEF EntryOf
  <2> DEFINE E == Finalized(node)
  <2>12. /\ DirsOK(E) /\ SameBut(dirs, E, v.dir, i) /\ i \in Ents(E, v.dir)
         /\ E[v.dir][i].name = v.name /\ ~E[v.dir][i].dir
         /\ E[v.dir][i].first = a /\ E[v.dir][i].size = size
    <3>1. node.dir \in Table /\ node.first \in Table /\ node.size \in Nat
      BY <1>2, <2>7, <2>8, <2>9
    <3> DEFINE e == [dirs[node.dir][i] EXCEPT !.first = node.first, !.size = node.size]
    <3>2. /\ e.name = node.name /\ e.dir = dirs[node.dir][i].dir
          /\ e.first = node.first /\ e.size = node.size
          /\ DirsOK(E) /\ SameBut(dirs, E, node.dir, i)
          /\ i \in Ents(E, node.dir) /\ E[node.dir][i] = e
      BY <1>1, <2>11, <3>1, Finalizes
    <3> HIDE DEF e, E
    <3> QED
      BY <1>2, <2>9, <3>2
  <2> HIDE DEF E
  <2>13. /\ ChainsOK(g) /\ PathsOK(E) /\ EntriesOK(g, E) /\ FirstsApart(E) /\ LostOK(g, E, lost)
         /\ (~KernelApi => NamesApart(E))
    BY <1>2, <1>8, <2>3, <2>4, <2>12, EntryWritten
  <2>14. FilesOK(nodes', files') /\ NodesOK(E, nodes', files')
    <3>1. nodes[f.node] = v /\ q.pos <= node.size /\ fd \in Fds
      BY <2>7, <2>9, <2>10 DEF v
    <3> DEFINE d == v.dir
    <3>2. nodes[f.node].dir = d /\ EntryOf(dirs, nodes[f.node], i)
          /\ nodes[f.node].size <= node.size /\ d \in Table /\ i \in Ents(dirs, d)
          /\ DirsOK(dirs) /\ FilesOK(nodes, files) /\ NodesOK(dirs, nodes, files)
          /\ f \in files[fd]
      BY <1>1, <1>2, <2>7, <2>9, <3>1
    <3>3. /\ DirsOK(E) /\ SameBut(dirs, E, d, i) /\ i \in Ents(E, d)
          /\ E[d][i].name = dirs[d][i].name /\ ~E[d][i].dir
      BY <1>2, <2>12
    <3>4. /\ node \in NodeSet /\ node.dir = d /\ node.name = dirs[d][i].name
          /\ node.first = E[d][i].first /\ node.size = E[d][i].size
          /\ q \in FileSet /\ q.node = f.node
      BY <1>2, <2>9, <2>10, <2>12
    <3>5. [nodes EXCEPT ![f.node] = node] = nodes' /\ [files EXCEPT ![fd] = {q}] = files'
      BY <2>6
    <3> HIDE DEF d
    <3> QED
      BY ONLY FatOK, <3>1, <3>2, <3>3, <3>4, <3>5, NodesWritten, SMTT(120)
  <2>15. dirs' = E
    BY <2>6 DEF E
  <2> QED
    BY <2>5, <2>6, <2>12, <2>13, <2>14, <2>15 DEF FatInv
<1> QED
  BY <1>10, <1>11

\* A walk from no cluster comes through the clusters it claims, and no others.
LEMMA WalkAnew ==
  ASSUME FatOK, NEW f, NEW p, Walked(0, f, p), p # <<>>
  PROVE  /\ p[1] \in Clusters /\ fat[p[1]] = Free /\ Starts(f, p[1])
         /\ Chain(f, p[1]) = New(f) /\ PathSet(p) = New(f)
         /\ Cardinality(Chain(f, p[1])) = Len(p) /\ Len(p) \in Nat
<1>1. 0 \in Table /\ 0 \notin Clusters /\ Chain(fat, 0) = {}
  BY Kinds, ChainNone DEF Clusters
<1> DEFINE z == 0
<1>2. z = 0 /\ z \in Table /\ z \notin Clusters /\ Chain(fat, z) = {} /\ Walked(z, f, p)
  BY <1>1
<1> HIDE DEF z
<1>3. /\ p[1] \in Clusters /\ Starts(f, p[1])
      /\ p[1] = z \/ (z \notin Clusters /\ fat[p[1]] = Free)
      /\ PathSet(p) \subseteq Chain(f, p[1]) /\ Cardinality(PathSet(p)) = Len(p)
      /\ Len(p) \in Nat
      /\ Chain(f, p[1]) = Chain(fat, z) \cup New(f)
      /\ (f = fat /\ p[1] = z) \/ Cardinality(Chain(f, p[1])) = Len(p)
  BY ONLY FatOK, <1>2, p # <<>>, WalkEnds
<1>4. /\ p[1] \in Clusters /\ Starts(f, p[1]) /\ fat[p[1]] = Free
      /\ PathSet(p) \subseteq Chain(f, p[1]) /\ Cardinality(PathSet(p)) = Len(p)
      /\ Len(p) \in Nat /\ Chain(f, p[1]) = New(f)
      /\ Cardinality(Chain(f, p[1])) = Len(p)
  BY <1>2, <1>3
<1>5. PathSet(p) = Chain(f, p[1])
  BY <1>4, ChainFinite, FS_Subset
<1> QED
  BY <1>4, <1>5

\* How many clusters a file of that size gets.
LEMMA NewSized ==
  ASSUME FatOK, NEW count \in Nat, 1 <= count, NEW l \in Nat,
         l <= (count - 1) \div Width + 1, count <= l * Width
  PROVE  Chunks(count) = l
<1> DEFINE k == (count - 1) \div Width
<1>1. Width \in Nat \ {0} /\ count - 1 \in Nat /\ Width \in Nat
  BY DEF FatOK
<1>2. k \in Nat /\ k * Width \in Nat /\ k * Width <= count - 1 /\ l <= k + 1
  BY <1>1, Quotient
<1> HIDE DEF k
<1>3. Chunks(count) \in Nat /\ Chunks(count) <= l
  BY ChunksAre
<1>4. ~(Chunks(count) <= k) 
  <2>1. ~(count <= k * Width)
    BY <1>2
  <2> QED
    BY <1>2, <2>1, ChunksAre
<1> QED
  BY <1>2, <1>3, <1>4

\* A file is made in the root, with the clusters a walk has claimed.
LEMMA Made ==
  ASSUME FatOK, FatInv, NEW n \in Names, NEW count \in Nat, Slot(0) # 0,
         NEW g, NEW p, Walked(0, g, p), p # <<>>, Len(p) = Chunks(count),
         NEW E, Insert(dirs, 0, Entry(n, FALSE, p[1], count)) = E
  PROVE  /\ ChainsOK(g) /\ DirsOK(E) /\ PathsOK(E) /\ EntriesOK(g, E) /\ FirstsApart(E)
         /\ LostOK(g, E, lost)
<1> DEFINE s == Slot(0)
           a == p[1]
           e == Entry(n, FALSE, a, count)
<1>1. DirsOK(dirs) /\ ChainsOK(fat) /\ PathsOK(dirs) /\ EntriesOK(fat, dirs)
      /\ FirstsApart(dirs) /\ LostOK(fat, dirs, lost)
  BY DEF FatInv
<1>2. 0 \in Table /\ 0 \in Dirs(dirs) /\ 0 \notin Clusters
  BY <1>1, DirsHold, Kinds DEF Clusters, Paths
<1>3. /\ s \in SlotsOf(0) /\ dirs[0][s].kind \in {"end", "deleted"}
      /\ \A j \in SlotsOf(0) : j < s => dirs[0][j].kind = "entry"
  BY <1>1, <1>2, SlotFound
<1>4. /\ a \in Clusters /\ fat[a] = Free /\ Starts(g, a)
      /\ Chain(g, a) = New(g) /\ Cardinality(Chain(g, a)) = Chunks(count)
  BY WalkAnew
<1>5. a \in Table
  BY <1>4, Kinds
<1> HIDE DEF a
<1>6. e \in SlotSet /\ e.kind = "entry" /\ ~e.dir /\ e.first = a /\ e.size = count
  BY <1>5 DEF Entry, SlotSet, Labels
<1>7. [dirs EXCEPT ![0][s] = e] = E
  BY DEF Insert, a
<1> HIDE DEF s, e
<1>8. /\ DirsOK(E) /\ SameBut(dirs, E, 0, s)
      /\ s \notin Ents(dirs, 0) /\ s \in Ents(E, 0) /\ E[0][s] = e
  BY <1>1, <1>2, <1>3, <1>6, <1>7, Inserted
<1>9. PathsOK(E)
  BY <1>1, <1>2, <1>8, PathsKept
<1>10. EntryOK(g, e)
  BY <1>4, <1>6 DEF EntryOK
<1> DEFINE O == Own(fat, dirs, 0, s)
           P == Own(g, E, 0, s)
           X == {}
<1>11. O = {} /\ P = New(g)
  BY <1>2, <1>4, <1>6, <1>8 DEF Own, New
<1>12. ChainsOK(g) /\ Keeps(fat, g, 0)
  BY DEF Walked, Spared, Keeps
<1>13. OnlyAt(dirs, 0, s, 0) /\ OnlyAt(dirs, 0, s, a)
  BY <1>4, Nowhere, FreeUnnamed
<1>14. EntriesOK(g, E) /\ FirstsApart(E) /\ LostOK(g, E, lost \cup X)
  <2>1. O = Own(fat, dirs, 0, s) /\ P = Own(g, E, 0, s)
    OBVIOUS
  <2> HIDE DEF O, P
  <2>2. InUse(g) = (InUse(fat) \ O) \cup P \cup X
        /\ (P \cup X) \cap (InUse(fat) \ O) = {}
        /\ P \cap X = {} /\ X \in SUBSET Clusters
    <3>1. InUse(g) = InUse(fat) \cup New(g) /\ New(g) \cap InUse(fat) = {}
      BY WalkTakes
    <3> QED
      BY <1>11, <3>1
  <2>3. 0 \in Table /\ s \in Ents(E, 0) =>
          EntryOK(g, E[0][s]) /\ OnlyAt(dirs, 0, s, E[0][s].first)
    BY <1>6, <1>8, <1>10, <1>13
  <2> HIDE DEF X
  <2> DEFINE d == 0
  <2>4. /\ d \in Table /\ OnlyAt(dirs, d, s, d) /\ Keeps(fat, g, d) /\ SameBut(dirs, E, d, s)
        /\ O = Own(fat, dirs, d, s) /\ P = Own(g, E, d, s)
        /\ (d \in Table /\ s \in Ents(E, d) =>
              EntryOK(g, E[d][s]) /\ OnlyAt(dirs, d, s, E[d][s].first))
    BY <1>2, <1>8, <1>12, <1>13, <2>1, <2>3
  <2> HIDE DEF d
  <2> QED
    BY ONLY FatOK, <1>1, <1>8, <1>12, <2>2, <2>4, Edited, SMTT(60)
<1>15. LostOK(g, E, lost)
  BY <1>14 DEF LostOK
<1> QED
  BY <1>8, <1>9, <1>12, <1>14, <1>15

\* The clusters a call took before it failed.
LEMMA LeftBehind ==
  ASSUME FatOK, FatInv, NEW g, NEW p, Walked(0, g, p)
  PROVE  /\ ChainsOK(g) /\ EntriesOK(g, dirs) /\ FirstsApart(dirs)
         /\ LostOK(g, dirs, lost \cup PathSet(p))
<1>1. DirsOK(dirs) /\ ChainsOK(fat) /\ EntriesOK(fat, dirs)
      /\ FirstsApart(dirs) /\ LostOK(fat, dirs, lost)
  BY DEF FatInv
<1>2. 0 \notin SlotsOf(0) /\ 0 \notin Ents(dirs, 0) /\ 0 \in Table
  BY Kinds DEF SlotsOf, Ents
<1> DEFINE O == Own(fat, dirs, 0, 0)
           P == Own(g, dirs, 0, 0)
           X == PathSet(p)
<1>3. O = {} /\ P = {}
  BY <1>2 DEF Own
<1>4. X = New(g)
  <2>1. CASE p = <<>>
    <3>1. X = {}
      BY <2>1 DEF PathSet
    <3>2. g = fat
      BY <2>1 DEF Walked
    <3> QED
      BY <3>1, <3>2 DEF New
  <2>2. CASE p # <<>>
    BY <2>2, WalkAnew
  <2> QED
    BY <2>1, <2>2
<1>5. ChainsOK(g) /\ Keeps(fat, g, 0)
  BY DEF Walked, Spared, Keeps
<1>6. OnlyAt(dirs, 0, 0, 0)
  BY Nowhere
<1>7. SameBut(dirs, dirs, 0, 0)
  BY DEF SameBut
<1>8. O = Own(fat, dirs, 0, 0) /\ P = Own(g, dirs, 0, 0)
  OBVIOUS
<1> HIDE DEF O, P, X
<1>9. InUse(g) = (InUse(fat) \ O) \cup P \cup X
      /\ (P \cup X) \cap (InUse(fat) \ O) = {}
      /\ P \cap X = {} /\ X \in SUBSET Clusters
  <2>1. InUse(g) = InUse(fat) \cup New(g) /\ New(g) \cap InUse(fat) = {}
    BY WalkTakes
  <2>2. New(g) \in SUBSET Clusters
    BY DEF New
  <2> QED
    BY <1>3, <1>4, <2>1, <2>2
<1>10. 0 \in Table /\ 0 \in Ents(dirs, 0) =>
         EntryOK(g, dirs[0][0]) /\ OnlyAt(dirs, 0, 0, dirs[0][0].first)
  BY <1>2
<1>11. EntriesOK(g, dirs) /\ FirstsApart(dirs) /\ LostOK(g, dirs, lost \cup X)
  BY <1>1, <1>5, <1>6, <1>7, <1>8, <1>9, <1>10, Edited
<1> QED
  BY <1>5, <1>11 DEF X

\* Creating a file with its data at start.
LEMMA Creates ==
  ASSUME FatOK, FatInv, NEW n \in Names, NEW count \in 1 .. MaxCount, NEW x \in Values,
         CreateFile(n, count, x)
  PROVE  FatInv'
<1> DEFINE k == (count - 1) \div Width + 1
           walk == Walk(0, k)
           p == walk.path
           g == walk.fat
           taken == {p[j] : j \in 1 .. Len(p)}
           Hit(c, b) == \E j \in 1 .. Len(p) : p[j] = c /\ (j - 1) * Width + b < count
           fits == Len(p) * Width >= count
<1>1. /\ ChainsOK(fat) /\ CellsOK /\ DirsOK(dirs) /\ PathsOK(dirs) /\ FilesOK(nodes, files)
  BY DEF FatInv
<1>2. /\ KernelApi /\ Open = {} /\ fat' = g /\ UNCHANGED <<nodes, files>>
      /\ cells' = [c \in Table |-> IF c \in taken
            THEN [b \in 0 .. Width - 1 |-> IF Hit(c, b) THEN x ELSE 0] ELSE cells[c]]
      /\ fits /\ Slot(0) # 0 =>
           Insert(dirs, 0, Entry(n, FALSE, p[1], count)) = dirs' /\ UNCHANGED lost
      /\ ~(fits /\ Slot(0) # 0) => lost' = lost \cup taken /\ UNCHANGED dirs
  BY DEF CreateFile
<1>3. CellsOK'
  <2> HIDE DEF Hit, taken
  <2>1. \A c \in Table : cells'[c] \in [0 .. Width - 1 -> Values \cup {0}]
    BY <1>1, <1>2 DEF CellsOK
  <2>2. cells' = [c \in Table |-> cells'[c]]
    BY <1>2
  <2> QED
    BY <2>1, <2>2 DEF CellsOK
<1>4. count \in Nat /\ 1 <= count
  BY DEF FatOK
<1>5. k \in Nat /\ 1 <= k
  <2>1. count - 1 \in Nat /\ Width \in Nat \ {0}
    BY <1>4 DEF FatOK
  <2> QED
    BY <2>1, Quotient
<1>6. Walked(0, g, p) /\ Len(p) \in Nat /\ Len(p) <= k
  <2>1. 0 \in Table /\ 0 \notin Clusters
    BY Kinds DEF Clusters
  <2> HIDE DEF k
  <2> QED
    BY <1>1, <1>5, <2>1, Walks DEF WalkOK
<1>7. taken = PathSet(p)
  BY DEF PathSet
<1> HIDE DEF g, p, taken
<1>8. \A fd \in Fds : files[fd] = {}
  BY <1>2 DEF Open
<1>9. FilesOK(nodes', files') /\ \A D : NodesOK(D, nodes', files')
  BY <1>1, <1>2, <1>8 DEF NodesOK, FilesOK
<1>10. CASE fits /\ Slot(0) # 0
  <2>1. p # <<>>
    <3> SUFFICES ASSUME p = <<>> PROVE FALSE
      OBVIOUS
    <3>1. Len(p) * Width = 0
      BY DEF FatOK
    <3> QED
      BY <1>4, <1>10, <3>1
  <2>2. count <= Len(p) * Width
    BY <1>4, <1>6, <1>10 DEF FatOK
  <2>3. Len(p) = Chunks(count)
    BY <1>4, <1>6, <2>2, NewSized
  <2>4. Insert(dirs, 0, Entry(n, FALSE, p[1], count)) = dirs' /\ lost' = lost
    BY <1>2, <1>10
  <2>5. /\ ChainsOK(g) /\ DirsOK(dirs') /\ PathsOK(dirs') /\ EntriesOK(g, dirs')
        /\ FirstsApart(dirs') /\ LostOK(g, dirs', lost)
    BY <1>4, <1>6, <1>10, <2>1, <2>3, <2>4, Made
  <2> QED
    BY <1>2, <1>3, <1>9, <2>4, <2>5 DEF FatInv
<1>11. CASE ~(fits /\ Slot(0) # 0)
  <2>1. /\ ChainsOK(g) /\ EntriesOK(g, dirs) /\ FirstsApart(dirs)
        /\ LostOK(g, dirs, lost \cup PathSet(p))
    BY <1>6, LeftBehind
  <2>2. lost' = lost \cup PathSet(p) /\ dirs' = dirs
    BY <1>2, <1>7, <1>11
  <2> QED
    BY <1>1, <1>2, <1>3, <1>9, <2>1, <2>2 DEF FatInv
<1> QED
  BY <1>10, <1>11

-----------------------------------------------------------------------------
(* Reads. *)

\* F applied again and again, from a on, k times.
Repeats(F, a, k, g) == g = [i \in 0 .. k |-> IF i = 0 THEN a ELSE F[g[i - 1]]]

\* The steps of that.
LEMMA RepeatsAre ==
  \A F, a, g : \A k \in Nat : Repeats(F, a, k, g) =>
    g[0] = a /\ \A i \in Nat : i < k => g[i + 1] = F[g[i]]
<1> SUFFICES ASSUME NEW F, NEW a, NEW g, NEW k \in Nat, Repeats(F, a, k, g)
             PROVE  g[0] = a /\ \A i \in Nat : i < k => g[i + 1] = F[g[i]]
  OBVIOUS
<1>1. \A i \in 0 .. k : g[i] = IF i = 0 THEN a ELSE F[g[i - 1]]
  BY DEF Repeats
<1>2. g[0] = a
  BY <1>1
<1>3. ASSUME NEW i \in Nat, i < k PROVE g[i + 1] = F[g[i]]
  <2>1. i + 1 \in 0 .. k /\ i + 1 # 0 /\ (i + 1) - 1 = i
    BY <1>3
  <2> QED
    BY <1>1, <2>1
<1> QED
  BY <1>2, <1>3

\* It is defined for any number of times,
LEMMA RepeatsExist ==
  ASSUME NEW F, NEW a
  PROVE  \A k \in Nat : \E g : Repeats(F, a, k, g)
<1> DEFINE S == {m \in Nat : \E g : Repeats(F, a, m, g)}
<1>1. 0 \in S
  <2> DEFINE g == [i \in 0 .. 0 |-> a]
  <2>1. g = [i \in 0 .. 0 |-> IF i = 0 THEN a ELSE F[g[i - 1]]]
    OBVIOUS
  <2>2. Repeats(F, a, 0, g)
    BY <2>1 DEF Repeats
  <2> QED
    BY <2>2
<1>2. ASSUME NEW m \in S PROVE m + 1 \in S
  <2>1. m \in Nat
    OBVIOUS
  <2>2. PICK g : Repeats(F, a, m, g)
    OBVIOUS
  <2> DEFINE h == [i \in 0 .. m + 1 |-> IF i = m + 1 THEN F[g[m]] ELSE g[i]]
  <2>3. \A i \in 0 .. m : g[i] = IF i = 0 THEN a ELSE F[g[i - 1]]
    BY <2>2 DEF Repeats
  <2>4. ASSUME NEW i \in 0 .. m + 1
        PROVE  h[i] = IF i = 0 THEN a ELSE F[h[i - 1]]
    <3>1. CASE i = m + 1
      <4>1. h[i] = F[g[m]] /\ h[m] = g[m] /\ i # 0 /\ i - 1 = m
        BY <2>1, <3>1
      <4> QED
        BY <4>1
    <3>2. CASE i # m + 1
      <4>1. i \in 0 .. m /\ h[i] = g[i]
        BY <2>1, <3>2
      <4>2. i # 0 => h[i - 1] = g[i - 1]
        BY <2>1, <4>1
      <4> QED
        BY <2>3, <4>1, <4>2
    <3> QED
      BY <3>1, <3>2
  <2>5. h = [i \in 0 .. m + 1 |-> h[i]]
    OBVIOUS
  <2> HIDE DEF h
  <2>6. Repeats(F, a, m + 1, h)
    BY <2>4, <2>5 DEF Repeats
  <2> QED
    BY <2>1, <2>6
<1> HIDE DEF S
<1>3. S \in SUBSET Nat
  BY DEF S
<1>4. S = Nat
  BY <1>1, <1>2, <1>3, Induct
<1> QED
  BY <1>4 DEF S

\* and to repeat more often changes nothing of what came before.
LEMMA RepeatsAgree ==
  \A F, a, g, h : \A k, m \in Nat : Repeats(F, a, k, g) /\ Repeats(F, a, m, h) =>
    \A i \in Nat : i <= k /\ i <= m => g[i] = h[i]
<1> SUFFICES ASSUME NEW F, NEW a, NEW g, NEW h, NEW k \in Nat, NEW m \in Nat,
                    Repeats(F, a, k, g), Repeats(F, a, m, h)
             PROVE  \A i \in Nat : i <= k /\ i <= m => g[i] = h[i]
  OBVIOUS
<1> DEFINE S == {i \in Nat : i <= k /\ i <= m => g[i] = h[i]}
<1>1. 0 \in S
  <2>1. g[0] = a
    BY RepeatsAre
  <2>2. h[0] = a
    BY RepeatsAre
  <2> QED
    BY <2>1, <2>2
<1>2. ASSUME NEW i \in S PROVE i + 1 \in S
  <2>1. i \in Nat /\ (i <= k /\ i <= m => g[i] = h[i])
    OBVIOUS
  <2>2. i < k => g[i + 1] = F[g[i]]
    BY <2>1, RepeatsAre
  <2>3. i < m => h[i + 1] = F[h[i]]
    BY <2>1, RepeatsAre
  <2> QED
    BY <2>1, <2>2, <2>3
<1> HIDE DEF S
<1>3. S \in SUBSET Nat
  BY DEF S
<1>4. S = Nat
  BY <1>1, <1>2, <1>3, Induct
<1> QED
  BY <1>4 DEF S

\* F applied as often as one likes.
Orbit(F, a) == [i \in Nat |-> (CHOOSE g : Repeats(F, a, i, g))[i]]

\* The steps of the orbit.
LEMMA Orbits ==
  \A F, a : /\ Orbit(F, a) = [i \in Nat |-> Orbit(F, a)[i]] /\ Orbit(F, a)[0] = a
           /\ \A i \in Nat : Orbit(F, a)[i + 1] = F[Orbit(F, a)[i]]
<1> SUFFICES ASSUME NEW F, NEW a
             PROVE  /\ Orbit(F, a) = [i \in Nat |-> Orbit(F, a)[i]] /\ Orbit(F, a)[0] = a
                    /\ \A i \in Nat : Orbit(F, a)[i + 1] = F[Orbit(F, a)[i]]
  OBVIOUS
<1> DEFINE G(k) == CHOOSE g : Repeats(F, a, k, g)
           h == Orbit(F, a)
<1>1. \A k \in Nat : Repeats(F, a, k, G(k))
  BY RepeatsExist
<1>2. h = [i \in Nat |-> h[i]] /\ \A i \in Nat : h[i] = G(i)[i]
  BY DEF Orbit
<1> HIDE DEF G, h
<1>3. h[0] = a
  <2> DEFINE z == 0
             b == G(z)
  <2>1. z \in Nat /\ Repeats(F, a, z, b) /\ h[0] = b[0]
    BY <1>1, <1>2
  <2> HIDE DEF z, b
  <2>2. b[0] = a
    BY ONLY <2>1, RepeatsAre
  <2> QED
    BY <2>1, <2>2
<1>4. ASSUME NEW i \in Nat PROVE h[i + 1] = F[h[i]]
  <2> DEFINE j == i + 1
             g == G(j)
             b == G(i)
  <2>1. j \in Nat /\ i < j /\ i <= j /\ i <= i /\ j = i + 1
    OBVIOUS
  <2>2. Repeats(F, a, j, g) /\ Repeats(F, a, i, b) /\ h[j] = g[j] /\ h[i] = b[i]
    BY <1>1, <1>2
  <2> HIDE DEF j, g, b
  <2>3. g[i + 1] = F[g[i]]
    BY ONLY <2>1, <2>2, RepeatsAre
  <2>4. g[i] = b[i]
    BY ONLY <2>1, <2>2, RepeatsAgree
  <2> QED
    BY <2>1, <2>2, <2>3, <2>4
<1> QED
  BY <1>2, <1>3, <1>4 DEF h

\* Links from cluster to cluster stay on the chain as far as it goes.
LEMMA Along ==
  ASSUME FatOK, NEW f, ChainsOK(f), NEW first \in Clusters, Starts(f, first),
         NEW m \in Nat, m <= Cardinality(Chain(f, first)),
         NEW c, c[0] = first,
         \A k \in Nat : k + 1 < m /\ c[k] \in Clusters => c[k + 1] = f[c[k]]
  PROVE  \A k \in Nat : k < m => c[k] \in Clusters
<1> DEFINE K == Cardinality(Chain(f, first))
           Reached(k, p) == OnPath(f, p) /\ Len(p) = k + 1 /\ p[1] = first /\ p[k + 1] = c[k]
           S == {k \in Nat : k < m => \E p : Reached(k, p)}
<1>1. K \in Nat /\ m <= K
  BY ChainFinite
<1>2. 0 \in S
  <2> DEFINE p == <<first>>
  <2>1. p \in Seq(Clusters) /\ p # <<>> /\ Len(p) = 1 /\ p[1] = first
    OBVIOUS
  <2>2. PathSet(p) = {first}
    BY DEF PathSet
  <2>3. Cardinality({first}) = 1
    BY FS_Singleton
  <2> HIDE DEF p
  <2>4. OnPath(f, p)
    BY <2>1, <2>2, <2>3, ChainFirst DEF OnPath
  <2>5. Reached(0, p)
    BY <2>1, <2>4
  <2> QED
    BY <2>5
<1>3. ASSUME NEW k \in S PROVE k + 1 \in S
  <2> SUFFICES ASSUME k + 1 < m PROVE \E p : Reached(k + 1, p)
    OBVIOUS
  <2>1. k \in Nat /\ k < m
    OBVIOUS
  <2>2. PICK p : Reached(k, p)
    BY <2>1
  <2>3. p[Len(p)] = c[k] /\ c[k] \in Clusters
    BY <2>2, PathEnds
  <2>4. c[k + 1] = f[c[k]]
    BY <2>1, <2>3
  <2>5. f[c[k]] \in Clusters
    <3> SUFFICES ASSUME f[c[k]] \notin Clusters PROVE FALSE
      OBVIOUS
    <3>1. K = Len(p)
      BY <2>2, <2>3, PathWhole
    <3> QED
      BY <1>1, <2>1, <2>2, <3>1
  <2> DEFINE n == f[c[k]]
             q == Append(p, n)
  <2>6. OnPath(f, q)
    BY <2>2, <2>3, <2>5, PathNext
  <2>7. p \in Seq(Clusters) /\ n \in Clusters /\ Len(p) = k + 1 /\ p[1] = first /\ n = c[k + 1]
    BY <2>2, <2>4, <2>5 DEF OnPath
  <2> HIDE DEF n
  <2>8. Len(q) = Len(p) + 1 /\ q[1] = p[1] /\ q[Len(p) + 1] = n
    <3>1. 1 \in 1 .. Len(p)
      BY <2>1, <2>7
    <3> QED
      BY <2>7, <3>1, Appended
  <2> HIDE DEF q
  <2>9. Reached(k + 1, q)
    BY <2>6, <2>7, <2>8
  <2> QED
    BY <2>9
<1> HIDE DEF S
<1>4. S \in SUBSET Nat
  BY DEF S
<1>5. S = Nat
  BY <1>2, <1>3, <1>4, Induct
<1>6. ASSUME NEW k \in Nat, k < m PROVE c[k] \in Clusters
  <2>1. PICK p : Reached(k, p)
    BY <1>5, <1>6 DEF S
  <2> QED
    BY <2>1, PathEnds
<1> QED
  BY <1>6

\* c goes along the links of f, through m clusters.
Way(f, m, c) == \A k \in Nat : k + 1 < m => c[k + 1] = f[c[k]]

\* Two ways that start alike are one.
LEMMA OneWay ==
  \A f, c, b : \A m \in Nat : Way(f, m, c) /\ Way(f, m, b) /\ c[0] = b[0] =>
    \A k \in Nat : k < m => c[k] = b[k]
<1> SUFFICES ASSUME NEW f, NEW c, NEW b, NEW m \in Nat, Way(f, m, c), Way(f, m, b), c[0] = b[0]
             PROVE  \A k \in Nat : k < m => c[k] = b[k]
  OBVIOUS
<1> DEFINE S == {k \in Nat : k < m => c[k] = b[k]}
<1>1. 0 \in S
  OBVIOUS
<1>2. ASSUME NEW k \in S PROVE k + 1 \in S
  BY DEF Way
<1> HIDE DEF S
<1>3. S \in SUBSET Nat
  BY DEF S
<1>4. S = Nat
  BY <1>1, <1>2, <1>3, Induct
<1> QED
  BY <1>4 DEF S

\* The table's link from a cluster, and the end mark's to itself.
LEMMA Cluster ==
  ASSUME FatOK, ChainsOK(fat), NEW first \in Table,
         NEW c, c = CHOOSE h : h = [k \in Nat |-> IF k = 0 THEN first ELSE
                                      IF h[k - 1] = Eoc THEN Eoc ELSE fat[h[k - 1]]]
  PROVE  /\ c[0] = first
         /\ \A k \in Nat : c[k + 1] = IF c[k] = Eoc THEN Eoc ELSE fat[c[k]]
<1> DEFINE V == 0 .. Eoc
           F == [x \in V |-> IF x = Eoc THEN Eoc ELSE fat[x]]
<1> HIDE DEF F
<1> DEFINE h == Orbit(F, first)
<1>1. h = [i \in Nat |-> h[i]] /\ h[0] = first /\ \A i \in Nat : h[i + 1] = F[h[i]]
  BY Orbits
<1> HIDE DEF h
<1>2. first \in V /\ Eoc \in V /\ (\A x \in V : x # Eoc => fat[x] \in V)
  BY DEF ChainsOK, Table, Eoc, FatOK
<1>3. \A x \in V : F[x] \in V /\ F[x] = IF x = Eoc THEN Eoc ELSE fat[x]
  BY <1>2 DEF F
<1> HIDE DEF V
<1> DEFINE S == {i \in Nat : h[i] \in V}
<1>4. 0 \in S /\ \A i \in S : i + 1 \in S
  <2>1. 0 \in S
    BY <1>1, <1>2
  <2>2. ASSUME NEW i \in S PROVE i + 1 \in S
    <3>1. i \in Nat /\ h[i] \in V /\ h[i + 1] = F[h[i]]
      BY <1>1
    <3> QED
      BY <1>3, <3>1
  <2> QED
    BY <2>1, <2>2
<1>5. S \in SUBSET Nat
  OBVIOUS
<1> HIDE DEF S
<1>6. S = Nat
  BY <1>4, <1>5, Induct
<1>7. \A i \in Nat : h[i + 1] = IF h[i] = Eoc THEN Eoc ELSE fat[h[i]]
  BY <1>1, <1>3, <1>6 DEF S
<1>8. h = [k \in Nat |-> IF k = 0 THEN first ELSE
                           IF h[k - 1] = Eoc THEN Eoc ELSE fat[h[k - 1]]]
  <2>1. ASSUME NEW k \in Nat
        PROVE  h[k] = IF k = 0 THEN first ELSE IF h[k - 1] = Eoc THEN Eoc ELSE fat[h[k - 1]]
    <3>1. CASE k = 0
      BY <1>1, <3>1
    <3>2. CASE k # 0
      <4>1. k - 1 \in Nat /\ (k - 1) + 1 = k
        BY <3>2
      <4> QED
        BY <1>7, <3>2, <4>1
    <3> QED
      BY <3>1, <3>2
  <2> QED
    BY <1>1, <2>1
<1>9. c = [k \in Nat |-> IF k = 0 THEN first ELSE
                           IF c[k - 1] = Eoc THEN Eoc ELSE fat[c[k - 1]]]
  BY <1>8
<1>10. \A k \in Nat : c[k] = IF k = 0 THEN first ELSE
                               IF c[k - 1] = Eoc THEN Eoc ELSE fat[c[k - 1]]
  BY <1>9
<1>11. ASSUME NEW k \in Nat PROVE c[k + 1] = IF c[k] = Eoc THEN Eoc ELSE fat[c[k]]
  <2>1. k + 1 \in Nat /\ k + 1 # 0 /\ (k + 1) - 1 = k
    OBVIOUS
  <2> QED
    BY <1>10, <2>1
<1> QED
  BY <1>10, <1>11

\* The cluster of a file that Data goes by.
LEMMA NthIs ==
  ASSUME NEW first, NEW k \in Nat
  PROVE  Nth(first, k) = Orbit(fat, first)[k]
BY DEF Nth, Orbit, Repeats

\* A position in a file lies in one of its clusters.
LEMMA InChunks ==
  ASSUME FatOK, NEW size \in Nat, NEW x \in Nat, x < size
  PROVE  x \div Width \in Nat /\ x \div Width < Chunks(size)
<1> DEFINE q == x \div Width
<1>1. Width \in Nat \ {0}
  BY DEF FatOK
<1>2. q \in Nat /\ q * Width \in Nat /\ q * Width <= x
  BY <1>1, Quotient
<1> HIDE DEF q
<1>3. ~(size <= q * Width)
  BY <1>2
<1>4. Chunks(size) \in Nat /\ ~(Chunks(size) <= q)
  BY <1>2, <1>3, ChunksAre
<1> QED
  BY <1>2, <1>4 DEF q

\* A read returns the cells along the chain.
LEMMA GotIs ==
  ASSUME FatOK, ChainsOK(fat), NEW v, v.first \in Table, v.first \in Clusters => Starts(fat, v.first),
         v.size \in Nat, Cardinality(Chain(fat, v.first)) = Chunks(v.size),
         NEW pos \in Nat, pos <= v.size, NEW n \in Nat,
         NEW count \in Nat, count = IF n < v.size - pos THEN n ELSE v.size - pos
  PROVE  Got(v, pos, n) =
           [j \in 1 .. count |->
              cells[Nth(v.first, (pos + j - 1) \div Width)][(pos + j - 1) % Width]]
<1> DEFINE first == v.first
           size == v.size
           K == Chunks(size)
           o == Orbit(fat, first)
           c == CHOOSE f : f = [k \in Nat |-> IF k = 0 THEN first ELSE
                                  IF f[k - 1] = Eoc THEN Eoc ELSE fat[f[k - 1]]]
           OnChain(k) == c[(pos + k) \div Width] \in Clusters
           readable == {j \in 0 .. count : \A k \in 0 .. j - 1 : OnChain(k)}
           got == CHOOSE j \in readable : \A k \in readable : k <= j
<1>1. Got(v, pos, n) =
        [j \in 1 .. got |-> cells[c[(pos + j - 1) \div Width]][(pos + j - 1) % Width]]
  <2>1. (IF v.size > pos THEN v.size - pos ELSE 0) = v.size - pos
    OBVIOUS
  <2> QED
    BY <2>1 DEF Got
<1>2. c[0] = first /\ \A k \in Nat : c[k + 1] = IF c[k] = Eoc THEN Eoc ELSE fat[c[k]]
  BY Cluster
<1>3. o[0] = first /\ \A k \in Nat : o[k + 1] = fat[o[k]]
  BY Orbits
<1>4. K \in Nat /\ size \in Nat /\ first \in Table
  BY ChunksAre
<1> HIDE DEF c, o, first, size, K
<1>5. \A k \in Nat : k < K => c[k] \in Clusters
  <2>1. CASE first \in Clusters
    <3>1. Starts(fat, first) /\ K <= Cardinality(Chain(fat, first))
      BY <1>4, <2>1 DEF first, K, size
    <3>2. \A k \in Nat : k + 1 < K /\ c[k] \in Clusters => c[k + 1] = fat[c[k]]
      BY <1>2, Kinds
    <3> QED
      BY <1>2, <1>4, <2>1, <3>1, <3>2, Along
  <2>2. CASE first \notin Clusters
    <3>1. K = Cardinality({})
      BY <2>2, ChainNone DEF first, K, size
    <3>2. K = 0
      BY <3>1, FS_EmptySet
    <3> QED
      BY <3>2
  <2> QED
    BY <2>1, <2>2
<1>6. \A k \in Nat : k < K => c[k] = o[k]
  <2>1. Way(fat, K, c)
    BY <1>2, <1>4, <1>5, Kinds DEF Way
  <2>2. Way(fat, K, o)
    BY <1>3 DEF Way
  <2> QED
    BY <1>2, <1>3, <1>4, <2>1, <2>2, OneWay
<1>7. ASSUME NEW x \in Nat, x < size
      PROVE  /\ c[x \div Width] \in Clusters
             /\ c[x \div Width] = Nth(first, x \div Width)
  <2>1. x \div Width \in Nat /\ x \div Width < K
    BY <1>4, <1>7, InChunks DEF K
  <2> QED
    BY <1>5, <1>6, <2>1, NthIs DEF o
<1>8. pos + count <= size
  BY DEF size
<1>9. got = count
  <2>1. ASSUME NEW k \in 0 .. count - 1 PROVE OnChain(k)
    <3>1. pos + k \in Nat /\ pos + k < size
      BY <1>4, <1>8
    <3> QED
      BY <1>7, <3>1
  <2> HIDE DEF OnChain
  <2>2. count \in readable
    BY <2>1
  <2>3. \A j \in readable : j <= count /\ j \in Nat
    OBVIOUS
  <2> HIDE DEF readable
  <2>4. got \in readable /\ count <= got
    BY <2>2, <2>3
  <2> QED
    BY <2>3, <2>4
<1> HIDE DEF got, readable
<1>10. ASSUME NEW j \in 1 .. count
       PROVE  c[(pos + j - 1) \div Width] = Nth(v.first, (pos + j - 1) \div Width)
  <2>1. pos + j - 1 \in Nat /\ pos + j - 1 < size
    BY <1>4, <1>8
  <2> QED
    BY <1>7, <2>1 DEF first
<1> QED
  BY <1>1, <1>9, <1>10

\* What is read from an open file is what its entry's chain holds.
LEMMA ReadsBackHolds ==
  ASSUME FatOK, FatInv
  PROVE  ReadsBack
<1> SUFFICES ASSUME NEW fd \in Open
             PROVE  LET f == FileOf(fd)
                        v == nodes[f.node]
                        data == Data(dirs[v.dir][FindShort(v.dir, v.name)])
                    IN Got(v, f.pos, MaxCount) = SubSeq(data, f.pos + 1,
                         IF f.pos + MaxCount < Len(data) THEN f.pos + MaxCount ELSE Len(data))
  BY DEF ReadsBack
<1> DEFINE f == FileOf(fd)
           v == nodes[f.node]
           e == dirs[v.dir][FindShort(v.dir, v.name)]
           data == Data(e)
           Cell(j) == cells[Nth(v.first, (j - 1) \div Width)][(j - 1) % Width]
           pos == f.pos
           count == IF MaxCount < v.size - pos THEN MaxCount ELSE v.size - pos
           last == IF pos + MaxCount < Len(data) THEN pos + MaxCount ELSE Len(data)
<1>1. /\ v.first \in Table /\ v.size \in Nat /\ pos \in Nat /\ pos <= v.size
      /\ e.first = v.first /\ e.size = v.size /\ ~e.dir /\ EntryOK(fat, e)
  BY OpenIs
<1>2. ChainsOK(fat) /\ MaxCount \in Nat
  BY DEF FatInv, FatOK
<1>3. /\ v.first \in Clusters => Starts(fat, v.first)
      /\ Cardinality(Chain(fat, v.first)) = Chunks(v.size)
  BY <1>1 DEF EntryOK
<1>4. data = [j \in 1 .. v.size |-> Cell(j)]
  BY <1>1 DEF Data
<1> HIDE DEF v, e, data, pos
<1>5. Len(data) = v.size /\ \A j \in 1 .. v.size : data[j] = Cell(j)
  BY <1>1, <1>4
<1>6. count \in Nat /\ pos + count <= v.size /\ last = pos + count /\ last \in Nat
  BY <1>1, <1>2, <1>5
<1>7. Got(v, pos, MaxCount) =
        [j \in 1 .. count |->
           cells[Nth(v.first, (pos + j - 1) \div Width)][(pos + j - 1) % Width]]
  <2> DEFINE m == count
  <2>1. m \in Nat /\ m = IF MaxCount < v.size - pos THEN MaxCount ELSE v.size - pos
    BY <1>6
  <2> HIDE DEF m
  <2>2. Got(v, pos, MaxCount) =
          [j \in 1 .. m |->
             cells[Nth(v.first, (pos + j - 1) \div Width)][(pos + j - 1) % Width]]
    BY <1>1, <1>2, <1>3, <2>1, GotIs
  <2> QED
    BY <2>2 DEF m
<1> HIDE DEF count, last
<1> DEFINE got == Got(v, pos, MaxCount)
           sub == SubSeq(data, pos + 1, last)
<1>8. ASSUME NEW j \in 1 .. count PROVE got[j] = data[pos + j]
  <2>1. pos + j \in 1 .. v.size /\ (pos + j) - 1 = pos + j - 1
    BY <1>1, <1>6
  <2> QED
    BY <1>5, <1>7, <2>1
<1>9. sub = [j \in 1 .. count |-> data[pos + j]]
  <2>1. sub = [j \in 1 .. 1 + last - (pos + 1) |-> data[j + (pos + 1) - 1]]
    BY <1>1, <1>6 DEF SubSeq
  <2>2. 1 + last - (pos + 1) = count
    BY <1>1, <1>6
  <2>3. \A j \in 1 .. count : j + (pos + 1) - 1 = pos + j
    BY <1>1, <1>6
  <2> QED
    BY <2>1, <2>2, <2>3
<1>10. got = sub
  BY <1>7, <1>8, <1>9
<1> QED
  BY <1>10 DEF v, e, data, pos, last

-----------------------------------------------------------------------------
(* All calls together, and what follows. *)

\* Each call keeps the invariant.
LEMMA FatStep ==
  ASSUME FatOK, Sharing = FALSE, FatInv, [Next]_vars
  PROVE  FatInv'
<1>1. CASE UNCHANGED vars
  <2>1. UNCHANGED <<fat, cells, dirs, nodes, files, lost>>
    BY <1>1 DEF vars
  <2> QED
    BY <2>1 DEF FatInv, CellsOK
<1>2. ASSUME NEW d \in Directories, NEW n \in Names, NEW fd \in Fds, NEW append \in BOOLEAN,
             OpenFile(d, n, fd, append)
      PROVE  FatInv'
  BY <1>2, Opens
<1>3. ASSUME NEW d \in Directories, NEW n \in Names, Mkdir(d, n) PROVE FatInv'
  BY <1>3, Mkdirs
<1>4. ASSUME NEW d \in Directories, NEW n \in Names, Unlink(d, n) PROVE FatInv'
  BY <1>4, Unlinks
<1>5. ASSUME NEW d \in Directories, NEW n \in Names, Rmdir(d, n) PROVE FatInv'
  BY <1>5, Rmdirs
<1>6. ASSUME NEW fd \in Fds, NEW other \in Fds, Duplicate(fd, other) PROVE FatInv'
  BY <1>6, Duplicates
<1>7. ASSUME NEW fd \in Fds, Close(fd) PROVE FatInv'
  BY <1>7, Closes
<1>8. ASSUME NEW fd \in Fds, NEW n \in 1 .. MaxCount, Read(fd, n) PROVE FatInv'
  BY <1>8, Reads
<1>9. ASSUME NEW fd \in Fds, NEW n \in 1 .. MaxCount, NEW x \in Values, Write(fd, n, x)
      PROVE  FatInv'
  BY <1>9, Writes
<1>10. ASSUME NEW n \in Names, NEW count \in 1 .. MaxCount, NEW x \in Values,
              CreateFile(n, count, x)
       PROVE  FatInv'
  BY <1>10, Creates
<1> QED
  BY <1>1, <1>2, <1>3, <1>4, <1>5, <1>6, <1>7, <1>8, <1>9, <1>10 DEF Next

\* The invariant holds in every reachable state.
LEMMA FatInvariant ==
  ASSUME FatOK, Sharing = FALSE, Foreign = {}
  PROVE  Spec => []FatInv
<1>1. Init => FatInv
  BY StartOK
<1>2. FatInv /\ [Next]_vars => FatInv'
  BY FatStep
<1> QED
  BY <1>1, <1>2, PTL DEF Spec

\* The entries of the disk.
LEMMA EntriesAre ==
  ASSUME FatOK, FatInv
  PROVE  /\ \A e \in Entries : e = <<e[1], e[2]>> /\ e[1] \in Table /\ e[2] \in Ents(dirs, e[1])
         /\ \A d \in Table : \A i \in Ents(dirs, d) : <<d, i>> \in Entries
<1>1. DirsOK(dirs) /\ PathsOK(dirs) /\ Directories = Dirs(dirs) /\ Directories \in SUBSET Table
  BY DirectoriesAre DEF FatInv, Directories
<1>2. \A d \in Table : Visible(d) = Ents(dirs, d)
  BY <1>1, Seen DEF Visible
<1>3. \A d \in Table : Ents(dirs, d) \in SUBSET (1 .. RootSlots + DirSlots)
  BY DEF Ents, SlotsOf, FatOK
<1>4. ASSUME NEW e \in Entries
      PROVE  e = <<e[1], e[2]>> /\ e[1] \in Table /\ e[2] \in Ents(dirs, e[1])
  <2>1. e \in Directories \X (1 .. RootSlots + DirSlots) /\ e[2] \in Visible(e[1])
    BY DEF Entries
  <2> QED
    BY <1>1, <1>2, <2>1
<1>5. ASSUME NEW d \in Table, NEW i \in Ents(dirs, d)
      PROVE  <<d, i>> \in Entries
  <2>1. d \in Directories /\ i \in 1 .. RootSlots + DirSlots /\ i \in Visible(d)
    BY <1>1, <1>2, <1>3 DEF PathsOK
  <2> QED
    BY <2>1 DEF Entries
<1> QED
  BY <1>4, <1>5

\* A set with no two elements.
LEMMA AtMostOne ==
  ASSUME NEW S, \A x, y \in S : x = y
  PROVE  /\ S = {} => Cardinality(S) = 0
         /\ S # {} => Cardinality(S) = 1
<1>1. ASSUME S = {} PROVE Cardinality(S) = 0
  BY <1>1, FS_EmptySet
<1>2. ASSUME S # {} PROVE Cardinality(S) = 1
  <2>1. PICK x : x \in S
    BY <1>2
  <2>2. S = {x}
    BY <2>1
  <2> QED
    BY <2>2, FS_Singleton
<1> QED
  BY <1>1, <1>2

\* The clusters of entries are in use.
LEMMA ReachableAre ==
  ASSUME FatOK, FatInv
  PROVE  Reachable = Owned(fat, dirs) /\ Used = InUse(fat)
<1>1. \A d, i : At(<<d, i>>) = dirs[d][i]
  BY DEF At
<1>2. ASSUME NEW x \in Reachable PROVE x \in Owned(fat, dirs)
  <2>1. PICK e \in Entries : x \in Chain(fat, At(e).first)
    BY DEF Reachable
  <2>2. e[1] \in Table /\ e[2] \in Ents(dirs, e[1]) /\ At(e) = dirs[e[1]][e[2]]
    BY EntriesAre DEF At
  <2>3. x \in Clusters
    BY <2>1, ChainIn
  <2> QED
    BY <2>1, <2>2, <2>3 DEF Owned
<1>3. ASSUME NEW x \in Owned(fat, dirs) PROVE x \in Reachable
  <2>1. PICK d \in Table : \E i \in Ents(dirs, d) : x \in Chain(fat, dirs[d][i].first)
    BY DEF Owned
  <2>2. PICK i \in Ents(dirs, d) : x \in Chain(fat, dirs[d][i].first)
    BY <2>1
  <2>3. <<d, i>> \in Entries
    BY EntriesAre
  <2> QED
    BY <1>1, <2>2, <2>3 DEF Reachable
<1> QED
  BY <1>2, <1>3 DEF Used, InUse

\* No two entries or links share a cluster.
LEMMA NoCrossLinksHolds ==
  ASSUME FatOK, FatInv
  PROVE  NoCrossLinks
<1> SUFFICES ASSUME NEW c \in Clusters
             PROVE  /\ Cardinality({e \in Entries : At(e).first = c})
                         + Cardinality({b \in Table : fat[b] = c}) <= 1
                    /\ c \in Reachable => fat[c] \in Clusters \cup {Eoc}
  BY DEF NoCrossLinks
<1> DEFINE S == {e \in Entries : At(e).first = c}
           L == {b \in Table : fat[b] = c}
<1>1. ChainsOK(fat) /\ EntriesOK(fat, dirs) /\ FirstsApart(dirs)
  BY DEF FatInv
<1>2. \A x, y \in S : x = y
  BY <1>1, EntriesAre DEF FirstsApart, At
<1>3. \A x, y \in L : x = y
  BY <1>1 DEF ChainsOK
<1>4. S = {} \/ L = {}
  <2> SUFFICES ASSUME NEW e \in S PROVE L = {}
    OBVIOUS
  <2>1. Starts(fat, c)
    BY <1>1, EntriesAre DEF At, EntriesOK, EntryOK
  <2> QED
    BY <2>1 DEF Starts
<1>5. Cardinality(S) + Cardinality(L) <= 1
  <2> HIDE DEF S, L
  <2> QED
    BY <1>2, <1>3, <1>4, AtMostOne
<1>6. ASSUME c \in Reachable PROVE fat[c] \in Clusters \cup {Eoc}
  <2>1. PICK d \in Table : \E i \in Ents(dirs, d) : c \in Chain(fat, dirs[d][i].first)
    BY <1>6, ReachableAre DEF Owned
  <2>2. PICK i \in Ents(dirs, d) : c \in Chain(fat, dirs[d][i].first)
    BY <2>1
  <2>3. dirs[d][i].first \in Clusters => fat[dirs[d][i].first] # Free
    BY <1>1 DEF EntriesOK, EntryOK, Starts
  <2>4. fat[c] # Free
    BY <1>1, <2>2, <2>3, ChainUsed
  <2>5. fat[c] \in 0 .. Eoc /\ fat[c] # 1
    BY <1>1, Kinds DEF ChainsOK
  <2> QED
    BY <2>4, <2>5, Kinds
<1> QED
  BY <1>5, <1>6

\* What the invariant says of types.
LEMMA TypesHold ==
  ASSUME FatOK, FatInv
  PROVE  TypeOK
<1>1. fat \in [Table -> 0 .. Eoc] /\ cells \in [Table -> [0 .. Width - 1 -> Values \cup {0}]]
  BY DEF FatInv, ChainsOK, CellsOK
<1>2. \A d \in Table : \A i \in DOMAIN dirs[d] :
        /\ dirs[d][i].kind \in {"end", "deleted", "long", "entry"}
        /\ dirs[d][i].first \in Table
  BY DEF FatInv, DirsOK, SlotSet
<1>3. ASSUME NEW fd \in Open
      PROVE  FileOf(fd).node \in Fds /\ FileOf(fd).pos <= nodes[FileOf(fd).node].size
  <2>1. fd \in Fds /\ FileOf(fd) \in files[fd] /\ files \in [Fds -> SUBSET FileSet]
    BY DEF Open, FileOf, FatInv, FilesOK
  <2>2. FileOf(fd) \in FileSet
    BY <2>1
  <2> QED
    BY <2>1, <2>2 DEF FatInv, FilesOK, FileSet
<1>4. lost \subseteq Clusters
  BY DEF FatInv, LostOK
<1> QED
  BY <1>1, <1>2, <1>3, <1>4 DEF TypeOK

(* Every entry of the table, every cell and every slot of a directory holds a
   value that it can, and no descriptor stands behind the end of its file
   (fat_vfs_read, fat_vfs_write, create_entry).                              *)
THEOREM FatTyped ==
  ASSUME FatOK, Sharing = FALSE, Foreign = {}
  PROVE  Spec => []TypeOK
<1>1. FatInv => TypeOK
  BY TypesHold
<1> QED
  BY <1>1, FatInvariant, PTL

(* No sequence of opens, writes, removals, directory operations and failures
   for want of space links two files into each other, or a file into a free
   cluster (fat_find_free_cluster, fat_vfs_write, fat_vfs_unlink).           *)
THEOREM LinksUncrossed ==
  ASSUME FatOK, Sharing = FALSE, Foreign = {}
  PROVE  Spec => []NoCrossLinks
<1>1. FatInv => NoCrossLinks
  BY NoCrossLinksHolds
<1> QED
  BY <1>1, FatInvariant, PTL

(* The chain of every file has exactly the clusters its size calls for, after
   writes that ran out of space as well (fat_vfs_write, fat_create_file).    *)
THEOREM SizesFit ==
  ASSUME FatOK, Sharing = FALSE, Foreign = {}
  PROVE  Spec => []SizeFitsChain
<1>1. FatInv => SizeFitsChain
  BY EntriesAre DEF FatInv, SizeFitsChain, EntriesOK, EntryOK, At, Chunks
<1> QED
  BY <1>1, FatInvariant, PTL

(* A cluster in use belongs to an entry, or was left behind by one of the two
   calls that do so when they fail (fat_vfs_mkdir, fat_create_file).         *)
THEOREM NothingLeaks ==
  ASSUME FatOK, Sharing = FALSE, Foreign = {}
  PROVE  Spec => []LostOnlyByFailure
<1>1. FatInv => LostOnlyByFailure
  BY ReachableAre DEF FatInv, LostOnlyByFailure, LostOK
<1> QED
  BY <1>1, FatInvariant, PTL

(* Once the kernel has no file of its own to store, a directory never has two
   entries of one name (fat_vfs_create, vfs_mkdir).                          *)
THEOREM NamesStayUnique ==
  ASSUME FatOK, Sharing = FALSE, Foreign = {}, KernelApi = FALSE
  PROVE  Spec => []NamesUnique
<1>1. FatInv => NamesUnique
  BY EntriesAre DEF FatInv, NamesUnique, NamesApart, At
<1> QED
  BY <1>1, FatInvariant, PTL

(* A read through an open vnode, which holds a copy of its entry's first cluster
   and size, returns what the entry's chain holds at that position: the copy is
   never stale, and the chain never ends before the size (fat_vfs_read).     *)
THEOREM ReadsAreTrue ==
  ASSUME FatOK, Sharing = FALSE, Foreign = {}
  PROVE  Spec => []ReadsBack
<1>1. FatInv => ReadsBack
  BY ReadsBackHolds
<1> QED
  BY <1>1, FatInvariant, PTL

-----------------------------------------------------------------------------
(* The paths of directories, when no name is cut short. *)

\* What else there is to say of the entries when no name is cut short: each is
\* stored under its own name, and those of directories have no size.
Plain(D) ==
  \A d \in Table : \A i \in Ents(D, d) :
    /\ D[d][i].name \in Names /\ D[d][i].as = D[d][i].name
    /\ D[d][i].dir => D[d][i].first \in Clusters /\ D[d][i].size = 0
TreeOK(D) == DirsOK(D) /\ FirstsApart(D) /\ NamesApart(D) /\ Plain(D)

\* The paths of directories with their clusters: the root's, and those of the
\* directories in a directory that has a path.
Root == <<<<>>, 0>>
Pairs == Seq(Names) \X Table
Below(D, x, i) == <<Append(x[1], D[x[2]][i].name), D[x[2]][i].first>>
IsBelow(D, x, y) == \E i \in Ents(D, x[2]) : D[x[2]][i].dir /\ y = Below(D, x, i)
IsPaths(D, R) ==
  /\ R \subseteq Pairs /\ Root \in R
  /\ \A x \in R : \A y : IsBelow(D, x, y) => y \in R
  /\ \A y \in R : y # Root => \E x \in R : IsBelow(D, x, y)

\* A pair one name longer.
LEMMA BelowIs ==
  ASSUME FatOK, NEW D, TreeOK(D), NEW x \in Pairs, NEW y, IsBelow(D, x, y)
  PROVE  /\ y \in Pairs /\ y[2] \in Clusters /\ y # Root /\ y[2] # 0
         /\ x[1] \in Seq(Names) /\ x[2] \in Table
         /\ Len(x[1]) \in Nat /\ Len(y[1]) = Len(x[1]) + 1
<1>1. PICK i \in Ents(D, x[2]) : D[x[2]][i].dir /\ y = Below(D, x, i)
  BY DEF IsBelow
<1>2. x[1] \in Seq(Names) /\ x[2] \in Table
  BY DEF Pairs
<1>3. D[x[2]][i].name \in Names /\ D[x[2]][i].first \in Clusters
  BY <1>1, <1>2 DEF TreeOK, Plain
<1> DEFINE n == D[x[2]][i].name
           p == Append(x[1], n)
           c == D[x[2]][i].first
<1>4. p \in Seq(Names) /\ Len(p) = Len(x[1]) + 1 /\ Len(x[1]) \in Nat
  BY <1>2, <1>3, AppendProperties, LenProperties
<1>5. c \in Table /\ c # 0
  BY <1>3, Kinds DEF Clusters
<1>6. y[1] = p /\ y[2] = c /\ y = <<p, c>>
  BY <1>1 DEF Below
<1> HIDE DEF p, c
<1>7. y # Root
  BY <1>5, <1>6 DEF Root
<1> QED
  BY <1>2, <1>3, <1>4, <1>5, <1>6, <1>7 DEF Pairs, c

\* Pairs are pairs.
LEMMA PairIs ==
  /\ \A x \in Pairs : x = <<x[1], x[2]>> /\ x[1] \in Seq(Names) /\ x[2] \in Table /\ Len(x[1]) \in Nat
  /\ Root[1] = <<>> /\ Root[2] = 0 /\ Len(Root[1]) = 0
BY LenProperties DEF Pairs, Root

\* There is one such set.
LEMMA PathsIncluded ==
  ASSUME FatOK, NEW D, TreeOK(D), NEW R, NEW S, IsPaths(D, R), IsPaths(D, S)
  PROVE  R \subseteq S
<1> DEFINE K == {k \in Nat : \A x \in R : Len(x[1]) <= k => x \in S}
<1>1. R \subseteq Pairs /\ S \subseteq Pairs /\ Root \in S
  BY DEF IsPaths
<1>2. ASSUME NEW k \in Nat, NEW y \in R, Len(y[1]) <= k,
             \A x \in R : Len(x[1]) + 1 <= k => x \in S
      PROVE  y \in S
  <2>1. CASE y = Root
    BY <1>1, <2>1
  <2>2. CASE y # Root
    <3>1. PICK x \in R : IsBelow(D, x, y)
      BY <2>2 DEF IsPaths
    <3>2. Len(x[1]) + 1 = Len(y[1])
      BY <1>1, <3>1, BelowIs
    <3>3. x \in S
      BY <1>2, <3>2
    <3> QED
      BY <3>1, <3>3 DEF IsPaths
  <2> QED
    BY <2>1, <2>2
<1>3. 0 \in K
  <2>1. \A x \in R : ~(Len(x[1]) + 1 <= 0)
    BY <1>1, PairIs
  <2> QED
    BY <1>2, <2>1
<1>4. ASSUME NEW k \in K PROVE k + 1 \in K
  <2>1. k + 1 \in Nat /\ \A x \in R : Len(x[1]) + 1 <= k + 1 => x \in S
    BY <1>1, PairIs
  <2> QED
    BY <1>2, <2>1
<1>5. K \in SUBSET Nat
  OBVIOUS
<1> HIDE DEF K
<1>6. K = Nat
  BY <1>3, <1>4, <1>5, Induct
<1> QED
  BY <1>1, <1>6, PairIs DEF K

\* They are the only one.
LEMMA OnePaths ==
  ASSUME FatOK, NEW D, TreeOK(D), NEW R, NEW S, IsPaths(D, R), IsPaths(D, S)
  PROVE  R = S
BY PathsIncluded

\* No two directories have one path, and none has two.
LEMMA PathsDiffer ==
  ASSUME FatOK, NEW D, TreeOK(D), NEW R, IsPaths(D, R)
  PROVE  /\ \A x, y \in R : x[1] = y[1] => x = y
         /\ \A x, y \in R : x[2] = y[2] => x = y
<1> DEFINE Alone(x) == \A y \in R : x[1] = y[1] \/ x[2] = y[2] => x = y
           K == {k \in Nat : \A x \in R : Len(x[1]) <= k => Alone(x)}
<1>1. R \subseteq Pairs /\ Root \in R
  BY DEF IsPaths
<1>2. ASSUME NEW k \in Nat, NEW x \in R, Len(x[1]) <= k,
             \A z \in R : Len(z[1]) + 1 <= k => Alone(z)
      PROVE  Alone(x)
  <2> SUFFICES ASSUME NEW y \in R, x[1] = y[1] \/ x[2] = y[2] PROVE x = y
    OBVIOUS
  <2>0. /\ x \in Pairs /\ y \in Pairs
        /\ x # Root => x[2] # 0 /\ Len(x[1]) # 0
        /\ y # Root => y[2] # 0 /\ Len(y[1]) # 0
    <3>1. ASSUME NEW z \in R, z # Root PROVE z[2] # 0 /\ Len(z[1]) # 0
      <4>1. PICK u \in R : IsBelow(D, u, z)
        BY <3>1 DEF IsPaths
      <4>2. Len(u[1]) \in Nat /\ Len(z[1]) = Len(u[1]) + 1 /\ z[2] # 0
        BY <1>1, <4>1, BelowIs
      <4> QED
        BY <4>2
    <3> QED
      BY <1>1, <3>1
  <2>1. CASE x = Root
    BY <2>0, <2>1, PairIs
  <2>2. CASE x # Root
    <3>1. y # Root
      BY <2>0, <2>2, PairIs
    <3>2. PICK u \in R : IsBelow(D, u, x)
      BY <2>2 DEF IsPaths
    <3>3. PICK v \in R : IsBelow(D, v, y)
      BY <3>1 DEF IsPaths
    <3>4. u \in Pairs /\ v \in Pairs
      BY <1>1
    <3>5. /\ Len(u[1]) + 1 = Len(x[1]) /\ u[2] \in Table /\ v[2] \in Table
          /\ u[1] \in Seq(Names) /\ v[1] \in Seq(Names) /\ x[2] \in Clusters
      BY <3>2, <3>3, <3>4, BelowIs
    <3>6. Alone(u)
      BY <1>2, <3>5
    <3>7. PICK i \in Ents(D, u[2]) : D[u[2]][i].dir /\ x = Below(D, u, i)
      BY <3>2 DEF IsBelow
    <3>8. PICK j \in Ents(D, v[2]) : D[v[2]][j].dir /\ y = Below(D, v, j)
      BY <3>3 DEF IsBelow
    <3> DEFINE n == D[u[2]][i].name
               m == D[v[2]][j].name
    <3>9. /\ x[1] = Append(u[1], n) /\ x[2] = D[u[2]][i].first
          /\ y[1] = Append(v[1], m) /\ y[2] = D[v[2]][j].first
      BY <3>7, <3>8 DEF Below
    <3>10. n \in Names /\ m \in Names
      BY <3>5, <3>7, <3>8 DEF TreeOK, Plain
    <3>11. CASE x[1] = y[1]
      <4> HIDE DEF n, m
      <4>1. u[1] = v[1] /\ n = m
        <5> DEFINE a == u[1]
                   b == v[1]
        <5>1. a \in Seq(Names) /\ b \in Seq(Names) /\ Append(a, n) = Append(b, m)
          BY <3>5, <3>9, <3>11
        <5> HIDE DEF a, b
        <5>2. a = b /\ n = m
          BY <3>10, <5>1
        <5> QED
          BY <5>2 DEF a, b
      <4>2. u = v
        BY <3>6, <4>1
      <4>3. i = j
        BY <3>5, <3>7, <3>8, <4>1, <4>2 DEF n, m, TreeOK, NamesApart
      <4> QED
        BY <3>7, <3>8, <4>2, <4>3
    <3>12. CASE x[2] = y[2]
      <4>0. /\ D[u[2]][i].first = D[v[2]][j].first /\ D[u[2]][i].first \in Clusters
            /\ u[2] \in Table /\ v[2] \in Table
        BY <3>5, <3>9, <3>12
      <4>1. u[2] = v[2] /\ i = j
        BY <4>0 DEF TreeOK, FirstsApart
      <4>2. u = v
        BY <3>6, <4>1
      <4> QED
        BY <3>7, <3>8, <4>1, <4>2
    <3> QED
      BY <3>11, <3>12
  <2> QED
    BY <2>1, <2>2
<1> HIDE DEF Alone
<1>3. 0 \in K
  <2>1. \A x \in R : ~(Len(x[1]) + 1 <= 0)
    BY <1>1, PairIs
  <2> QED
    BY <1>2, <2>1
<1>4. ASSUME NEW k \in K PROVE k + 1 \in K
  <2>1. k + 1 \in Nat /\ \A x \in R : Len(x[1]) + 1 <= k + 1 => Alone(x)
    BY <1>1, PairIs
  <2> QED
    BY <1>2, <2>1
<1>5. K \in SUBSET Nat
  OBVIOUS
<1> HIDE DEF K
<1>6. K = Nat
  BY <1>3, <1>4, <1>5, Induct
<1>7. \A x \in R : Alone(x)
  BY <1>1, <1>6, PairIs DEF K
<1> QED
  BY <1>7 DEF Alone

\* Every directory that entries lead to has a path.
LEMMA PathsReach ==
  ASSUME FatOK, NEW D, TreeOK(D), NEW R, IsPaths(D, R), NEW d \in Dirs(D)
  PROVE  \E x \in R : x[2] = d
<1> DEFINE S == {x[2] : x \in R}
<1>1. R \subseteq Pairs /\ S \in SUBSET Table
  BY PairIs DEF IsPaths
<1>2. 0 \in S
  BY PairIs DEF IsPaths
<1>3. ASSUME NEW b \in S, NEW i \in Ents(D, b), D[b][i].dir PROVE D[b][i].first \in S
  <2>1. PICK x \in R : x[2] = b
    OBVIOUS
  <2>2. IsBelow(D, x, Below(D, x, i))
    BY <1>3, <2>1 DEF IsBelow
  <2>3. Below(D, x, i) \in R /\ Below(D, x, i)[2] = D[b][i].first
    BY <2>1, <2>2 DEF IsPaths, Below
  <2> QED
    BY <2>3
<1> HIDE DEF S
<1>4. Paths(D, S)
  BY <1>2, <1>3 DEF Paths
<1>5. d \in S
  BY <1>1, <1>4 DEF Dirs
<1> QED
  BY <1>5 DEF S

\* One level more, and the levels one after the other.
More(D, S) == S \cup {y \in Pairs : \E x \in S : IsBelow(D, x, y)}
LevelsOf(D) == Orbit([S \in SUBSET Pairs |-> More(D, S)], {Root})

\* What the levels are.
LEMMA LevelsAre ==
  ASSUME FatOK, NEW D
  PROVE  /\ LevelsOf(D)[0] = {Root}
         /\ \A k \in Nat : /\ LevelsOf(D)[k] \subseteq Pairs
                           /\ LevelsOf(D)[k + 1] = More(D, LevelsOf(D)[k])
<1> DEFINE F == [S \in SUBSET Pairs |-> More(D, S)]
           h == LevelsOf(D)
<1>1. h[0] = {Root} /\ \A i \in Nat : h[i + 1] = F[h[i]]
  <2>1. h = Orbit(F, {Root})
    BY DEF LevelsOf
  <2> HIDE DEF F, h
  <2> QED
    BY ONLY <2>1, Orbits
<1>2. \A S \in SUBSET Pairs : F[S] = More(D, S) /\ More(D, S) \in SUBSET Pairs
  BY DEF More
<1> HIDE DEF F, h
<1> DEFINE K == {k \in Nat : h[k] \in SUBSET Pairs}
<1>3. 0 \in K
  <2>1. Root \in Pairs
    BY Kinds, EmptySeq DEF Root, Pairs
  <2> QED
    BY <1>1, <2>1
<1>4. ASSUME NEW k \in K PROVE k + 1 \in K
  BY <1>1, <1>2
<1>5. K \in SUBSET Nat
  OBVIOUS
<1> HIDE DEF K
<1>6. K = Nat
  BY <1>3, <1>4, <1>5, Induct
<1>7. \A k \in Nat : h[k] \in SUBSET Pairs
  BY <1>6 DEF K
<1>8. \A k \in Nat : h[k + 1] = More(D, h[k])
  BY <1>1, <1>2, <1>7
<1> QED
  BY <1>1, <1>7, <1>8 DEF h

\* What is in a level: nothing that is not below something in the one before,
\* and no path longer than the level's number.
LEMMA LevelHolds ==
  ASSUME FatOK, NEW D, TreeOK(D)
  PROVE  \A k \in Nat :
           /\ Root \in LevelsOf(D)[k]
           /\ \A y \in LevelsOf(D)[k] : Len(y[1]) <= k
           /\ \A y \in LevelsOf(D)[k] : y # Root => \E x \in LevelsOf(D)[k] : IsBelow(D, x, y)
           /\ \A y \in LevelsOf(D)[k + 1] : y # Root => \E x \in LevelsOf(D)[k] : IsBelow(D, x, y)
<1> DEFINE h == LevelsOf(D)
           Fine(k) == /\ Root \in h[k]
                      /\ \A y \in h[k] : Len(y[1]) <= k
                      /\ \A y \in h[k] : y # Root => \E x \in h[k] : IsBelow(D, x, y)
           K == {k \in Nat : Fine(k)}
<1>1. h[0] = {Root} /\ \A k \in Nat : h[k] \subseteq Pairs /\ h[k + 1] = More(D, h[k])
  BY LevelsAre
<1> HIDE DEF h
<1>2. 0 \in K
  BY <1>1, PairIs
<1>3. ASSUME NEW k \in Nat, Fine(k), NEW y \in h[k + 1]
      PROVE  /\ Len(y[1]) <= k + 1
             /\ y # Root => \E x \in h[k] : IsBelow(D, x, y)
  <2>1. CASE y \in h[k]
    <3>1. Len(y[1]) \in Nat
      BY <1>1, <1>3, PairIs
    <3> QED
      BY <1>3, <2>1, <3>1
  <2>2. CASE y \notin h[k]
    <3>1. PICK x \in h[k] : IsBelow(D, x, y)
      BY <1>1, <1>3, <2>2 DEF More
    <3>2. Len(x[1]) \in Nat /\ Len(y[1]) = Len(x[1]) + 1 /\ Len(x[1]) <= k
      BY <1>1, <1>3, <3>1, BelowIs
    <3> QED
      BY <3>1, <3>2
  <2> QED
    BY <2>1, <2>2
<1>4. ASSUME NEW k \in K PROVE k + 1 \in K
  <2>1. k + 1 \in Nat /\ h[k] \subseteq h[k + 1] /\ Fine(k)
    BY <1>1 DEF More
  <2> QED
    BY <1>3, <2>1
<1>5. K \in SUBSET Nat
  OBVIOUS
<1> HIDE DEF K
<1>6. K = Nat
  BY <1>2, <1>4, <1>5, Induct
<1>7. \A k \in Nat : Fine(k)
  BY <1>6 DEF K
<1> QED
  BY <1>3, <1>7 DEF h

\* No directory is in a level twice.
LEMMA LevelApart ==
  ASSUME FatOK, NEW D, TreeOK(D)
  PROVE  \A k \in Nat : \A x, y \in LevelsOf(D)[k] : x[2] = y[2] => x = y
<1> DEFINE h == LevelsOf(D)
           Apart(k) == \A x, y \in h[k] : x[2] = y[2] => x = y
           K == {k \in Nat : Apart(k)}
<1>1. h[0] = {Root} /\ \A k \in Nat : h[k] \subseteq Pairs /\ h[k + 1] = More(D, h[k])
  BY LevelsAre
<1>2. \A k \in Nat : \A y \in h[k + 1] : y # Root => \E x \in h[k] : IsBelow(D, x, y)
  BY LevelHolds
<1> HIDE DEF h
<1>3. 0 \in K
  BY <1>1
<1>4. ASSUME NEW k \in Nat, Apart(k), NEW x \in h[k + 1], NEW y \in h[k + 1], x[2] = y[2]
      PROVE  x = y
  <2>1. ASSUME NEW z \in h[k + 1], z # Root PROVE z[2] # 0
    BY <1>1, <1>2, <2>1, BelowIs
  <2>2. CASE x = Root \/ y = Root
    BY <1>4, <2>1, <2>2, PairIs
  <2>3. CASE x # Root /\ y # Root
    <3>1. PICK u \in h[k] : IsBelow(D, u, x)
      BY <1>2, <2>3
    <3>2. PICK v \in h[k] : IsBelow(D, v, y)
      BY <1>2, <2>3
    <3>3. u[2] \in Table /\ v[2] \in Table /\ x[2] \in Clusters
      BY <1>1, <3>1, <3>2, BelowIs
    <3>4. PICK i \in Ents(D, u[2]) : D[u[2]][i].dir /\ x = Below(D, u, i)
      BY <3>1 DEF IsBelow
    <3>5. PICK j \in Ents(D, v[2]) : D[v[2]][j].dir /\ y = Below(D, v, j)
      BY <3>2 DEF IsBelow
    <3>6. D[u[2]][i].first = D[v[2]][j].first /\ D[u[2]][i].first \in Clusters
      BY <1>4, <3>3, <3>4, <3>5 DEF Below
    <3>7. u[2] = v[2] /\ i = j
      BY <3>3, <3>6 DEF TreeOK, FirstsApart
    <3>8. u = v
      BY <1>4, <3>7
    <3> QED
      BY <3>4, <3>5, <3>7, <3>8
  <2> QED
    BY <2>2, <2>3
<1>5. ASSUME NEW k \in K PROVE k + 1 \in K
  BY <1>4
<1>6. K \in SUBSET Nat
  OBVIOUS
<1> HIDE DEF K
<1>7. K = Nat
  BY <1>3, <1>5, <1>6, Induct
<1> QED
  BY <1>7 DEF K, h

\* A level that adds nothing comes before as many levels as there are clusters.
LEMMA LevelsEnd ==
  ASSUME FatOK, NEW D, TreeOK(D)
  PROVE  \E j \in Nat : j < Last /\ LevelsOf(D)[j + 1] = LevelsOf(D)[j]
<1> DEFINE h == LevelsOf(D)
           C(k) == {x[2] : x \in h[k]}
           All == {0} \cup Clusters
           Ends(k) == \E j \in Nat : j < k /\ h[j + 1] = h[j]
           K == {k \in Nat : Ends(k) \/ k + 1 <= Cardinality(C(k))}
<1>1. h[0] = {Root} /\ \A k \in Nat : h[k] \subseteq Pairs /\ h[k + 1] = More(D, h[k])
  BY LevelsAre
<1>2. \A k \in Nat : \A y \in h[k] : y # Root => \E x \in h[k] : IsBelow(D, x, y)
  BY LevelHolds
<1>3. \A k \in Nat : \A x, y \in h[k] : x[2] = y[2] => x = y
  BY LevelApart
<1> HIDE DEF h
<1>4. Last \in Nat /\ 1 <= Last
  BY DEF FatOK
<1>5. IsFiniteSet(All) /\ Cardinality(All) = Last
  <2>1. IsFiniteSet(Clusters) /\ Cardinality(Clusters) = Last - 1
    <3>1. CASE Last = 1
      <4>1. Clusters = {}
        BY <3>1 DEF Clusters
      <4> QED
        BY <3>1, <4>1, FS_EmptySet
    <3>2. CASE Last # 1
      <4>1. 2 <= Last /\ 2 \in Int /\ Last \in Int
        BY <1>4, <3>2
      <4>2. IsFiniteSet(2 .. Last) /\ Cardinality(2 .. Last) = Last - 2 + 1
        BY <4>1, FS_Interval
      <4> QED
        BY <1>4, <4>2 DEF Clusters
    <3> QED
      BY <3>1, <3>2
  <2>2. 0 \notin Clusters
    BY DEF Clusters
  <2>3. All = Clusters \cup {0}
    OBVIOUS
  <2>4. IsFiniteSet(Clusters \cup {0}) /\ Cardinality(Clusters \cup {0}) = Cardinality(Clusters) + 1
    BY <2>1, <2>2, FS_AddElement
  <2> QED
    BY <1>4, <2>1, <2>3, <2>4
<1>6. ASSUME NEW k \in Nat
      PROVE  IsFiniteSet(C(k)) /\ Cardinality(C(k)) \in Nat /\ Cardinality(C(k)) <= Last
  <2>1. C(k) \subseteq All
    <3> SUFFICES ASSUME NEW y \in h[k] PROVE y[2] \in All
      OBVIOUS
    <3>1. CASE y = Root
      BY <3>1, PairIs
    <3>2. CASE y # Root
      BY <1>1, <1>2, <3>2, BelowIs
    <3> QED
      BY <3>1, <3>2
  <2> HIDE DEF C, All
  <2> QED
    BY <1>5, <2>1, FS_Subset, FS_CardinalityType
<1>7. 0 \in K
  <2>1. C(0) = {0}
    BY <1>1, PairIs
  <2>2. Cardinality({0}) = 1
    BY FS_Singleton
  <2> HIDE DEF C
  <2> QED
    BY <2>1, <2>2
<1>8. ASSUME NEW k \in K PROVE k + 1 \in K
  <2>1. CASE Ends(k)
    BY <2>1
  <2>2. CASE h[k + 1] = h[k]
    BY <2>2
  <2>3. CASE ~Ends(k) /\ h[k + 1] # h[k]
    <3>1. k \in Nat /\ k + 1 \in Nat /\ k + 1 <= Cardinality(C(k))
      BY <2>3
    <3>2. h[k] \subseteq h[k + 1]
      BY <1>1, <3>1 DEF More
    <3>3. PICK x \in h[k + 1] : x \notin h[k]
      BY <2>3, <3>2
    <3>4. x[2] \notin C(k) /\ x[2] \in C(k + 1) /\ C(k) \subseteq C(k + 1)
      BY <1>3, <3>1, <3>2, <3>3
    <3> HIDE DEF C
    <3>5. IsFiniteSet(C(k)) /\ Cardinality(C(k)) \in Nat
          /\ IsFiniteSet(C(k + 1)) /\ Cardinality(C(k + 1)) \in Nat
      BY <1>6, <3>1
    <3> DEFINE A == C(k) \cup {x[2]}
    <3>6. Cardinality(A) = Cardinality(C(k)) + 1 /\ A \subseteq C(k + 1)
      BY <3>4, <3>5, FS_AddElement
    <3> HIDE DEF A
    <3>7. Cardinality(A) <= Cardinality(C(k + 1))
      BY <3>5, <3>6, FS_Subset
    <3>8. (k + 1) + 1 <= Cardinality(C(k + 1))
      BY <3>1, <3>5, <3>6, <3>7
    <3> QED
      BY <3>1, <3>8
  <2> QED
    BY <2>1, <2>2, <2>3
<1>9. K \in SUBSET Nat
  OBVIOUS
<1> HIDE DEF K
<1>10. K = Nat
  BY <1>7, <1>8, <1>9, Induct
<1> HIDE DEF C
<1>11. Ends(Last) \/ Last + 1 <= Cardinality(C(Last))
  BY <1>4, <1>10 DEF K
<1>12. Ends(Last)
  BY <1>4, <1>6, <1>11
<1> QED
  BY <1>12 DEF h

\* From a level that adds nothing on, all are alike.
LEMMA LevelsStay ==
  ASSUME FatOK, NEW D, NEW j \in Nat, LevelsOf(D)[j + 1] = LevelsOf(D)[j]
  PROVE  \A k \in Nat : j <= k => LevelsOf(D)[k] = LevelsOf(D)[j]
<1> DEFINE h == LevelsOf(D)
           K == {k \in Nat : j <= k => h[k] = h[j]}
<1>1. \A k \in Nat : h[k + 1] = More(D, h[k])
  BY LevelsAre
<1>2. h[j + 1] = h[j]
  OBVIOUS
<1> HIDE DEF h
<1>3. 0 \in K
  OBVIOUS
<1>4. ASSUME NEW k \in K PROVE k + 1 \in K
  <2>1. CASE j <= k
    <3>1. h[k] = h[j] /\ k \in Nat
      BY <2>1
    <3>2. h[k + 1] = h[j + 1]
      BY <1>1, <3>1
    <3> QED
      BY <1>2, <3>2
  <2>2. CASE ~(j <= k)
    <3>1. j <= k + 1 => j = k + 1
      BY <2>2
    <3> QED
      BY <3>1
  <2> QED
    BY <2>1, <2>2
<1>5. K \in SUBSET Nat
  OBVIOUS
<1> HIDE DEF K
<1>6. K = Nat
  BY <1>3, <1>4, <1>5, Induct
<1> QED
  BY <1>6 DEF K, h

\* PathsOf, of any directories.
VisibleIn(D, d) ==
  {i \in DOMAIN D[d] : /\ D[d][i].kind = "entry"
                       /\ \A k \in 1 .. i : D[d][k].kind # "end"}
SubOf(D, x) == {<<Append(x[1], D[x[2]][i].as), D[x[2]][i].first>> :
                  i \in {k \in VisibleIn(D, x[2]) : D[x[2]][k].dir}}
WithSubs(D, S) == S \cup UNION {SubOf(D, x) : x \in S}
IsLevel(D, g) ==
  g = [k \in 0 .. Last |-> IF k = 0 THEN {Root} ELSE WithSubs(D, g[k - 1])]
PathsIn(D) == (CHOOSE g : IsLevel(D, g))[Last]

\* That is PathsOf, in this state and the next.
LEMMA PathsMirrored == PathsOf = PathsIn(dirs) /\ PathsOf' = PathsIn(dirs')
BY DEF PathsOf, PathsIn, IsLevel, WithSubs, Root, SubOf, VisibleIn, Visible

\* One level more, in the words of PathsOf.
LEMMA LevelMore ==
  ASSUME FatOK, NEW D, TreeOK(D), NEW S, S \subseteq Pairs
  PROVE  WithSubs(D, S) = More(D, S)
<1>1. ASSUME NEW x \in S, NEW y PROVE y \in SubOf(D, x) <=> IsBelow(D, x, y)
  <2>1. x[2] \in Table
    BY PairIs
  <2>2. VisibleIn(D, x[2]) = Ents(D, x[2])
    BY <2>1, Seen DEF TreeOK, VisibleIn
  <2>3. \A i \in Ents(D, x[2]) : D[x[2]][i].as = D[x[2]][i].name
    BY <2>1 DEF TreeOK, Plain
  <2> QED
    BY <2>2, <2>3 DEF SubOf, IsBelow, Below
<1>2. \A x \in S : \A y : IsBelow(D, x, y) => y \in Pairs
  BY BelowIs
<1> QED
  BY <1>1, <1>2 DEF More, WithSubs

\* What PathsOf is, and how long its paths are.
LEMMA PathsFound ==
  ASSUME FatOK, NEW D, TreeOK(D)
  PROVE  IsPaths(D, PathsIn(D)) /\ \A x \in PathsIn(D) : Len(x[1]) < Last
<1> DEFINE h == LevelsOf(D)
           r == [k \in 0 .. Last |-> h[k]]
<1>1. h[0] = {Root} /\ \A k \in Nat : h[k] \subseteq Pairs /\ h[k + 1] = More(D, h[k])
  BY LevelsAre
<1>2. \A k \in Nat : /\ Root \in h[k] /\ \A y \in h[k] : Len(y[1]) <= k
                     /\ \A y \in h[k] : y # Root => \E x \in h[k] : IsBelow(D, x, y)
  BY LevelHolds
<1>3. PICK j \in Nat : j < Last /\ h[j + 1] = h[j]
  BY LevelsEnd
<1>4. Last \in Nat /\ j <= Last /\ j <= Last + 1
  BY <1>3 DEF FatOK
<1>5. h[Last] = h[j] /\ h[Last + 1] = h[j]
  BY <1>3, <1>4, LevelsStay
<1> HIDE DEF h
<1>6. IsLevel(D, r)
  <2>1. ASSUME NEW k \in 0 .. Last
        PROVE  r[k] = IF k = 0 THEN {Root} ELSE WithSubs(D, r[k - 1])
    <3>1. CASE k = 0
      BY <1>1, <1>4, <3>1
    <3>2. CASE k # 0
      <4>1. k - 1 \in 0 .. Last /\ k - 1 \in Nat /\ (k - 1) + 1 = k
        BY <1>4, <3>2
      <4>2. r[k] = h[k] /\ r[k - 1] = h[k - 1]
        BY <4>1
      <4>3. h[k] = More(D, h[k - 1]) /\ h[k - 1] \subseteq Pairs
        BY <1>1, <4>1
      <4> HIDE DEF r
      <4> QED
        BY <3>2, <4>2, <4>3, LevelMore
    <3> QED
      BY <3>1, <3>2
  <2>2. r = [k \in 0 .. Last |-> r[k]]
    OBVIOUS
  <2> HIDE DEF r
  <2> QED
    BY <2>1, <2>2 DEF IsLevel
<1> DEFINE g == CHOOSE f : IsLevel(D, f)
<1>7. IsLevel(D, g)
  BY <1>6
<1> HIDE DEF g, r
<1>8. g[0] = {Root} /\ \A k \in Nat : k < Last => g[k + 1] = WithSubs(D, g[k])
  <2>1. \A k \in 0 .. Last :
          g[k] = IF k = 0 THEN {Root} ELSE WithSubs(D, g[k - 1])
    BY <1>7 DEF IsLevel
  <2>2. g[0] = {Root}
    BY <1>4, <2>1
  <2>3. ASSUME NEW k \in Nat, k < Last
        PROVE  g[k + 1] = WithSubs(D, g[k])
    <3>1. k + 1 \in 0 .. Last /\ k + 1 # 0 /\ (k + 1) - 1 = k
      BY <1>4, <2>3
    <3> QED
      BY <2>1, <3>1
  <2> QED
    BY <2>2, <2>3
<1> DEFINE K == {k \in Nat : k <= Last => g[k] = h[k]}
<1>9. 0 \in K
  BY <1>1, <1>8
<1>10. ASSUME NEW k \in K PROVE k + 1 \in K
  <2> SUFFICES ASSUME k + 1 <= Last PROVE g[k + 1] = h[k + 1]
    OBVIOUS
  <2>1. k \in Nat /\ k < Last /\ k <= Last
    BY <1>4
  <2>2. g[k] = h[k] /\ h[k] \subseteq Pairs
    BY <1>1, <2>1
  <2>3. g[k + 1] = More(D, h[k])
    BY <1>8, <2>1, <2>2, LevelMore
  <2> QED
    BY <1>1, <2>1, <2>3
<1>11. K \in SUBSET Nat
  OBVIOUS
<1> HIDE DEF K
<1>12. K = Nat
  BY <1>9, <1>10, <1>11, Induct
<1>13. PathsIn(D) = h[Last]
  BY <1>4, <1>12 DEF K, g, PathsIn
<1> DEFINE R == h[Last]
<1>14. R \subseteq Pairs /\ Root \in R /\ R = More(D, R)
  BY <1>1, <1>2, <1>4, <1>5
<1>15. \A y \in R : y # Root => \E x \in R : IsBelow(D, x, y)
  BY <1>2, <1>4
<1>16. \A x \in R : Len(x[1]) < Last
  <2>1. \A x \in R : Len(x[1]) \in Nat /\ Len(x[1]) <= j
    BY <1>2, <1>5, <1>14, PairIs
  <2> QED
    BY <1>3, <1>4, <2>1
<1> HIDE DEF R
<1>17. ASSUME NEW x \in R, NEW y, IsBelow(D, x, y) PROVE y \in R
  <2>1. y \in Pairs
    BY <1>14, <1>17, BelowIs
  <2>2. y \in More(D, R)
    BY <1>17, <2>1 DEF More
  <2> QED
    BY <1>14, <2>2
<1>18. IsPaths(D, R)
  BY <1>14, <1>15, <1>17 DEF IsPaths
<1> QED
  BY <1>13, <1>16, <1>18 DEF R

\* What files hold, of any table, cells and directories.
NthIn(f, first, k) == (CHOOSE g : Repeats(f, first, k, g))[k]
DataIn(f, C, e) ==
  [j \in 1 .. e.size |-> C[NthIn(f, e.first, (j - 1) \div Width)][(j - 1) % Width]]
Item(f, C, e) == [dir |-> e.dir, data |-> DataIn(f, C, e)]

\* StoredTree and OpenHandles, of any disk, vnodes and descriptors.
FoundIn(D) ==
  UNION {{<<Append(x[1], D[x[2]][i].as), D[x[2]][i]>> : i \in VisibleIn(D, x[2])} : x \in PathsIn(D)}
TreeIn(f, C, D) ==
  [p \in {x[1] : x \in FoundIn(D)} |-> Item(f, C, (CHOOSE x \in FoundIn(D) : x[1] = p)[2])]
FindShortIn(D, d, s) ==
  LET found == {i \in VisibleIn(D, d) : D[d][i].name = s} IN IF found = {} THEN 0 ELSE LeastOf(found)
NodePathIn(D, v) ==
  Append((CHOOSE y \in PathsIn(D) : y[2] = v.dir)[1], D[v.dir][FindShortIn(D, v.dir, v.name)].as)
HandlesIn(D, N, F) ==
  [fd \in Fds |-> {[path |-> NodePathIn(D, N[r.node]), pos |-> r.pos, append |-> r.append] : r \in F[fd]}]

\* That is what they are, in this state and the next.
LEMMA TreeMirrored ==
  StoredTree = TreeIn(fat, cells, dirs) /\ StoredTree' = TreeIn(fat', cells', dirs')
BY PathsMirrored DEF StoredTree, TreeIn, Item, FoundIn, VisibleIn, Visible, Data, Nth, DataIn, NthIn, Repeats

\* And so are the handles.
LEMMA HandlesMirrored ==
  OpenHandles = HandlesIn(dirs, nodes, files) /\ OpenHandles' = HandlesIn(dirs', nodes', files')
BY PathsMirrored DEF OpenHandles, HandlesIn, NodePath, NodePathIn, FindShort, FindShortIn, VisibleIn, Visible

-----------------------------------------------------------------------------
(* The tree and the handles that a disk and its descriptors show. *)

\* A path to an entry, and the tree that a disk with the paths R shows.
FilePath(D, x, i) == Append(x[1], D[x[2]][i].name)
IsTree(f, C, D, R, t) ==
  /\ t = [p \in DOMAIN t |-> t[p]]
  /\ \A p : p \in DOMAIN t <=> \E x \in R : \E i \in Ents(D, x[2]) : p = FilePath(D, x, i)
  /\ \A x \in R : \A i \in Ents(D, x[2]) : t[FilePath(D, x, i)] = Item(f, C, D[x[2]][i])

\* The path of an open file, and the handles that descriptors show.
NodePathOf(R, v) == Append((CHOOSE y \in R : y[2] = v.dir)[1], v.name)
HandlesOf(R, N, F) ==
  [fd \in Fds |-> {[path |-> NodePathOf(R, N[r.node]), pos |-> r.pos, append |-> r.append] : r \in F[fd]}]

\* A path leads to one entry.
LEMMA EntryByPath ==
  ASSUME FatOK, NEW D, TreeOK(D), NEW R, IsPaths(D, R), NEW x \in R, NEW y \in R,
         NEW i \in Ents(D, x[2]), NEW j \in Ents(D, y[2]), FilePath(D, x, i) = FilePath(D, y, j)
  PROVE  x = y /\ i = j
<1>1. x \in Pairs /\ y \in Pairs
  BY DEF IsPaths
<1>2. x[1] \in Seq(Names) /\ y[1] \in Seq(Names) /\ x[2] \in Table /\ y[2] \in Table
  BY <1>1, PairIs
<1> DEFINE a == x[1]
           b == y[1]
           n == D[x[2]][i].name
           m == D[y[2]][j].name
<1>3. n \in Names /\ m \in Names
  BY <1>2 DEF TreeOK, Plain
<1>4. Append(a, n) = Append(b, m)
  BY DEF FilePath
<1>5. a = b /\ n = m
  <2>1. a \in Seq(Names) /\ b \in Seq(Names)
    BY <1>2
  <2> HIDE DEF a, b, n, m
  <2> QED
    BY <1>3, <1>4, <2>1
<1>6. x = y
  BY <1>5, PathsDiffer
<1>7. i = j
  BY <1>2, <1>5, <1>6 DEF TreeOK, NamesApart
<1> QED
  BY <1>6, <1>7

\* An entry's path, in parts.
LEMMA FilePathIs ==
  ASSUME FatOK, NEW D, TreeOK(D), NEW R, IsPaths(D, R), NEW x \in R, NEW i \in Ents(D, x[2])
  PROVE  /\ x[1] \in Seq(Names) /\ x[2] \in Table /\ D[x[2]][i].name \in Names
         /\ FilePath(D, x, i) \in Seq(Names) /\ FilePath(D, x, i) # <<>>
         /\ Len(x[1]) \in Nat /\ Len(FilePath(D, x, i)) = Len(x[1]) + 1
         /\ SubSeq(FilePath(D, x, i), 1, Len(FilePath(D, x, i)) - 1) = x[1]
<1>1. x[1] \in Seq(Names) /\ x[2] \in Table
  BY PairIs DEF IsPaths
<1> DEFINE a == x[1]
           n == D[x[2]][i].name
           p == Append(a, n)
<1>2. n \in Names /\ a \in Seq(Names)
  BY <1>1 DEF TreeOK, Plain
<1>3. p = FilePath(D, x, i)
  BY DEF FilePath
<1> HIDE DEF a, n
<1>4. /\ p \in Seq(Names) /\ Len(p) = Len(a) + 1 /\ Len(a) \in Nat
      /\ \A k \in 1 .. Len(a) : p[k] = a[k]
  BY <1>2, AppendProperties, LenProperties
<1>5. p # <<>>
  BY <1>2
<1>6. SubSeq(p, 1, Len(p) - 1) = a
  <2>1. Len(p) - 1 = Len(a)
    BY <1>4
  <2>2. SubSeq(p, 1, Len(a)) = a
    BY <1>2, <1>4
  <2> QED
    BY <2>1, <2>2
<1> HIDE DEF p
<1> QED
  BY <1>1, <1>2, <1>3, <1>4, <1>5, <1>6 DEF a, n

\* What a disk shows.
LEMMA TreeShape ==
  ASSUME FatOK, NEW D, TreeOK(D), NEW f, NEW C
  PROVE  IsTree(f, C, D, PathsIn(D), TreeIn(f, C, D))
<1> DEFINE R == PathsIn(D)
           X == FoundIn(D)
           t == TreeIn(f, C, D)
<1>1. IsPaths(D, R)
  BY PathsFound
<1> HIDE DEF R
<1>2. \A x \in R : x[2] \in Table
  BY <1>1, PairIs DEF IsPaths
<1>3. \A z : z \in X <=> \E x \in R : \E i \in Ents(D, x[2]) : z = <<FilePath(D, x, i), D[x[2]][i]>>
  <2>1. \A x \in R : VisibleIn(D, x[2]) = Ents(D, x[2])
    BY <1>2, Seen DEF TreeOK, VisibleIn
  <2>2. \A x \in R : \A i \in Ents(D, x[2]) : D[x[2]][i].as = D[x[2]][i].name
    BY <1>2 DEF TreeOK, Plain
  <2>3. X = UNION {{<<Append(x[1], D[x[2]][i].as), D[x[2]][i]>> : i \in VisibleIn(D, x[2])} : x \in R}
    BY DEF FoundIn, R
  <2> HIDE DEF X
  <2>4. \A z : z \in X <=> \E x \in R : \E i \in VisibleIn(D, x[2]) :
                            z = <<Append(x[1], D[x[2]][i].as), D[x[2]][i]>>
    <3> DEFINE Here(x) == {<<Append(x[1], D[x[2]][i].as), D[x[2]][i]>> : i \in VisibleIn(D, x[2])}
    <3>1. X = UNION {Here(x) : x \in R}
      BY <2>3
    <3>2. \A x, z : z \in Here(x) <=> \E i \in VisibleIn(D, x[2]) :
                                      z = <<Append(x[1], D[x[2]][i].as), D[x[2]][i]>>
      OBVIOUS
    <3> HIDE DEF Here
    <3>3. \A z : z \in X <=> \E x \in R : z \in Here(x)
      BY <3>1
    <3> QED
      BY <3>2, <3>3
  <2>5. \A x \in R : \A i \in Ents(D, x[2]) :
          <<Append(x[1], D[x[2]][i].as), D[x[2]][i]>> = <<FilePath(D, x, i), D[x[2]][i]>>
    BY <2>2 DEF FilePath
  <2> SUFFICES ASSUME NEW z
               PROVE  z \in X <=> \E x \in R : \E i \in Ents(D, x[2]) :
                                    z = <<FilePath(D, x, i), D[x[2]][i]>>
    OBVIOUS
  <2>6. z \in X <=> \E x \in R : \E i \in Ents(D, x[2]) :
                      z = <<Append(x[1], D[x[2]][i].as), D[x[2]][i]>>
    BY <2>1, <2>4
  <2> QED
    BY <2>5, <2>6
<1>4. t = [p \in {z[1] : z \in X} |-> Item(f, C, (CHOOSE z \in X : z[1] = p)[2])]
  BY DEF TreeIn
<1> HIDE DEF X, t
<1>5. \A p : p \in DOMAIN t <=> \E x \in R : \E i \in Ents(D, x[2]) : p = FilePath(D, x, i)
  <2> SUFFICES ASSUME NEW p
               PROVE  p \in DOMAIN t <=> \E x \in R : \E i \in Ents(D, x[2]) : p = FilePath(D, x, i)
    OBVIOUS
  <2>1. p \in DOMAIN t <=> \E z \in X : p = z[1]
    BY <1>4
  <2>2. ASSUME NEW z \in X, p = z[1]
        PROVE  \E x \in R : \E i \in Ents(D, x[2]) : p = FilePath(D, x, i)
    <3>1. PICK x \in R : \E i \in Ents(D, x[2]) : z = <<FilePath(D, x, i), D[x[2]][i]>>
      BY <1>3
    <3> QED
      BY <2>2, <3>1
  <2>3. ASSUME NEW x \in R, NEW i \in Ents(D, x[2]), p = FilePath(D, x, i)
        PROVE  \E z \in X : p = z[1]
    <3> DEFINE z == <<FilePath(D, x, i), D[x[2]][i]>>
    <3>1. z \in X /\ z[1] = p
      BY <1>3, <2>3
    <3> HIDE DEF z
    <3> QED
      BY <3>1
  <2> QED
    BY <2>1, <2>2, <2>3
<1>6. ASSUME NEW x \in R, NEW i \in Ents(D, x[2])
      PROVE  t[FilePath(D, x, i)] = Item(f, C, D[x[2]][i])
  <2> DEFINE p == FilePath(D, x, i)
             e == D[x[2]][i]
             z == CHOOSE y \in X : y[1] = p
  <2>1. <<p, e>> \in X
    BY <1>3
  <2>2. z \in X /\ z[1] = p
    BY <2>1
  <2>3. PICK y \in R : \E j \in Ents(D, y[2]) : z = <<FilePath(D, y, j), D[y[2]][j]>>
    BY <1>3, <2>2
  <2>4. PICK j \in Ents(D, y[2]) : z = <<FilePath(D, y, j), D[y[2]][j]>>
    BY <2>3
  <2>5. x = y /\ i = j
    BY <1>1, <2>2, <2>4, EntryByPath
  <2>6. z[2] = e
    <3>1. D[y[2]][j] = e
      BY <2>5
    <3> HIDE DEF e, z
    <3> QED
      BY <2>4, <3>1
  <2>7. p \in {y2[1] : y2 \in X}
    BY <2>1
  <2> HIDE DEF p, e
  <2>8. t[p] = Item(f, C, z[2])
    BY <1>4, <2>7
  <2> QED
    BY <2>6, <2>8 DEF p, e
<1>7. t = [p \in DOMAIN t |-> t[p]]
  BY <1>4
<1> QED
  BY <1>5, <1>6, <1>7 DEF IsTree, R, t

\* What descriptors show.
LEMMA HandlesShape ==
  ASSUME FatOK, NEW D, TreeOK(D), NEW N, NEW F, FilesOK(N, F), NodesOK(D, N, F)
  PROVE  HandlesIn(D, N, F) = HandlesOf(PathsIn(D), N, F)
<1>1. ASSUME NEW fd \in Fds, NEW r \in F[fd]
      PROVE  NodePathIn(D, N[r.node]) = NodePathOf(PathsIn(D), N[r.node])
  <2> DEFINE v == N[r.node]
             d == v.dir
             found == {i \in VisibleIn(D, d) : D[d][i].name = v.name}
  <2>1. v.dir \in Table /\ NodeOK(D, v)
    BY DEF FilesOK, FileSet, NodeSet, NodesOK
  <2> HIDE DEF v
  <2>2. PICK i \in Ents(D, d) : EntryOf(D, v, i)
    BY <2>1 DEF NodeOK
  <2>3. VisibleIn(D, d) = Ents(D, d) /\ Ents(D, d) \in SUBSET Nat /\ 0 \notin Ents(D, d)
    BY <2>1, Seen DEF TreeOK, VisibleIn
  <2>4. found # {} /\ found \in SUBSET Nat
    BY <2>2, <2>3 DEF EntryOf
  <2>5. FindShortIn(D, d, v.name) = LeastOf(found)
    BY <2>4 DEF FindShortIn
  <2> DEFINE j == LeastOf(found)
  <2>6. j \in found
    BY <2>4, LeastIn
  <2> HIDE DEF j
  <2>7. D[d][j].name = v.name /\ j \in Ents(D, d)
    BY <2>3, <2>6
  <2>8. D[d][j].as = v.name
    BY <2>1, <2>7 DEF TreeOK, Plain
  <2>9. NodePathIn(D, v) = NodePathOf(PathsIn(D), v)
    BY <2>5, <2>8 DEF NodePathIn, NodePathOf, j
  <2> QED
    BY <2>9 DEF v
<1>2. \A fd \in Fds :
        {[path |-> NodePathIn(D, N[r.node]), pos |-> r.pos, append |-> r.append] : r \in F[fd]}
        = {[path |-> NodePathOf(PathsIn(D), N[r.node]), pos |-> r.pos, append |-> r.append] : r \in F[fd]}
  BY <1>1
<1> QED
  BY <1>2 DEF HandlesIn, HandlesOf

\* The path of an open file, when that of its directory is known.
LEMMA NodePathIs ==
  ASSUME FatOK, NEW D, TreeOK(D), NEW R, IsPaths(D, R), NEW x \in R, NEW v, v.dir = x[2]
  PROVE  NodePathOf(R, v) = Append(x[1], v.name)
<1> DEFINE z == CHOOSE y \in R : y[2] = v.dir
<1>1. z \in R /\ z[2] = v.dir
  OBVIOUS
<1> HIDE DEF z
<1>2. z = x
  BY <1>1, PathsDiffer
<1> QED
  BY <1>2 DEF NodePathOf, z

\* A file comes, goes or changes: the directories' paths stay.
LEMMA DirPathsStay ==
  ASSUME FatOK, NEW D, TreeOK(D), NEW E, TreeOK(E), NEW d, NEW s, SameBut(D, E, d, s),
         d \in Table => /\ s \in Ents(D, d) => ~D[d][s].dir
                        /\ s \in Ents(E, d) => ~E[d][s].dir,
         NEW R, IsPaths(D, R)
  PROVE  IsPaths(E, R)
<1>1. ASSUME NEW x \in R, NEW y PROVE IsBelow(D, x, y) <=> IsBelow(E, x, y)
  <2>1. x[2] \in Table
    BY PairIs DEF IsPaths
  <2>2. ASSUME NEW i \in SlotsOf(x[2])
        PROVE  i \in Ents(D, x[2]) /\ D[x[2]][i].dir /\ y = Below(D, x, i)
                <=> i \in Ents(E, x[2]) /\ E[x[2]][i].dir /\ y = Below(E, x, i)
    <3>1. CASE x[2] = d /\ i = s
      BY <2>1, <3>1
    <3>2. CASE x[2] # d \/ i # s
      BY <2>1, <3>2 DEF SameBut, Below
    <3> QED
      BY <3>1, <3>2
  <2>3. Ents(D, x[2]) \subseteq SlotsOf(x[2]) /\ Ents(E, x[2]) \subseteq SlotsOf(x[2])
    BY DEF Ents
  <2> QED
    BY <2>2, <2>3 DEF IsBelow
<1> QED
  BY <1>1 DEF IsPaths

\* A directory without entries comes.
LEMMA DirPathAdded ==
  ASSUME FatOK, NEW D, TreeOK(D), NEW E, TreeOK(E), NEW d \in Table, NEW s, SameBut(D, E, d, s),
         s \notin Ents(D, d), s \in Ents(E, d), E[d][s].dir, Ents(E, E[d][s].first) = {},
         NEW R, IsPaths(D, R), NEW x \in R, x[2] = d
  PROVE  IsPaths(E, R \cup {Below(E, x, s)})
<1> DEFINE z == Below(E, x, s)
           S == R \cup {z}
<1>1. R \subseteq Pairs /\ Root \in R
  BY DEF IsPaths
<1>2. IsBelow(E, x, z)
  BY DEF IsBelow
<1>3. z \in Pairs /\ z[2] = E[d][s].first
  BY <1>1, <1>2, BelowIs DEF Below
<1>4. ASSUME NEW y \in R, NEW w, IsBelow(E, y, w) PROVE w \in S
  <2>1. PICK i \in Ents(E, y[2]) : E[y[2]][i].dir /\ w = Below(E, y, i)
    BY <1>4 DEF IsBelow
  <2>2. y[2] \in Table
    BY <1>1, PairIs
  <2>3. CASE y[2] = d /\ i = s
    <3>1. y = x
      BY <2>3, PathsDiffer
    <3> QED
      BY <2>1, <2>3, <3>1
  <2>4. CASE y[2] # d \/ i # s
    <3>1. i \in Ents(D, y[2]) /\ D[y[2]][i] = E[y[2]][i]
      BY <2>2, <2>4 DEF SameBut, Ents
    <3>2. IsBelow(D, y, w)
      BY <2>1, <3>1 DEF IsBelow, Below
    <3> QED
      BY <3>2 DEF IsPaths
  <2> QED
    BY <2>3, <2>4
<1>5. ASSUME NEW w PROVE ~IsBelow(E, z, w)
  BY <1>3 DEF IsBelow
<1>6. ASSUME NEW w \in R, w # Root PROVE \E y \in S : IsBelow(E, y, w)
  <2>1. PICK y \in R : IsBelow(D, y, w)
    BY <1>6 DEF IsPaths
  <2>2. PICK i \in Ents(D, y[2]) : D[y[2]][i].dir /\ w = Below(D, y, i)
    BY <2>1 DEF IsBelow
  <2>3. y[2] \in Table /\ (y[2] # d \/ i # s)
    BY <1>1, <2>2, PairIs
  <2>4. i \in Ents(E, y[2]) /\ D[y[2]][i] = E[y[2]][i]
    BY <2>3 DEF SameBut, Ents
  <2>5. IsBelow(E, y, w)
    BY <2>2, <2>4 DEF IsBelow, Below
  <2> QED
    BY <2>5
<1> HIDE DEF z
<1> QED
  BY <1>1, <1>2, <1>3, <1>4, <1>5, <1>6 DEF IsPaths, z

\* A directory without entries goes.
LEMMA DirPathGone ==
  ASSUME FatOK, NEW D, TreeOK(D), NEW E, TreeOK(E), NEW d \in Table, NEW s, SameBut(D, E, d, s),
         s \in Ents(D, d), s \notin Ents(E, d), D[d][s].dir, Ents(D, D[d][s].first) = {},
         NEW R, IsPaths(D, R), NEW x \in R, x[2] = d
  PROVE  IsPaths(E, R \ {Below(D, x, s)})
<1> DEFINE z == Below(D, x, s)
           S == R \ {z}
<1>1. R \subseteq Pairs /\ Root \in R
  BY DEF IsPaths
<1>2. IsBelow(D, x, z)
  BY DEF IsBelow
<1>3. z # Root /\ z[2] = D[d][s].first /\ z[2] \in Clusters
  BY <1>1, <1>2, BelowIs DEF Below
<1>4. ASSUME NEW y \in S, NEW w, IsBelow(E, y, w) PROVE w \in S
  <2>1. PICK i \in Ents(E, y[2]) : E[y[2]][i].dir /\ w = Below(E, y, i)
    BY <1>4 DEF IsBelow
  <2>2. y[2] \in Table /\ (y[2] # d \/ i # s)
    BY <1>1, <2>1, PairIs
  <2>3. i \in Ents(D, y[2]) /\ D[y[2]][i] = E[y[2]][i]
    BY <2>2 DEF SameBut, Ents
  <2>4. IsBelow(D, y, w) /\ w[2] = D[y[2]][i].first
    BY <2>1, <2>3 DEF IsBelow, Below
  <2>5. w # z
    BY <1>3, <2>2, <2>3, <2>4 DEF TreeOK, FirstsApart
  <2> QED
    BY <2>4, <2>5 DEF IsPaths
<1>5. ASSUME NEW w \in S, w # Root PROVE \E y \in S : IsBelow(E, y, w)
  <2>1. PICK y \in R : IsBelow(D, y, w)
    BY <1>5 DEF IsPaths
  <2>2. PICK i \in Ents(D, y[2]) : D[y[2]][i].dir /\ w = Below(D, y, i)
    BY <2>1 DEF IsBelow
  <2>3. y[2] \in Table /\ y # z
    BY <1>1, <1>3, <2>2, PairIs
  <2>4. y[2] # d \/ i # s
    <3> SUFFICES ASSUME y[2] = d, i = s PROVE FALSE
      OBVIOUS
    <3>1. y = x
      BY PathsDiffer
    <3> QED
      BY <1>5, <2>2, <3>1
  <2>5. i \in Ents(E, y[2]) /\ D[y[2]][i] = E[y[2]][i]
    BY <2>3, <2>4 DEF SameBut, Ents
  <2>6. IsBelow(E, y, w)
    BY <2>2, <2>5 DEF IsBelow, Below
  <2> QED
    BY <2>3, <2>6
<1> HIDE DEF z
<1>6. S \subseteq Pairs /\ Root \in S
  BY <1>1, <1>3
<1> QED
  BY <1>4, <1>5, <1>6 DEF IsPaths, z

\* The other entries show what they showed.
ItemsKept(f, C, g, B, D, d, s) ==
  \A x \in Table : \A i \in Ents(D, x) :
    x # d \/ i # s => Item(g, B, D[x][i]) = Item(f, C, D[x][i])

\* The other entries are at the same paths with the same items.
LEMMA OthersShow ==
  ASSUME FatOK, NEW D, TreeOK(D), NEW E, TreeOK(E), NEW d, NEW s, SameBut(D, E, d, s),
         NEW R, IsPaths(D, R), NEW S, IsPaths(E, S),
         NEW f, NEW C, NEW g, NEW B, ItemsKept(f, C, g, B, D, d, s),
         NEW t, IsTree(f, C, D, R, t), NEW u, IsTree(g, B, E, S, u),
         NEW x \in Pairs, NEW i, x[2] # d \/ i # s
  PROVE  /\ i \in Ents(E, x[2]) <=> i \in Ents(D, x[2])
         /\ i \in Ents(D, x[2]) => FilePath(E, x, i) = FilePath(D, x, i)
         /\ i \in Ents(D, x[2]) /\ x \in R => FilePath(D, x, i) \in DOMAIN t
         /\ i \in Ents(D, x[2]) /\ x \in S => FilePath(D, x, i) \in DOMAIN u
         /\ i \in Ents(D, x[2]) /\ x \in R /\ x \in S =>
              u[FilePath(D, x, i)] = t[FilePath(D, x, i)]
<1>1. x[2] \in Table
  BY PairIs
<1>2. i \in Ents(E, x[2]) <=> i \in Ents(D, x[2])
  BY <1>1 DEF SameBut, Ents
<1> SUFFICES ASSUME i \in Ents(D, x[2])
             PROVE  /\ FilePath(E, x, i) = FilePath(D, x, i)
                    /\ x \in R => FilePath(D, x, i) \in DOMAIN t
                    /\ x \in S => FilePath(D, x, i) \in DOMAIN u
                    /\ x \in R /\ x \in S => u[FilePath(D, x, i)] = t[FilePath(D, x, i)]
  BY <1>2
<1>3. E[x[2]][i] = D[x[2]][i]
  BY <1>1 DEF SameBut, Ents
<1>4. FilePath(E, x, i) = FilePath(D, x, i)
  BY <1>3 DEF FilePath
<1>5. x \in R => /\ FilePath(D, x, i) \in DOMAIN t
                 /\ t[FilePath(D, x, i)] = Item(f, C, D[x[2]][i])
  BY DEF IsTree
<1>6. x \in S => /\ FilePath(D, x, i) \in DOMAIN u
                 /\ u[FilePath(D, x, i)] = Item(g, B, D[x[2]][i])
  BY <1>2, <1>3, <1>4 DEF IsTree
<1>7. Item(g, B, D[x[2]][i]) = Item(f, C, D[x[2]][i])
  BY <1>1 DEF ItemsKept
<1> QED
  BY <1>4, <1>5, <1>6, <1>7

\* What is in R and not in S has no entries in D.
Hollow(D, R, S) == \A y \in R : y \notin S => Ents(D, y[2]) = {}

\* A tree with one more path, and with one less.
WithPath(t, p, e) == [q \in (DOMAIN t) \cup {p} |-> IF q = p THEN e ELSE t[q]]
WithoutPath(t, p) == [q \in (DOMAIN t) \ {p} |-> t[q]]

\* An entry comes; a directory that comes with it has no entries.
LEMMA TreeAdded ==
  ASSUME FatOK, NEW D, TreeOK(D), NEW E, TreeOK(E), NEW d \in Table, NEW s, SameBut(D, E, d, s),
         s \notin Ents(D, d), s \in Ents(E, d),
         NEW R, IsPaths(D, R), NEW S, IsPaths(E, S), R \subseteq S,
         Hollow(E, S, R),
         NEW x \in R, x[2] = d,
         NEW f, NEW C, NEW g, NEW B, ItemsKept(f, C, g, B, D, d, s),
         NEW t, IsTree(f, C, D, R, t), NEW u, IsTree(g, B, E, S, u),
         NEW p, p = FilePath(E, x, s)
  PROVE  p \notin DOMAIN t /\ u = WithPath(t, p, Item(g, B, E[d][s]))
<1>1. R \subseteq Pairs
  BY DEF IsPaths
<1>2. p \notin DOMAIN t
  <2> SUFFICES ASSUME p \in DOMAIN t PROVE FALSE
    OBVIOUS
  <2>1. PICK y \in R : \E i \in Ents(D, y[2]) : p = FilePath(D, y, i)
    BY DEF IsTree
  <2>2. PICK i \in Ents(D, y[2]) : p = FilePath(D, y, i)
    BY <2>1
  <2>3. y[2] # d \/ i # s
    OBVIOUS
  <2>4. i \in Ents(E, y[2]) /\ FilePath(E, y, i) = FilePath(D, y, i)
    BY <1>1, <2>3, OthersShow
  <2>5. x \in S /\ y \in S /\ s \in Ents(E, x[2]) /\ FilePath(E, x, s) = FilePath(E, y, i)
    BY <2>2, <2>4
  <2>6. x = y /\ i = s
    BY ONLY FatOK, TreeOK(E), IsPaths(E, S), <2>4, <2>5, EntryByPath
  <2> QED
    BY <2>3, <2>6
<1>3. ASSUME NEW q \in DOMAIN t PROVE q \in DOMAIN u /\ u[q] = t[q]
  <2>1. PICK y \in R : \E i \in Ents(D, y[2]) : q = FilePath(D, y, i)
    BY DEF IsTree
  <2>2. PICK i \in Ents(D, y[2]) : q = FilePath(D, y, i)
    BY <2>1
  <2>3. y[2] # d \/ i # s
    OBVIOUS
  <2> QED
    BY <1>1, <2>2, <2>3, OthersShow
<1>4. p \in DOMAIN u /\ u[p] = Item(g, B, E[d][s])
  BY DEF IsTree
<1>5. ASSUME NEW q \in DOMAIN u, q # p PROVE q \in DOMAIN t
  <2>1. PICK y \in S : \E i \in Ents(E, y[2]) : q = FilePath(E, y, i)
    BY DEF IsTree
  <2>2. PICK i \in Ents(E, y[2]) : q = FilePath(E, y, i)
    BY <2>1
  <2>3. y \in R
    BY <2>2 DEF Hollow
  <2>4. y[2] # d \/ i # s
    <3> SUFFICES ASSUME y[2] = d, i = s PROVE FALSE
      OBVIOUS
    <3>1. y = x
      BY <2>3, PathsDiffer
    <3> QED
      BY <1>5, <2>2, <3>1
  <2> QED
    BY <1>1, <2>2, <2>3, <2>4, OthersShow
<1>6. DOMAIN u = (DOMAIN t) \cup {p}
  BY <1>3, <1>4, <1>5
<1>7. u = [q \in DOMAIN u |-> u[q]]
  BY DEF IsTree
<1>8. \A q \in DOMAIN u : u[q] = IF q = p THEN Item(g, B, E[d][s]) ELSE t[q]
  BY <1>3, <1>4, <1>5
<1> QED
  BY <1>2, <1>6, <1>7, <1>8 DEF WithPath

\* An entry goes; a directory that goes with it had no entries.
LEMMA TreeRemoved ==
  ASSUME FatOK, NEW D, TreeOK(D), NEW E, TreeOK(E), NEW d \in Table, NEW s, SameBut(D, E, d, s),
         s \in Ents(D, d), s \notin Ents(E, d),
         NEW R, IsPaths(D, R), NEW S, IsPaths(E, S), S \subseteq R,
         Hollow(D, R, S),
         NEW x \in R, x[2] = d,
         NEW f, NEW C, NEW g, NEW B, ItemsKept(f, C, g, B, D, d, s),
         NEW t, IsTree(f, C, D, R, t), NEW u, IsTree(g, B, E, S, u),
         NEW p, p = FilePath(D, x, s)
  PROVE  p \in DOMAIN t /\ u = WithoutPath(t, p)
<1>1. R \subseteq Pairs
  BY DEF IsPaths
<1>2. p \in DOMAIN t
  BY DEF IsTree
<1>3. ASSUME NEW q \in DOMAIN t, q # p PROVE q \in DOMAIN u /\ u[q] = t[q]
  <2>1. PICK y \in R : \E i \in Ents(D, y[2]) : q = FilePath(D, y, i)
    BY DEF IsTree
  <2>2. PICK i \in Ents(D, y[2]) : q = FilePath(D, y, i)
    BY <2>1
  <2>3. y[2] # d \/ i # s
    <3> SUFFICES ASSUME y[2] = d, i = s PROVE FALSE
      OBVIOUS
    <3>1. y = x
      BY PathsDiffer
    <3> QED
      BY <1>3, <2>2, <3>1
  <2>4. y \in S
    BY <2>2 DEF Hollow
  <2> QED
    BY <1>1, <2>2, <2>3, <2>4, OthersShow
<1>4. ASSUME NEW q \in DOMAIN u PROVE q \in DOMAIN t /\ q # p
  <2>1. PICK y \in S : \E i \in Ents(E, y[2]) : q = FilePath(E, y, i)
    BY DEF IsTree
  <2>2. PICK i \in Ents(E, y[2]) : q = FilePath(E, y, i)
    BY <2>1
  <2>3. y[2] # d \/ i # s
    OBVIOUS
  <2>4. i \in Ents(D, y[2]) /\ q = FilePath(D, y, i) /\ q \in DOMAIN t
    BY <1>1, <2>2, <2>3, OthersShow
  <2>5. q # p
    BY <2>3, <2>4, EntryByPath
  <2> QED
    BY <2>4, <2>5
<1>5. DOMAIN u = (DOMAIN t) \ {p}
  BY <1>3, <1>4
<1>6. u = [q \in DOMAIN u |-> u[q]]
  BY DEF IsTree
<1>7. \A q \in DOMAIN u : u[q] = t[q]
  BY <1>3, <1>4
<1> QED
  BY <1>2, <1>5, <1>6, <1>7 DEF WithoutPath

\* An entry changes, but not its name.
LEMMA TreeChanged ==
  ASSUME FatOK, NEW D, TreeOK(D), NEW E, TreeOK(E), NEW d \in Table, NEW s, SameBut(D, E, d, s),
         s \in Ents(D, d), s \in Ents(E, d), E[d][s].name = D[d][s].name,
         NEW R, IsPaths(D, R), IsPaths(E, R), NEW x \in R, x[2] = d,
         NEW f, NEW C, NEW g, NEW B, ItemsKept(f, C, g, B, D, d, s),
         NEW t, IsTree(f, C, D, R, t), NEW u, IsTree(g, B, E, R, u),
         NEW p, p = FilePath(D, x, s)
  PROVE  /\ p \in DOMAIN t /\ t[p] = Item(f, C, D[d][s])
         /\ u = [t EXCEPT ![p] = Item(g, B, E[d][s])]
<1>1. R \subseteq Pairs
  BY DEF IsPaths
<1>2. p \in DOMAIN t /\ t[p] = Item(f, C, D[d][s])
  BY DEF IsTree
<1>3. p = FilePath(E, x, s)
  BY DEF FilePath
<1>4. p \in DOMAIN u /\ u[p] = Item(g, B, E[d][s])
  BY <1>3 DEF IsTree
<1>5. ASSUME NEW y \in R, NEW i, y[2] = d, i = s
      PROVE  FilePath(D, y, i) = p /\ FilePath(E, y, i) = p
  <2>1. y = x
    BY <1>5, PathsDiffer
  <2> QED
    BY <1>3, <1>5, <2>1
<1>6. ASSUME NEW q \in DOMAIN t, q # p PROVE q \in DOMAIN u /\ u[q] = t[q]
  <2>1. PICK y \in R : \E i \in Ents(D, y[2]) : q = FilePath(D, y, i)
    BY DEF IsTree
  <2>2. PICK i \in Ents(D, y[2]) : q = FilePath(D, y, i)
    BY <2>1
  <2>3. y[2] # d \/ i # s
    BY <1>5, <1>6, <2>2
  <2> QED
    BY <1>1, <2>2, <2>3, OthersShow
<1>7. ASSUME NEW q \in DOMAIN u, q # p PROVE q \in DOMAIN t
  <2>1. PICK y \in R : \E i \in Ents(E, y[2]) : q = FilePath(E, y, i)
    BY DEF IsTree
  <2>2. PICK i \in Ents(E, y[2]) : q = FilePath(E, y, i)
    BY <2>1
  <2>3. y[2] # d \/ i # s
    BY <1>5, <1>7, <2>2
  <2> QED
    BY <1>1, <2>2, <2>3, OthersShow
<1>8. DOMAIN u = DOMAIN t
  BY <1>2, <1>4, <1>6, <1>7
<1>9. u = [q \in DOMAIN t |-> u[q]] /\ t = [q \in DOMAIN t |-> t[q]]
  BY <1>8 DEF IsTree
<1>10. \A q \in DOMAIN t : u[q] = IF q = p THEN Item(g, B, E[d][s]) ELSE t[q]
  BY <1>4, <1>6
<1> QED
  BY <1>2, <1>9, <1>10

\* Nothing that shows changes.
LEMMA TreeStays ==
  ASSUME FatOK, NEW D, TreeOK(D), NEW E, TreeOK(E), NEW d, NEW s, SameBut(D, E, d, s),
         d \in Table => s \notin Ents(D, d) /\ s \notin Ents(E, d),
         NEW R, IsPaths(D, R), IsPaths(E, R),
         NEW f, NEW C, NEW g, NEW B, ItemsKept(f, C, g, B, D, d, s),
         NEW t, IsTree(f, C, D, R, t), NEW u, IsTree(g, B, E, R, u)
  PROVE  u = t
<1>1. R \subseteq Pairs /\ \A y \in R : y[2] \in Table
  BY PairIs DEF IsPaths
<1>2. ASSUME NEW q \in DOMAIN t PROVE q \in DOMAIN u /\ u[q] = t[q]
  <2>1. PICK y \in R : \E i \in Ents(D, y[2]) : q = FilePath(D, y, i)
    BY DEF IsTree
  <2>2. PICK i \in Ents(D, y[2]) : q = FilePath(D, y, i)
    BY <2>1
  <2>3. y[2] # d \/ i # s
    BY <1>1
  <2> QED
    BY <1>1, <2>2, <2>3, OthersShow
<1>3. ASSUME NEW q \in DOMAIN u PROVE q \in DOMAIN t
  <2>1. PICK y \in R : \E i \in Ents(E, y[2]) : q = FilePath(E, y, i)
    BY DEF IsTree
  <2>2. PICK i \in Ents(E, y[2]) : q = FilePath(E, y, i)
    BY <2>1
  <2>3. y[2] # d \/ i # s
    BY <1>1
  <2> QED
    BY <1>1, <2>2, <2>3, OthersShow
<1>4. DOMAIN u = DOMAIN t
  BY <1>2, <1>3
<1>5. u = [q \in DOMAIN t |-> u[q]] /\ t = [q \in DOMAIN t |-> t[q]]
  BY <1>4 DEF IsTree
<1> QED
  BY <1>2, <1>5

-----------------------------------------------------------------------------
(* The clusters of a file, one after the other, and the cells in them. *)

\* The clusters of a file, one after the other.
LEMMA NthInIs ==
  ASSUME NEW f, NEW first, NEW k \in Nat
  PROVE  NthIn(f, first, k) = Orbit(f, first)[k]
BY DEF NthIn, Orbit

\* There is a path along a chain of any length up to the chain's.
LEMMA ChainPath ==
  ASSUME FatOK, NEW f, ChainsOK(f), NEW first \in Clusters, Starts(f, first),
         NEW k \in Nat, k < Cardinality(Chain(f, first))
  PROVE  \E p : OnPath(f, p) /\ Len(p) = k + 1 /\ p[1] = first
<1> DEFINE K == Cardinality(Chain(f, first))
           Reached(m, p) == OnPath(f, p) /\ Len(p) = m + 1 /\ p[1] = first
           S == {m \in Nat : m < K => \E p : Reached(m, p)}
<1>1. K \in Nat
  BY ChainFinite
<1>2. 0 \in S
  <2> DEFINE p == <<first>>
  <2>1. p \in Seq(Clusters) /\ p # <<>> /\ Len(p) = 1 /\ p[1] = first
    OBVIOUS
  <2>2. PathSet(p) = {first}
    BY DEF PathSet
  <2>3. Cardinality({first}) = 1
    BY FS_Singleton
  <2> HIDE DEF p
  <2>4. OnPath(f, p)
    BY <2>1, <2>2, <2>3, ChainFirst DEF OnPath
  <2>5. Reached(0, p)
    BY <2>1, <2>4
  <2> QED
    BY <2>5
<1>3. ASSUME NEW m \in S PROVE m + 1 \in S
  <2> SUFFICES ASSUME m + 1 < K PROVE \E p : Reached(m + 1, p)
    OBVIOUS
  <2>1. m \in Nat /\ m < K
    BY <1>1
  <2>2. PICK p : Reached(m, p)
    BY <2>1
  <2> DEFINE c == p[Len(p)]
             n == f[c]
             q == Append(p, n)
  <2>3. n \in Clusters
    <3> SUFFICES ASSUME n \notin Clusters PROVE FALSE
      OBVIOUS
    <3>1. K = Len(p)
      BY <2>2, PathWhole
    <3> QED
      BY <1>1, <2>1, <2>2, <3>1
  <2>4. OnPath(f, q)
    BY <2>2, <2>3, PathNext
  <2>5. p \in Seq(Clusters)
    BY <2>2 DEF OnPath
  <2> HIDE DEF n
  <2>6. Len(q) = Len(p) + 1 /\ q[1] = p[1]
    <3>1. 1 \in 1 .. Len(p)
      BY <2>1, <2>2
    <3> QED
      BY <2>3, <2>5, <3>1, Appended
  <2> HIDE DEF q
  <2>7. Reached(m + 1, q)
    BY <2>2, <2>4, <2>6
  <2> QED
    BY <2>7
<1> HIDE DEF S
<1>4. S \in SUBSET Nat
  BY DEF S
<1>5. S = Nat
  BY <1>2, <1>3, <1>4, Induct
<1> QED
  BY <1>5 DEF S

\* A path goes along the clusters of the file.
LEMMA NthOnPath ==
  ASSUME FatOK, NEW f, NEW p, OnPath(f, p)
  PROVE  \A k \in Nat : k < Len(p) => NthIn(f, p[1], k) = p[k + 1]
<1> DEFINE o == Orbit(f, p[1])
           b == [k \in Nat |-> p[k + 1]]
           m == Len(p)
<1>1. o[0] = p[1] /\ \A k \in Nat : o[k + 1] = f[o[k]]
  BY Orbits
<1>2. m \in Nat /\ \A i \in 1 .. m - 1 : f[p[i]] = p[i + 1]
  BY PathEnds DEF OnPath
<1> HIDE DEF o, m
<1>3. b[0] = p[1]
  OBVIOUS
<1>4. ASSUME NEW k \in Nat, k + 1 < m PROVE b[k + 1] = f[b[k]]
  <2>1. k + 1 \in 1 .. m - 1 /\ k + 1 \in Nat
    BY <1>2, <1>4
  <2> QED
    BY <1>2, <2>1
<1>5. \A k \in Nat : b[k] = p[k + 1]
  OBVIOUS
<1> HIDE DEF b
<1>6. Way(f, m, o) /\ Way(f, m, b) /\ o[0] = b[0]
  BY <1>1, <1>3, <1>4 DEF Way
<1>7. \A k \in Nat : k < m => o[k] = b[k]
  BY ONLY <1>2, <1>6, OneWay
<1>8. m = Len(p) /\ \A k \in Nat : NthIn(f, p[1], k) = o[k]
  BY NthInIs DEF o, m
<1> QED
  BY <1>5, <1>7, <1>8

\* The clusters of a file are those of its chain, and each comes once.
LEMMA Nths ==
  ASSUME FatOK, NEW f, ChainsOK(f), NEW first \in Clusters, Starts(f, first)
  PROVE  /\ \A k \in Nat : k < Cardinality(Chain(f, first)) => NthIn(f, first, k) \in Chain(f, first)
         /\ \A j, k \in Nat : /\ j < Cardinality(Chain(f, first)) /\ k < Cardinality(Chain(f, first))
                              /\ NthIn(f, first, j) = NthIn(f, first, k)
                              => j = k
<1> DEFINE K == Cardinality(Chain(f, first))
<1>1. ASSUME NEW k \in Nat, k < K
      PROVE  /\ NthIn(f, first, k) \in Chain(f, first)
             /\ \A j \in Nat : j <= k /\ NthIn(f, first, j) = NthIn(f, first, k) => j = k
  <2>1. PICK p : OnPath(f, p) /\ Len(p) = k + 1 /\ p[1] = first
    BY <1>1, ChainPath
  <2>2. \A j \in Nat : j <= k => NthIn(f, first, j) = p[j + 1] /\ j + 1 \in 1 .. Len(p)
    BY <2>1, NthOnPath
  <2>3. \A i, j \in 1 .. Len(p) : p[i] = p[j] => i = j
    BY <2>1 DEF OnPath
  <2>4. p[k + 1] \in Chain(f, first)
    BY <2>1, PathEnds
  <2>5. k <= k
    OBVIOUS
  <2>6. ASSUME NEW j \in Nat, j <= k, NthIn(f, first, j) = NthIn(f, first, k) PROVE j = k
    <3>1. p[j + 1] = p[k + 1] /\ j + 1 \in 1 .. Len(p) /\ k + 1 \in 1 .. Len(p)
      BY <2>2, <2>5, <2>6
    <3>2. j + 1 = k + 1
      BY <2>3, <3>1
    <3> QED
      BY <3>2
  <2> QED
    BY <2>2, <2>4, <2>5, <2>6
<1>2. \A j, k \in Nat : j <= k \/ k <= j
  OBVIOUS
<1> QED
  BY <1>1, <1>2

\* They stay when the links of the chain do.
LEMMA NthKept ==
  ASSUME FatOK, NEW f, ChainsOK(f), NEW first \in Clusters, Starts(f, first),
         NEW g, \A c \in Chain(f, first) : f[c] \in Clusters => g[c] = f[c]
  PROVE  \A k \in Nat : k < Cardinality(Chain(f, first)) => NthIn(g, first, k) = NthIn(f, first, k)
<1> DEFINE K == Cardinality(Chain(f, first))
           o == Orbit(f, first)
           b == Orbit(g, first)
<1>1. o[0] = first /\ \A k \in Nat : o[k + 1] = f[o[k]]
  BY Orbits
<1>2. b[0] = first /\ \A k \in Nat : b[k + 1] = g[b[k]]
  BY Orbits
<1>3. \A k \in Nat : k < K => o[k] \in Chain(f, first)
  BY Nths, NthInIs
<1>4. K \in Nat
  BY ChainFinite
<1> HIDE DEF o, b, K
<1>5. ASSUME NEW k \in Nat, k + 1 < K PROVE o[k + 1] = g[o[k]]
  <2>1. o[k] \in Chain(f, first) /\ o[k + 1] \in Clusters
    BY <1>3, <1>4, <1>5, ChainIn
  <2> QED
    BY <1>1, <2>1
<1>6. Way(g, K, o) /\ Way(g, K, b) /\ o[0] = b[0]
  BY <1>1, <1>2, <1>5 DEF Way
<1>7. \A k \in Nat : k < K => o[k] = b[k]
  BY ONLY <1>4, <1>6, OneWay
<1> QED
  BY <1>7, NthInIs DEF o, b, K

\* A file that has cells has a first cluster.
LEMMA HasFirst ==
  ASSUME FatOK, NEW f, NEW e, EntryOK(f, e), ~e.dir, e.size \in Nat, e.size # 0
  PROVE  e.first \in Clusters /\ Starts(f, e.first) /\ Cardinality(Chain(f, e.first)) = Chunks(e.size)
<1>1. Cardinality(Chain(f, e.first)) = Chunks(e.size)
  BY DEF EntryOK
<1>2. e.first \in Clusters
  <2> SUFFICES ASSUME e.first \notin Clusters PROVE FALSE
    OBVIOUS
  <2>1. Chunks(e.size) = 0
    BY <1>1, ChainNone, FS_EmptySet
  <2>2. 0 \in Nat /\ 0 < e.size
    OBVIOUS
  <2>3. 0 \div Width \in Nat /\ 0 \div Width < Chunks(e.size)
    BY <2>2, InChunks
  <2> QED
    BY <2>1, <2>3
<1> QED
  BY <1>1, <1>2 DEF EntryOK

\* A file holds the same cells as long as its chain's links and cells stay.
LEMMA ItemKept ==
  ASSUME FatOK, NEW f, ChainsOK(f), NEW e, EntryOK(f, e), e.size \in Nat, e.dir => e.size = 0,
         NEW g, NEW C, NEW B,
         \A c \in Chain(f, e.first) : B[c] = C[c] /\ (f[c] \in Clusters => g[c] = f[c])
  PROVE  Item(g, B, e) = Item(f, C, e)
<1>1. CASE e.size = 0
  BY <1>1 DEF Item, DataIn
<1>2. CASE e.size # 0
  <2>1. e.first \in Clusters /\ Starts(f, e.first) /\ Cardinality(Chain(f, e.first)) = Chunks(e.size)
    BY <1>2, HasFirst
  <2>2. ASSUME NEW j \in 1 .. e.size
        PROVE  B[NthIn(g, e.first, (j - 1) \div Width)][(j - 1) % Width]
                 = C[NthIn(f, e.first, (j - 1) \div Width)][(j - 1) % Width]
    <3> DEFINE x == j - 1
               q == x \div Width
    <3>1. x \in Nat /\ x < e.size
      OBVIOUS
    <3> HIDE DEF x
    <3>2. q \in Nat /\ q < Chunks(e.size)
      BY <3>1, InChunks
    <3> HIDE DEF q
    <3>3. NthIn(g, e.first, q) = NthIn(f, e.first, q)
      BY <2>1, <3>2, NthKept
    <3>4. NthIn(f, e.first, q) \in Chain(f, e.first)
      BY <2>1, <3>2, Nths
    <3> QED
      BY <3>3, <3>4 DEF x, q
  <2> QED
    BY <2>2 DEF Item, DataIn
<1> QED
  BY <1>1, <1>2

\* The links and cells of the other entries' chains.
LinksKept(f, C, g, B, D, d, s) ==
  \A x \in Table : \A i \in Ents(D, x) : x # d \/ i # s =>
    \A c \in Chain(f, D[x][i].first) : B[c] = C[c] /\ (f[c] \in Clusters => g[c] = f[c])

\* What the other entries show stays when their chains' links and cells do.
LEMMA ItemsStay ==
  ASSUME FatOK, NEW D, TreeOK(D), NEW f, ChainsOK(f), EntriesOK(f, D), NEW d, NEW s,
         NEW g, NEW C, NEW B, LinksKept(f, C, g, B, D, d, s)
  PROVE  ItemsKept(f, C, g, B, D, d, s)
<1> SUFFICES ASSUME NEW x \in Table, NEW i \in Ents(D, x), x # d \/ i # s
             PROVE  Item(g, B, D[x][i]) = Item(f, C, D[x][i])
  BY DEF ItemsKept
<1>1. D[x][i] \in SlotSet /\ EntryOK(f, D[x][i])
  BY Seen DEF TreeOK, EntriesOK
<1>2. D[x][i].size \in Nat /\ (D[x][i].dir => D[x][i].size = 0)
  BY <1>1 DEF SlotSet, TreeOK, Plain
<1> DEFINE e == D[x][i]
<1>3. \A c \in Chain(f, e.first) : B[c] = C[c] /\ (f[c] \in Clusters => g[c] = f[c])
  BY DEF LinksKept
<1>4. EntryOK(f, e) /\ e.size \in Nat /\ (e.dir => e.size = 0)
  BY <1>1, <1>2
<1> HIDE DEF e
<1>5. Item(g, B, e) = Item(f, C, e)
  BY <1>3, <1>4, ItemKept
<1> QED
  BY <1>5 DEF e

\* A walk keeps the links it follows.
LEMMA WalkExtends ==
  ASSUME FatOK, ChainsOK(fat), NEW first \in Table, first \in Clusters => Starts(fat, first),
         NEW k \in Nat, 1 <= k
  PROVE  \A c \in Table : fat[c] \in Clusters => Walk(first, k).fat[c] = fat[c]
<1> DEFINE Extends(w) == /\ w = [fat |-> w.fat, path |-> w.path] /\ DOMAIN w.fat = Table
                         /\ \A c \in Table : fat[c] \in Clusters => w.fat[c] = fat[c]
<1>1. DOMAIN fat = Table
  BY DEF ChainsOK
<1>2. Extends(WalkStart(first))
  <2>1. CASE first >= 2
    BY <1>1, <2>1 DEF WalkStart
  <2>2. CASE ~(first >= 2) /\ FreeIn(fat) = {}
    BY <1>1, <2>2 DEF WalkStart
  <2>3. CASE ~(first >= 2) /\ FreeIn(fat) # {}
    <3> DEFINE n == LeastOf(FreeIn(fat))
    <3>1. n \in Clusters /\ fat[n] = Free
      BY <2>3, LeastFree
    <3>2. WalkStart(first) = [fat |-> [fat EXCEPT ![n] = Eoc], path |-> <<n>>]
      BY <2>3 DEF WalkStart
    <3> HIDE DEF n
    <3>3. \A c \in Table : fat[c] \in Clusters => c # n
      BY <3>1, Kinds
    <3> QED
      BY <1>1, <3>2, <3>3
  <2> QED
    BY <2>1, <2>2, <2>3
<1>3. ASSUME NEW w, Extends(w) PROVE Extends(WalkOn(w))
  <2> DEFINE c == w.path[Len(w.path)]
             f == IF w.fat[c] = Eoc THEN Grow(w.fat, c) ELSE w.fat
  <2>1. CASE Stuck(w)
    BY <1>3, <2>1 DEF WalkOn
  <2>2. CASE ~Stuck(w)
    <3>1. WalkOn(w) = [fat |-> f, path |-> Append(w.path, f[c])]
      BY <2>2 DEF WalkOn
    <3>2. CASE w.fat[c] # Eoc
      BY <1>3, <3>1, <3>2
    <3>3. CASE w.fat[c] = Eoc
      <4> DEFINE n == LeastOf(FreeIn(w.fat))
      <4>1. FreeIn(w.fat) # {}
        BY <2>2, <3>3 DEF Stuck
      <4>2. n \in Clusters /\ w.fat[n] = Free
        BY <4>1, LeastFree
      <4>3. f = [w.fat EXCEPT ![c] = n, ![n] = Eoc]
        BY <3>3 DEF Grow
      <4> HIDE DEF n, f, c
      <4>4. \A x \in Table : fat[x] \in Clusters => x # c /\ x # n
        BY <1>3, <3>3, <4>2, Kinds
      <4> QED
        BY <1>3, <3>1, <4>3, <4>4
    <3> QED
      BY <3>2, <3>3
  <2> QED
    BY <2>1, <2>2
<1> HIDE DEF Extends
<1>4. PICK g : Steps(first, k, g)
  BY StepsExist
<1> DEFINE walk == CHOOSE h : h = [i \in 1 .. k |-> IF i = 1 THEN WalkStart(first)
                                                    ELSE WalkOn(h[i - 1])]
<1>5. walk = [i \in 1 .. k |-> IF i = 1 THEN WalkStart(first) ELSE WalkOn(walk[i - 1])]
  BY <1>4 DEF Steps
<1>6. Walk(first, k) = walk[k]
  BY DEF Walk
<1> HIDE DEF walk
<1>7. \A i \in 1 .. k : walk[i] = IF i = 1 THEN WalkStart(first) ELSE WalkOn(walk[i - 1])
  BY <1>5
<1> DEFINE S == {i \in Nat : i + 1 <= k => Extends(walk[i + 1])}
<1>8. 0 \in S
  BY <1>2, <1>7
<1>9. ASSUME NEW i \in S PROVE i + 1 \in S
  <2> SUFFICES ASSUME (i + 1) + 1 <= k PROVE Extends(walk[(i + 1) + 1])
    OBVIOUS
  <2>1. i \in Nat /\ i + 1 <= k /\ (i + 1) + 1 \in 1 .. k /\ (i + 1) + 1 # 1 /\ ((i + 1) + 1) - 1 = i + 1
    OBVIOUS
  <2>2. walk[(i + 1) + 1] = WalkOn(walk[i + 1])
    BY <1>7, <2>1
  <2> QED
    BY <1>3, <2>1, <2>2
<1>10. S \in SUBSET Nat
  OBVIOUS
<1> HIDE DEF S
<1>11. S = Nat
  BY <1>8, <1>9, <1>10, Induct
<1>12. Extends(walk[k])
  <2>1. k - 1 \in Nat /\ (k - 1) + 1 = k /\ k <= k
    OBVIOUS
  <2> QED
    BY <1>11, <2>1 DEF S
<1> QED
  BY <1>6, <1>12 DEF Extends

\* A position is its cluster's number and an offset.
LEMMA Positions ==
  ASSUME NEW a \in Nat, NEW b \in Nat, NEW w \in Nat \ {0}
  PROVE  /\ a % w \in 0 .. w - 1
         /\ a \div w = b \div w /\ a % w = b % w => a = b
<1>1. a = (a \div w) * w + (a % w)
  OBVIOUS
<1>2. b = (b \div w) * w + (b % w)
  OBVIOUS
<1>3. a % w \in 0 .. w - 1
  OBVIOUS
<1> QED
  BY <1>1, <1>2, <1>3

\* The cells after m cells x were written from position pos on, along the path p.
CellsAfter(C, p, pos, m, x) ==
  [c \in Table |-> [b \in 0 .. Width - 1 |->
     IF \E j \in {k \in 0 .. m - 1 : p[(pos + k) \div Width + 1] = c} : (pos + j) % Width = b
     THEN x ELSE C[c][b]]]

\* What such a write leaves at any position of the file.
LEMMA CellAfter ==
  ASSUME FatOK, NEW g, ChainsOK(g), NEW p, OnPath(g, p), NEW top \in Nat,
         Cardinality(Chain(g, p[1])) = Chunks(top),
         NEW pos \in Nat, NEW m \in Nat, pos + m <= Len(p) * Width,
         NEW C, NEW x, NEW y \in Nat, y < top
  PROVE  CellsAfter(C, p, pos, m, x)[NthIn(g, p[1], y \div Width)][y % Width] =
           IF pos <= y /\ y < pos + m THEN x ELSE C[NthIn(g, p[1], y \div Width)][y % Width]
<1> DEFINE a == p[1]
           q == y \div Width
           c == NthIn(g, a, q)
           b == y % Width
           K == Cardinality(Chain(g, a))
           Hit == \E j \in {k \in 0 .. m - 1 : p[(pos + k) \div Width + 1] = c} : (pos + j) % Width = b
<1>1. /\ Len(p) \in Nat /\ a \in Clusters /\ Starts(g, a)
      /\ PathSet(p) \subseteq Chain(g, a) /\ Cardinality(PathSet(p)) = Len(p)
  BY PathEnds DEF OnPath
<1>2. K \in Nat /\ Len(p) <= K
  BY <1>1, ChainFinite
<1>3. Width \in Nat \ {0}
  BY DEF FatOK
<1>4. q \in Nat /\ q < K
  BY InChunks
<1>5. b \in 0 .. Width - 1
  BY <1>3, Positions
<1>6. c \in Clusters /\ c \in Table
  BY <1>1, <1>4, Nths, ChainIn, Kinds
<1>7. CellsAfter(C, p, pos, m, x)[c][b] = IF Hit THEN x ELSE C[c][b]
  <2> HIDE DEF c, b
  <2> QED
    BY <1>5, <1>6 DEF CellsAfter
<1>8. ASSUME NEW j \in Nat, j < m
      PROVE  /\ (pos + j) \div Width \in Nat /\ (pos + j) \div Width < Len(p)
             /\ NthIn(g, a, (pos + j) \div Width) = p[(pos + j) \div Width + 1]
  <2> DEFINE z == pos + j
             r == z \div Width
  <2>1. z \in Nat /\ z < Len(p) * Width
    <3> DEFINE l == Len(p) * Width
    <3>1. l \in Nat /\ pos + m <= l
      BY <1>1, <1>3
    <3> HIDE DEF l
    <3>2. pos + j < l
      BY <1>8, <3>1
    <3> QED
      BY <3>2 DEF l
  <2> HIDE DEF z
  <2>2. r \in Nat /\ r * Width \in Nat /\ r * Width <= z
    BY <1>3, <2>1, Quotient
  <2> HIDE DEF r
  <2>3. r < Len(p)
    <3> SUFFICES ASSUME Len(p) <= r PROVE FALSE
      BY <1>1, <2>2
    <3>1. Len(p) * Width <= r * Width
      BY <1>1, <1>3, <2>2, Times
    <3>2. Len(p) * Width \in Nat
      BY <1>1, <1>3
    <3> QED
      BY <2>1, <2>2, <3>1, <3>2
  <2>4. NthIn(g, a, r) = p[r + 1]
    BY <2>2, <2>3, NthOnPath
  <2> QED
    BY <2>2, <2>3, <2>4 DEF r, z
<1>9. ASSUME pos <= y, y < pos + m PROVE Hit
  <2> DEFINE j == y - pos
  <2>1. j \in Nat /\ j < m /\ j \in 0 .. m - 1 /\ pos + j = y
    BY <1>9
  <2>2. NthIn(g, a, (pos + j) \div Width) = p[(pos + j) \div Width + 1]
    BY <1>8, <2>1
  <2>3. p[(pos + j) \div Width + 1] = c /\ (pos + j) % Width = b
    BY <2>1, <2>2
  <2> HIDE DEF j, b, c
  <2> QED
    BY <2>1, <2>3
<1>10. ASSUME Hit PROVE pos <= y /\ y < pos + m
  <2>1. PICK j \in 0 .. m - 1 : p[(pos + j) \div Width + 1] = c /\ (pos + j) % Width = b
    BY <1>10
  <2>2. j \in Nat /\ j < m /\ pos + j \in Nat
    OBVIOUS
  <2> DEFINE r == (pos + j) \div Width
  <2>3. r \in Nat /\ r < Len(p) /\ NthIn(g, a, r) = p[r + 1]
    BY <1>8, <2>2
  <2>4. NthIn(g, a, r) = NthIn(g, a, q) /\ r < K
    BY <1>1, <1>2, <2>1, <2>3
  <2>5. r = q
    <3> HIDE DEF r, q, a
    <3>1. /\ r \in Nat /\ q \in Nat /\ r < Cardinality(Chain(g, a)) /\ q < Cardinality(Chain(g, a))
          /\ NthIn(g, a, r) = NthIn(g, a, q)
      BY <1>4, <2>3, <2>4
    <3> QED
      BY <1>1, <3>1, Nths
  <2>6. pos + j = y
    BY <1>3, <2>1, <2>2, <2>5, Positions
  <2> QED
    BY <2>2, <2>6
<1> HIDE DEF Hit
<1> QED
  BY <1>7, <1>9, <1>10

\* The clusters that a file had are the first of those it has now.
Continues(g, a, f, first, size) ==
  \A k \in Nat : k < Chunks(size) => NthIn(g, a, k) = NthIn(f, first, k)

\* A file u gets m cells x from position pos on, along the path p.
WrittenTo(f, C, e, g, p, pos, m, x, u) ==
  DataIn(g, CellsAfter(C, p, pos, m, x), u)
    = Store!Overwrite(DataIn(f, C, e), pos, [j \in 1 .. m |-> x])

\* A file after a write holds what it held, with the cells that were written.
LEMMA DataWritten ==
  ASSUME FatOK, NEW g, ChainsOK(g), NEW p, OnPath(g, p), NEW size \in Nat,
         NEW pos \in Nat, pos <= size, NEW m \in Nat, pos + m <= Len(p) * Width,
         NEW top \in Nat, top = IF pos + m > size THEN pos + m ELSE size,
         Cardinality(Chain(g, p[1])) = Chunks(top),
         NEW f, NEW C, NEW x, NEW e, e.size = size, NEW u, u.first = p[1], u.size = top,
         Continues(g, p[1], f, e.first, size)
  PROVE  WrittenTo(f, C, e, g, p, pos, m, x, u)
<1> DEFINE B == CellsAfter(C, p, pos, m, x)
           w == [j \in 1 .. m |-> x]
           Old(j) == C[NthIn(f, e.first, (j - 1) \div Width)][(j - 1) % Width]
           New1(j) == B[NthIn(g, p[1], (j - 1) \div Width)][(j - 1) % Width]
           s == DataIn(f, C, e)
<1>1. Len(w) = m /\ \A j \in 1 .. m : w[j] = x
  OBVIOUS
<1>2. s = [j \in 1 .. size |-> Old(j)] /\ DataIn(g, B, u) = [j \in 1 .. top |-> New1(j)]
  BY DEF DataIn
<1>3. \A k \in Nat : k < Chunks(size) => NthIn(g, p[1], k) = NthIn(f, e.first, k)
  BY DEF Continues
<1>4. ASSUME NEW j \in 1 .. top
      PROVE  New1(j) = IF j \in pos + 1 .. pos + m THEN x ELSE Old(j)
  <2> DEFINE y == j - 1
             c == NthIn(g, p[1], y \div Width)
  <2>1. y \in Nat /\ y < top /\ j = y + 1
    OBVIOUS
  <2> HIDE DEF y
  <2>2. B[c][y % Width] = IF pos <= y /\ y < pos + m THEN x ELSE C[c][y % Width]
    BY ONLY FatOK, ChainsOK(g), OnPath(g, p), top \in Nat, Cardinality(Chain(g, p[1])) = Chunks(top),
            pos \in Nat, m \in Nat, pos + m <= Len(p) * Width, <2>1, CellAfter
  <2>3. CASE pos <= y /\ y < pos + m
    <3>1. j \in pos + 1 .. pos + m
      BY <2>1, <2>3
    <3> QED
      BY <2>2, <2>3, <3>1 DEF y
  <2>4. CASE ~(pos <= y /\ y < pos + m)
    <3>1. j \notin pos + 1 .. pos + m /\ y < size
      BY <2>1, <2>4
    <3>2. y \div Width \in Nat /\ y \div Width < Chunks(size)
      BY <2>1, <3>1, InChunks
    <3>3. c = NthIn(f, e.first, y \div Width)
      BY <1>3, <3>2
    <3> QED
      BY <2>2, <2>4, <3>1, <3>3 DEF y
  <2> QED
    BY <2>3, <2>4
<1> HIDE DEF Old, New1, B, w, s
<1>5. Len(s) = size /\ \A j \in 1 .. size : s[j] = Old(j)
  BY <1>2
<1>6. \A j \in 1 .. top : New1(j) = IF j \in pos + 1 .. pos + m THEN w[j - pos] ELSE s[j]
  <2> TAKE j \in 1 .. top
  <2>1. CASE j \in pos + 1 .. pos + m
    BY <1>1, <1>4, <2>1
  <2>2. CASE j \notin pos + 1 .. pos + m
    BY <1>4, <1>5, <2>2
  <2> QED
    BY <2>1, <2>2
<1>7. Store!Overwrite(s, pos, w) = [j \in 1 .. top |-> IF j \in pos + 1 .. pos + m THEN w[j - pos] ELSE s[j]]
  BY <1>1, <1>5 DEF Store!Overwrite
<1> QED
  BY <1>2, <1>6, <1>7 DEF B, w, s, WrittenTo

-----------------------------------------------------------------------------
(* Each call is one of the store's. *)

\* What is true of the disk when no name is cut short.
StoreInv == FatInv /\ Plain(dirs)

\* An entry under its own name.
PlainEntry(e) ==
  e.name \in Names /\ e.as = e.name /\ (e.dir => e.first \in Clusters /\ e.size = 0)

\* One entry changes.
LEMMA PlainStep ==
  ASSUME NEW D, NEW E, Plain(D), NEW d, NEW s, SameBut(D, E, d, s),
         d \in Table /\ s \in Ents(E, d) => PlainEntry(E[d][s])
  PROVE  Plain(E)
<1> SUFFICES ASSUME NEW x \in Table, NEW i \in Ents(E, x) PROVE PlainEntry(E[x][i])
  BY DEF Plain, PlainEntry
<1>1. CASE x = d /\ i = s
  BY <1>1
<1>2. CASE x # d \/ i # s
  <2>1. i \in Ents(D, x) /\ E[x][i] = D[x][i]
    BY <1>2 DEF SameBut, Ents
  <2> QED
    BY <2>1 DEF Plain, PlainEntry
<1> QED
  BY <1>1, <1>2

\* The entry of a new file or directory.
LEMMA EntryPlain ==
  ASSUME Names \cap Clipped = {}, NEW n \in Names, NEW dir \in BOOLEAN, NEW first, NEW size,
         dir => first \in Clusters /\ size = 0
  PROVE  PlainEntry(Entry(n, dir, first, size)) /\ Entry(n, dir, first, size).name = n /\ Short(n) = n
         /\ Entry(n, dir, first, size).dir = dir /\ Entry(n, dir, first, size).size = size
<1>1. Short(n) = n
  BY DEF Short
<1> QED
  BY <1>1 DEF Entry, PlainEntry

\* What the disk and the descriptors show, before and after a step.
LEMMA Shown ==
  ASSUME FatOK, KernelApi = FALSE, FatInv, Plain(dirs)
  PROVE  /\ TreeOK(dirs) /\ IsPaths(dirs, PathsIn(dirs))
         /\ IsTree(fat, cells, dirs, PathsIn(dirs), StoredTree)
         /\ OpenHandles = HandlesOf(PathsIn(dirs), nodes, files)
<1>1. TreeOK(dirs) /\ FilesOK(nodes, files) /\ NodesOK(dirs, nodes, files)
  BY DEF FatInv, TreeOK
<1> QED
  BY <1>1, PathsFound, TreeMirrored, TreeShape, HandlesMirrored, HandlesShape

\* The same of the state after the step.
LEMMA ShownNext ==
  ASSUME FatOK, KernelApi = FALSE, FatInv', Plain(dirs')
  PROVE  /\ TreeOK(dirs') /\ IsPaths(dirs', PathsIn(dirs'))
         /\ IsTree(fat', cells', dirs', PathsIn(dirs'), StoredTree')
         /\ OpenHandles' = HandlesOf(PathsIn(dirs'), nodes', files')
<1>1. TreeOK(dirs') /\ FilesOK(nodes', files') /\ NodesOK(dirs', nodes', files')
  BY DEF FatInv, TreeOK
<1>2. IsPaths(dirs', PathsIn(dirs'))
  BY <1>1, PathsFound
<1>3. IsTree(fat', cells', dirs', PathsIn(dirs'), TreeIn(fat', cells', dirs'))
  BY <1>1, TreeShape
<1>4. HandlesIn(dirs', nodes', files') = HandlesOf(PathsIn(dirs'), nodes', files')
  BY <1>1, HandlesShape
<1> QED
  BY <1>1, <1>2, <1>3, <1>4, TreeMirrored, HandlesMirrored

\* A directory's path is in the tree, and is one of a directory.
LEMMA InTree ==
  ASSUME FatOK, NEW D, TreeOK(D), NEW R, IsPaths(D, R), NEW f, NEW C, NEW t, IsTree(f, C, D, R, t),
         NEW x \in R
  PROVE  x[1] \in {<<>>} \cup {p \in DOMAIN t : t[p].dir}
<1>1. CASE x = Root
  BY <1>1, PairIs
<1>2. CASE x # Root
  <2>1. PICK z \in R : IsBelow(D, z, x)
    BY <1>2 DEF IsPaths
  <2>2. PICK i \in Ents(D, z[2]) : D[z[2]][i].dir /\ x = Below(D, z, i)
    BY <2>1 DEF IsBelow
  <2>3. x[1] = FilePath(D, z, i)
    BY <2>2 DEF Below, FilePath
  <2>4. x[1] \in DOMAIN t /\ t[x[1]] = Item(f, C, D[z[2]][i])
    BY <2>3 DEF IsTree
  <2>5. t[x[1]].dir
    BY <2>2, <2>4 DEF Item
  <2> QED
    BY <2>4, <2>5
<1> QED
  BY <1>1, <1>2

\* A path of the tree leads below another one only when that is a directory's.
LEMMA BelowPath ==
  ASSUME FatOK, NEW D, TreeOK(D), NEW R, IsPaths(D, R), NEW f, NEW C, NEW t, IsTree(f, C, D, R, t),
         NEW x \in R, NEW s \in Ents(D, x[2]), NEW q \in DOMAIN t,
         SubSeq(q, 1, Len(q) - 1) = FilePath(D, x, s)
  PROVE  D[x[2]][s].dir /\ Ents(D, D[x[2]][s].first) # {}
<1>1. PICK y \in R : \E j \in Ents(D, y[2]) : q = FilePath(D, y, j)
  BY DEF IsTree
<1>2. PICK j \in Ents(D, y[2]) : q = FilePath(D, y, j)
  BY <1>1
<1>3. y[1] = FilePath(D, x, s)
  BY <1>2, FilePathIs
<1>4. y # Root
  BY <1>3, FilePathIs, PairIs
<1>5. PICK z \in R : IsBelow(D, z, y)
  BY <1>4 DEF IsPaths
<1>6. PICK i \in Ents(D, z[2]) : D[z[2]][i].dir /\ y = Below(D, z, i)
  BY <1>5 DEF IsBelow
<1>7. FilePath(D, z, i) = FilePath(D, x, s)
  BY <1>3, <1>6 DEF Below, FilePath
<1>8. z = x /\ i = s
  BY <1>6, <1>7, EntryByPath
<1>9. y[2] = D[x[2]][s].first
  BY <1>6, <1>8 DEF Below
<1> QED
  BY <1>2, <1>6, <1>8, <1>9

\* The paths of entries are within the bound.
LEMMA PathFits ==
  ASSUME FatOK, NEW D, TreeOK(D), NEW x \in PathsIn(D), SlotsOf(x[2]) # {}, NEW n \in Names
  PROVE  Append(x[1], n) \in Store!PathSet
<1> DEFINE R == PathsIn(D)
           depth == IF DirSlots = 0 THEN 1 ELSE Last
           a == x[1]
           k == Len(a) + 1
<1>1. IsPaths(D, R) /\ Len(x[1]) < Last
  BY PathsFound
<1>2. a \in Seq(Names) /\ Len(a) \in Nat
  BY <1>1, PairIs DEF IsPaths
<1>3. k \in 1 .. depth
  <2>1. CASE DirSlots = 0
    <3>1. x[2] = 0
      BY <2>1 DEF SlotsOf
    <3>2. x = Root
      BY <1>1, <3>1, PathsDiffer, PairIs DEF IsPaths
    <3> QED
      BY <2>1, <3>2, PairIs
  <2>2. CASE DirSlots # 0
    BY <1>1, <1>2, <2>2 DEF FatOK
  <2> QED
    BY <2>1, <2>2
<1> HIDE DEF a, depth
<1>4. Append(a, n) \in [1 .. k -> Names]
  <2>1. Append(a, n) \in Seq(Names) /\ Len(Append(a, n)) = k
    BY <1>2, AppendProperties
  <2> HIDE DEF k
  <2> QED
    BY <2>1, LenProperties
<1> HIDE DEF k
<1>5. Append(a, n) \in UNION {[1 .. m -> Names] : m \in 1 .. depth}
  BY <1>3, <1>4
<1> QED
  BY <1>5 DEF Store!PathSet, a, depth

\* A handle for a descriptor's file.
Handle(R, N, r) == [path |-> NodePathOf(R, N[r.node]), pos |-> r.pos, append |-> r.append]

\* A path goes by the vnode's directory and name.
LEMMA SameNodePath ==
  ASSUME NEW R, NEW v, NEW w, w.dir = v.dir, w.name = v.name
  PROVE  NodePathOf(R, w) = NodePathOf(R, v)
BY DEF NodePathOf

\* The vnodes of the descriptors but fd keep their names.
NodesStay(N, F, fd, M) ==
  \A g \in Fds : \A r \in F[g] : g # fd =>
    M[r.node].dir = N[r.node].dir /\ M[r.node].name = N[r.node].name

\* The handle of fd becomes that of the file q.
Moves(R, N, F, fd, q, M, G) ==
  HandlesOf(R, M, G) = [HandlesOf(R, N, F) EXCEPT ![fd] = {Handle(R, M, q)}]

\* One descriptor is opened or moves, and the other vnodes keep their entries.
LEMMA HandleMoves ==
  ASSUME NEW R, NEW N, NEW F, FilesOK(N, F), NEW fd \in Fds, NEW q, NEW M, NEW G,
         [F EXCEPT ![fd] = {q}] = G, NodesStay(N, F, fd, M)
  PROVE  Moves(R, N, F, fd, q, M, G)
<1> DEFINE Shows(K, H, g) == {Handle(R, K, r) : r \in H[g]}
<1>1. HandlesOf(R, M, G) = [g \in Fds |-> Shows(M, G, g)]
  BY DEF HandlesOf, Handle
<1>2. HandlesOf(R, N, F) = [g \in Fds |-> Shows(N, F, g)]
  BY DEF HandlesOf, Handle
<1>3. DOMAIN F = Fds
  BY DEF FilesOK
<1>4. Shows(M, G, fd) = {Handle(R, M, q)}
  BY <1>3
<1>5. ASSUME NEW g \in Fds, g # fd PROVE Shows(M, G, g) = Shows(N, F, g)
  <2>1. G[g] = F[g]
    BY <1>3, <1>5
  <2>2. ASSUME NEW r \in F[g] PROVE Handle(R, M, r) = Handle(R, N, r)
    <3>1. M[r.node].dir = N[r.node].dir /\ M[r.node].name = N[r.node].name
      BY <1>5 DEF NodesStay
    <3> QED
      BY <3>1, SameNodePath DEF Handle
  <2> HIDE DEF Handle
  <2> QED
    BY <2>1, <2>2
<1> DEFINE k == HandlesOf(R, M, G)
           h == HandlesOf(R, N, F)
           e == {Handle(R, M, q)}
           Now(g) == Shows(M, G, g)
           Was(g) == Shows(N, F, g)
<1>6. k = [g \in Fds |-> Now(g)] /\ h = [g \in Fds |-> Was(g)]
  BY <1>1, <1>2
<1>7. Now(fd) = e /\ \A g \in Fds : g # fd => Now(g) = Was(g)
  BY <1>4, <1>5
<1> HIDE DEF Shows, k, h, e, Now, Was
<1>8. k = [h EXCEPT ![fd] = e]
  BY <1>6, <1>7
<1> QED
  BY <1>8 DEF k, h, e, Moves

\* The paths of open files stay when those of their directories do.
LEMMA HandlesStay ==
  ASSUME FatOK, NEW D, TreeOK(D), PathsOK(D), NEW R, IsPaths(D, R), NEW E, TreeOK(E), NEW S, IsPaths(E, S),
         NEW N, NEW F, FilesOK(N, F), NodesOK(D, N, F),
         Hollow(D, R, S)
  PROVE  HandlesOf(S, N, F) = HandlesOf(R, N, F)
<1>1. ASSUME NEW fd \in Fds, NEW r \in F[fd] PROVE NodePathOf(S, N[r.node]) = NodePathOf(R, N[r.node])
  <2> DEFINE v == N[r.node]
  <2>1. v.dir \in Table /\ NodeOK(D, v)
    BY DEF FilesOK, FileSet, NodeSet, NodesOK
  <2>2. Ents(D, v.dir) # {}
    BY <2>1 DEF NodeOK
  <2>3. v.dir \in Dirs(D)
    BY <2>1, <2>2 DEF PathsOK
  <2> HIDE DEF v
  <2>4. PICK y \in R : y[2] = v.dir
    BY <2>3, PathsReach
  <2>5. y \in S
    BY <2>2, <2>4 DEF Hollow
  <2>6. NodePathOf(R, v) = Append(y[1], v.name)
    BY <2>4, NodePathIs
  <2>7. NodePathOf(S, v) = Append(y[1], v.name)
    BY ONLY FatOK, TreeOK(E), IsPaths(E, S), <2>4, <2>5, NodePathIs
  <2> QED
    BY <2>6, <2>7 DEF v
<1>2. \A fd \in Fds :
        {[path |-> NodePathOf(S, N[r.node]), pos |-> r.pos, append |-> r.append] : r \in F[fd]}
        = {[path |-> NodePathOf(R, N[r.node]), pos |-> r.pos, append |-> r.append] : r \in F[fd]}
  BY <1>1
<1> QED
  BY <1>2 DEF HandlesOf

\* The handle that a descriptor shows.
LEMMA HandleIs ==
  ASSUME NEW R, NEW N, NEW F, NEW fd \in Fds
  PROVE  /\ HandlesOf(R, N, F)[fd] = {Handle(R, N, r) : r \in F[fd]}
         /\ HandlesOf(R, N, F)[fd] = {} <=> F[fd] = {}
BY DEF HandlesOf, Handle

\* As long as the disk stays, what it shows does.
LEMMA SameDisk ==
  ASSUME UNCHANGED <<fat, cells, dirs>>
  PROVE  StoredTree' = StoredTree
BY TreeMirrored

\* How much a file holds.
LEMMA DataLen ==
  ASSUME NEW f, NEW C, NEW e, e.size \in Nat
  PROVE  Len(DataIn(f, C, e)) = e.size
<1> DEFINE Cell(j) == C[NthIn(f, e.first, (j - 1) \div Width)][(j - 1) % Width]
           n == e.size
<1>1. DataIn(f, C, e) = [j \in 1 .. n |-> Cell(j)] /\ n \in Nat
  BY DEF DataIn
<1> HIDE DEF Cell, n
<1>2. Len(DataIn(f, C, e)) = n
  BY <1>1
<1> QED
  BY <1>2 DEF n

\* An open file in the tree.
InStore(fd, v, i, R) ==
  \E x \in R :
    /\ x[2] = v.dir /\ NodePathOf(R, v) = FilePath(dirs, x, i)
    /\ i \in Ents(dirs, v.dir) /\ NodePathOf(R, v) \in DOMAIN StoredTree
    /\ StoredTree[NodePathOf(R, v)] = Item(fat, cells, dirs[v.dir][i])
    /\ Len(DataIn(fat, cells, dirs[v.dir][i])) = v.size
    /\ OpenHandles[fd] = {Handle(R, nodes, FileOf(fd))}

\* That is what every open descriptor shows.
LEMMA OpenPath ==
  ASSUME FatOK, KernelApi = FALSE, FatInv, Plain(dirs), NEW fd \in Open
  PROVE  LET v == nodes[FileOf(fd).node]
         IN InStore(fd, v, FindShort(v.dir, v.name), PathsIn(dirs))
<1> DEFINE v == nodes[FileOf(fd).node]
           i == FindShort(v.dir, v.name)
           R == PathsIn(dirs)
<1>1. /\ v.dir \in Table /\ i \in Ents(dirs, v.dir) /\ dirs[v.dir][i].name = v.name
      /\ dirs[v.dir][i].size = v.size /\ v.size \in Nat
  BY OpenIs
<1>2. /\ TreeOK(dirs) /\ IsPaths(dirs, R) /\ IsTree(fat, cells, dirs, R, StoredTree)
      /\ OpenHandles = HandlesOf(R, nodes, files)
  BY Shown
<1> HIDE DEF v, i, R
<1>3. v.dir \in Dirs(dirs)
  BY <1>1 DEF FatInv, PathsOK
<1>4. PICK x \in R : x[2] = v.dir
  BY <1>2, <1>3, PathsReach
<1>5. NodePathOf(R, v) = FilePath(dirs, x, i)
  BY <1>1, <1>2, <1>4, NodePathIs DEF FilePath
<1>6. FilePath(dirs, x, i) \in DOMAIN StoredTree
      /\ StoredTree[FilePath(dirs, x, i)] = Item(fat, cells, dirs[v.dir][i])
  BY <1>1, <1>2, <1>4 DEF IsTree
<1>7. Len(DataIn(fat, cells, dirs[v.dir][i])) = v.size
  BY <1>1, DataLen
<1>8. fd \in Fds /\ files[fd] = {FileOf(fd)}
  BY FileIs DEF Open, FatInv
<1>9. OpenHandles[fd] = {Handle(R, nodes, FileOf(fd))}
  BY <1>2, <1>8, HandleIs
<1>10. InStore(fd, v, i, R)
  BY <1>1, <1>4, <1>5, <1>6, <1>7, <1>9 DEF InStore
<1> QED
  BY <1>10 DEF v, i, R

\* Duplicating a descriptor duplicates the handle.
LEMMA StoreDuplicates ==
  ASSUME FatOK, KernelApi = FALSE, FatInv, Plain(dirs), NEW fd \in Fds, NEW other \in Fds,
         Duplicate(fd, other)
  PROVE  Plain(dirs') /\ Store!Duplicate(fd, other)
<1> DEFINE R == PathsIn(dirs)
<1>1. /\ fd \in Open /\ files[other] = {} /\ files' = [files EXCEPT ![other] = files[fd]]
      /\ UNCHANGED <<fat, cells, dirs, nodes>>
  BY DEF Duplicate
<1>2. FatInv' /\ Plain(dirs') /\ DOMAIN files = Fds
  BY <1>1, Duplicates DEF FatInv, FilesOK
<1>3. OpenHandles = HandlesOf(R, nodes, files) /\ OpenHandles' = HandlesOf(R, nodes, files')
  BY <1>1, <1>2, Shown, ShownNext
<1>4. OpenHandles[fd] # {} /\ OpenHandles[other] = {}
  BY <1>1, <1>3, HandleIs DEF Open
<1>5. OpenHandles' = [OpenHandles EXCEPT ![other] = OpenHandles[fd]]
  <2> DEFINE Shows(g) == {[path |-> NodePathOf(R, nodes[r.node]), pos |-> r.pos, append |-> r.append] : r \in files[g]}
             Then(g) == {[path |-> NodePathOf(R, nodes[r.node]), pos |-> r.pos, append |-> r.append] : r \in files'[g]}
  <2>1. OpenHandles = [g \in Fds |-> Shows(g)] /\ OpenHandles' = [g \in Fds |-> Then(g)]
    BY <1>3 DEF HandlesOf
  <2>2. Then(other) = Shows(fd) /\ \A g \in Fds : g # other => Then(g) = Shows(g)
    BY <1>1, <1>2
  <2> HIDE DEF Shows, Then
  <2> QED
    BY <2>1, <2>2
<1>6. StoredTree' = StoredTree
  BY <1>1, SameDisk
<1> QED
  BY <1>2, <1>4, <1>5, <1>6 DEF Store!Duplicate

\* Closing a descriptor closes the handle; vnodes that others use stay.
LEMMA StoreCloses ==
  ASSUME FatOK, KernelApi = FALSE, FatInv, Plain(dirs), NEW fd \in Fds, Close(fd)
  PROVE  Plain(dirs') /\ Store!Close(fd)
<1> DEFINE R == PathsIn(dirs)
<1>1. /\ fd \in Open /\ files' = [files EXCEPT ![fd] = {}]
      /\ nodes' = [k \in Fds |-> IF \E g \in Open \ {fd} : FileOf(g).node = k THEN nodes[k] ELSE NoNode]
      /\ UNCHANGED <<fat, cells, dirs>>
  BY DEF Close
<1>2. FatInv' /\ Plain(dirs') /\ DOMAIN files = Fds /\ FilesOK(nodes, files)
  BY <1>1, Closes DEF FatInv, FilesOK
<1>3. OpenHandles = HandlesOf(R, nodes, files) /\ OpenHandles' = HandlesOf(R, nodes', files')
  BY <1>1, <1>2, Shown, ShownNext
<1>4. OpenHandles[fd] # {}
  BY <1>1, <1>3, HandleIs DEF Open
<1>5. OpenHandles' = [OpenHandles EXCEPT ![fd] = {}]
  <2> DEFINE Shows(g) == {Handle(R, nodes, r) : r \in files[g]}
             Then(g) == {Handle(R, nodes', r) : r \in files'[g]}
  <2>1. OpenHandles = [g \in Fds |-> Shows(g)] /\ OpenHandles' = [g \in Fds |-> Then(g)]
    BY <1>3 DEF HandlesOf, Handle
  <2>2. Then(fd) = {}
    BY <1>1, <1>2
  <2>3. ASSUME NEW g \in Fds, g # fd PROVE Then(g) = Shows(g)
    <3>1. files'[g] = files[g]
      BY <1>1, <1>2, <2>3
    <3>2. ASSUME NEW r \in files[g] PROVE Handle(R, nodes', r) = Handle(R, nodes, r)
      <4>1. g \in Open \ {fd} /\ FileOf(g) = r /\ r.node \in Fds
        BY <1>2, <2>3, <3>2, FileIs DEF Open, FileSet
      <4>2. nodes'[r.node] = nodes[r.node]
        BY <1>1, <4>1
      <4> QED
        BY <4>2 DEF Handle
    <3> HIDE DEF Handle
    <3> QED
      BY <3>1, <3>2
  <2> HIDE DEF Shows, Then
  <2> QED
    BY <2>1, <2>2, <2>3
<1>6. StoredTree' = StoredTree
  BY <1>1, SameDisk
<1> QED
  BY <1>2, <1>4, <1>5, <1>6 DEF Store!Close

\* A read moves the handle's position over what the file holds.
LEMMA StoreReads ==
  ASSUME FatOK, KernelApi = FALSE, FatInv, Plain(dirs), NEW fd \in Fds, NEW n \in 1 .. MaxCount,
         Read(fd, n)
  PROVE  Plain(dirs') /\ Store!Read(fd, n)
<1> DEFINE R == PathsIn(dirs)
           f == FileOf(fd)
           v == nodes[f.node]
           i == FindShort(v.dir, v.name)
           got == Len(Got(v, f.pos, n))
           q == [f EXCEPT !.pos = f.pos + got]
           p == NodePathOf(R, v)
           pos == IF f.pos + n < v.size THEN f.pos + n ELSE v.size
<1>1. /\ fd \in Open /\ files' = [files EXCEPT ![fd] = {q}] /\ UNCHANGED <<fat, cells, dirs, nodes>>
  BY DEF Read
<1>2. FatInv' /\ Plain(dirs') /\ FilesOK(nodes, files) /\ ChainsOK(fat)
  BY <1>1, Reads DEF FatInv
<1>3. /\ f \in FileSet /\ f.pos \in Nat /\ v.first \in Table /\ v.size \in Nat /\ f.pos <= v.size
      /\ dirs[v.dir][i].first = v.first /\ dirs[v.dir][i].size = v.size /\ ~dirs[v.dir][i].dir
      /\ EntryOK(fat, dirs[v.dir][i])
  BY <1>1, OpenIs
<1>4. n \in Nat
  OBVIOUS
<1>5. OpenHandles = HandlesOf(R, nodes, files) /\ OpenHandles' = HandlesOf(R, nodes, files')
  BY <1>1, <1>2, Shown, ShownNext
<1>6. /\ StoredTree[p] = Item(fat, cells, dirs[v.dir][i])
      /\ Len(DataIn(fat, cells, dirs[v.dir][i])) = v.size
      /\ OpenHandles[fd] = {Handle(R, nodes, f)}
  <2>1. InStore(fd, v, i, R)
    BY <1>1, OpenPath
  <2> HIDE DEF v, i, R
  <2> QED
    BY <2>1 DEF InStore
<1>7. f.pos + got = pos
  <2> DEFINE at == f.pos
             m == IF n < v.size - at THEN n ELSE v.size - at
  <2>0. at \in Nat /\ at <= v.size /\ v.size \in Nat /\ v.first \in Table
    BY <1>3
  <2> HIDE DEF at, v
  <2>1. m \in Nat /\ at + m = IF at + n < v.size THEN at + n ELSE v.size
    BY <1>4, <2>0
  <2>2. v.first \in Clusters => Starts(fat, v.first)
    BY <1>3 DEF EntryOK
  <2>3. Cardinality(Chain(fat, v.first)) = Chunks(v.size)
    BY <1>3 DEF EntryOK
  <2>4. m = IF n < v.size - at THEN n ELSE v.size - at
    OBVIOUS
  <2> HIDE DEF m
  <2>5. Got(v, at, n) = [j \in 1 .. m |->
              cells[Nth(v.first, (at + j - 1) \div Width)][(at + j - 1) % Width]]
    <3>1. ChainsOK(fat) /\ FatOK /\ n \in Nat /\ m \in Nat
      BY <1>2, <1>4, <2>1
    <3> HIDE DEF pos, i, got, q, p, R
    <3> QED
      BY <3>1, <2>0, <2>2, <2>3, <2>4, GotIs, SMTT(60)
  <2>6. Len(Got(v, at, n)) = m
    BY <2>1, <2>5
  <2> QED
    BY <2>1, <2>6 DEF at
<1>8. q.node = f.node /\ q.pos = pos /\ q.append = f.append
  BY <1>3, <1>7 DEF FileSet
<1>9. OpenHandles' = [OpenHandles EXCEPT ![fd] = {Handle(R, nodes, q)}]
  <2> HIDE DEF q, R
  <2>1. FilesOK(nodes, files) /\ files' = [files EXCEPT ![fd] = {q}]
    BY <1>1, <1>2
  <2>2. NodesStay(nodes, files, fd, nodes) /\ [files EXCEPT ![fd] = {q}] = files'
    BY <2>1 DEF NodesStay
  <2>3. Moves(R, nodes, files, fd, q, nodes, files')
    BY <2>1, <2>2, HandleMoves
  <2> QED
    BY <1>5, <2>3 DEF Moves
<1> DEFINE h == Handle(R, nodes, f)
<1>10. Handle(R, nodes, q) = [h EXCEPT !.pos = pos] /\ h.path = p /\ h.pos = f.pos
  <2> HIDE DEF q, pos, p
  <2> QED
    BY <1>8 DEF Handle, p
<1>11. StoredTree' = StoredTree /\ Len(StoredTree[h.path].data) = v.size
  BY <1>1, <1>6, <1>10, SameDisk DEF Item
<1> HIDE DEF h, q, f, v, p, R
<1> QED
  BY <1>2, <1>6, <1>9, <1>10, <1>11 DEF Store!Read, h

\* Descriptor fd shows the file at path p, newly opened.
HandleOpened(fd, p, append) ==
  /\ OpenHandles[fd] = {}
  /\ p \in DOMAIN StoredTree' /\ ~StoredTree'[p].dir
  /\ OpenHandles' = [OpenHandles EXCEPT ![fd] =
       {[path |-> p, pos |-> IF append THEN Len(StoredTree'[p].data) ELSE 0, append |-> append]}]

\* So it does once vfs_open has made a vnode for the entry.
LEMMA OpensHandle ==
  ASSUME FatOK, KernelApi = FALSE, FatInv, Plain(dirs), FatInv', Plain(dirs'),
         PathsIn(dirs') = PathsIn(dirs),
         NEW fd \in Fds, files[fd] = {}, NEW append \in BOOLEAN,
         NEW x \in PathsIn(dirs), NEW k \in Ents(dirs', x[2]), ~dirs'[x[2]][k].dir,
         OpenEntry(dirs', x[2], k, fd, append)
  PROVE  HandleOpened(fd, FilePath(dirs', x, k), append)
<1> DEFINE R == PathsIn(dirs)
           e == dirs'[x[2]][k]
           v == [dir |-> x[2], name |-> e.name, first |-> e.first, size |-> e.size]
           pos == IF append THEN e.size ELSE 0
           q == [node |-> FreshNode, append |-> append, pos |-> pos]
           p == FilePath(dirs', x, k)
<1>1. nodes' = [nodes EXCEPT ![FreshNode] = v] /\ files' = [files EXCEPT ![fd] = {q}]
  BY DEF OpenEntry
<1>2. FilesOK(nodes, files) /\ DOMAIN nodes = Fds
  BY DEF FatInv, FilesOK
<1>3. FreshNode \in Fds /\ \A g \in Fds : \A r \in files[g] : r.node # FreshNode
  BY <1>2, FreshIs
<1>4. OpenHandles = HandlesOf(R, nodes, files) /\ OpenHandles' = HandlesOf(R, nodes', files')
  BY Shown, ShownNext
<1>5. /\ TreeOK(dirs') /\ IsPaths(dirs', R) /\ IsTree(fat', cells', dirs', R, StoredTree')
  BY ShownNext
<1>6. x[2] \in Table /\ e.size \in Nat
  <2>1. x[2] \in Table
    BY <1>5, PairIs DEF IsPaths
  <2> QED
    BY <1>5, <2>1, Seen DEF TreeOK, Ents, SlotSet
<1>7. p \in DOMAIN StoredTree' /\ StoredTree'[p] = Item(fat', cells', e)
  BY <1>5 DEF IsTree
<1>8. ~StoredTree'[p].dir /\ Len(StoredTree'[p].data) = e.size
  <2> HIDE DEF e, p
  <2>1. Len(DataIn(fat', cells', e)) = e.size
    BY <1>6, DataLen
  <2> QED
    BY <1>7, <2>1 DEF Item, e
<1>9. OpenHandles[fd] = {}
  BY <1>4, HandleIs
<1>10. OpenHandles' = [OpenHandles EXCEPT ![fd] = {Handle(R, nodes', q)}]
  <2>1. NodesStay(nodes, files, fd, nodes')
    <3> HIDE DEF v
    <3>1. \A g \in Fds : \A r \in files[g] : nodes'[r.node] = nodes[r.node]
      BY <1>1, <1>2, <1>3
    <3> QED
      BY <3>1 DEF NodesStay
  <2> HIDE DEF q, R
  <2>2. [files EXCEPT ![fd] = {q}] = files'
    BY <1>1
  <2>3. Moves(R, nodes, files, fd, q, nodes', files')
    BY <1>2, <2>1, <2>2, HandleMoves
  <2> QED
    BY <1>4, <2>3 DEF Moves
<1>11. Handle(R, nodes', q) = [path |-> p, pos |-> pos, append |-> append]
  <2>1. nodes'[FreshNode] = v
    BY <1>1, <1>2, <1>3
  <2>2. NodePathOf(R, v) = p
    <3>1. v.dir = x[2] /\ v.name = e.name
      OBVIOUS
    <3> HIDE DEF v
    <3> QED
      BY <1>5, <3>1, NodePathIs DEF FilePath
  <2> HIDE DEF v, p, R, pos
  <2> QED
    BY <2>1, <2>2 DEF Handle
<1> HIDE DEF e, v, q, p, R
<1> QED
  BY <1>7, <1>8, <1>9, <1>10, <1>11 DEF HandleOpened, p

\* With the same table and cells, all entries show what they did.
LEMMA SameItems ==
  ASSUME NEW f, NEW C, NEW D, NEW d, NEW s
  PROVE  ItemsKept(f, C, f, C, D, d, s)
BY DEF ItemsKept

\* An empty file or a new directory.
LEMMA NewItem ==
  ASSUME NEW f, NEW C, NEW e, e.size = 0
  PROVE  Item(f, C, e) = [dir |-> e.dir, data |-> <<>>]
<1> DEFINE Cell(j) == C[NthIn(f, e.first, (j - 1) \div Width)][(j - 1) % Width]
<1>1. DataIn(f, C, e) = [j \in 1 .. 0 |-> Cell(j)]
  BY DEF DataIn
<1> HIDE DEF Cell
<1>2. DataIn(f, C, e) = <<>>
  BY <1>1
<1> QED
  BY <1>2 DEF Item

\* Opening a file, which makes it when it is not there, opens it in the store.
LEMMA StoreOpens ==
  ASSUME FatOK, Sharing = FALSE, KernelApi = FALSE, Names \cap Clipped = {}, FatInv, Plain(dirs),
         NEW d \in Directories, NEW n \in Names, NEW fd \in Fds, NEW append \in BOOLEAN,
         OpenFile(d, n, fd, append)
  PROVE  Plain(dirs') /\ \E p \in Store!PathSet : Store!Open(fd, p, append)
<1> DEFINE R == PathsIn(dirs)
           i == Find(d, n)
           s == Slot(d)
<1>1. FatInv' /\ UNCHANGED <<fat, cells, lost>> /\ files[fd] = {} /\ DirsOK(dirs) /\ PathsOK(dirs)
  BY Opens DEF OpenFile, FatInv
<1>2. /\ TreeOK(dirs) /\ IsPaths(dirs, R) /\ IsTree(fat, cells, dirs, R, StoredTree)
  BY Shown
<1>3. d \in Dirs(dirs) /\ d \in Table
  BY <1>1, DirectoriesAre DEF Directories
<1>4. PICK x \in R : x[2] = d
  BY <1>2, <1>3, PathsReach
<1>5. Short(n) = n
  BY EntryPlain
<1>6. CASE i # 0
  <2>1. UNCHANGED dirs /\ ~dirs[d][i].dir /\ OpenEntry(dirs, d, i, fd, append)
    BY <1>6 DEF OpenFile
  <2>2. i \in Ents(dirs, d) /\ dirs[d][i].name = n
    BY <1>1, <1>3, <1>5, <1>6, Finds, FoundShort
  <2> HIDE DEF i
  <2> DEFINE p == FilePath(dirs, x, i)
  <2>3. HandleOpened(fd, p, append)
    <3>1. PathsIn(dirs') = PathsIn(dirs) /\ Plain(dirs') /\ x \in PathsIn(dirs)
      BY <2>1
    <3>2. i \in Ents(dirs', x[2]) /\ ~dirs'[x[2]][i].dir /\ OpenEntry(dirs', x[2], i, fd, append)
          /\ p = FilePath(dirs', x, i)
      BY <1>4, <2>1, <2>2
    <3> HIDE DEF p, R
    <3> QED
      BY <1>1, <3>1, <3>2, OpensHandle
  <2>4. StoredTree' = StoredTree /\ p \in DOMAIN StoredTree
    BY <1>1, <1>2, <1>4, <2>1, <2>2, SameDisk DEF IsTree
  <2>5. p \in Store!PathSet
    <3>1. SlotsOf(x[2]) # {} /\ p = Append(x[1], n)
      BY <1>4, <2>2 DEF Ents, FilePath
    <3> QED
      BY <1>2, <3>1, PathFits
  <2> HIDE DEF p
  <2>6. Store!Open(fd, p, append)
    BY <2>3, <2>4 DEF Store!Open, Store!Paths, HandleOpened
  <2> QED
    BY <2>1, <2>5, <2>6
<1>7. CASE i = 0
  <2> DEFINE e == Entry(n, FALSE, 0, 0)
             p == FilePath(dirs', x, s)
  <2>1. s # 0 /\ Insert(dirs, d, e) = dirs' /\ OpenEntry(dirs', d, s, fd, append)
    BY <1>7 DEF OpenFile
  <2>2. /\ DirsOK(dirs') /\ SameBut(dirs, dirs', d, s) /\ s \notin Ents(dirs, d) /\ s \in Ents(dirs', d)
        /\ dirs'[d][s] = e
    <3> HIDE DEF e
    <3> QED
      BY <1>7, <2>1, Created DEF e
  <2>3. PlainEntry(e) /\ e.name = n /\ ~e.dir /\ e.dir = FALSE /\ e.size = 0
    BY <1>5 DEF Entry, PlainEntry
  <2> HIDE DEF e, s, i
  <2>4. Plain(dirs')
    BY <2>2, <2>3, PlainStep
  <2>5. TreeOK(dirs') /\ IsPaths(dirs', PathsIn(dirs'))
        /\ IsTree(fat', cells', dirs', PathsIn(dirs'), StoredTree')
    BY <1>1, <2>4, ShownNext
  <2>6. IsPaths(dirs', R)
    BY <1>2, <2>2, <2>3, <2>5, DirPathsStay
  <2>7. PathsIn(dirs') = R
    BY <2>5, <2>6, OnePaths
  <2>8. HandleOpened(fd, p, append)
    <3>1. PathsIn(dirs') = PathsIn(dirs) /\ x \in PathsIn(dirs)
      BY <2>7
    <3>2. s \in Ents(dirs', x[2]) /\ ~dirs'[x[2]][s].dir /\ OpenEntry(dirs', x[2], s, fd, append)
      BY <1>4, <2>1, <2>2, <2>3
    <3> HIDE DEF R
    <3> QED
      BY <1>1, <2>4, <3>1, <3>2, OpensHandle
  <2>9. p \notin DOMAIN StoredTree /\ StoredTree' = WithPath(StoredTree, p, Store!NewFile)
    <3>1. ItemsKept(fat, cells, fat', cells', dirs, d, s)
      BY <1>1, SameItems
    <3>2. Item(fat', cells', dirs'[d][s]) = Store!NewFile
      <4>1. Item(fat', cells', dirs'[d][s]) = [dir |-> dirs'[d][s].dir, data |-> <<>>]
        BY <2>2, <2>3, NewItem
      <4>2. dirs'[d][s].dir = FALSE
        BY <2>2 DEF e, Entry
      <4> QED
        BY <4>1, <4>2 DEF Store!NewFile
    <3>3. IsTree(fat', cells', dirs', R, StoredTree') /\ Hollow(dirs', R, R) /\ R \subseteq R
      BY <2>5, <2>7 DEF Hollow
    <3> HIDE DEF R
    <3>4. /\ p \notin DOMAIN StoredTree
          /\ StoredTree' = WithPath(StoredTree, p, Item(fat', cells', dirs'[d][s]))
      BY <1>2, <1>3, <1>4, <2>2, <2>5, <2>6, <3>1, <3>3, TreeAdded
    <3> QED
      BY <3>2, <3>4
  <2>10. p = Append(x[1], n) /\ p \in Store!PathSet
    <3>1. SlotsOf(x[2]) # {} /\ p = Append(x[1], n)
      BY <1>4, <2>2, <2>3 DEF Ents, FilePath
    <3> QED
      BY <1>2, <3>1, PathFits
  <2>11. Store!Parent(p) \in Store!Directories
    <3>1. Store!Parent(p) = x[1]
      BY <1>4, <2>2, <2>5, <2>7, FilePathIs DEF Store!Parent
    <3>2. x[1] \in {<<>>} \cup {q \in DOMAIN StoredTree : StoredTree[q].dir}
      BY <1>2, InTree
    <3> QED
      BY <3>1, <3>2 DEF Store!Directories, Store!Paths
  <2> HIDE DEF p
  <2>12. Store!Open(fd, p, append)
    BY <2>8, <2>9, <2>11 DEF Store!Open, Store!Paths, Store!Insert, HandleOpened, WithPath
  <2> QED
    BY <2>4, <2>10, <2>12
<1> QED
  BY <1>6, <1>7

\* Two entries have no cluster in common.
LEMMA OthersApart ==
  ASSUME FatOK, NEW f, ChainsOK(f), NEW D, EntriesOK(f, D), FirstsApart(D),
         NEW d \in Table, NEW s \in Ents(D, d), NEW x \in Table, NEW i \in Ents(D, x), x # d \/ i # s
  PROVE  Chain(f, D[x][i].first) \cap Chain(f, D[d][s].first) = {}
<1> DEFINE a == D[x][i].first
           b == D[d][s].first
<1>1. (a \in Clusters => Starts(f, a)) /\ (b \in Clusters => Starts(f, b))
  BY DEF EntriesOK, EntryOK
<1>2. a = b => a \notin Clusters
  BY DEF FirstsApart
<1> HIDE DEF a, b
<1>3. Chain(f, a) \cap Chain(f, b) = {}
  BY <1>1, <1>2, ChainsApart, ChainNone
<1> QED
  BY <1>3 DEF a, b

\* Removing an entry, and the directory without entries that it names, removes
\* its path and nothing else.
LEMMA StoreRemoves ==
  ASSUME FatOK, KernelApi = FALSE, FatInv, Plain(dirs), FatInv',
         NEW d \in Directories, NEW i \in Ents(dirs, d),
         dirs[d][i].dir => Ents(dirs, dirs[d][i].first) = {},
         Delete(d, i), FreeChain(dirs[d][i].first), UNCHANGED <<cells, nodes, files>>
  PROVE  Plain(dirs') /\ \E p \in Store!PathSet : Store!Remove(p)
<1> DEFINE R == PathsIn(dirs)
           c == dirs[d][i].first
<1>1. /\ DirsOK(dirs) /\ PathsOK(dirs) /\ ChainsOK(fat) /\ EntriesOK(fat, dirs) /\ FirstsApart(dirs)
      /\ FilesOK(nodes, files) /\ NodesOK(dirs, nodes, files)
  BY DEF FatInv
<1>2. /\ TreeOK(dirs) /\ IsPaths(dirs, R) /\ IsTree(fat, cells, dirs, R, StoredTree)
      /\ OpenHandles = HandlesOf(R, nodes, files)
  BY Shown
<1>3. d \in Dirs(dirs) /\ d \in Table
  BY <1>1, DirectoriesAre DEF Directories
<1>4. PICK x \in R : x[2] = d
  BY <1>2, <1>3, PathsReach
<1>5. dirs[d][i].dir => c \in Clusters /\ Ents(dirs, c) = {}
  BY <1>3 DEF Plain
<1>6. DirsOK(dirs') /\ SameBut(dirs, dirs', d, i) /\ i \notin Ents(dirs', d)
  BY <1>1, <1>3, <1>5, Deletes
<1>7. Plain(dirs')
  BY <1>6, PlainStep
<1>8. /\ TreeOK(dirs') /\ IsPaths(dirs', PathsIn(dirs'))
      /\ IsTree(fat', cells', dirs', PathsIn(dirs'), StoredTree')
      /\ OpenHandles' = HandlesOf(PathsIn(dirs'), nodes, files)
  BY <1>7, ShownNext
<1>9. ItemsKept(fat, cells, fat', cells', dirs, d, i)
  <2>1. fat' = [e \in Table |-> IF e \in Chain(fat, c) THEN Free ELSE fat[e]]
    BY DEF FreeChain
  <2>2. ASSUME NEW y \in Table, NEW j \in Ents(dirs, y), y # d \/ j # i,
               NEW b \in Chain(fat, dirs[y][j].first)
        PROVE  cells'[b] = cells[b] /\ fat'[b] = fat[b]
    <3>1. b \notin Chain(fat, c)
      BY <1>1, <1>3, <2>2, OthersApart
    <3>2. b \in Table
      BY ChainIn, Kinds
    <3> HIDE DEF c
    <3> QED
      BY <2>1, <3>1, <3>2
  <2>3. LinksKept(fat, cells, fat', cells', dirs, d, i)
    BY <2>2 DEF LinksKept
  <2> QED
    BY <1>1, <1>2, <2>3, ItemsStay
<1> DEFINE S == PathsIn(dirs')
           p == FilePath(dirs, x, i)
<1>10. S \subseteq R /\ Hollow(dirs, R, S)
  <2>1. CASE dirs[d][i].dir
    <3>1. IsPaths(dirs', R \ {Below(dirs, x, i)})
      BY <1>2, <1>3, <1>4, <1>5, <1>6, <1>8, <2>1, DirPathGone
    <3>2. S = R \ {Below(dirs, x, i)}
      BY <1>8, <3>1, OnePaths
    <3>3. Ents(dirs, Below(dirs, x, i)[2]) = {}
      BY <1>4, <1>5, <2>1 DEF Below
    <3> HIDE DEF S, R
    <3> QED
      BY <3>2, <3>3 DEF Hollow
  <2>2. CASE ~dirs[d][i].dir
    <3>1. IsPaths(dirs', R)
      BY <1>2, <1>6, <1>8, <2>2, DirPathsStay
    <3>2. S = R
      BY <1>8, <3>1, OnePaths
    <3> QED
      BY <3>2 DEF Hollow
  <2> QED
    BY <2>1, <2>2
<1> HIDE DEF R, S, c
<1>11. IsPaths(dirs', S) /\ IsTree(fat', cells', dirs', S, StoredTree')
  BY <1>8 DEF S
<1>12. p \in DOMAIN StoredTree /\ StoredTree' = WithoutPath(StoredTree, p)
  BY <1>2, <1>3, <1>4, <1>6, <1>8, <1>9, <1>10, <1>11, TreeRemoved
<1>13. UNCHANGED OpenHandles
  <2>1. HandlesOf(S, nodes, files) = HandlesOf(R, nodes, files)
    BY <1>1, <1>2, <1>8, <1>10, <1>11, HandlesStay
  <2> QED
    BY <1>2, <1>8, <2>1 DEF S
<1>14. \A q \in DOMAIN StoredTree : SubSeq(q, 1, Len(q) - 1) # p
  <2> SUFFICES ASSUME NEW q \in DOMAIN StoredTree, SubSeq(q, 1, Len(q) - 1) = p PROVE FALSE
    OBVIOUS
  <2>1. i \in Ents(dirs, x[2])
    BY <1>4
  <2>2. dirs[x[2]][i].dir /\ Ents(dirs, dirs[x[2]][i].first) # {}
    BY <1>2, <2>1, BelowPath
  <2> QED
    BY <1>4, <2>2
<1>15. p \in Store!PathSet
  <2>1. SlotsOf(x[2]) # {} /\ p = Append(x[1], dirs[d][i].name) /\ dirs[d][i].name \in Names
    BY <1>3, <1>4 DEF Ents, FilePath, Plain
  <2> QED
    BY <1>2, <1>4, <2>1, PathFits DEF R
<1> HIDE DEF p
<1>16. Store!Remove(p)
  BY <1>12, <1>13, <1>14 DEF Store!Remove, Store!Paths, Store!Parent, Store!Delete, WithoutPath
<1> QED
  BY <1>7, <1>15, <1>16

\* Removing a file or a directory by its name.
LEMMA StoreUnlinks ==
  ASSUME FatOK, Sharing = FALSE, KernelApi = FALSE, FatInv, Plain(dirs),
         NEW d \in Directories, NEW n \in Names, Unlink(d, n)
  PROVE  Plain(dirs') /\ \E p \in Store!PathSet : Store!Remove(p)
<1> DEFINE i == Find(d, n)
<1>1. /\ FatInv' /\ i # 0 /\ ~dirs[d][i].dir /\ Delete(d, i) /\ FreeChain(dirs[d][i].first)
      /\ UNCHANGED <<cells, nodes, files>>
  BY Unlinks DEF Unlink
<1>2. i \in Ents(dirs, d)
  <2>1. DirsOK(dirs) /\ d \in Table
    BY DEF FatInv, Directories
  <2> QED
    BY <1>1, <2>1, Finds, FoundShort
<1> HIDE DEF i
<1> QED
  BY <1>1, <1>2, StoreRemoves

\* Removing a directory that no entry is in.
LEMMA StoreRmdirs ==
  ASSUME FatOK, KernelApi = FALSE, FatInv, Plain(dirs),
         NEW d \in Directories, NEW n \in Names, Rmdir(d, n)
  PROVE  Plain(dirs') /\ \E p \in Store!PathSet : Store!Remove(p)
<1> DEFINE i == Find(d, n)
<1>1. /\ FatInv' /\ i # 0 /\ dirs[d][i].dir /\ Visible(dirs[d][i].first) = {}
      /\ Delete(d, i) /\ FreeChain(dirs[d][i].first) /\ UNCHANGED <<cells, nodes, files>>
  BY Rmdirs DEF Rmdir, IsEmptyDir
<1>2. DirsOK(dirs) /\ d \in Table
  BY DEF FatInv, Directories
<1>3. i \in Ents(dirs, d)
  BY <1>1, <1>2, Finds, FoundShort
<1> HIDE DEF i
<1>4. dirs[d][i].first \in Table
  BY <1>2, <1>3, Seen DEF Ents, SlotSet
<1>5. Ents(dirs, dirs[d][i].first) = {}
  <2> DEFINE c == dirs[d][i].first
  <2>1. c \in Table /\ Visible(c) = {}
    BY <1>1, <1>4
  <2> HIDE DEF c
  <2>2. Ents(dirs, c) = {}
    BY <1>2, <2>1, Seen DEF Visible
  <2> QED
    BY <2>2 DEF c
<1> QED
  BY <1>1, <1>3, <1>5, StoreRemoves

\* The entry of a new directory.
NewDir(n, c) == Entry(n, TRUE, c, 0)

\* What making a directory does to the directories that there are.
LEMMA MadeDir ==
  ASSUME FatOK, FatInv, NEW d \in Directories, NEW n \in Names, Mkdir(d, n),
         NEW c, LeastOf(FreeIn(fat)) = c, NEW s, Slot(d) = s
  PROVE  /\ c \in Clusters /\ fat[c] = Free /\ fat' = [fat EXCEPT ![c] = Eoc]
         /\ UNCHANGED <<cells, nodes, files>>
         /\ s = 0 => SameBut(dirs, dirs', 0, 0)
         /\ s # 0 => /\ SameBut(dirs, dirs', d, s) /\ s \notin Ents(dirs, d) /\ s \in Ents(dirs', d)
                     /\ dirs'[d][s] = NewDir(n, c) /\ Ents(dirs', c) = {}
<1> DEFINE A == [dirs EXCEPT ![c] = Empty(DirSlots)]
           e == Entry(n, TRUE, c, 0)
<1>1. DirsOK(dirs)
  BY DEF FatInv
<1>2. d \in Table /\ d \in Dirs(dirs)
  BY <1>1, DirectoriesAre, DirsHold
<1>3. FreeIn(fat) # {} /\ fat' = [fat EXCEPT ![c] = Eoc] /\ UNCHANGED <<cells, nodes, files>>
  BY DEF Mkdir
<1>4. c \in Clusters /\ fat[c] = Free
  BY <1>3, LeastFree
<1>5. s = 0 => dirs' = A
  BY DEF Mkdir
<1>6. s # 0 => [A EXCEPT ![d][s] = e] = dirs'
  BY DEF Mkdir, Insert
<1>7. e.kind = "entry" /\ e \in SlotSet
  BY <1>4, Kinds DEF Entry, SlotSet, Labels
<1> HIDE DEF e
<1>8. Ents(dirs, c) = {} /\ c # d
  BY <1>2, <1>4, FreeUnnamed
<1>9. DirsOK(A) /\ \A x, i : SameBut(dirs, A, x, i)
  BY <1>1, <1>4, <1>8, Emptied
<1>10. A[d] = dirs[d]
  BY <1>1, <1>2, <1>8 DEF DirsOK
<1> HIDE DEF A
<1>11. CASE s = 0
  BY <1>3, <1>4, <1>5, <1>9, <1>11
<1>12. CASE s # 0
  <2>1. /\ s \in SlotsOf(d) /\ dirs[d][s].kind \in {"end", "deleted"}
        /\ \A j \in SlotsOf(d) : j < s => dirs[d][j].kind = "entry"
    BY <1>1, <1>2, <1>12, SlotFound
  <2>2. SameBut(A, dirs', d, s) /\ s \in Ents(dirs', d) /\ dirs'[d][s] = e
    BY <1>2, <1>6, <1>7, <1>9, <1>10, <1>12, <2>1, Inserted
  <2>3. SameBut(dirs, dirs', d, s)
    BY <1>9, <2>2, SameThen
  <2>4. s \notin Ents(dirs, d)
    BY <2>1 DEF Ents
  <2>5. Ents(dirs', c) = {}
    BY <1>4, <1>8, <2>3, Kinds DEF SameBut, Ents
  <2> QED
    BY <1>3, <1>4, <1>12, <2>2, <2>3, <2>4, <2>5 DEF e, NewDir
<1> QED
  BY <1>11, <1>12

\* Making a directory makes its path, or nothing when there is no slot for it.
LEMMA StoreMkdirs ==
  ASSUME FatOK, KernelApi = FALSE, Names \cap Clipped = {}, FatInv, Plain(dirs),
         NEW d \in Directories, NEW n \in Names, Mkdir(d, n)
  PROVE  /\ Plain(dirs')
         /\ \/ UNCHANGED <<StoredTree, OpenHandles>>
            \/ \E p \in Store!PathSet : Store!MakeDirectory(p)
<1> DEFINE R == PathsIn(dirs)
           S == PathsIn(dirs')
           c == LeastOf(FreeIn(fat))
           s == Slot(d)
           e == NewDir(n, c)
<1>1. /\ DirsOK(dirs) /\ PathsOK(dirs) /\ ChainsOK(fat) /\ EntriesOK(fat, dirs)
      /\ FilesOK(nodes, files) /\ NodesOK(dirs, nodes, files)
  BY DEF FatInv
<1>2. FatInv'
  BY Mkdirs
<1>3. /\ c \in Clusters /\ fat[c] = Free /\ fat' = [fat EXCEPT ![c] = Eoc]
      /\ UNCHANGED <<cells, nodes, files>>
      /\ s = 0 => SameBut(dirs, dirs', 0, 0)
      /\ s # 0 => /\ SameBut(dirs, dirs', d, s) /\ s \notin Ents(dirs, d) /\ s \in Ents(dirs', d)
                  /\ dirs'[d][s] = e /\ Ents(dirs', c) = {}
  <2>1. LeastOf(FreeIn(fat)) = c /\ Slot(d) = s
    OBVIOUS
  <2> HIDE DEF c, s
  <2> QED
    BY <2>1, MadeDir
<1>4. Short(n) = n
  BY EntryPlain
<1>5. PlainEntry(e) /\ e.name = n /\ e.dir /\ e.dir = TRUE /\ e.size = 0 /\ e.first = c
  BY <1>3, <1>4 DEF Entry, PlainEntry, NewDir
<1> HIDE DEF c, s, e
<1>6. \A x \in Table : fat[x] \in Clusters => fat'[x] = fat[x]
  BY <1>1, <1>3, Kinds DEF ChainsOK
<1>7. \A x, i : LinksKept(fat, cells, fat', cells', dirs, x, i)
  <2>1. \A a : Chain(fat, a) \subseteq Table
    BY ChainIn, Kinds
  <2> QED
    BY <1>3, <1>6, <2>1 DEF LinksKept
<1>8. /\ TreeOK(dirs) /\ IsPaths(dirs, R) /\ IsTree(fat, cells, dirs, R, StoredTree)
      /\ OpenHandles = HandlesOf(R, nodes, files)
  BY Shown
<1>9. \A x, i : ItemsKept(fat, cells, fat', cells', dirs, x, i)
  <2> TAKE x, i
  <2>1. LinksKept(fat, cells, fat', cells', dirs, x, i)
    BY <1>7
  <2> HIDE DEF R
  <2> QED
    BY <1>1, <1>8, <2>1, ItemsStay
<1>10. 0 \in Table /\ 0 \notin Ents(dirs, 0)
  BY <1>1, Kinds, Seen
<1>11. DirsOK(dirs')
  BY <1>2 DEF FatInv
<1>12. ASSUME Plain(dirs')
       PROVE  /\ TreeOK(dirs') /\ IsPaths(dirs', S) /\ IsTree(fat', cells', dirs', S, StoredTree')
              /\ OpenHandles' = HandlesOf(S, nodes, files)
  BY <1>2, <1>3, <1>12, ShownNext
<1>13. ASSUME Plain(dirs'), R \subseteq S
       PROVE  UNCHANGED OpenHandles
  <2>1. TreeOK(dirs') /\ IsPaths(dirs', S) /\ OpenHandles' = HandlesOf(S, nodes, files)
    BY <1>12, <1>13
  <2>2. Hollow(dirs, R, S)
    BY <1>13 DEF Hollow
  <2> HIDE DEF R, S
  <2>3. HandlesOf(S, nodes, files) = HandlesOf(R, nodes, files)
    BY <1>1, <1>8, <2>1, <2>2, HandlesStay
  <2> QED
    BY <1>8, <2>1, <2>3
<1>14. CASE s = 0
  <2>1. SameBut(dirs, dirs', 0, 0) /\ 0 \notin Ents(dirs', 0)
    BY <1>3, <1>10, <1>11, <1>14, Seen
  <2>2. Plain(dirs')
    BY <2>1, PlainStep
  <2>3. TreeOK(dirs') /\ IsPaths(dirs', S) /\ IsTree(fat', cells', dirs', S, StoredTree')
    BY <1>12, <2>2
  <2>4. IsPaths(dirs', R)
    BY <1>8, <1>10, <2>1, <2>3, DirPathsStay
  <2>5. S = R
    BY <2>3, <2>4, OnePaths
  <2>6. UNCHANGED OpenHandles
    BY <1>13, <2>2, <2>5
  <2>7. ItemsKept(fat, cells, fat', cells', dirs, 0, 0) /\ IsTree(fat', cells', dirs', R, StoredTree')
    BY <1>9, <2>3, <2>5
  <2> HIDE DEF R, S
  <2>8. StoredTree' = StoredTree
    BY <1>8, <1>10, <2>1, <2>3, <2>4, <2>7, TreeStays
  <2> QED
    BY <2>2, <2>6, <2>8
<1>15. CASE s # 0
  <2>1. /\ SameBut(dirs, dirs', d, s) /\ s \notin Ents(dirs, d) /\ s \in Ents(dirs', d)
        /\ dirs'[d][s] = e /\ Ents(dirs', c) = {}
    BY <1>3, <1>15
  <2>2. Plain(dirs')
    BY <1>5, <2>1, PlainStep
  <2>3. TreeOK(dirs') /\ IsPaths(dirs', S) /\ IsTree(fat', cells', dirs', S, StoredTree')
    BY <1>12, <2>2
  <2>4. d \in Dirs(dirs) /\ d \in Table
    BY <1>1, DirectoriesAre DEF Directories
  <2>5. PICK x \in R : x[2] = d
    BY <1>8, <2>4, PathsReach
  <2> DEFINE z == Below(dirs', x, s)
             p == FilePath(dirs', x, s)
  <2>6. dirs'[d][s].dir /\ Ents(dirs', dirs'[d][s].first) = {} /\ z[2] = c
    BY <1>5, <2>1, <2>5 DEF Below
  <2>7. IsPaths(dirs', R \cup {z})
    BY <1>8, <2>1, <2>3, <2>4, <2>5, <2>6, DirPathAdded
  <2>8. S = R \cup {z}
    BY <2>3, <2>7, OnePaths
  <2>9. UNCHANGED OpenHandles
    BY <1>13, <2>2, <2>8
  <2>10. R \subseteq S /\ Hollow(dirs', S, R)
    <3> HIDE DEF R, S, z
    <3> QED
      BY <2>1, <2>6, <2>8 DEF Hollow
  <2>11. p \in Store!PathSet
    <3>1. SlotsOf(x[2]) # {} /\ p = Append(x[1], n)
      BY <1>5, <2>1, <2>5 DEF Ents, FilePath
    <3> QED
      BY <1>8, <3>1, PathFits
  <2>12. Store!Parent(p) \in Store!Directories
    <3>1. x \in S /\ s \in Ents(dirs', x[2])
      BY <2>1, <2>5, <2>10
    <3>2. Store!Parent(p) = x[1]
      <4> HIDE DEF R, S
      <4> QED
        BY <2>3, <3>1, FilePathIs DEF Store!Parent
    <3>3. x[1] \in {<<>>} \cup {q \in DOMAIN StoredTree : StoredTree[q].dir}
      BY <1>8, InTree
    <3> QED
      BY <3>2, <3>3 DEF Store!Directories, Store!Paths
  <2> HIDE DEF R, S, p, z
  <2>13. p \notin DOMAIN StoredTree
         /\ StoredTree' = WithPath(StoredTree, p, Item(fat', cells', dirs'[d][s]))
    <3>1. p = FilePath(dirs', x, s) /\ ItemsKept(fat, cells, fat', cells', dirs, d, s)
      BY <1>9 DEF p
    <3> QED
      BY <1>8, <2>1, <2>3, <2>4, <2>5, <2>10, <3>1, TreeAdded
  <2>14. Item(fat', cells', dirs'[d][s]) = Store!NewDirectory
    <3>1. Item(fat', cells', e) = [dir |-> e.dir, data |-> <<>>]
      BY <1>5, NewItem
    <3> QED
      BY <1>5, <2>1, <3>1 DEF Store!NewDirectory
  <2>15. Store!MakeDirectory(p)
    BY <2>9, <2>12, <2>13, <2>14 DEF Store!MakeDirectory, Store!Paths, Store!Insert, WithPath
  <2> QED
    BY <2>2, <2>11, <2>15
<1> QED
  BY <1>14, <1>15

-----------------------------------------------------------------------------
(* So is a write. *)

\* How far a write has come: f and v are the descriptor's file and vnode, pos is
\* where it writes, g the table after the walk along the path p.
Walking(fd, n, f, v, pos, g, p) ==
  /\ f = FileOf(fd) /\ v = nodes[f.node] /\ pos = (IF f.append THEN v.size ELSE f.pos)
  /\ fat' = g /\ Walked(v.first, g, p) /\ Len(p) \in Nat /\ Len(p) <= Needed(pos, n)
  /\ \A c \in Table : fat[c] \in Clusters => g[c] = fat[c]

\* There is no room behind pos, or m cells x go there.
WroteNone(fd, f, v, pos, p) ==
  /\ Len(p) * Width <= pos
  /\ UNCHANGED <<cells, dirs>>
  /\ \E c : nodes' = [nodes EXCEPT ![f.node].first = c]
  /\ files' = [files EXCEPT ![fd] = {[f EXCEPT !.pos = pos]}]
WroteSome(fd, n, x, f, v, pos, p, m, top) ==
  /\ ~(Len(p) * Width <= pos)
  /\ m = IF Len(p) * Width > pos + n THEN n ELSE Len(p) * Width - pos
  /\ top = IF pos + m > v.size THEN pos + m ELSE v.size
  /\ cells' = CellsAfter(cells, p, pos, m, x)
  /\ nodes' = [nodes EXCEPT ![f.node] = [v EXCEPT !.first = p[1], !.size = top]]
  /\ files' = [files EXCEPT ![fd] = {[f EXCEPT !.pos = pos + m]}]
  /\ dirs' = Finalized([v EXCEPT !.first = p[1], !.size = top])

\* That is what a write does.
LEMMA WriteDoes ==
  ASSUME FatOK, FatInv, NEW fd \in Fds, NEW n \in 1 .. MaxCount, NEW x, Write(fd, n, x)
  PROVE  \E f, v, pos, g, p :
           /\ fd \in Open /\ Walking(fd, n, f, v, pos, g, p)
           /\ WroteNone(fd, f, v, pos, p) \/ \E m, top : WroteSome(fd, n, x, f, v, pos, p, m, top)
<1> DEFINE f == FileOf(fd)
           v == nodes[f.node]
           pos == IF f.append THEN v.size ELSE f.pos
           k == (pos + n - 1) \div Width + 1
           walk == Walk(v.first, k)
           p == walk.path
           g == walk.fat
           room == Len(p) * Width
           m == IF room > pos + n THEN n ELSE room - pos
           top == IF pos + m > v.size THEN pos + m ELSE v.size
           node == [v EXCEPT !.first = IF p = <<>> THEN @ ELSE p[1],
                             !.size = IF pos + m > @ THEN pos + m ELSE @]
<1>1. fd \in Open
  BY DEF Write
<1>2. /\ f \in FileSet /\ f.pos \in Nat /\ v \in NodeSet /\ v.first \in Table /\ v.size \in Nat
      /\ f.pos <= v.size
      /\ EntryOK(fat, dirs[v.dir][FindShort(v.dir, v.name)])
      /\ dirs[v.dir][FindShort(v.dir, v.name)].first = v.first
  BY <1>1, OpenIs
<1>3. /\ fat' = g
      /\ room <= pos => /\ nodes' = [nodes EXCEPT ![f.node].first = node.first]
                        /\ files' = [files EXCEPT ![fd] = {[f EXCEPT !.pos = pos]}]
                        /\ UNCHANGED <<cells, dirs>>
      /\ ~(room <= pos) => /\ cells' = CellsAfter(cells, p, pos, m, x)
                           /\ nodes' = [nodes EXCEPT ![f.node] = node]
                           /\ files' = [files EXCEPT ![fd] = {[f EXCEPT !.pos = pos + m]}]
                           /\ dirs' = Finalized(node)
  BY DEF Write, CellsAfter
<1> HIDE DEF f, v
<1>4. n \in Nat /\ 1 <= n /\ pos \in Nat /\ pos <= v.size
  <2>1. n \in Nat /\ 1 <= n
    BY DEF FatOK
  <2> QED
    BY <1>2, <2>1
<1> HIDE DEF pos
<1>5. k \in Nat /\ 1 <= k /\ k = Needed(pos, n)
  <2>1. (pos + n - 1) \in Nat /\ Width \in Nat \ {0}
    BY <1>4 DEF FatOK
  <2> QED
    BY <2>1, Quotient DEF Needed
<1> HIDE DEF k
<1>6. ChainsOK(fat) /\ (v.first \in Clusters => Starts(fat, v.first))
  BY <1>2 DEF EntryOK, FatInv
<1>7. Walked(v.first, g, p) /\ Len(p) \in Nat /\ Len(p) <= Needed(pos, n)
  BY <1>2, <1>5, <1>6, Walks DEF WalkOK
<1>8. \A c \in Table : fat[c] \in Clusters => g[c] = fat[c]
  BY <1>2, <1>5, <1>6, WalkExtends
<1> HIDE DEF walk
<1>9. Walking(fd, n, f, v, pos, g, p)
  <2> HIDE DEF g, p
  <2> QED
    BY <1>3, <1>7, <1>8 DEF Walking, f, v, pos
<1>10. CASE room <= pos
  <2>1. WroteNone(fd, f, v, pos, p)
    <3> HIDE DEF node, p
    <3> QED
      BY <1>3, <1>10 DEF WroteNone
  <2> HIDE DEF p, g
  <2> QED
    BY <1>1, <1>9, <2>1
<1>11. CASE ~(room <= pos)
  <2>1. p # <<>>
    <3> HIDE DEF p
    <3> SUFFICES ASSUME p = <<>> PROVE FALSE
      OBVIOUS
    <3>1. room = 0
      BY DEF FatOK
    <3> QED
      BY <1>4, <1>11, <3>1
  <2>2. node = [v EXCEPT !.first = p[1], !.size = top]
    <3> HIDE DEF p, m
    <3> QED
      BY <1>2, <2>1 DEF NodeSet
  <2> HIDE DEF node, p, g
  <2>3. WroteSome(fd, n, x, f, v, pos, p, m, top)
    <3>1. m = IF Len(p) * Width > pos + n THEN n ELSE Len(p) * Width - pos
      OBVIOUS
    <3> HIDE DEF m
    <3>2. top = IF pos + m > v.size THEN pos + m ELSE v.size
      OBVIOUS
    <3> HIDE DEF top
    <3> QED
      BY <1>3, <1>11, <2>2, <3>1, <3>2 DEF WroteSome
  <2> HIDE DEF m, top
  <2> QED
    BY <1>1, <1>9, <2>3
<1> QED
  BY <1>10, <1>11

\* The handle of fd, whose position becomes at.
MovesTo(fd, at) ==
  OpenHandles' = [OpenHandles EXCEPT ![fd] = {[Handle(PathsIn(dirs), nodes, FileOf(fd)) EXCEPT !.pos = at]}]

\* A write moves the handle, and leaves the paths of the others alone.
LEMMA HandleWrites ==
  ASSUME FatOK, KernelApi = FALSE, FatInv, Plain(dirs), FatInv', Plain(dirs'),
         PathsIn(dirs') = PathsIn(dirs), NEW fd \in Open, NEW at \in Nat,
         files' = [files EXCEPT ![fd] = {[FileOf(fd) EXCEPT !.pos = at]}],
         NEW u, u.dir = nodes[FileOf(fd).node].dir, u.name = nodes[FileOf(fd).node].name,
         nodes' = [nodes EXCEPT ![FileOf(fd).node] = u]
  PROVE  MovesTo(fd, at)
<1> DEFINE R == PathsIn(dirs)
           f == FileOf(fd)
           v == nodes[f.node]
           q == [f EXCEPT !.pos = at]
           M == nodes'
           G == files'
<1>1. FilesOK(nodes, files) /\ f \in FileSet /\ f.node \in Fds /\ fd \in Fds
  BY OpenIs DEF FatInv, Open
<1>2. q.node = f.node /\ q.pos = at /\ q.append = f.append
  BY <1>1 DEF FileSet
<1>3. OpenHandles = HandlesOf(R, nodes, files) /\ OpenHandles' = HandlesOf(R, M, G)
  BY Shown, ShownNext
<1>4. [files EXCEPT ![fd] = {q}] = G /\ [nodes EXCEPT ![f.node] = u] = M /\ nodes \in [Fds -> NodeSet]
      /\ u.dir = v.dir /\ u.name = v.name
  BY <1>1 DEF FilesOK
<1>5. files \in [Fds -> SUBSET FileSet]
  BY <1>1 DEF FilesOK
<1> HIDE DEF q, R, G, M, f
<1>6. ASSUME NEW n \in Fds PROVE M[n].dir = nodes[n].dir /\ M[n].name = nodes[n].name
  BY <1>1, <1>4
<1>7. NodesStay(nodes, files, fd, M)
  BY <1>5, <1>6 DEF NodesStay, FileSet
<1>8. Moves(R, nodes, files, fd, q, M, G)
  BY <1>1, <1>4, <1>7, HandleMoves
<1>9. Handle(R, M, q) = [Handle(R, nodes, f) EXCEPT !.pos = at]
  <2>1. NodePathOf(R, M[f.node]) = NodePathOf(R, v)
    BY <1>1, <1>6, SameNodePath
  <2> QED
    BY <1>2, <2>1 DEF Handle
<1> QED
  BY <1>3, <1>8, <1>9 DEF Moves, MovesTo, f, R

\* The file of fd gets the cells w from the position at on.
Overwrites(fd, at, w) ==
  LET p == NodePathOf(PathsIn(dirs), nodes[FileOf(fd).node])
  IN StoredTree' = [StoredTree EXCEPT ![p].data = Store!Overwrite(StoredTree[p].data, at, w)]

\* That is a write, when at is where the descriptor writes.
LEMMA StoreWriteIs ==
  ASSUME FatOK, KernelApi = FALSE, FatInv, Plain(dirs), NEW fd \in Open, NEW at \in Nat,
         at = IF FileOf(fd).append THEN nodes[FileOf(fd).node].size ELSE FileOf(fd).pos,
         NEW w, Overwrites(fd, at, w), NEW to, at + Len(w) = to, MovesTo(fd, to)
  PROVE  Store!Write(fd, w)
<1> DEFINE R == PathsIn(dirs)
           f == FileOf(fd)
           v == nodes[f.node]
           i == FindShort(v.dir, v.name)
           h == Handle(R, nodes, f)
           p == NodePathOf(R, v)
<1>1. /\ StoredTree[p] = Item(fat, cells, dirs[v.dir][i])
      /\ Len(DataIn(fat, cells, dirs[v.dir][i])) = v.size
      /\ OpenHandles[fd] = {h}
  <2>1. InStore(fd, v, i, R)
    BY OpenPath
  <2> HIDE DEF v, i, R
  <2> QED
    BY <2>1 DEF InStore
<1>2. h.path = p /\ h.pos = f.pos /\ h.append = f.append
  BY DEF Handle
<1>3. Len(StoredTree[p].data) = v.size
  BY <1>1 DEF Item
<1>4. /\ StoredTree' = [StoredTree EXCEPT ![p].data = Store!Overwrite(StoredTree[p].data, at, w)]
      /\ OpenHandles' = [OpenHandles EXCEPT ![fd] = {[h EXCEPT !.pos = at + Len(w)]}]
  BY DEF Overwrites, MovesTo
<1>5. at = IF f.append THEN v.size ELSE f.pos
  OBVIOUS
<1> HIDE DEF h, p, f, v, i, R
<1> QED
  BY <1>1, <1>2, <1>3, <1>4, <1>5 DEF Store!Write

\* No cell is written where there is no room.
LEMMA StoreWritesNone ==
  ASSUME FatOK, KernelApi = FALSE, FatInv, Plain(dirs), FatInv', NEW n \in Nat, NEW w, Len(w) = 0,
         NEW fd \in Open, NEW f, NEW v, NEW pos, NEW g, NEW p,
         Walking(fd, n, f, v, pos, g, p), WroteNone(fd, f, v, pos, p)
  PROVE  Plain(dirs') /\ Store!Write(fd, w)
<1> DEFINE R == PathsIn(dirs)
           i == FindShort(v.dir, v.name)
           path == NodePathOf(R, v)
<1>1. /\ f = FileOf(fd) /\ v = nodes[f.node] /\ pos = (IF f.append THEN v.size ELSE f.pos)
      /\ fat' = g /\ Walked(v.first, g, p) /\ Len(p) \in Nat /\ Len(p) * Width <= pos
      /\ UNCHANGED <<cells, dirs>> /\ files' = [files EXCEPT ![fd] = {[f EXCEPT !.pos = pos]}]
  BY DEF Walking, WroteNone
<1>2. /\ f \in FileSet /\ f.node \in Fds /\ f.pos \in Nat /\ v \in NodeSet /\ v.first \in Table
      /\ v.size \in Nat /\ f.pos <= v.size
      /\ EntryOK(fat, dirs[v.dir][i]) /\ ~dirs[v.dir][i].dir
      /\ dirs[v.dir][i].first = v.first /\ dirs[v.dir][i].size = v.size
  BY <1>1, OpenIs
<1>3. pos \in Nat /\ pos <= v.size
  <2>1. pos = f.pos \/ pos = v.size
    BY <1>1
  <2>2. f.pos \in Nat /\ v.size \in Nat /\ f.pos <= v.size
    BY <1>2
  <2> QED
    BY ONLY <2>1, <2>2
<1>4. Cardinality(Chain(fat, v.first)) = Chunks(v.size)
  BY <1>2 DEF EntryOK
<1>5. Len(p) * Width <= v.size
  <2> DEFINE l == Len(p) * Width
  <2>1. l \in Nat
    BY <1>1 DEF FatOK
  <2>2. l <= pos
    BY <1>1
  <2>3. v.size \in Nat
    BY <1>2
  <2> HIDE DEF l
  <2>4. l <= v.size
    BY ONLY <1>3, <2>1, <2>2, <2>3
  <2> QED
    BY <2>4 DEF l
<1>6. fat' = fat
  <2>1. v.first \in Table /\ v.size \in Nat /\ Walked(v.first, g, p) /\ fat' = g
    BY <1>1, <1>2
  <2> QED
    BY <1>4, <1>5, <2>1, NoRoom
<1>7. StoredTree' = StoredTree
  BY <1>1, <1>6, SameDisk
<1>8. /\ path \in DOMAIN StoredTree
      /\ StoredTree[path] = Item(fat, cells, dirs[v.dir][i])
      /\ Len(DataIn(fat, cells, dirs[v.dir][i])) = v.size
  <2>1. InStore(fd, v, i, R)
    BY <1>1, OpenPath
  <2> HIDE DEF i, R
  <2> QED
    BY <2>1 DEF InStore
<1>9. Len(w) = 0
  OBVIOUS
<1>10. Store!Overwrite(StoredTree[path].data, pos, w) = StoredTree[path].data
  <2> DEFINE s == StoredTree[path].data
             Cell(j) == cells[NthIn(fat, dirs[v.dir][i].first, (j - 1) \div Width)][(j - 1) % Width]
             size == v.size
  <2>1. s = [j \in 1 .. size |-> Cell(j)]
    BY <1>2, <1>8 DEF Item, DataIn
  <2>2. size \in Nat /\ pos \in Nat /\ pos <= size
    BY <1>2, <1>3
  <2> HIDE DEF Cell, size, path
  <2>3. Len(s) = size /\ \A j \in 1 .. size : s[j] = Cell(j)
    BY <2>1, <2>2
  <2> HIDE DEF s
  <2>4. (IF Len(s) > pos + Len(w) THEN Len(s) ELSE pos + Len(w)) = size
    BY <1>9, <2>2, <2>3
  <2>5. \A j \in 1 .. size : j \notin pos + 1 .. pos + Len(w)
    BY <1>9, <2>2
  <2>6. Store!Overwrite(s, pos, w) = [j \in 1 .. size |-> Cell(j)]
    BY <2>3, <2>4, <2>5 DEF Store!Overwrite
  <2> QED
    BY <2>1, <2>6 DEF s
<1>11. Overwrites(fd, pos, w)
  <2> DEFINE t == StoredTree
             s == t[path].data
  <2>1. t = [t EXCEPT ![path].data = s]
    <3>1. t = [y \in DOMAIN t |-> t[y]]
      BY Shown DEF IsTree
    <3>2. [t[path] EXCEPT !.data = s] = t[path]
      BY <1>8 DEF Item
    <3> HIDE DEF t, path
    <3> QED
      BY <3>1, <3>2
  <2> QED
    BY <1>1, <1>7, <1>10, <2>1 DEF Overwrites
<1>12. MovesTo(fd, pos)
  <2>1. PICK c : nodes' = [nodes EXCEPT ![f.node].first = c]
    BY DEF WroteNone
  <2> DEFINE u == [v EXCEPT !.first = c]
  <2>2. u.dir = v.dir /\ u.name = v.name
    BY <1>2 DEF NodeSet
  <2>3. nodes' = [nodes EXCEPT ![f.node] = u]
    BY <1>1, <2>1
  <2>4. Plain(dirs') /\ PathsIn(dirs') = PathsIn(dirs)
    BY <1>1
  <2> HIDE DEF u
  <2> QED
    BY <1>1, <1>3, <2>2, <2>3, <2>4, HandleWrites
<1>13. pos + Len(w) = pos
  BY <1>3, <1>9
<1>14. pos = IF FileOf(fd).append THEN nodes[FileOf(fd).node].size ELSE FileOf(fd).pos
  BY <1>1
<1>15. Store!Write(fd, w)
  BY <1>1, <1>3, <1>11, <1>12, <1>13, <1>14, StoreWriteIs
<1> QED
  BY <1>1, <1>15

\* The cells of the clusters off the path stay.
LEMMA CellsElse ==
  ASSUME FatOK, NEW p, Len(p) \in Nat, NEW pos \in Nat, NEW m \in Nat, pos + m <= Len(p) * Width,
         NEW x, CellsOK, NEW c \in Table, c \notin PathSet(p)
  PROVE  CellsAfter(cells, p, pos, m, x)[c] = cells[c]
<1>1. Width \in Nat \ {0}
  BY DEF FatOK
<1> DEFINE l == Len(p) * Width
<1>2. l \in Nat /\ pos + m <= l
  BY <1>1
<1>3. ASSUME NEW k \in 0 .. m - 1 PROVE p[(pos + k) \div Width + 1] # c
  <2> DEFINE z == pos + k
             r == z \div Width
  <2>1. z \in Nat /\ z < l
    <3> HIDE DEF l
    <3> QED
      BY <1>2, <1>3
  <2> HIDE DEF z
  <2>2. r \in Nat /\ r * Width \in Nat /\ r * Width <= z
    BY <1>1, <2>1, Quotient
  <2> HIDE DEF r
  <2>3. r < Len(p)
    <3> SUFFICES ASSUME Len(p) <= r PROVE FALSE
      BY <2>2
    <3>1. l <= r * Width
      BY <1>1, <2>2, Times
    <3> HIDE DEF l
    <3> QED
      BY <1>2, <2>1, <2>2, <3>1
  <2>4. p[r + 1] \in PathSet(p)
    <3>1. r + 1 \in 1 .. Len(p)
      BY <2>2, <2>3
    <3> QED
      BY <3>1 DEF PathSet
  <2> QED
    BY <2>4 DEF r, z
<1>4. CellsAfter(cells, p, pos, m, x)[c] = [b \in 0 .. Width - 1 |-> cells[c][b]]
  BY <1>3 DEF CellsAfter
<1>5. cells[c] \in [0 .. Width - 1 -> Values \cup {0}]
  BY DEF CellsOK
<1> QED
  BY <1>4, <1>5

\* The links and cells of the other files' clusters stay when one is written.
LEMMA WriteKeeps ==
  ASSUME FatOK, FatInv, NEW d \in Table, NEW i \in Ents(dirs, d),
         NEW g, NEW p, Walked(dirs[d][i].first, g, p), p # <<>>,
         \A c \in Table : fat[c] \in Clusters => g[c] = fat[c],
         NEW pos \in Nat, NEW m \in Nat, pos + m <= Len(p) * Width, NEW x
  PROVE  LinksKept(fat, cells, g, CellsAfter(cells, p, pos, m, x), dirs, d, i)
<1> DEFINE a == dirs[d][i].first
<1>1. ChainsOK(fat) /\ CellsOK /\ EntriesOK(fat, dirs) /\ FirstsApart(dirs)
  BY DEF FatInv
<1>2. a \in Table
  BY <1>1, Kinds DEF EntriesOK, EntryOK, Table, FatOK
<1>3. /\ PathSet(p) \subseteq Chain(g, p[1]) /\ Chain(g, p[1]) = Chain(fat, a) \cup New(g)
      /\ Len(p) \in Nat
  BY <1>2, WalkEnds
<1>4. ASSUME NEW y \in Table, NEW j \in Ents(dirs, y), y # d \/ j # i,
             NEW c \in Chain(fat, dirs[y][j].first)
      PROVE  c \in Table /\ c \notin PathSet(p)
  <2>1. c \notin Chain(fat, a)
    BY <1>1, <1>4, OthersApart
  <2> DEFINE b == dirs[y][j].first
  <2>2. b \in Clusters => Starts(fat, b)
    BY <1>1 DEF EntriesOK, EntryOK
  <2>3. c \in Chain(fat, b)
    OBVIOUS
  <2> HIDE DEF b
  <2>4. c \in Clusters /\ fat[c] # Free
    BY <1>1, <2>2, <2>3, ChainUsed DEF Starts
  <2> QED
    BY <1>3, <2>1, <2>4, Kinds DEF New
<1> DEFINE B == CellsAfter(cells, p, pos, m, x)
<1>5. ASSUME NEW c \in Table, c \notin PathSet(p) PROVE B[c] = cells[c]
  BY <1>1, <1>3, <1>5, CellsElse
<1> HIDE DEF B, a
<1>6. LinksKept(fat, cells, g, B, dirs, d, i)
  BY <1>4, <1>5 DEF LinksKept
<1> QED
  BY <1>6 DEF B

\* A file keeps its first clusters when its links stay.
LEMMA WriteContinues ==
  ASSUME FatOK, ChainsOK(fat), NEW e, EntryOK(fat, e), ~e.dir, e.size \in Nat,
         NEW g, NEW a, e.first \in Clusters => a = e.first,
         \A c \in Table : fat[c] \in Clusters => g[c] = fat[c]
  PROVE  Continues(g, a, fat, e.first, e.size)
<1>1. CASE e.size = 0
  BY <1>1, NoChunks DEF Continues
<1>2. CASE e.size # 0
  <2>1. e.first \in Clusters /\ Starts(fat, e.first) /\ Cardinality(Chain(fat, e.first)) = Chunks(e.size)
    BY <1>2, HasFirst
  <2>2. \A c \in Chain(fat, e.first) : fat[c] \in Clusters => g[c] = fat[c]
    BY ChainIn, Kinds
  <2>3. \A k \in Nat : k < Cardinality(Chain(fat, e.first)) => NthIn(g, e.first, k) = NthIn(fat, e.first, k)
    BY <2>1, <2>2, NthKept
  <2> QED
    BY <2>1, <2>3 DEF Continues
<1> QED
  BY <1>1, <1>2

\* The cells go to the file behind the descriptor, and nothing else shows them.
LEMMA StoreWritesSome ==
  ASSUME FatOK, KernelApi = FALSE, FatInv, Plain(dirs), FatInv', NEW n \in Nat, 1 <= n, NEW x,
         NEW fd \in Open, NEW f, NEW v, NEW pos, NEW g, NEW p, NEW m, NEW top,
         Walking(fd, n, f, v, pos, g, p), WroteSome(fd, n, x, f, v, pos, p, m, top)
  PROVE  Plain(dirs') /\ m \in Nat /\ m <= n /\ Store!Write(fd, [j \in 1 .. m |-> x])
<1> DEFINE R == PathsIn(dirs)
           d == v.dir
           i == FindShort(v.dir, v.name)
           w == [j \in 1 .. m |-> x]
           path == NodePathOf(R, v)
           u == [v EXCEPT !.first = p[1], !.size = top]
           at == pos + m
           B == CellsAfter(cells, p, pos, m, x)
<1>1. /\ f = FileOf(fd) /\ v = nodes[f.node] /\ pos = (IF f.append THEN v.size ELSE f.pos)
      /\ fat' = g /\ Walked(v.first, g, p) /\ Len(p) \in Nat /\ Len(p) <= Needed(pos, n)
      /\ \A c \in Table : fat[c] \in Clusters => g[c] = fat[c]
  BY DEF Walking
<1>2. /\ ~(Len(p) * Width <= pos)
      /\ m = IF Len(p) * Width > pos + n THEN n ELSE Len(p) * Width - pos
      /\ top = IF pos + m > v.size THEN pos + m ELSE v.size
      /\ cells' = B /\ nodes' = [nodes EXCEPT ![f.node] = u]
      /\ files' = [files EXCEPT ![fd] = {[f EXCEPT !.pos = at]}] /\ dirs' = Finalized(u)
  BY DEF WroteSome
<1> HIDE DEF B
<1>3. /\ f \in FileSet /\ f.node \in Fds /\ f.pos \in Nat /\ v \in NodeSet /\ d \in Table
      /\ v.first \in Table /\ v.size \in Nat /\ f.pos <= v.size
      /\ EntryOf(dirs, v, i) /\ i \in Ents(dirs, d) /\ dirs[d][i].name = v.name
      /\ EntryOK(fat, dirs[d][i]) /\ ~dirs[d][i].dir
      /\ dirs[d][i].first = v.first /\ dirs[d][i].size = v.size
  BY <1>1, OpenIs
<1> HIDE DEF i
<1>4. pos \in Nat /\ pos <= v.size
  <2>1. pos = f.pos \/ pos = v.size
    BY <1>1
  <2>2. f.pos \in Nat /\ v.size \in Nat /\ f.pos <= v.size
    BY <1>3
  <2> QED
    BY ONLY <2>1, <2>2
<1>5. Cardinality(Chain(fat, v.first)) = Chunks(v.size)
  BY <1>3 DEF EntryOK
<1>6. p # <<>>
  <2> SUFFICES ASSUME p = <<>> PROVE FALSE
    OBVIOUS
  <2>1. Len(p) * Width = 0
    BY DEF FatOK
  <2> QED
    BY <1>2, <1>4, <2>1
<1>7. p[1] \in Clusters /\ p[1] \in Table /\ ChainsOK(g) /\ OnPath(g, p)
      /\ (v.first \in Clusters => p[1] = v.first)
  BY <1>1, <1>3, <1>6, WalkEnds, Kinds DEF Walked
<1>8. /\ m \in Nat /\ at \in Nat /\ Cardinality(Chain(g, p[1])) = Chunks(top)
      /\ m <= n /\ at <= Len(p) * Width /\ top \in Nat
  <2> DEFINE l == Len(p) * Width
  <2>1. m \in Nat /\ at \in Nat
        /\ Cardinality(Chain(g, p[1])) = Chunks(IF pos + m > v.size THEN pos + m ELSE v.size)
    <3>1. v.first \in Table /\ Walked(v.first, g, p) /\ v.size \in Nat /\ Len(p) <= Needed(pos, n)
          /\ ~(Len(p) * Width <= pos)
          /\ m = IF Len(p) * Width > pos + n THEN n ELSE Len(p) * Width - pos
      BY <1>1, <1>2, <1>3
    <3> HIDE DEF u, w, path, R, l
    <3> QED
      BY <1>4, <1>5, <1>6, <3>1, RoomUsed
  <2>2. l \in Nat /\ ~(l <= pos) /\ m = IF l > pos + n THEN n ELSE l - pos
    BY <1>1, <1>2 DEF FatOK
  <2>3. v.size \in Nat /\ top = IF at > v.size THEN at ELSE v.size
    BY <1>2, <1>3
  <2> HIDE DEF l
  <2>4. m <= n /\ at <= l
    BY <1>4, <2>1, <2>2
  <2> QED
    BY <2>1, <2>3, <2>4 DEF l
<1>9. u \in NodeSet /\ u.dir = v.dir /\ u.name = v.name /\ u.first = p[1] /\ u.size = top
  BY <1>3, <1>7, <1>8 DEF NodeSet
<1> HIDE DEF u, at, w
<1>10. /\ SameBut(dirs, dirs', d, i) /\ i \in Ents(dirs', d)
       /\ dirs'[d][i].name = v.name /\ ~dirs'[d][i].dir
       /\ dirs'[d][i].first = p[1] /\ dirs'[d][i].size = top /\ dirs'[d][i].as = dirs[d][i].as
  <2>1. EntryOf(dirs, u, i) /\ DirsOK(dirs)
    BY <1>3, <1>9 DEF EntryOf, FatInv
  <2> DEFINE e == [dirs[u.dir][i] EXCEPT !.first = u.first, !.size = u.size]
             E == Finalized(u)
  <2>2. u.dir \in Table /\ u.first \in Table /\ u.size \in Nat
    BY <1>3, <1>7, <1>8, <1>9
  <2>3. /\ e.name = u.name /\ e.dir = dirs[u.dir][i].dir /\ e.first = u.first /\ e.size = u.size
        /\ SameBut(dirs, E, u.dir, i) /\ i \in Ents(E, u.dir) /\ E[u.dir][i] = e
    BY <2>1, <2>2, Finalizes
  <2>4. e.as = dirs[u.dir][i].as
    OBVIOUS
  <2> HIDE DEF e, E
  <2>5. dirs' = E
    BY <1>2 DEF E
  <2> QED
    BY <1>3, <1>9, <2>3, <2>4, <2>5
<1>11. Plain(dirs')
  <2>1. PlainEntry(dirs'[d][i])
    BY <1>3, <1>10 DEF Plain, PlainEntry
  <2> QED
    BY <1>10, <2>1, PlainStep
<1>12. /\ TreeOK(dirs) /\ IsPaths(dirs, R) /\ IsTree(fat, cells, dirs, R, StoredTree)
       /\ TreeOK(dirs') /\ IsPaths(dirs', PathsIn(dirs'))
       /\ IsTree(fat', cells', dirs', PathsIn(dirs'), StoredTree')
  BY <1>11, Shown, ShownNext
<1>13. PathsIn(dirs') = R
  <2>1. IsPaths(dirs', R)
    BY <1>3, <1>10, <1>12, DirPathsStay
  <2> QED
    BY <1>12, <2>1, OnePaths
<1>14. ItemsKept(fat, cells, g, B, dirs, d, i)
  <2>1. Walked(dirs[d][i].first, g, p) /\ pos + m <= Len(p) * Width
    BY <1>1, <1>3, <1>8 DEF at
  <2>2. LinksKept(fat, cells, g, B, dirs, d, i)
    BY <1>1, <1>3, <1>4, <1>6, <1>8, <2>1, WriteKeeps DEF B
  <2>3. ChainsOK(fat) /\ EntriesOK(fat, dirs)
    BY DEF FatInv
  <2> QED
    BY <1>12, <2>2, <2>3, ItemsStay
<1> DEFINE e == dirs[d][i]
           y == dirs'[d][i]
           new == Store!Overwrite(DataIn(fat, cells, e), pos, w)
<1>15. DataIn(g, B, y) = new
  <2>1. e.size = v.size /\ e.first = v.first /\ ~e.dir /\ EntryOK(fat, e) /\ e.size \in Nat
        /\ y.first = p[1] /\ y.size = top
    BY <1>3, <1>10
  <2> HIDE DEF e, y
  <2>2. ChainsOK(fat)
    BY DEF FatInv
  <2>3. Continues(g, p[1], fat, e.first, e.size)
    BY <1>1, <1>7, <2>1, <2>2, WriteContinues
  <2>4. pos + m <= Len(p) * Width /\ pos <= e.size
        /\ top = IF pos + m > e.size THEN pos + m ELSE e.size
    BY <1>2, <1>4, <1>8, <2>1 DEF at
  <2> HIDE DEF d, path, R
  <2>5. WrittenTo(fat, cells, e, g, p, pos, m, x, y)
    <3>1. m \in Nat /\ pos + m <= Len(p) * Width /\ top \in Nat /\ pos \in Nat
          /\ Cardinality(Chain(g, p[1])) = Chunks(top) /\ ChainsOK(g) /\ OnPath(g, p)
      BY <1>4, <1>7, <1>8, <2>4
    <3> QED
      BY ONLY FatOK, <3>1, <2>1, <2>3, <2>4, DataWritten
  <2> QED
    BY <2>5 DEF B, w, new, WrittenTo
<1> HIDE DEF new
<1>16. PICK z \in R : z[2] = d /\ path = FilePath(dirs, z, i)
  <2>1. InStore(fd, v, i, R)
    BY <1>1, OpenPath DEF i
  <2> HIDE DEF R
  <2> QED
    BY <2>1 DEF InStore
<1>17. /\ path \in DOMAIN StoredTree /\ StoredTree[path] = Item(fat, cells, e)
       /\ StoredTree' = [StoredTree EXCEPT ![path] = Item(g, B, y)]
  <2>1. IsPaths(dirs', R) /\ IsTree(g, B, dirs', R, StoredTree') /\ dirs'[d][i].name = dirs[d][i].name
    BY <1>1, <1>2, <1>3, <1>10, <1>12, <1>13
  <2> HIDE DEF d, path, R
  <2> QED
    BY <1>3, <1>10, <1>12, <1>14, <1>16, <2>1, TreeChanged
<1>18. Overwrites(fd, pos, w)
  <2>1. Item(g, B, y) = [Item(fat, cells, e) EXCEPT !.data = new]
    <3>1. y.dir = e.dir
      <4>1. dirs[d][i] \in SlotSet /\ dirs'[d][i] \in SlotSet
        BY <1>3, <1>10, <1>12, Seen DEF TreeOK
      <4> QED
        BY <1>3, <1>10, <4>1 DEF SlotSet
    <3> HIDE DEF e, y
    <3> QED
      BY <1>15, <3>1 DEF Item
  <2>2. new = Store!Overwrite(StoredTree[path].data, pos, w)
    BY <1>17 DEF new, Item
  <2>3. StoredTree' = [StoredTree EXCEPT ![path].data = new]
    <3> HIDE DEF path, e, y
    <3> QED
      BY <1>17, <2>1
  <2> QED
    BY <1>1, <2>2, <2>3 DEF Overwrites
<1>19. MovesTo(fd, at)
  BY <1>1, <1>2, <1>8, <1>9, <1>11, <1>13, HandleWrites
<1>20. Store!Write(fd, w)
  <2>1. pos + Len(w) = at
    BY <1>8 DEF w, at
  <2>2. pos = IF FileOf(fd).append THEN nodes[FileOf(fd).node].size ELSE FileOf(fd).pos
    BY <1>1
  <2> QED
    BY <1>4, <1>18, <1>19, <2>1, <2>2, StoreWriteIs
<1> QED
  BY <1>8, <1>11, <1>20 DEF w

\* A write overwrites and extends a file by a beginning of what is to be written.
LEMMA StoreWrites ==
  ASSUME FatOK, KernelApi = FALSE, FatInv, Plain(dirs), NEW fd \in Fds, NEW n \in 1 .. MaxCount,
         NEW x \in Values, Write(fd, n, x)
  PROVE  Plain(dirs') /\ \E w \in Store!Written : Store!Write(fd, w)
<1> DEFINE W(m) == [j \in 1 .. m |-> x]
<1>1. FatInv'
  BY Writes
<1>2. n \in Nat /\ 1 <= n /\ n <= MaxCount /\ MaxCount \in Nat
  BY DEF FatOK
<1>3. ASSUME NEW m \in Nat, m <= n PROVE W(m) \in Store!Written
  <2>1. m \in 0 .. MaxCount
    BY <1>2, <1>3
  <2> DEFINE w == W(m)
  <2>2. w \in [1 .. m -> Values \cup {0}]
    OBVIOUS
  <2> HIDE DEF w
  <2>3. w \in UNION {[1 .. k -> Values \cup {0}] : k \in 0 .. MaxCount}
    BY <2>1, <2>2
  <2> QED
    BY <2>3 DEF w, Store!Written
<1> HIDE DEF W
<1>4. PICK f, v, pos, g, p :
           /\ fd \in Open /\ Walking(fd, n, f, v, pos, g, p)
           /\ WroteNone(fd, f, v, pos, p) \/ \E m, top : WroteSome(fd, n, x, f, v, pos, p, m, top)
  BY WriteDoes
<1>5. CASE WroteNone(fd, f, v, pos, p)
  <2>1. fd \in Open /\ Walking(fd, n, f, v, pos, g, p)
    BY <1>4
  <2>2. W(0) \in Store!Written
    BY <1>2, <1>3
  <2>3. Len(W(0)) = 0
    BY DEF W
  <2>4. Plain(dirs') /\ Store!Write(fd, W(0))
    BY <1>1, <1>2, <1>5, <2>1, <2>3, StoreWritesNone
  <2> QED
    BY <2>2, <2>4
<1>6. CASE \E m, top : WroteSome(fd, n, x, f, v, pos, p, m, top)
  <2>1. PICK m, top : WroteSome(fd, n, x, f, v, pos, p, m, top)
    BY <1>6
  <2>2. Plain(dirs') /\ m \in Nat /\ m <= n /\ Store!Write(fd, W(m))
    BY <1>1, <1>2, <1>4, <2>1, StoreWritesSome DEF W
  <2> QED
    BY <1>3, <2>2
<1> QED
  BY <1>4, <1>5, <1>6

-----------------------------------------------------------------------------
(* The driver implements the store. *)

\* A formatted disk shows no path, and no descriptor a handle.
LEMMA StoreStarts ==
  ASSUME FatOK, Foreign = {}, KernelApi = FALSE, Init
  PROVE  Plain(dirs) /\ Store!Init
<1>1. FatInv
  BY StartOK
<1>2. \A d \in Table : Ents(dirs, d) = {}
  <2>1. \A d \in Table : dirs[d] = [i \in SlotsOf(d) |-> EndSlot]
    BY DEF Init, Empty, SlotsOf
  <2>2. EndSlot.kind # "entry"
    BY DEF EndSlot
  <2> QED
    BY <2>1, <2>2 DEF Ents
<1>3. Plain(dirs)
  BY <1>2 DEF Plain
<1> DEFINE R == PathsIn(dirs)
           t == StoredTree
<1>4. /\ IsPaths(dirs, R) /\ IsTree(fat, cells, dirs, R, t)
      /\ OpenHandles = HandlesOf(R, nodes, files)
  BY <1>1, <1>3, Shown
<1> HIDE DEF R, t
<1>5. DOMAIN t = {}
  <2>1. \A x \in R : Ents(dirs, x[2]) = {}
    BY <1>2, <1>4, PairIs DEF IsPaths
  <2> QED
    BY <1>4, <2>1 DEF IsTree
<1>6. t = <<>>
  <2>1. t = [p \in {} |-> t[p]]
    BY <1>4, <1>5 DEF IsTree
  <2> QED
    BY <2>1
<1>7. OpenHandles = [fd \in Fds |-> {}]
  <2>1. \A fd \in Fds : files[fd] = {}
    BY DEF Init
  <2>2. \A fd \in Fds : {Handle(R, nodes, r) : r \in files[fd]} = {}
    BY <2>1
  <2>3. OpenHandles = [fd \in Fds |-> {Handle(R, nodes, r) : r \in files[fd]}]
    BY <1>4 DEF HandlesOf, Handle
  <2> QED
    BY <2>2, <2>3
<1> QED
  BY <1>3, <1>6, <1>7 DEF Store!Init, t

\* Each call is a step of the store, or shows nothing.
LEMMA StoreSteps ==
  ASSUME FatOK, Sharing = FALSE, KernelApi = FALSE, Names \cap Clipped = {}, FatInv, Plain(dirs),
         [Next]_vars
  PROVE  Plain(dirs') /\ [Store!Next]_(Store!vars)
<1> DEFINE Goal == Plain(dirs') /\ [Store!Next]_(Store!vars)
<1>1. CASE UNCHANGED vars
  <2>1. UNCHANGED <<fat, cells, dirs, nodes, files, lost>>
    BY <1>1 DEF vars
  <2>2. StoredTree' = StoredTree /\ OpenHandles' = OpenHandles
    BY <2>1, TreeMirrored, HandlesMirrored
  <2> QED
    BY <2>1, <2>2 DEF Store!vars
<1>2. ASSUME NEW d \in Directories, NEW n \in Names, NEW fd \in Fds, NEW append \in BOOLEAN,
             OpenFile(d, n, fd, append)
      PROVE  Goal
  <2>1. Plain(dirs') /\ \E p \in Store!PathSet : Store!Open(fd, p, append)
    BY <1>2, StoreOpens
  <2> QED
    BY <2>1 DEF Store!Next
<1>3. ASSUME NEW d \in Directories, NEW n \in Names, Mkdir(d, n) PROVE Goal
  <2>1. /\ Plain(dirs')
        /\ \/ UNCHANGED <<StoredTree, OpenHandles>>
           \/ \E p \in Store!PathSet : Store!MakeDirectory(p)
    BY <1>3, StoreMkdirs
  <2> QED
    BY <2>1 DEF Store!Next, Store!vars
<1>4. ASSUME NEW d \in Directories, NEW n \in Names, Unlink(d, n) PROVE Goal
  <2>1. Plain(dirs') /\ \E p \in Store!PathSet : Store!Remove(p)
    BY <1>4, StoreUnlinks
  <2> QED
    BY <2>1 DEF Store!Next
<1>5. ASSUME NEW d \in Directories, NEW n \in Names, Rmdir(d, n) PROVE Goal
  <2>1. Plain(dirs') /\ \E p \in Store!PathSet : Store!Remove(p)
    BY <1>5, StoreRmdirs
  <2> QED
    BY <2>1 DEF Store!Next
<1>6. ASSUME NEW fd \in Fds, NEW other \in Fds, Duplicate(fd, other) PROVE Goal
  <2>1. Plain(dirs') /\ Store!Duplicate(fd, other)
    BY <1>6, StoreDuplicates
  <2> QED
    BY <2>1 DEF Store!Next
<1>7. ASSUME NEW fd \in Fds, Close(fd) PROVE Goal
  <2>1. Plain(dirs') /\ Store!Close(fd)
    BY <1>7, StoreCloses
  <2> QED
    BY <2>1 DEF Store!Next
<1>8. ASSUME NEW fd \in Fds, NEW n \in 1 .. MaxCount, Read(fd, n) PROVE Goal
  <2>1. Plain(dirs') /\ Store!Read(fd, n)
    BY <1>8, StoreReads
  <2>2. n \in 0 .. MaxCount
    OBVIOUS
  <2> QED
    BY <2>1, <2>2 DEF Store!Next
<1>9. ASSUME NEW fd \in Fds, NEW n \in 1 .. MaxCount, NEW x \in Values, Write(fd, n, x)
      PROVE  Goal
  <2>1. Plain(dirs') /\ \E w \in Store!Written : Store!Write(fd, w)
    BY <1>9, StoreWrites
  <2> QED
    BY <2>1 DEF Store!Next
<1>10. ASSUME NEW n \in Names, NEW count \in 1 .. MaxCount, NEW x \in Values,
              CreateFile(n, count, x)
       PROVE  Goal
  BY <1>10 DEF CreateFile
<1> HIDE DEF Goal
<1>11. Goal
  BY <1>1, <1>2, <1>3, <1>4, <1>5, <1>6, <1>7, <1>8, <1>9, <1>10 DEF Next, Goal
<1> QED
  BY <1>11 DEF Goal

(* The driver implements FileStore, whatever the number of clusters, slots,
   names and descriptors: over clusters that are claimed, linked and freed as
   calls come, and directories whose slots are used again, a program sees a tree
   of files that keep what was written to them, reads that return it, and no
   file or directory that changes when another one does (fat.c behind vfs.c).
   A call that fails for want of a cluster or a slot changes nothing it sees.
   Names that to_fat_name does not cut short are taken for granted.          *)
THEOREM FilesAreStored ==
  ASSUME FatOK, Sharing = FALSE, Foreign = {}, KernelApi = FALSE, Names \cap Clipped = {}
  PROVE  Spec => StoresFiles
<1>1. Init => StoreInv /\ Store!Init
  BY StartOK, StoreStarts DEF StoreInv
<1>2. StoreInv /\ [Next]_vars => StoreInv' /\ [Store!Next]_(Store!vars)
  BY FatStep, StoreSteps DEF StoreInv
<1> QED
  BY <1>1, <1>2, PTL DEF Spec, StoresFiles, Store!Spec
=============================================================================
