----------------------------- MODULE FileStore ------------------------------
(* What a program expects of files and directories: a tree of names, a file a
   sequence of cells that writes overwrite and extend, and handles with a
   position that reads and writes move. Space may run out: a file or a directory is then
   not made, and a write stores only its beginning.                          *)
EXTENDS Naturals, Sequences

CONSTANTS Names, Values, Handles,
    MaxDepth, MaxCount   \* bounds on a path and on the cells of one call

VARIABLES
    tree,      \* path |-> [dir, data], for the paths that exist
    handles    \* handle |-> {} or {[path, pos, append]}

vars == <<tree, handles>>

Paths == DOMAIN tree
Directories == {<<>>} \cup {p \in Paths : tree[p].dir}
NewFile == [dir |-> FALSE, data |-> <<>>]
NewDirectory == [dir |-> TRUE, data |-> <<>>]
Parent(p) == SubSeq(p, 1, Len(p) - 1)

Insert(p, e) == tree' = [q \in Paths \cup {p} |-> IF q = p THEN e ELSE tree[q]]
Delete(p) == tree' = [q \in Paths \ {p} |-> tree[q]]

(* The sequence s with the cells of w from position k on. *)
Overwrite(s, k, w) ==
    [j \in 1 .. IF Len(s) > k + Len(w) THEN Len(s) ELSE k + Len(w) |->
        IF j \in k + 1 .. k + Len(w) THEN w[j - k] ELSE s[j]]

Init == tree = <<>> /\ handles = [h \in Handles |-> {}]

MakeFile(p) ==
    /\ p \notin Paths /\ Parent(p) \in Directories
    /\ Insert(p, NewFile)
    /\ UNCHANGED handles

MakeDirectory(p) ==
    /\ p \notin Paths /\ Parent(p) \in Directories
    /\ Insert(p, NewDirectory)
    /\ UNCHANGED handles

(* Files that nobody has open, and empty directories, can be removed. *)
Remove(p) ==
    /\ p \in Paths
    /\ \A q \in Paths : q # <<>> => Parent(q) # p
    /\ Delete(p)
    /\ UNCHANGED handles

(* A file is opened, made before if it is not there. *)
Open(h, p, append) ==
    /\ handles[h] = {}
    /\ IF p \in Paths THEN UNCHANGED tree
       ELSE Parent(p) \in Directories /\ Insert(p, NewFile)
    /\ ~tree'[p].dir
    /\ handles' = [handles EXCEPT ![h] = {[path |-> p, pos |->
            IF append THEN Len(tree'[p].data) ELSE 0, append |-> append]}]

Duplicate(h, g) ==
    /\ handles[h] # {} /\ handles[g] = {}
    /\ handles' = [handles EXCEPT ![g] = handles[h]]
    /\ UNCHANGED tree

Close(h) ==
    /\ handles[h] # {}
    /\ handles' = [handles EXCEPT ![h] = {}]
    /\ UNCHANGED tree

(* A beginning w of what was to be written goes to the position, or to the end
   of a file opened for appending.                                           *)
Write(h, w) == \E f \in handles[h] :
    LET data == tree[f.path].data
        at == IF f.append THEN Len(data) ELSE f.pos
    IN
    /\ tree' = [tree EXCEPT ![f.path].data = Overwrite(data, at, w)]
    /\ handles' = [handles EXCEPT ![h] = {[f EXCEPT !.pos = at + Len(w)]}]

(* A read of up to n cells moves the position over what there is. *)
Read(h, n) == \E f \in handles[h] :
    LET end == Len(tree[f.path].data) IN
    /\ handles' = [handles EXCEPT ![h] =
                     {[f EXCEPT !.pos = IF @ + n < end THEN @ + n ELSE end]}]
    /\ UNCHANGED tree

PathSet == UNION {[1 .. k -> Names] : k \in 1 .. MaxDepth}
Written == UNION {[1 .. k -> Values] : k \in 0 .. MaxCount}

Next ==
    \/ \E p \in PathSet : MakeFile(p) \/ MakeDirectory(p) \/ Remove(p)
    \/ \E h \in Handles :
        \/ \E p \in PathSet, append \in BOOLEAN : Open(h, p, append)
        \/ \E g \in Handles : Duplicate(h, g)
        \/ Close(h)
        \/ \E w \in Written : Write(h, w)
        \/ \E n \in 0 .. MaxCount : Read(h, n)

Spec == Init /\ [][Next]_vars
=============================================================================
