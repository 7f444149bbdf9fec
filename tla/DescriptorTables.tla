--------------------------- MODULE DescriptorTables ---------------------------
(* What a program may expect of its file descriptors: every task has a table of
   its own, of values and not of shared objects, and an operation of one task
   changes at most one descriptor, of that task. A new task starts with the
   standard three; a forked one with its parent's descriptors as they are at
   the fork, each with a position of its own, or with none.                   *)
EXTENDS Naturals

CONSTANTS Tasks, Fds, Nodes

VARIABLE descriptors   \* task |-> fd |-> {} or {[node, position, append]}

Descriptor == [node : Nodes, position : Nat, append : BOOLEAN]
None == [fd \in Fds |-> {}]

Init == descriptors = [t \in Tasks |-> None]

(* task_create and its relatives, exit and reaping. *)
Start(t) ==
    /\ descriptors[t] = None
    /\ \A u \in Tasks \ {t} : descriptors'[u] = descriptors[u]
    /\ \A fd \in Fds : \A d \in descriptors'[t][fd] : d.position = 0 /\ ~d.append
Drop(t) == descriptors' = [descriptors EXCEPT ![t] = None]

Fork(p, c) ==
    /\ descriptors[c] = None
    /\ descriptors' = [descriptors EXCEPT ![c] = descriptors[p]]

(* open, close, read and write. *)
Change(t, fd) ==
    /\ \A u \in Tasks, g \in Fds : <<u, g>> # <<t, fd>> => descriptors'[u][g] = descriptors[u][g]
    /\ \A d \in descriptors[t][fd], e \in descriptors'[t][fd] :
          d.node = e.node /\ d.append = e.append /\ d.position <= e.position

Next ==
    \/ \E t \in Tasks : Start(t) \/ Drop(t) \/ \E fd \in Fds : Change(t, fd)
    \/ \E p, c \in Tasks : p # c /\ Fork(p, c)

Spec == Init /\ [][Next]_descriptors
=============================================================================
