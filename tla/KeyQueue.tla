------------------------------ MODULE KeyQueue ------------------------------
(***************************************************************************)
(* What the keyboard promises its readers: a queue of at most Capacity     *)
(* characters. Every key is appended, and dropped only when the queue is   *)
(* full; a reader gets the character at the front, and it is taken from    *)
(* the queue, once, before anybody gets the next.                          *)
(***************************************************************************)
EXTENDS Naturals, Sequences

CONSTANTS
  Chars,     \* what keys give
  Readers,   \* who reads
  Capacity   \* how many characters wait at most, a natural number

VARIABLES
  queue,     \* the characters that wait, the oldest first
  keyed,     \* the last key: its character, and a bit that every key turns over
  got,       \* the character that each reader got last
  taking     \* the reader that has got one which is still in the queue

Init ==
  /\ queue = <<>> /\ taking = {}
  /\ keyed \in [char : Chars, odd : BOOLEAN]
  /\ \A r \in Readers : got[r] \in Chars

Press(c) ==
  /\ keyed' = [char |-> c, odd |-> ~keyed.odd]
  /\ queue' = IF Len(queue) < Capacity THEN Append(queue, c) ELSE queue
  /\ UNCHANGED <<got, taking>>

Get(r) ==
  /\ taking = {} /\ queue # <<>>
  /\ got' = [got EXCEPT ![r] = Head(queue)]
  /\ taking' = {r}
  /\ UNCHANGED <<queue, keyed>>

Take(r) ==
  /\ taking = {r} /\ queue # <<>> /\ got[r] = Head(queue)
  /\ queue' = Tail(queue)
  /\ taking' = {}
  /\ UNCHANGED <<keyed, got>>

Next ==
  \/ \E c \in Chars : Press(c)
  \/ \E r \in Readers : Get(r) \/ Take(r)

Spec == Init /\ [][Next]_<<queue, keyed, got, taking>>
=============================================================================
