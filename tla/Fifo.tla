-------------------------------- MODULE Fifo --------------------------------
(***************************************************************************)
(* What a ring promises: a bounded first-in first-out queue of values from *)
(* which every consumer takes bursts that are then its own.                *)
(***************************************************************************)
EXTENDS Naturals, Sequences

CONSTANTS
  Values,     \* what is queued
  Consumers,  \* who takes from the queue
  Capacity    \* how many values the queue holds

VARIABLES
  queue,  \* the values in the queue, oldest first
  taken   \* the burst each consumer is busy with

Init ==
  /\ queue = << >>
  /\ taken = [c \in Consumers |-> << >>]

Bursts == UNION {[1 .. n -> Values] : n \in 1 .. Capacity}

\* What a consumer is busy with still fills its slots.
HasRoom(n) ==
  /\ Len(queue) + n <= Capacity
  /\ \A c \in Consumers : Len(queue) + Len(taken[c]) + n <= Capacity

Put(burst) ==
  /\ HasRoom(Len(burst))
  /\ queue' = queue \o burst
  /\ UNCHANGED taken

Take(c, n) ==
  /\ taken[c] = << >>
  /\ n <= Len(queue)
  /\ taken' = [taken EXCEPT ![c] = SubSeq(queue, 1, n)]
  /\ queue' = SubSeq(queue, n + 1, Len(queue))

Finish(c) ==
  /\ taken' = [taken EXCEPT ![c] = << >>]
  /\ UNCHANGED queue

Next ==
  \/ \E burst \in Bursts : Put(burst)
  \/ \E c \in Consumers : Finish(c) \/ \E n \in 1 .. Capacity : Take(c, n)

Spec == Init /\ [][Next]_<<queue, taken>>
=============================================================================
