--------------------------- MODULE PriorityQueue ---------------------------
(***************************************************************************)
(* What a packet queue promises: packets leave it in the order of their    *)
(* priority, and those of equal priority in the order they came            *)
(* (src/src/utils/queue.h, and the output expected in tests/queue.c).      *)
(* PacketQueue shows that the code keeps this promise.                     *)
(***************************************************************************)
EXTENDS Integers, Sequences

CONSTANTS
  Packets,      \* what is queued
  Priorities,   \* integers; a higher one leaves earlier
  None          \* NULL

VARIABLES
  queue,        \* the packets queued, with their priorities
  out           \* the packet that left last

vars == <<queue, out>>

Element == [packet : Packets, pr : Priorities]

(* The sequence s with e behind its first k elements. *)
Inserted(s, k, e) ==
  [i \in 1 .. Len(s) + 1 |->
     IF i <= k THEN s[i] ELSE IF i = k + 1 THEN e ELSE s[i - 1]]

Init == queue = <<>> /\ out = None

(* Behind all those of at least its priority. *)
Add(e) ==
  \E k \in 0 .. Len(queue) :
    /\ \A i \in 1 .. k : queue[i].pr >= e.pr
    /\ \A i \in k + 1 .. Len(queue) : queue[i].pr < e.pr
    /\ queue' = Inserted(queue, k, e)
    /\ UNCHANGED out

Pop ==
  /\ queue # <<>>
  /\ out' = Head(queue).packet
  /\ queue' = Tail(queue)

Next == Pop \/ \E e \in Element : Add(e)

Spec == Init /\ [][Next]_vars

=============================================================================
