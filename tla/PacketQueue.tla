---------------------------- MODULE PacketQueue ----------------------------
(***************************************************************************)
(* The queue between the threads that send and the dispatcher, as the      *)
(* linked list of src/src/utils/queue.c.                                   *)
(*                                                                         *)
(* Any number of threads call addToQueue on a queue (OutboundQueue: the    *)
(* listener, the retransmission thread and the WS listener) and one thread *)
(* calls popFromQueue (WF_dispatcher, or HW_dispatcher for InternalQueue). *)
(* Both work under the lock of the queue, but popFromQueue looks at the    *)
(* size before it takes it and reads the element it has unlinked after it  *)
(* has released it.                                                        *)
(*                                                                         *)
(* The heap is a set of cells that malloc hands out and free takes back,   *)
(* so that a cell may come back while an old pointer to it is still held.  *)
(* Q->Last is written but never read, and left out.                        *)
(***************************************************************************)
EXTENDS Integers, Sequences, Functions

CONSTANTS
  Producers,    \* threads that call addToQueue
  Consumer,     \* the thread that calls popFromQueue
  Cells,        \* bound: the memory for queue elements
  Packets,      \* what is queued
  Priorities,   \* the values of Pr
  None          \* NULL

ASSUME QueueAssumption ==
  /\ Consumer \notin Producers
  /\ None \notin Producers \cup {Consumer} \cup Cells \cup Packets
  /\ Priorities \subseteq Int

VARIABLES
  lock,         \* who holds Q->Lock
  first,        \* Q->First
  size,         \* Q->Size
  element,      \* Packet and Pr of a cell
  next,         \* NextEl of a cell
  allocated,    \* the cells in use
  pc,           \* where a producer is in addToQueue
  newEl,        \* its NewEl
  toSwap,       \* its ToSwap
  lastHigher,   \* its LastHigher
  popping,      \* where the consumer is in popFromQueue
  popped,       \* its Popped
  buf,          \* the packet it was given last
  order         \* history: the cells in the list, the first one first

listVars  == <<lock, first, size, order>>
heapVars  == <<element, next, allocated>>
addVars   == <<pc, newEl, toSwap, lastHigher>>
popVars   == <<popping, popped, buf>>
vars == <<listVars, heapVars, addVars, popVars>>

Element == [packet : Packets, pr : Priorities]

Init ==
  /\ lock = None /\ first = None /\ size = 0 /\ order = <<>>
  /\ element = [c \in Cells |-> None]
  /\ next = [c \in Cells |-> None]
  /\ allocated = {}
  /\ pc = [p \in Producers |-> "idle"]
  /\ newEl = [p \in Producers |-> None]
  /\ toSwap = [p \in Producers |-> None]
  /\ lastHigher = [p \in Producers |-> None]
  /\ popping = "test" /\ popped = None /\ buf = None

-----------------------------------------------------------------------------
(* addToQueue *)

(* Mistake: the priority of the new element is not set. *)
MakeWithoutPriority(p, e) ==
  /\ pc[p] = "idle"
  /\ \E c \in Cells \ allocated :
       /\ allocated' = allocated \cup {c}
       /\ element' = [element EXCEPT ![c] = [e EXCEPT !.pr = None]]
       /\ next' = [next EXCEPT ![c] = None]
       /\ newEl' = [newEl EXCEPT ![p] = c]
  /\ pc' = [pc EXCEPT ![p] = "lock"]
  /\ UNCHANGED <<listVars, toSwap, lastHigher, popVars>>

(* A new element is made, outside the list. *)
Make(p, e) ==
  /\ pc[p] = "idle"
  /\ \E c \in Cells \ allocated :
       /\ allocated' = allocated \cup {c}
       /\ element' = [element EXCEPT ![c] = e]
       /\ next' = [next EXCEPT ![c] = None]
       /\ newEl' = [newEl EXCEPT ![p] = c]
  /\ pc' = [pc EXCEPT ![p] = "lock"]
  /\ UNCHANGED <<listVars, toSwap, lastHigher, popVars>>

Lock(p) ==
  /\ pc[p] = "lock"
  /\ lock = None
  /\ lock' = p
  /\ toSwap' = [toSwap EXCEPT ![p] = first]
  /\ lastHigher' = [lastHigher EXCEPT ![p] = first]
  /\ pc' = [pc EXCEPT ![p] = "walk"]
  /\ UNCHANGED <<first, size, order, heapVars, newEl, popVars>>

Pr(c) == element[c].pr

(* Mistake: a new element goes before those of equal priority. *)
PassesHigher(p) == toSwap[p] # None /\ Pr(toSwap[p]) > Pr(newEl[p])

(* The element that is looked at stays before the new one. *)
Passes(p) == toSwap[p] # None /\ Pr(toSwap[p]) >= Pr(newEl[p])

Walk(p) ==
  /\ pc[p] = "walk"
  /\ Passes(p)
  /\ lastHigher' = [lastHigher EXCEPT ![p] = toSwap[p]]
  /\ toSwap' = [toSwap EXCEPT ![p] = next[toSwap[p]]]
  /\ UNCHANGED <<listVars, heapVars, pc, newEl, popVars>>

(* How many cells of the list come before c, or before its end. *)
Before(c) ==
  CHOOSE k \in 0 .. Len(order) :
    c = (IF k = Len(order) THEN None ELSE order[k + 1])

Inserted(s, k, e) ==
  [i \in 1 .. Len(s) + 1 |->
     IF i <= k THEN s[i] ELSE IF i = k + 1 THEN e ELSE s[i - 1]]

(* Mistake: what comes behind the new element is lost. *)
LinkedLosingRest(c, prev, succ) ==
  IF first = None THEN first' = c /\ UNCHANGED next
  ELSE IF succ = prev THEN first' = c /\ next' = [next EXCEPT ![c] = prev]
  ELSE next' = [next EXCEPT ![prev] = c] /\ UNCHANGED first

(* c comes between prev and succ, which are the same at the head. *)
Linked(c, prev, succ) ==
  \/ /\ first = None
     /\ first' = c
     /\ UNCHANGED next
  \/ /\ first # None /\ succ = prev
     /\ first' = c
     /\ next' = [next EXCEPT ![c] = prev]
  \/ /\ first # None /\ succ # prev
     /\ next' = [next EXCEPT ![c] = next[prev], ![prev] = c]
     /\ UNCHANGED first

(* The element is linked in and the lock released. *)
Link(p) ==
  /\ pc[p] = "walk"
  /\ ~Passes(p)
  /\ Linked(newEl[p], lastHigher[p], toSwap[p])
  /\ order' = Inserted(order, Before(toSwap[p]), newEl[p])
  /\ size' = size + 1
  /\ lock' = None
  /\ pc' = [pc EXCEPT ![p] = "idle"]
  /\ newEl' = [newEl EXCEPT ![p] = None]
  /\ toSwap' = [toSwap EXCEPT ![p] = None]
  /\ lastHigher' = [lastHigher EXCEPT ![p] = None]
  /\ UNCHANGED <<element, allocated, popVars>>

-----------------------------------------------------------------------------
(* popFromQueue *)

(* Mistake: the size is not looked at. *)
TestNothing ==
  /\ popping = "test"
  /\ popping' = "lock"
  /\ UNCHANGED <<listVars, heapVars, addVars, popped, buf>>

(* The queue does not look empty; when it does, the caller tries again. *)
Test ==
  /\ popping = "test"
  /\ size # 0
  /\ popping' = "lock"
  /\ UNCHANGED <<listVars, heapVars, addVars, popped, buf>>

LockPop ==
  /\ popping = "lock"
  /\ lock = None
  /\ lock' = Consumer
  /\ popping' = "unlink"
  /\ UNCHANGED <<first, size, order, heapVars, addVars, popped, buf>>

(* Mistake: the element is freed before it is read. *)
UnlinkFreeing ==
  /\ popping = "unlink" /\ first # None
  /\ popped' = first /\ first' = next[first] /\ order' = Tail(order)
  /\ size' = size - 1
  /\ allocated' = allocated \ {first}
  /\ lock' = None /\ popping' = "return"
  /\ UNCHANGED <<element, next, addVars, buf>>

(* The first element is unlinked and the lock released. *)
Unlink ==
  /\ popping = "unlink"
  /\ first # None
  /\ popped' = first
  /\ first' = next[first]
  /\ order' = Tail(order)
  /\ size' = size - 1
  /\ lock' = None
  /\ popping' = "return"
  /\ UNCHANGED <<heapVars, addVars, buf>>

(* Its packet is read, the element freed, and the packet returned. *)
Return ==
  /\ popping = "return"
  /\ buf' = element[popped].packet
  /\ allocated' = allocated \ {popped}
  /\ element' = [element EXCEPT ![popped] = None]
  /\ next' = [next EXCEPT ![popped] = None]
  /\ popped' = None
  /\ popping' = "test"
  /\ UNCHANGED <<listVars, addVars>>

-----------------------------------------------------------------------------
Next ==
  \/ \E p \in Producers :
       \/ \E e \in Element : Make(p, e)
       \/ Lock(p) \/ Walk(p) \/ Link(p)
  \/ Test \/ LockPop \/ Unlink \/ Return

Spec == Init /\ [][Next]_vars

-----------------------------------------------------------------------------
(* Properties *)

(* Every variable keeps its type, and what is queued has a priority. *)
TypeOK ==
  /\ lock \in {None, Consumer} \cup Producers
  /\ first \in {None} \cup Cells
  /\ size \in Nat
  /\ order \in Seq(Cells)
  /\ element \in [Cells -> {None} \cup Element]
  /\ next \in [Cells -> {None} \cup Cells]
  /\ allocated \in SUBSET Cells
  /\ pc \in [Producers -> {"idle", "lock", "walk"}]
  /\ newEl \in [Producers -> {None} \cup Cells]
  /\ toSwap \in [Producers -> {None} \cup Cells]
  /\ lastHigher \in [Producers -> {None} \cup Cells]
  /\ popping \in {"test", "lock", "unlink", "return"}
  /\ popped \in {None} \cup Cells
  /\ buf \in {None} \cup Packets

(* The list from First on is the one that was built, each cell in it once, *)
(* and Size is its length, whatever the threads have interleaved.          *)
ListShape ==
  /\ IsInjective(order)
  /\ first = (IF order = <<>> THEN None ELSE order[1])
  /\ \A i \in 1 .. Len(order) :
       next[order[i]] = (IF i = Len(order) THEN None ELSE order[i + 1])
  /\ size = Len(order)

(* Nobody holds a pointer to a freed cell, and no cell is both in the list *)
(* and held by a thread, or held by two: what a producer walks over stays, *)
(* and the consumer may read an element after releasing the lock.          *)
PointersAlive ==
  /\ Range(order) \subseteq allocated
  /\ \A p \in Producers :
       /\ pc[p] # "idle" => newEl[p] \in allocated \ Range(order)
       /\ pc[p] = "walk" =>
            {toSwap[p], lastHigher[p]} \subseteq Range(order) \cup {None}
  /\ \A p1, p2 \in Producers :
       p1 # p2 /\ pc[p1] # "idle" /\ pc[p2] # "idle" => newEl[p1] # newEl[p2]
  /\ popping = "return" =>
       /\ popped \in allocated \ Range(order)
       /\ \A p \in Producers : pc[p] # "idle" => popped # newEl[p]

(* popFromQueue dereferences First only when there is an element, though   *)
(* it looks at the size without the lock: with one consumer an element     *)
(* that was there stays until that consumer takes it.                      *)
PopsInPlace == popping \in {"lock", "unlink"} => first # None

(* What the queue promises.  A packet has left it once it is unlinked.     *)
Queued == [i \in 1 .. Len(order) |-> element[order[i]]]
Left   == IF popping = "return" THEN element[popped].packet ELSE buf

Promise == INSTANCE PriorityQueue WITH queue <- Queued, out <- Left

(* The list is a queue ordered by priority, and within a priority by the   *)
(* order in which the elements were linked in.                             *)
AbstractQueue == Promise!Spec

-----------------------------------------------------------------------------
(* What keeps these properties up. *)

(* A thread is in its critical section when, and only when, it has the     *)
(* lock.                                                                   *)
Locked ==
  /\ \A p \in Producers : pc[p] = "walk" <=> lock = p
  /\ popping = "unlink" <=> lock = Consumer

(* An allocated cell holds an element, and has no successor before it is   *)
(* linked.                                                                 *)
Filled ==
  /\ \A c \in allocated : element[c] \in Element
  /\ \A p \in Producers : pc[p] # "idle" => next[newEl[p]] = None

(* The list is sorted. *)
Sorted ==
  \A i, j \in 1 .. Len(order) : i < j => Pr(order[i]) >= Pr(order[j])

(* Producer p has passed the first k elements of the list. *)
HasPassed(p, k) ==
  /\ toSwap[p] = (IF k = Len(order) THEN None ELSE order[k + 1])
  /\ lastHigher[p] = (IF k = 0 THEN first ELSE order[k])
  /\ \A i \in 1 .. k : Pr(order[i]) >= Pr(newEl[p])

Walkers ==
  \A p \in Producers :
    pc[p] = "walk" => \E k \in 0 .. Len(order) : HasPassed(p, k)

QueueInv ==
  /\ TypeOK
  /\ Locked
  /\ ListShape
  /\ PointersAlive
  /\ Filled
  /\ Sorted
  /\ Walkers
  /\ PopsInPlace

=============================================================================
