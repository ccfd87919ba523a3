------------------------- MODULE PacketQueueProofs -------------------------
(***************************************************************************)
(* The packet queue works for any number of producers, any memory and any  *)
(* priorities: its pointers are never dangling, and it implements a queue  *)
(* ordered by priority.  QueueInv is the inductive invariant; the lemmas   *)
(* show that each action keeps it, one conjunct at a time.                 *)
(***************************************************************************)
EXTENDS PacketQueue, SequenceTheorems, TLAPS

-----------------------------------------------------------------------------
(* A sequence with an element inserted. *)
LEMMA InsertedProperties ==
  ASSUME NEW S, NEW s \in Seq(S), NEW k \in 0 .. Len(s), NEW e \in S
  PROVE  /\ Inserted(s, k, e) \in Seq(S)
         /\ Len(Inserted(s, k, e)) = Len(s) + 1
         /\ \A i \in 1 .. Len(s) + 1 : Inserted(s, k, e)[i] =
              IF i <= k THEN s[i] ELSE IF i = k + 1 THEN e ELSE s[i - 1]
         /\ Range(Inserted(s, k, e)) = Range(s) \cup {e}
<1> DEFINE t == Inserted(s, k, e)
<1>1. /\ Len(s) \in Nat /\ Len(s) + 1 \in Nat
      /\ DOMAIN s = 1 .. Len(s)
      /\ \A i \in 1 .. Len(s) : s[i] \in S
  OBVIOUS
<1>2. t \in [1 .. Len(s) + 1 -> S]
  BY <1>1 DEF Inserted
<1>3. t \in Seq(S) /\ Len(t) = Len(s) + 1
  BY <1>1, <1>2
<1>4. \A i \in 1 .. Len(s) + 1 : t[i] =
        IF i <= k THEN s[i] ELSE IF i = k + 1 THEN e ELSE s[i - 1]
  BY DEF Inserted
<1> HIDE DEF t
<1>5. Range(t) \subseteq Range(s) \cup {e}
  <2> SUFFICES ASSUME NEW i \in 1 .. Len(s) + 1
               PROVE  t[i] \in Range(s) \cup {e}
    BY <1>2 DEF Range
  <2>1. CASE i <= k
    BY <1>1, <1>4, <2>1 DEF Range
  <2>2. CASE i = k + 1
    BY <1>1, <1>4, <2>2
  <2>3. CASE i > k + 1
    <3>1. t[i] = s[i - 1] /\ i - 1 \in 1 .. Len(s)
      BY <1>1, <1>4, <2>3
    <3> QED BY <1>1, <3>1 DEF Range
  <2> QED BY <1>1, <2>1, <2>2, <2>3
<1>6. Range(s) \cup {e} \subseteq Range(t)
  <2>1. e \in Range(t)
    <3>1. k + 1 \in 1 .. Len(s) + 1 /\ t[k + 1] = e
      BY <1>1, <1>4
    <3> QED BY <3>1, <1>2 DEF Range
  <2>2. ASSUME NEW i \in 1 .. Len(s) PROVE s[i] \in Range(t)
    <3>1. CASE i <= k
      BY <3>1, <1>1, <1>2, <1>4 DEF Range
    <3>2. CASE i > k
      <4>1. i + 1 \in 1 .. Len(s) + 1 /\ t[i + 1] = s[i]
        BY <3>2, <1>1, <1>4
      <4> QED BY <4>1, <1>2 DEF Range
    <3> QED BY <3>1, <3>2
  <2> QED BY <2>1, <2>2, <1>1 DEF Range
<1> QED BY <1>3, <1>4, <1>5, <1>6 DEF t

(* A sequence without its head. *)
LEMMA TailProperties ==
  ASSUME NEW S, NEW s \in Seq(S), s # <<>>
  PROVE  /\ Tail(s) \in Seq(S)
         /\ Len(s) \in Nat \ {0}
         /\ Len(Tail(s)) = Len(s) - 1
         /\ \A i \in 1 .. Len(s) - 1 : Tail(s)[i] = s[i + 1]
         /\ Range(Tail(s)) \subseteq Range(s)
<1>1. /\ Tail(s) \in Seq(S)
      /\ Len(s) \in Nat \ {0}
      /\ Len(Tail(s)) = Len(s) - 1
      /\ \A i \in 1 .. Len(s) - 1 : Tail(s)[i] = s[i + 1]
  OBVIOUS
<1>2. Range(Tail(s)) \subseteq Range(s)
  <2>1. DOMAIN Tail(s) = 1 .. Len(s) - 1 /\ DOMAIN s = 1 .. Len(s)
    BY <1>1
  <2> QED BY <1>1, <2>1 DEF Range
<1> QED BY <1>1, <1>2

(* A cell is in the list once. *)
LEMMA OnceInList ==
  ASSUME TypeOK, ListShape,
         NEW i \in 1 .. Len(order), NEW j \in 1 .. Len(order),
         order[i] = order[j]
  PROVE  i = j
<1>1. IsInjective(order) /\ order \in Seq(Cells)
  BY DEF ListShape, TypeOK
<1>2. DOMAIN order = 1 .. Len(order)
  BY <1>1
<1> QED BY <1>1, <1>2 DEF IsInjective

(* The initial state. *)
LEMMA InitQueueInv == Init => QueueInv
<1> SUFFICES ASSUME Init PROVE QueueInv
  OBVIOUS
<1> USE QueueAssumption DEF Init
<1>1. order = <<>> /\ Len(order) = 0 /\ order \in Seq(Cells) /\ Range(order) = {}
  BY DEF Range
<1>2. TypeOK
  BY <1>1 DEF TypeOK
<1>3. Locked
  BY DEF Locked
<1>4. ListShape
  BY <1>1 DEF ListShape, IsInjective
<1>5. PointersAlive
  BY <1>1 DEF PointersAlive
<1>6. Filled /\ Walkers /\ PopsInPlace
  BY DEF Filled, Walkers, PopsInPlace
<1>7. Sorted
  BY <1>1 DEF Sorted
<1> QED BY <1>2, <1>3, <1>4, <1>5, <1>6, <1>7 DEF QueueInv

-----------------------------------------------------------------------------
(* addToQueue *)

(* Make touches only a cell that nobody knows. *)
LEMMA MakeKeeps ==
  ASSUME QueueInv, NEW p \in Producers, NEW e \in Element, Make(p, e)
  PROVE  QueueInv'
<1> USE QueueAssumption DEF QueueInv
<1>1. PICK c \in Cells \ allocated :
        /\ allocated' = allocated \cup {c}
        /\ element' = [element EXCEPT ![c] = e]
        /\ next' = [next EXCEPT ![c] = None]
        /\ newEl' = [newEl EXCEPT ![p] = c]
  BY DEF Make
<1>2. /\ pc[p] = "idle"
      /\ pc' = [pc EXCEPT ![p] = "lock"]
      /\ UNCHANGED <<listVars, toSwap, lastHigher, popVars>>
  BY DEF Make
<1>3. /\ \A d \in Range(order) : d \in Cells /\ d # c
      /\ \A i \in 1 .. Len(order) : order[i] \in Range(order)
      /\ Len(order) \in Nat
  BY DEF TypeOK, PointersAlive, Range
<1>4. TypeOK'
  BY <1>1, <1>2 DEF TypeOK, listVars, popVars
<1>5. Locked'
  BY <1>1, <1>2 DEF Locked, TypeOK, listVars, popVars
<1>6. ListShape'
  BY <1>1, <1>2, <1>3 DEF ListShape, TypeOK, listVars
<1>7. PointersAlive'
  BY <1>1, <1>2, <1>3 DEF PointersAlive, TypeOK, listVars, popVars
<1>8. Filled'
  BY <1>1, <1>2 DEF Filled, TypeOK, PointersAlive
<1>9. Sorted'
  BY <1>1, <1>2, <1>3 DEF Sorted, Pr, TypeOK, listVars
<1>10. Walkers'
  <2> SUFFICES ASSUME NEW q \in Producers, pc'[q] = "walk"
               PROVE  \E k \in 0 .. Len(order') : HasPassed(q, k)'
    BY DEF Walkers
  <2>1. q # p /\ pc[q] = "walk" /\ newEl'[q] = newEl[q] /\ newEl[q] # c
    BY <1>1, <1>2 DEF TypeOK, PointersAlive
  <2>2. PICK k \in 0 .. Len(order) : HasPassed(q, k)
    BY <2>1 DEF Walkers
  <2>3. HasPassed(q, k)'
    BY <1>1, <1>2, <1>3, <2>1, <2>2 DEF HasPassed, Pr, TypeOK, listVars
  <2> QED BY <1>2, <2>3 DEF listVars
<1>11. PopsInPlace'
  BY <1>2 DEF PopsInPlace, listVars, popVars
<1> QED BY <1>4, <1>5, <1>6, <1>7, <1>8, <1>9, <1>10, <1>11

(* A producer that enters has passed nothing. *)
LEMMA LockKeeps ==
  ASSUME QueueInv, NEW p \in Producers, Lock(p)
  PROVE  QueueInv'
<1> USE QueueAssumption DEF QueueInv, Lock
<1>1. UNCHANGED <<first, size, order, heapVars, newEl, popVars>>
  OBVIOUS
<1>2. Len(order) \in Nat
  BY DEF TypeOK
<1>3. TypeOK'
  BY <1>1 DEF TypeOK, heapVars, popVars
<1>4. Locked'
  BY <1>1 DEF Locked, TypeOK, popVars
<1>5. ListShape'
  BY <1>1 DEF ListShape, heapVars
<1>6. PointersAlive'
  <2>1. first \in Range(order) \cup {None}
    BY <1>2 DEF ListShape, TypeOK, Range
  <2> QED BY <1>1, <2>1 DEF PointersAlive, TypeOK, heapVars, popVars
<1>7. Filled' /\ Sorted' /\ PopsInPlace'
  BY <1>1 DEF Filled, Sorted, Pr, PopsInPlace, TypeOK, heapVars, popVars
<1>8. Walkers'
  <2> SUFFICES ASSUME NEW q \in Producers, pc'[q] = "walk"
               PROVE  \E k \in 0 .. Len(order) : HasPassed(q, k)'
    BY <1>1 DEF Walkers
  <2>1. CASE q = p
    <3>1. HasPassed(q, 0)'
      BY <1>1, <1>2, <2>1 DEF HasPassed, TypeOK, ListShape, heapVars
    <3> QED BY <1>2, <3>1
  <2>2. CASE q # p
    <3>1. PICK k \in 0 .. Len(order) : HasPassed(q, k)
      BY <2>2 DEF Walkers, TypeOK
    <3>2. HasPassed(q, k)'
      BY <1>1, <2>2, <3>1 DEF HasPassed, Pr, TypeOK, heapVars
    <3> QED BY <3>2
  <2> QED BY <2>1, <2>2
<1> QED BY <1>3, <1>4, <1>5, <1>6, <1>7, <1>8

(* One element more is passed. *)
LEMMA WalkKeeps ==
  ASSUME QueueInv, NEW p \in Producers, Walk(p)
  PROVE  QueueInv'
<1> USE QueueAssumption DEF QueueInv, Walk
<1>1. UNCHANGED <<listVars, heapVars, pc, newEl, popVars>>
  OBVIOUS
<1>2. Len(order) \in Nat /\ \A i \in 1 .. Len(order) : order[i] \in Cells
  BY DEF TypeOK
<1>3. PICK k \in 0 .. Len(order) : HasPassed(p, k)
  BY DEF Walkers
<1>4. k < Len(order) /\ toSwap[p] = order[k + 1]
  BY <1>2, <1>3 DEF HasPassed, Passes
<1>5. next[toSwap[p]] =
        (IF k + 1 = Len(order) THEN None ELSE order[k + 2])
  BY <1>2, <1>4 DEF ListShape
<1>6. TypeOK'
  BY <1>1, <1>2, <1>4 DEF TypeOK, listVars, heapVars, popVars
<1>7. Locked' /\ ListShape' /\ Filled' /\ Sorted' /\ PopsInPlace'
  BY <1>1 DEF Locked, ListShape, Filled, Sorted, Pr, PopsInPlace,
              listVars, heapVars, popVars
<1>8. PointersAlive'
  <2>1. {toSwap[p], next[toSwap[p]]} \subseteq Range(order) \cup {None}
    BY <1>2, <1>4, <1>5 DEF Range, TypeOK
  <2> QED BY <1>1, <2>1 DEF PointersAlive, TypeOK, listVars, heapVars, popVars
<1>9. Walkers'
  <2> SUFFICES ASSUME NEW q \in Producers, pc[q] = "walk"
               PROVE  \E j \in 0 .. Len(order) : HasPassed(q, j)'
    BY <1>1 DEF Walkers, listVars
  <2>1. CASE q = p
    <3>1. HasPassed(q, k + 1)'
      BY <1>1, <1>2, <1>3, <1>4, <1>5, <2>1
      DEF HasPassed, Passes, Pr, TypeOK, listVars, heapVars
    <3> QED BY <1>2, <1>4, <3>1
  <2>2. CASE q # p
    BY <2>2 DEF Locked
  <2> QED BY <2>1, <2>2
<1> QED BY <1>6, <1>7, <1>8, <1>9

(* Where a producer that holds the lock will link its element. *)
LEMMA PlaceFound ==
  ASSUME QueueInv, NEW p \in Producers, pc[p] = "walk",
         NEW k \in 0 .. Len(order), HasPassed(p, k)
  PROVE  Before(toSwap[p]) = k
<1> USE QueueAssumption
<1>0. TypeOK /\ Locked /\ ListShape /\ PointersAlive /\ Filled /\ Sorted /\ Walkers
  BY DEF QueueInv
<1> DEFINE P(j) == toSwap[p] = (IF j = Len(order) THEN None ELSE order[j + 1])
<1>1. /\ Len(order) \in Nat
      /\ \A i \in 1 .. Len(order) : order[i] \in Cells
  BY <1>0 DEF TypeOK
<1>2. P(k)
  BY DEF HasPassed
<1>3. ASSUME NEW j \in 0 .. Len(order), P(j) PROVE j = k
  <2>1. CASE k = Len(order)
    <3>1. toSwap[p] = None
      BY <1>2, <2>1
    <3>2. ASSUME j # Len(order) PROVE FALSE
      <4>1. j + 1 \in 1 .. Len(order)
        BY <1>1, <3>2
      <4>2. order[j + 1] = None
        BY <1>3, <3>1, <3>2
      <4> QED BY <1>1, <4>1, <4>2
    <3> QED BY <2>1, <3>2
  <2>2. CASE k # Len(order)
    <3>1. toSwap[p] = order[k + 1] /\ k + 1 \in 1 .. Len(order)
      BY <1>1, <1>2, <2>2
    <3>2. j # Len(order)
      BY <1>1, <1>3, <3>1
    <3>3. order[j + 1] = order[k + 1]
      BY <1>3, <3>1, <3>2
    <3>4. j + 1 \in 1 .. Len(order)
      BY <1>1, <1>3, <3>2
    <3>5. \A i1, i2 \in 1 .. Len(order) : order[i1] = order[i2] => i1 = i2
      BY <1>0, OnceInList
    <3>6. j + 1 = k + 1
      BY <3>1, <3>3, <3>4, <3>5
    <3> QED BY <1>1, <3>6
  <2> QED BY <2>1, <2>2
<1> QED BY <1>2, <1>3 DEF Before

(* What Link knows when it begins, and what it does to the list. *)
LEMMA LinkEffect ==
  ASSUME QueueInv, NEW p \in Producers, Link(p)
  PROVE  \E k \in 0 .. Len(order) :
           LET c == newEl[p] IN
           /\ c \in (allocated \cap Cells) \ Range(order)
           /\ order' = Inserted(order, k, c)
           /\ order' \in Seq(Cells)
           /\ Len(order') = Len(order) + 1
           /\ \A i \in 1 .. Len(order) + 1 : order'[i] =
                IF i <= k THEN order[i] ELSE IF i = k + 1 THEN c ELSE order[i - 1]
           /\ Range(order') = Range(order) \cup {c}
           /\ first' = IF k = 0 THEN c ELSE first
           /\ next' = [d \in Cells |->
                IF k # 0 /\ d = order[k] THEN c
                ELSE IF d = c THEN (IF k = Len(order) THEN None ELSE order[k + 1])
                ELSE next[d]]
           /\ \A i \in 1 .. k : Pr(order[i]) >= Pr(c)
           /\ \A i \in k + 1 .. Len(order) : Pr(order[i]) < Pr(c)
<1> USE QueueAssumption
<1>0. TypeOK /\ Locked /\ ListShape /\ PointersAlive /\ Filled /\ Sorted /\ Walkers
  BY DEF QueueInv
<1> DEFINE c == newEl[p]
<1>1. /\ Len(order) \in Nat
      /\ order \in Seq(Cells)
      /\ \A i \in 1 .. Len(order) : order[i] \in Cells /\ order[i] \in Range(order)
  BY <1>0 DEF TypeOK, Range
<1>2. pc[p] = "walk" /\ ~Passes(p)
  BY DEF Link
<1>3. c \in (allocated \cap Cells) \ Range(order) /\ next[c] = None
  BY <1>0, <1>2 DEF PointersAlive, TypeOK, Filled
<1>4. PICK k \in 0 .. Len(order) : HasPassed(p, k)
  BY <1>0, <1>2 DEF Walkers
<1>5. order' = Inserted(order, k, c)
  BY <1>2, <1>4, PlaceFound DEF Link
<1>6. /\ order' \in Seq(Cells)
      /\ Len(order') = Len(order) + 1
      /\ \A i \in 1 .. Len(order) + 1 : order'[i] =
           IF i <= k THEN order[i] ELSE IF i = k + 1 THEN c ELSE order[i - 1]
      /\ Range(order') = Range(order) \cup {c}
  <2>1. order \in Seq(Cells) /\ c \in Cells
    BY <1>1, <1>3
  <2> HIDE DEF c
  <2>2. Inserted(order, k, c) \in Seq(Cells)
    BY <2>1, InsertedProperties
  <2>3. Len(Inserted(order, k, c)) = Len(order) + 1
    BY <2>1, InsertedProperties
  <2>4. \A i \in 1 .. Len(order) + 1 : Inserted(order, k, c)[i] =
          IF i <= k THEN order[i] ELSE IF i = k + 1 THEN c ELSE order[i - 1]
    BY <2>1, InsertedProperties
  <2>5. Range(Inserted(order, k, c)) = Range(order) \cup {c}
    BY <2>1, InsertedProperties
  <2> QED BY <2>2, <2>3, <2>4, <2>5, <1>5, Zenon
<1>7. \A i \in 1 .. k : Pr(order[i]) >= Pr(c)
  BY <1>4 DEF HasPassed
<1>8. ASSUME NEW i \in k + 1 .. Len(order) PROVE Pr(order[i]) < Pr(c)
  <2>1. k < Len(order) /\ k + 1 \in 1 .. Len(order) /\ i \in 1 .. Len(order)
    BY <1>1, <1>8
  <2>2. toSwap[p] = order[k + 1] /\ order[k + 1] # None
    <3>1. order[k + 1] \in Cells
      BY <1>1, <2>1
    <3>2. k # Len(order)
      BY <1>1, <2>1
    <3> QED BY <1>4, <3>1, <3>2 DEF HasPassed
  <2>3. ~ (Pr(order[k + 1]) >= Pr(c))
    BY <1>2, <2>2 DEF Passes
  <2>4. Pr(order[i]) \in Int /\ Pr(order[k + 1]) \in Int /\ Pr(c) \in Int
    BY <1>0, <1>1, <1>3, <2>1 DEF Filled, PointersAlive, Pr, Element
  <2>5. i = k + 1 \/ Pr(order[k + 1]) >= Pr(order[i])
    BY <1>0, <1>1, <2>1 DEF Sorted
  <2> QED BY <2>3, <2>4, <2>5
<1>9. /\ first' = IF k = 0 THEN c ELSE first
      /\ next' = [d \in Cells |->
           IF k # 0 /\ d = order[k] THEN c
           ELSE IF d = c THEN (IF k = Len(order) THEN None ELSE order[k + 1])
           ELSE next[d]]
  <2>1. next \in [Cells -> {None} \cup Cells]
    BY <1>0 DEF TypeOK
  <2>2. Linked(c, lastHigher[p], toSwap[p])
    BY DEF Link
  <2>3. CASE k = 0 /\ Len(order) = 0
    <3>1. first = None
      BY <1>0, <1>1, <2>3 DEF ListShape
    <3> QED BY <1>3, <2>1, <2>2, <2>3, <3>1 DEF Linked
  <2>4. CASE k = 0 /\ Len(order) # 0
    <3>1. first = order[1] /\ first # None
      BY <1>0, <1>1, <2>4 DEF ListShape
    <3>2. toSwap[p] = first /\ lastHigher[p] = first
      BY <1>4, <2>4, <3>1 DEF HasPassed
    <3> QED BY <1>3, <2>1, <2>2, <2>4, <3>1, <3>2 DEF Linked
  <2>5. CASE k # 0
    <3>1. k \in 1 .. Len(order) /\ order # <<>>
      BY <1>1, <2>5
    <3>2. first # None
      BY <1>0, <1>1, <3>1 DEF ListShape
    <3>3. lastHigher[p] = order[k] /\ order[k] \in Cells /\ order[k] # c
      <4>1. lastHigher[p] = order[k]
        BY <1>4, <2>5 DEF HasPassed
      <4> QED BY <1>1, <1>3, <3>1, <4>1
    <3>4. toSwap[p] = (IF k = Len(order) THEN None ELSE order[k + 1])
      BY <1>4 DEF HasPassed
    <3>5. toSwap[p] # order[k]
      BY <1>0, <1>1, <3>1, <3>4 DEF ListShape, IsInjective
    <3>6. next[order[k]] = (IF k = Len(order) THEN None ELSE order[k + 1])
      BY <1>0, <3>1 DEF ListShape
    <3>7. /\ next' = [next EXCEPT ![c] = next[order[k]], ![order[k]] = c]
          /\ first' = first
      BY <2>2, <3>2, <3>3, <3>5 DEF Linked
    <3> QED BY <1>3, <2>1, <2>5, <3>3, <3>6, <3>7
  <2> QED BY <1>1, <2>3, <2>4, <2>5
<1> QED BY <1>3, <1>5, <1>6, <1>7, <1>8, <1>9

(* The element is linked in where it belongs. *)
LEMMA LinkKeeps ==
  ASSUME QueueInv, NEW p \in Producers, Link(p)
  PROVE  QueueInv'
<1> USE QueueAssumption
<1>0. TypeOK /\ Locked /\ ListShape /\ PointersAlive /\ Filled /\ Sorted
  BY DEF QueueInv
<1> DEFINE c == newEl[p]
           n == Len(order)
<1>1. PICK k \in 0 .. Len(order) :
        /\ c \in (allocated \cap Cells) \ Range(order)
        /\ order' = Inserted(order, k, c)
        /\ order' \in Seq(Cells)
        /\ Len(order') = Len(order) + 1
        /\ \A i \in 1 .. Len(order) + 1 : order'[i] =
             IF i <= k THEN order[i] ELSE IF i = k + 1 THEN c ELSE order[i - 1]
        /\ Range(order') = Range(order) \cup {c}
        /\ first' = IF k = 0 THEN c ELSE first
        /\ next' = [d \in Cells |->
             IF k # 0 /\ d = order[k] THEN c
             ELSE IF d = c THEN (IF k = Len(order) THEN None ELSE order[k + 1])
             ELSE next[d]]
        /\ \A i \in 1 .. k : Pr(order[i]) >= Pr(c)
        /\ \A i \in k + 1 .. Len(order) : Pr(order[i]) < Pr(c)
  BY LinkEffect
<1>2. /\ pc[p] = "walk"
      /\ lock' = None /\ size' = size + 1
      /\ pc' = [pc EXCEPT ![p] = "idle"]
      /\ newEl' = [newEl EXCEPT ![p] = None]
      /\ toSwap' = [toSwap EXCEPT ![p] = None]
      /\ lastHigher' = [lastHigher EXCEPT ![p] = None]
      /\ UNCHANGED <<element, allocated, popVars>>
  BY DEF Link
<1>3. /\ n \in Nat
      /\ \A i \in 1 .. n : order[i] \in Cells /\ order[i] \in Range(order)
      /\ k \in Nat /\ k <= n
  BY <1>0 DEF TypeOK, Range
<1>4. \A q \in Producers : pc'[q] # "idle" =>
        q # p /\ pc'[q] = "lock" /\ pc[q] = "lock" /\ newEl'[q] = newEl[q]
  BY <1>0, <1>2 DEF TypeOK, Locked
<1>5. popping # "unlink" /\ popping' = popping /\ popped' = popped
  BY <1>0, <1>2 DEF Locked, popVars
<1>6. TypeOK'
  <2>1. \A d \in Cells : next'[d] \in {None} \cup Cells
    BY <1>0, <1>1, <1>3 DEF TypeOK
  <2>2. next' \in [Cells -> {None} \cup Cells]
    BY <1>1, <2>1
  <2>3. first' \in {None} \cup Cells
    BY <1>0, <1>1 DEF TypeOK
  <2> QED BY <1>0, <1>1, <1>2, <2>2, <2>3 DEF TypeOK, popVars
<1>7. Locked'
  BY <1>2, <1>4, <1>5 DEF Locked
<1>8. ListShape'
  <2>1. \A i, j \in 1 .. n : order[i] = order[j] => i = j
    BY <1>0, OnceInList
  <2>2. ASSUME NEW i \in 1 .. n + 1, NEW j \in 1 .. n + 1, i < j
        PROVE  order'[i] # order'[j]
    <3>1. CASE j <= k
      <4>1. /\ order'[i] = order[i] /\ order'[j] = order[j]
            /\ i \in 1 .. n /\ j \in 1 .. n /\ i # j
        BY <1>1, <1>3, <2>2, <3>1
      <4> QED BY <2>1, <4>1
    <3>2. CASE j = k + 1
      <4>1. order'[i] = order[i] /\ order'[j] = c /\ i \in 1 .. n
        BY <1>1, <1>3, <2>2, <3>2
      <4> QED BY <1>1, <1>3, <4>1
    <3>3. CASE j > k + 1 /\ i = k + 1
      <4>1. order'[i] = c /\ order'[j] = order[j - 1] /\ j - 1 \in 1 .. n
        BY <1>1, <1>3, <3>3
      <4> QED BY <1>1, <1>3, <4>1
    <3>4. CASE j > k + 1 /\ i <= k
      <4>1. /\ order'[i] = order[i] /\ order'[j] = order[j - 1]
            /\ j - 1 \in 1 .. n /\ i \in 1 .. n /\ i # j - 1
        BY <1>1, <1>3, <3>4
      <4> QED BY <2>1, <4>1
    <3>5. CASE j > k + 1 /\ i > k + 1
      <4>1. /\ order'[i] = order[i - 1] /\ order'[j] = order[j - 1]
            /\ j - 1 \in 1 .. n /\ i - 1 \in 1 .. n /\ i - 1 # j - 1
        BY <1>1, <1>3, <2>2, <3>5
      <4> QED BY <2>1, <4>1
    <3> QED BY <1>3, <3>1, <3>2, <3>3, <3>4, <3>5
  <2>3. IsInjective(order')
    <3>1. ASSUME NEW i \in 1 .. n + 1, NEW j \in 1 .. n + 1, i # j
          PROVE  order'[i] # order'[j]
      <4>1. i < j \/ j < i
        BY <1>3, <3>1
      <4> QED BY <2>2, <4>1
    <3> QED BY <1>1, <3>1 DEF IsInjective
  <2>4. first' = order'[1] /\ order' # <<>>
    <3>1. CASE k = 0
      BY <1>1, <1>3, <3>1
    <3>2. CASE k # 0
      BY <1>0, <1>1, <1>3, <3>2 DEF ListShape
    <3> QED BY <3>1, <3>2
  <2>5. ASSUME NEW i \in 1 .. n + 1
        PROVE  next'[order'[i]] = (IF i = n + 1 THEN None ELSE order'[i + 1])
    <3>1. CASE i < k
      <4>1. /\ order'[i] = order[i] /\ order'[i + 1] = order[i + 1]
            /\ order[i] \in Cells /\ order[i] # c /\ order[i] # order[k]
            /\ i # n + 1 /\ i # n
        BY <1>1, <1>3, <2>1, <3>1
      <4>2. next[order[i]] = order[i + 1]
        BY <1>0, <1>3, <3>1, <4>1 DEF ListShape
      <4> QED BY <1>1, <4>1, <4>2
    <3>2. CASE i = k
      <4>1. order'[i] = order[k] /\ order[k] \in Cells /\ k # 0
        BY <1>1, <1>3, <3>2
      <4>2. order'[i + 1] = c /\ i # n + 1
        BY <1>1, <1>3, <3>2
      <4> QED BY <1>1, <4>1, <4>2
    <3>3. CASE i = k + 1
      <4>1. order'[i] = c
        BY <1>1, <1>3, <3>3
      <4>2. k # 0 => order[k] # c
        BY <1>1, <1>3
      <4>3. next'[c] = (IF k = n THEN None ELSE order[k + 1])
        BY <1>1, <4>2
      <4>4. k # n => order'[i + 1] = order[k + 1]
        BY <1>1, <1>3, <3>3
      <4> QED BY <1>3, <3>3, <4>1, <4>3, <4>4
    <3>4. CASE i > k + 1
      <4>1. /\ order'[i] = order[i - 1] /\ i - 1 \in 1 .. n
            /\ order[i - 1] \in Cells /\ order[i - 1] # c
        BY <1>1, <1>3, <3>4
      <4>2. k # 0 => order[i - 1] # order[k]
        BY <1>3, <2>1, <3>4, <4>1
      <4>3. next[order[i - 1]] = (IF i - 1 = n THEN None ELSE order[(i - 1) + 1])
        BY <1>0, <4>1 DEF ListShape
      <4>4. next'[order'[i]] = next[order[i - 1]]
        BY <1>1, <4>1, <4>2
      <4>5. i # n + 1 => order'[i + 1] = order[i]
        BY <1>1, <1>3, <3>4
      <4> QED BY <1>3, <4>3, <4>4, <4>5
    <3> QED BY <1>3, <3>1, <3>2, <3>3, <3>4
  <2>6. size' = Len(order')
    BY <1>0, <1>1, <1>2 DEF ListShape
  <2> QED BY <1>1, <2>3, <2>4, <2>5, <2>6 DEF ListShape
<1>9. PointersAlive'
  BY <1>0, <1>1, <1>2, <1>4, <1>5 DEF PointersAlive, TypeOK
<1>10. Filled'
  <2>1. ASSUME NEW q \in Producers, pc'[q] # "idle"
        PROVE  next'[newEl'[q]] = None
    <3>1. /\ newEl[q] \in Cells /\ newEl[q] # c /\ newEl[q] \notin Range(order)
          /\ next[newEl[q]] = None
      BY <1>0, <1>2, <1>4, <2>1 DEF PointersAlive, TypeOK, Filled
    <3>2. k # 0 => newEl[q] # order[k]
      BY <1>3, <3>1
    <3> QED BY <1>1, <1>4, <2>1, <3>1, <3>2
  <2> QED BY <1>0, <1>2, <2>1 DEF Filled
<1>11. Sorted'
  <2>1. \A d \in Cells : Pr(d)' = Pr(d)
    BY <1>2 DEF Pr
  <2>2. /\ Pr(c) \in Int
        /\ \A i \in 1 .. n : Pr(order[i]) \in Int
    BY <1>0, <1>1, <1>3 DEF Filled, PointersAlive, Pr, Element
  <2>3. ASSUME NEW i \in 1 .. n + 1, NEW j \in 1 .. n + 1, i < j
        PROVE  Pr(order'[i]) >= Pr(order'[j])
    <3>1. CASE j <= k
      BY <1>0, <1>1, <1>3, <2>3, <3>1 DEF Sorted
    <3>2. CASE j = k + 1
      BY <1>1, <1>3, <2>3, <3>2
    <3>3. CASE j > k + 1 /\ i = k + 1
      <4>1. /\ order'[i] = c /\ order'[j] = order[j - 1]
            /\ j - 1 \in k + 1 .. n /\ j - 1 \in 1 .. n
        BY <1>1, <1>3, <3>3
      <4>2. Pr(order[j - 1]) < Pr(c)
        BY <1>1, <4>1
      <4> QED BY <2>2, <4>1, <4>2
    <3>4. CASE j > k + 1 /\ i <= k
      <4>1. /\ order'[i] = order[i] /\ order'[j] = order[j - 1]
            /\ j - 1 \in 1 .. n /\ i \in 1 .. n /\ i < j - 1
        BY <1>1, <1>3, <3>4
      <4> QED BY <1>0, <4>1 DEF Sorted
    <3>5. CASE j > k + 1 /\ i > k + 1
      <4>1. /\ order'[i] = order[i - 1] /\ order'[j] = order[j - 1]
            /\ j - 1 \in 1 .. n /\ i - 1 \in 1 .. n /\ i - 1 < j - 1
        BY <1>1, <1>3, <2>3, <3>5
      <4> QED BY <1>0, <4>1 DEF Sorted
    <3> QED BY <1>3, <3>1, <3>2, <3>3, <3>4, <3>5
  <2>4. \A i \in 1 .. n + 1 : order'[i] \in Cells
    BY <1>1, <1>3
  <2> QED BY <1>1, <2>1, <2>3, <2>4 DEF Sorted
<1>12. Walkers'
  BY <1>4 DEF Walkers
<1>13. PopsInPlace'
  BY <1>0, <1>1, <1>3 DEF PopsInPlace, ListShape
<1> QED BY <1>6, <1>7, <1>8, <1>9, <1>10, <1>11, <1>12, <1>13 DEF QueueInv

-----------------------------------------------------------------------------
(* popFromQueue *)

(* A size that is not zero means that there is an element. *)
LEMMA TestKeeps ==
  ASSUME QueueInv, Test
  PROVE  QueueInv'
<1> USE QueueAssumption
<1>0. /\ TypeOK /\ Locked /\ ListShape /\ PointersAlive /\ Filled /\ Sorted
      /\ Walkers
  BY DEF QueueInv
<1>1. /\ popping = "test" /\ size # 0 /\ popping' = "lock"
      /\ UNCHANGED <<listVars, heapVars, addVars, popped, buf>>
  BY DEF Test
<1>2. TypeOK' /\ Locked' /\ ListShape' /\ Filled' /\ Sorted'
  BY <1>0, <1>1 DEF TypeOK, Locked, ListShape, Filled, Sorted, Pr,
                    listVars, heapVars, addVars
<1>3. PointersAlive' /\ Walkers'
  BY <1>0, <1>1 DEF PointersAlive, Walkers, HasPassed, Pr,
                    listVars, heapVars, addVars
<1>4. first # None
  BY <1>0, <1>1 DEF ListShape, TypeOK
<1>5. PopsInPlace'
  BY <1>1, <1>4 DEF PopsInPlace, listVars
<1> QED BY <1>2, <1>3, <1>5 DEF QueueInv

(* Nobody else is in the list when the consumer takes the lock. *)
LEMMA LockPopKeeps ==
  ASSUME QueueInv, LockPop
  PROVE  QueueInv'
<1> USE QueueAssumption
<1>0. /\ TypeOK /\ Locked /\ ListShape /\ PointersAlive /\ Filled /\ Sorted
      /\ Walkers /\ PopsInPlace
  BY DEF QueueInv
<1>1. /\ popping = "lock" /\ lock = None
      /\ lock' = Consumer /\ popping' = "unlink"
      /\ UNCHANGED <<first, size, order, heapVars, addVars, popped, buf>>
  BY DEF LockPop
<1>2. TypeOK' /\ ListShape' /\ Filled' /\ Sorted' /\ PopsInPlace'
  BY <1>0, <1>1 DEF TypeOK, ListShape, Filled, Sorted, Pr, PopsInPlace,
                    heapVars, addVars
<1>3. PointersAlive' /\ Walkers'
  BY <1>0, <1>1 DEF PointersAlive, Walkers, HasPassed, Pr, heapVars, addVars
<1>4. Locked'
  BY <1>0, <1>1 DEF Locked, addVars
<1> QED BY <1>2, <1>3, <1>4 DEF QueueInv

(* The list loses its first element, which nobody else can reach. *)
LEMMA UnlinkKeeps ==
  ASSUME QueueInv, Unlink
  PROVE  QueueInv'
<1> USE QueueAssumption
<1>0. /\ TypeOK /\ Locked /\ ListShape /\ PointersAlive /\ Filled /\ Sorted
  BY DEF QueueInv
<1> DEFINE n == Len(order)
<1>1. /\ popping = "unlink" /\ first # None
      /\ popped' = first /\ first' = next[first] /\ order' = Tail(order)
      /\ size' = size - 1 /\ lock' = None /\ popping' = "return"
      /\ UNCHANGED <<heapVars, addVars, buf>>
  BY DEF Unlink
<1>2. /\ n \in Nat
      /\ \A i \in 1 .. n : order[i] \in Cells /\ order[i] \in Range(order)
      /\ order \in Seq(Cells)
  BY <1>0 DEF TypeOK, Range
<1>3. order # <<>> /\ first = order[1]
  BY <1>0, <1>1 DEF ListShape
<1>4. /\ order' \in Seq(Cells)
      /\ n \in Nat \ {0}
      /\ Len(order') = n - 1
      /\ \A i \in 1 .. n - 1 : order'[i] = order[i + 1]
      /\ Range(order') \subseteq Range(order)
  BY <1>1, <1>2, <1>3, TailProperties
<1>5. \A i, j \in 1 .. n : order[i] = order[j] => i = j
  BY <1>0, OnceInList
<1>6. order[1] \in Cells /\ order[1] \in Range(order) /\ order[1] \notin Range(order')
  <2>1. 1 \in 1 .. n
    BY <1>4
  <2>2. ASSUME order[1] \in Range(order') PROVE FALSE
    <3>1. PICK i \in 1 .. n - 1 : order'[i] = order[1]
      BY <1>4, <2>2 DEF Range
    <3>2. i + 1 \in 1 .. n /\ order[i + 1] = order[1] /\ i + 1 # 1
      BY <1>4, <3>1
    <3> QED BY <1>5, <2>1, <3>2
  <2> QED BY <1>2, <2>1, <2>2
<1>7. \A p \in Producers : pc[p] # "walk"
  BY <1>0, <1>1 DEF Locked
<1>8. TypeOK'
  <2>1. size \in Nat \ {0}
    BY <1>0, <1>4 DEF ListShape
  <2>2. next[first] \in {None} \cup Cells
    BY <1>0, <1>3, <1>6 DEF TypeOK
  <2> QED BY <1>0, <1>1, <1>3, <1>4, <1>6, <2>1, <2>2
          DEF TypeOK, heapVars, addVars
<1>9. Locked'
  BY <1>1, <1>7 DEF Locked, addVars
<1>10. ListShape'
  <2>1. ASSUME NEW i \in 1 .. n - 1, NEW j \in 1 .. n - 1, order'[i] = order'[j]
        PROVE  i = j
    <3>1. order[i + 1] = order[j + 1] /\ i + 1 \in 1 .. n /\ j + 1 \in 1 .. n
      BY <1>4, <2>1
    <3>2. i + 1 = j + 1
      BY <1>5, <3>1
    <3> QED BY <1>4, <3>2
  <2>2. IsInjective(order')
    BY <1>4, <2>1 DEF IsInjective
  <2>3. next[order[1]] = (IF 1 = n THEN None ELSE order[2])
    BY <1>0, <1>4 DEF ListShape
  <2>4. first' = (IF order' = <<>> THEN None ELSE order'[1])
    <3>1. CASE n = 1
      BY <1>1, <1>3, <1>4, <2>3, <3>1
    <3>2. CASE n # 1
      <4>1. Len(order') # 0 /\ order' # <<>> /\ order'[1] = order[2]
        BY <1>4, <3>2
      <4> QED BY <1>1, <1>3, <2>3, <3>2, <4>1
    <3> QED BY <3>1, <3>2
  <2>5. ASSUME NEW i \in 1 .. n - 1
        PROVE  next[order'[i]] = (IF i = n - 1 THEN None ELSE order'[i + 1])
    <3>1. order'[i] = order[i + 1] /\ i + 1 \in 1 .. n
      BY <1>4
    <3>2. next[order[i + 1]] = (IF i + 1 = n THEN None ELSE order[(i + 1) + 1])
      BY <1>0, <3>1 DEF ListShape
    <3>3. i # n - 1 => order'[i + 1] = order[(i + 1) + 1]
      BY <1>4
    <3> QED BY <1>4, <3>1, <3>2, <3>3
  <2>6. size' = Len(order')
    BY <1>0, <1>1, <1>4 DEF ListShape
  <2>7. next' = next
    BY <1>1 DEF heapVars
  <2> QED BY <1>4, <2>2, <2>4, <2>5, <2>6, <2>7 DEF ListShape
<1>11. PointersAlive'
  BY <1>0, <1>1, <1>3, <1>4, <1>6, <1>7 DEF PointersAlive, heapVars, addVars
<1>12. Filled' /\ PopsInPlace'
  BY <1>0, <1>1 DEF Filled, PopsInPlace, heapVars, addVars
<1>13. Sorted'
  <2>1. \A d : Pr(d)' = Pr(d)
    BY <1>1 DEF Pr, heapVars
  <2>2. ASSUME NEW i \in 1 .. n - 1, NEW j \in 1 .. n - 1, i < j
        PROVE  Pr(order'[i]) >= Pr(order'[j])
    <3>1. /\ order'[i] = order[i + 1] /\ order'[j] = order[j + 1]
          /\ i + 1 \in 1 .. n /\ j + 1 \in 1 .. n /\ i + 1 < j + 1
      BY <1>4, <2>2
    <3> QED BY <1>0, <3>1 DEF Sorted
  <2> QED BY <1>4, <2>1, <2>2 DEF Sorted
<1>14. Walkers'
  BY <1>1, <1>7 DEF Walkers, addVars
<1> QED BY <1>8, <1>9, <1>10, <1>11, <1>12, <1>13, <1>14 DEF QueueInv

(* The element that is freed is known to the consumer only. *)
LEMMA ReturnKeeps ==
  ASSUME QueueInv, Return
  PROVE  QueueInv'
<1> USE QueueAssumption
<1>0. /\ TypeOK /\ Locked /\ ListShape /\ PointersAlive /\ Filled /\ Sorted
      /\ Walkers
  BY DEF QueueInv
<1>1. /\ popping = "return"
      /\ buf' = element[popped].packet
      /\ allocated' = allocated \ {popped}
      /\ element' = [element EXCEPT ![popped] = None]
      /\ next' = [next EXCEPT ![popped] = None]
      /\ popped' = None /\ popping' = "test"
      /\ UNCHANGED <<listVars, addVars>>
  BY DEF Return
<1>2. /\ popped \in allocated \ Range(order)
      /\ \A p \in Producers : pc[p] # "idle" => popped # newEl[p]
      /\ \A i \in 1 .. Len(order) : order[i] \in Cells /\ order[i] \in Range(order)
      /\ \A i \in 1 .. Len(order) : order[i] # popped
      /\ Len(order) \in Nat
  BY <1>0, <1>1 DEF PointersAlive, TypeOK, Range
<1>3. TypeOK'
  <2>1. buf' \in Packets
    BY <1>0, <1>1, <1>2 DEF Filled, Element
  <2> QED BY <1>0, <1>1, <2>1 DEF TypeOK, listVars, addVars
<1>4. Locked' /\ PopsInPlace'
  BY <1>0, <1>1 DEF Locked, PopsInPlace, listVars, addVars
<1>5. ListShape'
  BY <1>0, <1>1, <1>2 DEF ListShape, TypeOK, listVars
<1>6. PointersAlive'
  BY <1>0, <1>1, <1>2 DEF PointersAlive, listVars, addVars
<1>7. Filled'
  BY <1>0, <1>1, <1>2 DEF Filled, PointersAlive, TypeOK, addVars
<1>8. \A d \in Cells \ {popped} : Pr(d)' = Pr(d)
  BY <1>0, <1>1 DEF Pr, TypeOK
<1>9. Sorted'
  BY <1>0, <1>1, <1>2, <1>8 DEF Sorted, listVars
<1>10. Walkers'
  <2> SUFFICES ASSUME NEW p \in Producers, pc[p] = "walk"
               PROVE  \E k \in 0 .. Len(order) : HasPassed(p, k)'
    BY <1>1 DEF Walkers, listVars, addVars
  <2>1. PICK k \in 0 .. Len(order) : HasPassed(p, k)
    BY <1>0 DEF Walkers
  <2>2. newEl[p] \in Cells \ {popped}
    BY <1>0, <1>2 DEF PointersAlive, TypeOK
  <2>3. HasPassed(p, k)'
    BY <1>1, <1>2, <1>8, <2>1, <2>2 DEF HasPassed, listVars, addVars
  <2> QED BY <2>3
<1> QED BY <1>3, <1>4, <1>5, <1>6, <1>7, <1>9, <1>10 DEF QueueInv

-----------------------------------------------------------------------------
(* Every step keeps the invariant. *)

LEMMA QueueInvInductive == QueueInv /\ [Next]_vars => QueueInv'
<1> SUFFICES ASSUME QueueInv, [Next]_vars PROVE QueueInv'
  OBVIOUS
<1>1. CASE UNCHANGED vars
  BY <1>1 DEF vars, listVars, heapVars, addVars, popVars, QueueInv, TypeOK,
              Locked, ListShape, PointersAlive, Filled, Sorted, Walkers,
              HasPassed, Pr, PopsInPlace
<1>2. CASE Next
  <2>1. ASSUME NEW p \in Producers, NEW e \in Element, Make(p, e) PROVE QueueInv'
    BY <2>1, MakeKeeps
  <2>2. ASSUME NEW p \in Producers, Lock(p) PROVE QueueInv'
    BY <2>2, LockKeeps
  <2>3. ASSUME NEW p \in Producers, Walk(p) PROVE QueueInv'
    BY <2>3, WalkKeeps
  <2>4. ASSUME NEW p \in Producers, Link(p) PROVE QueueInv'
    BY <2>4, LinkKeeps
  <2> QED BY <1>2, <2>1, <2>2, <2>3, <2>4,
             TestKeeps, LockPopKeeps, UnlinkKeeps, ReturnKeeps DEF Next
<1> QED BY <1>1, <1>2

LEMMA QueueInvAlways == Spec => []QueueInv
BY InitQueueInv, QueueInvInductive, PTL DEF Spec

-----------------------------------------------------------------------------
(* What follows from it. *)

(* The variables of addToQueue and popFromQueue keep their types for any   *)
(* number of producers.                                                    *)
THEOREM QueueTypeCorrect == Spec => []TypeOK
<1>1. QueueInv => TypeOK
  BY DEF QueueInv
<1> QED BY <1>1, QueueInvAlways, PTL

(* The linked list stays in one piece, and Size is its length, whatever    *)
(* the threads interleave between two critical sections.                   *)
THEOREM ListStaysInOnePiece == Spec => []ListShape
<1>1. QueueInv => ListShape
  BY DEF QueueInv
<1> QED BY <1>1, QueueInvAlways, PTL

(* No thread reads an element that another has freed: popFromQueue may     *)
(* read the element it has unlinked after releasing the lock.              *)
THEOREM PointersNeverDangle == Spec => []PointersAlive
<1>1. QueueInv => PointersAlive
  BY DEF QueueInv
<1> QED BY <1>1, QueueInvAlways, PTL

(* popFromQueue never dereferences a NULL First, though it looks at the    *)
(* size before it takes the lock.                                          *)
THEOREM PopFindsAnElement == Spec => []PopsInPlace
<1>1. QueueInv => PopsInPlace
  BY DEF QueueInv
<1> QED BY <1>1, QueueInvAlways, PTL

-----------------------------------------------------------------------------
(* The list implements the queue of PriorityQueue: Link is Add and Unlink  *)
(* is Pop; nothing else changes what is queued or what has left.           *)

LEMMA QueuedProperties ==
  ASSUME QueueInv
  PROVE  /\ Queued \in Seq(Element)
         /\ Len(Queued) = Len(order)
         /\ \A i \in 1 .. Len(order) : Queued[i] = element[order[i]]
<1>1. /\ Len(order) \in Nat
      /\ \A i \in 1 .. Len(order) : order[i] \in Range(order)
      /\ Range(order) \subseteq allocated
      /\ \A d \in allocated : element[d] \in Element
  BY DEF QueueInv, TypeOK, PointersAlive, Filled, Range
<1>2. Queued \in [1 .. Len(order) -> Element]
  BY <1>1 DEF Queued
<1>3. Queued \in Seq(Element) /\ Len(Queued) = Len(order)
  BY <1>1, <1>2
<1>4. \A i \in 1 .. Len(order) : Queued[i] = element[order[i]]
  BY DEF Queued
<1> QED BY <1>3, <1>4

LEMMA PromiseInit == Init => Promise!Init
<1> SUFFICES ASSUME Init PROVE Promise!Init
  OBVIOUS
<1>1. QueueInv /\ order = <<>> /\ popping = "test" /\ buf = None
  BY InitQueueInv DEF Init
<1>2. Queued = <<>>
  BY <1>1, QueuedProperties
<1>3. Left = None
  BY <1>1 DEF Left
<1> QED BY <1>2, <1>3 DEF Promise!Init

(* Link puts the new element behind those of at least its priority. *)
LEMMA LinkIsAdd ==
  ASSUME QueueInv, NEW p \in Producers, Link(p)
  PROVE  Promise!Next
<1> DEFINE c == newEl[p]
           e == element[newEl[p]]
<1>0. TypeOK /\ Locked /\ PointersAlive /\ Filled
  BY DEF QueueInv
<1>1. PICK k \in 0 .. Len(order) :
        /\ c \in (allocated \cap Cells) \ Range(order)
        /\ order' = Inserted(order, k, c)
        /\ order' \in Seq(Cells)
        /\ Len(order') = Len(order) + 1
        /\ \A i \in 1 .. Len(order) + 1 : order'[i] =
             IF i <= k THEN order[i] ELSE IF i = k + 1 THEN c ELSE order[i - 1]
        /\ \A i \in 1 .. k : Pr(order[i]) >= Pr(c)
        /\ \A i \in k + 1 .. Len(order) : Pr(order[i]) < Pr(c)
  BY LinkEffect
<1>2. Len(order) \in Nat /\ k \in Nat /\ k <= Len(order)
  BY <1>0 DEF TypeOK
<1>3. element' = element /\ popping' = popping /\ popped' = popped /\ buf' = buf
  BY DEF Link, popVars
<1>4. /\ Len(Queued) = Len(order)
      /\ \A i \in 1 .. Len(order) : Queued[i] = element[order[i]]
  BY QueuedProperties
<1>5. e \in Element
  BY <1>0, <1>1 DEF Filled
<1>6. Queued' = Promise!Inserted(Queued, k, e)
  <2>1. Queued' = [i \in 1 .. Len(order) + 1 |-> element[order'[i]]]
    BY <1>1, <1>3 DEF Queued
  <2>2. Promise!Inserted(Queued, k, e) =
          [i \in 1 .. Len(order) + 1 |->
             IF i <= k THEN Queued[i] ELSE IF i = k + 1 THEN e ELSE Queued[i - 1]]
    BY <1>4 DEF Promise!Inserted
  <2>3. ASSUME NEW i \in 1 .. Len(order) + 1
        PROVE  element[order'[i]] =
          IF i <= k THEN Queued[i] ELSE IF i = k + 1 THEN e ELSE Queued[i - 1]
    <3>1. CASE i <= k
      BY <1>1, <1>2, <1>4, <3>1
    <3>2. CASE i = k + 1
      BY <1>1, <1>2, <3>2
    <3>3. CASE i > k + 1
      <4>1. i - 1 \in 1 .. Len(order) /\ order'[i] = order[i - 1]
        BY <1>1, <1>2, <3>3
      <4> QED BY <1>2, <1>4, <3>3, <4>1
    <3> QED BY <1>2, <3>1, <3>2, <3>3
  <2> QED BY <2>1, <2>2, <2>3
<1>7. ASSUME NEW i \in 1 .. k PROVE Queued[i].pr >= e.pr
  <2>1. Queued[i] = element[order[i]]
    BY <1>2, <1>4
  <2>2. Pr(order[i]) >= Pr(c)
    BY <1>1
  <2> QED BY <2>1, <2>2 DEF Pr
<1>8. \A i \in k + 1 .. Len(Queued) : Queued[i].pr < e.pr
  BY <1>1, <1>2, <1>4 DEF Pr
<1>9. Left' = Left
  BY <1>3 DEF Left
<1>10. k \in 0 .. Len(Queued)
  BY <1>4
<1>11. Promise!Add(e)
  BY <1>6, <1>7, <1>8, <1>9, <1>10 DEF Promise!Add
<1>12. e \in Promise!Element
  BY <1>5 DEF Element, Promise!Element
<1> QED BY <1>11, <1>12 DEF Promise!Next

(* Unlink takes the first. *)
LEMMA UnlinkIsPop ==
  ASSUME QueueInv, Unlink
  PROVE  Promise!Next
<1>0. TypeOK /\ ListShape
  BY DEF QueueInv
<1>1. /\ first # None /\ popped' = first /\ order' = Tail(order)
      /\ popping' = "return" /\ element' = element
  BY DEF Unlink, heapVars
<1>2. order # <<>> /\ first = order[1] /\ order \in Seq(Cells)
  BY <1>0, <1>1 DEF ListShape, TypeOK
<1>3. /\ Len(order) \in Nat \ {0}
      /\ Len(order') = Len(order) - 1
      /\ \A i \in 1 .. Len(order) - 1 : order'[i] = order[i + 1]
  BY <1>1, <1>2, TailProperties
<1>4. /\ Queued \in Seq(Element)
      /\ Len(Queued) = Len(order)
      /\ \A i \in 1 .. Len(order) : Queued[i] = element[order[i]]
  BY QueuedProperties
<1>5. Queued # <<>>
  BY <1>3, <1>4
<1>6. Left' = Head(Queued).packet
  <2>1. Head(Queued) = element[order[1]]
    BY <1>3, <1>4, <1>5
  <2> QED BY <1>1, <1>2, <2>1 DEF Left
<1>7. Queued' = Tail(Queued)
  <2>1. Queued' = [i \in 1 .. Len(order) - 1 |-> element[order'[i]]]
    BY <1>1, <1>3 DEF Queued
  <2>2. /\ Tail(Queued) \in Seq(Element)
        /\ Len(Tail(Queued)) = Len(order) - 1
        /\ \A i \in 1 .. Len(order) - 1 : Tail(Queued)[i] = Queued[i + 1]
    <3>1. /\ Tail(Queued) \in Seq(Element)
          /\ Len(Tail(Queued)) = Len(Queued) - 1
      BY <1>4, <1>5, TailProperties
    <3>2. \A i \in 1 .. Len(Queued) - 1 : Tail(Queued)[i] = Queued[i + 1]
      BY <1>4, <1>5, TailProperties
    <3> QED BY <1>4, <3>1, <3>2
  <2>3. ASSUME NEW i \in 1 .. Len(order) - 1
        PROVE  element[order'[i]] = Tail(Queued)[i] /\ Tail(Queued)[i] \in Element
    BY <1>3, <1>4, <2>2
  <2>4. /\ Queued' \in Seq(Element) /\ Len(Queued') = Len(order) - 1
        /\ \A i \in 1 .. Len(order) - 1 : Queued'[i] = Tail(Queued)[i]
    <3>1. Queued' \in [1 .. Len(order) - 1 -> Element]
      BY <2>1, <2>3
    <3>2. Len(order) - 1 \in Nat
      BY <1>3
    <3>3. Queued' \in Seq(Element) /\ Len(Queued') = Len(order) - 1
      BY <3>1, <3>2
    <3> QED BY <2>1, <2>3, <3>3
  <2> QED BY <2>2, <2>4, SeqEqual
<1>8. Promise!Pop
  BY <1>5, <1>6, <1>7 DEF Promise!Pop
<1> QED BY <1>8 DEF Promise!Next

(* The other steps change nothing that the promise is about. *)
LEMMA OthersStutter ==
  ASSUME QueueInv,
         \/ UNCHANGED vars \/ Test \/ LockPop \/ Return
         \/ \E p \in Producers :
              Lock(p) \/ Walk(p) \/ \E e \in Element : Make(p, e)
  PROVE  UNCHANGED <<Queued, Left>>
<1>0. TypeOK /\ PointersAlive
  BY DEF QueueInv
<1>1. /\ \A i \in 1 .. Len(order) : order[i] \in Range(order)
      /\ Range(order) \subseteq allocated /\ allocated \subseteq Cells
  BY <1>0 DEF TypeOK, PointersAlive, Range
<1>2. CASE UNCHANGED vars \/ Test \/ LockPop
  BY <1>2 DEF vars, listVars, heapVars, popVars, Test, LockPop, Queued, Left
<1>3. ASSUME NEW p \in Producers, Lock(p) \/ Walk(p)
      PROVE  UNCHANGED <<Queued, Left>>
  BY <1>3 DEF Lock, Walk, listVars, heapVars, popVars, Queued, Left
<1>4. CASE Return
  <2>1. /\ popping = "return" /\ popping' = "test"
        /\ buf' = element[popped].packet
        /\ element' = [element EXCEPT ![popped] = None] /\ order' = order
    BY <1>4 DEF Return, listVars
  <2>2. \A i \in 1 .. Len(order) : order[i] \in Cells \ {popped}
    BY <1>0, <1>1, <2>1 DEF PointersAlive
  <2>3. \A i \in 1 .. Len(order) : element'[order[i]] = element[order[i]]
    BY <1>0, <2>1, <2>2 DEF TypeOK
  <2> QED BY <2>1, <2>3 DEF Queued, Left
<1>5. ASSUME NEW p \in Producers, NEW e \in Element, Make(p, e)
      PROVE  UNCHANGED <<Queued, Left>>
  <2>1. PICK c \in Cells \ allocated : element' = [element EXCEPT ![c] = e]
    BY <1>5 DEF Make
  <2>2. order' = order /\ popping' = popping /\ popped' = popped /\ buf' = buf
    BY <1>5 DEF Make, listVars, popVars
  <2>3. \A i \in 1 .. Len(order) : element'[order[i]] = element[order[i]]
    BY <1>0, <1>1, <2>1 DEF TypeOK
  <2>4. popping = "return" => element'[popped] = element[popped]
    BY <1>0, <2>1 DEF TypeOK, PointersAlive
  <2> QED BY <2>2, <2>3, <2>4 DEF Queued, Left
<1> QED BY <1>2, <1>3, <1>4, <1>5

(* The linked list, with its threads, implements the queue it is used as:  *)
(* packets leave by priority, equals in the order they were linked in.     *)
THEOREM QueueKeepsItsPromise == Spec => AbstractQueue
<1>1. QueueInv /\ [Next]_vars => [Promise!Next]_(Promise!vars)
  <2> SUFFICES ASSUME QueueInv, [Next]_vars
               PROVE  Promise!Next \/ UNCHANGED <<Queued, Left>>
    BY DEF Promise!vars
  <2> QED BY LinkIsAdd, UnlinkIsPop, OthersStutter DEF Next
<1> QED BY <1>1, PromiseInit, QueueInvAlways, PTL
        DEF Spec, AbstractQueue, Promise!Spec

=============================================================================
