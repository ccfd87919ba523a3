-------------------------- MODULE RoutingTableProofs --------------------------
(***************************************************************************)
(* What the operations of the routing table keep, for tables of any length *)
(* and all distances and rates: the lemmas that RoutingNetProofs rests on. *)
(***************************************************************************)
EXTENDS RoutingTable, WellFoundedInduction, TLAPS

LEMMA LeastOf ==
  ASSUME NEW T, T \subseteq Nat, T # {}
  PROVE  \E x \in T : \A y \in T : x <= y
<1>1. PICK x \in T : \A y \in T : ~(<<y, x>> \in OpToRel(<, Nat))
  BY NatLessThanWellFounded, WFMin
<1>2. \A y \in T : ~(y < x)
  BY <1>1 DEF OpToRel
<1>3. \A y \in T : x <= y
  BY <1>2
<1> QED
  BY <1>3

LEMMA ElementOf ==
  ASSUME NEW S, NEW s \in Seq(S), NEW i \in DOMAIN s
  PROVE  s[i] \in S /\ i \in 1 .. Len(s)
OBVIOUS

LEMMA Concat ==
  ASSUME NEW S, NEW a \in Seq(S), NEW b \in Seq(S)
  PROVE  /\ a \o b \in Seq(S) /\ Len(a \o b) = Len(a) + Len(b)
         /\ Len(a) \in Nat /\ Len(b) \in Nat
         /\ \A i \in 1 .. Len(a) : (a \o b)[i] = a[i]
         /\ \A i \in Len(a) + 1 .. Len(a) + Len(b) : (a \o b)[i] = b[i - Len(a)]
OBVIOUS

(* The distance: what it is made of. *)

LEMMA DivOf ==
  ASSUME NEW m \in Nat \ {0}, NEW a \in Nat
  PROVE  /\ a \div m \in Nat
         /\ m * (a \div m) <= a /\ a < m * (a \div m) + m
OBVIOUS

LEMMA Scaled ==
  ASSUME NEW m \in Nat, NEW a \in Int, NEW b \in Int, a <= b
  PROVE  m * a <= m * b
<1>1. b - a \in Nat
  OBVIOUS
<1>2. m * (b - a) \in Nat
  BY <1>1
<1>3. m * (b - a) = m * b - m * a
  OBVIOUS
<1>4. m * a \in Int /\ m * b \in Int
  OBVIOUS
<1> QED
  BY <1>2, <1>3, <1>4

LEMMA ModRange ==
  ASSUME NEW m \in Nat \ {0}, NEW x \in Nat
  PROVE  x % m \in 0 .. m - 1 /\ (x < m => x % m = x)
OBVIOUS

(* More by less than d whole parts is d parts more at most. *)
LEMMA DivGrows ==
  ASSUME NEW m \in Nat \ {0}, NEW a \in Nat, NEW b \in Nat, NEW d \in Nat, a <= b + m * d
  PROVE  a \div m <= b \div m + d
<1> DEFINE x == a \div m
           y == b \div m
<1>1. x \in Nat /\ y \in Nat /\ m * x <= a /\ b < m * y + m
  BY DivOf
<1> HIDE DEF x, y
<1>2. SUFFICES ASSUME x >= y + d + 1 PROVE FALSE
  BY <1>1 DEF x, y
<1>3. m * (y + d + 1) <= m * x
  BY <1>1, <1>2, Scaled
<1>4. m * (y + d + 1) = m * y + m * d + m
  BY <1>1
<1>5. m * x \in Int /\ m * y \in Int /\ m * d \in Int
  BY <1>1
<1> QED
  BY <1>1, <1>3, <1>4, <1>5

Rates == Nat \cup {WORST_QUALITY}

(* What a link of rate p adds to a distance d. *)
Added(p, d) == (p * (UNREACHABLE - d)) \div Magnitude

LEMMA AddedTyped ==
  ASSUME NEW p \in Nat, NEW d \in 0 .. UNREACHABLE
  PROVE  Added(p, d) \in Nat /\ (p <= Magnitude => Added(p, d) <= UNREACHABLE - d)
<1>0. UNREACHABLE \in Nat /\ Magnitude \in Nat \ {0}
  BY TableAssumption
<1> DEFINE rest == UNREACHABLE - d
<1>1. rest \in Nat
  BY <1>0
<1> HIDE DEF rest
<1>2. p * rest \in Nat
  BY <1>1
<1>3. (p * rest) \div Magnitude \in Nat
  BY <1>0, <1>2, DivOf
<1>4. ASSUME p <= Magnitude PROVE (p * rest) \div Magnitude <= rest
  <2>1. rest * p <= rest * Magnitude
    BY <1>0, <1>1, <1>4, Scaled
  <2>2. p * rest <= 0 + Magnitude * rest
    BY <1>0, <1>1, <2>1
  <2>3. (p * rest) \div Magnitude <= 0 \div Magnitude + rest
    BY <1>0, <1>1, <1>2, <2>2, DivGrows
  <2>4. 0 \div Magnitude = 0
    BY <1>0
  <2> QED
    BY <1>1, <1>3, <2>3, <2>4
<1> QED
  BY <1>3, <1>4 DEF Added, rest

LEMMA DistanceTyped ==
  ASSUME NEW e, e.distance \in 0 .. UNREACHABLE, e.remotePBE \in Rates
  PROVE  getDistance(e) \in 0 .. UNREACHABLE
<1>0. UNREACHABLE \in Nat
  BY TableAssumption
<1>1. CASE e.remotePBE = WORST_QUALITY \/ e.distance = UNREACHABLE
  BY <1>0, <1>1 DEF getDistance
<1>2. CASE e.remotePBE # WORST_QUALITY /\ e.distance # UNREACHABLE
  <2>1. e.remotePBE \in Nat
    BY <1>2 DEF Rates
  <2>2. Added(e.remotePBE, e.distance) \in Nat
    BY <2>1, AddedTyped
  <2>3. e.distance + Added(e.remotePBE, e.distance) \in Nat
    BY <1>0, <2>2
  <2>4. getDistance(e) = (e.distance + Added(e.remotePBE, e.distance)) % (UNREACHABLE + 1)
    BY <1>2 DEF getDistance, Added
  <2> DEFINE sum == e.distance + Added(e.remotePBE, e.distance)
             m == UNREACHABLE + 1
  <2>5. m \in Nat \ {0} /\ m - 1 = UNREACHABLE
    BY <1>0
  <2>6. sum \in Nat /\ getDistance(e) = sum % m
    BY <2>3, <2>4
  <2> HIDE DEF sum, m
  <2>7. sum % m \in 0 .. m - 1
    BY <2>5, <2>6, ModRange
  <2> QED
    BY <2>5, <2>6, <2>7
<1> QED
  BY <1>1, <1>2

(* With an acceptable rate nothing wraps. *)
LEMMA DistanceOf ==
  ASSUME NEW e, e.distance \in 0 .. UNREACHABLE, e.remotePBE \in Nat, e.remotePBE <= Magnitude
  PROVE  getDistance(e) = e.distance + Added(e.remotePBE, e.distance)
<1>0. UNREACHABLE \in Nat /\ Magnitude \in Nat \ {0} /\ e.remotePBE # WORST_QUALITY
  BY TableAssumption
<1>1. /\ Added(e.remotePBE, e.distance) \in Nat
      /\ Added(e.remotePBE, e.distance) <= UNREACHABLE - e.distance
  BY AddedTyped
<1>2. CASE e.distance = UNREACHABLE
  BY <1>0, <1>1, <1>2 DEF getDistance
<1>3. CASE e.distance # UNREACHABLE
  <2>1. getDistance(e) = (e.distance + Added(e.remotePBE, e.distance)) % (UNREACHABLE + 1)
    BY <1>0, <1>3 DEF getDistance, Added
  <2>2. /\ e.distance + Added(e.remotePBE, e.distance) \in Nat
        /\ e.distance + Added(e.remotePBE, e.distance) < UNREACHABLE + 1
    BY <1>0, <1>1
  <2> QED
    BY <1>0, <2>1, <2>2, ModRange
<1> QED
  BY <1>2, <1>3

(* Farther from the master, a neighbour over the same link is no nearer. *)
LEMMA DistanceMonotone ==
  ASSUME NEW e, NEW f, e.distance \in 0 .. UNREACHABLE, f.distance \in 0 .. UNREACHABLE,
         e.remotePBE \in Nat, e.remotePBE <= Magnitude, f.remotePBE = e.remotePBE,
         e.distance <= f.distance
  PROVE  getDistance(e) <= getDistance(f)
<1> DEFINE p == e.remotePBE
           x == UNREACHABLE - e.distance
           y == UNREACHABLE - f.distance
           d == f.distance - e.distance
<1>0. /\ UNREACHABLE \in Nat /\ Magnitude \in Nat \ {0}
      /\ x \in Nat /\ y \in Nat /\ d \in Nat /\ x = y + d /\ p \in Nat /\ p <= Magnitude
  BY TableAssumption
<1>1. /\ getDistance(e) = e.distance + Added(p, e.distance)
      /\ getDistance(f) = f.distance + Added(p, f.distance)
      /\ Added(p, e.distance) \in Nat /\ Added(p, f.distance) \in Nat
  BY DistanceOf, AddedTyped
<1>2. Added(p, e.distance) = (p * x) \div Magnitude /\ Added(p, f.distance) = (p * y) \div Magnitude
  BY DEF Added
<1>d. f.distance = e.distance + d /\ e.distance \in Nat
  BY <1>0
<1> HIDE DEF p, x, y, d
<1>3. p * x <= p * y + Magnitude * d
  <2>1. p * x = p * y + p * d
    BY <1>0
  <2>2. d * p <= d * Magnitude
    BY <1>0, Scaled
  <2>3. p * y \in Int /\ p * d \in Int /\ Magnitude * d \in Int
        /\ d * p = p * d /\ d * Magnitude = Magnitude * d
    BY <1>0
  <2> QED
    BY <2>1, <2>2, <2>3
<1>4. (p * x) \div Magnitude <= (p * y) \div Magnitude + d
  <2> DEFINE a == p * x
             b == p * y
  <2>1. a \in Nat /\ b \in Nat /\ a <= b + Magnitude * d
    BY <1>0, <1>3
  <2> HIDE DEF a, b
  <2>2. a \div Magnitude <= b \div Magnitude + d
    BY <1>0, <2>1, DivGrows
  <2> QED
    BY <2>2 DEF a, b
<1> QED
  BY <1>0, <1>1, <1>2, <1>4, <1>d

-----------------------------------------------------------------------------
(* The sequence without its element k, and with one more at k. *)

LEMMA RemoveAtOf ==
  ASSUME NEW S, NEW list \in Seq(S), NEW k \in 1 .. Len(list)
  PROVE  /\ RemoveAt(list, k) \in Seq(S)
         /\ Len(RemoveAt(list, k)) = Len(list) - 1
         /\ \A i \in 1 .. Len(list) - 1 :
              RemoveAt(list, k)[i] = IF i < k THEN list[i] ELSE list[i + 1]
<1> DEFINE a == SubSeq(list, 1, k - 1)
           b == SubSeq(list, k + 1, Len(list))
<1>1. a \in Seq(S) /\ Len(a) = k - 1 /\ \A i \in 1 .. k - 1 : a[i] = list[i]
  OBVIOUS
<1>2. b \in Seq(S) /\ Len(b) = Len(list) - k /\ \A i \in 1 .. Len(list) - k : b[i] = list[i + k]
  OBVIOUS
<1>3. RemoveAt(list, k) = a \o b
  BY DEF RemoveAt
<1> HIDE DEF a, b
<1>0. Len(list) \in Nat /\ k \in Nat /\ k >= 1 /\ k <= Len(list)
  OBVIOUS
<1>4. a \o b \in Seq(S) /\ Len(a \o b) = Len(list) - 1
  <2>a. a \in Seq(S) /\ b \in Seq(S)
    BY <1>1, <1>2
  <2>b. Len(a \o b) = Len(a) + Len(b)
    BY <2>a, Concat
  <2>1. Len(a \o b) = (k - 1) + (Len(list) - k)
    BY <1>1, <1>2, <2>b
  <2> QED
    BY <1>0, <1>1, <1>2, <2>1
<1>5. ASSUME NEW i \in 1 .. Len(list) - 1
      PROVE  (a \o b)[i] = IF i < k THEN list[i] ELSE list[i + 1]
  <2>a. /\ a \in Seq(S) /\ b \in Seq(S) /\ Len(a) = k - 1 /\ Len(b) = Len(list) - k
    BY <1>1, <1>2
  <2>b. /\ \A j \in 1 .. Len(a) : (a \o b)[j] = a[j]
        /\ \A j \in Len(a) + 1 .. Len(a) + Len(b) : (a \o b)[j] = b[j - Len(a)]
    BY <2>a, Concat
  <2>1. CASE i < k
    <3>1. i \in 1 .. Len(a) /\ i \in 1 .. k - 1
      BY <1>0, <2>a, <2>1
    <3>2. (a \o b)[i] = a[i] /\ a[i] = list[i]
      BY <1>1, <2>b, <3>1
    <3> QED
      BY <2>1, <3>2
  <2>2. CASE i >= k
    <3> DEFINE j == i - Len(a)
    <3>1. i \in Len(a) + 1 .. Len(a) + Len(b) /\ j \in 1 .. Len(list) - k /\ j + k = i + 1
      BY <1>0, <2>a, <2>2
    <3>2. (a \o b)[i] = b[j]
      BY <2>b, <3>1
    <3> HIDE DEF j
    <3>3. b[j] = list[j + k]
      BY <1>2, <3>1
    <3> QED
      BY <1>0, <2>2, <3>1, <3>2, <3>3
  <2>3. i < k \/ i >= k
    BY <1>0
  <2> QED
    BY <2>1, <2>2, <2>3
<1> QED
  BY <1>3, <1>4, <1>5

LEMMA InsertAtOf ==
  ASSUME NEW S, NEW list \in Seq(S), NEW k \in 1 .. Len(list) + 1, NEW e \in S
  PROVE  /\ InsertAt(list, k, e) \in Seq(S)
         /\ Len(InsertAt(list, k, e)) = Len(list) + 1
         /\ \A i \in 1 .. Len(list) + 1 :
              InsertAt(list, k, e)[i] = IF i < k THEN list[i]
                                        ELSE IF i = k THEN e ELSE list[i - 1]
<1> DEFINE a == SubSeq(list, 1, k - 1)
           b == SubSeq(list, k, Len(list))
           c == a \o <<e>>
<1>0. Len(list) \in Nat /\ k \in Nat /\ k >= 1 /\ k <= Len(list) + 1
  OBVIOUS
<1>1. a \in Seq(S) /\ Len(a) = k - 1 /\ \A i \in 1 .. k - 1 : a[i] = list[i]
  OBVIOUS
<1>2. b \in Seq(S) /\ Len(b) = Len(list) + 1 - k
      /\ \A i \in 1 .. Len(list) + 1 - k : b[i] = list[i + k - 1]
  OBVIOUS
<1>3. c \in Seq(S) /\ Len(c) = k /\ c[k] = e /\ \A i \in 1 .. k - 1 : c[i] = a[i]
  <2> HIDE DEF a, b
  <2> QED
    BY <1>0, <1>1
<1>4. InsertAt(list, k, e) = c \o b
  BY DEF InsertAt
<1> HIDE DEF a, b, c
<1>a. /\ c \o b \in Seq(S) /\ Len(c \o b) = Len(c) + Len(b)
      /\ \A j \in 1 .. Len(c) : (c \o b)[j] = c[j]
      /\ \A j \in Len(c) + 1 .. Len(c) + Len(b) : (c \o b)[j] = b[j - Len(c)]
  BY <1>2, <1>3, Concat
<1>5. Len(c \o b) = Len(list) + 1
  BY <1>0, <1>2, <1>3, <1>a
<1>6. ASSUME NEW i \in 1 .. Len(list) + 1
      PROVE  (c \o b)[i] = IF i < k THEN list[i] ELSE IF i = k THEN e ELSE list[i - 1]
  <2>1. CASE i < k
    <3>1. i \in 1 .. Len(c) /\ i \in 1 .. k - 1
      BY <1>0, <1>3, <2>1
    <3> QED
      BY <1>1, <1>3, <1>a, <2>1, <3>1
  <2>2. CASE i = k
    <3>1. i \in 1 .. Len(c)
      BY <1>0, <1>3, <2>2
    <3> QED
      BY <1>3, <1>a, <2>2, <3>1
  <2>3. CASE i > k
    <3> DEFINE j == i - Len(c)
    <3>1. i \in Len(c) + 1 .. Len(c) + Len(b) /\ j \in 1 .. Len(list) + 1 - k /\ j + k - 1 = i - 1
      BY <1>0, <1>2, <1>3, <2>3
    <3>2. (c \o b)[i] = b[j]
      BY <1>a, <3>1
    <3> HIDE DEF j
    <3>3. b[j] = list[j + k - 1]
      BY <1>2, <3>1
    <3> QED
      BY <1>0, <2>3, <3>1, <3>2, <3>3
  <2>4. i < k \/ i = k \/ i > k
    BY <1>0
  <2> QED
    BY <2>1, <2>2, <2>3, <2>4
<1> QED
  BY <1>4, <1>5, <1>6, <1>a

-----------------------------------------------------------------------------
(* The operations of the table. *)

LEMMA PlaceOf ==
  ASSUME NEW t, NEW ip, Knows(t, ip)
  PROVE  Place(t, ip) \in DOMAIN t /\ t[Place(t, ip)].ip = ip
BY DEF Knows, Place

(* The distance by way of an entry does not ask when it was heard. *)
LEMMA DistanceIgnoresFresh ==
  ASSUME NEW e, NEW f, e.distance = f.distance, e.remotePBE = f.remotePBE
  PROVE  getDistance(e) = getDistance(f)
BY DEF getDistance

(* S stands for a set of entries, whatever else they have in common. *)
Measured(S) == \A e \in S : getDistance(e) \in Nat

(* Removing an entry: those for other neighbours stay, in their order. *)
LEMMA Removed ==
  ASSUME NEW S, NEW t \in Seq(S), InOrder(t), NEW ip
  PROVE  /\ routRemoveEntry(t, ip) \in Seq(S)
         /\ InOrder(routRemoveEntry(t, ip))
         /\ ~Knows(routRemoveEntry(t, ip), ip)
         /\ \A x : x # ip /\ Knows(t, x) => Knows(routRemoveEntry(t, ip), x)
<1> DEFINE r == routRemoveEntry(t, ip)
<1>1. CASE ~Knows(t, ip)
  BY <1>1 DEF routRemoveEntry
<1>2. CASE Knows(t, ip)
  <2> DEFINE k == Place(t, ip)
  <2>1. k \in 1 .. Len(t) /\ t[k].ip = ip /\ Len(t) \in Nat /\ DOMAIN t = 1 .. Len(t)
    BY <1>2, PlaceOf
  <2>2. r = RemoveAt(t, k)
    BY <1>2 DEF routRemoveEntry
  <2> HIDE DEF k, r
  <2>3. /\ r \in Seq(S) /\ Len(r) = Len(t) - 1
        /\ \A i \in 1 .. Len(t) - 1 : r[i] = IF i < k THEN t[i] ELSE t[i + 1]
    BY <2>1, <2>2, RemoveAtOf
  <2>4. DOMAIN r = 1 .. Len(t) - 1
    BY <2>3
  <2> DEFINE o(i) == IF i < k THEN i ELSE i + 1
  <2>5. \A i \in DOMAIN r : o(i) \in DOMAIN t /\ o(i) # k /\ r[i] = t[o(i)]
    BY <2>1, <2>3, <2>4
  <2>6. \A i, j \in DOMAIN r : i < j => o(i) < o(j)
    BY <2>1, <2>4
  <2>7. \A j \in DOMAIN t : j # k => \E i \in DOMAIN r : o(i) = j
    <3> SUFFICES ASSUME NEW j \in DOMAIN t, j # k
                 PROVE  \E i \in DOMAIN r : o(i) = j
      OBVIOUS
    <3>1. CASE j < k
      BY <2>1, <2>4, <3>1
    <3>2. CASE j > k
      <4>1. j - 1 \in DOMAIN r /\ o(j - 1) = j
        BY <2>1, <2>4, <3>2
      <4> QED
        BY <4>1
    <3> QED
      BY <2>1, <3>1, <3>2
  <2>8. \A i \in DOMAIN t : i # k => t[i].ip # ip
    <3> SUFFICES ASSUME NEW i \in DOMAIN t, i # k PROVE t[i].ip # t[k].ip
      BY <2>1
    <3>1. i < k \/ k < i
      BY <2>1
    <3>2. k \in DOMAIN t
      BY <2>1
    <3> QED
      BY <3>1, <3>2 DEF InOrder
  <2> HIDE DEF o
  <2>9. InOrder(r)
    BY <2>5, <2>6 DEF InOrder
  <2>10. ~Knows(r, ip)
    BY <2>5, <2>8 DEF Knows
  <2>11. \A x : x # ip /\ Knows(t, x) => Knows(r, x)
    BY <2>1, <2>5, <2>7 DEF Knows
  <2> QED
    BY <2>3, <2>9, <2>10, <2>11 DEF r
<1> QED
  BY <1>1, <1>2

(* The walk ends somewhere, after the last entry if not before. *)
LEMMA InsertPlaceOf ==
  ASSUME NEW S, NEW t \in Seq(S), NEW e
  PROVE  /\ InsertPlace(t, e) \in 1 .. Len(t) + 1
         /\ \A i \in 1 .. InsertPlace(t, e) - 1 : Passed(t, e, i)
         /\ InsertPlace(t, e) <= Len(t) => ~Passed(t, e, InsertPlace(t, e))
<1> DEFINE Ends == {p \in 1 .. Len(t) + 1 : p <= Len(t) => ~Passed(t, e, p)}
<1>0. Len(t) \in Nat
  OBVIOUS
<1>1. Ends \subseteq Nat
  BY <1>0
<1>2. Len(t) + 1 \in Ends
  BY <1>0
<1>3. PICK p \in Ends : \A q \in Ends : p <= q
  BY <1>1, <1>2, LeastOf
<1>4. \A i \in 1 .. p - 1 : Passed(t, e, i)
  <2> SUFFICES ASSUME NEW i \in 1 .. p - 1 PROVE Passed(t, e, i)
    OBVIOUS
  <2>1. i \in 1 .. Len(t) + 1 /\ i < p
    BY <1>0, <1>3
  <2>2. i \notin Ends
    BY <1>0, <1>3, <2>1
  <2> QED
    BY <2>1, <2>2
<1>5. p \in 1 .. Len(t) + 1 /\ (p <= Len(t) => ~Passed(t, e, p))
  BY <1>3
<1> HIDE DEF Ends
<1> QED
  BY <1>4, <1>5 DEF InsertPlace

(* An entry for a new neighbour goes where the order asks for it. *)
LEMMA InsertedOf ==
  ASSUME NEW S, Measured(S), NEW t \in Seq(S), InOrder(t), NEW e \in S, ~Knows(t, e.ip)
  PROVE  /\ Inserted(t, e) \in Seq(S)
         /\ InOrder(Inserted(t, e))
         /\ Knows(Inserted(t, e), e.ip)
         /\ \A x : Knows(t, x) => Knows(Inserted(t, e), x)
         /\ \A i \in DOMAIN t : \E j \in DOMAIN Inserted(t, e) : Inserted(t, e)[j] = t[i]
<1> DEFINE k == InsertPlace(t, e)
           r == Inserted(t, e)
<1>1. /\ k \in 1 .. Len(t) + 1 /\ Len(t) \in Nat /\ DOMAIN t = 1 .. Len(t)
      /\ \A i \in 1 .. k - 1 : Passed(t, e, i)
      /\ k <= Len(t) => ~Passed(t, e, k)
  BY InsertPlaceOf
<1>2. r = InsertAt(t, k, e)
  BY DEF Inserted
<1> HIDE DEF k, r
<1>3. /\ r \in Seq(S) /\ Len(r) = Len(t) + 1
      /\ \A i \in 1 .. Len(t) + 1 :
           r[i] = IF i < k THEN t[i] ELSE IF i = k THEN e ELSE t[i - 1]
  <2>1. k \in 1 .. Len(t) + 1 /\ e \in S
    BY <1>1
  <2>2. /\ InsertAt(t, k, e) \in Seq(S)
        /\ Len(InsertAt(t, k, e)) = Len(t) + 1
        /\ \A i \in 1 .. Len(t) + 1 :
             InsertAt(t, k, e)[i] = IF i < k THEN t[i] ELSE IF i = k THEN e ELSE t[i - 1]
    BY <2>1, InsertAtOf
  <2> QED
    BY <1>2, <2>2
<1>4. DOMAIN r = 1 .. Len(t) + 1
  BY <1>3
<1>5. \A i \in DOMAIN t : getDistance(t[i]) \in Nat /\ t[i].ip # e.ip
  BY DEF Measured, Knows
<1>6. getDistance(e) \in Nat
  BY DEF Measured
<1>7. \A i \in 1 .. k - 1 : i \in DOMAIN t /\ r[i] = t[i] /\ getDistance(t[i]) <= getDistance(e)
  BY <1>1, <1>3, <1>5, <1>6 DEF Passed
<1>8. \A i \in k + 1 .. Len(t) + 1 :
        i - 1 \in DOMAIN t /\ r[i] = t[i - 1] /\ getDistance(e) <= getDistance(t[i - 1])
  <2> SUFFICES ASSUME NEW i \in k + 1 .. Len(t) + 1
               PROVE  i - 1 \in DOMAIN t /\ r[i] = t[i - 1]
                      /\ getDistance(e) <= getDistance(t[i - 1])
    OBVIOUS
  <2>1. i - 1 \in DOMAIN t /\ k \in DOMAIN t /\ k <= i - 1 /\ r[i] = t[i - 1]
    BY <1>1, <1>3
  <2>2. getDistance(e) <= getDistance(t[k])
    BY <1>1, <1>5, <1>6, <2>1 DEF Passed
  <2>3. getDistance(t[k]) <= getDistance(t[i - 1])
    <3>1. CASE k = i - 1
      BY <1>5, <2>1, <3>1
    <3>2. CASE k < i - 1
      BY <2>1, <3>2 DEF InOrder
    <3> QED
      BY <1>1, <2>1, <3>1, <3>2
  <2> QED
    BY <1>5, <1>6, <2>1, <2>2, <2>3
<1>9. r[k] = e /\ k \in DOMAIN r
  BY <1>1, <1>3, <1>4
<1>10. InOrder(r)
  <2> SUFFICES ASSUME NEW i \in DOMAIN r, NEW j \in DOMAIN r, i < j
               PROVE  getDistance(r[i]) <= getDistance(r[j]) /\ r[i].ip # r[j].ip
    BY DEF InOrder
  <2>0. i \in 1 .. Len(t) + 1 /\ j \in 1 .. Len(t) + 1
    BY <1>4
  <2>1. CASE j < k
    <3>1. i \in 1 .. k - 1 /\ j \in 1 .. k - 1
      BY <1>1, <2>0, <2>1
    <3> QED
      BY <1>7, <3>1 DEF InOrder
  <2>2. CASE j = k
    <3>1. i \in 1 .. k - 1
      BY <1>1, <2>0, <2>2
    <3> QED
      BY <1>5, <1>7, <1>9, <2>2, <3>1
  <2>3. CASE j > k /\ i < k
    <3>1. i \in 1 .. k - 1 /\ j \in k + 1 .. Len(t) + 1
      BY <1>1, <2>0, <2>3
    <3>2. /\ i \in DOMAIN t /\ j - 1 \in DOMAIN t /\ r[i] = t[i] /\ r[j] = t[j - 1]
          /\ getDistance(t[i]) <= getDistance(e) /\ getDistance(e) <= getDistance(t[j - 1])
      BY <1>7, <1>8, <3>1
    <3>3. i < j - 1
      BY <1>1, <2>0, <2>3
    <3> QED
      BY <3>2, <3>3 DEF InOrder
  <2>4. CASE j > k /\ i = k
    <3>1. j \in k + 1 .. Len(t) + 1
      BY <1>1, <2>0, <2>4
    <3> QED
      BY <1>5, <1>8, <1>9, <2>4, <3>1
  <2>5. CASE j > k /\ i > k
    <3>1. i \in k + 1 .. Len(t) + 1 /\ j \in k + 1 .. Len(t) + 1 /\ i - 1 < j - 1
      BY <1>1, <2>0, <2>5
    <3>2. i - 1 \in DOMAIN t /\ j - 1 \in DOMAIN t /\ r[i] = t[i - 1] /\ r[j] = t[j - 1]
      BY <1>8, <3>1
    <3> QED
      BY <3>1, <3>2 DEF InOrder
  <2> QED
    BY <1>1, <2>0, <2>1, <2>2, <2>3, <2>4, <2>5
<1>11. Knows(r, e.ip)
  BY <1>9 DEF Knows
<1>12. \A i \in DOMAIN t : \E j \in DOMAIN r : r[j] = t[i]
  <2> SUFFICES ASSUME NEW i \in DOMAIN t PROVE \E j \in DOMAIN r : r[j] = t[i]
    OBVIOUS
  <2>1. CASE i < k
    <3>1. i \in DOMAIN r /\ r[i] = t[i]
      BY <1>1, <1>3, <1>4, <2>1
    <3> QED
      BY <3>1
  <2>2. CASE i >= k
    <3>1. i + 1 \in DOMAIN r /\ r[i + 1] = t[i]
      BY <1>1, <1>3, <1>4, <2>2
    <3> QED
      BY <3>1
  <2> QED
    BY <1>1, <2>1, <2>2
<1>13. \A x : Knows(t, x) => Knows(r, x)
  BY <1>12 DEF Knows
<1> QED
  BY <1>3, <1>10, <1>11, <1>12, <1>13 DEF r

LEMMA InsertedOrUpdated ==
  ASSUME NEW S, Measured(S), NEW t \in Seq(S), InOrder(t),
         NEW ip, NEW distance, NEW remotePBE, Entry(ip, distance, remotePBE) \in S
  PROVE  LET r == routInsertOrUpdateEntry(t, ip, distance, remotePBE)
         IN  /\ r \in Seq(S) /\ InOrder(r) /\ Knows(r, ip)
             /\ \A x : Knows(t, x) => Knows(r, x)
<1> DEFINE e == Entry(ip, distance, remotePBE)
           u == routRemoveEntry(t, ip)
           r == routInsertOrUpdateEntry(t, ip, distance, remotePBE)
<1>1. e.ip = ip /\ e \in S
  BY DEF Entry
<1>2. /\ u \in Seq(S) /\ InOrder(u) /\ ~Knows(u, ip)
      /\ \A x : x # ip /\ Knows(t, x) => Knows(u, x)
  BY Removed
<1>3. r = Inserted(u, e)
  BY DEF routInsertOrUpdateEntry
<1> HIDE DEF e, u, r
<1>4. r \in Seq(S) /\ InOrder(r) /\ Knows(r, ip) /\ \A x : Knows(u, x) => Knows(r, x)
  BY <1>1, <1>2, <1>3, InsertedOf
<1>5. \A x : Knows(t, x) => Knows(r, x)
  BY <1>2, <1>4
<1> QED
  BY <1>4, <1>5 DEF r

(* Whether an entry was heard of does not move it. *)
LEMMA FreshChanged ==
  ASSUME NEW S, NEW t \in Seq(S), InOrder(t), NEW k \in DOMAIN t, NEW f \in S,
         f.ip = t[k].ip, f.distance = t[k].distance, f.remotePBE = t[k].remotePBE
  PROVE  LET r == [t EXCEPT ![k] = f]
         IN  /\ r \in Seq(S) /\ InOrder(r)
             /\ \A x : Knows(t, x) <=> Knows(r, x)
             /\ DOMAIN r = DOMAIN t
             /\ \A i \in DOMAIN t : getDistance(r[i]) = getDistance(t[i])
<1> DEFINE r == [t EXCEPT ![k] = f]
<1>1. getDistance(f) = getDistance(t[k])
  BY DistanceIgnoresFresh
<1>2. DOMAIN r = DOMAIN t /\ \A i \in DOMAIN t : r[i] = IF i = k THEN f ELSE t[i]
  OBVIOUS
<1>3. r \in Seq(S)
  OBVIOUS
<1>4. \A i \in DOMAIN t : r[i].ip = t[i].ip /\ getDistance(r[i]) = getDistance(t[i])
  BY <1>1, <1>2
<1>5. InOrder(r)
  BY <1>2, <1>4 DEF InOrder
<1>6. \A x : Knows(t, x) <=> Knows(r, x)
  BY <1>2, <1>4 DEF Knows
<1> QED
  BY <1>2, <1>3, <1>4, <1>5, <1>6

LEMMA LastHeardUpdated ==
  ASSUME NEW S, NEW t \in Seq(S), InOrder(t), NEW ip,
         \A e \in S : LET f == [e EXCEPT !.fresh = TRUE]
                     IN  /\ f \in S /\ f.ip = e.ip
                         /\ f.distance = e.distance /\ f.remotePBE = e.remotePBE
  PROVE  LET r == routUpdateLastHeard(t, ip)
         IN  /\ r \in Seq(S) /\ InOrder(r)
             /\ \A x : Knows(t, x) <=> Knows(r, x)
             /\ DOMAIN r = DOMAIN t
             /\ \A i \in DOMAIN t : getDistance(r[i]) = getDistance(t[i])
<1>1. CASE ~Knows(t, ip)
  BY <1>1 DEF routUpdateLastHeard
<1>2. CASE Knows(t, ip)
  <2> DEFINE k == Place(t, ip)
             f == [t[k] EXCEPT !.fresh = TRUE]
  <2>1. k \in DOMAIN t /\ t[k] \in S
    BY <1>2, PlaceOf
  <2>2. routUpdateLastHeard(t, ip) = [t EXCEPT ![k] = f]
    BY <1>2 DEF routUpdateLastHeard
  <2>3. f \in S /\ f.ip = t[k].ip /\ f.distance = t[k].distance /\ f.remotePBE = t[k].remotePBE
    BY <2>1
  <2> HIDE DEF k, f
  <2> DEFINE r == [t EXCEPT ![k] = f]
  <2>4. r \in Seq(S) /\ InOrder(r) /\ \A x : Knows(t, x) <=> Knows(r, x)
    BY <2>1, <2>3, FreshChanged
  <2>6. DOMAIN r = DOMAIN t /\ \A i \in DOMAIN t : getDistance(r[i]) = getDistance(t[i])
    <3>1. getDistance(f) = getDistance(t[k])
      BY <2>3, DistanceIgnoresFresh
    <3> QED
      BY <2>1, <3>1
  <2> HIDE DEF r
  <2>5. routUpdateLastHeard(t, ip) = r
    BY <2>2 DEF r
  <2> QED
    BY <2>4, <2>5, <2>6
<1> QED
  BY <1>1, <1>2

(* What is left of the table when the expired entries at its head go: all of
   it, if the first is not expired. *)
LEMMA UnexpiredOf ==
  ASSUME NEW S, NEW t \in Seq(S), InOrder(t)
  PROVE  /\ Unexpired(t) \in Seq(S)
         /\ InOrder(Unexpired(t))
         /\ (t # <<>> => t[1].fresh) => Unexpired(t) = t /\ ~LosesLast(t)
<1> DEFINE Starts == {k \in 1 .. Len(t) + 1 : k <= Len(t) => t[k].fresh}
           Start(k) == /\ \A i \in 1 .. k - 1 : ~t[i].fresh
                       /\ k <= Len(t) => t[k].fresh
           from == CHOOSE k \in 1 .. Len(t) + 1 : Start(k)
           r == SubSeq(t, from, Len(t))
<1>0. Len(t) \in Nat /\ DOMAIN t = 1 .. Len(t)
  OBVIOUS
<1>1. from \in 1 .. Len(t) + 1 /\ Start(from)
  <2>1. Starts \subseteq Nat /\ Len(t) + 1 \in Starts
    BY <1>0
  <2>2. PICK p \in Starts : \A q \in Starts : p <= q
    BY <2>1, LeastOf
  <2>3. ASSUME NEW i \in 1 .. p - 1 PROVE ~t[i].fresh
    <3>1. i \in 1 .. Len(t) + 1 /\ i < p
      BY <1>0, <2>2
    <3>2. i \notin Starts
      BY <1>0, <2>2, <3>1
    <3> QED
      BY <3>1, <3>2
  <2>4. p \in 1 .. Len(t) + 1 /\ Start(p)
    BY <2>2, <2>3
  <2> HIDE DEF Start
  <2> QED
    BY <2>4
<1>2. Unexpired(t) = r
  BY DEF Unexpired
<1> HIDE DEF from, r
<1>3. r = SubSeq(t, from, Len(t))
  BY DEF r
<1>4. r \in Seq(S) /\ Len(r) = Len(t) - from + 1
      /\ \A i \in 1 .. Len(r) : r[i] = t[i + from - 1]
  BY <1>0, <1>1, <1>3
<1>5. InOrder(r)
  <2> SUFFICES ASSUME NEW i \in DOMAIN r, NEW j \in DOMAIN r, i < j
               PROVE  getDistance(r[i]) <= getDistance(r[j]) /\ r[i].ip # r[j].ip
    BY DEF InOrder
  <2> DEFINE a == i + from - 1
             b == j + from - 1
  <2>0. i \in 1 .. Len(r) /\ j \in 1 .. Len(r)
    BY <1>4
  <2>1. a \in DOMAIN t /\ b \in DOMAIN t /\ a < b
    BY <1>0, <1>1, <1>4, <2>0
  <2>2. r[i] = t[a] /\ r[j] = t[b]
    BY <1>4, <2>0
  <2> HIDE DEF a, b
  <2> QED
    BY <2>1, <2>2 DEF InOrder
<1>6. ASSUME t # <<>> => t[1].fresh
      PROVE  r = t /\ ~LosesLast(t)
  <2>1. from = 1
    <3>1. SUFFICES ASSUME from # 1 PROVE FALSE
      OBVIOUS
    <3>2. 1 \in 1 .. from - 1 /\ 1 \in DOMAIN t /\ t # <<>>
      BY <1>0, <1>1, <3>1
    <3> QED
      BY <1>1, <1>6, <3>2
  <2>2. r = t
    BY <1>0, <1>4, <2>1
  <2>3. t # <<>> => 1 \in DOMAIN t
    BY <1>0
  <2> QED
    BY <1>6, <2>2, <2>3 DEF LosesLast
<1> QED
  BY <1>2, <1>4, <1>5, <1>6

=============================================================================
