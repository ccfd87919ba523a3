--------------------------- MODULE TimeSlotsProofs ---------------------------
(***************************************************************************)
(* What TimeSlots keeps for every number of nodes, every size of slot and  *)
(* all clocks, with proofs.                                                *)
(***************************************************************************)
EXTENDS TimeSlots, FiniteSetTheorems, TLAPS

(* The slots as arithmetic: quotient and remainder, and their uniqueness. *)

LEMMA DivMod ==
  ASSUME NEW P \in Nat \ {0}, NEW a \in Int
  PROVE  /\ a = P * (a \div P) + (a % P)
         /\ a % P \in 0 .. P - 1
         /\ a \div P \in Int
OBVIOUS

LEMMA AtLeastOnce ==
  ASSUME NEW P \in Nat \ {0}, NEW d \in Nat \ {0}
  PROVE  P * d \in Int /\ P * d >= P
OBVIOUS

LEMMA UniqueQuotient ==
  ASSUME NEW P \in Nat \ {0}, NEW k \in Int, NEW q \in Int,
         NEW x \in 0 .. P - 1, NEW y \in 0 .. P - 1, P * k + x = P * q + y
  PROVE  k = q /\ x = y
<1>1. CASE k = q
  BY <1>1
<1>2. CASE k > q
  <2>1. k - q \in Nat \ {0}
    BY <1>2
  <2>2. P * (k - q) >= P
    BY <2>1, AtLeastOnce
  <2>3. P * (k - q) = P * k - P * q
    OBVIOUS
  <2> QED
    BY <2>2, <2>3
<1>3. CASE q > k
  <2>1. q - k \in Nat \ {0}
    BY <1>3
  <2>2. P * (q - k) >= P
    BY <2>1, AtLeastOnce
  <2>3. P * (q - k) = P * q - P * k
    OBVIOUS
  <2> QED
    BY <2>2, <2>3
<1> QED
  BY <1>1, <1>2, <1>3

LEMMA ModOf ==
  ASSUME NEW P \in Nat \ {0}, NEW k \in Int, NEW x \in 0 .. P - 1
  PROVE  (P * k + x) % P = x
<1>1. P * k + x \in Int
  OBVIOUS
<1> QED
  BY <1>1, DivMod, UniqueQuotient

(* a is in the usable part of slot s of a table for size nodes that began  *)
(* at time sync, in some period.                                           *)
Usable(a, sync, s, size) ==
  \E k \in Int, x \in 0 .. TimeslotSize - Jitter - 1 :
    a = sync + s * TimeslotSize + (size * TimeslotSize) * k + x

(* Times in the usable parts of two different slots of one table are more  *)
(* than the jitter margin apart, whichever periods they are in.            *)
LEMMA SlotsApart ==
  ASSUME NEW size \in Nat \ {0}, NEW s1 \in 0 .. size - 1, NEW s2 \in 0 .. size - 1, s1 # s2,
         NEW a1 \in Int, NEW a2 \in Int, NEW sync \in Int,
         Usable(a1, sync, s1, size), Usable(a2, sync, s2, size)
  PROVE  a1 - a2 > Jitter \/ a2 - a1 > Jitter
<1> DEFINE len == TimeslotSize
<1>a. len \in Nat \ {0} /\ Jitter \in Nat /\ Jitter < len
  BY TimeAssumption
<1>b. PICK k1 \in Int, x1 \in 0 .. len - Jitter - 1 :
        a1 = sync + s1 * len + (size * len) * k1 + x1
  BY DEF Usable
<1>c. PICK k2 \in Int, x2 \in 0 .. len - Jitter - 1 :
        a2 = sync + s2 * len + (size * len) * k2 + x2
  BY DEF Usable
<1> HIDE DEF len
<1> DEFINE m == s1 - s2 + size * (k1 - k2)
<1>1. m \in Int
  BY <1>b, <1>c
<1>2. m # 0
  <2>1. SUFFICES ASSUME m = 0 PROVE FALSE
    OBVIOUS
  <2>2. size * k1 + s1 = size * k2 + s2
    BY <2>1, <1>b, <1>c
  <2> QED
    BY <2>2, <1>b, <1>c, UniqueQuotient
<1>3. a1 - a2 = len * m + (x1 - x2)
  <2>1. (size * len) * k1 - (size * len) * k2 = len * (size * (k1 - k2))
    BY <1>a, <1>b, <1>c
  <2>2. s1 * len - s2 * len = len * (s1 - s2)
    BY <1>a, <1>b, <1>c
  <2>3. len * m = len * (s1 - s2) + len * (size * (k1 - k2))
    BY <1>a, <1>b, <1>c
  <2>4. /\ (size * len) * k1 \in Int /\ (size * len) * k2 \in Int
        /\ s1 * len \in Int /\ s2 * len \in Int /\ len * m \in Int
    BY <1>a, <1>b, <1>c
  <2> QED
    BY <1>b, <1>c, <2>1, <2>2, <2>3, <2>4
<1>4. CASE m > 0
  <2>1. len * m >= len
    BY <1>1, <1>4, <1>a, AtLeastOnce
  <2> QED
    BY <1>a, <1>b, <1>c, <1>1, <1>3, <2>1
<1>5. CASE m < 0
  <2>1. len * (-m) >= len
    BY <1>1, <1>5, <1>a, AtLeastOnce
  <2>2. len * (-m) = -(len * m) /\ len * m \in Int
    BY <1>1, <1>a
  <2> QED
    BY <1>a, <1>b, <1>c, <1>3, <2>1, <2>2
<1> HIDE DEF m
<1> QED
  BY <1>1, <1>2, <1>4, <1>5

-----------------------------------------------------------------------------
(* The time tables *)

LEMMA SlotInTable ==
  ASSUME NEW t \in Made, NEW n \in Nodes
  PROVE  /\ SlotIn(t, n) \in Int /\ SlotIn(t, n) >= -1 /\ SlotIn(t, n) < Len(t.ips)
         /\ SlotIn(t, n) = -1 <=> n \notin Range(t.ips)
         /\ SlotIn(t, n) >= 0 => t.ips[SlotIn(t, n) + 1] = n
<1>1. t.ips \in Seq(Nodes) /\ Len(t.ips) \in Nat /\ DOMAIN t.ips = 1 .. Len(t.ips)
  BY DEF Made
<1>2. CASE n \in Range(t.ips)
  <2>1. \E i \in 1 .. Len(t.ips) : t.ips[i] = n
    BY <1>1, <1>2 DEF Range
  <2> DEFINE place == CHOOSE i \in 1 .. Len(t.ips) : t.ips[i] = n
  <2>2. place \in 1 .. Len(t.ips) /\ t.ips[place] = n
    BY <2>1
  <2>3. SlotIn(t, n) = place - 1
    BY <1>2 DEF SlotIn
  <2> HIDE DEF place
  <2> QED
    BY <1>1, <1>2, <2>2, <2>3
<1>3. CASE n \notin Range(t.ips)
  BY <1>1, <1>3 DEF SlotIn
<1> QED
  BY <1>2, <1>3

(* Every table lists the master and the node it was asked for, and no two  *)
(* have the same time.                                                     *)
TablesDiffer ==
  /\ \A i \in DOMAIN made : Len(made[i].ips) > 1
  /\ \A i, j \in DOMAIN made : made[i].sync = made[j].sync => i = j

(* Whatever the master learns of is a node. *)
LEMMA GrownTyped ==
  ASSUME TypeOK, TablesDiffer, NEW ips \in Grown
  PROVE  ips \in Seq(Nodes)
<1> DEFINE last == IF made = <<>> THEN <<Master>> ELSE made[Len(made)].ips
<1>1. last \in Seq(Nodes) /\ last # <<>>
  <2>1. CASE made = <<>>
    BY <2>1 DEF Nodes
  <2>2. CASE made # <<>>
    <3>1. made \in Seq(Made) /\ Len(made) \in DOMAIN made
      BY <2>2 DEF TypeOK
    <3>2. made[Len(made)] \in Made
      BY <3>1
    <3>3. made[Len(made)].ips \in Seq(Nodes) /\ Len(made[Len(made)].ips) > 1
      BY <3>1, <3>2 DEF Made, TablesDiffer
    <3> QED
      BY <2>2, <3>3
  <2> QED
    BY <2>1, <2>2
<1>2. PICK k \in 0 .. Cardinality(Slaves \ Range(last)) :
        \E learnt \in {l \in [1 .. k -> Slaves \ Range(last)] : IsInjective(l)} :
          ips = <<Master>> \o learnt \o Tail(last)
  BY DEF Grown
<1>3. PICK learnt \in [1 .. k -> Slaves \ Range(last)] :
        ips = <<Master>> \o learnt \o Tail(last)
  BY <1>2
<1>4. k \in Nat
  <2>1. Cardinality(Slaves \ Range(last)) \in Nat
    BY TimeAssumption, FS_Difference, FS_CardinalityType
  <2> QED
    BY <2>1
<1>5. learnt \in Seq(Nodes)
  BY <1>3, <1>4 DEF Nodes
<1>6. Tail(last) \in Seq(Nodes)
  BY <1>1
<1> QED
  BY <1>3, <1>5, <1>6 DEF Nodes

-----------------------------------------------------------------------------
(* Types *)

Typed == TypeOK /\ TablesDiffer

LEMMA TypedBegins == Init => Typed
<1> SUFFICES ASSUME Init PROVE Typed
  OBVIOUS
<1>1. NoTable \in Table /\ NoTable.slot = 0 /\ NoTable.size = 1
  BY DEF NoTable, Kept, Table
<1>2. TypeOK
  BY <1>1, TimeAssumption DEF Init, TypeOK
<1>3. TablesDiffer
  BY DEF Init, TablesDiffer
<1> QED
  BY <1>2, <1>3 DEF Typed

(* A table whose slot is forgotten is one still. *)
LEMMA SlotForgotten ==
  ASSUME NEW t \in Table, t.slot < t.size
  PROVE  LET u == [t EXCEPT !.slot = -1] IN
         u \in Table /\ u.slot = -1 /\ u.slot < u.size /\ u.sync = t.sync /\ u.size = t.size
<1>1. t = [sync |-> t.sync, slot |-> t.slot, size |-> t.size]
  BY DEF Table
<1>2. [t EXCEPT !.slot = -1] = [sync |-> t.sync, slot |-> -1, size |-> t.size]
  BY <1>1
<1>3. t.sync \in Nat /\ t.size \in Nat \ {0}
  BY DEF Table
<1> QED
  BY <1>2, <1>3 DEF Table

LEMMA GenerateTyped ==
  ASSUME Typed, NEW ips \in Grown, generateTB(ips)
  PROVE  Typed'
<1> DEFINE t == [sync |-> Clock(Master) + Validity, ips |-> ips]
<1>1. t \in Made
  <2>1. Clock(Master) \in Nat
    BY TimeAssumption DEF Clock, Nodes, Typed, TypeOK
  <2> QED
    BY <2>1, GrownTyped, TimeAssumption DEF Made, Typed
<1>2. made' = Append(made, t)
  BY DEF generateTB
<1>3. made \in Seq(Made) /\ Len(made) + 1 <= MaxTables
  BY TimeAssumption DEF Typed, TypeOK, generateTB
<1> HIDE DEF t
<1>4. /\ made' \in Seq(Made) /\ Len(made') = Len(made) + 1
      /\ \A i \in 1 .. Len(made) : made'[i] = made[i]
      /\ made'[Len(made) + 1] = t
      /\ DOMAIN made' = 1 .. Len(made) + 1 /\ DOMAIN made = 1 .. Len(made)
      /\ Len(made) \in Nat
  BY <1>1, <1>2, <1>3
<1>5. Range(made') = Range(made) \cup {t}
  BY <1>4 DEF Range
<1>6. taking' \in [Nodes -> {None} \cup Range(made')]
  <2>1. taking' = [taking EXCEPT ![Master] = t]
    BY DEF generateTB, t
  <2> QED
    BY <1>5, <2>1 DEF Typed, TypeOK
<1>7. TypeOK'
  BY <1>3, <1>4, <1>6 DEF Typed, TypeOK, generateTB, sendVars
<1>8. TablesDiffer'
  <2>1. Len(t.ips) > 1 /\ \A i \in DOMAIN made : made[i].sync < t.sync
    BY DEF generateTB, t
  <2>2. \A i \in DOMAIN made : made[i].sync \in Nat
    <3>1. \A i \in DOMAIN made : made[i] \in Made
      BY <1>3
    <3> QED
      BY <3>1 DEF Made
  <2>3. t.sync \in Nat
    BY <1>1 DEF Made
  <2>4. ASSUME NEW i \in DOMAIN made' PROVE Len(made'[i].ips) > 1
    <3>1. CASE i = Len(made) + 1
      BY <1>4, <2>1, <3>1
    <3>2. CASE i # Len(made) + 1
      <4>1. i \in DOMAIN made /\ made'[i] = made[i]
        BY <1>4, <3>2
      <4> QED
        BY <4>1 DEF Typed, TablesDiffer
    <3> QED
      BY <3>1, <3>2
  <2>5. ASSUME NEW i \in DOMAIN made', NEW j \in DOMAIN made', made'[i].sync = made'[j].sync
        PROVE  i = j
    <3>1. \A k \in DOMAIN made' : k \in DOMAIN made \/ k = Len(made) + 1
      BY <1>4
    <3>2. \A k \in DOMAIN made : made'[k].sync < t.sync /\ made'[k].sync \in Nat
      BY <1>4, <2>1, <2>2
    <3>3. CASE i \in DOMAIN made /\ j \in DOMAIN made
      BY <1>4, <2>5, <3>3 DEF Typed, TablesDiffer
    <3> QED
      BY <1>4, <2>3, <2>5, <3>1, <3>2, <3>3
  <2> QED
    BY <2>4, <2>5 DEF TablesDiffer
<1> QED
  BY <1>7, <1>8 DEF Typed

LEMMA ListenerTyped ==
  ASSUME Typed, NEW n \in Nodes,
         (\E i \in DOMAIN made : TB_RX_Locks(n, made[i])) \/ Unlocks(n)
  PROVE  Typed'
<1>0. made \in Seq(Made)
  BY DEF Typed, TypeOK
<1>1. CASE \E i \in DOMAIN made : TB_RX_Locks(n, made[i])
  <2>1. PICK i \in DOMAIN made : TB_RX_Locks(n, made[i])
    BY <1>1
  <2>2. made[i] \in Range(made)
    BY DEF Range
  <2>3. taking' = [taking EXCEPT ![n] = made[i]] /\ new' = [new EXCEPT ![n].slot = -1]
    BY <2>1 DEF TB_RX_Locks
  <2>4. taking' \in [Nodes -> {None} \cup Range(made)]
    BY <2>2, <2>3 DEF Typed, TypeOK
  <2>5. new' \in [Nodes -> Table] /\ \A k \in Nodes : new'[k].slot < new'[k].size
    <3> DEFINE u == [new[n] EXCEPT !.slot = -1]
    <3>1. u \in Table /\ u.slot < u.size
      BY SlotForgotten DEF Typed, TypeOK
    <3>2. new' = [new EXCEPT ![n] = u]
      BY <2>3
    <3> HIDE DEF u
    <3> QED
      BY <3>1, <3>2 DEF Typed, TypeOK
  <2> QED
    BY <2>1, <2>4, <2>5 DEF Typed, TypeOK, TablesDiffer, TB_RX_Locks, clockVars, sendVars
<1>2. CASE Unlocks(n)
  <2> DEFINE t == taking[n]
             slot == SlotIn(t, n)
             kept == IF slot = -1 THEN [new[n] EXCEPT !.slot = -1]
                                  ELSE Kept(t.sync, slot, Len(t.ips))
  <2>1. t \in Range(made)
    BY <1>2 DEF Unlocks, Typed, TypeOK
  <2>2. t \in Made /\ Len(t.ips) > 1
    BY <1>0, <2>1 DEF Range, Typed, TablesDiffer
  <2>3. slot \in Int /\ slot >= -1 /\ slot < Len(t.ips)
    BY <2>2, SlotInTable
  <2>4. kept \in Table /\ kept.slot < kept.size
    <3>1. CASE slot = -1
      BY <3>1, SlotForgotten DEF Typed, TypeOK
    <3>2. CASE slot # -1
      BY <2>2, <2>3, <3>2 DEF Kept, Table, Made
    <3> QED
      BY <3>1, <3>2
  <2>5. new' = [new EXCEPT ![n] = kept]
    BY <1>2 DEF Unlocks
  <2> HIDE DEF t, slot, kept
  <2>6. new' \in [Nodes -> Table] /\ \A k \in Nodes : new'[k].slot < new'[k].size
    BY <2>4, <2>5 DEF Typed, TypeOK
  <2>7. taking' \in [Nodes -> {None} \cup Range(made)]
    BY <1>2 DEF Typed, TypeOK, Unlocks
  <2> QED
    BY <1>2, <2>6, <2>7 DEF Typed, TypeOK, TablesDiffer, Unlocks, clockVars, sendVars
<1> QED
  BY <1>1, <1>2


-----------------------------------------------------------------------------
(* What is true of every node besides: the inductive invariant *)

(* t is one of the tables m, kept by n with its slot or none. *)
MadeFor(m, n, t) ==
  \E i \in DOMAIN m : /\ t.sync = m[i].sync
                      /\ t.size = Len(m[i].ips)
                      /\ t.slot \in {-1, SlotIn(m[i], n)}

LeftOut(m, n) == \E i \in DOMAIN m : n \notin Range(m[i].ips)

(* The tables it keeps; a slot is missing only while it is looked for, or  *)
(* when a table left the node out.                                         *)
KeepsMade(n) ==
  /\ new[n].sync # 0 => MadeFor(made, n, new[n])
  /\ new[n].slot = -1 => taking[n] # None \/ LeftOut(made, n)
  /\ table[n].sync # 0 =>
       MadeFor(made, n, table[n]) /\ (table[n].slot = -1 => LeftOut(made, n))
  /\ sent[n] # None => sent[n].in.sync # 0 /\ MadeFor(made, n, sent[n].in)

(* When it does what: never later than assumed, and what it hands over it  *)
(* could send by its clock a Delay before.                                 *)
HandedInTime(n, s) ==
  \E at \in 0 .. s.at : s.at <= at + Delay /\ MaySend(s.in, at + Offset[n])

InTime(n) ==
  /\ since[n] <= now
  /\ pc[n] = "check" => now <= from[n] + Late
  /\ pc[n] = "send" => /\ from[n] <= now /\ now <= from[n] + Delay
                       /\ MaySend(table[n], from[n] + Offset[n])
  /\ sent[n] # None => HandedInTime(n, sent[n])

(* a is the beginning of a slot of t in some period. *)
SlotBegins(t, a) == \E k \in Nat : a = SlotTime(t) + TableSize(t) * k

(* It sleeps once at most, until its slot begins. *)
Waits(n) ==
  table[n].sync # 0 =>
    /\ table[n].sync <= Clock(n)
    /\ Late < TimeslotSize - Jitter =>
         /\ pc[n] = "check" =>
              \/ from[n] = since[n]
              \/ /\ from[n] <= since[n] + Late + TableSize(table[n])
                 /\ table[n].sync <= from[n] + Offset[n]
                 /\ SlotBegins(table[n], from[n] + Offset[n])
         /\ pc[n] = "send" => from[n] <= since[n] + 2 * Late + TableSize(table[n])

Keeps == \A n \in Nodes : KeepsMade(n) /\ InTime(n) /\ Waits(n)

IInv == Typed /\ Keeps

-----------------------------------------------------------------------------
(* Sleeping until the slot begins *)

LEMMA SlotTyped ==
  ASSUME NEW t \in Table
  PROVE  /\ TableSize(t) \in Nat \ {0} /\ SlotTime(t) \in Int
         /\ t.slot < t.size => SlotTime(t) < t.sync + TableSize(t)
<1>1. /\ t.size \in Nat \ {0} /\ t.slot \in Int /\ t.slot >= -1 /\ t.sync \in Nat
      /\ TimeslotSize \in Nat \ {0}
  BY TimeAssumption DEF Table
<1>2. TableSize(t) \in Nat \ {0}
  BY <1>1 DEF TableSize
<1>3. t.slot * TimeslotSize \in Int
  BY <1>1
<1>4. ASSUME t.slot < t.size PROVE t.slot * TimeslotSize < t.size * TimeslotSize
  <2>1. TimeslotSize * (t.size - t.slot) >= TimeslotSize
    BY <1>1, <1>4, AtLeastOnce
  <2>2. TimeslotSize * (t.size - t.slot) = t.size * TimeslotSize - t.slot * TimeslotSize
    BY <1>1
  <2> QED
    BY <1>1, <2>1, <2>2
<1> QED
  BY <1>1, <1>2, <1>3, <1>4 DEF TableSize, SlotTime

(* It sleeps into the future, a period at most, until its slot begins. *)
LEMMA SleepsToSlot ==
  ASSUME NEW t \in Table, t.slot < t.size, NEW act \in Nat, ~MaySend(t, act)
  PROVE  /\ SleepsUntil(t, act) \in Int /\ SleepsUntil(t, act) > act
         /\ t.sync <= act =>
              /\ SleepsUntil(t, act) <= act + TableSize(t)
              /\ SlotBegins(t, SleepsUntil(t, act))
<1>1. t.sync \in Nat
  BY DEF Table
<1>2. CASE act < t.sync
  BY <1>1, <1>2 DEF SleepsUntil
<1>3. CASE act >= t.sync /\ act < SlotTime(t)
  <2>1. SlotTime(t) = SlotTime(t) + TableSize(t) * 0
    BY SlotTyped
  <2>2. SleepsUntil(t, act) = SlotTime(t)
    BY <1>1, <1>3 DEF SleepsUntil
  <2> QED
    BY <1>1, <1>3, <2>1, <2>2, SlotTyped DEF SlotBegins
<1>4. CASE act >= t.sync /\ act >= SlotTime(t)
  <2> DEFINE P == TableSize(t)
             a == act - SlotTime(t)
             q == a \div P
  <2>1. P \in Nat \ {0} /\ a \in Nat
    BY <1>4, SlotTyped
  <2>2. a = P * q + (a % P) /\ a % P \in 0 .. P - 1 /\ q \in Nat
    <3> HIDE DEF P, a
    <3>1. a = P * q + (a % P) /\ a % P \in 0 .. P - 1 /\ q \in Int
      BY <2>1, DivMod
    <3>2. ASSUME q < 0 PROVE FALSE
      <4>1. P * (-q) >= P /\ P * (-q) = -(P * q)
        BY <2>1, <3>1, <3>2, AtLeastOnce
      <4> QED
        BY <2>1, <3>1, <4>1
    <3> QED
      BY <3>1, <3>2
  <2>3. SleepsUntil(t, act) = P * (q + 1) + SlotTime(t)
    BY <1>1, <1>4, SlotTyped DEF SleepsUntil, NextSlot
  <2>4. P * (q + 1) = P * q + P
    BY <2>1, <2>2
  <2> HIDE DEF q
  <2> QED
    BY <1>4, <2>1, <2>2, <2>3, <2>4, SlotTyped DEF SlotBegins
<1> QED
  BY <1>1, <1>2, <1>3, <1>4, SlotTyped

(* Awake before the usable part of the slot is over, it may send. *)
LEMMA AwakeInSlot ==
  ASSUME NEW t \in Table, NEW a \in Nat, t.sync <= a, SlotBegins(t, a),
         NEW late \in Nat, late < TimeslotSize - Jitter
  PROVE  MaySend(t, a + late)
<1>1. PICK k \in Nat : a = SlotTime(t) + TableSize(t) * k
  BY DEF SlotBegins
<1>2. TableSize(t) \in Nat \ {0} /\ SlotTime(t) \in Int /\ t.sync \in Nat
  BY SlotTyped DEF Table
<1>3. TimeslotSize <= TableSize(t)
  BY TimeAssumption, AtLeastOnce DEF TableSize, Table
<1>4. late \in 0 .. TableSize(t) - 1
  BY <1>2, <1>3, TimeAssumption
<1>5. a + late - SlotTime(t) = TableSize(t) * k + late /\ TableSize(t) * k \in Nat
  BY <1>1, <1>2
<1>6. InSlot(t, a + late)
  BY <1>2, <1>4, <1>5, ModOf DEF InSlot
<1> QED
  BY <1>1, <1>2, <1>5, <1>6 DEF MaySend

-----------------------------------------------------------------------------
(* The master makes a table *)

(* The tables of before stay what they were. *)
LEMMA MadeStays ==
  ASSUME NEW m, NEW u, m \in Seq(Made), u \in Made, NEW n, NEW t
  PROVE  /\ MadeFor(m, n, t) => MadeFor(Append(m, u), n, t)
         /\ LeftOut(m, n) => LeftOut(Append(m, u), n)
<1>1. \A i \in DOMAIN m : i \in DOMAIN Append(m, u) /\ Append(m, u)[i] = m[i]
  OBVIOUS
<1> QED
  BY <1>1 DEF MadeFor, LeftOut

LEMMA GenerateKeeps ==
  ASSUME IInv, NEW ips \in Grown, generateTB(ips)
  PROVE  IInv'
<1> DEFINE t == [sync |-> Clock(Master) + Validity, ips |-> ips]
<1>1. Typed'
  BY GenerateTyped DEF IInv
<1>2. made' = Append(made, t) /\ made \in Seq(Made)
  BY DEF generateTB, IInv, Typed, TypeOK
<1>3. t \in Made
  <2>1. made' \in Seq(Made) /\ made'[Len(made')] = t /\ Len(made') \in DOMAIN made'
    BY <1>1, <1>2 DEF Typed, TypeOK
  <2> QED
    BY <2>1
<1> HIDE DEF t
<1>4. /\ now' = now /\ new' = new /\ table' = table /\ popped' = popped /\ pc' = pc
      /\ from' = from /\ since' = since /\ sent' = sent
      /\ \A n \in Nodes : taking[n] # None => taking'[n] # None
  <2>1. taking' = [taking EXCEPT ![Master] = t] /\ taking[Master] = None
    BY DEF generateTB, t
  <2> QED
    BY <1>3, <2>1, TimeAssumption DEF generateTB, sendVars, IInv, Typed, TypeOK
<1>5. ASSUME NEW n \in Nodes PROVE (KeepsMade(n) /\ InTime(n) /\ Waits(n))'
  <2>1. KeepsMade(n) /\ InTime(n) /\ Waits(n)
    BY DEF IInv, Keeps
  <2>2. KeepsMade(n)'
    BY <1>2, <1>3, <1>4, <2>1, MadeStays DEF KeepsMade
  <2>3. InTime(n)' /\ Waits(n)'
    BY <1>4, <2>1 DEF InTime, Waits, Clock
  <2> QED
    BY <2>2, <2>3
<1> QED
  BY <1>1, <1>5 DEF IInv, Keeps

(* It is taken in *)

LEMMA ListenerKeeps ==
  ASSUME IInv, NEW n \in Nodes,
         (\E i \in DOMAIN made : TB_RX_Locks(n, made[i])) \/ Unlocks(n)
  PROVE  IInv'
<1>1. Typed'
  BY ListenerTyped DEF IInv
<1>2. /\ now' = now /\ made' = made /\ table' = table /\ pc' = pc
      /\ from' = from /\ since' = since /\ sent' = sent
  BY DEF TB_RX_Locks, Unlocks, clockVars, sendVars
<1>3. ASSUME NEW k \in Nodes PROVE InTime(k)' /\ Waits(k)'
  BY <1>2 DEF IInv, Keeps, InTime, Waits, Clock
<1>4. ASSUME NEW k \in Nodes, k # n PROVE KeepsMade(k)'
  <2>1. new'[k] = new[k] /\ taking'[k] = taking[k]
    BY <1>4 DEF TB_RX_Locks, Unlocks, IInv, Typed, TypeOK
  <2> QED
    BY <1>2, <2>1 DEF IInv, Keeps, KeepsMade
<1>5. KeepsMade(n)'
  <2>1. KeepsMade(n) /\ made \in Seq(Made) /\ new[n] \in Table /\ new[n].slot < new[n].size
    BY DEF IInv, Keeps, Typed, TypeOK
  <2>2. CASE \E i \in DOMAIN made : TB_RX_Locks(n, made[i])
    <3>1. PICK i \in DOMAIN made : TB_RX_Locks(n, made[i])
      BY <2>2
    <3>2. made[i] \in Made
      BY <2>1
    <3>3. taking'[n] # None
      BY <3>1, <3>2, TimeAssumption DEF TB_RX_Locks, IInv, Typed, TypeOK
    <3>4. new'[n] = [new[n] EXCEPT !.slot = -1]
      BY <3>1 DEF TB_RX_Locks, IInv, Typed, TypeOK
    <3>5. new'[n].slot = -1 /\ new'[n].sync = new[n].sync /\ new'[n].size = new[n].size
      BY <2>1, <3>4, SlotForgotten
    <3> QED
      BY <1>2, <2>1, <3>3, <3>5 DEF KeepsMade, MadeFor
  <2>3. CASE Unlocks(n)
    <3> DEFINE t == taking[n]
               slot == SlotIn(t, n)
    <3>1. PICK i \in DOMAIN made : t = made[i]
      BY <2>3 DEF Unlocks, IInv, Typed, TypeOK, Range
    <3>2. t \in Made
      BY <2>1, <3>1
    <3>3. slot = -1 <=> n \notin Range(t.ips)
      BY <3>2, SlotInTable
    <3>4. new'[n] = IF slot = -1 THEN [new[n] EXCEPT !.slot = -1]
                                 ELSE Kept(t.sync, slot, Len(t.ips))
      BY <2>3 DEF Unlocks, IInv, Typed, TypeOK
    <3>5. CASE slot = -1
      <4>1. LeftOut(made, n)
        BY <3>1, <3>3, <3>5 DEF LeftOut
      <4>2. new'[n].slot = -1 /\ new'[n].sync = new[n].sync /\ new'[n].size = new[n].size
        BY <2>1, <3>4, <3>5, SlotForgotten
      <4> QED
        BY <1>2, <2>1, <4>1, <4>2 DEF KeepsMade, MadeFor
    <3>6. CASE slot # -1
      <4>1. new'[n].sync = t.sync /\ new'[n].slot = slot /\ new'[n].size = Len(t.ips)
        BY <3>4, <3>6 DEF Kept
      <4>2. MadeFor(made, n, new'[n])
        BY <3>1, <4>1 DEF MadeFor
      <4> QED
        BY <1>2, <2>1, <3>6, <4>1, <4>2 DEF KeepsMade
    <3> QED
      BY <3>5, <3>6
  <2> QED
    BY <2>2, <2>3
<1> QED
  BY <1>1, <1>3, <1>4, <1>5 DEF IInv, Keeps

-----------------------------------------------------------------------------
(* The dispatcher *)

LEMMA PopKeeps ==
  ASSUME IInv, NEW n \in Nodes, Pop(n)
  PROVE  IInv'
<1>1. Typed'
  BY TimeAssumption DEF Pop, IInv, Typed, TypeOK, TablesDiffer, clockVars, newVars
<1>2. /\ now' = now /\ made' = made /\ taking' = taking /\ new' = new
      /\ table' = table /\ sent' = sent
  BY DEF Pop, clockVars, newVars
<1>3. ASSUME NEW k \in Nodes PROVE KeepsMade(k)'
  BY <1>2 DEF IInv, Keeps, KeepsMade
<1>4. ASSUME NEW k \in Nodes, k # n PROVE InTime(k)' /\ Waits(k)'
  <2>1. pc'[k] = pc[k] /\ from'[k] = from[k] /\ since'[k] = since[k]
    BY <1>4 DEF Pop, IInv, Typed, TypeOK
  <2> QED
    BY <1>2, <2>1 DEF IInv, Keeps, InTime, Waits, Clock
<1>5. InTime(n)' /\ Waits(n)'
  <2>1. pc'[n] = "check" /\ from'[n] = now /\ since'[n] = now
    BY DEF Pop, IInv, Typed, TypeOK
  <2> QED
    BY <1>2, <2>1, TimeAssumption DEF IInv, Keeps, InTime, Waits, Clock, Typed, TypeOK
<1> QED
  BY <1>1, <1>3, <1>4, <1>5 DEF IInv, Keeps

LEMMA SendKeeps ==
  ASSUME IInv, NEW n \in Nodes, Send(n)
  PROVE  IInv'
<1> DEFINE s == IF table[n].sync = 0 THEN None ELSE [at |-> now, in |-> table[n]]
<1>1. Typed'
  <2>1. s \in {None} \cup [at : 0 .. MaxTime, in : Table]
    BY DEF IInv, Typed, TypeOK
  <2>2. sent' = [sent EXCEPT ![n] = s]
    BY DEF Send
  <2> QED
    BY <2>1, <2>2, TimeAssumption
    DEF Send, IInv, Typed, TypeOK, TablesDiffer, clockVars, newVars
<1>2. /\ now' = now /\ made' = made /\ taking' = taking /\ new' = new /\ table' = table
  BY DEF Send, clockVars, newVars
<1>3. ASSUME NEW k \in Nodes, k # n PROVE (KeepsMade(k) /\ InTime(k) /\ Waits(k))'
  <2>1. pc'[k] = pc[k] /\ from'[k] = from[k] /\ since'[k] = since[k] /\ sent'[k] = sent[k]
    BY <1>3 DEF Send, IInv, Typed, TypeOK
  <2> QED
    BY <1>2, <2>1 DEF IInv, Keeps, KeepsMade, InTime, Waits, Clock
<1>4. /\ pc'[n] = "pop" /\ pc[n] = "send" /\ since'[n] = 0 /\ sent'[n] = s
  BY DEF Send, IInv, Typed, TypeOK
<1>5. now \in Nat /\ from[n] \in Nat
  BY TimeAssumption DEF IInv, Typed, TypeOK
<1>6. KeepsMade(n) /\ InTime(n) /\ Waits(n)
  BY DEF IInv, Keeps
<1>7. ASSUME table[n].sync = 0 PROVE (KeepsMade(n) /\ InTime(n) /\ Waits(n))'
  BY <1>2, <1>4, <1>5, <1>6, <1>7 DEF KeepsMade, InTime, Waits, Clock
<1>8. ASSUME table[n].sync # 0 PROVE (KeepsMade(n) /\ InTime(n) /\ Waits(n))'
  <2>1. s.at = now /\ s.in = table[n]
    BY <1>8
  <2> HIDE DEF s
  <2>2. HandedInTime(n, s)
    BY <1>4, <1>5, <1>6, <2>1 DEF InTime, HandedInTime
  <2> QED
    BY <1>2, <1>4, <1>5, <1>6, <1>8, <2>1, <2>2 DEF KeepsMade, InTime, Waits, Clock
<1> QED
  BY <1>1, <1>3, <1>7, <1>8 DEF IInv, Keeps

LEMMA TickKeeps ==
  ASSUME IInv, Tick
  PROVE  IInv'
<1>1. now \in Nat /\ now' = now + 1 /\ now' \in 0 .. MaxTime
  BY TimeAssumption DEF Tick, IInv, Typed, TypeOK
<1>2. /\ made' = made /\ taking' = taking /\ new' = new /\ table' = table
      /\ popped' = popped /\ pc' = pc /\ from' = from /\ since' = since /\ sent' = sent
  BY DEF Tick, newVars, sendVars
<1>3. Typed'
  BY <1>1, <1>2 DEF IInv, Typed, TypeOK, TablesDiffer
<1>4. ASSUME NEW n \in Nodes PROVE (KeepsMade(n) /\ InTime(n) /\ Waits(n))'
  <2>1. KeepsMade(n) /\ InTime(n) /\ Waits(n)
    BY DEF IInv, Keeps
  <2>2. /\ pc[n] = "check" => now < from[n] + Late
        /\ pc[n] = "send" => now < from[n] + Delay
    BY DEF Tick
  <2>3. /\ from[n] \in Nat /\ since[n] \in Nat /\ table[n].sync \in Nat
        /\ Offset[n] \in Nat /\ Late \in Nat /\ Delay \in Nat
    BY TimeAssumption DEF IInv, Typed, TypeOK, Table
  <2>4. KeepsMade(n)'
    BY <1>2, <2>1 DEF KeepsMade
  <2>5. InTime(n)'
    BY <1>1, <1>2, <2>1, <2>2, <2>3 DEF InTime
  <2>6. Waits(n)'
    <3>1. table[n].sync <= Clock(n) => table[n].sync <= Clock(n)'
      BY <1>1, <2>3 DEF Clock
    <3> QED
      BY <1>2, <2>1, <3>1 DEF Waits
  <2> QED
    BY <2>4, <2>5, <2>6
<1> QED
  BY <1>3, <1>4 DEF IInv, Keeps

LEMMA CheckKeeps ==
  ASSUME IInv, NEW n \in Nodes, Check(n)
  PROVE  IInv'
<1> DEFINE act == Clock(n)
           t == IF Adopts(n) THEN new[n] ELSE table[n]
           next == IF MaySend(t, act) THEN now ELSE SleepsUntil(t, act) - Offset[n]
<1>1. t \in Table /\ t.slot < t.size
  BY DEF IInv, Typed, TypeOK
<1>2. /\ now \in Nat /\ now \in 0 .. MaxTime /\ Offset[n] \in Nat /\ Late \in Nat /\ Delay \in Nat
      /\ act \in Nat /\ act = now + Offset[n]
      /\ from[n] \in Nat /\ from[n] <= now /\ now <= from[n] + Late
      /\ since[n] \in Nat /\ since[n] <= now
  <2>1. pc[n] = "check" /\ now >= from[n]
    BY DEF Check
  <2>2. now \in 0 .. MaxTime /\ from[n] \in Nat /\ since[n] \in 0 .. MaxTime
    BY DEF IInv, Typed, TypeOK
  <2>3. now <= from[n] + Late /\ since[n] <= now
    BY <2>1 DEF IInv, Keeps, InTime
  <2>4. MaxTime \in Nat /\ Offset[n] \in Nat /\ Late \in Nat /\ Delay \in Nat
    BY TimeAssumption
  <2> QED
    BY <2>1, <2>2, <2>3, <2>4 DEF Clock
<1>3. /\ now' = now /\ made' = made /\ taking' = taking /\ popped' = popped /\ sent' = sent
      /\ Clock(n)' = act
  BY DEF Check, clockVars, Clock
<1>4. /\ table' = [table EXCEPT ![n] = t]
      /\ new' = IF Adopts(n) THEN [new EXCEPT ![n].sync = 0] ELSE new
      /\ since' = IF Adopts(n) THEN [since EXCEPT ![n] = now] ELSE since
      /\ pc' = [pc EXCEPT ![n] = IF MaySend(t, act) THEN "send" ELSE "check"]
      /\ from' = [from EXCEPT ![n] = next]
  BY DEF Check
<1>5. Adopts(n) => taking[n] = None /\ t = new[n] /\ t.sync # 0 /\ t.sync < act
  BY DEF Adopts
<1>6. ~Adopts(n) => t = table[n]
  OBVIOUS
<1>7. next \in Nat /\ next >= now
  <2>1. CASE MaySend(t, act)
    BY <1>2, <2>1
  <2>2. CASE ~MaySend(t, act)
    <3>1. SleepsUntil(t, act) \in Int /\ SleepsUntil(t, act) > act
      BY <1>1, <1>2, <2>2, SleepsToSlot
    <3> HIDE DEF act, t
    <3> QED
      BY <1>2, <2>2, <3>1
  <2> QED
    BY <2>1, <2>2
<1>8. KeepsMade(n) /\ InTime(n) /\ Waits(n)
  BY DEF IInv, Keeps
<1> HIDE DEF act, t
<1>9. new' \in [Nodes -> Table] /\ \A k \in Nodes : new'[k].slot = new[k].slot
                                                     /\ new'[k].size = new[k].size
  <2> DEFINE u == [new[n] EXCEPT !.sync = 0]
  <2>1. u \in Table /\ u.slot = new[n].slot /\ u.size = new[n].size
    BY DEF IInv, Typed, TypeOK, Table
  <2>2. new' = IF Adopts(n) THEN [new EXCEPT ![n] = u] ELSE new
    BY <1>4
  <2> HIDE DEF u
  <2> QED
    BY <2>1, <2>2 DEF IInv, Typed, TypeOK
<1> HIDE DEF next
<1>10. Typed'
  <2>1. /\ table' \in [Nodes -> Table] /\ \A k \in Nodes : table'[k].slot < table'[k].size
    BY <1>1, <1>4 DEF IInv, Typed, TypeOK
  <2>2. pc' \in [Nodes -> {"pop", "check", "send"}]
    BY <1>4 DEF IInv, Typed, TypeOK
  <2>3. from' \in [Nodes -> Nat] /\ since' \in [Nodes -> 0 .. MaxTime]
    BY <1>2, <1>4, <1>7 DEF IInv, Typed, TypeOK
  <2> QED
    BY <1>3, <1>9, <2>1, <2>2, <2>3 DEF IInv, Typed, TypeOK, TablesDiffer
<1>11. ASSUME NEW k \in Nodes, k # n PROVE (KeepsMade(k) /\ InTime(k) /\ Waits(k))'
  <2>1. /\ pc'[k] = pc[k] /\ from'[k] = from[k] /\ since'[k] = since[k]
        /\ table'[k] = table[k] /\ new'[k] = new[k]
    BY <1>4, <1>11 DEF IInv, Typed, TypeOK
  <2> QED
    BY <1>3, <2>1 DEF IInv, Keeps, KeepsMade, InTime, Waits, Clock
<1>12. /\ table'[n] = t
       /\ pc'[n] = IF MaySend(t, act) THEN "send" ELSE "check"
       /\ from'[n] = next
       /\ since'[n] = IF Adopts(n) THEN now ELSE since[n]
       /\ new'[n] = IF Adopts(n) THEN [new[n] EXCEPT !.sync = 0] ELSE new[n]
  BY <1>4 DEF IInv, Typed, TypeOK
<1>13. KeepsMade(n)'
  <2>1. CASE Adopts(n)
    <3>1. new'[n].sync = 0 /\ new'[n].slot = new[n].slot
      BY <1>9, <1>12, <2>1 DEF IInv, Typed, TypeOK, Table
    <3> QED
      BY <1>3, <1>5, <1>8, <1>12, <2>1, <3>1 DEF KeepsMade
  <2>2. CASE ~Adopts(n)
    BY <1>3, <1>6, <1>8, <1>12, <2>2 DEF KeepsMade
  <2> QED
    BY <2>1, <2>2
<1>14. InTime(n)'
  <2>1. since'[n] <= now
    BY <1>2, <1>12
  <2>2. pc'[n] = "check" => now <= from'[n] + Late
    BY <1>2, <1>7, <1>12
  <2>3. CASE MaySend(t, act)
    <3>1. from'[n] = now
      BY <1>12, <2>3 DEF next
    <3> QED
      BY <1>2, <1>3, <1>8, <1>12, <2>1, <2>3, <3>1 DEF InTime
  <2>4. CASE ~MaySend(t, act)
    BY <1>2, <1>3, <1>8, <1>12, <2>1, <2>2, <2>4 DEF InTime
  <2> QED
    BY <2>3, <2>4
<1>15. Waits(n)'
  <2>1. SUFFICES ASSUME t.sync # 0
                 PROVE  /\ t.sync <= act
                        /\ Late < TimeslotSize - Jitter =>
                             \/ /\ MaySend(t, act)
                                /\ next <= since'[n] + 2 * Late + TableSize(t)
                             \/ /\ ~MaySend(t, act)
                                /\ next <= since'[n] + Late + TableSize(t)
                                /\ t.sync <= next + Offset[n]
                                /\ SlotBegins(t, next + Offset[n])
    BY <1>3, <1>12 DEF Waits
  <2>2. t.sync \in Nat /\ TableSize(t) \in Nat \ {0}
    BY <1>1, SlotTyped DEF Table
  <2>3. t.sync <= act
    <3>1. CASE Adopts(n)
      BY <1>2, <1>5, <2>2, <3>1
    <3>2. CASE ~Adopts(n)
      BY <1>6, <1>8, <2>1, <3>2 DEF Waits, act
    <3> QED
      BY <3>1, <3>2
  <2>4. ASSUME MaySend(t, act), Late < TimeslotSize - Jitter
        PROVE  next <= since'[n] + 2 * Late + TableSize(t)
    <3>1. next = now
      BY <2>4 DEF next
    <3>2. CASE Adopts(n)
      BY <1>2, <1>12, <2>2, <3>1, <3>2
    <3>3. CASE ~Adopts(n)
      <4>1. \/ from[n] = since[n]
            \/ from[n] <= since[n] + Late + TableSize(t)
        BY <1>6, <1>8, <2>1, <2>4, <3>3 DEF Waits, Check
      <4> QED
        BY <1>2, <1>12, <2>2, <3>1, <3>3, <4>1
    <3> QED
      BY <3>2, <3>3
  <2>5. ASSUME ~MaySend(t, act), Late < TimeslotSize - Jitter
        PROVE  /\ next <= since'[n] + Late + TableSize(t)
               /\ t.sync <= next + Offset[n]
               /\ SlotBegins(t, next + Offset[n])
    <3>1. next = SleepsUntil(t, act) - Offset[n]
      BY <2>5 DEF next
    <3>2. /\ SleepsUntil(t, act) \in Int /\ SleepsUntil(t, act) > act
          /\ SleepsUntil(t, act) <= act + TableSize(t)
          /\ SlotBegins(t, SleepsUntil(t, act))
      BY <1>1, <1>2, <2>3, <2>5, SleepsToSlot
    <3>3. next + Offset[n] = SleepsUntil(t, act)
      BY <1>2, <3>1, <3>2
    <3>4. now <= since'[n] + Late
      <4>1. CASE Adopts(n)
        BY <1>2, <1>12, <4>1
      <4>2. CASE ~Adopts(n) /\ from[n] = since[n]
        BY <1>2, <1>12, <4>2
      <4>3. CASE ~Adopts(n) /\ from[n] # since[n]
        <5>1. /\ t.sync <= from[n] + Offset[n]
              /\ SlotBegins(t, from[n] + Offset[n])
          BY <1>6, <1>8, <2>1, <2>5, <4>3 DEF Waits, Check
        <5>2. /\ now - from[n] \in Nat /\ now - from[n] < TimeslotSize - Jitter
              /\ from[n] + Offset[n] \in Nat
              /\ from[n] + Offset[n] + (now - from[n]) = act
          BY <1>2, <2>5, TimeAssumption
        <5>3. MaySend(t, act)
          BY <1>1, <5>1, <5>2, AwakeInSlot
        <5> QED
          BY <2>5, <5>3
      <4> QED
        BY <4>1, <4>2, <4>3
    <3>5. since'[n] \in Nat
      BY <1>2, <1>12
    <3> QED
      BY <1>2, <2>2, <2>3, <3>1, <3>2, <3>3, <3>4, <3>5
  <2> QED
    BY <2>3, <2>4, <2>5
<1> QED
  BY <1>10, <1>11, <1>13, <1>14, <1>15 DEF IInv, Keeps

-----------------------------------------------------------------------------
(* The invariant, and what follows from it *)

LEMMA Begins == Init => IInv
<1> SUFFICES ASSUME Init PROVE IInv
  OBVIOUS
<1>1. Typed
  BY TypedBegins
<1>2. NoTable.sync = 0 /\ NoTable.slot = 0
  BY DEF NoTable, Kept
<1>3. ASSUME NEW n \in Nodes PROVE KeepsMade(n) /\ InTime(n) /\ Waits(n)
  BY <1>2 DEF Init, KeepsMade, InTime, Waits
<1> QED
  BY <1>1, <1>3 DEF IInv, Keeps

LEMMA StepKeeps == IInv /\ [Next]_vars => IInv'
<1> SUFFICES ASSUME IInv, [Next]_vars PROVE IInv'
  OBVIOUS
<1>1. CASE \E ips \in Grown : generateTB(ips)
  BY <1>1, GenerateKeeps
<1>2. CASE \E n \in Nodes : (\E i \in DOMAIN made : TB_RX_Locks(n, made[i])) \/ Unlocks(n)
  BY <1>2, ListenerKeeps
<1>3. CASE \E n \in Nodes : Pop(n) \/ Check(n) \/ Send(n)
  BY <1>3, PopKeeps, CheckKeeps, SendKeeps
<1>4. CASE Tick
  BY <1>4, TickKeeps
<1>5. CASE UNCHANGED vars
  <2>1. /\ now' = now /\ made' = made /\ taking' = taking /\ new' = new /\ table' = table
        /\ popped' = popped /\ pc' = pc /\ from' = from /\ since' = since /\ sent' = sent
    BY <1>5 DEF vars, clockVars, newVars, sendVars
  <2>2. Typed'
    BY <2>1 DEF IInv, Typed, TypeOK, TablesDiffer
  <2>3. Keeps'
    BY <2>1 DEF IInv, Keeps, KeepsMade, InTime, Waits, Clock
  <2> QED
    BY <2>2, <2>3 DEF IInv
<1> QED
  BY <1>1, <1>2, <1>3, <1>4, <1>5 DEF Next

THEOREM Invariant == Spec => []IInv
  BY Begins, StepKeeps, PTL DEF Spec

(* Every variable keeps its type, and a slot is always below the number of *)
(* slots, whatever tables the listener of a node takes in (TB_RX,          *)
(* checkNewTimeTable).                                                     *)
THEOREM TypeCorrect == Spec => []TypeOK
<1>1. IInv => TypeOK
  BY DEF IInv, Typed
<1> QED
  BY <1>1, Invariant, PTL

(* The table the dispatcher follows is one the master made, as a whole,    *)
(* and its slot is the node's own or, if some table left it out, none:     *)
(* the lock and checkNewTimeTable never let it adopt half of a table.      *)
THEOREM TablesAreMade == Spec => []FollowsMadeTable
<1>1. IInv => FollowsMadeTable
  <2> SUFFICES ASSUME IInv, NEW n \in Nodes, table[n].sync # 0
               PROVE  MadeFor(made, n, table[n]) /\ (table[n].slot = -1 => LeftOut(made, n))
    BY DEF FollowsMadeTable, MadeFor, LeftOut
  <2> QED
    BY DEF IInv, Keeps, KeepsMade
<1> QED
  BY <1>1, Invariant, PTL

(* A node that may send by a table is in its slot of it. *)
LEMMA HandedInSlot ==
  ASSUME NEW t \in Table, t.sync # 0, NEW a \in Nat, MaySend(t, a)
  PROVE  Usable(a, t.sync, t.slot, t.size)
<1> DEFINE P == TableSize(t)
           d == a - SlotTime(t)
<1>1. P \in Nat \ {0} /\ d \in Int /\ SlotTime(t) \in Int
  BY SlotTyped
<1>2. d % P < TimeslotSize - Jitter
  BY DEF MaySend, InSlot
<1> HIDE DEF P, d
<1>3. d = P * (d \div P) + (d % P) /\ d % P \in 0 .. P - 1 /\ d \div P \in Int
  BY <1>1, DivMod
<1>4. d % P \in 0 .. TimeslotSize - Jitter - 1
  BY <1>1, <1>2, <1>3, TimeAssumption
<1>5. a = SlotTime(t) + P * (d \div P) + (d % P)
  <2>1. a = SlotTime(t) + d
    BY <1>1 DEF d
  <2> QED
    BY <1>1, <1>3, <2>1
<1> QED
  BY <1>3, <1>4, <1>5 DEF P, TableSize, SlotTime, Usable

(* Two nodes that follow the same table never hand over within the gap of  *)
(* each other, for every number of nodes, every size of slot, and whatever *)
(* table each of them takes in when (WF_Dispatcher and getTimeslotEnd).    *)
THEOREM SlotsKeepApart == Spec => []HandOversApart
<1>1. IInv => HandOversApart
  <2> SUFFICES ASSUME IInv, NEW n1 \in Nodes, NEW n2 \in Nodes, n1 # n2,
                      sent[n1] # None, sent[n2] # None,
                      sent[n1].in.sync = sent[n2].in.sync,
                      sent[n1].in.slot >= 0, sent[n2].in.slot >= 0
               PROVE  \/ sent[n1].at - sent[n2].at > Gap
                      \/ sent[n2].at - sent[n1].at > Gap
    BY DEF HandOversApart
  <2> DEFINE t1 == sent[n1].in
             t2 == sent[n2].in
  <2>1. /\ t1 \in Table /\ t2 \in Table /\ sent[n1].at \in Nat /\ sent[n2].at \in Nat
        /\ made \in Seq(Made) /\ DOMAIN made = 1 .. Len(made)
    BY DEF IInv, Typed, TypeOK
  <2>2. t1.sync # 0 /\ MadeFor(made, n1, t1) /\ t2.sync # 0 /\ MadeFor(made, n2, t2)
    BY DEF IInv, Keeps, KeepsMade
  <2>3. HandedInTime(n1, sent[n1]) /\ HandedInTime(n2, sent[n2])
    BY DEF IInv, Keeps, InTime
  <2>4. PICK i \in DOMAIN made : /\ t1.sync = made[i].sync /\ t1.size = Len(made[i].ips)
                                 /\ t1.slot \in {-1, SlotIn(made[i], n1)}
    BY <2>2 DEF MadeFor
  <2>5. PICK j \in DOMAIN made : /\ t2.sync = made[j].sync /\ t2.size = Len(made[j].ips)
                                 /\ t2.slot \in {-1, SlotIn(made[j], n2)}
    BY <2>2 DEF MadeFor
  <2>6. i = j /\ made[i] \in Made
    <3>1. made[i].sync = made[j].sync
      BY <2>4, <2>5
    <3>2. i = j
      BY <3>1 DEF IInv, Typed, TablesDiffer
    <3> QED
      BY <2>1, <3>2
  <2>7. /\ t1.slot = SlotIn(made[i], n1) /\ t2.slot = SlotIn(made[i], n2)
        /\ t1.size = t2.size /\ t1.sync = t2.sync
    BY <2>4, <2>5, <2>6
  <2>8. t1.slot # t2.slot
    BY <2>6, <2>7, SlotInTable
  <2>9. /\ t1.slot \in 0 .. t1.size - 1 /\ t2.slot \in 0 .. t1.size - 1
        /\ t1.size \in Nat \ {0}
    <3>1. t1.slot \in Int /\ t1.slot < t1.size /\ t2.slot \in Int /\ t2.slot < t1.size
      BY <2>4, <2>6, <2>7, SlotInTable
    <3> QED
      BY <2>1, <3>1 DEF Table
  <2>10. PICK at1 \in 0 .. sent[n1].at :
           sent[n1].at <= at1 + Delay /\ MaySend(t1, at1 + Offset[n1])
    BY <2>3 DEF HandedInTime
  <2>11. PICK at2 \in 0 .. sent[n2].at :
           sent[n2].at <= at2 + Delay /\ MaySend(t2, at2 + Offset[n2])
    BY <2>3 DEF HandedInTime
  <2>12. /\ Offset[n1] \in Nat /\ Offset[n2] \in Nat /\ Delay \in Nat /\ Skew \in Nat
         /\ Offset[n1] - Offset[n2] <= Skew /\ Offset[n2] - Offset[n1] <= Skew
         /\ TimeslotSize \in Nat \ {0} /\ Jitter \in Nat /\ Jitter < TimeslotSize
    BY TimeAssumption
  <2> DEFINE a1 == at1 + Offset[n1]
             a2 == at2 + Offset[n2]
  <2>13. /\ at1 \in Nat /\ at2 \in Nat /\ a1 \in Nat /\ a2 \in Nat
    <3>1. at1 \in Nat /\ at2 \in Nat
      BY <2>1, <2>10, <2>11
    <3> QED
      BY <2>12, <3>1
  <2> HIDE DEF t1, t2
  <2>14. Usable(a1, t1.sync, t1.slot, t1.size) /\ Usable(a2, t1.sync, t2.slot, t1.size)
    BY <2>1, <2>2, <2>7, <2>10, <2>11, <2>13, HandedInSlot
  <2>15. t1.sync \in Int /\ a1 \in Int /\ a2 \in Int
    BY <2>1, <2>13 DEF Table
  <2> HIDE DEF a1, a2
  <2>16. a1 - a2 > Jitter \/ a2 - a1 > Jitter
    BY <2>8, <2>9, <2>14, <2>15, SlotsApart
  <2>17. /\ sent[n1].at >= at1 /\ sent[n1].at <= at1 + Delay
         /\ sent[n2].at >= at2 /\ sent[n2].at <= at2 + Delay
    BY <2>1, <2>10, <2>11
  <2> DEFINE h1 == sent[n1].at
             h2 == sent[n2].at
  <2> HIDE DEF h1, h2
  <2>18. h1 - h2 > Gap \/ h2 - h1 > Gap
    <3>1. /\ h1 \in Nat /\ h1 >= at1 /\ h1 <= at1 + Delay
          /\ h2 \in Nat /\ h2 >= at2 /\ h2 <= at2 + Delay
      BY <2>1, <2>17 DEF h1, h2
    <3> QED
      BY <2>12, <2>13, <2>16, <3>1 DEF Gap, a1, a2
  <2> QED
    BY <2>18 DEF h1, h2
<1> QED
  BY <1>1, Invariant, PTL

(* A message given to the dispatcher of a node that follows a table is     *)
(* handed over within one period of the table, however often checkNew-     *)
(* TimeTable replaces it, while sleeps end before the slot they are for.   *)
THEOREM WaitsAreBounded == Spec => []WaitBounded
<1>1. IInv => WaitBounded
  <2> SUFFICES ASSUME IInv, NEW n \in Nodes, pc[n] # "pop", table[n].sync # 0,
                      Late < TimeslotSize - Jitter
               PROVE  now - since[n] <= TableSize(table[n]) + 2 * Late + Delay
    BY DEF WaitBounded
  <2>1. InTime(n) /\ Waits(n)
    BY DEF IInv, Keeps
  <2>2. /\ now \in Nat /\ since[n] \in Nat /\ from[n] \in Nat /\ Late \in Nat /\ Delay \in Nat
        /\ TableSize(table[n]) \in Nat /\ pc[n] \in {"check", "send"}
    BY SlotTyped, TimeAssumption DEF IInv, Typed, TypeOK
  <2> QED
    BY <2>1, <2>2 DEF InTime, Waits
<1> QED
  BY <1>1, Invariant, PTL

=============================================================================
