-------------------------- MODULE OneNodeListProofs --------------------------
(***************************************************************************)
(* What OneNode keeps in its lists and in the table of relayed TAs, and    *)
(* that it keeps the promise of Relaying, whatever the neighbours send.    *)
(***************************************************************************)
EXTENDS OneNodeProofs

(* The lists of addresses *)

LEMMA InListOf ==
  ASSUME NEW S, NEW list \in Seq(S), NEW ip
  PROVE  getIPFromList(list, ip) <=> ip \in ToSet(list)
BY DEF getIPFromList, ToSet

LEMMA InsertOne ==
  ASSUME NEW S, NEW list \in Seq(S), NEW ip \in S, IsInjective(list)
  PROVE  /\ insertIPList(list, ip) \in Seq(S)
         /\ IsInjective(insertIPList(list, ip))
         /\ ToSet(insertIPList(list, ip)) = ToSet(list) \cup {ip}
<1>1. CASE ip \in ToSet(list)
  BY <1>1, InListOf DEF insertIPList
<1>2. CASE ip \notin ToSet(list)
  <2> DEFINE new == <<ip>> \o list
  <2>1. insertIPList(list, ip) = new
    BY <1>2, InListOf DEF insertIPList, insertInList
  <2>2. /\ new \in Seq(S) /\ Len(new) = Len(list) + 1 /\ Len(list) \in Nat
        /\ new[1] = ip /\ \A i \in 1 .. Len(list) : new[i + 1] = list[i]
        /\ DOMAIN new = 1 .. Len(list) + 1 /\ DOMAIN list = 1 .. Len(list)
    OBVIOUS
  <2> HIDE DEF new
  <2>3. \A i \in DOMAIN new : i = 1 \/ (i - 1 \in DOMAIN list /\ new[i] = list[i - 1])
    BY <2>2
  <2>4. ToSet(new) = ToSet(list) \cup {ip}
    <3>1. ToSet(new) \subseteq ToSet(list) \cup {ip}
      BY <2>2, <2>3 DEF ToSet
    <3>2. ip \in ToSet(new)
      BY <2>2 DEF ToSet
    <3>3. \A i \in DOMAIN list : i + 1 \in DOMAIN new /\ new[i + 1] = list[i]
      BY <2>2
    <3>4. ToSet(list) \subseteq ToSet(new)
      BY <3>3 DEF ToSet
    <3> QED
      BY <3>1, <3>2, <3>4
  <2>5. IsInjective(new)
    <3> SUFFICES ASSUME NEW i \in DOMAIN new, NEW j \in DOMAIN new, new[i] = new[j]
                 PROVE  i = j
      BY DEF IsInjective
    <3>1. \A k \in DOMAIN list : list[k] # ip
      BY <1>2 DEF ToSet
    <3>2. CASE i = 1 \/ j = 1
      BY <2>2, <2>3, <3>1, <3>2
    <3>3. CASE i # 1 /\ j # 1
      <4>1. i - 1 = j - 1
        BY <2>3, <3>3 DEF IsInjective
      <4> QED
        BY <2>2, <4>1
    <3> QED
      BY <3>2, <3>3
  <2> QED
    BY <2>1, <2>2, <2>4, <2>5
<1> QED
  BY <1>1, <1>2

LEMMA ElementOf ==
  ASSUME NEW S, NEW s \in Seq(S), NEW i \in DOMAIN s
  PROVE  s[i] \in S /\ i \in 1 .. Len(s)
OBVIOUS

LEMMA Concat ==
  ASSUME NEW S, NEW a \in Seq(S), NEW b \in Seq(S)
  PROVE  /\ a \o b \in Seq(S) /\ Len(a \o b) = Len(a) + Len(b)
         /\ Len(a) \in Nat /\ Len(b) \in Nat
         /\ \A i \in 1 .. Len(a) : (a \o b)[i] = a[i]
         /\ \A i \in Len(a) + 1 .. Len(a) + Len(b) : (a \o b)[i] = b[i - Len(a)]
OBVIOUS

(* What is left without the element at some place. *)
LEMMA RemoveAtOf ==
  ASSUME NEW S, NEW list \in Seq(S), NEW k \in 1 .. Len(list)
  PROVE  /\ RemoveAt(list, k) \in Seq(S)
         /\ Len(RemoveAt(list, k)) = Len(list) - 1
         /\ \A i \in 1 .. Len(list) - 1 :
              RemoveAt(list, k)[i] = IF i < k THEN list[i] ELSE list[i + 1]
<1> DEFINE a == SubSeq(list, 1, k - 1)
           b == SubSeq(list, k + 1, Len(list))
<1>1. a \in Seq(S) /\ Len(a) = k - 1 /\ \A i \in 1 .. k - 1 : a[i] = list[i]
  OBVIOUS
<1>2. b \in Seq(S) /\ Len(b) = Len(list) - k /\ \A i \in 1 .. Len(list) - k : b[i] = list[i + k]
  OBVIOUS
<1>3. RemoveAt(list, k) = a \o b
  BY DEF RemoveAt
<1> HIDE DEF a, b
<1>0. Len(list) \in Nat /\ k \in Nat /\ k >= 1 /\ k <= Len(list)
  OBVIOUS
<1>4. a \o b \in Seq(S) /\ Len(a \o b) = Len(list) - 1
  <2>a. a \in Seq(S) /\ b \in Seq(S)
    BY <1>1, <1>2
  <2>b. Len(a \o b) = Len(a) + Len(b)
    BY <2>a, Concat
  <2>1. Len(a \o b) = (k - 1) + (Len(list) - k)
    BY <1>1, <1>2, <2>b
  <2> QED
    BY <1>0, <1>1, <1>2, <2>1
<1>5. ASSUME NEW i \in 1 .. Len(list) - 1
      PROVE  (a \o b)[i] = IF i < k THEN list[i] ELSE list[i + 1]
  <2>a. /\ a \in Seq(S) /\ b \in Seq(S) /\ Len(a) = k - 1 /\ Len(b) = Len(list) - k
    BY <1>1, <1>2
  <2>b. /\ \A j \in 1 .. Len(a) : (a \o b)[j] = a[j]
        /\ \A j \in Len(a) + 1 .. Len(a) + Len(b) : (a \o b)[j] = b[j - Len(a)]
    BY <2>a, Concat
  <2>1. CASE i < k
    <3>1. i \in 1 .. Len(a) /\ i \in 1 .. k - 1
      BY <1>0, <2>a, <2>1
    <3>2. (a \o b)[i] = a[i] /\ a[i] = list[i]
      BY <1>1, <2>b, <3>1
    <3> QED
      BY <2>1, <3>2
  <2>2. CASE i >= k
    <3> DEFINE j == i - Len(a)
    <3>1. i \in Len(a) + 1 .. Len(a) + Len(b) /\ j \in 1 .. Len(list) - k /\ j + k = i + 1
      BY <1>0, <2>a, <2>2
    <3>2. (a \o b)[i] = b[j]
      BY <2>b, <3>1
    <3> HIDE DEF j
    <3>3. b[j] = list[j + k]
      BY <1>2, <3>1
    <3> QED
      BY <1>0, <2>2, <3>1, <3>2, <3>3
  <2>3. i < k \/ i >= k
    BY <1>0
  <2> QED
    BY <2>1, <2>2, <2>3
<1> QED
  BY <1>3, <1>4, <1>5

(* A place that is the only one of its kind is found. *)
LEMMA OnlyPlace ==
  ASSUME NEW I, NEW k \in Int, I = {k}
  PROVE  Min(I) = k
<1>1. \E x \in I : \A y \in I : x =< y
  OBVIOUS
<1>2. Min(I) \in I
  BY <1>1 DEF Min
<1> QED
  BY <1>2

LEMMA RemoveOne ==
  ASSUME NEW S, NEW list \in Seq(S), NEW ip \in ToSet(list), IsInjective(list)
  PROVE  /\ removeIPList(list, ip) \in Seq(S)
         /\ IsInjective(removeIPList(list, ip))
         /\ ToSet(removeIPList(list, ip)) = ToSet(list) \ {ip}
<1>1. PICK k \in 1 .. Len(list) : list[k] = ip
  BY DEF ToSet
<1>2. SelectInSeq(list, LAMBDA e : e = ip) = k
  <2>1. {i \in 1 .. Len(list) : list[i] = ip} = {k}
    BY <1>1 DEF IsInjective
  <2> QED
    BY <2>1, OnlyPlace DEF SelectInSeq
<1> DEFINE new == RemoveAt(list, k)
<1>3. removeIPList(list, ip) = new
  <2>1. Len(list) \in Nat /\ k \in Nat /\ ~(k - 1 >= Len(list)) /\ (k - 1) + 1 = k
    BY <1>1
  <2> QED
    BY <1>2, <2>1, InListOf DEF removeIPList, removeFromList
<1>4. /\ new \in Seq(S) /\ Len(new) = Len(list) - 1
      /\ \A i \in 1 .. Len(list) - 1 : new[i] = IF i < k THEN list[i] ELSE list[i + 1]
  BY <1>1, RemoveAtOf
<1> HIDE DEF new
<1>5. /\ DOMAIN new = 1 .. Len(list) - 1 /\ DOMAIN list = 1 .. Len(list) /\ Len(list) \in Nat
      /\ k \in Nat
  BY <1>1, <1>4
<1> DEFINE old(i) == IF i < k THEN i ELSE i + 1
<1>6. \A i \in DOMAIN new : old(i) \in DOMAIN list /\ old(i) # k /\ new[i] = list[old(i)]
  BY <1>4, <1>5
<1>7. \A i, j \in DOMAIN new : old(i) = old(j) => i = j
  BY <1>5
<1>8. \A j \in DOMAIN list : j # k => \E i \in DOMAIN new : old(i) = j
  <2> TAKE j \in DOMAIN list
  <2>1. CASE j < k
    <3>1. j \in DOMAIN new /\ old(j) = j
      BY <1>1, <1>5, <2>1
    <3> QED
      BY <3>1
  <2>2. CASE j > k
    <3>1. j - 1 \in DOMAIN new /\ old(j - 1) = j
      BY <1>1, <1>5, <2>2
    <3> QED
      BY <3>1
  <2> QED
    BY <1>5, <2>1, <2>2
<1> HIDE DEF old
<1>9. \A j \in DOMAIN list : list[j] = ip => j = k
  BY <1>1, <1>5 DEF IsInjective
<1>10. IsInjective(new)
  BY <1>6, <1>7 DEF IsInjective
<1>11. ToSet(new) \subseteq ToSet(list) \ {ip}
  BY <1>6, <1>9 DEF ToSet
<1>12. ToSet(list) \ {ip} \subseteq ToSet(new)
  BY <1>1, <1>6, <1>8 DEF ToSet
<1> QED
  BY <1>3, <1>4, <1>10, <1>11, <1>12

-----------------------------------------------------------------------------
(* The lists of a node *)

ListsTyped ==
  SubSlaves \in Seq(IPs) /\ OutsideSlaves \in Seq(IPs) /\ OutsidePending \in Seq(IPs)

ListInv == ListsTyped /\ ListsAgree

(* What ListInv says of the NER survives whenever the message does.        *)
LEMMA ListsKept ==
  ASSUME ListInv, UNCHANGED lists,
         rt'["NER"].msg \in {rt["NER"].msg, NoMsg}
  PROVE  ListInv'
BY DEF ListInv, ListsTyped, ListsAgree, lists, On

(* One or two lists grow by an address, the SubSlaves always. *)
LEMMA ListsGrow ==
  ASSUME ListInv, NEW ip \in IPs,
         insertSubSlave(ip),
         insertOutsideSlave(ip) \/ UNCHANGED OutsideSlaves,
         insertPending(ip) \/ UNCHANGED OutsidePending,
         \/ rt'["NER"].msg = rt["NER"].msg
         \/ insertOutsideSlave(ip) /\ rt'["NER"].msg = ip
  PROVE  ListInv'
<1>0. /\ ListsTyped
      /\ IsInjective(SubSlaves) /\ IsInjective(OutsideSlaves) /\ IsInjective(OutsidePending)
      /\ ToSet(OutsideSlaves) \subseteq ToSet(SubSlaves)
      /\ ToSet(OutsidePending) \subseteq ToSet(SubSlaves)
      /\ On("NER") => rt["NER"].msg \in ToSet(OutsideSlaves)
  BY DEF ListInv, ListsAgree
<1>1. /\ SubSlaves' \in Seq(IPs) /\ IsInjective(SubSlaves')
      /\ ToSet(SubSlaves') = ToSet(SubSlaves) \cup {ip}
  BY <1>0, InsertOne DEF ListsTyped, insertSubSlave
<1>2. /\ OutsideSlaves' \in Seq(IPs) /\ IsInjective(OutsideSlaves')
      /\ ToSet(OutsideSlaves') \in {ToSet(OutsideSlaves), ToSet(OutsideSlaves) \cup {ip}}
      /\ insertOutsideSlave(ip) => ip \in ToSet(OutsideSlaves')
  BY <1>0, InsertOne DEF ListsTyped, insertOutsideSlave
<1>3. /\ OutsidePending' \in Seq(IPs) /\ IsInjective(OutsidePending')
      /\ ToSet(OutsidePending') \in {ToSet(OutsidePending), ToSet(OutsidePending) \cup {ip}}
  BY <1>0, InsertOne DEF ListsTyped, insertPending
<1>4. On("NER")' => rt'["NER"].msg \in ToSet(OutsideSlaves')
  BY <1>0, <1>2 DEF On
<1>5. /\ ToSet(OutsideSlaves') \subseteq ToSet(SubSlaves')
      /\ ToSet(OutsidePending') \subseteq ToSet(SubSlaves')
  BY <1>0, <1>1, <1>2, <1>3
<1> QED
  BY <1>1, <1>2, <1>3, <1>4, <1>5 DEF ListInv, ListsTyped, ListsAgree

LEMMA ReceiveLists ==
  ASSUME RtTyped, ListInv, NEW f \in scene.frames, Receive(f)
  PROVE  ListInv'
<1>0. f \in Frame /\ Kinds = {"PB", "TB", "PR", "NE", "NER"}
  BY FramesTyped DEF RtTyped, Kinds
<1>1. CASE PB_RX_Asks(f) \/ PB_RX_TimesOut(f) \/ PC_RX(f) \/ NEP_RX(f) \/ NEA_RX_Proxy(f)
  <2>1. UNCHANGED lists
    BY <1>1 DEF PB_RX_Asks, PB_RX_TimesOut, PC_RX, NEP_RX, NEA_RX_Proxy
  <2>2. rt'["NER"].msg \in {rt["NER"].msg, NoMsg}
    BY <1>0, <1>1
    DEF PB_RX_Asks, PB_RX_TimesOut, PC_RX, NEP_RX, NEA_RX_Proxy, startRetransmission,
        stopRetransmission, Stopped, retransmission, RtTyped
  <2> QED
    BY <2>1, <2>2, ListsKept
<1>2. CASE TB_RX_Evicted(f) \/ TB_RX_Listed(f) \/ TA_RX_Master(f) \/ TA_RX_Relay(f)
  <2>1. UNCHANGED lists
    BY <1>2 DEF TB_RX_Evicted, TB_RX_Listed, TA_RX_Master, TA_RX_Relay
  <2>2. rt'["NER"].msg \in {rt["NER"].msg, NoMsg}
    BY <1>0, <1>2
    DEF TB_RX_Evicted, TB_RX_Listed, TA_RX_Master, TA_RX_Relay,
        stopRetransmission, Stopped, retransmission, RtTyped
  <2> QED
    BY <2>1, <2>2, ListsKept
<1>3. CASE NE_RX_Master(f)
  <2>1. f.from \in IPs
    BY <1>0, <1>3 DEF NE_RX_Master, Heard, Frame
  <2>2. rt'["NER"].msg = rt["NER"].msg
    BY <1>0, <1>3 DEF NE_RX_Master, beginTBTransmission, RtTyped
  <2> QED
    BY <1>3, <2>1, <2>2, ListsGrow DEF NE_RX_Master
<1>4. CASE NE_RX_Proxy(f)
  <2>1. f.from \in IPs
    BY <1>0, <1>4 DEF NE_RX_Proxy, Heard, Frame
  <2>2. rt'["NER"].msg = f.from
    BY <1>0, <1>4 DEF NE_RX_Proxy, startRetransmission, RtTyped
  <2> QED
    BY <1>4, <2>1, <2>2, ListsGrow DEF NE_RX_Proxy
<1>5. CASE NER_RX(f)
  <2>1. f.outsider \in IPs
    BY <1>0, <1>5 DEF NER_RX, Heard, Frame
  <2>2. rt'["NER"].msg = rt["NER"].msg
    BY <1>0, <1>5 DEF NER_RX, beginTBTransmission, RtTyped
  <2> QED
    BY <1>5, <2>1, <2>2, ListsGrow DEF NER_RX
<1>6. CASE NEA_RX_Relay(f)
  <2>1. f.outsider \in IPs
    BY <1>0, <1>6 DEF NEA_RX_Relay, Heard, Frame
  <2>2. f.outsider \in ToSet(OutsidePending)
    BY <1>6, InListOf DEF NEA_RX_Relay, ListInv, ListsTyped
  <2>3. /\ OutsidePending' \in Seq(IPs) /\ IsInjective(OutsidePending')
        /\ ToSet(OutsidePending') \subseteq ToSet(OutsidePending)
    BY <1>6, <2>2, RemoveOne DEF NEA_RX_Relay, ListInv, ListsTyped, ListsAgree
  <2>4. SubSlaves' = SubSlaves /\ OutsideSlaves' = OutsideSlaves /\ rt' = rt
    BY <1>6 DEF NEA_RX_Relay, retransmission
  <2> QED
    BY <2>3, <2>4 DEF ListInv, ListsTyped, ListsAgree, On
<1>7. CASE SD_RX(f)
  <2>1. f.source \in IPs
    BY <1>0, <1>7 DEF SD_RX, Heard, Frame
  <2> QED
    BY <1>7, <2>1, ListsGrow DEF SD_RX, retransmission
<1> QED
  BY <1>1, <1>2, <1>3, <1>4, <1>5, <1>6, <1>7, Receive(f) DEF Receive

(* The retransmission thread and the clock start no message. *)
LEMMA ThreadKeepsMsgs ==
  ASSUME RtTyped, TimesKept, Retransmit \/ Tick, NEW k \in Kinds
  PROVE  rt'[k].msg \in {rt[k].msg, NoMsg}
<1>1. CASE Retransmit
  <2>1. CASE Pass \/ Pass_GiveUp \/ Pass_Rest
    <3>1. \E kinds \in SUBSET Kinds : SendOverdue(kinds)
      BY <2>1 DEF Pass, Pass_GiveUp, Pass_Rest, Kinds
    <3> QED
      BY <3>1, SendOverdueKeeps
  <2>2. CASE GiveUp_Stop
    BY <2>2 DEF GiveUp_Stop, stopRetransmission, Stopped, RtTyped, Kinds
  <2>3. CASE GiveUp_Status
    BY <2>3 DEF GiveUp_Status
  <2> QED
    BY <1>1, <2>1, <2>2, <2>3 DEF Retransmit
<1>2. CASE Tick
  BY <1>2 DEF Tick, TickRetransmission, RtTyped
<1> QED
  BY <1>1, <1>2

LEMMA StepLists ==
  ASSUME IInv, ListInv, [Next]_vars
  PROVE  ListInv'
<1>1. CASE \E f \in scene.frames : Receive(f)
  BY <1>1, ReceiveLists DEF IInv
<1>2. CASE Retransmit \/ Tick
  <2>1. UNCHANGED lists
    BY <1>2 DEF Retransmit, Tick
  <2>2. "NER" \in Kinds
    BY DEF Kinds
  <2> QED
    BY <1>2, <2>1, <2>2, ThreadKeepsMsgs, ListsKept DEF IInv
<1>3. CASE UNCHANGED vars
  BY <1>3 DEF vars, lists, retransmission, ListInv, ListsTyped, ListsAgree, On
<1> QED
  BY <1>1, <1>2, <1>3 DEF Next

LEMMA ListsBegin == Init => ListInv
<1> SUFFICES ASSUME Init PROVE ListInv
  OBVIOUS
<1>1. ~On("NER")
  BY DEF Init, InitRetransmission, NoRetransmission, On, Kinds
<1>2. SubSlaves = <<>> /\ OutsideSlaves = <<>> /\ OutsidePending = <<>>
  BY DEF Init
<1> QED
  BY <1>1, <1>2 DEF ListInv, ListsTyped, ListsAgree, IsInjective, ToSet

(* No address is in a list twice, the SubSlaves include everyone the node  *)
(* is the proxy of or owes an NEA, and the NER that is repeated is for one *)
(* of its OutsideSlaves, whatever frames come in whatever order and        *)
(* however often (insertSubSlave, insertOutsideSlave, insertPending,       *)
(* NE_RX, NER_RX, NEA_RX and SD_RX).                                       *)
THEOREM ListsStayInAgreement == Spec => []ListsAgree
<1>1. ListInv => ListsAgree
  BY DEF ListInv
<1>2. IInv /\ ListInv /\ [Next]_vars => ListInv'
  BY StepLists
<1> QED
  BY <1>1, <1>2, ListsBegin, Holds, PTL DEF Spec

-----------------------------------------------------------------------------
(* The table of relayed TAs *)

(* Nothing but zeros, or one pair for each of some addresses. *)
IsPbidTable(t) ==
  \/ t = <<Zero>>
  \/ /\ t \in Seq([ip : IPs, pbid : PBIDs]) /\ t # <<>>
     /\ \A i, j \in DOMAIN t : t[i].ip = t[j].ip => i = j

(* The PBID the table has for an address. *)
PbidOf(o, t) == LET pair == pbidSearchIP(o, t) IN IF pair = NoPair THEN NoPair ELSE pair.pbid

LEMMA PlaceFound ==
  ASSUME NEW t, IsPbidTable(t), NEW o \in IPs
  PROVE  /\ \A i \in DOMAIN t : t[i].ip = o => PlaceOf(o, t) = i
         /\ (\A i \in DOMAIN t : t[i].ip # o) => PlaceOf(o, t) = 0
<1>1. DOMAIN t = 1 .. Len(t)
  BY DEF IsPbidTable
<1>2. ASSUME NEW i \in DOMAIN t, t[i].ip = o PROVE PlaceOf(o, t) = i
  <2>1. {j \in 1 .. Len(t) : t[j].ip = o} = {i}
    <3>1. \A j \in DOMAIN t : t[j].ip = o => j = i
      BY <1>2, OneNodeAssumption DEF IsPbidTable, Zero, Pair
    <3> QED
      BY <1>1, <1>2, <3>1
  <2>2. i \in Int
    BY <1>1, <1>2
  <2> QED
    BY <2>1, <2>2, OnlyPlace DEF PlaceOf, SelectInSeq
<1>3. ASSUME \A i \in DOMAIN t : t[i].ip # o PROVE PlaceOf(o, t) = 0
  BY <1>1, <1>3 DEF PlaceOf, SelectInSeq
<1> QED
  BY <1>2, <1>3

LEMMA PbidFound ==
  ASSUME NEW t, IsPbidTable(t), NEW o \in IPs
  PROVE  /\ \A i \in DOMAIN t : t[i].ip = o =>
              PbidOf(o, t) = t[i].pbid /\ pbidSearchIP(o, t) # NoPair
         /\ (\A i \in DOMAIN t : t[i].ip # o) => PbidOf(o, t) = NoPair
<1>1. ASSUME NEW i \in DOMAIN t, t[i].ip = o
      PROVE  PbidOf(o, t) = t[i].pbid /\ pbidSearchIP(o, t) # NoPair
  <2>1. PlaceOf(o, t) = i /\ i # 0
    <3>1. DOMAIN t = 1 .. Len(t)
      BY DEF IsPbidTable
    <3> QED
      BY <1>1, <3>1, PlaceFound
  <2>2. t[i] # NoPair
    <3>1. t # <<Zero>>
      BY <1>1, OneNodeAssumption DEF Zero, Pair
    <3>2. t[i] \in [ip : IPs, pbid : PBIDs]
      BY <3>1, ElementOf DEF IsPbidTable
    <3> QED
      BY <3>2, OneNodeAssumption
  <2> QED
    BY <2>1, <2>2 DEF PbidOf, pbidSearchIP
<1>2. ASSUME \A i \in DOMAIN t : t[i].ip # o PROVE PbidOf(o, t) = NoPair
  BY <1>2, PlaceFound DEF PbidOf, pbidSearchIP
<1> QED
  BY <1>1, <1>2

(* Whoever has no pair in a table without o is as before; o has none. *)
LEMMA PairRemoved ==
  ASSUME NEW t, IsPbidTable(t), NEW o \in IPs
  PROVE  /\ IsPbidTable(pbidRemovePair(o, t))
         /\ \A i \in DOMAIN pbidRemovePair(o, t) : pbidRemovePair(o, t)[i].ip # o
         /\ \A q \in IPs \ {o} : PbidOf(q, pbidRemovePair(o, t)) = PbidOf(q, t)
<1> DEFINE new == pbidRemovePair(o, t)
<1>1. CASE \A i \in DOMAIN t : t[i].ip # o
  <2>1. new = t
    BY <1>1, PlaceFound DEF pbidRemovePair
  <2> QED
    BY <1>1, <2>1
<1>2. CASE \E i \in DOMAIN t : t[i].ip = o
  <2>1. PICK k \in DOMAIN t : t[k].ip = o
    BY <1>2
  <2>2. /\ t \in Seq([ip : IPs, pbid : PBIDs]) /\ t # <<>>
        /\ \A i, j \in DOMAIN t : t[i].ip = t[j].ip => i = j
    BY <2>1, OneNodeAssumption DEF IsPbidTable, Zero, Pair
  <2>3. PlaceOf(o, t) = k /\ k # 0 /\ k \in 1 .. Len(t) /\ DOMAIN t = 1 .. Len(t)
        /\ Len(t) \in Nat
    BY <2>1, <2>2, PlaceFound
  <2>4. CASE Len(t) = 1
    <3>1. new = <<Zero>>
      BY <2>3, <2>4 DEF pbidRemovePair, pbidInitializeTable
    <3>2. IsPbidTable(new) /\ \A q \in IPs : \A i \in DOMAIN new : new[i].ip # q
      BY <3>1, OneNodeAssumption DEF IsPbidTable, Zero, Pair
    <3>3. \A q \in IPs \ {o} : \A i \in DOMAIN t : t[i].ip # q
      BY <2>1, <2>3, <2>4
    <3> HIDE DEF new
    <3>4. \A q \in IPs \ {o} : PbidOf(q, new) = NoPair /\ PbidOf(q, t) = NoPair
      BY <3>2, <3>3, PbidFound
    <3> QED
      BY <3>2, <3>4 DEF new
  <2>5. CASE Len(t) # 1
    <3>1. new = RemoveAt(t, k)
      BY <2>3, <2>5 DEF pbidRemovePair
    <3>2. /\ new \in Seq([ip : IPs, pbid : PBIDs]) /\ Len(new) = Len(t) - 1
          /\ \A i \in 1 .. Len(t) - 1 : new[i] = IF i < k THEN t[i] ELSE t[i + 1]
      <4> DEFINE S == [ip : IPs, pbid : PBIDs]
      <4>1. t \in Seq(S) /\ k \in 1 .. Len(t)
        BY <2>2, <2>3
      <4> HIDE DEF S
      <4>2. /\ RemoveAt(t, k) \in Seq(S) /\ Len(RemoveAt(t, k)) = Len(t) - 1
            /\ \A i \in 1 .. Len(t) - 1 :
                 RemoveAt(t, k)[i] = IF i < k THEN t[i] ELSE t[i + 1]
        BY <4>1, RemoveAtOf
      <4> QED
        BY <3>1, <4>2 DEF S
    <3> HIDE DEF new
    <3> DEFINE old(i) == IF i < k THEN i ELSE i + 1
    <3>3. /\ DOMAIN new = 1 .. Len(t) - 1
          /\ \A i \in DOMAIN new : old(i) \in DOMAIN t /\ old(i) # k /\ new[i] = t[old(i)]
          /\ \A i, j \in DOMAIN new : old(i) = old(j) => i = j
      BY <2>3, <3>2
    <3>4. ASSUME NEW j \in DOMAIN t, j # k PROVE \E i \in DOMAIN new : old(i) = j
      <4>1. CASE j < k
        <5>1. j \in DOMAIN new /\ old(j) = j
          BY <2>3, <3>3, <4>1
        <5> QED
          BY <5>1
      <4>2. CASE j > k
        <5>1. j - 1 \in DOMAIN new /\ old(j - 1) = j
          BY <2>3, <3>3, <4>2
        <5> QED
          BY <5>1
      <4> QED
        BY <2>3, <3>4, <4>1, <4>2
    <3> HIDE DEF old
    <3>5. new # <<>>
      <4>1. 1 \in DOMAIN new
        BY <2>2, <2>3, <2>5, <3>3
      <4> QED
        BY <4>1
    <3>6. IsPbidTable(new)
      BY <2>2, <3>2, <3>3, <3>5 DEF IsPbidTable
    <3>7. \A i \in DOMAIN new : new[i].ip # o
      BY <2>1, <2>2, <3>3
    <3>8. ASSUME NEW q \in IPs \ {o} PROVE PbidOf(q, new) = PbidOf(q, t)
      <4>1. CASE \E j \in DOMAIN t : t[j].ip = q
        <5>1. PICK j \in DOMAIN t : t[j].ip = q
          BY <4>1
        <5>2. j # k
          BY <2>1, <3>8, <5>1
        <5>3. PICK i \in DOMAIN new : new[i] = t[j]
          BY <3>3, <3>4, <5>2
        <5> QED
          BY <3>6, <5>1, <5>3, PbidFound
      <4>2. CASE \A j \in DOMAIN t : t[j].ip # q
        <5>1. \A i \in DOMAIN new : new[i].ip # q
          BY <3>3, <4>2
        <5> QED
          BY <3>6, <4>2, <5>1, PbidFound
      <4> QED
        BY <4>1, <4>2
    <3> QED
      BY <3>6, <3>7, <3>8 DEF new
  <2> QED
    BY <2>4, <2>5
<1> QED
  BY <1>1, <1>2

LEMMA PairInserted ==
  ASSUME NEW t, IsPbidTable(t), NEW o \in IPs, NEW p \in PBIDs,
         \A i \in DOMAIN t : t[i].ip # o
  PROVE  /\ IsPbidTable(pbidInsertPair(o, p, t))
         /\ PbidOf(o, pbidInsertPair(o, p, t)) = p
         /\ \A q \in IPs \ {o} : PbidOf(q, pbidInsertPair(o, p, t)) = PbidOf(q, t)
<1> DEFINE new == pbidInsertPair(o, p, t)
           pair == Pair(o, p)
<1>0. pair \in [ip : IPs, pbid : PBIDs] /\ pair.ip = o /\ pair.pbid = p
  BY DEF Pair
<1>1. CASE t = <<Zero>>
  <2>1. new = <<pair>>
    <3>1. t[1] = Zero
      BY <1>1
    <3>2. new = [t EXCEPT ![1] = pair]
      BY <3>1 DEF pbidInsertPair
    <3> QED
      BY <1>1, <3>2
  <2> HIDE DEF pair, new
  <2>2. IsPbidTable(new) /\ 1 \in DOMAIN new /\ new[1] = pair
        /\ \A i \in DOMAIN new : i = 1
    BY <1>0, <2>1 DEF IsPbidTable
  <2>3. \A q \in IPs \ {o} : /\ \A i \in DOMAIN new : new[i].ip # q
                             /\ \A i \in DOMAIN t : t[i].ip # q
    BY <1>0, <1>1, <2>2, OneNodeAssumption DEF Zero, Pair
  <2>4. PbidOf(o, new) = p
    BY <1>0, <2>2, PbidFound
  <2>5. \A q \in IPs \ {o} : PbidOf(q, new) = NoPair /\ PbidOf(q, t) = NoPair
    BY <2>2, <2>3, PbidFound
  <2> QED
    BY <2>2, <2>4, <2>5 DEF new
<1>2. CASE t # <<Zero>>
  <2>1. /\ t \in Seq([ip : IPs, pbid : PBIDs]) /\ t # <<>>
        /\ \A i, j \in DOMAIN t : t[i].ip = t[j].ip => i = j
        /\ Len(t) \in Nat /\ DOMAIN t = 1 .. Len(t)
    BY <1>2 DEF IsPbidTable
  <2>2. new = Append(t, pair)
    <3>1. t[1] # Zero
      <4>1. 1 \in DOMAIN t
        BY <2>1
      <4>2. t[1] \in [ip : IPs, pbid : PBIDs]
        BY <2>1, <4>1, ElementOf
      <4>3. t[1].ip # NoIP
        BY <4>2, OneNodeAssumption
      <4> QED
        BY <4>3 DEF Zero, Pair
    <3>2. PlaceOf(o, t) = 0
      BY PlaceFound
    <3> QED
      BY <3>1, <3>2 DEF pbidInsertPair
  <2> HIDE DEF pair, new
  <2>3. /\ new \in Seq([ip : IPs, pbid : PBIDs]) /\ new # <<>>
        /\ DOMAIN new = 1 .. Len(t) + 1 /\ new[Len(t) + 1] = pair
        /\ \A i \in DOMAIN t : i \in DOMAIN new /\ new[i] = t[i]
        /\ \A i \in DOMAIN new : i \in DOMAIN t \/ i = Len(t) + 1
    BY <1>0, <2>1, <2>2
  <2>4. IsPbidTable(new)
    <3> SUFFICES ASSUME NEW i \in DOMAIN new, NEW j \in DOMAIN new, new[i].ip = new[j].ip
                 PROVE  i = j
      BY <2>3 DEF IsPbidTable
    <3> QED
      BY <1>0, <2>1, <2>3
  <2>5. PbidOf(o, new) = p
    <3>1. Len(t) + 1 \in DOMAIN new
      BY <2>1, <2>3
    <3> QED
      BY <1>0, <2>3, <2>4, <3>1, PbidFound
  <2>6. ASSUME NEW q \in IPs \ {o} PROVE PbidOf(q, new) = PbidOf(q, t)
    <3>1. CASE \E j \in DOMAIN t : t[j].ip = q
      BY <2>3, <2>4, <3>1, PbidFound
    <3>2. CASE \A j \in DOMAIN t : t[j].ip # q
      <4>1. \A i \in DOMAIN new : new[i].ip # q
        BY <1>0, <2>3, <2>6, <3>2
      <4> QED
        BY <2>4, <3>2, <4>1, PbidFound
    <3> QED
      BY <3>1, <3>2
  <2> QED
    BY <2>4, <2>5, <2>6 DEF new
<1> QED
  BY <1>1, <1>2

-----------------------------------------------------------------------------
(* The promise of Relaying *)

Latest == [o \in IPs |-> PbidOf(o, PBID_IP_TA)]
Asked  == ToSet(OutsidePending)

PromiseInv == ListInv /\ IsPbidTable(PBID_IP_TA)

LEMMA EmptyTable ==
  /\ IsPbidTable(pbidInitializeTable)
  /\ \A o \in IPs : PbidOf(o, pbidInitializeTable) = NoPair
<1>1. IsPbidTable(pbidInitializeTable)
  BY DEF IsPbidTable, pbidInitializeTable
<1>2. \A o \in IPs : \A i \in DOMAIN pbidInitializeTable : pbidInitializeTable[i].ip # o
  BY OneNodeAssumption DEF pbidInitializeTable, Zero, Pair
<1> QED
  BY <1>1, <1>2, PbidFound

(* The promise, in the terms of OneNode. *)
PromisedTA(o, p) ==
  /\ Latest[o] # NoPair => Latest[o] < p
  /\ Latest' = [Latest EXCEPT ![o] = p]
  /\ relayed' = [type |-> "TA", originator |-> o, pbid |-> p]
  /\ UNCHANGED <<prevTable, Asked>>

PromisedTable ==
  /\ prevTable' # prevTable
  /\ Latest' = [o \in IPs |-> NoPair]
  /\ UNCHANGED <<Asked, relayed>>

PromisedAsk(o) ==
  Asked' = Asked \cup {o} /\ UNCHANGED <<Latest, prevTable, relayed>>

PromisedNEA(o) ==
  /\ o \in Asked /\ Asked' = Asked \ {o}
  /\ relayed' = [type |-> "NEA", outsider |-> o]
  /\ UNCHANGED <<Latest, prevTable>>

Promised ==
  \/ PromisedTable
  \/ \E o \in IPs, p \in PBIDs : PromisedTA(o, p)
  \/ \E o \in IPs : PromisedAsk(o) \/ PromisedNEA(o)
  \/ UNCHANGED <<Latest, prevTable, Asked, relayed>>

LEMMA TARelayed ==
  ASSUME PromiseInv, NEW f \in Frame, TA_RX_Relay(f)
  PROVE  IsPbidTable(PBID_IP_TA)' /\ \E o \in IPs, p \in PBIDs : PromisedTA(o, p)
<1> DEFINE o == f.originator
           p == f.pbid
           rest == pbidRemovePair(o, PBID_IP_TA)
<1>1. /\ o \in IPs /\ p \in PBIDs
      /\ f = [type |-> "TA", originator |-> o, pbid |-> p]
  BY DEF TA_RX_Relay, Heard, Frame
<1>2. IsPbidTable(PBID_IP_TA)
  BY DEF PromiseInv
<1>3. PBID_IP_TA' = pbidInsertPair(o, p, rest)
  BY DEF TA_RX_Relay
<1>4. Latest[o] # NoPair => Latest[o] < p
  BY <1>1 DEF TA_RX_Relay, Latest, PbidOf
<1>5. /\ relayed' = f /\ prevTable' = prevTable /\ OutsidePending' = OutsidePending
  BY DEF TA_RX_Relay, lists
<1> HIDE DEF o, p, rest
<1>6. /\ IsPbidTable(rest)
      /\ \A i \in DOMAIN rest : rest[i].ip # o
      /\ \A q \in IPs \ {o} : PbidOf(q, rest) = PbidOf(q, PBID_IP_TA)
  BY <1>1, <1>2, PairRemoved DEF rest
<1>7. /\ IsPbidTable(PBID_IP_TA') /\ PbidOf(o, PBID_IP_TA') = p
      /\ \A q \in IPs \ {o} : PbidOf(q, PBID_IP_TA') = PbidOf(q, rest)
  BY <1>1, <1>3, <1>6, PairInserted
<1>8. Latest' = [Latest EXCEPT ![o] = p]
  BY <1>1, <1>6, <1>7 DEF Latest
<1>9. PromisedTA(o, p)
  BY <1>1, <1>4, <1>5, <1>8 DEF PromisedTA, Asked
<1> QED
  BY <1>1, <1>7, <1>9

LEMMA ReceivePromised ==
  ASSUME RtTyped, PromiseInv, NEW f \in scene.frames, Receive(f)
  PROVE  IsPbidTable(PBID_IP_TA)' /\ Promised
<1> USE DEF Promised
<1>0. f \in Frame
  BY FramesTyped DEF RtTyped
<1>1. IsPbidTable(PBID_IP_TA) /\ ListsTyped /\ ListsAgree
  BY DEF PromiseInv, ListInv
<1>2. CASE UNCHANGED <<PBID_IP_TA, prevTable, OutsidePending, relayed>>
  BY <1>1, <1>2 DEF Latest, Asked
<1>3. CASE PB_RX_Asks(f) \/ PB_RX_TimesOut(f) \/ PC_RX(f) \/ NEP_RX(f) \/ NEA_RX_Proxy(f)
  <2>1. UNCHANGED <<PBID_IP_TA, prevTable, OutsidePending, relayed>>
    BY <1>3 DEF PB_RX_Asks, PB_RX_TimesOut, PC_RX, NEP_RX, NEA_RX_Proxy, lists
  <2> QED
    BY <1>2, <2>1
<1>4. CASE NE_RX_Master(f) \/ NE_RX_Proxy(f) \/ TA_RX_Master(f) \/ TB_RX_Evicted(f)
  <2>1. UNCHANGED <<PBID_IP_TA, prevTable, OutsidePending, relayed>>
    BY <1>4 DEF NE_RX_Master, NE_RX_Proxy, TA_RX_Master, TB_RX_Evicted, lists
  <2> QED
    BY <1>2, <2>1
<1>5. CASE TB_RX_Listed(f)
  <2>1. /\ prevTable' = f.table /\ relayed' = relayed /\ OutsidePending' = OutsidePending
        /\ PBID_IP_TA' = IF prevTable = f.table THEN PBID_IP_TA ELSE pbidInitializeTable
    BY <1>5 DEF TB_RX_Listed, lists, emptyTable
  <2>2. CASE prevTable = f.table
    BY <1>2, <2>1, <2>2
  <2>3. CASE prevTable # f.table
    <3>1. IsPbidTable(PBID_IP_TA') /\ \A o \in IPs : PbidOf(o, PBID_IP_TA') = NoPair
      BY <2>1, <2>3, EmptyTable
    <3>2. Latest' = [o \in IPs |-> NoPair]
      BY <3>1 DEF Latest
    <3>3. PromisedTable
      BY <2>1, <2>3, <3>2 DEF PromisedTable, Asked
    <3> QED
      BY <3>1, <3>3
  <2> QED
    BY <2>2, <2>3
<1>6. CASE TA_RX_Relay(f)
  BY <1>0, <1>6, TARelayed
<1>7. CASE NER_RX(f) \/ SD_RX(f)
  <2>1. PICK ip \in IPs : insertPending(ip)
    BY <1>0, <1>7 DEF NER_RX, SD_RX, Heard, Frame
  <2>2. PBID_IP_TA' = PBID_IP_TA /\ prevTable' = prevTable /\ relayed' = relayed
    BY <1>7 DEF NER_RX, SD_RX
  <2>3. Asked' = Asked \cup {ip}
    BY <1>1, <2>1, InsertOne DEF insertPending, Asked, ListsTyped, ListsAgree
  <2>4. PromisedAsk(ip)
    BY <2>2, <2>3 DEF PromisedAsk, Latest
  <2> QED
    BY <1>1, <2>2, <2>4
<1>8. CASE NEA_RX_Relay(f)
  <2>1. f.outsider \in IPs /\ f = [type |-> "NEA", outsider |-> f.outsider]
    BY <1>0, <1>8 DEF NEA_RX_Relay, Heard, Frame
  <2>2. /\ PBID_IP_TA' = PBID_IP_TA /\ prevTable' = prevTable /\ relayed' = f
        /\ OutsidePending' = removeIPList(OutsidePending, f.outsider)
    BY <1>8 DEF NEA_RX_Relay
  <2>3. f.outsider \in Asked
    BY <1>1, <1>8, InListOf DEF NEA_RX_Relay, Asked, ListsTyped
  <2>4. Asked' = Asked \ {f.outsider}
    BY <1>1, <2>2, <2>3, RemoveOne DEF Asked, ListsTyped, ListsAgree
  <2>5. PromisedNEA(f.outsider)
    BY <2>1, <2>2, <2>3, <2>4 DEF PromisedNEA, Latest
  <2> QED
    BY <1>1, <2>1, <2>2, <2>5
<1> QED
  BY <1>3, <1>4, <1>5, <1>6, <1>7, <1>8, Receive(f) DEF Receive

LEMMA StepPromised ==
  ASSUME IInv, PromiseInv, [Next]_vars
  PROVE  PromiseInv' /\ Promised
<1>1. ListInv'
  BY StepLists DEF PromiseInv
<1>2. CASE \E f \in scene.frames : Receive(f)
  BY <1>1, <1>2, ReceivePromised DEF IInv, PromiseInv
<1>3. CASE Retransmit \/ Tick \/ UNCHANGED vars
  <2>1. UNCHANGED <<PBID_IP_TA, prevTable, OutsidePending, relayed>>
    BY <1>3 DEF Retransmit, Tick, vars, lists
  <2> QED
    BY <1>1, <2>1 DEF PromiseInv, Promised, Latest, Asked
<1> QED
  BY <1>2, <1>3 DEF Next

LEMMA PromiseBegins == Init => PromiseInv /\ RelayPromise!Init
<1> SUFFICES ASSUME Init PROVE PromiseInv /\ RelayPromise!Init
  OBVIOUS
<1>1. ListInv
  BY ListsBegin
<1>2. PBID_IP_TA = pbidInitializeTable /\ OutsidePending = <<>>
      /\ prevTable = NoTable /\ relayed = [type |-> "none"]
  BY DEF Init, Nothing
<1>3. Latest = [o \in IPs |-> NoPair]
  BY <1>2, EmptyTable DEF Latest
<1>4. ToSet(OutsidePending) = {}
  BY <1>2 DEF ToSet
<1>5. RelayPromise!Init
  BY <1>2, <1>3, <1>4 DEF RelayPromise!Init, RelayPromise!Nothing, Latest, PbidOf
<1> QED
  BY <1>1, <1>2, <1>5, EmptyTable DEF PromiseInv

(* OneNode keeps the promise of Relaying: through list.c and pbid_table.c, *)
(* a TA goes on only when it is newer than every TA of its originator sent *)
(* on since the time table changed, an NEA only for an outsider asked for  *)
(* since the last one (TA_RX, TB_RX, NEA_RX, insertPending).               *)
THEOREM RelaysAsPromised == Spec => RelayingSpec
<1>1. IInv /\ PromiseInv /\ [Next]_vars => PromiseInv'
  BY StepPromised
<1>2. IInv /\ PromiseInv /\ [Next]_vars => [RelayPromise!Next]_(RelayPromise!vars)
  <2> SUFFICES ASSUME IInv, PromiseInv, [Next]_vars
               PROVE  [RelayPromise!Next]_(RelayPromise!vars)
    OBVIOUS
  <2>1. Promised
    BY StepPromised
  <2> QED
    BY <2>1
    DEF Promised, PromisedTA, PromisedTable, PromisedAsk, PromisedNEA, Latest, Asked, PbidOf,
        RelayPromise!Next, RelayPromise!RelayTA, RelayPromise!NewTable, RelayPromise!Ask,
        RelayPromise!RelayNEA, RelayPromise!RelayedTA, RelayPromise!RelayedNEA,
        RelayPromise!vars
<1> QED
  BY <1>1, <1>2, PromiseBegins, Holds, PTL DEF Spec, RelayingSpec, RelayPromise!Spec

-----------------------------------------------------------------------------
(* Types: the bounds on times and counts *)

LEMMA SmallMod ==
  ASSUME NEW m \in Nat \ {0}, NEW x \in 0 .. m - 1
  PROVE  x % m = x
OBVIOUS

InBounds(k, r) ==
  /\ \E d \in Delays[k] : r.due <= d
  /\ r.amm \in 0 .. AmmMod - 1
  /\ k = "NE" => r.amm <= NEAttempts

(* An NE at its last attempt is given up before the next. *)
Bounded ==
  /\ \A k \in Kinds : InBounds(k, rt[k])
  /\ On("NE") /\ thread.at # "givingUp" => rt["NE"].amm < NEAttempts

(* The master, which is never outside, sends no NE. *)
StatusTyped ==
  /\ status \in IF IsMaster THEN {"NA"} ELSE {"Outside", "Waiting", "Inside"}
  /\ IsMaster => ~On("NE") /\ thread.at = "asleep"
  /\ waited \in {NotWaiting} \cup 0 .. WaitTimeOut + 1
  /\ prevTable \in Tables \cup {NoTable}
  /\ tbBits \subseteq IPs

TypeInv == Bounded /\ StatusTyped

LEMMA OffInBounds ==
  ASSUME NEW k \in Kinds, NEW msg, NEW amm \in 0 .. AmmMod - 1,
         k = "NE" => amm <= NEAttempts
  PROVE  InBounds(k, [msg |-> msg, due |-> 0, amm |-> amm])
<1>1. \E d \in Delays[k] : 0 <= d
  BY DelaysAssumption
<1> QED
  BY <1>1 DEF InBounds

LEMMA HandledBounded ==
  ASSUME RtTyped, Bounded, Handled, UNCHANGED thread
  PROVE  Bounded'
<1>0. Kinds = {"PB", "TB", "PR", "NE", "NER"}
  BY DEF Kinds
<1>a. /\ AmmMod \in Nat /\ NEAttempts \in Nat /\ 0 < NEAttempts /\ NEAttempts < AmmMod
  BY DelaysAssumption
<1>b. ASSUME NEW k \in Kinds, NEW d \in Delays[k], NEW msg
      PROVE  InBounds(k, [msg |-> msg, due |-> d, amm |-> 0])
  <2>1. d \in Nat
    BY DelaysAssumption
  <2> QED
    BY <1>a, <2>1 DEF InBounds
<1>c. ASSUME NEW k \in Kinds, NEW msg
      PROVE  InBounds(k, [msg |-> msg, due |-> 0, amm |-> rt[k].amm])
  BY OffInBounds DEF Bounded, InBounds
<1>1. CASE UNCHANGED rt
  BY <1>1 DEF Bounded, On
<1>2. CASE \E k \in {"PB", "NE", "NER"} : Started(k)
  <2>0. PICK k \in {"PB", "NE", "NER"} : Started(k)
    BY <1>2
  <2>1. PICK msg \in Msgs, d \in Delays[k] :
          rt' = [rt EXCEPT ![k] = [msg |-> msg, due |-> d, amm |-> 0]]
    BY <2>0 DEF Started, startRetransmission
  <2>2. rt'[k] = [msg |-> msg, due |-> d, amm |-> 0] /\ \A j \in Kinds \ {k} : rt'[j] = rt[j]
    BY <1>0, <2>1 DEF RtTyped
  <2>3. \A j \in Kinds : InBounds(j, rt'[j])
    BY <1>0, <1>b, <2>2 DEF Bounded
  <2>4. k = "NE" => rt'["NE"].amm = 0
    BY <2>2
  <2>5. k # "NE" => rt'["NE"] = rt["NE"]
    BY <1>0, <2>2
  <2> QED
    BY <1>a, <2>3, <2>4, <2>5 DEF Bounded, On
<1>3. CASE \E k \in Kinds : stopRetransmission(k)
  <2>1. PICK k \in Kinds : rt' = [rt EXCEPT ![k] = [msg |-> NoMsg, due |-> 0, amm |-> @.amm]]
    BY <1>3 DEF stopRetransmission, Stopped
  <2>2. /\ rt'[k] = [msg |-> NoMsg, due |-> 0, amm |-> rt[k].amm]
        /\ \A j \in Kinds \ {k} : rt'[j] = rt[j]
    BY <2>1 DEF RtTyped
  <2>3. \A j \in Kinds : InBounds(j, rt'[j])
    BY <1>c, <2>2 DEF Bounded
  <2> QED
    BY <1>0, <2>2, <2>3 DEF Bounded, On
<1>4. CASE \E d \in Delays["PB"] :
             rt' = [Stopped(rt, "PR") EXCEPT !["PB"] = [msg |-> "PB", due |-> d, amm |-> 0]]
  <2>1. PICK d \in Delays["PB"] :
          rt' = [Stopped(rt, "PR") EXCEPT !["PB"] = [msg |-> "PB", due |-> d, amm |-> 0]]
    BY <1>4
  <2>2. /\ rt'["PB"] = [msg |-> "PB", due |-> d, amm |-> 0]
        /\ rt'["PR"] = [msg |-> NoMsg, due |-> 0, amm |-> rt["PR"].amm]
        /\ \A j \in Kinds \ {"PB", "PR"} : rt'[j] = rt[j]
    BY <1>0, <2>1 DEF RtTyped, Stopped
  <2>3. \A j \in Kinds : InBounds(j, rt'[j])
    BY <1>0, <1>b, <1>c, <2>2 DEF Bounded
  <2> QED
    BY <1>0, <2>2, <2>3 DEF Bounded, On
<1>5. CASE rt' = [rt EXCEPT !["TB"] = [msg |-> "TB", due |-> IF On("TB") THEN @.due ELSE 0,
                                      amm |-> @.amm]]
  <2>1. /\ rt'["TB"] = [msg |-> "TB", due |-> IF On("TB") THEN rt["TB"].due ELSE 0,
                        amm |-> rt["TB"].amm]
        /\ \A j \in Kinds \ {"TB"} : rt'[j] = rt[j]
    BY <1>0, <1>5 DEF RtTyped
  <2>2. InBounds("TB", rt'["TB"])
    <3>1. CASE On("TB")
      BY <1>0, <2>1, <3>1 DEF Bounded, InBounds
    <3>2. CASE ~On("TB")
      BY <1>0, <1>c, <2>1, <3>2
    <3> QED
      BY <3>1, <3>2
  <2> QED
    BY <1>0, <2>1, <2>2 DEF Bounded, On
<1> QED
  BY <1>1, <1>2, <1>3, <1>4, <1>5 DEF Handled

(* What is sent is next due within the longest delay, and counted. *)
LEMMA SendOverdueBounded ==
  ASSUME RtTyped, Bounded, NEW kinds \in SUBSET Kinds, SendOverdue(kinds)
  PROVE  \A k \in Kinds :
           /\ ~(k \in kinds /\ Overdue(k)) => rt'[k] = rt[k]
           /\ k \in kinds /\ Overdue(k) =>
                /\ \E d \in Delays[k] : rt'[k].due <= d
                /\ rt'[k].msg = rt[k].msg
                /\ rt'[k].amm = IF k \in Counted THEN (rt[k].amm + 1) % AmmMod ELSE rt[k].amm
<1>1. PICK d \in [{k \in kinds : Overdue(k)} -> UNION {Delays[k] : k \in Kinds}] :
        /\ \A k \in DOMAIN d : d[k] \in Delays[k]
        /\ rt' = [k \in Kinds |-> IF k \in DOMAIN d THEN Sent(k, d[k]) ELSE rt[k]]
  BY DEF SendOverdue
<1>2. DOMAIN d = {k \in kinds : Overdue(k)}
  BY <1>1
<1>3. ASSUME NEW k \in Kinds, k \in kinds, Overdue(k)
      PROVE  /\ \E e \in Delays[k] : rt'[k].due <= e
             /\ rt'[k].msg = rt[k].msg
             /\ rt'[k].amm = IF k \in Counted THEN (rt[k].amm + 1) % AmmMod ELSE rt[k].amm
  <2>1. rt'[k] = Sent(k, d[k]) /\ d[k] \in Delays[k]
    BY <1>1, <1>2, <1>3
  <2>2. d[k] \in Nat /\ rt[k].due \in Int /\ rt[k].due < 0
    BY <1>3, <2>1, DelaysAssumption DEF RtTyped, Overdue
  <2> QED
    BY <2>1, <2>2 DEF Sent
<1> QED
  BY <1>1, <1>2, <1>3

LEMMA PassBounded ==
  ASSUME RtTyped, Bounded, thread.at # "givingUp", NEW kinds \in SUBSET Kinds,
         SendOverdue(kinds),
         GivesUp /\ "NE" \in kinds => thread'.at = "givingUp"
  PROVE  Bounded'
<1>0. "NE" \in Kinds /\ AmmMod \in Nat \ {0} /\ NEAttempts \in Nat /\ NEAttempts < AmmMod
  BY DelaysAssumption DEF Kinds
<1>1. ASSUME NEW k \in Kinds, k \in kinds, Overdue(k)
      PROVE  /\ InBounds(k, rt'[k])
             /\ k = "NE" /\ thread'.at # "givingUp" => rt'[k].amm < NEAttempts
  <2>1. rt[k].amm \in 0 .. AmmMod - 1
    BY DEF Bounded, InBounds
  <2>2. (rt[k].amm + 1) % AmmMod \in 0 .. AmmMod - 1
    BY <1>0, <2>1
  <2>3. /\ \E d \in Delays[k] : rt'[k].due <= d
        /\ rt'[k].amm = IF k \in Counted THEN (rt[k].amm + 1) % AmmMod ELSE rt[k].amm
    BY <1>1, SendOverdueBounded
  <2>4. CASE k = "NE"
    <3>1. rt[k].amm < NEAttempts
      BY <1>1, <2>4 DEF Bounded, Overdue
    <3>2. (rt[k].amm + 1) % AmmMod = rt[k].amm + 1
      <4>1. rt[k].amm + 1 \in 0 .. AmmMod - 1
        BY <1>0, <2>1, <3>1
      <4> QED
        BY <1>0, <4>1, SmallMod
    <3>3. rt'[k].amm = rt[k].amm + 1
      BY <2>3, <2>4, <3>2 DEF Counted
    <3>4. thread'.at # "givingUp" => rt[k].amm + 1 # NEAttempts
      BY <1>1, <2>4, <3>2 DEF GivesUp
    <3> QED
      BY <1>0, <2>1, <2>3, <3>1, <3>3, <3>4 DEF InBounds
  <2>5. CASE k # "NE"
    BY <2>1, <2>2, <2>3, <2>5 DEF InBounds
  <2> QED
    BY <2>4, <2>5
<1>2. ASSUME NEW k \in Kinds, ~(k \in kinds /\ Overdue(k)) PROVE rt'[k] = rt[k]
  BY <1>2, SendOverdueBounded
<1>3. \A k \in Kinds : InBounds(k, rt'[k])
  BY <1>1, <1>2 DEF Bounded
<1>4. On("NE")' /\ thread'.at # "givingUp" => rt'["NE"].amm < NEAttempts
  BY <1>0, <1>1, <1>2 DEF Bounded, On
<1> QED
  BY <1>3, <1>4 DEF Bounded

LEMMA RetransmitBounded ==
  ASSUME RtTyped, Bounded, Retransmit
  PROVE  Bounded'
<1>0. "NE" \in Kinds /\ "NE" \notin {"NER"}
  BY DEF Kinds
<1>1. CASE Pass
  <2>1. SendOverdue(Kinds) /\ ~GivesUp /\ thread.at # "givingUp"
    BY <1>1 DEF Pass
  <2> QED
    BY <2>1, PassBounded
<1>2. CASE Pass_GiveUp
  <2>1. SendOverdue(Kinds \ {"NER"}) /\ thread'.at = "givingUp" /\ thread.at # "givingUp"
    BY <1>2 DEF Pass_GiveUp, NapUntilEarliest
  <2> QED
    BY <2>1, PassBounded
<1>3. CASE GiveUp_Stop
  <2>1. /\ rt'["NE"] = [msg |-> NoMsg, due |-> 0, amm |-> rt["NE"].amm]
        /\ \A j \in Kinds \ {"NE"} : rt'[j] = rt[j]
    BY <1>0, <1>3 DEF GiveUp_Stop, stopRetransmission, Stopped, RtTyped
  <2>2. InBounds("NE", rt'["NE"])
    BY <1>0, <2>1, OffInBounds DEF Bounded, InBounds
  <2> QED
    BY <2>1, <2>2 DEF Bounded, On
<1>4. CASE GiveUp_Status
  <2>1. rt' = rt /\ thread.at = "stopped"
    BY <1>4 DEF GiveUp_Status
  <2> QED
    BY <2>1 DEF Bounded, On
<1>5. CASE Pass_Rest
  <2>1. SendOverdue({"NER"}) /\ {"NER"} \in SUBSET Kinds /\ thread.at # "givingUp"
    BY <1>5 DEF Pass_Rest, Kinds
  <2> QED
    BY <1>0, <2>1, PassBounded
<1> QED
  BY <1>1, <1>2, <1>3, <1>4, <1>5 DEF Retransmit

LEMMA TickBounded ==
  ASSUME RtTyped, Bounded, Tick
  PROVE  Bounded'
<1>1. ASSUME NEW k \in Kinds
      PROVE  /\ rt'[k].msg = rt[k].msg /\ rt'[k].amm = rt[k].amm
             /\ InBounds(k, rt'[k])
  <2>1. rt[k] \in [msg : Msgs, due : Int, amm : Int]
    BY DEF RtTyped
  <2>2. rt'[k] = [rt[k] EXCEPT !.due = IF On(k) THEN @ - 1 ELSE @]
    BY DEF Tick, TickRetransmission
  <2>3. /\ rt'[k].msg = rt[k].msg /\ rt'[k].amm = rt[k].amm
        /\ rt'[k].due \in Int /\ rt'[k].due <= rt[k].due /\ rt[k].due \in Int
    BY <2>1, <2>2
  <2>4. PICK d \in Delays[k] : rt[k].due <= d
    BY DEF Bounded, InBounds
  <2>5. rt'[k].due <= d
    BY <2>3, <2>4, DelaysAssumption
  <2> QED
    BY <2>3, <2>5 DEF Bounded, InBounds
<1>2. "NE" \in Kinds /\ thread.at # "givingUp"
  BY DEF Kinds, Tick, TickRetransmission
<1> QED
  BY <1>1, <1>2 DEF Bounded, On

(* Only an outsider starts an NE. *)
LEMMA ReceiveStartsNoNE ==
  ASSUME RtTyped, NEW f \in scene.frames, Receive(f), ~PB_RX_Asks(f), ~On("NE")
  PROVE  ~On("NE")'
<1>0. Kinds = {"PB", "TB", "PR", "NE", "NER"}
  BY DEF Kinds
<1>1. CASE PB_RX_TimesOut(f) \/ NEA_RX_Relay(f) \/ TB_RX_Evicted(f) \/ TB_RX_Listed(f)
             \/ TA_RX_Relay(f) \/ SD_RX(f)
  BY <1>1
  DEF PB_RX_TimesOut, NEA_RX_Relay, TB_RX_Evicted, TB_RX_Listed, TA_RX_Relay, SD_RX,
      retransmission, On
<1>2. CASE PC_RX(f)
  BY <1>0, <1>2 DEF PC_RX, Stopped, RtTyped, On
<1>3. CASE NE_RX_Master(f) \/ NER_RX(f)
  BY <1>0, <1>3 DEF NE_RX_Master, NER_RX, beginTBTransmission, RtTyped, On
<1>4. CASE NE_RX_Proxy(f)
  BY <1>0, <1>4 DEF NE_RX_Proxy, startRetransmission, RtTyped, On
<1>5. CASE NEP_RX(f) \/ NEA_RX_Proxy(f) \/ TA_RX_Master(f)
  BY <1>0, <1>5
  DEF NEP_RX, NEA_RX_Proxy, TA_RX_Master, stopRetransmission, Stopped, RtTyped, On
<1> QED
  BY <1>1, <1>2, <1>3, <1>4, <1>5, Receive(f) DEF Receive

LEMMA ReceiveStatus ==
  ASSUME RtTyped, ListInv, StatusTyped, NEW f \in scene.frames, Receive(f)
  PROVE  StatusTyped'
<1>0. f \in Frame /\ thread' = thread /\ IsMaster' = IsMaster
  BY FramesTyped, ReceiveHandles DEF RtTyped, IsMaster
<1>1. waited' \in {NotWaiting} \cup 0 .. WaitTimeOut + 1
  <2>1. WaitTimeOut \in Nat /\ waited \in {NotWaiting} \cup 0 .. WaitTimeOut + 1
    BY OneNodeAssumption DEF StatusTyped
  <2>2. waited' \in {waited, 0, NotWaiting}
    BY Receive(f)
    DEF Receive, PB_RX_Asks, PB_RX_TimesOut, PC_RX, NE_RX_Master, NE_RX_Proxy, NEP_RX, NER_RX,
        NEA_RX_Proxy, NEA_RX_Relay, TB_RX_Evicted, TB_RX_Listed, TA_RX_Master, TA_RX_Relay,
        SD_RX, entry
  <2> QED
    BY <2>1, <2>2
<1>2. prevTable' \in Tables \cup {NoTable}
  <2>1. CASE TB_RX_Listed(f)
    BY <1>0, <2>1 DEF TB_RX_Listed, Heard, Frame
  <2>2. CASE ~TB_RX_Listed(f)
    <3>1. prevTable' = prevTable
      BY <2>2, Receive(f)
      DEF Receive, PB_RX_Asks, PB_RX_TimesOut, PC_RX, NE_RX_Master, NE_RX_Proxy, NEP_RX, NER_RX,
          NEA_RX_Proxy, NEA_RX_Relay, TB_RX_Evicted, TA_RX_Master, TA_RX_Relay, SD_RX
    <3> QED
      BY <3>1 DEF StatusTyped
  <2> QED
    BY <2>1, <2>2
<1>3. tbBits' \subseteq IPs
  <2>1. SubSlaves' \in Seq(IPs)
    BY ReceiveLists DEF ListInv, ListsTyped
  <2>2. ToSet(SubSlaves') \subseteq IPs
    BY <2>1, ElementOf DEF ToSet
  <2>3. tbBits' = ToSet(SubSlaves') \/ tbBits' \subseteq tbBits
    BY Receive(f)
    DEF Receive, PB_RX_Asks, PB_RX_TimesOut, PC_RX, NE_RX_Master, NE_RX_Proxy, NEP_RX, NER_RX,
        NEA_RX_Proxy, NEA_RX_Relay, TB_RX_Evicted, TB_RX_Listed, TA_RX_Master, TA_RX_Relay,
        SD_RX, beginTBTransmission
  <2> QED
    BY <2>2, <2>3 DEF StatusTyped
<1>4. CASE IsMaster
  <2>1. status = "NA" /\ ~On("NE") /\ thread.at = "asleep"
    BY <1>4 DEF StatusTyped
  <2>2. ~PB_RX_Asks(f) /\ ~PB_RX_TimesOut(f) /\ ~TB_RX_Evicted(f) /\ ~TB_RX_Listed(f)
    BY <1>4, <2>1 DEF PB_RX_Asks, PB_RX_TimesOut, TB_RX_Evicted, TB_RX_Listed
  <2>3. ~NEP_RX(f)
    BY <1>4, OneNodeAssumption DEF NEP_RX, Heard, RtTyped, IsMaster
  <2>4. status' = status
    BY <2>2, <2>3, Receive(f)
    DEF Receive, PC_RX, NE_RX_Master, NE_RX_Proxy, NER_RX, NEA_RX_Proxy, NEA_RX_Relay,
        TA_RX_Master, TA_RX_Relay, SD_RX, entry
  <2>5. ~On("NE")'
    BY <2>1, <2>2, ReceiveStartsNoNE
  <2> QED
    BY <1>0, <1>1, <1>2, <1>3, <1>4, <2>1, <2>4, <2>5 DEF StatusTyped
<1>5. CASE ~IsMaster
  <2>1. status' \in {status, "Outside", "Waiting", "Inside"}
    BY Receive(f)
    DEF Receive, PB_RX_Asks, PB_RX_TimesOut, PC_RX, NE_RX_Master, NE_RX_Proxy, NEP_RX, NER_RX,
        NEA_RX_Proxy, NEA_RX_Relay, TB_RX_Evicted, TB_RX_Listed, TA_RX_Master, TA_RX_Relay,
        SD_RX, entry
  <2> QED
    BY <1>0, <1>1, <1>2, <1>3, <1>5, <2>1 DEF StatusTyped
<1> QED
  BY <1>4, <1>5

LEMMA ThreadStatus ==
  ASSUME RtTyped, TimesKept, StatusTyped, Retransmit \/ Tick
  PROVE  StatusTyped'
<1>0. prevTable' = prevTable /\ tbBits' = tbBits /\ IsMaster' = IsMaster
  BY DEF Retransmit, Tick, IsMaster
<1>1. waited' \in {NotWaiting} \cup 0 .. WaitTimeOut + 1
  <2>1. WaitTimeOut \in Nat /\ waited \in {NotWaiting} \cup 0 .. WaitTimeOut + 1
    BY OneNodeAssumption DEF StatusTyped
  <2>2. \/ waited' = waited
        \/ waited # NotWaiting /\ ~(waited > WaitTimeOut) /\ waited' = waited + 1
    BY DEF Retransmit, Tick
  <2> QED
    BY <2>1, <2>2
<1>2. "NE" \in Kinds
  BY DEF Kinds
<1>3. rt'["NE"].msg \in {rt["NE"].msg, NoMsg}
  BY <1>2, ThreadKeepsMsgs
<1>4. CASE IsMaster
  <2>1. status = "NA" /\ ~On("NE") /\ thread.at = "asleep"
    BY <1>4 DEF StatusTyped
  <2>2. ~GivesUp
    BY <2>1 DEF GivesUp, Overdue
  <2>3. Pass \/ Tick
    BY <2>1, <2>2 DEF Retransmit, Pass_GiveUp, GiveUp_Stop, GiveUp_Status, Pass_Rest
  <2>4. thread'.at = "asleep"
    BY <2>1, <2>3 DEF Pass, NapUntilEarliest, Tick, TickRetransmission, RtTyped
  <2>5. status' = status
    BY <2>1, <2>3 DEF Retransmit, Tick, GiveUp_Status
  <2> QED
    BY <1>0, <1>1, <1>3, <1>4, <2>1, <2>4, <2>5 DEF StatusTyped, On
<1>5. CASE ~IsMaster
  <2>1. status' \in {status, "Outside"}
    BY DEF Retransmit, Tick
  <2> QED
    BY <1>0, <1>1, <1>5, <2>1 DEF StatusTyped
<1> QED
  BY <1>4, <1>5

LEMMA StepTyped ==
  ASSUME IInv, ListInv, TypeInv, [Next]_vars
  PROVE  TypeInv'
<1>1. CASE \E f \in scene.frames : Receive(f)
  BY <1>1, ReceiveStatus, ReceiveHandles, HandledBounded DEF IInv, TypeInv
<1>2. CASE Retransmit
  BY <1>2, RetransmitBounded, ThreadStatus DEF IInv, TypeInv
<1>3. CASE Tick
  BY <1>3, TickBounded, ThreadStatus DEF IInv, TypeInv
<1>4. CASE UNCHANGED vars
  BY <1>4
  DEF vars, entry, retransmission, TypeInv, Bounded, StatusTyped, On, IsMaster
<1> QED
  BY <1>1, <1>2, <1>3, <1>4 DEF Next

LEMMA TypesBegin == Init => TypeInv
<1> SUFFICES ASSUME Init PROVE TypeInv
  OBVIOUS
<1>1. \A k \in Kinds : rt[k] = [msg |-> NoMsg, due |-> 0, amm |-> 0]
  BY DEF Init, InitRetransmission, NoRetransmission
<1>2. 0 \in 0 .. AmmMod - 1 /\ 0 < NEAttempts /\ NEAttempts \in Nat
  BY DelaysAssumption
<1>3. \A k \in Kinds : InBounds(k, rt[k])
  BY <1>1, <1>2, OffInBounds
<1>4. ~On("NE") /\ thread.at = "asleep"
  BY <1>1 DEF Init, InitRetransmission, On, Kinds
<1>5. StatusTyped
  BY <1>4, OneNodeAssumption DEF Init, StatusTyped, IsMaster
<1> QED
  BY <1>2, <1>3, <1>4, <1>5 DEF TypeInv, Bounded

(* The types, and with them the bounds of retransmission.c and PB_RX: a    *)
(* time is never further ahead than a delay of its kind, a count never     *)
(* above the attempts, a wait never counted beyond the time out, the       *)
(* bitmap of a TB never about a node that is not there.                    *)
THEOREM TypesHold == Spec => []TypeOK
<1>1. IInv /\ TypeInv => TypeOK
  <2> SUFFICES ASSUME IInv, TypeInv PROVE TypeOK
    OBVIOUS
  <2>1. /\ scene \in Scenes
        /\ thread.at \in {"asleep", "givingUp", "stopped", "outside"}
        /\ thread.nap \in Int /\ Late \in Nat /\ Check \in Nat
    BY DelaysAssumption DEF IInv, RtTyped
  <2>2. thread.nap \in -Late .. Check
    BY <2>1 DEF IInv, TimesKept
  <2> QED
    BY <2>1, <2>2 DEF TypeInv, Bounded, InBounds, StatusTyped, TypeOK
<1>2. IInv /\ ListInv /\ TypeInv /\ [Next]_vars => TypeInv'
  BY StepTyped
<1>3. IInv /\ ListInv /\ [Next]_vars => ListInv'
  BY StepLists
<1> QED
  BY <1>1, <1>2, <1>3, ListsBegin, TypesBegin, Holds, PTL DEF Spec

=============================================================================
