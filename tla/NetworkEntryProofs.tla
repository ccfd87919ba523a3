------------------------- MODULE NetworkEntryProofs -------------------------
(***************************************************************************)
(* What NetworkEntry keeps for every network, with proofs.                 *)
(***************************************************************************)
EXTENDS NetworkEntry, TLAPS

(* What ends up in the air is what was there before or is sent now. *)
LEMMA TransmitSubset ==
  ASSUME NEW rest, NEW frames, Transmit(rest, frames)
  PROVE  net' \subseteq rest \cup frames
BY DEF Transmit

(* The copies of a message are frames. *)
LEMMA FramesTyped ==
  ASSUME NEW n \in Nodes, NEW msg \in Message
  PROVE  Frames(n, msg) \subseteq Frame
BY NodesAssumption DEF Frames, Frame

(* The messages the handlers build are messages. *)
LEMMA BuiltMessages ==
  /\ \A n \in Slaves, h \in Nodes : NE(n, h) \in Message
  /\ \A n \in Nodes, o \in Slaves : NEP(n, o) \in Message
  /\ \A h \in Nodes, o \in Slaves : NER(h, o) \in Message
  /\ \A o \in Slaves : NEA(o) \in Message
  /\ \A o \in Slaves, p \in Pbids : TA(o, p) \in Message
  /\ \A o \in Slaves, h \in Nodes : SD(o, h) \in Message
  /\ TBs \subseteq Message
BY DEF NE, NEP, NER, NEA, TA, SD, Message, Nodes

(* What a handler may rely on in the message it was given. *)
LEMMA ReceivedTyped ==
  ASSUME TypeOK, NEW c
  PROVE  /\ Received(c, "NE") => c.msg.from \in Slaves
         /\ Received(c, "NEP") => c.msg.dest \in Slaves
         /\ Received(c, "NER") => c.msg.outsider \in Slaves
         /\ Received(c, "NEA") => c.msg.outsider \in Slaves
         /\ Received(c, "TA") => c.msg.originator \in Slaves /\ c.msg.pbid \in Pbids
                                   /\ c.msg \in Message
         /\ Received(c, "TB") => c.msg \in TBs
         /\ Received(c, "SD") => c.msg.source \in Slaves
         /\ c \in net => c.to \in Nodes
BY DEF TypeOK, Received, Frame, Message, TBs

(* The next PBID is a signed short. *)
LEMMA NextPbidTyped == \A p \in Pbids : NextPbid(p) \in Pbids
BY NumbersAssumption DEF Pbids, NextPbid

(* A SubSlave that is added keeps the list a list of slaves. *)
LEMMA InsertTyped ==
  ASSUME NEW list \in Seq(Slaves), NEW o \in Slaves
  PROVE  /\ Insert(list, o) \in Seq(Slaves)
         /\ Range(Insert(list, o)) = Range(list) \cup {o}
<1>1. CASE o \in Range(list)
  BY <1>1 DEF Insert
<1>2. CASE o \notin Range(list)
  <2>1. Insert(list, o) = <<o>> \o list
    BY <1>2 DEF Insert
  <2>2. <<o>> \o list \in Seq(Slaves)
    OBVIOUS
  <2>3. /\ Len(<<o>> \o list) = Len(list) + 1
        /\ (<<o>> \o list)[1] = o
        /\ \A i \in 1 .. Len(list) : (<<o>> \o list)[i + 1] = list[i]
    OBVIOUS
  <2>4. Range(<<o>> \o list) \subseteq Range(list) \cup {o}
    <3> SUFFICES ASSUME NEW i \in 1 .. Len(list) + 1
                 PROVE  (<<o>> \o list)[i] \in Range(list) \cup {o}
      BY <2>2, <2>3 DEF Range
    <3>1. CASE i = 1
      BY <3>1, <2>3
    <3>2. CASE i # 1
      <4>1. i - 1 \in 1 .. Len(list)
        BY <3>2
      <4>2. (<<o>> \o list)[i] = list[i - 1]
        BY <4>1, <2>3
      <4> QED BY <4>1, <4>2 DEF Range
    <3> QED BY <3>1, <3>2
  <2>5. Range(list) \cup {o} \subseteq Range(<<o>> \o list)
    <3>1. o \in Range(<<o>> \o list)
      BY <2>2, <2>3 DEF Range
    <3>2. ASSUME NEW i \in 1 .. Len(list)
          PROVE  list[i] \in Range(<<o>> \o list)
      <4>1. i + 1 \in 1 .. Len(<<o>> \o list)
        BY <2>3
      <4>2. (<<o>> \o list)[i + 1] \in Range(<<o>> \o list)
        <5> DEFINE t == <<o>> \o list
        <5>1. t \in Seq(Slaves) /\ i + 1 \in 1 .. Len(t)
          BY <2>2, <4>1
        <5> HIDE DEF t
        <5>2. t[i + 1] \in Range(t)
          BY <5>1 DEF Range
        <5> QED BY <5>2 DEF t
      <4> QED BY <4>2, <2>3
    <3> QED BY <3>1, <3>2 DEF Range
  <2> QED BY <2>1, <2>2, <2>4, <2>5
<1> QED BY <1>1, <1>2

(* A slot of a table is a position in it. *)
LEMMA SlotOfTable ==
  ASSUME NEW ips \in Seq(Nodes), NEW n \in Range(ips)
  PROVE  /\ SlotOf(ips, n) \in 0 .. Len(ips) - 1
         /\ ips[SlotOf(ips, n) + 1] = n
<1>1. PICK j \in 1 .. Len(ips) : ips[j] = n
  BY DEF Range
<1>2. /\ j - 1 \in 0 .. Len(ips) - 1
      /\ ips[(j - 1) + 1] = n
  BY <1>1
<1> QED BY <1>2 DEF SlotOf

-----------------------------------------------------------------------------
(* Type correctness *)

(* A slave that starts anew or crashes has the values it had at first. *)
LEMMA ResetTyped ==
  ASSUME TypeOK, NEW n \in Slaves, NEW st \in {"Outside", "Crashed"},
         Reset(n, st), net' \in SUBSET Frame
  PROVE  TypeOK'
<1>0. n \in Nodes
  BY DEF Nodes
<1>1. EntryTyped'
  BY <1>0 DEF TypeOK, Reset, EntryTyped
<1>2. ListsTyped'
  <2>1. <<>> \in Seq(Slaves)
    OBVIOUS
  <2> QED BY <1>0, <2>1 DEF TypeOK, Reset, ListsTyped
<1>3. RoutesTyped'
  BY <1>0 DEF TypeOK, Reset, RoutesTyped, RouteTable, NoRoute
<1>4. TablesTyped'
  <2>1. <<>> \in Seq(Nodes)
    OBVIOUS
  <2>2. 0 \in Pbids
    BY NumbersAssumption DEF Pbids
  <2>3. NoTA \in [Slaves -> {None} \cup Pbids]
    BY DEF NoTA
  <2> QED BY <1>0, <2>1, <2>2, <2>3 DEF TypeOK, Reset, TablesTyped
<1>5. SlotsTyped'
  BY <1>0, NumbersAssumption DEF TypeOK, Reset, SlotsTyped
<1>6. MasterTyped'
  BY DEF TypeOK, Reset, MasterTyped, masterVars
<1> QED BY <1>1, <1>2, <1>3, <1>4, <1>5, <1>6 DEF TypeOK

(* The table without the entries that expired is a routing table. *)
LEMMA WithoutTyped ==
  ASSUME NEW r \in RouteTable, NEW gone
  PROVE  Without(r, gone) \in RouteTable
BY DEF Without, RouteTable

(* The new TB and the time it puts in force at the master. *)
LEMMA GenerateTyped ==
  ASSUME TypeOK, NEW list \in Seq(Slaves), generateTB(list)
  PROVE  /\ rTB' \in TBs
         /\ tbGen' \in 0 .. MaxTB
         /\ SlotsTyped'
<1>1. tbGen + 1 \in 1 .. MaxTB
  BY NumbersAssumption DEF TypeOK, MasterTyped, generateTB, NewTB
<1>2. <<Master>> \o list \in Seq(Nodes)
  <2>1. <<Master>> \in Seq(Nodes) /\ list \in Seq(Nodes)
    BY DEF Nodes
  <2> QED BY <2>1
<1>3. Range(list) \in SUBSET Slaves
  BY DEF Range
<1>4. 0 \in Pbids
  BY NumbersAssumption DEF Pbids
<1>5. rTB' \in TBs
  BY <1>1, <1>2, <1>3, <1>4 DEF generateTB, NewTB, TB, TBs
<1>6. SlotsTyped'
  <2>1. tbGen + 1 \in 0 .. MaxTB
    BY <1>1
  <2>2. /\ localSlot' = [localSlot EXCEPT ![Master] = 0]
        /\ sync' = [sync EXCEPT ![Master] = tbGen + 1]
    BY DEF generateTB, NewTB
  <2>3. localSlot \in [Nodes -> Int] /\ sync \in [Nodes -> 0 .. MaxTB]
    BY DEF TypeOK, SlotsTyped
  <2>. Master \in Nodes
    BY DEF Nodes
  <2>4. localSlot' \in [Nodes -> Int]
    BY <2>2, <2>3
  <2>5. sync' \in [Nodes -> 0 .. MaxTB]
    BY <2>1, <2>2, <2>3
  <2> QED BY <2>4, <2>5 DEF SlotsTyped
<1> QED BY <1>1, <1>5, <1>6 DEF generateTB, NewTB

(* Answering a request for entry keeps the types of what the master holds. *)
LEMMA BeginTyped ==
  ASSUME TypeOK, NEW list \in Seq(Slaves), NEW rest \in SUBSET Frame,
         NEW answer \in SUBSET Frame, beginTBTransmission(list, rest, answer)
  PROVE  /\ MasterTyped'
         /\ SlotsTyped'
         /\ net' \in SUBSET Frame
<1>1. CASE TBUnderWay
  <2>1. UNCHANGED <<slotVars, masterVars>> /\ Transmit(rest, {})
    BY <1>1 DEF beginTBTransmission
  <2>2. MasterTyped' /\ SlotsTyped'
    BY <2>1 DEF TypeOK, MasterTyped, SlotsTyped, slotVars, masterVars
  <2> QED BY <2>1, <2>2, TransmitSubset
<1>2. CASE ~TBUnderWay
  <2>1. generateTB(list) /\ UNCHANGED tbRetAmm /\ Transmit(rest, answer)
    BY <1>2 DEF beginTBTransmission
  <2>2. MasterTyped' /\ SlotsTyped'
    BY <2>1, GenerateTyped DEF TypeOK, MasterTyped
  <2> QED BY <2>1, <2>2, TransmitSubset
<1> QED BY <1>1, <1>2

(* What a step leaves alone keeps its type. *)
LEMMA UnchangedTyped ==
  ASSUME TypeOK
  PROVE  /\ UNCHANGED entryVars => EntryTyped'
         /\ UNCHANGED listVars => ListsTyped'
         /\ UNCHANGED routeVars => RoutesTyped'
         /\ UNCHANGED tableVars => TablesTyped'
         /\ UNCHANGED slotVars => SlotsTyped'
         /\ UNCHANGED masterVars => MasterTyped'
BY DEF TypeOK, entryVars, listVars, routeVars, tableVars, slotVars, masterVars,
       EntryTyped, ListsTyped, RoutesTyped, TablesTyped, SlotsTyped, MasterTyped

(* What a message that is taken from the air and others that are sent      *)
(* leave there are frames.                                                 *)
LEMMA AirTyped ==
  ASSUME TypeOK, NEW rest \in SUBSET net, NEW frames \in SUBSET Frame,
         Transmit(rest, frames)
  PROVE  net' \in SUBSET Frame
BY TransmitSubset DEF TypeOK

(* A SubSlave that a node learns of keeps the lists typed. *)
LEMMA SubSlaveTyped ==
  ASSUME TypeOK, NEW n \in Nodes, NEW o \in Slaves, insertSubSlave(n, o)
  PROVE  subSlaves' \in [Nodes -> Seq(Slaves)]
<1>1. subSlaves[n] \in Seq(Slaves)
  BY DEF TypeOK, ListsTyped
<1>2. Insert(subSlaves[n], o) \in Seq(Slaves)
  BY <1>1, InsertTyped
<1>3. subSlaves' = [subSlaves EXCEPT ![n] = Insert(subSlaves[n], o)]
  BY DEF insertSubSlave
<1> QED BY <1>2, <1>3 DEF TypeOK, ListsTyped

(* The process that loses its way leaves a well-typed node behind. *)
LEMMA LosesWayTyped ==
  ASSUME TypeOK, NEW n \in Slaves, NEW c, NEW r, NEW queued \in SUBSET Frame,
         LosesWay(n, c, r, queued)
  PROVE  TypeOK'
<1>1. PICK sent \in {{}, queued} : Transmit(net \ {c}, sent)
  BY DEF LosesWay
<1>2. net' \in SUBSET Frame
  BY <1>1, AirTyped
<1>3. Reset(n, "Outside") \/ Reset(n, "Crashed")
  BY DEF LosesWay
<1> QED BY <1>2, <1>3, ResetTyped

-----------------------------------------------------------------------------
(* One lemma for each action. *)

LEMMA MasterNETyped ==
  ASSUME TypeOK, NEW c, MasterNE_RX(c)
  PROVE  TypeOK'
<1> DEFINE o == c.msg.from
           answer == Frames(Master, NEP(Master, o))
<1>1. o \in Slaves /\ Master \in Nodes
  BY ReceivedTyped DEF MasterNE_RX, Nodes
<1>2. answer \in SUBSET Frame
  BY <1>1, BuiltMessages, FramesTyped
<1>3. Insert(subSlaves[Master], o) \in Seq(Slaves)
  BY <1>1, InsertTyped DEF TypeOK, ListsTyped
<1>4. net \ {c} \in SUBSET Frame
  BY DEF TypeOK
<1>5. beginTBTransmission(Insert(subSlaves[Master], o), net \ {c}, answer)
  BY DEF MasterNE_RX
<1>6. MasterTyped' /\ SlotsTyped' /\ net' \in SUBSET Frame
  BY <1>2, <1>3, <1>4, <1>5, BeginTyped
<1>7. ListsTyped'
  <2>1. subSlaves' \in [Nodes -> Seq(Slaves)]
    BY <1>1, SubSlaveTyped DEF MasterNE_RX
  <2> QED BY <2>1 DEF MasterNE_RX, TypeOK, ListsTyped
<1> QED BY <1>6, <1>7, UnchangedTyped DEF MasterNE_RX, TypeOK

LEMMA ProxyNETyped ==
  ASSUME TypeOK, NEW c, ProxyNE_RX(c)
  PROVE  TypeOK'
<1> DEFINE n == c.to
           o == c.msg.from
           answer == Frames(n, NEP(n, o))
<1>1. n \in Slaves /\ n \in Nodes /\ o \in Slaves
  BY ReceivedTyped DEF ProxyNE_RX, Nodes
<1>2. answer \in SUBSET Frame
  BY <1>1, BuiltMessages, FramesTyped
<1>3. CASE LosesWay(n, c, route[n], answer)
  BY <1>1, <1>2, <1>3, LosesWayTyped
<1>4. CASE ~LosesWay(n, c, route[n], answer)
  <2>0. PICK gone \in Expirable(route[n], {}) : \E h \in BestHops(route[n], gone) :
          /\ route' = [route EXCEPT ![n] = Without(route[n], gone)]
          /\ rNER' = [rNER EXCEPT ![n] = [hop |-> h, outsider |-> o]]
          /\ Transmit(net \ {c}, answer \cup Frames(n, NER(h, o)))
    BY <1>4 DEF ProxyNE_RX
  <2>1. PICK h \in BestHops(route[n], gone) :
          /\ route' = [route EXCEPT ![n] = Without(route[n], gone)]
          /\ rNER' = [rNER EXCEPT ![n] = [hop |-> h, outsider |-> o]]
          /\ Transmit(net \ {c}, answer \cup Frames(n, NER(h, o)))
    BY <2>0
  <2>2. /\ insertSubSlave(n, o)
        /\ outsideSlaves' = [outsideSlaves EXCEPT ![n] = @ \cup {o}]
        /\ UNCHANGED <<status, started, rNE, outsidePending, pb, tableVars,
                       slotVars, masterVars>>
    BY <1>4 DEF ProxyNE_RX
  <2>3. h \in Nodes
    BY DEF BestHops, Usable
  <2>4. net' \in SUBSET Frame
    <3>1. answer \cup Frames(n, NER(h, o)) \in SUBSET Frame
      BY <1>1, <1>2, <2>3, BuiltMessages, FramesTyped
    <3> QED BY <2>1, <3>1, AirTyped
  <2>5. EntryTyped'
    BY <1>1, <2>1, <2>2, <2>3 DEF TypeOK, EntryTyped
  <2>6. ListsTyped'
    BY <1>1, <2>2, SubSlaveTyped DEF TypeOK, ListsTyped
  <2>7. RoutesTyped'
    BY <1>1, <2>1, <2>2, WithoutTyped DEF TypeOK, RoutesTyped
  <2> QED BY <2>2, <2>4, <2>5, <2>6, <2>7, UnchangedTyped DEF TypeOK
<1> QED BY <1>3, <1>4

LEMMA NEPTyped ==
  ASSUME TypeOK, NEW c, NEP_RX(c)
  PROVE  TypeOK'
<1>1. c.to \in Nodes
  BY ReceivedTyped DEF NEP_RX, Received
<1>2. EntryTyped'
  BY <1>1 DEF NEP_RX, TypeOK, EntryTyped
<1>3. net' \in SUBSET Frame
  BY DEF NEP_RX, TypeOK
<1> QED BY <1>2, <1>3, UnchangedTyped DEF NEP_RX, TypeOK

LEMMA MasterNERTyped ==
  ASSUME TypeOK, NEW c, MasterNER_RX(c)
  PROVE  TypeOK'
<1> DEFINE o == c.msg.outsider
           answer == Frames(Master, NEA(o))
<1>1. o \in Slaves /\ Master \in Nodes
  BY ReceivedTyped DEF MasterNER_RX, Nodes
<1>2. answer \in SUBSET Frame
  BY <1>1, BuiltMessages, FramesTyped
<1>3. Insert(subSlaves[Master], o) \in Seq(Slaves)
  BY <1>1, InsertTyped DEF TypeOK, ListsTyped
<1>4. net \ {c} \in SUBSET Frame
  BY DEF TypeOK
<1>5. beginTBTransmission(Insert(subSlaves[Master], o), net \ {c}, answer)
  BY DEF MasterNER_RX
<1>6. MasterTyped' /\ SlotsTyped' /\ net' \in SUBSET Frame
  BY <1>2, <1>3, <1>4, <1>5, BeginTyped
<1>7. ListsTyped'
  <2>1. subSlaves' \in [Nodes -> Seq(Slaves)]
    BY <1>1, SubSlaveTyped DEF MasterNER_RX
  <2> QED BY <1>1, <2>1 DEF MasterNER_RX, insertPending, TypeOK, ListsTyped
<1> QED BY <1>6, <1>7, UnchangedTyped DEF MasterNER_RX, TypeOK

LEMMA ForwardNERTyped ==
  ASSUME TypeOK, NEW c, ForwardNER_RX(c)
  PROVE  TypeOK'
<1> DEFINE n == c.to
           o == c.msg.outsider
<1>1. n \in Slaves /\ n \in Nodes /\ o \in Slaves
  BY ReceivedTyped DEF ForwardNER_RX, Nodes
<1>3. CASE LosesWay(n, c, route[n], {})
  BY <1>1, <1>3, LosesWayTyped
<1>4. CASE ~LosesWay(n, c, route[n], {})
  <2>0. PICK gone \in Expirable(route[n], {}) : \E h \in BestHops(route[n], gone) :
          /\ route' = [route EXCEPT ![n] = Without(route[n], gone)]
          /\ Transmit(net \ {c}, Frames(n, NER(h, o)))
    BY <1>4 DEF ForwardNER_RX
  <2>1. PICK h \in BestHops(route[n], gone) :
          /\ route' = [route EXCEPT ![n] = Without(route[n], gone)]
          /\ Transmit(net \ {c}, Frames(n, NER(h, o)))
    BY <2>0
  <2>2. /\ insertSubSlave(n, o)
        /\ insertPending(n, o)
        /\ UNCHANGED <<entryVars, outsideSlaves, pb, tableVars, slotVars,
                       masterVars>>
    BY <1>4 DEF ForwardNER_RX
  <2>3. h \in Nodes
    BY DEF BestHops, Usable
  <2>4. net' \in SUBSET Frame
    <3>1. Frames(n, NER(h, o)) \in SUBSET Frame
      BY <1>1, <2>3, BuiltMessages, FramesTyped
    <3> QED BY <2>1, <3>1, AirTyped
  <2>6. ListsTyped'
    BY <1>1, <2>2, SubSlaveTyped DEF insertPending, TypeOK, ListsTyped
  <2>7. RoutesTyped'
    BY <1>1, <2>1, <2>2, WithoutTyped DEF TypeOK, RoutesTyped
  <2> QED BY <2>2, <2>4, <2>6, <2>7, UnchangedTyped DEF TypeOK
<1> QED BY <1>3, <1>4

LEMMA NEATyped ==
  ASSUME TypeOK, NEW c, NEA_RX(c)
  PROVE  TypeOK'
<1> DEFINE n == c.to
           o == c.msg.outsider
<1>1. n \in Nodes /\ o \in Slaves
  BY ReceivedTyped DEF NEA_RX, Received
<1>2. Frames(n, NEA(o)) \in SUBSET Frame
  BY <1>1, BuiltMessages, FramesTyped
<1>3. net' \in SUBSET Frame
  BY <1>2, AirTyped DEF NEA_RX, TypeOK
<1>4. EntryTyped'
  BY <1>1 DEF NEA_RX, TypeOK, EntryTyped
<1>5. ListsTyped'
  BY <1>1 DEF NEA_RX, TypeOK, ListsTyped
<1> QED BY <1>3, <1>4, <1>5, UnchangedTyped DEF NEA_RX, TypeOK

LEMMA TBEvictedTyped ==
  ASSUME TypeOK, NEW c, TB_RX_Evicted(c)
  PROVE  TypeOK'
<1>1. c.to \in Nodes
  BY ReceivedTyped DEF TB_RX_Evicted, Received
<1>2. EntryTyped'
  BY <1>1 DEF TB_RX_Evicted, TypeOK, EntryTyped
<1>3. SlotsTyped'
  BY <1>1 DEF TB_RX_Evicted, TypeOK, SlotsTyped
<1>4. net' \in SUBSET Frame
  BY DEF TB_RX_Evicted, TypeOK
<1> QED BY <1>2, <1>3, <1>4, UnchangedTyped DEF TB_RX_Evicted, TypeOK

LEMMA TBListedTyped ==
  ASSUME TypeOK, NEW c, TB_RX_Listed(c)
  PROVE  TypeOK'
<1> DEFINE n == c.to
           m == c.msg
<1>1. n \in Nodes /\ m \in TBs /\ m \in Message /\ Alive(n) /\ n \in Range(m.ips)
  BY ReceivedTyped, BuiltMessages DEF TB_RX_Listed, Received
<1>2. /\ m.pbid \in Pbids /\ m.gen \in 1 .. MaxTB
      /\ m.ips \in Seq(Nodes) /\ m.bits \in SUBSET Slaves
  BY <1>1 DEF TBs
<1>3. tbPbid[n] \in Pbids /\ PbidAfterTA(n, m) \in Pbids
  BY <1>1, NextPbidTyped DEF TypeOK, TablesTyped, PbidAfterTA
<1>4. EntryTyped'
  BY <1>1 DEF TB_RX_Listed, TypeOK, EntryTyped
<1>5. TablesTyped'
  <2>1. NoTA \in [Slaves -> {None} \cup Pbids]
    BY DEF NoTA
  <2>2. taSeen' \in [Nodes -> [Slaves -> {None} \cup Pbids]]
    BY <1>1, <2>1 DEF TB_RX_Listed, TypeOK, TablesTyped
  <2>3. prevTable' \in [Nodes -> Seq(Nodes)]
    BY <1>1, <1>2 DEF TB_RX_Listed, TypeOK, TablesTyped
  <2>4. tbPbid' \in [Nodes -> Pbids]
    BY <1>1, <1>2, <1>3 DEF TB_RX_Listed, TypeOK, TablesTyped
  <2> QED BY <2>2, <2>3, <2>4 DEF TablesTyped
<1>6. SlotsTyped'
  <2>1. SlotOf(m.ips, n) \in Int
    BY <1>1, <1>2, SlotOfTable
  <2>2. localSlot' \in [Nodes -> Int]
    BY <1>1, <2>1 DEF TB_RX_Listed, TypeOK, SlotsTyped
  <2>3. m.gen \in 0 .. MaxTB
    BY <1>2, NumbersAssumption
  <2>4. sync' \in [Nodes -> 0 .. MaxTB]
    BY <1>1, <2>3 DEF TB_RX_Listed, TypeOK, SlotsTyped
  <2> QED BY <2>2, <2>4 DEF SlotsTyped
<1>7. net' \in SUBSET Frame
  <2>1. OwesTA(n, m) => Frames(n, TA(n, tbPbid[n])) \in SUBSET Frame
    <3>1. OwesTA(n, m) => n \in Slaves
      BY <1>2 DEF OwesTA
    <3> QED BY <1>1, <1>3, <3>1, BuiltMessages, FramesTyped
  <2>2. Frames(n, m) \in SUBSET Frame
    BY <1>1, FramesTyped
  <2> DEFINE sent == (IF OwesTA(n, m) THEN Frames(n, TA(n, tbPbid[n])) ELSE {})
                       \cup (IF RelaysTB(n, m) THEN Frames(n, m) ELSE {})
  <2>3. sent \in SUBSET Frame
    BY <2>1, <2>2
  <2>4. Transmit(net \ {c}, sent)
    BY DEF TB_RX_Listed
  <2> QED BY <2>3, <2>4, AirTyped
<1> QED BY <1>4, <1>5, <1>6, <1>7, UnchangedTyped DEF TB_RX_Listed, TypeOK

LEMMA MasterTATyped ==
  ASSUME TypeOK, NEW c, MasterTA_RX(c)
  PROVE  TypeOK'
<1>1. net' \in SUBSET Frame
  BY DEF MasterTA_RX, TypeOK
<1>2. MasterTyped'
  <2>1. CASE rTB = None
    BY <2>1 DEF MasterTA_RX, TypeOK, MasterTyped
  <2>2. CASE rTB # None
    <3>1. rTB \in TBs
      BY <2>2 DEF TypeOK, MasterTyped
    <3> DEFINE bits == rTB.bits \ {c.msg.originator}
    <3>2. bits \in SUBSET Slaves
      BY <3>1 DEF TBs
    <3>3. [rTB EXCEPT !.bits = bits] \in TBs
      BY <3>1, <3>2 DEF TBs
    <3>4. rTB' = None \/ rTB' = [rTB EXCEPT !.bits = bits]
      BY <2>2 DEF MasterTA_RX
    <3> QED BY <3>3, <3>4 DEF MasterTA_RX, TypeOK, MasterTyped
  <2> QED BY <2>1, <2>2
<1> QED BY <1>1, <1>2, UnchangedTyped DEF MasterTA_RX, TypeOK

LEMMA RelayTATyped ==
  ASSUME TypeOK, NEW c, RelayTA_RX(c)
  PROVE  TypeOK'
<1> DEFINE n == c.to
           o == c.msg.originator
<1>1. /\ n \in Nodes /\ o \in Slaves
      /\ c.msg \in Message /\ c.msg.pbid \in Pbids
  BY ReceivedTyped DEF RelayTA_RX, Received
<1>2. TablesTyped'
  BY <1>1 DEF RelayTA_RX, TypeOK, TablesTyped
<1>3. net' \in SUBSET Frame
  BY <1>1, FramesTyped, AirTyped DEF RelayTA_RX
<1> QED BY <1>2, <1>3, UnchangedTyped DEF RelayTA_RX, TypeOK

LEMMA SDTXTyped ==
  ASSUME TypeOK, NEW n \in Slaves, SD_TX(n)
  PROVE  TypeOK'
<1>0. n \in Nodes
  BY DEF Nodes
<1>1. PICK gone \in Expirable(route[n], {}) :
        \/ Reset(n, "Outside") /\ UNCHANGED net
        \/ /\ route' = [route EXCEPT ![n] = Without(route[n], gone)]
           /\ UNCHANGED net \/ \E h \in BestHops(route[n], gone) :
                                 Transmit(net, Frames(n, SD(n, h)))
           /\ UNCHANGED <<entryVars, listVars, pb, tableVars, slotVars, masterVars>>
  BY DEF SD_TX
<1>2. CASE Reset(n, "Outside") /\ UNCHANGED net
  BY <1>2, ResetTyped DEF TypeOK
<1>3. CASE /\ route' = [route EXCEPT ![n] = Without(route[n], gone)]
           /\ UNCHANGED net \/ \E h \in BestHops(route[n], gone) :
                                 Transmit(net, Frames(n, SD(n, h)))
           /\ UNCHANGED <<entryVars, listVars, pb, tableVars, slotVars, masterVars>>
  <2>1. net' \in SUBSET Frame
    <3>1. ASSUME NEW h \in BestHops(route[n], gone), Transmit(net, Frames(n, SD(n, h)))
          PROVE  net' \in SUBSET Frame
      <4>1. h \in Nodes
        BY DEF BestHops, Usable
      <4>2. Frames(n, SD(n, h)) \in SUBSET Frame
        BY <1>0, <4>1, BuiltMessages, FramesTyped
      <4> QED BY <3>1, <4>2, AirTyped
    <3> QED BY <1>3, <3>1 DEF TypeOK
  <2>2. RoutesTyped'
    BY <1>0, <1>3, WithoutTyped DEF TypeOK, RoutesTyped
  <2> QED BY <1>3, <2>1, <2>2, UnchangedTyped DEF TypeOK
<1> QED BY <1>1, <1>2, <1>3

LEMMA SDRXTyped ==
  ASSUME TypeOK, NEW c, SD_RX(c)
  PROVE  TypeOK'
<1> DEFINE n == c.to
           o == c.msg.source
           r == [route[n] EXCEPT ![o] = IF @ = "none" THEN "unrated" ELSE @]
<1>1. n \in Nodes /\ o \in Slaves /\ o \in Nodes
  BY ReceivedTyped DEF SD_RX, Received, Nodes
<1>2. ListsTyped'
  <2>1. subSlaves' \in [Nodes -> Seq(Slaves)]
    BY <1>1, SubSlaveTyped DEF SD_RX
  <2> QED BY <1>1, <2>1 DEF SD_RX, insertPending, TypeOK, ListsTyped
<1>3. r \in RouteTable
  BY <1>1 DEF TypeOK, RoutesTyped, RouteTable
<1>4. RoutesTyped' /\ net' \in SUBSET Frame
  <2>1. CASE n = Master
    BY <2>1 DEF SD_RX, TypeOK, RoutesTyped
  <2>2. CASE n # Master
    <3>1. PICK gone \in Expirable(r, {o}) :
            /\ route' = [route EXCEPT ![n] = Without(r, gone)]
            /\ \/ net' = net \ {c}
               \/ \E h \in BestHops(r, gone) :
                    Transmit(net \ {c}, Frames(n, SD(o, h)))
      BY <2>2 DEF SD_RX
    <3>2. ASSUME NEW h \in BestHops(r, gone),
                 Transmit(net \ {c}, Frames(n, SD(o, h)))
          PROVE  net' \in SUBSET Frame
      <4>1. h \in Nodes
        BY DEF BestHops, Usable
      <4>2. Frames(n, SD(o, h)) \in SUBSET Frame
        BY <1>1, <4>1, BuiltMessages, FramesTyped
      <4> QED BY <3>2, <4>2, AirTyped
    <3>3. net' \in SUBSET Frame
      BY <3>1, <3>2 DEF TypeOK
    <3>4. Without(r, gone) \in RouteTable
      BY <1>3, WithoutTyped
    <3>5. pb' = pb
      BY DEF SD_RX
    <3>6. RoutesTyped'
      BY <1>1, <3>1, <3>4, <3>5 DEF TypeOK, RoutesTyped
    <3> QED BY <3>3, <3>6
  <2> QED BY <2>1, <2>2
<1> QED BY <1>2, <1>4, UnchangedTyped DEF SD_RX, TypeOK

LEMMA HearTyped ==
  ASSUME TypeOK, NEW n \in Slaves, NEW h \in Nodes, Hear(n, h)
  PROVE  TypeOK'
<1>0. n \in Nodes
  BY DEF Nodes
<1>1. CASE PB_RX_Outside(n, h)
  <2>1. EntryTyped'
    <3>1. [proxy |-> h, amm |-> 0] \in [proxy : Nodes, amm : 0 .. NEAttempts - 1]
      BY NumbersAssumption
    <3> QED BY <1>0, <1>1, <3>1 DEF PB_RX_Outside, TypeOK, EntryTyped
  <2>2. Frames(n, NE(n, h)) \in SUBSET Frame
    BY <1>0, BuiltMessages, FramesTyped
  <2>3. net' \in SUBSET Frame
    BY <1>1, <2>2, AirTyped DEF PB_RX_Outside
  <2> QED BY <1>1, <2>1, <2>3, UnchangedTyped DEF PB_RX_Outside, TypeOK
<1>2. CASE PB_RX_Inside(n, h)
  <2>1. RoutesTyped'
    BY <1>0, <1>2 DEF PB_RX_Inside, TypeOK, RoutesTyped, RouteTable, Rated
  <2> QED BY <1>2, <2>1, UnchangedTyped DEF PB_RX_Inside, TypeOK
<1>3. CASE PB_RX_Waiting(n, h)
  <2>1. EntryTyped'
    BY <1>0, <1>3 DEF PB_RX_Waiting, TypeOK, EntryTyped
  <2> QED BY <1>3, <2>1, UnchangedTyped DEF PB_RX_Waiting, TypeOK
<1>4. CASE PR_RX(h, n)
  <2>1. RoutesTyped'
    BY <1>0, <1>4 DEF PR_RX, TypeOK, RoutesTyped, RouteTable
  <2> QED BY <1>4, <2>1, UnchangedTyped DEF PR_RX, TypeOK
<1>5. CASE PC_RX(n, h)
  <2> DEFINE r == [route[n] EXCEPT ![h] = Rated(pb[h])]
  <2>1. r \in RouteTable
    BY <1>0 DEF TypeOK, RoutesTyped, RouteTable, Rated
  <2>2. /\ route' = [route EXCEPT ![n] = r]
        /\ pb' = [pb EXCEPT ![n] = IF Usable(r) = {} THEN "unreachable" ELSE "finite"]
    BY <1>5 DEF PC_RX
  <2>3. RoutesTyped'
    BY <1>0, <2>1, <2>2 DEF TypeOK, RoutesTyped
  <2> QED BY <1>5, <2>3, UnchangedTyped DEF PC_RX, TypeOK
<1> QED BY <1>1, <1>2, <1>3, <1>4, <1>5 DEF Hear

LEMMA RetransmitTBTyped ==
  ASSUME TypeOK, RetransmitTB
  PROVE  TypeOK'
<1>1. rTB \in TBs /\ Master \in Nodes
  BY DEF RetransmitTB, TypeOK, MasterTyped, Nodes
<1>2. NextPbid(rTB.pbid) \in Pbids
  BY <1>1, NextPbidTyped DEF TBs
<1>3. rTB' \in TBs
  BY <1>1, <1>2 DEF RetransmitTB, TBs
<1>4. tbRetAmm' \in 0 .. AmmMod - 1
  BY NumbersAssumption DEF RetransmitTB, TypeOK, MasterTyped
<1>5. net' \in SUBSET Frame
  <2>1. Frames(Master, rTB) \in SUBSET Frame
    BY <1>1, BuiltMessages, FramesTyped
  <2> QED BY <2>1, AirTyped DEF RetransmitTB
<1>6. MasterTyped'
  BY <1>3, <1>4 DEF RetransmitTB, TypeOK, MasterTyped
<1> QED BY <1>5, <1>6, UnchangedTyped DEF RetransmitTB, TypeOK

LEMMA RetransmitNETyped ==
  ASSUME TypeOK, NEW n \in Slaves, RetransmitNE(n)
  PROVE  TypeOK'
<1> DEFINE amm == rNE[n].amm + 1
<1>1. n \in Nodes
  BY DEF Nodes
<1>2. rNE[n] \in [proxy : Nodes, amm : 0 .. NEAttempts - 1]
  BY <1>1 DEF RetransmitNE, TypeOK, EntryTyped
<1>3. Frames(n, NE(n, rNE[n].proxy)) \in SUBSET Frame
  BY <1>1, <1>2, BuiltMessages, FramesTyped
<1>4. net' \in SUBSET Frame
  BY <1>3, AirTyped DEF RetransmitNE
<1>5. EntryTyped'
  <2>1. CASE amm = NEAttempts
    BY <1>1, <2>1 DEF RetransmitNE, TypeOK, EntryTyped
  <2>2. CASE amm # NEAttempts
    <3>1. amm \in 0 .. NEAttempts - 1
      BY <1>2, <2>2, NumbersAssumption
    <3>2. [rNE[n] EXCEPT !.amm = amm] \in [proxy : Nodes, amm : 0 .. NEAttempts - 1]
      BY <1>2, <3>1
    <3>3. rNE' = [rNE EXCEPT ![n] = [rNE[n] EXCEPT !.amm = amm]]
      BY <2>2 DEF RetransmitNE
    <3> QED BY <1>1, <2>2, <3>2, <3>3 DEF RetransmitNE, TypeOK, EntryTyped
  <2> QED BY <2>1, <2>2
<1> QED BY <1>4, <1>5, UnchangedTyped DEF RetransmitNE, TypeOK

LEMMA RetransmitNERTyped ==
  ASSUME TypeOK, NEW n \in Slaves, RetransmitNER(n)
  PROVE  TypeOK'
<1>1. n \in Nodes
  BY DEF Nodes
<1>2. rNER[n] \in [hop : Nodes, outsider : Slaves]
  BY <1>1 DEF RetransmitNER, TypeOK, EntryTyped
<1>3. Frames(n, NER(rNER[n].hop, rNER[n].outsider)) \in SUBSET Frame
  BY <1>1, <1>2, BuiltMessages, FramesTyped
<1>4. net' \in SUBSET Frame
  BY <1>3, AirTyped DEF RetransmitNER
<1> QED BY <1>4, UnchangedTyped DEF RetransmitNER, TypeOK

-----------------------------------------------------------------------------
(* The initial values have their types. *)
LEMMA InitTyped == Init => TypeOK
<1> SUFFICES ASSUME Init PROVE TypeOK
  OBVIOUS
<1>1. EntryTyped
  BY DEF Init, EntryTyped
<1>2. ListsTyped
  <2>1. <<>> \in Seq(Slaves)
    OBVIOUS
  <2> QED BY <2>1 DEF Init, ListsTyped
<1>3. RoutesTyped
  BY DEF Init, RoutesTyped, RouteTable, NoRoute
<1>4. TablesTyped
  <2>1. <<>> \in Seq(Nodes)
    OBVIOUS
  <2>2. 0 \in Pbids
    BY NumbersAssumption DEF Pbids
  <2>3. NoTA \in [Slaves -> {None} \cup Pbids]
    BY DEF NoTA
  <2> QED BY <2>1, <2>2, <2>3 DEF Init, TablesTyped
<1>5. SlotsTyped
  BY NumbersAssumption DEF Init, SlotsTyped
<1>6. MasterTyped
  BY NumbersAssumption DEF Init, MasterTyped
<1>7. net \in SUBSET Frame
  BY DEF Init
<1> QED BY <1>1, <1>2, <1>3, <1>4, <1>5, <1>6, <1>7 DEF TypeOK

(* Every step keeps the types. *)
LEMMA NextTyped == TypeOK /\ [Next]_vars => TypeOK'
<1> SUFFICES ASSUME TypeOK, [Next]_vars PROVE TypeOK'
  OBVIOUS
<1>1. ASSUME NEW c \in net, Receive(c) PROVE TypeOK'
  BY <1>1, MasterNETyped, ProxyNETyped, NEPTyped, MasterNERTyped, ForwardNERTyped,
     NEATyped, TBEvictedTyped, TBListedTyped, MasterTATyped, RelayTATyped, SDRXTyped
     DEF Receive
<1>2. ASSUME NEW c \in net, Lose(c) PROVE TypeOK'
  BY <1>2, UnchangedTyped DEF Lose, TypeOK
<1>3. ASSUME NEW n \in Slaves, NEW h \in Nodes, Hear(n, h) PROVE TypeOK'
  BY <1>3, HearTyped
<1>4. ASSUME NEW n \in Slaves, SD_TX(n) \/ RetransmitNE(n) \/ RetransmitNER(n)
      PROVE  TypeOK'
  BY <1>4, SDTXTyped, RetransmitNETyped, RetransmitNERTyped
<1>5. CASE RetransmitTB
  BY <1>5, RetransmitTBTyped
<1>6. CASE UNCHANGED vars
  BY <1>6, UnchangedTyped DEF vars, TypeOK
<1> QED BY <1>1, <1>2, <1>3, <1>4, <1>5, <1>6 DEF Next

(* Type correctness: whatever frames come in whatever order, every handler *)
(* and every retransmission leaves every variable with a value of its      *)
(* type, the wrapped PBIDs and counts included.                            *)
THEOREM TypeCorrect == Spec => []TypeOK
BY InitTyped, NextTyped, PTL DEF Spec

=============================================================================
