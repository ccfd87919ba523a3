---------------------- MODULE NetworkEntrySafetyProofs ----------------------
(***************************************************************************)
(* Why the time tables of NetworkEntry agree, for every network.           *)
(*                                                                         *)
(* The invariant is TablesAgree, which speaks of all the tables that exist *)
(* at a time.  A step either brings no table that was not there before     *)
(* (it is Quiet) or is the master's, which makes one table, later than all *)
(* others, of all the slaves it has registered (it Generates).             *)
(*                                                                         *)
(* The second part is about networks in which no route expires: the ways   *)
(* to the master stay (WaysInv), so a proxy has a next hop, and a slave    *)
(* that is struck off the TB holds a table with a slot for it.             *)
(***************************************************************************)
EXTENDS NetworkEntryProofs

(* The outsiders that a positive answer in frames is about. *)
Answered(frames) ==
  {c.msg.outsider : c \in {f \in frames : f.msg.type = "NEA"}} \cup
  {c.msg.dest : c \in {f \in frames : f.msg.type = "NEP" /\ f.msg.from = Master}}

(* Frames that carry no table and no answer that is not there already. *)
Silent(frames) ==
  /\ TablesIn(frames) \subseteq Tables
  /\ Answered(frames) \subseteq Answered(net)

(* A step after which no table is new, no answer is new, no slave is       *)
(* forgotten, and the master retransmits what it did or nothing.           *)
Quiet ==
  /\ Tables' \subseteq Tables
  /\ Answered(net') \subseteq Answered(net)
  /\ tbGen' = tbGen
  /\ Registered \subseteq Registered'
  /\ rTB' # None => rTB # None /\ rTB'.ips = rTB.ips /\ rTB'.gen = rTB.gen

(* A step by which the master makes a table of all it has registered, and  *)
(* answers nobody but one of them.                                         *)
Generates ==
  /\ Registered \subseteq Registered'
  /\ tbGen' = tbGen + 1
  /\ rTB' # None
  /\ rTB'.gen = tbGen' /\ rTB'.ips = <<Master>> \o subSlaves'[Master]
  /\ Tables' \subseteq Tables \cup
       {[gen |-> tbGen + 1, ips |-> <<Master>> \o subSlaves'[Master]]}
  /\ Answered(net') \subseteq Answered(net) \cup Registered'

-----------------------------------------------------------------------------
(* What is in the air *)

LEMMA SilentUnion ==
  ASSUME NEW A, NEW B, Silent(A), Silent(B)
  PROVE  Silent(A \cup B)
<1>1. TablesIn(A \cup B) = TablesIn(A) \cup TablesIn(B)
  BY DEF TablesIn
<1>2. Answered(A \cup B) = Answered(A) \cup Answered(B)
  BY DEF Answered
<1> QED BY <1>1, <1>2 DEF Silent

LEMMA SilentNothing == Silent({})
BY DEF Silent, TablesIn, Answered

(* Requests, acknowledgements and samples are silent; so is the answer of  *)
(* a proxy that is not the master.                                         *)
LEMMA SilentFrames ==
  ASSUME NEW n \in Nodes, NEW m,
         m.type \notin {"TB", "NEA"},
         m.type = "NEP" => m.from # Master
  PROVE  Silent(Frames(n, m))
<1>1. \A f \in Frames(n, m) : f.msg = m
  BY DEF Frames
<1>2. TablesIn(Frames(n, m)) = {}
  BY <1>1 DEF TablesIn
<1>3. Answered(Frames(n, m)) = {}
  BY <1>1 DEF Answered
<1> QED BY <1>2, <1>3 DEF Silent

(* A message that was in the air can be repeated. *)
LEMMA SilentRepeat ==
  ASSUME NEW c \in net, NEW n \in Nodes
  PROVE  Silent(Frames(n, c.msg))
<1>1. \A f \in Frames(n, c.msg) : f.msg = c.msg
  BY DEF Frames
<1>2. TablesIn(Frames(n, c.msg)) \subseteq TablesIn(net)
  BY <1>1 DEF TablesIn
<1>3. Answered(Frames(n, c.msg)) \subseteq Answered(net)
  BY <1>1 DEF Answered
<1> QED BY <1>2, <1>3 DEF Silent, Tables

LEMMA AirSilent ==
  ASSUME NEW rest \in SUBSET net, NEW frames, Silent(frames),
         Transmit(rest, frames)
  PROVE  /\ TablesIn(net') \subseteq Tables
         /\ Answered(net') \subseteq Answered(net)
<1>1. net' \subseteq net \cup frames
  BY TransmitSubset
<1>2. TablesIn(net) \subseteq Tables
  BY DEF Tables
<1>3. TablesIn(net') \subseteq TablesIn(net) \cup TablesIn(frames)
  BY <1>1 DEF TablesIn
<1>4. Answered(net') \subseteq Answered(net) \cup Answered(frames)
  BY <1>1 DEF Answered
<1> QED BY <1>2, <1>3, <1>4 DEF Silent

(* Frames that are taken from the air leave it silent. *)
LEMMA AirShrinks ==
  ASSUME net' \subseteq net
  PROVE  /\ TablesIn(net') \subseteq Tables
         /\ Answered(net') \subseteq Answered(net)
BY DEF Tables, TablesIn, Answered

(* The tables outside the air stay when nobody changes them. *)
LEMMA HeldUnchanged ==
  /\ UNCHANGED <<tableVars, slotVars>> => TablesHeld' = TablesHeld
  /\ UNCHANGED masterVars => TablesAtMaster' = TablesAtMaster
BY DEF TablesHeld, TablesAtMaster, tableVars, slotVars, masterVars

(* A step that only talks is quiet. *)
LEMMA QuietStep ==
  ASSUME TablesIn(net') \subseteq Tables,
         Answered(net') \subseteq Answered(net),
         Registered \subseteq Registered',
         UNCHANGED <<tableVars, slotVars, masterVars>>
  PROVE  Quiet
<1>1. TablesHeld' = TablesHeld /\ TablesAtMaster' = TablesAtMaster
  BY HeldUnchanged
<1>2. Tables' = TablesIn(net') \cup TablesHeld' \cup TablesAtMaster'
  BY DEF Tables
<1> QED BY <1>1, <1>2 DEF Quiet, Tables, masterVars

(* Learning of a SubSlave forgets none. *)
LEMMA RegisteredGrows ==
  ASSUME TypeOK, NEW n \in Nodes, NEW o \in Slaves, insertSubSlave(n, o)
  PROVE  /\ Registered \subseteq Registered'
         /\ n = Master => o \in Registered' /\ subSlaves'[n] = Insert(subSlaves[n], o)
<1>1. subSlaves' = [subSlaves EXCEPT ![n] = Insert(subSlaves[n], o)]
  BY DEF insertSubSlave
<1>2. subSlaves \in [Nodes -> Seq(Slaves)] /\ Master \in Nodes
  BY DEF TypeOK, ListsTyped, Nodes
<1>3. CASE n = Master
  <2>1. Range(Insert(subSlaves[n], o)) = Range(subSlaves[n]) \cup {o}
    BY <1>2, InsertTyped
  <2>2. subSlaves'[Master] = Insert(subSlaves[n], o)
    BY <1>1, <1>2, <1>3
  <2> QED BY <1>3, <2>1, <2>2 DEF Registered
<1>4. CASE n # Master
  <2>1. subSlaves'[Master] = subSlaves[Master]
    BY <1>1, <1>2, <1>4
  <2> QED BY <1>4, <2>1 DEF Registered
<1> QED BY <1>3, <1>4

(* A slave that starts anew, or crashes, is quiet. *)
LEMMA ResetQuiet ==
  ASSUME TypeOK, NEW n \in Slaves, NEW st, Reset(n, st),
         TablesIn(net') \subseteq Tables,
         Answered(net') \subseteq Answered(net)
  PROVE  Quiet
<1>0. n \in Nodes /\ Master \in Nodes /\ n # Master
  BY NodesAssumption DEF Nodes
<1>1. subSlaves'[Master] = subSlaves[Master]
  BY <1>0 DEF Reset, TypeOK, ListsTyped
<1>2. TablesHeld' \subseteq TablesHeld
  <2>1. sync' = [sync EXCEPT ![n] = 0] /\ prevTable' = [prevTable EXCEPT ![n] = <<>>]
    BY DEF Reset
  <2>2. sync'[n] = 0
    BY <1>0, <2>1 DEF TypeOK, SlotsTyped
  <2>3. \A k \in Slaves : k # n => sync'[k] = sync[k] /\ prevTable'[k] = prevTable[k]
    BY <2>1 DEF TypeOK, SlotsTyped, TablesTyped, Nodes
  <2> QED BY <2>2, <2>3 DEF TablesHeld
<1>3. UNCHANGED masterVars
  BY DEF Reset
<1>4. TablesAtMaster' = TablesAtMaster
  BY <1>3, HeldUnchanged
<1>5. Tables' = TablesIn(net') \cup TablesHeld' \cup TablesAtMaster'
  BY DEF Tables
<1> QED BY <1>1, <1>2, <1>3, <1>4, <1>5 DEF Quiet, Registered, Tables, masterVars

-----------------------------------------------------------------------------
(* Every action is quiet or generates. *)

LEMMA LosesWayQuiet ==
  ASSUME TypeOK, NEW n \in Slaves, NEW c, NEW r, NEW queued, Silent(queued),
         LosesWay(n, c, r, queued)
  PROVE  Quiet
<1>1. PICK sent \in {{}, queued} : Transmit(net \ {c}, sent)
  BY DEF LosesWay
<1>2. Silent(sent)
  BY SilentNothing
<1>3. TablesIn(net') \subseteq Tables /\ Answered(net') \subseteq Answered(net)
  BY <1>1, <1>2, AirSilent
<1>4. Reset(n, "Outside") \/ Reset(n, "Crashed")
  BY DEF LosesWay
<1> QED BY <1>3, <1>4, ResetQuiet

(* The master makes a table, or, with one under way, only learns. *)
LEMMA BeginKind ==
  ASSUME TypeOK, NEW list \in Seq(Slaves), NEW rest \in SUBSET net, NEW answer,
         subSlaves'[Master] = list,
         Registered \subseteq Registered',
         TablesIn(answer) = {},
         Answered(answer) \subseteq Registered',
         UNCHANGED tableVars,
         beginTBTransmission(list, rest, answer)
  PROVE  Quiet \/ Generates
<1>1. CASE TBUnderWay
  <2>1. UNCHANGED <<slotVars, masterVars>> /\ Transmit(rest, {})
    BY <1>1 DEF beginTBTransmission
  <2> QED BY <2>1, SilentNothing, AirSilent, QuietStep
<1>2. CASE ~TBUnderWay
  <2>1. generateTB(list) /\ Transmit(rest, answer)
    BY <1>2 DEF beginTBTransmission
  <2>2. /\ rTB' = TB(0, tbGen + 1, <<Master>> \o list, Range(list))
        /\ tbGen' = tbGen + 1
        /\ sync' = [sync EXCEPT ![Master] = tbGen + 1]
    BY <2>1 DEF generateTB, NewTB
  <2>3. rTB' # None /\ rTB'.gen = tbGen + 1 /\ rTB'.ips = <<Master>> \o list
    <3>1. rTB' \in TBs
      BY <2>1, GenerateTyped
    <3>2. rTB'.ips = <<Master>> \o list /\ rTB'.gen = tbGen + 1
      BY <2>2 DEF TB
    <3>3. rTB' # None
      BY <3>1, NoneAssumption
    <3> QED BY <3>2, <3>3
  <2>4. TablesAtMaster' = {[gen |-> tbGen + 1, ips |-> <<Master>> \o list]}
    BY <2>3 DEF TablesAtMaster
  <2>5. TablesHeld' = TablesHeld
    <3>1. \A k \in Slaves : sync'[k] = sync[k]
      BY <2>2, NodesAssumption DEF TypeOK, SlotsTyped, Nodes
    <3>2. prevTable' = prevTable
      BY DEF tableVars
    <3> QED BY <3>1, <3>2 DEF TablesHeld
  <2>6. net' \subseteq net \cup answer
    BY <2>1, TransmitSubset
  <2>7. TablesIn(net') \subseteq TablesIn(net)
    BY <2>6 DEF TablesIn
  <2>8. Answered(net') \subseteq Answered(net) \cup Registered'
    <3>1. Answered(net') \subseteq Answered(net) \cup Answered(answer)
      BY <2>6 DEF Answered
    <3> QED BY <3>1
  <2>9. Tables' = TablesIn(net') \cup TablesHeld' \cup TablesAtMaster'
    BY DEF Tables
  <2> QED BY <2>2, <2>3, <2>4, <2>5, <2>7, <2>8, <2>9 DEF Generates, Tables
<1> QED BY <1>1, <1>2

LEMMA MasterNEKind ==
  ASSUME TypeOK, NEW c, MasterNE_RX(c)
  PROVE  Quiet \/ Generates
<1> DEFINE o == c.msg.from
           answer == Frames(Master, NEP(Master, o))
<1>1. o \in Slaves /\ Master \in Nodes
  BY ReceivedTyped DEF MasterNE_RX, Nodes
<1>2. Insert(subSlaves[Master], o) \in Seq(Slaves)
  BY <1>1, InsertTyped DEF TypeOK, ListsTyped
<1>3. /\ Registered \subseteq Registered' /\ o \in Registered'
      /\ subSlaves'[Master] = Insert(subSlaves[Master], o)
  BY <1>1, RegisteredGrows DEF MasterNE_RX
<1>4. \A f \in answer : f.msg = NEP(Master, o)
  BY DEF Frames
<1>5. TablesIn(answer) = {}
  BY <1>4 DEF TablesIn, NEP
<1>6. Answered(answer) \subseteq Registered'
  BY <1>3, <1>4 DEF Answered, NEP
<1>7. /\ beginTBTransmission(Insert(subSlaves[Master], o), net \ {c}, answer)
      /\ UNCHANGED tableVars
  BY DEF MasterNE_RX
<1> QED BY <1>2, <1>3, <1>5, <1>6, <1>7, BeginKind

LEMMA MasterNERKind ==
  ASSUME TypeOK, NEW c, MasterNER_RX(c)
  PROVE  Quiet \/ Generates
<1> DEFINE o == c.msg.outsider
           answer == Frames(Master, NEA(o))
<1>1. o \in Slaves /\ Master \in Nodes
  BY ReceivedTyped DEF MasterNER_RX, Nodes
<1>2. Insert(subSlaves[Master], o) \in Seq(Slaves)
  BY <1>1, InsertTyped DEF TypeOK, ListsTyped
<1>3. /\ Registered \subseteq Registered' /\ o \in Registered'
      /\ subSlaves'[Master] = Insert(subSlaves[Master], o)
  BY <1>1, RegisteredGrows DEF MasterNER_RX
<1>4. \A f \in answer : f.msg = NEA(o)
  BY DEF Frames
<1>5. TablesIn(answer) = {}
  BY <1>4 DEF TablesIn, NEA
<1>6. Answered(answer) \subseteq Registered'
  BY <1>3, <1>4 DEF Answered, NEA
<1>7. /\ beginTBTransmission(Insert(subSlaves[Master], o), net \ {c}, answer)
      /\ UNCHANGED tableVars
  BY DEF MasterNER_RX
<1> QED BY <1>2, <1>3, <1>5, <1>6, <1>7, BeginKind

LEMMA ProxyNEQuiet ==
  ASSUME TypeOK, NEW c, ProxyNE_RX(c)
  PROVE  Quiet
<1> DEFINE n == c.to
           o == c.msg.from
           answer == Frames(n, NEP(n, o))
<1>1. n \in Slaves /\ n \in Nodes /\ n # Master /\ o \in Slaves
  BY ReceivedTyped, NodesAssumption DEF ProxyNE_RX, Nodes
<1>2. Silent(answer)
  BY <1>1, SilentFrames DEF NEP
<1>3. CASE LosesWay(n, c, route[n], answer)
  BY <1>1, <1>2, <1>3, LosesWayQuiet
<1>4. CASE ~LosesWay(n, c, route[n], answer)
  <2>1. PICK h : Transmit(net \ {c}, answer \cup Frames(n, NER(h, o)))
    BY <1>4 DEF ProxyNE_RX
  <2>2. Silent(Frames(n, NER(h, o)))
    BY <1>1, SilentFrames DEF NER
  <2>3. Silent(answer \cup Frames(n, NER(h, o)))
    BY <1>2, <2>2, SilentUnion
  <2>4. insertSubSlave(n, o) /\ UNCHANGED <<tableVars, slotVars, masterVars>>
    BY <1>4 DEF ProxyNE_RX
  <2> QED BY <1>1, <2>1, <2>3, <2>4, AirSilent, RegisteredGrows, QuietStep
<1> QED BY <1>3, <1>4

LEMMA NEPQuiet ==
  ASSUME NEW c, NEP_RX(c)
  PROVE  Quiet
<1>1. net' \subseteq net /\ Registered' = Registered
  BY DEF NEP_RX, listVars, Registered
<1>2. UNCHANGED <<tableVars, slotVars, masterVars>>
  BY DEF NEP_RX
<1> QED BY <1>1, <1>2, AirShrinks, QuietStep

LEMMA ForwardNERQuiet ==
  ASSUME TypeOK, NEW c, ForwardNER_RX(c)
  PROVE  Quiet
<1> DEFINE n == c.to
           o == c.msg.outsider
<1>1. n \in Slaves /\ n \in Nodes /\ o \in Slaves
  BY ReceivedTyped DEF ForwardNER_RX, Nodes
<1>2. CASE LosesWay(n, c, route[n], {})
  BY <1>1, <1>2, SilentNothing, LosesWayQuiet
<1>3. CASE ~LosesWay(n, c, route[n], {})
  <2>1. PICK h : Transmit(net \ {c}, Frames(n, NER(h, o)))
    BY <1>3 DEF ForwardNER_RX
  <2>2. Silent(Frames(n, NER(h, o)))
    BY <1>1, SilentFrames DEF NER
  <2>3. insertSubSlave(n, o) /\ UNCHANGED <<tableVars, slotVars, masterVars>>
    BY <1>3 DEF ForwardNER_RX
  <2> QED BY <1>1, <2>1, <2>2, <2>3, AirSilent, RegisteredGrows, QuietStep
<1> QED BY <1>2, <1>3

LEMMA NEAQuiet ==
  ASSUME TypeOK, NEW c, NEA_RX(c)
  PROVE  Quiet
<1> DEFINE n == c.to
<1>1. c \in net /\ n \in Nodes /\ c.msg.type = "NEA"
  BY ReceivedTyped DEF NEA_RX, Received
<1>2. c.msg = NEA(c.msg.outsider)
  BY <1>1 DEF TypeOK, Frame, Message, TBs, NEA
<1>3. net' \subseteq net \/ Transmit(net \ {c}, Frames(n, c.msg))
  BY <1>2 DEF NEA_RX
<1>4. TablesIn(net') \subseteq Tables /\ Answered(net') \subseteq Answered(net)
  BY <1>1, <1>3, SilentRepeat, AirSilent, AirShrinks
<1>5. /\ UNCHANGED <<tableVars, slotVars, masterVars>>
      /\ Registered' = Registered
  BY DEF NEA_RX, Registered
<1> QED BY <1>4, <1>5, QuietStep

LEMMA TBEvictedQuiet ==
  ASSUME NEW c, TB_RX_Evicted(c)
  PROVE  Quiet
<1>1. /\ net' \subseteq net /\ Registered' = Registered
      /\ TablesHeld' = TablesHeld /\ TablesAtMaster' = TablesAtMaster
      /\ tbGen' = tbGen /\ rTB' = rTB
  BY DEF TB_RX_Evicted, listVars, tableVars, masterVars, Registered, TablesHeld,
         TablesAtMaster
<1>2. Tables' = TablesIn(net') \cup TablesHeld' \cup TablesAtMaster'
  BY DEF Tables
<1> QED BY <1>1, <1>2, AirShrinks DEF Quiet, Tables

LEMMA TBListedQuiet ==
  ASSUME TypeOK, NEW c, TB_RX_Listed(c)
  PROVE  Quiet
<1> DEFINE n == c.to
           m == c.msg
           sent == (IF OwesTA(n, m) THEN Frames(n, TA(n, tbPbid[n])) ELSE {})
                     \cup (IF RelaysTB(n, m) THEN Frames(n, m) ELSE {})
<1>1. c \in net /\ n \in Nodes /\ m.type = "TB"
  BY ReceivedTyped DEF TB_RX_Listed, Received
<1>2. Silent(sent)
  <2>1. Silent(Frames(n, TA(n, tbPbid[n])))
    BY <1>1, SilentFrames DEF TA
  <2>2. Silent(Frames(n, m))
    BY <1>1, SilentRepeat
  <2> QED BY <2>1, <2>2, SilentNothing, SilentUnion
<1>3. Transmit(net \ {c}, sent)
  BY DEF TB_RX_Listed
<1>4. TablesIn(net') \subseteq Tables /\ Answered(net') \subseteq Answered(net)
  BY <1>2, <1>3, AirSilent
<1>5. [gen |-> m.gen, ips |-> m.ips] \in TablesIn(net)
  BY <1>1 DEF TablesIn
<1>6. TablesHeld' \subseteq TablesHeld \cup {[gen |-> m.gen, ips |-> m.ips]}
  <2>1. /\ sync' = [sync EXCEPT ![n] = m.gen]
        /\ prevTable' = [prevTable EXCEPT ![n] = m.ips]
    BY DEF TB_RX_Listed
  <2>2. /\ sync'[n] = m.gen /\ prevTable'[n] = m.ips
        /\ \A k \in Slaves : k # n => sync'[k] = sync[k] /\ prevTable'[k] = prevTable[k]
    BY <1>1, <2>1 DEF TypeOK, SlotsTyped, TablesTyped, Nodes
  <2> QED BY <2>2 DEF TablesHeld
<1>7. /\ TablesAtMaster' = TablesAtMaster /\ Registered' = Registered
      /\ tbGen' = tbGen /\ rTB' = rTB
  BY DEF TB_RX_Listed, masterVars, listVars, TablesAtMaster, Registered
<1>8. Tables' = TablesIn(net') \cup TablesHeld' \cup TablesAtMaster'
  BY DEF Tables
<1> QED BY <1>4, <1>5, <1>6, <1>7, <1>8 DEF Quiet, Tables

LEMMA MasterTAQuiet ==
  ASSUME TypeOK, NEW c, MasterTA_RX(c)
  PROVE  Quiet
<1>1. /\ net' \subseteq net /\ Registered' = Registered
      /\ TablesHeld' = TablesHeld /\ tbGen' = tbGen
  BY DEF MasterTA_RX, listVars, tableVars, slotVars, Registered, TablesHeld
<1>2. rTB' # None => /\ rTB # None
                     /\ rTB'.ips = rTB.ips /\ rTB'.gen = rTB.gen
  <2>1. CASE rTB = None
    BY <2>1 DEF MasterTA_RX
  <2>2. CASE rTB # None
    <3>1. rTB \in TBs
      BY <2>2 DEF TypeOK, MasterTyped
    <3>2. \/ rTB' = None
          \/ rTB' = [rTB EXCEPT !.bits = rTB.bits \ {c.msg.originator}]
      BY <2>2 DEF MasterTA_RX
    <3> QED BY <2>2, <3>1, <3>2 DEF TBs
  <2> QED BY <2>1, <2>2
<1>3. TablesAtMaster' \subseteq TablesAtMaster
  BY <1>2 DEF TablesAtMaster
<1>4. Tables' = TablesIn(net') \cup TablesHeld' \cup TablesAtMaster'
  BY DEF Tables
<1> QED BY <1>1, <1>2, <1>3, <1>4, AirShrinks DEF Quiet, Tables

LEMMA RelayTAQuiet ==
  ASSUME TypeOK, NEW c, RelayTA_RX(c)
  PROVE  Quiet
<1>1. c \in net /\ c.to \in Nodes
  BY ReceivedTyped DEF RelayTA_RX, Received
<1>2. TablesIn(net') \subseteq Tables /\ Answered(net') \subseteq Answered(net)
  BY <1>1, SilentRepeat, AirSilent DEF RelayTA_RX
<1>3. /\ TablesHeld' = TablesHeld /\ TablesAtMaster' = TablesAtMaster
      /\ Registered' = Registered /\ tbGen' = tbGen /\ rTB' = rTB
  BY DEF RelayTA_RX, listVars, slotVars, masterVars, Registered, TablesHeld,
         TablesAtMaster
<1>4. Tables' = TablesIn(net') \cup TablesHeld' \cup TablesAtMaster'
  BY DEF Tables
<1> QED BY <1>2, <1>3, <1>4 DEF Quiet, Tables

LEMMA SDTXQuiet ==
  ASSUME TypeOK, NEW n \in Slaves, SD_TX(n)
  PROVE  Quiet
<1>0. n \in Nodes
  BY DEF Nodes
<1>1. CASE Reset(n, "Outside") /\ UNCHANGED net
  BY <1>1, AirShrinks, ResetQuiet
<1>2. CASE ~(Reset(n, "Outside") /\ UNCHANGED net)
  <2>1. /\ net' \subseteq net \/ \E h : Transmit(net, Frames(n, SD(n, h)))
        /\ UNCHANGED <<listVars, tableVars, slotVars, masterVars>>
    BY <1>2 DEF SD_TX
  <2>2. \A h : Silent(Frames(n, SD(n, h)))
    BY <1>0, SilentFrames DEF SD
  <2>3. TablesIn(net') \subseteq Tables /\ Answered(net') \subseteq Answered(net)
    BY <2>1, <2>2, AirShrinks, AirSilent
  <2>4. Registered' = Registered
    BY <2>1 DEF listVars, Registered
  <2> QED BY <2>1, <2>3, <2>4, QuietStep
<1> QED BY <1>1, <1>2

LEMMA SDRXQuiet ==
  ASSUME TypeOK, NEW c, SD_RX(c)
  PROVE  Quiet
<1> DEFINE n == c.to
           o == c.msg.source
<1>1. n \in Nodes /\ o \in Slaves
  BY ReceivedTyped DEF SD_RX, Received
<1>2. net' \subseteq net \/ \E h : Transmit(net \ {c}, Frames(n, SD(o, h)))
  BY DEF SD_RX
<1>3. \A h : Silent(Frames(n, SD(o, h)))
  BY <1>1, SilentFrames DEF SD
<1>4. TablesIn(net') \subseteq Tables /\ Answered(net') \subseteq Answered(net)
  BY <1>2, <1>3, AirShrinks, AirSilent
<1>5. insertSubSlave(n, o) /\ UNCHANGED <<tableVars, slotVars, masterVars>>
  BY DEF SD_RX
<1> QED BY <1>1, <1>4, <1>5, RegisteredGrows, QuietStep

LEMMA HearQuiet ==
  ASSUME NEW n \in Slaves, NEW h \in Nodes, Hear(n, h)
  PROVE  Quiet
<1>1. /\ UNCHANGED <<listVars, tableVars, slotVars, masterVars>>
      /\ net' = net \/ Transmit(net, Frames(n, NE(n, h)))
  BY DEF Hear, PB_RX_Outside, PB_RX_Inside, PB_RX_Waiting, PR_RX, PC_RX
<1>2. Silent(Frames(n, NE(n, h)))
  BY SilentFrames DEF NE, Nodes
<1>3. TablesIn(net') \subseteq Tables /\ Answered(net') \subseteq Answered(net)
  BY <1>1, <1>2, AirShrinks, AirSilent
<1>4. Registered' = Registered
  BY <1>1 DEF listVars, Registered
<1> QED BY <1>1, <1>3, <1>4, QuietStep

LEMMA RetransmitTBQuiet ==
  ASSUME TypeOK, RetransmitTB
  PROVE  Quiet
<1>1. rTB \in TBs /\ rTB # None
  BY DEF RetransmitTB, TypeOK, MasterTyped
<1>2. \A f \in Frames(Master, rTB) : f.msg = rTB
  BY DEF Frames
<1>3. Silent(Frames(Master, rTB))
  <2>1. TablesIn(Frames(Master, rTB)) \subseteq TablesAtMaster
    BY <1>1, <1>2 DEF TablesIn, TablesAtMaster
  <2>2. Answered(Frames(Master, rTB)) = {}
    BY <1>1, <1>2 DEF Answered, TBs
  <2> QED BY <2>1, <2>2 DEF Silent, Tables
<1>4. TablesIn(net') \subseteq Tables /\ Answered(net') \subseteq Answered(net)
  BY <1>3, AirSilent DEF RetransmitTB
<1>5. rTB'.ips = rTB.ips /\ rTB'.gen = rTB.gen
  BY <1>1 DEF RetransmitTB, TBs
<1>6. TablesAtMaster' \subseteq TablesAtMaster
  BY <1>1, <1>5 DEF TablesAtMaster
<1>7. /\ TablesHeld' = TablesHeld /\ Registered' = Registered /\ tbGen' = tbGen
  BY DEF RetransmitTB, listVars, tableVars, slotVars, TablesHeld, Registered
<1>8. Tables' = TablesIn(net') \cup TablesHeld' \cup TablesAtMaster'
  BY DEF Tables
<1> QED BY <1>1, <1>4, <1>5, <1>6, <1>7, <1>8 DEF Quiet, Tables

LEMMA RepeatQuiet ==
  ASSUME NEW n \in Slaves, RetransmitNE(n) \/ RetransmitNER(n)
  PROVE  Quiet
<1>1. /\ UNCHANGED <<listVars, tableVars, slotVars, masterVars>>
      /\ \/ Transmit(net, Frames(n, NE(n, rNE[n].proxy)))
         \/ Transmit(net, Frames(n, NER(rNER[n].hop, rNER[n].outsider)))
  BY DEF RetransmitNE, RetransmitNER
<1>2. /\ Silent(Frames(n, NE(n, rNE[n].proxy)))
      /\ Silent(Frames(n, NER(rNER[n].hop, rNER[n].outsider)))
  BY SilentFrames DEF NE, NER, Nodes
<1>3. TablesIn(net') \subseteq Tables /\ Answered(net') \subseteq Answered(net)
  BY <1>1, <1>2, AirSilent
<1>4. Registered' = Registered
  BY <1>1 DEF listVars, Registered
<1> QED BY <1>1, <1>3, <1>4, QuietStep

LEMMA LoseQuiet ==
  ASSUME NEW c, Lose(c) \/ UNCHANGED vars
  PROVE  Quiet
<1>1. /\ UNCHANGED <<listVars, tableVars, slotVars, masterVars>>
      /\ net' \subseteq net
  BY DEF Lose, vars
<1>2. Registered' = Registered
  BY <1>1 DEF listVars, Registered
<1> QED BY <1>1, <1>2, AirShrinks, QuietStep

(* No step makes tables in any other way. *)
LEMMA NextKind ==
  ASSUME TypeOK, [Next]_vars
  PROVE  Quiet \/ Generates
<1>1. ASSUME NEW c \in net, Receive(c) PROVE Quiet \/ Generates
  BY <1>1, MasterNEKind, ProxyNEQuiet, NEPQuiet, MasterNERKind, ForwardNERQuiet,
     NEAQuiet, TBEvictedQuiet, TBListedQuiet, MasterTAQuiet, RelayTAQuiet, SDRXQuiet
     DEF Receive
<1>2. ASSUME NEW c \in net, Lose(c) PROVE Quiet
  BY <1>2, LoseQuiet
<1>3. ASSUME NEW n \in Slaves, NEW h \in Nodes, Hear(n, h) PROVE Quiet
  BY <1>3, HearQuiet
<1>4. ASSUME NEW n \in Slaves, SD_TX(n) \/ RetransmitNE(n) \/ RetransmitNER(n)
      PROVE  Quiet
  BY <1>4, SDTXQuiet, RepeatQuiet
<1>5. CASE RetransmitTB
  BY <1>5, RetransmitTBQuiet
<1>6. CASE UNCHANGED vars
  BY <1>6, LoseQuiet
<1> QED BY <1>1, <1>2, <1>3, <1>4, <1>5, <1>6 DEF Next

-----------------------------------------------------------------------------
(* The tables keep agreeing. *)

(* A well-formed table lists the master and registered slaves only. *)
LEMMA WellFormedRange ==
  ASSUME NEW t, WellFormed(t)
  PROVE  Range(t.ips) \subseteq {Master} \cup Registered
<1> SUFFICES ASSUME NEW i \in 1 .. Len(t.ips)
             PROVE  t.ips[i] \in {Master} \cup Registered
  BY DEF Range, WellFormed
<1>1. CASE i = 1
  BY <1>1 DEF WellFormed
<1>2. CASE i # 1
  <2>1. Len(t.ips) \in Nat
    BY DEF WellFormed
  <2>2. i \in 2 .. Len(t.ips)
    BY <1>2, <2>1
  <2> QED BY <2>2 DEF WellFormed
<1> QED BY <1>1, <1>2

(* The table the master makes: itself first, then its SubSlaves. *)
LEMMA TableOfList ==
  ASSUME NEW list \in Seq(Slaves)
  PROVE  /\ <<Master>> \o list \in Seq(Nodes)
         /\ Len(<<Master>> \o list) = Len(list) + 1
         /\ (<<Master>> \o list)[1] = Master
         /\ \A i \in 2 .. Len(list) + 1 : (<<Master>> \o list)[i] = list[i - 1]
         /\ Range(<<Master>> \o list) = {Master} \cup Range(list)
<1> DEFINE ips == <<Master>> \o list
<1>1. ips \in Seq(Nodes)
  <2>1. <<Master>> \in Seq(Nodes) /\ list \in Seq(Nodes)
    BY DEF Nodes
  <2> QED BY <2>1
<1>2. /\ Len(ips) = Len(list) + 1 /\ ips[1] = Master
      /\ \A i \in 2 .. Len(list) + 1 : ips[i] = list[i - 1]
  OBVIOUS
<1>3. DOMAIN ips = 1 .. Len(list) + 1
  BY <1>1, <1>2
<1>4. Range(ips) \subseteq {Master} \cup Range(list)
  <2> SUFFICES ASSUME NEW i \in 1 .. Len(list) + 1
               PROVE  ips[i] \in {Master} \cup Range(list)
    BY <1>3 DEF Range
  <2>1. CASE i = 1
    BY <1>2, <2>1
  <2>2. CASE i # 1
    <3>1. i \in 2 .. Len(list) + 1 /\ i - 1 \in 1 .. Len(list)
      BY <2>2
    <3> QED BY <1>2, <3>1 DEF Range
  <2> QED BY <2>1, <2>2
<1>5. {Master} \cup Range(list) \subseteq Range(ips)
  <2>1. Master \in Range(ips)
    <3>1. 1 \in 1 .. Len(list) + 1
      OBVIOUS
    <3> QED BY <1>2, <1>3, <3>1 DEF Range
  <2>2. ASSUME NEW j \in 1 .. Len(list)
        PROVE  list[j] \in Range(ips)
    <3>1. j + 1 \in 2 .. Len(list) + 1 /\ j + 1 \in 1 .. Len(list) + 1
      OBVIOUS
    <3>2. ips[j + 1] = list[j]
      BY <1>2, <3>1
    <3> QED BY <1>3, <3>1, <3>2 DEF Range
  <2>3. Range(list) = {list[j] : j \in 1 .. Len(list)}
    BY DEF Range
  <2> QED BY <2>1, <2>2, <2>3
<1> QED BY <1>1, <1>2, <1>4, <1>5

LEMMA QuietTables ==
  ASSUME TypeOK, TablesGrow, Quiet
  PROVE  TablesGrow'
<1>1. ASSUME NEW t \in Tables' PROVE WellFormed(t)'
  <2>1. WellFormed(t)
    BY <1>1 DEF Quiet, TablesGrow
  <2> QED BY <2>1 DEF Quiet, WellFormed
<1>2. ASSUME NEW t1 \in Tables', NEW t2 \in Tables' PROVE Later(t1, t2)
  BY <1>2 DEF Quiet, TablesGrow
<1> QED BY <1>1, <1>2 DEF TablesGrow, Later

LEMMA GeneratesTables ==
  ASSUME TypeOK, TypeOK', TablesGrow, Generates
  PROVE  TablesGrow'
<1> DEFINE list == subSlaves'[Master]
<1>0. PICK new : new = [gen |-> tbGen + 1, ips |-> <<Master>> \o list]
  OBVIOUS
<1>1. list \in Seq(Slaves)
  BY DEF TypeOK, ListsTyped, Nodes
<1>2. tbGen \in Nat /\ Len(list) \in Nat
  BY <1>1, NumbersAssumption DEF TypeOK, MasterTyped
<1>3. Range(new.ips) = {Master} \cup Registered'
  BY <1>0, <1>1, TableOfList DEF Registered
<1>4. WellFormed(new)'
  <2>1. new.gen \in 1 .. tbGen'
    BY <1>0, <1>2 DEF Generates
  <2>2. new.ips \in Seq(Nodes) /\ new.ips # <<>> /\ new.ips[1] = Master
    <3>1. Len(new.ips) # 0
      BY <1>0, <1>1, <1>2, TableOfList
    <3> QED BY <1>0, <1>1, <3>1, TableOfList
  <2>3. ASSUME NEW i \in 2 .. Len(new.ips) PROVE new.ips[i] \in Registered'
    <3>1. i - 1 \in 1 .. Len(list) /\ new.ips[i] = list[i - 1]
      BY <1>0, <1>1, <1>2, TableOfList
    <3> QED BY <3>1, <1>1 DEF Registered, Range
  <2> QED BY <2>1, <2>2, <2>3 DEF WellFormed
<1>5. ASSUME NEW t \in Tables PROVE WellFormed(t)'
  <2>1. WellFormed(t)
    BY DEF TablesGrow
  <2> QED BY <2>1, <1>2 DEF WellFormed, Generates
<1>6. ASSUME NEW t \in Tables PROVE Later(t, new) /\ Later(new, t)
  <2>1. WellFormed(t)
    BY DEF TablesGrow
  <2>2. t.gen \in 1 .. tbGen
    BY <2>1 DEF WellFormed
  <2>3. Range(t.ips) \subseteq Range(new.ips)
    BY <2>1, <1>3, WellFormedRange DEF Generates
  <2>4. t.gen < new.gen
    BY <1>0, <1>2, <2>2
  <2> QED BY <1>0, <1>2, <2>2, <2>3, <2>4 DEF Later
<1>7. Later(new, new)
  BY DEF Later
<1>8. Tables' \subseteq Tables \cup {new}
  BY <1>0 DEF Generates
<1>9. ASSUME NEW t \in Tables' PROVE WellFormed(t)'
  BY <1>4, <1>5, <1>8, <1>9
<1>10. ASSUME NEW t1 \in Tables', NEW t2 \in Tables' PROVE Later(t1, t2)
  BY <1>6, <1>7, <1>8, <1>10 DEF TablesGrow
<1> QED BY <1>9, <1>10 DEF TablesGrow, Later

-----------------------------------------------------------------------------
(* Slots stay places in the tables they come from. *)

LEMMA SlotsKept ==
  ASSUME SlotsFromTables, UNCHANGED <<localSlot, sync, prevTable>>
  PROVE  SlotsFromTables'
BY DEF SlotsFromTables

LEMMA ResetSlots ==
  ASSUME TypeOK, SlotsFromTables, NEW n \in Slaves, NEW st, Reset(n, st)
  PROVE  SlotsFromTables'
<1>1. n \in Nodes /\ Master \in Nodes /\ n # Master
  BY NodesAssumption DEF Nodes
<1>2. /\ sync'[n] = 0 /\ localSlot'[n] = -1 /\ prevTable'[n] = <<>>
      /\ \A k \in Nodes : k # n => /\ sync'[k] = sync[k]
                                   /\ localSlot'[k] = localSlot[k]
                                   /\ prevTable'[k] = prevTable[k]
  BY <1>1 DEF Reset, TypeOK, SlotsTyped, TablesTyped
<1>3. Slaves \subseteq Nodes
  BY DEF Nodes
<1> QED BY <1>1, <1>2, <1>3 DEF SlotsFromTables

LEMMA BeginSlots ==
  ASSUME TypeOK, SlotsFromTables, NEW list, NEW rest, NEW answer,
         beginTBTransmission(list, rest, answer), UNCHANGED tableVars
  PROVE  SlotsFromTables'
<1>1. CASE UNCHANGED slotVars
  BY <1>1, SlotsKept DEF slotVars, tableVars
<1>2. CASE generateTB(list)
  <2>1. /\ localSlot' = [localSlot EXCEPT ![Master] = 0]
        /\ sync' = [sync EXCEPT ![Master] = tbGen + 1]
    BY <1>2 DEF generateTB, NewTB
  <2>2. Master \in Nodes /\ Slaves \subseteq Nodes /\ Master \notin Slaves
    BY NodesAssumption DEF Nodes
  <2>3. localSlot'[Master] = 0
    BY <2>1, <2>2 DEF TypeOK, SlotsTyped
  <2>4. \A k \in Slaves : localSlot'[k] = localSlot[k] /\ sync'[k] = sync[k]
    BY <2>1, <2>2 DEF TypeOK, SlotsTyped
  <2> QED BY <2>3, <2>4 DEF SlotsFromTables, tableVars
<1> QED BY <1>1, <1>2 DEF beginTBTransmission

LEMMA TBEvictedSlots ==
  ASSUME TypeOK, SlotsFromTables, NEW c, TB_RX_Evicted(c)
  PROVE  SlotsFromTables'
<1>1. c.to \in Slaves /\ Master \notin Slaves /\ Slaves \subseteq Nodes /\ Master \in Nodes
  BY NodesAssumption DEF TB_RX_Evicted, Nodes
<1>2. /\ localSlot' = [localSlot EXCEPT ![c.to] = -1]
      /\ sync' = sync /\ prevTable' = prevTable
  BY DEF TB_RX_Evicted, tableVars
<1>3. /\ localSlot'[c.to] = -1
      /\ \A k \in Nodes : k # c.to => localSlot'[k] = localSlot[k]
  BY <1>1, <1>2 DEF TypeOK, SlotsTyped
<1> QED BY <1>1, <1>2, <1>3 DEF SlotsFromTables

LEMMA TBListedSlots ==
  ASSUME TypeOK, SlotsFromTables, NEW c, TB_RX_Listed(c)
  PROVE  SlotsFromTables'
<1> DEFINE n == c.to
           m == c.msg
<1>1. n \in Slaves /\ Master \notin Slaves /\ Slaves \subseteq Nodes /\ Master \in Nodes
  BY NodesAssumption DEF TB_RX_Listed, Nodes
<1>2. m \in TBs /\ n \in Range(m.ips)
  BY ReceivedTyped DEF TB_RX_Listed
<1>3. m.gen # 0
  BY <1>2, NumbersAssumption DEF TBs
<1>4. /\ localSlot' = [localSlot EXCEPT ![n] = SlotOf(m.ips, n)]
      /\ sync' = [sync EXCEPT ![n] = m.gen]
      /\ prevTable' = [prevTable EXCEPT ![n] = m.ips]
  BY DEF TB_RX_Listed
<1>5. localSlot'[n] = SlotOf(m.ips, n) /\ sync'[n] = m.gen /\ prevTable'[n] = m.ips
  BY <1>1, <1>4 DEF TypeOK, SlotsTyped, TablesTyped
<1>6. \A k \in Nodes : k # n => /\ localSlot'[k] = localSlot[k]
                                /\ sync'[k] = sync[k]
                                /\ prevTable'[k] = prevTable[k]
  BY <1>1, <1>4 DEF TypeOK, SlotsTyped, TablesTyped
<1> QED BY <1>1, <1>2, <1>3, <1>5, <1>6 DEF SlotsFromTables

(* Steps that only lose, hear or send something keep the slots. *)
LEMMA OthersKeepSlots ==
  ASSUME \/ \E c \in net : Lose(c)
         \/ \E n \in Slaves, h \in Nodes : Hear(n, h)
         \/ \E n \in Slaves : RetransmitNE(n) \/ RetransmitNER(n)
         \/ RetransmitTB
         \/ UNCHANGED vars
  PROVE  UNCHANGED <<localSlot, sync, prevTable>>
<1>1. ASSUME NEW n \in Slaves, NEW h \in Nodes, Hear(n, h)
      PROVE  UNCHANGED <<localSlot, sync, prevTable>>
  <2>1. CASE PB_RX_Outside(n, h) \/ PB_RX_Inside(n, h) \/ PB_RX_Waiting(n, h)
    BY <2>1 DEF PB_RX_Outside, PB_RX_Inside, PB_RX_Waiting, tableVars, slotVars
  <2>2. CASE PR_RX(h, n) \/ PC_RX(n, h)
    BY <2>2 DEF PR_RX, PC_RX, tableVars, slotVars
  <2> QED BY <1>1, <2>1, <2>2 DEF Hear
<1>2. ASSUME NEW n \in Slaves, RetransmitNE(n) \/ RetransmitNER(n)
      PROVE  UNCHANGED <<localSlot, sync, prevTable>>
  BY <1>2 DEF RetransmitNE, RetransmitNER, tableVars, slotVars
<1>3. ASSUME NEW c \in net, Lose(c)
      PROVE  UNCHANGED <<localSlot, sync, prevTable>>
  BY <1>3 DEF Lose, tableVars, slotVars
<1>4. CASE RetransmitTB \/ UNCHANGED vars
  BY <1>4 DEF RetransmitTB, vars, tableVars, slotVars
<1> QED BY <1>1, <1>2, <1>3, <1>4

LEMMA NextSlots ==
  ASSUME TypeOK, SlotsFromTables, [Next]_vars
  PROVE  SlotsFromTables'
<1>1. ASSUME NEW c \in net, Receive(c) PROVE SlotsFromTables'
  <2>1. CASE MasterNE_RX(c)
    BY <2>1, BeginSlots DEF MasterNE_RX
  <2>2. CASE MasterNER_RX(c)
    BY <2>2, BeginSlots DEF MasterNER_RX
  <2>3. CASE ProxyNE_RX(c)
    <3>1. CASE \E st : Reset(c.to, st)
      BY <2>3, <3>1, ResetSlots DEF ProxyNE_RX
    <3>2. CASE UNCHANGED <<tableVars, slotVars>>
      BY <3>2, SlotsKept DEF tableVars, slotVars
    <3> QED BY <2>3, <3>1, <3>2 DEF ProxyNE_RX, LosesWay
  <2>4. CASE ForwardNER_RX(c)
    <3>1. CASE \E st : Reset(c.to, st)
      BY <2>4, <3>1, ResetSlots DEF ForwardNER_RX
    <3>2. CASE UNCHANGED <<tableVars, slotVars>>
      BY <3>2, SlotsKept DEF tableVars, slotVars
    <3> QED BY <2>4, <3>1, <3>2 DEF ForwardNER_RX, LosesWay
  <2>5. CASE TB_RX_Evicted(c) \/ TB_RX_Listed(c)
    BY <2>5, TBEvictedSlots, TBListedSlots
  <2>6. CASE NEP_RX(c) \/ NEA_RX(c) \/ MasterTA_RX(c) \/ RelayTA_RX(c) \/ SD_RX(c)
    <3>1. UNCHANGED <<localSlot, sync, prevTable>>
      BY <2>6 DEF NEP_RX, NEA_RX, MasterTA_RX, RelayTA_RX, SD_RX, tableVars, slotVars
    <3> QED BY <3>1, SlotsKept
  <2> QED BY <1>1, <2>1, <2>2, <2>3, <2>4, <2>5, <2>6 DEF Receive
<1>2. ASSUME NEW n \in Slaves, SD_TX(n) PROVE SlotsFromTables'
  <2>1. CASE Reset(n, "Outside")
    BY <2>1, ResetSlots
  <2>2. CASE ~Reset(n, "Outside")
    <3>1. UNCHANGED <<localSlot, sync, prevTable>>
      BY <1>2, <2>2 DEF SD_TX, tableVars, slotVars
    <3> QED BY <3>1, SlotsKept
  <2> QED BY <2>1, <2>2
<1>3. ASSUME \/ \E c \in net : Lose(c)
             \/ \E n \in Slaves, h \in Nodes : Hear(n, h)
             \/ \E n \in Slaves : RetransmitNE(n) \/ RetransmitNER(n)
             \/ RetransmitTB
             \/ UNCHANGED vars
      PROVE  SlotsFromTables'
  <2>1. UNCHANGED <<localSlot, sync, prevTable>>
    BY <1>3, OthersKeepSlots
  <2> QED BY <2>1, SlotsKept
<1> QED BY <1>1, <1>2, <1>3 DEF Next

-----------------------------------------------------------------------------
(* The inductive invariant and what follows from it. *)

(* The TB under way is the last one made. *)
Current == rTB # None => rTB.gen = tbGen

AgreeInv == TypeOK /\ TablesAgree /\ Current

LEMMA InitAgree == Init => AgreeInv
<1> SUFFICES ASSUME Init PROVE AgreeInv
  OBVIOUS
<1>1. Tables = {}
  BY NumbersAssumption DEF Init, Tables, TablesIn, TablesHeld, TablesAtMaster, Nodes
<1>2. SlotsFromTables
  BY DEF Init, SlotsFromTables, Nodes
<1>3. Current
  BY DEF Init, Current
<1> QED BY <1>1, <1>2, <1>3, InitTyped DEF AgreeInv, TablesAgree, TablesGrow

LEMMA NextAgree == AgreeInv /\ [Next]_vars => AgreeInv'
<1> SUFFICES ASSUME AgreeInv, [Next]_vars PROVE AgreeInv'
  OBVIOUS
<1>1. TypeOK /\ TablesGrow /\ SlotsFromTables
  BY DEF AgreeInv, TablesAgree
<1>2. TypeOK'
  BY <1>1, NextTyped
<1>3. Quiet \/ Generates
  BY <1>1, NextKind
<1>4. TablesGrow'
  BY <1>1, <1>2, <1>3, QuietTables, GeneratesTables
<1>5. SlotsFromTables'
  BY <1>1, NextSlots
<1>6. Current'
  BY <1>3 DEF AgreeInv, Current, Quiet, Generates
<1> QED BY <1>2, <1>4, <1>5, <1>6 DEF AgreeInv, TablesAgree

LEMMA AgreeAlways == Spec => []AgreeInv
BY InitAgree, NextAgree, PTL DEF Spec

(* All the time tables in the network agree, however many slaves there are *)
(* and however they are linked: generateTB is the only source of tables,   *)
(* TB_RX relays them as they are and SubSlaves of the master only grow.    *)
THEOREM TablesAlwaysAgree == Spec => []TablesAgree
BY AgreeAlways, PTL DEF AgreeInv

(* Two slaves with slots for one time took the same table, in which their  *)
(* slots are the places of different nodes.                                *)
LEMMA AgreeExclusive == AgreeInv => SlotsExclusive
<1> SUFFICES ASSUME AgreeInv, NEW n1 \in Nodes, NEW n2 \in Nodes, n1 # n2,
                    sync[n1] # 0, sync[n1] = sync[n2],
                    localSlot[n1] >= 0, localSlot[n2] >= 0,
                    localSlot[n1] = localSlot[n2]
             PROVE  FALSE
  BY DEF SlotsExclusive
<1>0. TypeOK /\ TablesGrow /\ SlotsFromTables
  BY DEF AgreeInv, TablesAgree
<1>1. ASSUME NEW n \in Slaves, sync[n] # 0, localSlot[n] >= 0
      PROVE  /\ WellFormed([gen |-> sync[n], ips |-> prevTable[n]])
             /\ [gen |-> sync[n], ips |-> prevTable[n]] \in Tables
             /\ prevTable[n][localSlot[n] + 1] = n
  <2>1. [gen |-> sync[n], ips |-> prevTable[n]] \in Tables
    BY <1>1 DEF Tables, TablesHeld
  <2>2. n \in Range(prevTable[n]) /\ localSlot[n] = SlotOf(prevTable[n], n)
    BY <1>0, <1>1 DEF SlotsFromTables
  <2>3. prevTable[n] \in Seq(Nodes)
    BY <1>0 DEF TypeOK, TablesTyped, Nodes
  <2> QED BY <1>0, <2>1, <2>2, <2>3, SlotOfTable DEF TablesGrow
<1>2. ASSUME NEW n \in Slaves, sync[n] # 0, localSlot[n] = 0
      PROVE  FALSE
  <2>0. localSlot[n] >= 0 /\ localSlot[n] + 1 = 1
    BY <1>2
  <2>1. prevTable[n][localSlot[n] + 1] = n
    BY <1>1, <1>2, <2>0
  <2>2. prevTable[n][1] = Master
    BY <1>1, <1>2, <2>0 DEF WellFormed
  <2> QED BY <2>0, <2>1, <2>2, NodesAssumption
<1>3. sync[Master] # 0 => localSlot[Master] = 0
  BY <1>0 DEF SlotsFromTables
<1>4. CASE n1 \in Slaves /\ n2 \in Slaves
  <2>1. prevTable[n1] = prevTable[n2]
    BY <1>0, <1>1, <1>4 DEF TablesGrow, Later
  <2> QED BY <1>1, <1>4, <2>1
<1>5. CASE n1 = Master \/ n2 = Master
  BY <1>2, <1>3, <1>5 DEF Nodes
<1> QED BY <1>4, <1>5 DEF Nodes

(* No two nodes ever own one slot of one time table: what the sending      *)
(* times that WF_dispatcher derives from local_slot and sync rest on.      *)
THEOREM SlotsAlwaysExclusive == Spec => []SlotsExclusive
BY AgreeAlways, AgreeExclusive, PTL

-----------------------------------------------------------------------------
(* Whoever is inside is registered. *)

InsideInv == AgreeInv /\ InsideIsRegistered

LEMMA RegisteredKept ==
  ASSUME TypeOK, [Next]_vars
  PROVE  Registered \subseteq Registered'
BY NextKind DEF Quiet, Generates

(* Only a TB that lists it lets a slave in. *)
LEMMA OnlyTBLetsIn ==
  ASSUME TypeOK, [Next]_vars, NEW n \in Slaves, status'[n] = "Inside"
  PROVE  \/ status[n] = "Inside"
         \/ \E c \in net : c.to = n /\ TB_RX_Listed(c)
<1>0. n \in Nodes
  BY DEF Nodes
<1>1. ASSUME NEW st \in {"Outside", "Waiting", "Crashed"}, NEW k,
             status' = [status EXCEPT ![k] = st]
      PROVE  status[n] = "Inside"
  BY <1>0, <1>1 DEF TypeOK, EntryTyped
<1>2. ASSUME NEW c \in net, Receive(c)
      PROVE  status[n] = "Inside" \/ (c.to = n /\ TB_RX_Listed(c))
  <2>1. CASE TB_RX_Listed(c)
    BY <1>0, <2>1 DEF TB_RX_Listed, TypeOK, EntryTyped
  <2>2. CASE ProxyNE_RX(c) \/ ForwardNER_RX(c)
    BY <1>1, <2>2 DEF ProxyNE_RX, ForwardNER_RX, LosesWay, Reset, entryVars
  <2>3. CASE NEP_RX(c) \/ TB_RX_Evicted(c)
    BY <1>1, <2>3 DEF NEP_RX, TB_RX_Evicted
  <2>4. CASE \/ MasterNE_RX(c) \/ MasterNER_RX(c) \/ NEA_RX(c)
             \/ MasterTA_RX(c) \/ RelayTA_RX(c) \/ SD_RX(c)
    BY <2>4 DEF MasterNE_RX, MasterNER_RX, NEA_RX, MasterTA_RX, RelayTA_RX, SD_RX,
                entryVars
  <2> QED BY <1>2, <2>1, <2>2, <2>3, <2>4 DEF Receive
<1>3. ASSUME NEW k \in Slaves, NEW h \in Nodes, Hear(k, h)
      PROVE  status[n] = "Inside"
  BY <1>1, <1>3 DEF Hear, PB_RX_Outside, PB_RX_Inside, PB_RX_Waiting, PR_RX, PC_RX,
                    entryVars
<1>4. ASSUME NEW k \in Slaves, SD_TX(k) \/ RetransmitNE(k) \/ RetransmitNER(k)
      PROVE  status[n] = "Inside"
  BY <1>1, <1>4 DEF SD_TX, RetransmitNE, RetransmitNER, Reset, entryVars
<1>5. CASE (\E c \in net : Lose(c)) \/ RetransmitTB \/ UNCHANGED vars
  BY <1>5 DEF Lose, RetransmitTB, vars, entryVars
<1> QED BY <1>2, <1>3, <1>4, <1>5 DEF Next

LEMMA NextInside == InsideInv /\ [Next]_vars => InsideInv'
<1> SUFFICES ASSUME InsideInv, [Next]_vars, NEW n \in Slaves, status'[n] = "Inside"
             PROVE  n \in Registered'
  BY NextAgree DEF InsideInv, InsideIsRegistered
<1>1. TypeOK /\ TablesGrow
  BY DEF InsideInv, AgreeInv, TablesAgree
<1>2. n \in Registered
  <2>1. CASE status[n] = "Inside"
    BY <2>1 DEF InsideInv, InsideIsRegistered
  <2>2. ASSUME NEW c \in net, c.to = n, TB_RX_Listed(c)
        PROVE  n \in Registered
    <3>1. [gen |-> c.msg.gen, ips |-> c.msg.ips] \in Tables
      BY <2>2 DEF TB_RX_Listed, Received, Tables, TablesIn
    <3>2. Range(c.msg.ips) \subseteq {Master} \cup Registered
      BY <1>1, <3>1, WellFormedRange DEF TablesGrow
    <3> QED BY <2>2, <3>2, NodesAssumption DEF TB_RX_Listed
  <2> QED BY <1>1, <2>1, <2>2, OnlyTBLetsIn
<1> QED BY <1>1, <1>2, RegisteredKept

(* A slave takes itself to be inside only when the master has it among its *)
(* SubSlaves, whatever relays and lost frames lie between them.            *)
THEOREM InsideAlwaysRegistered == Spec => []InsideIsRegistered
<1>1. Init => InsideInv
  BY InitAgree DEF Init, InsideInv, InsideIsRegistered, Nodes
<1> QED BY <1>1, NextInside, PTL DEF Spec, InsideInv

-----------------------------------------------------------------------------
(* Promises *)

LEMMA PromisesAsAnswered ==
  PromisesKept <=> \A o \in Answered(net) : Promised(o)
BY DEF PromisesKept, Answered

LEMMA NextPromises ==
  ASSUME TypeOK, TypeOK', PromisesKept, [Next]_vars
  PROVE  PromisesKept'
<1>1. \A o \in Answered(net) : Promised(o)
  BY PromisesAsAnswered
<1>2. CASE Quiet
  <2>1. \A o : Promised(o) => Promised(o)'
    BY <1>2 DEF Quiet, Promised
  <2> QED BY <1>1, <1>2, <2>1 DEF Quiet, PromisesKept, Answered
<1>3. CASE Generates
  <2>1. subSlaves'[Master] \in Seq(Slaves)
    BY DEF TypeOK, ListsTyped, Nodes
  <2>2. \A o \in Registered' : o \in Range(rTB'.ips)
    BY <1>3, <2>1, TableOfList DEF Generates, Registered
  <2>3. Answered(net') \subseteq Registered'
    BY <1>1, <1>3 DEF Generates, Promised
  <2> QED BY <2>2, <2>3 DEF PromisesKept, Answered, Promised
<1> QED BY <1>2, <1>3, NextKind

(* The master answers only slaves that have a slot in the table it is      *)
(* retransmitting, and the table keeps it until the answer arrives.        *)
THEOREM PromisesAlwaysKept == Spec => []PromisesKept
<1>1. Init => PromisesKept
  BY DEF Init, PromisesKept
<1>2. TypeOK /\ TypeOK' /\ PromisesKept /\ [Next]_vars => PromisesKept'
  BY NextPromises
<1> QED BY <1>1, <1>2, TypeCorrect, PTL DEF Spec

-----------------------------------------------------------------------------
(* Evictions *)

(* Only a TB that does not list it, or a restart, takes a slave's slot.    *)
LEMMA OnlyTBEvicts ==
  ASSUME TypeOK, Next, NEW n \in Slaves,
         localSlot[n] >= 0, localSlot'[n] = -1, sync[n] # 0, sync'[n] = sync[n]
  PROVE  \E c \in net : c.to = n /\ TB_RX_Evicted(c)
<1>0. n \in Nodes /\ Master \in Nodes /\ n # Master
  BY NodesAssumption DEF Nodes
<1>1. localSlot # localSlot'
  OBVIOUS
<1>2. ASSUME NEW k \in Slaves, NEW st, Reset(k, st) PROVE FALSE
  <2>1. /\ localSlot' = [localSlot EXCEPT ![k] = -1]
        /\ sync' = [sync EXCEPT ![k] = 0]
    BY <1>2 DEF Reset
  <2> QED BY <1>0, <2>1 DEF TypeOK, SlotsTyped
<1>3. ASSUME NEW list, NEW rest, NEW answer, beginTBTransmission(list, rest, answer)
      PROVE  FALSE
  <2>1. localSlot' = [localSlot EXCEPT ![Master] = 0]
    BY <1>1, <1>3 DEF beginTBTransmission, generateTB, NewTB, slotVars
  <2> QED BY <1>0, <2>1 DEF TypeOK, SlotsTyped
<1>4. ASSUME NEW c \in net, Receive(c) PROVE c.to = n /\ TB_RX_Evicted(c)
  <2>1. CASE TB_RX_Evicted(c)
    BY <1>0, <2>1 DEF TB_RX_Evicted, TypeOK, SlotsTyped
  <2>2. CASE TB_RX_Listed(c)
    <3>1. c.msg.ips \in Seq(Nodes) /\ c.to \in Range(c.msg.ips)
      BY <2>2, ReceivedTyped DEF TB_RX_Listed, TBs
    <3>2. SlotOf(c.msg.ips, c.to) \in 0 .. Len(c.msg.ips) - 1
      BY <3>1, SlotOfTable
    <3>3. SlotOf(c.msg.ips, c.to) # -1
      BY <3>2
    <3> QED BY <1>0, <2>2, <3>3 DEF TB_RX_Listed, TypeOK, SlotsTyped
  <2>3. CASE MasterNE_RX(c) \/ MasterNER_RX(c)
    BY <1>3, <2>3 DEF MasterNE_RX, MasterNER_RX
  <2>4. CASE ProxyNE_RX(c) \/ ForwardNER_RX(c)
    BY <1>1, <1>2, <2>4 DEF ProxyNE_RX, ForwardNER_RX, LosesWay, slotVars
  <2>5. CASE NEP_RX(c) \/ NEA_RX(c) \/ MasterTA_RX(c) \/ RelayTA_RX(c) \/ SD_RX(c)
    BY <1>1, <2>5 DEF NEP_RX, NEA_RX, MasterTA_RX, RelayTA_RX, SD_RX, slotVars
  <2> QED BY <1>4, <2>1, <2>2, <2>3, <2>4, <2>5 DEF Receive
<1>5. ASSUME NEW k \in Slaves, SD_TX(k) PROVE FALSE
  BY <1>1, <1>2, <1>5 DEF SD_TX, slotVars
<1>6. CASE \/ \E c \in net : Lose(c)
           \/ \E k \in Slaves, h \in Nodes : Hear(k, h)
           \/ \E k \in Slaves : RetransmitNE(k) \/ RetransmitNER(k)
           \/ RetransmitTB
  BY <1>1, <1>6, OthersKeepSlots
<1> QED BY <1>4, <1>5, <1>6 DEF Next

LEMMA StepEvicts ==
  ASSUME AgreeInv, [Next]_vars, NEW n \in Slaves,
         localSlot[n] >= 0, localSlot'[n] = -1, sync'[n] = sync[n]
  PROVE  \E c \in net \ net' :
           c.to = n /\ c.msg.type = "TB" /\ c.msg.gen < sync[n]
<1>1. TypeOK /\ TablesGrow /\ SlotsFromTables
  BY DEF AgreeInv, TablesAgree
<1>2. sync[n] # 0 /\ n \in Range(prevTable[n])
  BY <1>1 DEF SlotsFromTables
<1>3. Next
  BY DEF vars, slotVars
<1>4. PICK c \in net : c.to = n /\ TB_RX_Evicted(c)
  BY <1>1, <1>2, <1>3, OnlyTBEvicts
<1>5. c.msg \in TBs /\ c.msg.type = "TB" /\ n \notin Range(c.msg.ips) /\ c \notin net'
  BY <1>1, <1>4, ReceivedTyped DEF TB_RX_Evicted, Received
<1>6. /\ [gen |-> c.msg.gen, ips |-> c.msg.ips] \in Tables
      /\ [gen |-> sync[n], ips |-> prevTable[n]] \in Tables
  BY <1>2, <1>5 DEF Tables, TablesIn, TablesHeld
<1>7. ~(sync[n] <= c.msg.gen)
  BY <1>1, <1>2, <1>5, <1>6 DEF TablesGrow, Later
<1>8. sync[n] \in Int /\ c.msg.gen \in Int
  BY <1>1, <1>5 DEF TypeOK, SlotsTyped, TBs, Nodes
<1> QED BY <1>4, <1>5, <1>7, <1>8

(* A slave with a slot loses it only to a TB older than its own table, or  *)
(* by starting anew.                                                       *)
THEOREM OnlyStaleTablesEverEvict == Spec => OnlyStaleTablesEvict
<1>1. AgreeInv /\ [Next]_vars =>
        [\A n \in Slaves :
           localSlot[n] >= 0 /\ localSlot'[n] = -1 /\ sync'[n] = sync[n] =>
             \E c \in net \ net' :
               c.to = n /\ c.msg.type = "TB" /\ c.msg.gen < sync[n]]_vars
  BY StepEvicts
<1> QED BY <1>1, AgreeAlways, PTL DEF Spec, OnlyStaleTablesEvict

-----------------------------------------------------------------------------
(* While no route expires: the ways to the master.                         *)

(* Nobody has crashed; a slave says that it knows a way only when it does, *)
(* and its next hops do; whoever is asked, or will be, knows one; and a TA *)
(* is of a slave that has taken a table.  A way once known stays known, and *)
(* no slave starts anew.                                                   *)
WaysHold ==
  /\ \A n \in Slaves : Alive(n)
  /\ \A n \in Nodes : pb[n] # "off" => pb[n] = "finite" /\ HasRoute(n)
  /\ \A n, h \in Nodes : route[n][h] = "usable" => HasRoute(h)

Asked ==
  /\ \A c \in net : c.msg.type \in {"NE", "NER"} => HasRoute(c.to)
  /\ \A n \in Nodes : rNE[n] # None => HasRoute(rNE[n].proxy)
  /\ \A n \in Nodes : rNER[n] # None => HasRoute(rNER[n].hop)

Acknowledged ==
  /\ \A c \in net : c.msg.type = "TA" => prevTable[c.msg.originator] # <<>>
  /\ rTB # None =>
       \A n \in Range(rTB.ips) \ rTB.bits : n = Master \/ prevTable[n] # <<>>

WaysInv == TypeOK /\ WaysHold /\ Asked /\ Acknowledged

(* What a step does to the ways. *)
Extends ==
  \A n, h \in Nodes :
    /\ route[n][h] = "usable" => route'[n][h] = "usable"
    /\ route'[n][h] = "usable" => route[n][h] = "usable" \/ HasRoute(h)

TablesStay == \A n \in Nodes : prevTable[n] # <<>> => prevTable'[n] # <<>>

(* A frame that may be put in the air. *)
Proper(c) ==
  /\ c.msg.type \in {"NE", "NER"} => HasRoute(c.to)
  /\ c.msg.type = "TA" => prevTable'[c.msg.originator] # <<>>

Struck ==
  rTB' # None =>
    \A n \in Range(rTB'.ips) \ rTB'.bits : n = Master \/ prevTable'[n] # <<>>

Advances ==
  /\ \A n \in Slaves : status'[n] # "Crashed"
  /\ Extends
  /\ \A n \in Nodes : pb'[n] # pb[n] => pb'[n] = "finite" /\ HasRoute(n)'
  /\ \A n \in Nodes : rNE'[n] # None => HasRoute(rNE'[n].proxy)
  /\ \A n \in Nodes : rNER'[n] # None => HasRoute(rNER'[n].hop)
  /\ TablesStay
  /\ \A c \in net' : c \in net \/ Proper(c)
  /\ Struck

LEMMA AdvancesKeeps ==
  ASSUME WaysHold, Asked, Acknowledged, TypeOK, TypeOK', Advances
  PROVE  WaysHold' /\ Asked' /\ Acknowledged'
<1>1. \A h \in Nodes : HasRoute(h) => HasRoute(h)'
  BY DEF Advances, Extends, HasRoute, Usable
<1>2. WaysHold'
  <2>1. \A n \in Slaves : Alive(n)'
    BY DEF Advances, Alive
  <2>2. \A n \in Nodes : pb'[n] # "off" => pb'[n] = "finite" /\ HasRoute(n)'
    BY <1>1 DEF Advances, WaysHold
  <2>3. \A n, h \in Nodes : route'[n][h] = "usable" => HasRoute(h)'
    BY <1>1 DEF Advances, Extends, WaysHold
  <2> QED
    BY <2>1, <2>2, <2>3 DEF WaysHold
<1>3. Asked'
  <2>1. \A c \in net' : c.msg.type \in {"NE", "NER"} => HasRoute(c.to)'
    BY <1>1 DEF Advances, Proper, Asked, TypeOK, Frame
  <2>2. \A n \in Nodes : rNE'[n] # None => rNE'[n].proxy \in Nodes
    BY DEF TypeOK, EntryTyped
  <2>3. \A n \in Nodes : rNER'[n] # None => rNER'[n].hop \in Nodes
    BY DEF TypeOK, EntryTyped
  <2>4. (\A n \in Nodes : rNE[n] # None => HasRoute(rNE[n].proxy))'
    BY <1>1, <2>2 DEF Advances, HasRoute
  <2>5. (\A n \in Nodes : rNER[n] # None => HasRoute(rNER[n].hop))'
    BY <1>1, <2>3 DEF Advances, HasRoute
  <2> QED
    BY <2>1, <2>4, <2>5 DEF Asked
<1>4. Acknowledged'
  <2>1. \A c \in net : c.msg.type = "TA" => c.msg.originator \in Nodes
    BY DEF TypeOK, Frame, Message, TBs, Nodes
  <2>2. \A c \in net' : c.msg.type = "TA" => prevTable'[c.msg.originator] # <<>>
    BY <2>1 DEF Advances, Proper, TablesStay, Acknowledged
  <2> QED
    BY <2>2 DEF Advances, Struck, Acknowledged
<1> QED
  BY <1>2, <1>3, <1>4

-----------------------------------------------------------------------------
LEMMA NothingExpires ==
  ASSUME ~RoutesExpire, NEW r \in RouteTable, NEW fresh, NEW gone \in Expirable(r, fresh)
  PROVE  gone = {} /\ Without(r, gone) = r
<1>1. gone = {}
  BY DEF Expirable
<1> QED
  BY <1>1 DEF Without, RouteTable

LEMMA NoWayIsLost ==
  ASSUME ~RoutesExpire, TypeOK, NEW n \in Slaves, HasRoute(n), NEW c, NEW queued
  PROVE  ~LosesWay(n, c, route[n], queued)
<1>1. route[n] \in RouteTable /\ Usable(route[n]) # {}
  BY NodesAssumption DEF TypeOK, RoutesTyped, Nodes, HasRoute
<1>2. \A gone \in Expirable(route[n], {}) :
        ~LosesAll(route[n], gone) /\ ~NoHop(route[n], gone)
  BY <1>1, NothingExpires DEF LosesAll, NoHop
<1> QED
  BY <1>2 DEF LosesWay

(* A step that leaves the routes, the tables and the master alone. *)
LEMMA AirOnly ==
  ASSUME WaysInv, UNCHANGED <<route, pb, prevTable, rTB>>,
         \A n \in Slaves : status'[n] # "Crashed",
         \A n \in Nodes : rNE'[n] # None => HasRoute(rNE'[n].proxy),
         \A n \in Nodes : rNER'[n] # None => HasRoute(rNER'[n].hop),
         \A c \in net' : c \in net \/ Proper(c)
  PROVE  Advances
<1>1. Extends /\ TablesStay
  BY DEF Extends, TablesStay
<1>2. Struck
  BY DEF Struck, WaysInv, Acknowledged
<1> QED
  BY <1>1, <1>2 DEF Advances

LEMMA AirAndEntries ==
  ASSUME WaysInv, UNCHANGED <<route, pb, prevTable, rTB, entryVars>>,
         \A c \in net' : c \in net \/ Proper(c)
  PROVE  Advances
BY AirOnly DEF entryVars, WaysInv, WaysHold, Asked, Alive

LEMMA SentIsProper ==
  ASSUME NEW rest \in SUBSET net, NEW frames, Transmit(rest, frames),
         \A c \in frames : Proper(c)
  PROVE  \A c \in net' : c \in net \/ Proper(c)
BY TransmitSubset

LEMMA CopiesProper ==
  ASSUME NEW n, NEW m, m.type \notin {"NE", "NER", "TA"}
  PROVE  \A c \in Frames(n, m) : Proper(c)
BY DEF Frames, Proper

LEMMA RequestsProper ==
  ASSUME NEW n, NEW h, HasRoute(h), NEW o
  PROVE  /\ \A c \in Frames(n, NE(o, h)) : Proper(c)
         /\ \A c \in Frames(n, NER(h, o)) : Proper(c)
BY DEF Frames, Proper, Hearers, NE, NER

-----------------------------------------------------------------------------
(* The handlers of RX/network.c *)

LEMMA MasterBegins ==
  ASSUME WaysInv, NEW list \in Seq(Slaves), NEW rest \in SUBSET net, NEW answer,
         beginTBTransmission(list, rest, answer),
         \A c \in answer : Proper(c),
         UNCHANGED <<entryVars, routeVars, tableVars>>
  PROVE  Advances
<1>1. \A c \in net' : c \in net \/ Proper(c)
  BY SentIsProper DEF beginTBTransmission
<1>2. CASE rTB' = rTB
  BY <1>1, <1>2, AirAndEntries DEF routeVars, tableVars
<1>3. CASE rTB' # rTB
  <2>1. rTB' = TB(0, tbGen + 1, <<Master>> \o list, Range(list))
    BY <1>3 DEF beginTBTransmission, generateTB, NewTB, masterVars
  <2>2. rTB'.ips = <<Master>> \o list /\ rTB'.bits = Range(list)
    BY <2>1 DEF TB
  <2>3. Range(<<Master>> \o list) = {Master} \cup Range(list)
    BY TableOfList
  <2>4. Struck
    BY <2>2, <2>3 DEF Struck
  <2>5. Extends /\ TablesStay
    BY DEF Extends, TablesStay, routeVars, tableVars
  <2>6. /\ \A n \in Slaves : status'[n] # "Crashed"
        /\ \A n \in Nodes : pb'[n] = pb[n]
        /\ \A n \in Nodes : rNE'[n] # None => HasRoute(rNE'[n].proxy)
        /\ \A n \in Nodes : rNER'[n] # None => HasRoute(rNER'[n].hop)
    BY DEF WaysInv, WaysHold, Asked, Alive, entryVars, routeVars
  <2> QED
    BY <1>1, <2>4, <2>5, <2>6 DEF Advances
<1> QED
  BY <1>2, <1>3

LEMMA MasterNEWays ==
  ASSUME WaysInv, NEW c, MasterNE_RX(c)
  PROVE  Advances
<1> DEFINE o == c.msg.from
<1>1. o \in Slaves /\ subSlaves[Master] \in Seq(Slaves)
  BY ReceivedTyped DEF MasterNE_RX, WaysInv, TypeOK, ListsTyped, Nodes
<1>2. Insert(subSlaves[Master], o) \in Seq(Slaves)
  BY <1>1, InsertTyped
<1>3. \A f \in Frames(Master, NEP(Master, o)) : Proper(f)
  BY CopiesProper DEF NEP
<1> QED
  BY <1>2, <1>3, MasterBegins DEF MasterNE_RX

LEMMA MasterNERWays ==
  ASSUME WaysInv, NEW c, MasterNER_RX(c)
  PROVE  Advances
<1> DEFINE o == c.msg.outsider
<1>1. o \in Slaves /\ subSlaves[Master] \in Seq(Slaves)
  BY ReceivedTyped DEF MasterNER_RX, WaysInv, TypeOK, ListsTyped, Nodes
<1>2. Insert(subSlaves[Master], o) \in Seq(Slaves)
  BY <1>1, InsertTyped
<1>3. \A f \in Frames(Master, NEA(o)) : Proper(f)
  BY CopiesProper DEF NEA
<1> QED
  BY <1>2, <1>3, MasterBegins DEF MasterNER_RX

(* A proxy that was asked knows a way, so it does not lose itself in        *)
(* getBestHop, and whom it asks knows one too.                             *)
LEMMA BestHopKnows ==
  ASSUME ~RoutesExpire, WaysInv, NEW n \in Nodes, NEW gone \in Expirable(route[n], {}),
         NEW h \in BestHops(route[n], gone)
  PROVE  h \in Nodes /\ HasRoute(h) /\ [route EXCEPT ![n] = Without(@, gone)] = route
<1>1. route[n] \in RouteTable /\ route \in [Nodes -> RouteTable]
  BY DEF WaysInv, TypeOK, RoutesTyped
<1>2. Without(route[n], gone) = route[n]
  BY <1>1, NothingExpires
<1>3. h \in Nodes /\ route[n][h] = "usable"
  BY DEF BestHops, Usable
<1> QED
  BY <1>1, <1>2, <1>3 DEF WaysInv, WaysHold

LEMMA ProxyNEWays ==
  ASSUME ~RoutesExpire, WaysInv, NEW c, ProxyNE_RX(c)
  PROVE  Advances
<1> DEFINE n == c.to
           o == c.msg.from
           answer == Frames(n, NEP(n, o))
<1>1. n \in Slaves /\ n \in Nodes /\ HasRoute(n) /\ TypeOK
  BY DEF ProxyNE_RX, Received, WaysInv, Asked, Nodes
<1>2. ~LosesWay(n, c, route[n], answer)
  BY <1>1, NoWayIsLost
<1>3. /\ \E gone \in Expirable(route[n], {}) : \E h \in BestHops(route[n], gone) :
           /\ route' = [route EXCEPT ![n] = Without(@, gone)]
           /\ rNER' = [rNER EXCEPT ![n] = [hop |-> h, outsider |-> o]]
           /\ Transmit(net \ {c}, answer \cup Frames(n, NER(h, o)))
      /\ UNCHANGED <<status, started, rNE, outsidePending, pb, tableVars, slotVars, masterVars>>
  BY <1>2 DEF ProxyNE_RX
<1>4. PICK gone \in Expirable(route[n], {}) : \E h \in BestHops(route[n], gone) :
        /\ route' = [route EXCEPT ![n] = Without(@, gone)]
        /\ rNER' = [rNER EXCEPT ![n] = [hop |-> h, outsider |-> o]]
        /\ Transmit(net \ {c}, answer \cup Frames(n, NER(h, o)))
  BY <1>3
<1>5. PICK h \in BestHops(route[n], gone) :
        /\ route' = [route EXCEPT ![n] = Without(@, gone)]
        /\ rNER' = [rNER EXCEPT ![n] = [hop |-> h, outsider |-> o]]
        /\ Transmit(net \ {c}, answer \cup Frames(n, NER(h, o)))
  BY <1>4
<1>6. HasRoute(h) /\ route' = route
  BY <1>1, <1>5, BestHopKnows
<1>7. \A f \in answer \cup Frames(n, NER(h, o)) : Proper(f)
  BY <1>6, RequestsProper, CopiesProper DEF NEP
<1>8. \A f \in net' : f \in net \/ Proper(f)
  BY <1>5, <1>7, SentIsProper
<1>9. \A k \in Nodes : rNER'[k] # None => HasRoute(rNER'[k].hop)
  BY <1>5, <1>6, <1>1 DEF WaysInv, Asked, TypeOK, EntryTyped
<1>10. /\ \A k \in Slaves : status'[k] # "Crashed"
       /\ \A k \in Nodes : rNE'[k] # None => HasRoute(rNE'[k].proxy)
       /\ UNCHANGED <<pb, prevTable, rTB>>
  BY <1>3 DEF WaysInv, WaysHold, Asked, Alive, tableVars, masterVars
<1> QED
  BY <1>6, <1>8, <1>9, <1>10, AirOnly

LEMMA ForwardNERWays ==
  ASSUME ~RoutesExpire, WaysInv, NEW c, ForwardNER_RX(c)
  PROVE  Advances
<1> DEFINE n == c.to
           o == c.msg.outsider
<1>1. n \in Slaves /\ n \in Nodes /\ HasRoute(n) /\ TypeOK
  BY DEF ForwardNER_RX, Received, WaysInv, Asked, Nodes
<1>2. ~LosesWay(n, c, route[n], {})
  BY <1>1, NoWayIsLost
<1>3. /\ \E gone \in Expirable(route[n], {}) : \E h \in BestHops(route[n], gone) :
           /\ route' = [route EXCEPT ![n] = Without(@, gone)]
           /\ Transmit(net \ {c}, Frames(n, NER(h, o)))
      /\ UNCHANGED <<entryVars, pb, tableVars, masterVars>>
  BY <1>2 DEF ForwardNER_RX
<1>4. PICK gone \in Expirable(route[n], {}) : \E h \in BestHops(route[n], gone) :
        /\ route' = [route EXCEPT ![n] = Without(@, gone)]
        /\ Transmit(net \ {c}, Frames(n, NER(h, o)))
  BY <1>3
<1>5. PICK h \in BestHops(route[n], gone) :
        /\ route' = [route EXCEPT ![n] = Without(@, gone)]
        /\ Transmit(net \ {c}, Frames(n, NER(h, o)))
  BY <1>4
<1>6. HasRoute(h) /\ route' = route
  BY <1>1, <1>5, BestHopKnows
<1>7. \A f \in net' : f \in net \/ Proper(f)
  BY <1>5, <1>6, RequestsProper, SentIsProper
<1> QED
  BY <1>3, <1>6, <1>7, AirAndEntries DEF tableVars, masterVars

LEMMA AnswerWays ==
  ASSUME WaysInv, NEW c, NEP_RX(c) \/ NEA_RX(c)
  PROVE  Advances
<1>1. CASE NEP_RX(c)
  <2>1. \A n \in Slaves : status'[n] # "Crashed"
    BY <1>1 DEF NEP_RX, WaysInv, WaysHold, Alive, TypeOK, EntryTyped, Nodes
  <2>2. \A n \in Nodes : rNE'[n] # None => HasRoute(rNE'[n].proxy)
    BY <1>1 DEF NEP_RX, WaysInv, Asked, TypeOK, EntryTyped
  <2>3. \A n \in Nodes : rNER'[n] # None => HasRoute(rNER'[n].hop)
    BY <1>1 DEF NEP_RX, WaysInv, Asked
  <2> QED
    BY <1>1, <2>1, <2>2, <2>3, AirOnly DEF NEP_RX, routeVars, tableVars, masterVars
<1>2. CASE NEA_RX(c)
  <2>1. net' \subseteq net \/ Transmit(net \ {c}, Frames(c.to, NEA(c.msg.outsider)))
    BY <1>2 DEF NEA_RX
  <2>2. \A f \in Frames(c.to, NEA(c.msg.outsider)) : Proper(f)
    BY CopiesProper DEF NEA
  <2>3. \A f \in net' : f \in net \/ Proper(f)
    BY <2>1, <2>2, SentIsProper
  <2>4. \A n \in Nodes : rNER'[n] # None => HasRoute(rNER'[n].hop)
    BY <1>2 DEF NEA_RX, WaysInv, Asked, TypeOK, EntryTyped
  <2>5. /\ \A n \in Slaves : status'[n] # "Crashed"
        /\ \A n \in Nodes : rNE'[n] # None => HasRoute(rNE'[n].proxy)
    BY <1>2 DEF NEA_RX, WaysInv, WaysHold, Asked, Alive
  <2> QED
    BY <1>2, <2>3, <2>4, <2>5, AirOnly DEF NEA_RX, routeVars, tableVars, masterVars
<1> QED
  BY <1>1, <1>2

-----------------------------------------------------------------------------
(* The handlers of RX/time_table.c *)

LEMMA TBEvictedWays ==
  ASSUME WaysInv, NEW c, TB_RX_Evicted(c)
  PROVE  Advances
<1>1. \A n \in Slaves : status'[n] # "Crashed"
  BY DEF TB_RX_Evicted, WaysInv, WaysHold, Alive, TypeOK, EntryTyped, Nodes
<1>2. /\ \A n \in Nodes : rNE'[n] # None => HasRoute(rNE'[n].proxy)
      /\ \A n \in Nodes : rNER'[n] # None => HasRoute(rNER'[n].hop)
  BY DEF TB_RX_Evicted, WaysInv, Asked
<1> QED
  BY <1>1, <1>2, AirOnly DEF TB_RX_Evicted, routeVars, tableVars, masterVars

(* A slave that acknowledges a table has taken it. *)
LEMMA TBListedWays ==
  ASSUME WaysInv, NEW c, TB_RX_Listed(c)
  PROVE  Advances
<1> DEFINE n == c.to
           m == c.msg
           ta == Frames(n, TA(n, tbPbid[n]))
           on == Frames(n, m)
           sent == (IF OwesTA(n, m) THEN ta ELSE {}) \cup (IF RelaysTB(n, m) THEN on ELSE {})
<1>1. n \in Slaves /\ n \in Nodes /\ m \in TBs /\ n \in Range(m.ips) /\ m.type = "TB"
  BY ReceivedTyped DEF TB_RX_Listed, Received, WaysInv, Nodes
<1>2. m.ips # <<>>
  BY <1>1 DEF Range
<1>3. prevTable' = [prevTable EXCEPT ![n] = m.ips] /\ prevTable \in [Nodes -> Seq(Nodes)]
  BY DEF TB_RX_Listed, WaysInv, TypeOK, TablesTyped
<1>4. TablesStay /\ prevTable'[n] # <<>>
  BY <1>1, <1>2, <1>3 DEF TablesStay
<1>5. \A f \in ta : f.msg.type = "TA" /\ f.msg.originator = n
  BY DEF Frames, TA
<1>6. \A f \in ta : Proper(f)
  BY <1>4, <1>5 DEF Proper
<1>7. \A f \in on : Proper(f)
  BY <1>1, CopiesProper
<1>8. Transmit(net \ {c}, sent)
  BY DEF TB_RX_Listed
<1>9. \A f \in sent : Proper(f)
  BY <1>6, <1>7
<1> HIDE DEF sent
<1>10. \A f \in net' : f \in net \/ Proper(f)
  BY <1>8, <1>9, SentIsProper
<1>11. \A k \in Slaves : status'[k] # "Crashed"
  BY DEF TB_RX_Listed, WaysInv, WaysHold, Alive, TypeOK, EntryTyped, Nodes
<1>12. UNCHANGED <<rNE, rNER, route, pb, rTB>>
  BY DEF TB_RX_Listed, routeVars, masterVars
<1>13. /\ \A k \in Nodes : rNE'[k] # None => HasRoute(rNE'[k].proxy)
       /\ \A k \in Nodes : rNER'[k] # None => HasRoute(rNER'[k].hop)
  BY <1>12 DEF WaysInv, Asked
<1>14. Extends
  BY <1>12 DEF Extends
<1>15. Struck
  <2>1. ASSUME rTB # None, NEW k \in Range(rTB.ips) \ rTB.bits, k # Master
        PROVE  prevTable'[k] # <<>>
    <3>1. k \in Nodes
      BY <2>1 DEF WaysInv, TypeOK, MasterTyped, TBs, Range
    <3> QED
      BY <2>1, <3>1, <1>4 DEF WaysInv, Acknowledged, TablesStay
  <2> QED
    BY <2>1, <1>12 DEF Struck
<1> QED
  BY <1>4, <1>10, <1>11, <1>12, <1>13, <1>14, <1>15 DEF Advances

(* Only the TA of a slave strikes it off. *)
LEMMA MasterTAWays ==
  ASSUME WaysInv, NEW c, MasterTA_RX(c)
  PROVE  Advances
<1> DEFINE o == c.msg.originator
           bits == rTB.bits \ {o}
<1>1. prevTable[o] # <<>> /\ net' \subseteq net
  BY DEF MasterTA_RX, Received, WaysInv, Acknowledged
<1>2. UNCHANGED <<route, pb, prevTable, entryVars>>
  BY DEF MasterTA_RX, routeVars, tableVars
<1>3. \/ rTB' = rTB
      \/ rTB' = None
      \/ rTB # None /\ rTB' = [rTB EXCEPT !.bits = bits]
  BY DEF MasterTA_RX
<1>4. CASE rTB' = rTB
  BY <1>1, <1>2, <1>4, AirAndEntries
<1>5. Struck
  <2>1. CASE rTB' = None
    BY <2>1 DEF Struck
  <2>2. CASE rTB' = rTB
    BY <2>2, <1>2 DEF Struck, WaysInv, Acknowledged
  <2>3. CASE rTB # None /\ rTB' = [rTB EXCEPT !.bits = bits]
    <3>1. rTB \in TBs
      BY <2>3 DEF WaysInv, TypeOK, MasterTyped
    <3>2. rTB'.ips = rTB.ips /\ rTB'.bits = bits
      BY <2>3, <3>1 DEF TBs
    <3> QED
      BY <2>3, <3>2, <1>1, <1>2 DEF Struck, WaysInv, Acknowledged
  <2> QED
    BY <1>3, <2>1, <2>2, <2>3
<1>6. /\ \A n \in Slaves : status'[n] # "Crashed"
      /\ \A n \in Nodes : rNE'[n] # None => HasRoute(rNE'[n].proxy)
      /\ \A n \in Nodes : rNER'[n] # None => HasRoute(rNER'[n].hop)
  BY <1>2 DEF WaysInv, WaysHold, Asked, Alive, entryVars
<1>7. Extends /\ TablesStay
  BY <1>2 DEF Extends, TablesStay
<1> QED
  BY <1>1, <1>2, <1>5, <1>6, <1>7 DEF Advances

LEMMA RelayTAWays ==
  ASSUME WaysInv, NEW c, RelayTA_RX(c)
  PROVE  Advances
<1>1. UNCHANGED <<route, pb, prevTable, rTB, entryVars>>
  BY DEF RelayTA_RX, routeVars, masterVars
<1>2. c.msg.type = "TA" /\ prevTable[c.msg.originator] # <<>>
  BY DEF RelayTA_RX, Received, WaysInv, Acknowledged
<1>3. \A f \in Frames(c.to, c.msg) : f.msg = c.msg
  BY DEF Frames
<1>4. \A f \in Frames(c.to, c.msg) : Proper(f)
  BY <1>1, <1>2, <1>3 DEF Proper
<1>5. \A f \in net' : f \in net \/ Proper(f)
  BY <1>4, SentIsProper DEF RelayTA_RX
<1> QED
  BY <1>1, <1>5, AirAndEntries

-----------------------------------------------------------------------------
(* Samples *)

(* A step that changes routes and sends at most samples. *)
LEMMA RoutesOnly ==
  ASSUME WaysInv, Extends, UNCHANGED <<entryVars, prevTable, rTB>>,
         \A n \in Nodes : pb'[n] # pb[n] => pb'[n] = "finite" /\ HasRoute(n)',
         \A c \in net' : c \in net \/ Proper(c)
  PROVE  Advances
<1>1. TablesStay /\ Struck
  BY DEF TablesStay, Struck, WaysInv, Acknowledged
<1> QED
  BY <1>1 DEF Advances, WaysInv, WaysHold, Asked, Alive, entryVars

LEMMA SDTXWays ==
  ASSUME ~RoutesExpire, WaysInv, NEW n \in Slaves, SD_TX(n)
  PROVE  Advances
<1>1. n \in Nodes /\ route[n] \in RouteTable /\ route \in [Nodes -> RouteTable]
  BY DEF WaysInv, TypeOK, RoutesTyped, Nodes
<1>2. PICK gone \in Expirable(route[n], {}) :
       \/ /\ LosesAll(route[n], gone)
          /\ Reset(n, "Outside")
          /\ UNCHANGED net
       \/ /\ ~LosesAll(route[n], gone)
          /\ route' = [route EXCEPT ![n] = Without(@, gone)]
          /\ \/ NoHop(route[n], gone) /\ UNCHANGED net
             \/ \E h \in BestHops(route[n], gone) :
                  Transmit(net, Frames(n, SD(n, h)))
          /\ UNCHANGED <<entryVars, listVars, pb, tableVars, slotVars, masterVars>>
  BY DEF SD_TX
<1>3. ~LosesAll(route[n], gone)
  BY <1>1, NothingExpires DEF LosesAll
<1>4. Without(route[n], gone) = route[n]
  BY <1>1, NothingExpires
<1>5. route' = route
  BY <1>1, <1>2, <1>3, <1>4
<1>6. \A h : \A f \in Frames(n, SD(n, h)) : Proper(f)
  BY CopiesProper DEF SD
<1>7. \A f \in net' : f \in net \/ Proper(f)
  BY <1>2, <1>3, <1>6, SentIsProper
<1> QED
  BY <1>2, <1>3, <1>5, <1>7, AirAndEntries DEF tableVars, masterVars

LEMMA SDRXWays ==
  ASSUME ~RoutesExpire, WaysInv, NEW c, SD_RX(c)
  PROVE  Advances
<1> DEFINE n == c.to
           o == c.msg.source
           r == [route[n] EXCEPT ![o] = IF @ = "none" THEN "unrated" ELSE @]
<1>1. n \in Nodes /\ o \in Nodes /\ route[n] \in RouteTable /\ route \in [Nodes -> RouteTable]
  BY ReceivedTyped DEF SD_RX, Received, WaysInv, TypeOK, RoutesTyped, Nodes
<1>2. r \in RouteTable /\ \A h \in Nodes : r[h] = "usable" <=> route[n][h] = "usable"
  BY <1>1 DEF RouteTable
<1> HIDE DEF r
<1>3. \/ route' = route
      \/ \E gone \in Expirable(r, {o}) : route' = [route EXCEPT ![n] = Without(r, gone)]
  BY DEF SD_RX, r
<1>4. route' = route \/ route' = [route EXCEPT ![n] = r]
  BY <1>2, <1>3, NothingExpires
<1>5. Extends
  BY <1>1, <1>2, <1>4 DEF Extends
<1>6. net' \subseteq net \/ \E h : Transmit(net \ {c}, Frames(n, SD(o, h)))
  BY DEF SD_RX
<1>7. \A h : \A f \in Frames(n, SD(o, h)) : Proper(f)
  BY CopiesProper DEF SD
<1>8. \A f \in net' : f \in net \/ Proper(f)
  BY <1>6, <1>7, SentIsProper
<1>9. UNCHANGED <<entryVars, pb, prevTable, rTB>>
  BY DEF SD_RX, tableVars, masterVars
<1> QED
  BY <1>5, <1>8, <1>9, RoutesOnly

-----------------------------------------------------------------------------
(* The routing conversation and the retransmission thread *)

LEMMA PBOutsideWays ==
  ASSUME WaysInv, NEW n \in Slaves, NEW h \in Nodes, PB_RX_Outside(n, h)
  PROVE  Advances
<1>1. HasRoute(h)
  BY DEF PB_RX_Outside, WaysInv, WaysHold
<1>2. \A f \in net' : f \in net \/ Proper(f)
  BY <1>1, RequestsProper, SentIsProper DEF PB_RX_Outside
<1>3. \A k \in Nodes : rNE'[k] # None => HasRoute(rNE'[k].proxy)
  BY <1>1 DEF PB_RX_Outside, WaysInv, Asked, TypeOK, EntryTyped
<1>4. /\ \A k \in Slaves : status'[k] # "Crashed"
      /\ \A k \in Nodes : rNER'[k] # None => HasRoute(rNER'[k].hop)
  BY DEF PB_RX_Outside, WaysInv, WaysHold, Asked, Alive
<1> QED
  BY <1>2, <1>3, <1>4, AirOnly DEF PB_RX_Outside, routeVars, tableVars, masterVars

(* Whoever broadcasts PBs knows a way, so that a PB takes none away. *)
LEMMA PBInsideWays ==
  ASSUME WaysInv, NEW n \in Slaves, NEW h \in Nodes, PB_RX_Inside(n, h)
  PROVE  Advances
<1>1. route \in [Nodes -> RouteTable] /\ n \in Nodes
  BY DEF WaysInv, TypeOK, RoutesTyped, Nodes
<1>2. pb[h] = "finite" /\ HasRoute(h)
  BY DEF PB_RX_Inside, Broadcasts, WaysInv, WaysHold
<1>3. route' = [route EXCEPT ![n][h] =
                  IF @ \in {"none", "unrated"} THEN "unrated" ELSE "usable"]
  BY <1>2 DEF PB_RX_Inside, Rated
<1>4. Extends
  BY <1>1, <1>2, <1>3 DEF Extends, RouteTable
<1> QED
  BY <1>4, RoutesOnly DEF PB_RX_Inside, tableVars, masterVars

LEMMA PBWaitingWays ==
  ASSUME WaysInv, NEW n \in Slaves, NEW h \in Nodes, PB_RX_Waiting(n, h)
  PROVE  Advances
<1>1. \A k \in Slaves : status'[k] # "Crashed"
  BY DEF PB_RX_Waiting, WaysInv, WaysHold, Alive, TypeOK, EntryTyped, Nodes
<1>2. /\ \A k \in Nodes : rNE'[k] # None => HasRoute(rNE'[k].proxy)
      /\ \A k \in Nodes : rNER'[k] # None => HasRoute(rNER'[k].hop)
  BY DEF PB_RX_Waiting, WaysInv, Asked
<1> QED
  BY <1>1, <1>2, AirOnly DEF PB_RX_Waiting, routeVars, tableVars, masterVars

(* A PR says that its sender knows no way only when it never did. *)
LEMMA PRWays ==
  ASSUME WaysInv, NEW n \in Slaves, NEW h \in Nodes, PR_RX(h, n)
  PROVE  Advances
<1>1. route \in [Nodes -> RouteTable] /\ n \in Nodes
  BY DEF WaysInv, TypeOK, RoutesTyped, Nodes
<1>2. Extends
  BY <1>1 DEF PR_RX, Extends, RouteTable, WaysInv, WaysHold
<1> QED
  BY <1>2, RoutesOnly DEF PR_RX, tableVars, masterVars

(* Whoever broadcasts PBs knows a way, so that a PC makes its receiver know *)
(* one.                                                                    *)
LEMMA PCWays ==
  ASSUME WaysInv, NEW n \in Slaves, NEW h \in Nodes, PC_RX(n, h)
  PROVE  Advances
<1>1. /\ route \in [Nodes -> RouteTable] /\ n \in Nodes /\ n # Master
      /\ pb \in [Nodes -> {"off", "unreachable", "finite"}]
  BY NodesAssumption DEF WaysInv, TypeOK, RoutesTyped, Nodes
<1>2. pb[h] = "finite" /\ HasRoute(h)
  BY DEF PC_RX, Broadcasts, WaysInv, WaysHold
<1>3. PICK r : r = [route[n] EXCEPT ![h] = "usable"]
  OBVIOUS
<1>4. h \in Usable(r) /\ route' = [route EXCEPT ![n] = r]
  BY <1>1, <1>2, <1>3 DEF PC_RX, Rated, Usable, RouteTable
<1>5. pb' = [pb EXCEPT ![n] = "finite"]
  BY <1>2, <1>3, <1>4 DEF PC_RX, Rated
<1>6. HasRoute(n)'
  BY <1>1, <1>4 DEF HasRoute
<1>7. \A k \in Nodes : pb'[k] # pb[k] => pb'[k] = "finite" /\ HasRoute(k)'
  <2>1. \A k \in Nodes : pb'[k] # pb[k] => k = n
    BY <1>1, <1>5
  <2> QED
    BY <1>1, <1>5, <1>6, <2>1
<1>8. Extends
  BY <1>1, <1>2, <1>3, <1>4 DEF Extends, RouteTable
<1> QED
  BY <1>7, <1>8, RoutesOnly DEF PC_RX, tableVars, masterVars

LEMMA RetransmitTBWays ==
  ASSUME WaysInv, RetransmitTB
  PROVE  Advances
<1>1. rTB \in TBs /\ rTB.type = "TB" /\ rTB # None
  BY DEF RetransmitTB, WaysInv, TypeOK, MasterTyped, TBs
<1>2. \A f \in net' : f \in net \/ Proper(f)
  BY <1>1, CopiesProper, SentIsProper DEF RetransmitTB
<1>3. UNCHANGED <<route, pb, prevTable, entryVars>>
  BY DEF RetransmitTB, routeVars, tableVars
<1>4. rTB'.ips = rTB.ips /\ rTB'.bits = rTB.bits
  BY <1>1 DEF RetransmitTB, TBs
<1>5. Struck /\ Extends /\ TablesStay
  BY <1>1, <1>3, <1>4 DEF Struck, Extends, TablesStay, WaysInv, Acknowledged
<1>6. /\ \A n \in Slaves : status'[n] # "Crashed"
      /\ \A n \in Nodes : rNE'[n] # None => HasRoute(rNE'[n].proxy)
      /\ \A n \in Nodes : rNER'[n] # None => HasRoute(rNER'[n].hop)
  BY <1>3 DEF WaysInv, WaysHold, Asked, Alive, entryVars
<1> QED
  BY <1>2, <1>3, <1>5, <1>6 DEF Advances

LEMMA RetransmitNEWays ==
  ASSUME WaysInv, NEW n \in Slaves, RetransmitNE(n)
  PROVE  Advances
<1>0. n \in Nodes
  BY DEF Nodes
<1>1. HasRoute(rNE[n].proxy)
  BY <1>0 DEF RetransmitNE, WaysInv, Asked
<1>2. \A f \in net' : f \in net \/ Proper(f)
  BY <1>1, RequestsProper, SentIsProper DEF RetransmitNE
<1>3. \A k \in Slaves : status'[k] # "Crashed"
  BY DEF RetransmitNE, WaysInv, WaysHold, Alive, TypeOK, EntryTyped, Nodes
<1>4. rNE' = [rNE EXCEPT ![n] = None] \/ rNE' = [rNE EXCEPT ![n].amm = rNE[n].amm + 1]
  BY DEF RetransmitNE
<1>5. \A k \in Nodes : rNE'[k] # None => rNE[k] # None /\ rNE'[k].proxy = rNE[k].proxy
  BY <1>0, <1>4 DEF RetransmitNE, WaysInv, TypeOK, EntryTyped
<1>6. /\ \A k \in Nodes : rNE'[k] # None => HasRoute(rNE'[k].proxy)
      /\ \A k \in Nodes : rNER'[k] # None => HasRoute(rNER'[k].hop)
  BY <1>5 DEF RetransmitNE, WaysInv, Asked
<1> QED
  BY <1>2, <1>3, <1>6, AirOnly DEF RetransmitNE, routeVars, tableVars, masterVars

LEMMA OthersWays ==
  ASSUME WaysInv,
         \/ \E n \in Slaves : RetransmitNER(n)
         \/ \E c \in net : Lose(c)
         \/ UNCHANGED vars
  PROVE  Advances
<1>1. UNCHANGED <<route, pb, prevTable, rTB, entryVars>>
  BY DEF RetransmitNER, Lose, vars, routeVars, tableVars, masterVars
<1>2. ASSUME NEW n \in Slaves, RetransmitNER(n)
      PROVE  \A f \in net' : f \in net \/ Proper(f)
  <2>1. HasRoute(rNER[n].hop)
    BY <1>2 DEF RetransmitNER, WaysInv, Asked, Nodes
  <2> QED
    BY <1>2, <2>1, RequestsProper, SentIsProper DEF RetransmitNER
<1>3. \A f \in net' : f \in net \/ Proper(f)
  BY <1>2 DEF Lose, vars
<1> QED
  BY <1>1, <1>3, AirAndEntries

-----------------------------------------------------------------------------
LEMMA InitWays == Init => WaysInv
<1> SUFFICES ASSUME Init PROVE WaysInv
  OBVIOUS
<1>1. WaysHold
  BY NodesAssumption DEF Init, WaysHold, Alive, HasRoute, NoRoute, Nodes
<1>2. Asked /\ Acknowledged
  BY DEF Init, Asked, Acknowledged
<1> QED
  BY <1>1, <1>2, InitTyped DEF WaysInv

LEMMA NextWays ==
  ASSUME ~RoutesExpire, WaysInv, [Next]_vars
  PROVE  WaysInv'
<1>1. ASSUME NEW c \in net, Receive(c) PROVE Advances
  BY <1>1, MasterNEWays, ProxyNEWays, MasterNERWays, ForwardNERWays, AnswerWays,
     TBEvictedWays, TBListedWays, MasterTAWays, RelayTAWays, SDRXWays DEF Receive
<1>2. ASSUME NEW n \in Slaves, NEW h \in Nodes, Hear(n, h) PROVE Advances
  BY <1>2, PBOutsideWays, PBInsideWays, PBWaitingWays, PRWays, PCWays DEF Hear
<1>3. Advances
  BY <1>1, <1>2, SDTXWays, RetransmitNEWays, RetransmitTBWays, OthersWays DEF Next
<1>4. TypeOK /\ TypeOK'
  BY NextTyped DEF WaysInv
<1> QED
  BY <1>3, <1>4, AdvancesKeeps DEF WaysInv

LEMMA WaysAlways == Spec => [](RoutesExpire \/ WaysInv)
<1>1. Init => RoutesExpire \/ WaysInv
  BY InitWays
<1>2. (RoutesExpire \/ WaysInv) /\ [Next]_vars => (RoutesExpire \/ WaysInv)'
  BY NextWays
<1> QED
  BY <1>1, <1>2, PTL DEF Spec

(* As long as routes do not expire, nobody reads through a NULL next hop:  *)
(* whoever says in its PB that it knows a way, and so is asked to be a     *)
(* proxy or to pass a request on, does, and so does its next hop, over any *)
(* number of hops.                                                         *)
THEOREM ProxiesAlwaysHaveNextHop == Spec => []ProxiesHaveNextHop
<1>1. RoutesExpire \/ WaysInv => ProxiesHaveNextHop
  BY DEF WaysInv, WaysHold, ProxiesHaveNextHop
<1> QED
  BY <1>1, WaysAlways, PTL

(* A slave that remembers a table holds one. *)
LEMMA TakenAgrees ==
  ASSUME AgreeInv, rTB # None, NEW n \in Slaves, prevTable[n] # <<>>
  PROVE  /\ sync[n] \in 1 .. rTB.gen
         /\ n \in Range(prevTable[n])
         /\ Range(prevTable[n]) \subseteq Range(rTB.ips)
<1> DEFINE held == [gen |-> sync[n], ips |-> prevTable[n]]
           last == [gen |-> rTB.gen, ips |-> rTB.ips]
<1>1. TablesGrow /\ SlotsFromTables /\ rTB.gen = tbGen
  BY DEF AgreeInv, TablesAgree, Current
<1>2. sync[n] # 0 /\ n \in Range(prevTable[n])
  BY <1>1 DEF SlotsFromTables
<1>3. held \in Tables /\ last \in Tables
  BY <1>2 DEF Tables, TablesHeld, TablesAtMaster
<1>4. held.gen \in 1 .. tbGen
  BY <1>1, <1>3 DEF TablesGrow, WellFormed
<1>5. tbGen \in Int
  BY DEF AgreeInv, TypeOK, MasterTyped
<1>6. held.gen <= last.gen
  BY <1>1, <1>4, <1>5
<1>7. Later(held, last)
  BY <1>1, <1>3 DEF TablesGrow
<1> QED
  BY <1>1, <1>2, <1>4, <1>6, <1>7 DEF Later

(* As long as routes do not expire, a slave whose bit the master has cleared *)
(* in its TB holds that table or an earlier one, which lists it and nobody *)
(* that the TB does not, whatever TAs are delayed or sent on twice.  Whether *)
(* it still has its slot is another matter: a TB older than that table     *)
(* may have taken it (OnlyStaleTablesEverEvict).                           *)
THEOREM StruckOffAlwaysHasTable == Spec => []StruckOffHasTable
<1>1. AgreeInv /\ (RoutesExpire \/ WaysInv) => StruckOffHasTable
  <2> SUFFICES ASSUME AgreeInv, WaysInv, rTB # None,
                      NEW n \in Range(rTB.ips) \ (rTB.bits \cup {Master})
               PROVE  /\ sync[n] \in 1 .. rTB.gen
                      /\ n \in Range(prevTable[n])
                      /\ Range(prevTable[n]) \subseteq Range(rTB.ips)
    BY DEF StruckOffHasTable
  <2>1. n \in Slaves
    BY DEF WaysInv, TypeOK, MasterTyped, TBs, Range, Nodes
  <2>2. prevTable[n] # <<>>
    BY DEF WaysInv, Acknowledged
  <2> QED
    BY <2>1, <2>2, TakenAgrees
<1> QED
  BY <1>1, AgreeAlways, WaysAlways, PTL

=============================================================================
