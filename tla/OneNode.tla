------------------------------- MODULE OneNode -------------------------------
(***************************************************************************)
(* One node, its listener and its retransmission thread, among neighbours  *)
(* that may send anything: the handlers of src/src/RX with the lists, the  *)
(* table of relayed TAs and the times of the retransmissions.  A frame is  *)
(* any of those the scene has, at any time and as often as one likes, so   *)
(* that losses, repetitions, other orders and restarts of the neighbours   *)
(* are all among the behaviours.                                           *)
(*                                                                         *)
(* Left to NetworkEntry: the slots, the PBID of the TB and the bitmaps a   *)
(* slave sees.  Left to RoutingNet: the routing table; here the node has a *)
(* next hop.  Nothing below reads any of these.                            *)
(***************************************************************************)
EXTENDS IPList, PbidTable, Retransmission

CONSTANTS
  IPs,          \* the other nodes
  PBIDs,        \* the PBIDs of the TAs, signed shorts
  Tables,       \* the time tables of the TBs
  NoTable,      \* no TB was received so far
  Scenes,       \* [role, frames]: the node's role and the frames it may hear
  WaitTimeOut,  \* WAITING_TIME_OUT
  NotWaiting    \* started_waiting = 0

VARIABLES
  scene,           \* the scene chosen; never changes
  status,          \* Self.Status
  waited,          \* the time since started_waiting, a static of PB_RX
  SubSlaves, OutsideSlaves, OutsidePending,
  PBID_IP_TA,      \* the last TA relayed of each originator
  prevTable,       \* previous_Timetable, a static of TB_RX
  tbBits,          \* the bits that are set in the bitmap of TB_ret_msg
  relayed          \* the last TA or NEA sent on

lists == <<SubSlaves, OutsideSlaves, OutsidePending>>
entry == <<status, waited>>
vars == <<scene, entry, lists, PBID_IP_TA, prevTable, tbBits, relayed,
          retransmission>>

IsMaster == scene.role = "Master"

(* The frames, without what their handlers do not read. *)
PB(from, reaches)  == [type |-> "PB", from |-> from, reaches |-> reaches]
PC                 == [type |-> "PC"]
NE(from)           == [type |-> "NE", from |-> from]
NEP                == [type |-> "NEP"]
NER(outsider)      == [type |-> "NER", outsider |-> outsider]
NEA(outsider)      == [type |-> "NEA", outsider |-> outsider]
SD(source)         == [type |-> "SD", source |-> source]
TA(originator, p)  == [type |-> "TA", originator |-> originator, pbid |-> p]
TB(table, listed)  == [type |-> "TB", table |-> table, listed |-> listed]

Nothing == [type |-> "none"]

Frame ==
  [type : {"PB"}, from : IPs, reaches : BOOLEAN] \cup [type : {"PC", "NEP"}]
    \cup [type : {"NE"}, from : IPs] \cup [type : {"NER", "NEA"}, outsider : IPs]
    \cup [type : {"SD"}, source : IPs]
    \cup [type : {"TA"}, originator : IPs, pbid : PBIDs]
    \cup [type : {"TB"}, table : Tables, listed : BOOLEAN]

ASSUME OneNodeAssumption ==
  /\ NoIP \notin IPs
  /\ NoPair \notin [ip : IPs, pbid : PBIDs]
  /\ PBIDs \subseteq Int
  /\ WaitTimeOut \in Nat
  /\ NotWaiting \notin Nat
  /\ \A s \in Scenes :
       /\ s.role \in {"Master", "Slave"}
       /\ \A f \in s.frames : f \in Frame
       \* an NEP answers an NE, which the master does not send
       /\ s.role = "Master" => \A f \in s.frames : f.type # "NEP"

Heard(f, type) == f \in scene.frames /\ f.type = type

Init ==
  /\ scene \in Scenes
  /\ status = IF IsMaster THEN "NA" ELSE "Outside"
  /\ waited = NotWaiting
  /\ SubSlaves = <<>> /\ OutsideSlaves = <<>> /\ OutsidePending = <<>>
  /\ PBID_IP_TA = pbidInitializeTable
  /\ prevTable = NoTable
  /\ tbBits = {}
  /\ relayed = Nothing
  /\ InitRetransmission

insertSubSlave(ip)     == SubSlaves' = insertIPList(SubSlaves, ip)
insertOutsideSlave(ip) == OutsideSlaves' = insertIPList(OutsideSlaves, ip)
insertPending(ip)      == OutsidePending' = insertIPList(OutsidePending, ip)

-----------------------------------------------------------------------------
(* The handlers of RX/routing.c, as far as they concern the entry *)

(* Mistake: whoever still waits asks as well, and goes on waiting. *)
PB_RX_AsksWaiting(f) ==
  /\ Heard(f, "PB")
  /\ status \in {"Outside", "Waiting"} /\ f.reaches
  /\ waited' = 0
  /\ startRetransmission("NE", f.from)
  /\ UNCHANGED <<scene, status, lists, PBID_IP_TA, prevTable, tbBits, relayed, thread>>

(* An outsider asks the sender to let it in, whether or not it is already  *)
(* asking someone.                                                         *)
PB_RX_Asks(f) ==
  /\ Heard(f, "PB")
  /\ status = "Outside" /\ f.reaches
  /\ waited' = 0
  /\ startRetransmission("NE", f.from)
  /\ UNCHANGED <<scene, status, lists, PBID_IP_TA, prevTable, tbBits, relayed, thread>>

PB_RX_TimesOut(f) ==
  /\ Heard(f, "PB")
  /\ status = "Waiting"
  /\ waited # NotWaiting /\ waited > WaitTimeOut
  /\ status' = "Outside"
  /\ waited' = NotWaiting
  /\ UNCHANGED <<scene, lists, PBID_IP_TA, prevTable, tbBits, relayed, retransmission>>

(* stopRetransmission(rPR) comes before; no PR is ever retransmitted.  Until
   the handler starts the PB, nothing it has done can be seen. *)
PC_RX(f) ==
  /\ Heard(f, "PC")
  /\ \E d \in Delays["PB"] :
       rt' = [Stopped(rt, "PR") EXCEPT !["PB"] = [msg |-> "PB", due |-> d, amm |-> 0]]
  /\ UNCHANGED <<scene, entry, lists, PBID_IP_TA, prevTable, tbBits, relayed, thread>>

-----------------------------------------------------------------------------
(* The handlers of RX/network.c *)

(* The TB is made for the nodes in list.  A TB that is already repeated    *)
(* keeps its time; one that is made anew keeps the count of the last.      *)
TBUnderWay == On("TB") /\ rt["TB"].amm # 0

beginTBTransmission(list) ==
  IF TBUnderWay
  THEN UNCHANGED <<tbBits, rt>>
  ELSE /\ tbBits' = ToSet(list)
       /\ rt' = [rt EXCEPT !["TB"] = [msg |-> "TB", due |-> IF On("TB") THEN @.due ELSE 0,
                                     amm |-> @.amm]]

NE_RX_Master(f) ==
  /\ Heard(f, "NE") /\ IsMaster
  /\ insertSubSlave(f.from)
  /\ beginTBTransmission(SubSlaves')
  /\ UNCHANGED <<scene, entry, OutsideSlaves, OutsidePending, PBID_IP_TA, prevTable,
                 relayed, thread>>

(* The one NER that is retransmitted is the last. *)
NE_RX_Proxy(f) ==
  /\ Heard(f, "NE") /\ ~IsMaster
  /\ insertSubSlave(f.from)
  /\ insertOutsideSlave(f.from)
  /\ startRetransmission("NER", f.from)
  /\ UNCHANGED <<scene, entry, OutsidePending, PBID_IP_TA, prevTable, tbBits,
                 relayed, thread>>

(* Two steps of the listener, but the retransmission thread writes Outside *)
(* only for an NE that it was already giving up before the first.          *)
NEP_RX(f) ==
  /\ Heard(f, "NEP")
  /\ stopRetransmission("NE")
  /\ status' = "Waiting"
  /\ UNCHANGED <<scene, waited, lists, PBID_IP_TA, prevTable, tbBits, relayed, thread>>

NER_RX(f) ==
  /\ Heard(f, "NER")
  /\ insertSubSlave(f.outsider)
  /\ insertPending(f.outsider)
  /\ IF IsMaster THEN beginTBTransmission(SubSlaves') ELSE UNCHANGED <<tbBits, rt>>
  /\ UNCHANGED <<scene, entry, OutsideSlaves, PBID_IP_TA, prevTable, relayed, thread>>

(* The way back of the answer ends at whoever was once the proxy of the    *)
(* outsider, whatever outsider the NER is for.                             *)
NEA_RX_Proxy(f) ==
  /\ Heard(f, "NEA")
  /\ getIPFromList(OutsideSlaves, f.outsider)
  /\ stopRetransmission("NER")
  /\ UNCHANGED <<scene, entry, lists, PBID_IP_TA, prevTable, tbBits, relayed, thread>>

NEA_RX_Relay(f) ==
  /\ Heard(f, "NEA")
  /\ ~getIPFromList(OutsideSlaves, f.outsider)
  /\ getIPFromList(OutsidePending, f.outsider)
  /\ OutsidePending' = removeIPList(OutsidePending, f.outsider)
  /\ relayed' = f
  /\ UNCHANGED <<scene, entry, SubSlaves, OutsideSlaves, PBID_IP_TA, prevTable, tbBits,
                 retransmission>>

-----------------------------------------------------------------------------
(* The handlers of RX/time_table.c and RX/application.c *)

TB_RX_Evicted(f) ==
  /\ Heard(f, "TB") /\ ~IsMaster
  /\ ~f.listed
  /\ status' = "Outside"
  /\ UNCHANGED <<scene, waited, lists, PBID_IP_TA, prevTable, tbBits, relayed,
                 retransmission>>

(* An NE that is being retransmitted is not stopped. *)
TB_RX_Listed(f) ==
  /\ Heard(f, "TB") /\ ~IsMaster
  /\ f.listed
  /\ PBID_IP_TA' = IF prevTable = f.table THEN PBID_IP_TA ELSE emptyTable
  /\ prevTable' = f.table
  /\ status' = "Inside"
  /\ UNCHANGED <<scene, waited, lists, tbBits, relayed, retransmission>>

(* With fewer than 7 SubSlaves the search for a bit that is set stays in   *)
(* the bitmap (time_table.c:157).                                          *)
TA_RX_Master(f) ==
  /\ Heard(f, "TA") /\ IsMaster
  /\ On("TB")
  /\ tbBits' = tbBits \ {f.originator}
  /\ IF tbBits' = {} THEN stopRetransmission("TB") ELSE UNCHANGED rt
  /\ UNCHANGED <<scene, entry, lists, PBID_IP_TA, prevTable, relayed, thread>>

(* The TA is of a SubSlave and newer than the last one relayed. *)
TA_RX_Relay(f) ==
  LET existing == pbidSearchIP(f.originator, PBID_IP_TA) IN
  /\ Heard(f, "TA") /\ ~IsMaster
  /\ getIPFromList(SubSlaves, f.originator)
  /\ existing # NoPair => existing.pbid < f.pbid
  /\ relayed' = f
  /\ PBID_IP_TA' = pbidInsertPair(f.originator, f.pbid,
                                  pbidRemovePair(f.originator, PBID_IP_TA))
  /\ UNCHANGED <<scene, entry, lists, prevTable, tbBits, retransmission>>

(* A sample for the node makes its source a SubSlave, for which it also    *)
(* passes an NEA on.                                                       *)
SD_RX(f) ==
  /\ Heard(f, "SD")
  /\ status \in {"Inside", "NA"}
  /\ insertSubSlave(f.source)
  /\ insertPending(f.source)
  /\ UNCHANGED <<scene, entry, OutsideSlaves, PBID_IP_TA, prevTable, tbBits, relayed,
                 retransmission>>

-----------------------------------------------------------------------------
Receive(f) ==
  \/ PB_RX_Asks(f) \/ PB_RX_TimesOut(f) \/ PC_RX(f)
  \/ NE_RX_Master(f) \/ NE_RX_Proxy(f) \/ NEP_RX(f) \/ NER_RX(f)
  \/ NEA_RX_Proxy(f) \/ NEA_RX_Relay(f)
  \/ TB_RX_Evicted(f) \/ TB_RX_Listed(f)
  \/ TA_RX_Master(f) \/ TA_RX_Relay(f)
  \/ SD_RX(f)

Retransmit ==
  /\ \/ /\ Pass \/ Pass_GiveUp \/ GiveUp_Stop \/ Pass_Rest
        /\ UNCHANGED status
     \/ GiveUp_Status /\ status' = "Outside"
  /\ UNCHANGED <<scene, waited, lists, PBID_IP_TA, prevTable, tbBits, relayed>>

(* A wait beyond the time out is not told from a longer one. *)
Tick ==
  /\ TickRetransmission
  /\ waited' = IF waited = NotWaiting \/ waited > WaitTimeOut THEN waited ELSE waited + 1
  /\ UNCHANGED <<scene, status, lists, PBID_IP_TA, prevTable, tbBits, relayed>>

Next == (\E f \in scene.frames : Receive(f)) \/ Retransmit \/ Tick

Spec == Init /\ [][Next]_vars

(* The clock and the thread go on; what is heard is up to the neighbours.  *)
(* A pass that finds nothing to do changes nothing, so it cannot stand in  *)
(* for the clock.                                                          *)
FairSpec == Spec /\ WF_vars(Retransmit \/ Tick)

-----------------------------------------------------------------------------
(* Properties *)

(* The types.  No time is further ahead than a kind's longest delay        *)
(* (retransmission.c:18-38).                                               *)
TypeOK ==
  /\ scene \in Scenes
  /\ status \in IF IsMaster THEN {"NA"} ELSE {"Outside", "Waiting", "Inside"}
  /\ waited \in {NotWaiting} \cup 0 .. WaitTimeOut + 1
  /\ prevTable \in Tables \cup {NoTable}
  /\ tbBits \subseteq IPs
  /\ thread.at \in {"asleep", "givingUp", "stopped", "outside"}
  /\ thread.nap \in -Late .. Check
  /\ \A k \in Kinds : /\ \E d \in Delays[k] : rt[k].due <= d
                      /\ rt[k].amm \in 0 .. AmmMod - 1
                      /\ k = "NE" => rt[k].amm <= NEAttempts

(* However the listener starts, stops and replaces messages while the      *)
(* thread sleeps, nothing is sent later than the oversleep after its time; *)
(* only the first TB, due at once, may have to wait for a check as well    *)
(* (retransmission.c:86-180, time_table.c:47 of TX).                       *)
SentInTime ==
  \A k \in Kinds :
    On(k) => rt[k].due >= IF k = "TB" THEN -(Check + Late) ELSE -Late

(* A node that waits for the time table repeats no NE, whatever the two    *)
(* threads do to its status (network.c:62-64, retransmission.c:152-155).   *)
WaitingSendsNoNE == status = "Waiting" => ~On("NE")

(* The lists hold no address twice; whoever a node is the proxy of or is   *)
(* to pass an NEA on for is among its SubSlaves, so that the TAs that will *)
(* come from there are relayed; the NER that is repeated is for an         *)
(* OutsideSlave, so that its answer can end it (network.c:20-45, 90-91,    *)
(* 143; application.c:36-37).                                              *)
ListsAgree ==
  /\ \A list \in {SubSlaves, OutsideSlaves, OutsidePending} : IsInjective(list)
  /\ ToSet(OutsideSlaves) \cup ToSet(OutsidePending) \subseteq ToSet(SubSlaves)
  /\ On("NER") => rt["NER"].msg \in ToSet(OutsideSlaves)

(* An NE is not repeated for ever: unless PBs go on making the node ask    *)
(* anew, it is answered or given up time and again (retransmission.c:150;  *)
(* routing.c:39 begins the count anew).                                    *)
NEEnds ==
  \/ []<><<\E f \in scene.frames : PB_RX_Asks(f)>>_vars
  \/ []<>~On("NE")

(* The lists and tables keep the promise of Relaying.                      *)
RelayPromise ==
  INSTANCE Relaying WITH
    latest <- [o \in IPs |-> LET pair == pbidSearchIP(o, PBID_IP_TA)
                             IN  IF pair = NoPair THEN NoPair ELSE pair.pbid],
    NoTA <- NoPair,
    timetable <- prevTable,
    asked <- ToSet(OutsidePending)

(* A TA is relayed only if it is newer than all of its originator since    *)
(* the time table changed, an NEA only if it was asked for since the last  *)
(* (time_table.c:170-182, pbid_table.c, network.c:148-151, list.c).        *)
RelayingSpec == RelayPromise!Spec

=============================================================================
