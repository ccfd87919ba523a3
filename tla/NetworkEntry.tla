---------------------------- MODULE NetworkEntry ----------------------------
(***************************************************************************)
(* How a node enters the NP mesh and how the master hands out time slots.  *)
(*                                                                         *)
(* A slave that hears a periodic broadcast (PB) asks its sender, the       *)
(* proxy, to be let in (NE); the proxy answers (NEP) and, when it is not   *)
(* the master itself, forwards the request hop by hop to the master (NER), *)
(* which answers with an NEA.  The master then broadcasts the time table   *)
(* (TB) to all the nodes it knows, again and again, until every one of     *)
(* them has acknowledged it (TA).                                          *)
(*                                                                         *)
(* Source: src/src/RX/network.c, src/src/RX/time_table.c, RX/routing.c     *)
(* and RX/application.c (the handlers), src/src/TX (what they send) and    *)
(* TX/retransmission.c (the thread that repeats it), with the lists and    *)
(* the message builders they use.  One action is one handler, run to its   *)
(* end by the thread that listens to WF, or one transmission by the        *)
(* retransmission thread.                                                  *)
(*                                                                         *)
(* A frame is a record [to, msg]: the copy of a broadcast that one         *)
(* neighbour may hear.  A copy is made only for the nodes whose handler    *)
(* does not throw it away by comparing addresses (see Hearers).            *)
(***************************************************************************)
EXTENDS Integers, Sequences, FiniteSets, Functions

CONSTANTS
  Master,         \* the node that runs with IsMaster
  Slaves,         \* the other nodes
  Links,          \* Links[n]: the nodes in radio range of n
  Proxies,        \* the slaves a PC reaches: only they broadcast PBs
  Sampled,        \* the slaves a wireless sensor (WS) sends samples to
  RoutesExpire,   \* TRUE: a neighbour may stay silent beyond nextHopTimeout
  None,           \* NULL
  NEAttempts,     \* RETRANSMISSION_ATTEMPTS_NE
  PbidMax,        \* largest PBID, a signed short
  AmmMod,         \* number of values of the byte TB_ret_amm
  BitsPerByte,    \* number of bitmap entries in one byte
  MaxTB,          \* bound: time tables the master generates
  MaxSends,       \* bound: PBID up to which a TB is sent (none above PbidMax)
  MaxInFlight     \* bound: frames in the air at once

Nodes == {Master} \cup Slaves

ASSUME NodesAssumption ==
  /\ Master \notin Slaves
  /\ None \notin Nodes
  /\ Links \in [Nodes -> SUBSET Nodes]
  /\ \A n \in Nodes : n \notin Links[n]
  /\ Proxies \subseteq Slaves
  /\ Sampled \subseteq Slaves
  /\ RoutesExpire \in BOOLEAN

ASSUME NumbersAssumption ==
  /\ NEAttempts \in Nat \ {0}
  /\ PbidMax \in Nat
  /\ AmmMod \in Nat \ {0}
  /\ BitsPerByte \in Nat \ {0}
  /\ MaxTB \in Nat
  /\ MaxSends \in Nat
  /\ MaxInFlight \in Nat

VARIABLES
  status,          \* Self.Status
  started,         \* started_waiting # 0 (a static of PB_RX)
  rNE,             \* the NE being retransmitted: its proxy and NE_ret_amm
  rNER,            \* the NER being retransmitted: its next hop and outsider
  subSlaves,       \* Self.SubSlaves, first element first
  outsideSlaves,   \* Self.OutsideSlaves
  outsidePending,  \* Self.OutsidePending
  route,           \* route[n][h]: the entry of h in n's routing table
  pb,              \* the distance in the PB that is retransmitted
  tbPbid,          \* Self.TB_PBID of a slave
  taSeen,          \* Self.PBID_IP_TA: the last TA relayed of each originator
  prevTable,       \* previous_Timetable (a static of TB_RX)
  localSlot,       \* Self.NewTimeTable->local_slot
  sync,            \* Self.NewTimeTable->sync, as the number of the table
  rTB,             \* the TB the master retransmits
  tbRetAmm,        \* TB_ret_amm
  tbGen,           \* number of time tables generated so far
  net              \* the frames in the air

entryVars  == <<status, started, rNE, rNER>>
listVars   == <<subSlaves, outsideSlaves, outsidePending>>
routeVars  == <<route, pb>>
tableVars  == <<tbPbid, taSeen, prevTable>>
slotVars   == <<localSlot, sync>>
masterVars == <<rTB, tbRetAmm, tbGen>>
vars == <<entryVars, listVars, routeVars, tableVars, slotVars, masterVars, net>>

-----------------------------------------------------------------------------
(* PBIDs are signed shorts that wrap around. *)
Pbids == -PbidMax - 1 .. PbidMax
NextPbidNoWrap(p) == p + 1      \* mistake: the increment of a wider integer
NextPbid(p) == IF p = PbidMax THEN -PbidMax - 1 ELSE p + 1

(* The messages.  The PB, PR and PC of the routing conversation are not    *)
(* kept as frames: their handlers are enabled as long as such a message    *)
(* may have been sent (see PB_RX, PR_RX and PC_RX).                        *)
NE(from, proxy)     == [type |-> "NE", from |-> from, dest |-> proxy]
NEP(from, outsider) == [type |-> "NEP", from |-> from, dest |-> outsider]
NER(hop, outsider)  == [type |-> "NER", dest |-> hop, outsider |-> outsider]
NEA(outsider)       == [type |-> "NEA", outsider |-> outsider]
TA(originator, p)   == [type |-> "TA", originator |-> originator, pbid |-> p]
TB(p, gen, ips, bits) ==
  [type |-> "TB", pbid |-> p, gen |-> gen, ips |-> ips, bits |-> bits]
SD(source, hop)     == [type |-> "SD", source |-> source, dest |-> hop]

(* The TBs; none of them is NULL. *)
TBs == [type : {"TB"}, pbid : Pbids, gen : 1 .. MaxTB, ips : Seq(Nodes),
        bits : SUBSET Slaves]

ASSUME NoneAssumption == None \notin TBs

(* Who does more than throw m away: a message with a destination is for    *)
(* that node only, and the master ignores every TB.                        *)
Hearers(m) ==
  CASE m.type \in {"NE", "NEP", "NER", "SD"} -> {m.dest}
    [] m.type = "TB" -> Slaves
    [] OTHER -> Nodes

Frames(n, m) == {[to |-> h, msg |-> m] : h \in Links[n] \cap Hearers(m)}

(* The air after rest and the new frames: when they are more than          *)
(* MaxInFlight, as many as do not fit are lost, older ones first.          *)
Transmit(rest, frames) ==
  IF Cardinality(rest \cup frames) <= MaxInFlight
  THEN net' = rest \cup frames
  ELSE \E kept \in SUBSET (rest \cup frames) :
         /\ Cardinality(kept) = MaxInFlight
         /\ frames \subseteq kept \/ kept \subseteq frames
         /\ net' = kept

Received(c, type) == c \in net /\ c.msg.type = type

(* Mistake: the new element loses the rest of the list. *)
InsertAlone(list, n) == <<n>>

(* insertIPList: at the head, unless it is already there. *)
Insert(list, n) == IF n \in Range(list) THEN list ELSE <<n>> \o list

insertSubSlave(n, o) ==
  subSlaves' = [subSlaves EXCEPT ![n] = Insert(@, o)]
insertPending(n, o) ==
  outsidePending' = [outsidePending EXCEPT ![n] = @ \cup {o}]

-----------------------------------------------------------------------------
(* setup() *)
NoRoute == [h \in Nodes |-> "none"]
NoTA    == [o \in Slaves |-> None]

Init ==
  /\ status = [n \in Nodes |-> IF n = Master THEN "NA" ELSE "Outside"]
  /\ started = [n \in Nodes |-> FALSE]
  /\ rNE = [n \in Nodes |-> None]
  /\ rNER = [n \in Nodes |-> None]
  /\ subSlaves = [n \in Nodes |-> <<>>]
  /\ outsideSlaves = [n \in Nodes |-> {}]
  /\ outsidePending = [n \in Nodes |-> {}]
  /\ route = [n \in Nodes |-> NoRoute]
  /\ pb = [n \in Nodes |-> IF n = Master THEN "finite" ELSE "off"]
  /\ tbPbid = [n \in Nodes |-> 0]
  /\ taSeen = [n \in Nodes |-> NoTA]
  /\ prevTable = [n \in Nodes |-> <<>>]
  /\ localSlot = [n \in Nodes |-> -1]
  /\ sync = [n \in Nodes |-> 0]
  /\ rTB = None
  /\ tbRetAmm = 0
  /\ tbGen = 0
  /\ net = {}

(* The process of slave n starts again from nothing (controlledShutdown    *)
(* executes the program anew, st = "Outside") or is gone (it dereferenced  *)
(* NULL, st = "Crashed").                                                  *)
Reset(n, st) ==
  /\ status' = [status EXCEPT ![n] = st]
  /\ started' = [started EXCEPT ![n] = FALSE]
  /\ rNE' = [rNE EXCEPT ![n] = None]
  /\ rNER' = [rNER EXCEPT ![n] = None]
  /\ subSlaves' = [subSlaves EXCEPT ![n] = <<>>]
  /\ outsideSlaves' = [outsideSlaves EXCEPT ![n] = {}]
  /\ outsidePending' = [outsidePending EXCEPT ![n] = {}]
  /\ route' = [route EXCEPT ![n] = NoRoute]
  /\ pb' = [pb EXCEPT ![n] = "off"]
  /\ tbPbid' = [tbPbid EXCEPT ![n] = 0]
  /\ taSeen' = [taSeen EXCEPT ![n] = NoTA]
  /\ prevTable' = [prevTable EXCEPT ![n] = <<>>]
  /\ localSlot' = [localSlot EXCEPT ![n] = -1]
  /\ sync' = [sync EXCEPT ![n] = 0]
  /\ UNCHANGED masterVars

Alive(n) == status[n] # "Crashed"

-----------------------------------------------------------------------------
(* The routing table.  Its entries are sorted by distance, so the usable   *)
(* ones come before those whose distance is UNREACHABLE.                   *)
Known(r)  == {h \in Nodes : r[h] # "none"}
Usable(r) == {h \in Nodes : r[h] = "usable"}

(* getBestHop expires entries from the head of the table.  The sets it may *)
(* drop from table r, given the nodes heard just now.                      *)
Expirable(r, fresh) ==
  {gone \in SUBSET (Known(r) \ fresh) :
     /\ gone # {} => RoutesExpire
     /\ gone \subseteq Usable(r) \/ Usable(r) \subseteq gone}

Without(r, gone) == [h \in Nodes |-> IF h \in gone THEN "none" ELSE r[h]]

(* The three ways getBestHop may go on table r, dropping gone. *)
LosesAll(r, gone)    == gone # {} /\ gone = Known(r)
NoHop(r, gone)       == ~LosesAll(r, gone) /\ Usable(r) \subseteq gone
BestHops(r, gone)    == Usable(r) \ gone

(* The process ends in getBestHop: it starts anew once every neighbour is  *)
(* gone, and NE_RX and NER_RX use the address even when it is NULL.  What   *)
(* the handler has queued before may still be sent or is lost.             *)
LosesWay(n, c, r, queued) ==
  /\ \E gone \in Expirable(r, {}) :
       \/ LosesAll(r, gone) /\ Reset(n, "Outside")
       \/ NoHop(r, gone) /\ Reset(n, "Crashed")
  /\ \E sent \in {{}, queued} : Transmit(net \ {c}, sent)

-----------------------------------------------------------------------------
(* The TB for the nodes ips, asking bits for a TA, made at time gen. *)
NewTB(gen, ips, bits) ==
  /\ tbGen < MaxTB
  /\ tbGen' = tbGen + 1
  /\ rTB' = TB(0, gen, ips, bits)
  /\ localSlot' = [localSlot EXCEPT ![Master] = 0]
  /\ sync' = [sync EXCEPT ![Master] = gen]

(* Mistakes: the last SubSlave is left out, the bit of the master stays    *)
(* set, the wrong bit is cleared.                                          *)
generateTBWithoutLast(list) ==
  LET ips == <<Master>> \o SubSeq(list, 1, Len(list) - 1)
  IN  NewTB(tbGen + 1, ips, Range(ips) \ {Master})
generateTBAskingMaster(list) ==
  NewTB(tbGen + 1, <<Master>> \o list, Range(list) \cup {Master})
generateTBClearingNext(list) ==
  NewTB(tbGen + 1, <<Master>> \o list, (Range(list) \cup {Master}) \ {list[1]})

(* The time table.  generateTB lists the master and its SubSlaves and asks *)
(* all of them but the master for a TA.                                    *)
generateTB(list) == NewTB(tbGen + 1, <<Master>> \o list, Range(list))

(* TRUE while a TB is retransmitted that has already been sent, as far as  *)
(* beginTBTransmission can tell.                                           *)
TBUnderWay == rTB # None /\ tbRetAmm # 0

(* Mistake: the request is answered all the same. *)
beginTBAnswersAlways(list, rest, answer) ==
  /\ IF TBUnderWay THEN UNCHANGED <<slotVars, masterVars>>
                   ELSE generateTB(list) /\ UNCHANGED tbRetAmm
  /\ Transmit(rest, answer)

(* beginTBTransmission, with the answer that is sent when it succeeds. *)
beginTBTransmission(list, rest, answer) ==
  \/ /\ TBUnderWay
     /\ UNCHANGED <<slotVars, masterVars>>
     /\ Transmit(rest, {})
  \/ /\ ~TBUnderWay
     /\ generateTB(list)
     /\ UNCHANGED tbRetAmm
     /\ Transmit(rest, answer)

-----------------------------------------------------------------------------
(* The handlers of RX/network.c *)

(* The master takes the sender of an NE in. *)
MasterNE_RX(c) ==
  LET o == c.msg.from IN
  /\ Received(c, "NE")
  /\ c.to = Master
  /\ insertSubSlave(Master, o)
  /\ beginTBTransmission(Insert(subSlaves[Master], o), net \ {c},
                         Frames(Master, NEP(Master, o)))
  /\ UNCHANGED <<entryVars, outsideSlaves, outsidePending, routeVars, tableVars>>

(* A slave becomes the proxy of the sender of an NE. *)
ProxyNE_RX(c) ==
  LET n == c.to
      o == c.msg.from
      answer == Frames(n, NEP(n, o))
  IN
  /\ Received(c, "NE")
  /\ n \in Slaves /\ Alive(n)
  /\ \/ LosesWay(n, c, route[n], answer)
     \/ /\ \E gone \in Expirable(route[n], {}) : \E h \in BestHops(route[n], gone) :
             /\ route' = [route EXCEPT ![n] = Without(@, gone)]
             /\ rNER' = [rNER EXCEPT ![n] = [hop |-> h, outsider |-> o]]
             /\ Transmit(net \ {c}, answer \cup Frames(n, NER(h, o)))
        /\ insertSubSlave(n, o)
        /\ outsideSlaves' = [outsideSlaves EXCEPT ![n] = @ \cup {o}]
        /\ UNCHANGED <<status, started, rNE, outsidePending, pb, tableVars,
                       slotVars, masterVars>>

(* Mistake: a node that has found a proxy takes itself for a member. *)
NEP_RX_Enters(c) ==
  /\ Received(c, "NEP") /\ Alive(c.to)
  /\ rNE' = [rNE EXCEPT ![c.to] = None]
  /\ status' = [status EXCEPT ![c.to] = "Inside"]
  /\ net' = net \ {c}
  /\ UNCHANGED <<started, rNER, listVars, routeVars, tableVars, slotVars,
                 masterVars>>

(* A proxy has answered: whatever the node was doing, it now waits. *)
NEP_RX(c) ==
  LET n == c.to IN
  /\ Received(c, "NEP")
  /\ Alive(n)
  /\ rNE' = [rNE EXCEPT ![n] = None]
  /\ status' = [status EXCEPT ![n] = "Waiting"]
  /\ net' = net \ {c}
  /\ UNCHANGED <<started, rNER, listVars, routeVars, tableVars, slotVars,
                 masterVars>>

(* The master takes in the outsider of a proxy. *)
MasterNER_RX(c) ==
  LET o == c.msg.outsider IN
  /\ Received(c, "NER")
  /\ c.to = Master
  /\ insertSubSlave(Master, o)
  /\ insertPending(Master, o)
  /\ beginTBTransmission(Insert(subSlaves[Master], o), net \ {c},
                         Frames(Master, NEA(o)))
  /\ UNCHANGED <<entryVars, outsideSlaves, routeVars, tableVars>>

(* A slave on the way sends the request on to its own next hop. *)
ForwardNER_RX(c) ==
  LET n == c.to
      o == c.msg.outsider
  IN
  /\ Received(c, "NER")
  /\ n \in Slaves /\ Alive(n)
  /\ o # n
  /\ \/ LosesWay(n, c, route[n], {})
     \/ /\ \E gone \in Expirable(route[n], {}) : \E h \in BestHops(route[n], gone) :
             /\ route' = [route EXCEPT ![n] = Without(@, gone)]
             /\ Transmit(net \ {c}, Frames(n, NER(h, o)))
        /\ insertSubSlave(n, o)
        /\ insertPending(n, o)
        /\ UNCHANGED <<entryVars, outsideSlaves, pb, tableVars, slotVars,
                       masterVars>>

(* The answer of the master ends the NER of a proxy; a node on the way     *)
(* repeats it once.                                                        *)
NEA_RX(c) ==
  LET n == c.to
      o == c.msg.outsider
  IN
  /\ Received(c, "NEA")
  /\ Alive(n)
  /\ IF o \in outsideSlaves[n]
     THEN /\ rNER' = [rNER EXCEPT ![n] = None]
          /\ net' = net \ {c}
          /\ UNCHANGED outsidePending
     ELSE /\ outsidePending' = [outsidePending EXCEPT ![n] = @ \ {o}]
          /\ IF o \in outsidePending[n]
             THEN Transmit(net \ {c}, Frames(n, NEA(o)))
             ELSE net' = net \ {c}
          /\ UNCHANGED rNER
  /\ UNCHANGED <<status, started, rNE, subSlaves, outsideSlaves, routeVars,
                 tableVars, slotVars, masterVars>>

-----------------------------------------------------------------------------
(* The handlers of RX/time_table.c *)

SlotBefore(ips, n) ==            \* mistake: the slot one too low
  (CHOOSE i \in 0 .. Len(ips) - 1 : ips[i + 1] = n) - 1
SlotOf(ips, n) == CHOOSE i \in 0 .. Len(ips) - 1 : ips[i + 1] = n

(* A table without the node throws it out; its slot is gone but the sync   *)
(* of the table before it stays.                                           *)
TB_RX_Evicted(c) ==
  LET n == c.to IN
  /\ Received(c, "TB")
  /\ n \in Slaves /\ Alive(n)
  /\ n \notin Range(c.msg.ips)
  /\ localSlot' = [localSlot EXCEPT ![n] = -1]
  /\ status' = [status EXCEPT ![n] = "Outside"]
  /\ net' = net \ {c}
  /\ UNCHANGED <<started, rNE, rNER, listVars, routeVars, tableVars, sync,
                 masterVars>>

(* The TA a slave owes for m carries its TB_PBID, which then grows. *)
OwesTA(n, m)    == n \in m.bits
PbidAfterTA(n, m) == IF OwesTA(n, m) THEN NextPbid(tbPbid[n]) ELSE tbPbid[n]
NewTable(n, m)  == prevTable[n] # m.ips

(* m is sent on for the SubSlaves that owe a TA, when its PBID is higher   *)
(* than the node's, or when it begins a table that the node has not seen   *)
(* just before.                                                            *)
RelaysTB(n, m) ==
  /\ \E o \in Range(subSlaves[n]) : o \in m.bits
  /\ m.pbid > PbidAfterTA(n, m) \/ (m.pbid = 0 /\ NewTable(n, m))

(* A table that lists the node gives it its slot, however old the table. *)
TB_RX_Listed(c) ==
  LET n == c.to
      m == c.msg
  IN
  /\ Received(c, "TB")
  /\ n \in Slaves /\ Alive(n)
  /\ n \in Range(m.ips)
  /\ localSlot' = [localSlot EXCEPT ![n] = SlotOf(m.ips, n)]
  /\ sync' = [sync EXCEPT ![n] = m.gen]
  /\ taSeen' = IF NewTable(n, m) THEN [taSeen EXCEPT ![n] = NoTA] ELSE taSeen
  /\ prevTable' = [prevTable EXCEPT ![n] = m.ips]
  /\ tbPbid' = [tbPbid EXCEPT ![n] =
                  IF RelaysTB(n, m) THEN m.pbid ELSE PbidAfterTA(n, m)]
  /\ Transmit(net \ {c},
       (IF OwesTA(n, m) THEN Frames(n, TA(n, tbPbid[n])) ELSE {})
         \cup (IF RelaysTB(n, m) THEN Frames(n, m) ELSE {}))
  /\ status' = [status EXCEPT ![n] = "Inside"]
  /\ UNCHANGED <<started, rNE, rNER, listVars, routeVars, masterVars>>

(* The master strikes the originator off the TB it is retransmitting.      *)
(* Afterwards it looks for a bit that is still set in one byte too many    *)
(* when the bitmap fills its last byte: what is there is anything.         *)
MasterTA_RX(c) ==
  LET bits == rTB.bits \ {c.msg.originator} IN
  /\ Received(c, "TA")
  /\ c.to = Master
  /\ net' = net \ {c}
  /\ \/ /\ rTB = None
        /\ UNCHANGED rTB
     \/ /\ rTB # None
        /\ \E stray \in IF Len(rTB.ips) % BitsPerByte = 0
                        THEN BOOLEAN ELSE {FALSE} :
             rTB' = IF bits = {} /\ ~stray THEN None
                    ELSE [rTB EXCEPT !.bits = bits]
  /\ UNCHANGED <<entryVars, listVars, routeVars, tableVars, slotVars,
                 tbRetAmm, tbGen>>

(* A relay sends on a TA of a SubSlave that is newer than the last one. *)
RelayTA_RX(c) ==
  LET n == c.to
      o == c.msg.originator
  IN
  /\ Received(c, "TA")
  /\ n \in Slaves /\ Alive(n)
  /\ o \in Range(subSlaves[n])
  /\ taSeen[n][o] # None => taSeen[n][o] < c.msg.pbid
  /\ taSeen' = [taSeen EXCEPT ![n][o] = c.msg.pbid]
  /\ Transmit(net \ {c}, Frames(n, c.msg))
  /\ UNCHANGED <<entryVars, listVars, routeVars, tbPbid, prevTable, slotVars,
                 masterVars>>

-----------------------------------------------------------------------------
(* Samples: TX/application.c and RX/application.c *)

(* The WS listener sends a sample to the best hop; without one it is       *)
(* dropped, or the process starts anew.                                    *)
SD_TX(n) ==
  /\ n \in Sampled /\ Alive(n)
  /\ \E gone \in Expirable(route[n], {}) :
       \/ /\ LosesAll(route[n], gone)
          /\ Reset(n, "Outside")
          /\ UNCHANGED net
       \/ /\ ~LosesAll(route[n], gone)
          /\ route' = [route EXCEPT ![n] = Without(@, gone)]
          /\ \/ NoHop(route[n], gone) /\ UNCHANGED net
             \/ \E h \in BestHops(route[n], gone) :
                  Transmit(net, Frames(n, SD(n, h)))
          /\ UNCHANGED <<entryVars, listVars, pb, tableVars, slotVars, masterVars>>

(* A sample makes its source a SubSlave; the master queues it for HW and a *)
(* slave sends it on.                                                      *)
SD_RX(c) ==
  LET n == c.to
      o == c.msg.source
      r == [route[n] EXCEPT ![o] = IF @ = "none" THEN "unrated" ELSE @]
      learn == insertSubSlave(n, o) /\ insertPending(n, o)
  IN
  /\ Received(c, "SD")
  /\ status[n] \in {"NA", "Inside"}
  /\ learn
  /\ \/ /\ n = Master
        /\ net' = net \ {c}
        /\ UNCHANGED route
     \/ /\ n # Master
        /\ \E gone \in Expirable(r, {o}) :
             /\ route' = [route EXCEPT ![n] = Without(r, gone)]
             /\ \/ NoHop(r, gone) /\ net' = net \ {c}
                \/ \E h \in BestHops(r, gone) :
                     Transmit(net \ {c}, Frames(n, SD(o, h)))
  /\ UNCHANGED <<entryVars, outsideSlaves, pb, tableVars, slotVars, masterVars>>

-----------------------------------------------------------------------------
(* The routing conversation of RX/routing.c: h broadcasts a PB, n answers  *)
(* with a PR, h confirms with a PC.                                        *)

Broadcasts(h) == pb[h] # "off" /\ Alive(h)

PB_RX_Outside(n, h) ==
  /\ status[n] = "Outside"
  /\ h \in Links[n] /\ Broadcasts(h) /\ pb[h] = "finite"
  /\ started' = [started EXCEPT ![n] = TRUE]
  /\ rNE' = [rNE EXCEPT ![n] = [proxy |-> h, amm |-> 0]]
  /\ Transmit(net, Frames(n, NE(n, h)))
  /\ UNCHANGED <<status, rNER, listVars, routeVars, tableVars, slotVars,
                 masterVars>>

(* An entry whose RemotePBE is known, by the distance that was heard. *)
Rated(distance) == IF distance = "finite" THEN "usable" ELSE "unreachable"

(* The distance of the PB is entered; until the conversation has taken     *)
(* place the RemotePBE stays WORST_QUALITY, whatever the distance.         *)
PB_RX_Inside(n, h) ==
  /\ status[n] = "Inside"
  /\ h \in Links[n] /\ Broadcasts(h)
  /\ route' = [route EXCEPT ![n][h] =
                 IF @ \in {"none", "unrated"} THEN "unrated" ELSE Rated(pb[h])]
  /\ UNCHANGED <<entryVars, listVars, pb, tableVars, slotVars, masterVars, net>>

(* Some PB arrives more than WAITING_TIME_OUT after the last one that      *)
(* started the wait.                                                       *)
PB_RX_Waiting(n, h) ==
  /\ status[n] = "Waiting"
  /\ h \in Links[n] /\ Broadcasts(h)
  /\ started[n]
  /\ status' = [status EXCEPT ![n] = "Outside"]
  /\ started' = [started EXCEPT ![n] = FALSE]
  /\ UNCHANGED <<rNE, rNER, listVars, routeVars, tableVars, slotVars,
                 masterVars, net>>

HasRoute(n) == n = Master \/ Usable(route[n]) # {}

(* h hears the PR of n, which carries n's distance.  (The master's own     *)
(* entries are left out: it never looks for a next hop.)                   *)
PR_RX(h, n) ==
  /\ h \in Slaves /\ h \in Links[n] /\ Broadcasts(h)
  /\ route[n][h] # "none"
  /\ route' = [route EXCEPT ![h][n] =
                 IF HasRoute(n) THEN "usable" ELSE "unreachable"]
  /\ UNCHANGED <<entryVars, listVars, pb, tableVars, slotVars, masterVars, net>>

(* Mistake: PBs start without the entry being updated. *)
PC_RX_NoUpdate(n, h) ==
  /\ n \in Proxies /\ h \in Links[n] /\ Broadcasts(h)
  /\ route[n][h] # "none"
  /\ h # Master => route[h][n] # "none"
  /\ pb' = [pb EXCEPT ![n] = pb[h]]
  /\ UNCHANGED <<entryVars, listVars, route, tableVars, slotVars, masterVars, net>>

(* n hears the PC of h: it knows the link both ways, and broadcasts PBs of *)
(* its own from now on.                                                    *)
PC_RX(n, h) ==
  LET r == [route[n] EXCEPT ![h] = Rated(pb[h])] IN
  /\ n \in Proxies /\ h \in Links[n] /\ Broadcasts(h)
  /\ route[n][h] # "none"
  /\ h # Master => route[h][n] # "none"
  /\ route' = [route EXCEPT ![n] = r]
  /\ pb' = [pb EXCEPT ![n] = IF Usable(r) = {} THEN "unreachable" ELSE "finite"]
  /\ UNCHANGED <<entryVars, listVars, tableVars, slotVars, masterVars, net>>

-----------------------------------------------------------------------------
(* The retransmission thread *)

RetransmitTB ==
  /\ rTB # None
  /\ rTB.pbid < MaxSends
  /\ Transmit(net, Frames(Master, rTB))
  /\ rTB' = [rTB EXCEPT !.pbid = NextPbid(@)]
  /\ tbRetAmm' = (tbRetAmm + 1) % AmmMod
  /\ UNCHANGED <<entryVars, listVars, routeVars, tableVars, slotVars, tbGen>>

(* After NEAttempts transmissions the node gives up, whatever its status. *)
RetransmitNE(n) ==
  LET amm == rNE[n].amm + 1 IN
  /\ rNE[n] # None
  /\ Transmit(net, Frames(n, NE(n, rNE[n].proxy)))
  /\ IF amm = NEAttempts
     THEN /\ rNE' = [rNE EXCEPT ![n] = None]
          /\ status' = [status EXCEPT ![n] = "Outside"]
     ELSE /\ rNE' = [rNE EXCEPT ![n].amm = amm]
          /\ UNCHANGED status
  /\ UNCHANGED <<started, rNER, listVars, routeVars, tableVars, slotVars,
                 masterVars>>

RetransmitNER(n) ==
  /\ rNER[n] # None
  /\ Transmit(net, Frames(n, NER(rNER[n].hop, rNER[n].outsider)))
  /\ UNCHANGED <<entryVars, listVars, routeVars, tableVars, slotVars, masterVars>>

-----------------------------------------------------------------------------
(* A frame is lost in the air, or its handler returns at once: NER_RX for  *)
(* the node's own request, TA_RX for a TA that is not relayed, SD_RX of a  *)
(* node that is not inside.                                                *)
Lose(c) ==
  /\ c \in net
  /\ net' = net \ {c}
  /\ UNCHANGED <<entryVars, listVars, routeVars, tableVars, slotVars, masterVars>>

Receive(c) ==
  \/ MasterNE_RX(c)  \/ ProxyNE_RX(c)
  \/ NEP_RX(c)
  \/ MasterNER_RX(c) \/ ForwardNER_RX(c)
  \/ NEA_RX(c)
  \/ TB_RX_Evicted(c) \/ TB_RX_Listed(c)
  \/ MasterTA_RX(c)  \/ RelayTA_RX(c)
  \/ SD_RX(c)

Hear(n, h) ==
  \/ PB_RX_Outside(n, h) \/ PB_RX_Inside(n, h) \/ PB_RX_Waiting(n, h)
  \/ PR_RX(h, n)
  \/ PC_RX(n, h)

Next ==
  \/ \E c \in net : Receive(c) \/ Lose(c)
  \/ \E n \in Slaves, h \in Nodes : Hear(n, h)
  \/ \E n \in Slaves : SD_TX(n) \/ RetransmitNE(n) \/ RetransmitNER(n)
  \/ RetransmitTB

Spec == Init /\ [][Next]_vars

-----------------------------------------------------------------------------
(* Properties *)

(* The messages. *)
Message ==
       [type : {"NE"}, from : Slaves, dest : Nodes]
  \cup [type : {"NEP"}, from : Nodes, dest : Slaves]
  \cup [type : {"NER"}, dest : Nodes, outsider : Slaves]
  \cup [type : {"NEA"}, outsider : Slaves]
  \cup [type : {"TA"}, originator : Slaves, pbid : Pbids]
  \cup TBs
  \cup [type : {"SD"}, source : Slaves, dest : Nodes]

Frame == [to : Nodes, msg : Message]

EntryTyped ==
  /\ status \in [Nodes -> {"NA", "Outside", "Waiting", "Inside", "Crashed"}]
  /\ started \in [Nodes -> BOOLEAN]
  /\ rNE \in [Nodes -> {None} \cup [proxy : Nodes, amm : 0 .. NEAttempts - 1]]
  /\ rNER \in [Nodes -> {None} \cup [hop : Nodes, outsider : Slaves]]

ListsTyped ==
  /\ subSlaves \in [Nodes -> Seq(Slaves)]
  /\ outsideSlaves \in [Nodes -> SUBSET Slaves]
  /\ outsidePending \in [Nodes -> SUBSET Slaves]

RouteTable == [Nodes -> {"none", "unrated", "unreachable", "usable"}]

RoutesTyped ==
  /\ route \in [Nodes -> RouteTable]
  /\ pb \in [Nodes -> {"off", "unreachable", "finite"}]

TablesTyped ==
  /\ tbPbid \in [Nodes -> Pbids]
  /\ taSeen \in [Nodes -> [Slaves -> {None} \cup Pbids]]
  /\ prevTable \in [Nodes -> Seq(Nodes)]

SlotsTyped ==
  /\ localSlot \in [Nodes -> Int]
  /\ sync \in [Nodes -> 0 .. MaxTB]

MasterTyped ==
  /\ rTB \in {None} \cup TBs
  /\ tbRetAmm \in 0 .. AmmMod - 1
  /\ tbGen \in 0 .. MaxTB

(* Every variable keeps its type.                                          *)
TypeOK ==
  /\ EntryTyped
  /\ ListsTyped
  /\ RoutesTyped
  /\ TablesTyped
  /\ SlotsTyped
  /\ MasterTyped
  /\ net \in SUBSET Frame

Registered == Range(subSlaves[Master])

(* A slave is Inside only when the master has it among its SubSlaves: the  *)
(* table that let it in came from the master, directly or over relays, and *)
(* the master never forgets a slave.  The status and the list are written  *)
(* on different nodes, with a TB in the air between them.                  *)
InsideIsRegistered ==
  \A n \in Slaves : status[n] = "Inside" => n \in Registered

(* Two nodes that were given slots for the same sync time have different   *)
(* ones, over whatever path and in whatever order their TBs came: on this  *)
(* the time division of WF_dispatcher rests.                               *)
SlotsExclusive ==
  \A n1, n2 \in Nodes :
    /\ n1 # n2 /\ sync[n1] # 0 /\ sync[n1] = sync[n2]
    /\ localSlot[n1] >= 0 /\ localSlot[n2] >= 0
    => localSlot[n1] # localSlot[n2]

(* The time tables that exist: in TBs in the air, in the one the master    *)
(* retransmits, and those the slaves have slots in.                        *)
TablesIn(frames) ==
  {[gen |-> c.msg.gen, ips |-> c.msg.ips] : c \in {f \in frames : f.msg.type = "TB"}}
TablesHeld ==
  {[gen |-> sync[n], ips |-> prevTable[n]] : n \in {k \in Slaves : sync[k] # 0}}
TablesAtMaster ==
  IF rTB = None THEN {} ELSE {[gen |-> rTB.gen, ips |-> rTB.ips]}
Tables == TablesIn(net) \cup TablesHeld \cup TablesAtMaster

(* A table lists the master once, and first, and then registered slaves.   *)
WellFormed(t) ==
  /\ t.gen \in 1 .. tbGen
  /\ t.ips \in Seq(Nodes)
  /\ t.ips # <<>>
  /\ t.ips[1] = Master
  /\ \A i \in 2 .. Len(t.ips) : t.ips[i] \in Registered

(* Of two tables the later one lists all that the earlier one does, and    *)
(* there is one table for a time.                                          *)
Later(t1, t2) ==
  /\ t1.gen <= t2.gen => Range(t1.ips) \subseteq Range(t2.ips)
  /\ t1.gen = t2.gen => t1.ips = t2.ips

TablesGrow ==
  /\ \A t \in Tables : WellFormed(t)
  /\ \A t1, t2 \in Tables : Later(t1, t2)

(* A slave that has taken a table is in it, and its slot, if it has one,   *)
(* is its place in it; one that has taken none remembers none.  The master *)
(* has the first.                                                          *)
SlotsFromTables ==
  /\ sync[Master] # 0 => localSlot[Master] = 0
  /\ \A n \in Slaves :
       /\ sync[n] # 0 => n \in Range(prevTable[n])
       /\ sync[n] = 0 => prevTable[n] = <<>>
       /\ localSlot[n] >= 0 => sync[n] # 0 /\ localSlot[n] = SlotOf(prevTable[n], n)

(* All time tables that exist at a time, in whatever order they were sent, *)
(* relayed and taken, agree: tables of one time are the same, a later one  *)
(* has everybody an earlier one had, and every slot is a place in the      *)
(* table its node took last.                                               *)
TablesAgree == TablesGrow /\ SlotsFromTables

(* A positive answer names a slave that is registered, and whose slot is   *)
(* in the table being retransmitted, if there is one.                      *)
Promised(o) == o \in Registered /\ (rTB # None => o \in Range(rTB.ips))

(* The master answers a request (NEP to its own neighbour, NEA through a   *)
(* proxy) only when the table it retransmits has a slot for the outsider,  *)
(* and this stays so until the answer arrives: a request that comes while  *)
(* an older table is under way is registered but must go unanswered.       *)
PromisesKept ==
  \A c \in net :
    /\ c.msg.type = "NEA" => Promised(c.msg.outsider)
    /\ c.msg.type = "NEP" /\ c.msg.from = Master => Promised(c.msg.dest)

(* A slave with a slot loses it only to a table older than the one it has: *)
(* tables only grow, so that no newer one can leave it out (TB_RX takes    *)
(* any TB, and the only check on its age is this growth).                  *)
OnlyStaleTablesEvict ==
  [][\A n \in Slaves :
       localSlot[n] >= 0 /\ localSlot'[n] = -1 /\ sync'[n] = sync[n] =>
         \E c \in net \ net' :
           c.to = n /\ c.msg.type = "TB" /\ c.msg.gen < sync[n]]_vars

(* As long as routes do not expire, no node is asked to be a proxy, or to  *)
(* forward a request, without a next hop: NE_RX and NER_RX use what        *)
(* getBestHop returns without looking at it.                               *)
ProxiesHaveNextHop == ~RoutesExpire => \A n \in Slaves : Alive(n)

(* As long as routes do not expire, a slave that the master has struck off *)
(* the TB holds a table that lists it, and nobody that the TB does not:    *)
(* the one under way or an earlier one, over relays and with TAs of older  *)
(* tables in the air.  (Which of them the code does not ask: a delayed TA  *)
(* of an older table clears the bit too.)                                  *)
StruckOffHasTable ==
  ~RoutesExpire /\ rTB # None =>
    \A n \in Range(rTB.ips) \ (rTB.bits \cup {Master}) :
      /\ sync[n] \in 1 .. rTB.gen
      /\ n \in Range(prevTable[n])
      /\ Range(prevTable[n]) \subseteq Range(rTB.ips)

-----------------------------------------------------------------------------
(* Liveness, in a network where every slave hears the master.  The thread  *)
(* that retransmits runs again and again, the PB of the master is repeated *)
(* for ever, and when NEs, TBs or TAs are sent again and again to a node,  *)
(* one arrives: a frame may always be lost, but not all of them.           *)
ReceiveAt(n, type) == \E c \in net : c.to = n /\ c.msg.type = type /\ Receive(c)

Fairness ==
  /\ WF_vars(RetransmitTB)
  /\ \A n \in Slaves :
       /\ WF_vars(Hear(n, Master))
       /\ SF_vars(ReceiveAt(n, "TB"))
  /\ SF_vars(ReceiveAt(Master, "NE"))
  /\ SF_vars(ReceiveAt(Master, "TA"))

FairSpec == Spec /\ Fairness

(* Every slave gets in, whatever is lost on the way.                       *)
EverySlaveEnters == \A n \in Slaves : <>(status[n] = "Inside")

(* The TB is not retransmitted for ever: every slave in it answers, and    *)
(* the master finds that all have.                                         *)
TBEnds == rTB # None ~> rTB = None

(* protocol.h:49: a node spends WAITING_TIME_OUT waiting before it becomes *)
(* an outside node again.  The code arms the wait in PB_RX but enters it   *)
(* in NEP_RX.                                                              *)
WaitingEnds == \A n \in Slaves : status[n] = "Waiting" ~> status[n] # "Waiting"

(* TX/time_table.c:30: when TB_ret_amm is not zero "the TB was already     *)
(* transmitted at least once".                                             *)
UnderWayMeansSent == TBUnderWay => rTB.pbid # 0

(* routing_table.c:122: without a next hop getBestHop says "proceed with   *)
(* controlled shutdown"; its callers in NE_RX and NER_RX use the NULL.     *)
NoNextHopShutsDown == \A n \in Slaves : Alive(n)

=============================================================================
