----------------------------- MODULE RoutingNet -----------------------------
(***************************************************************************)
(* The routing conversation and the delivery of samples over a network:    *)
(* the handlers of PB, PR, PC and SD (src/src/RX/routing.c and             *)
(* application.c), the routing tables they fill, the listener of the       *)
(* wireless sensor (RX/WS.c) and the dispatcher to the hardware (TX/HW.c). *)
(*                                                                         *)
(* A frame travels on the directed links that hear its sender, in order on *)
(* each.  PR and PC are put only on the link to the node they name, since  *)
(* every other node drops them at the first guard; SD is put on all.       *)
(*                                                                         *)
(* Left out: PBIDs, which have no effect on routing (a guard "|| 1", two   *)
(* branches alike); the lists that SD_RX also fills (OneNode has them);    *)
(* the entry by TB, a step of the environment (NetworkEntry has it).       *)
(***************************************************************************)
EXTENDS RoutingTable, FiniteSets

CONSTANTS
  Nodes, Master,
  Networks,     \* the networks to choose from, records of
                \*   loss     the rate of each directed link that exists
                \*   best     the distance of each node along its best path
                \*            over links that hear each other both ways
                \*   samples  how many samples each sensor gives (bound)
                \*   trouble  how many faults may happen (bound)
  Mixed,        \* the number of a delivery that mixes two samples
  NoPB,         \* no PB is under retransmission
  Idle,         \* the WS listener waits for a sample
  InBuffer      \* a pointer to TotalSample in InternalQueue

VARIABLES
  network,      \* the network chosen; never changes
  status,       \* Self.Status of each slave, or Dead after a crash
  table,        \* Self.Table of each node
  pb,           \* the distance in the PB under retransmission, or NoPB
  channel,      \* the frames on each link, oldest first
  sending,      \* where the WS listener of a slave is in buildSDMessage
  taken,        \* history: the samples its sensor gave to each node
  copying,      \* at the master: the WS listener is writing TotalSample
  internal,     \* at the master: InternalQueue
  delivered,    \* history: what was sent to the hardware
  trouble       \* how many faults may still happen

routing  == <<status, table, pb>>
samples  == <<taken, sending>>
hardware == <<copying, internal, delivered>>
vars == <<network, routing, channel, samples, hardware, trouble>>

Slaves == Nodes \ {Master}
Links  == DOMAIN network.loss

(* The distance over a link of a node that is d away from the master. *)
Over(net, l, d) == getDistance(Entry(l[2], d, net.loss[l]))

AllAcceptable(net) == \A l \in DOMAIN net.loss : net.loss[l] <= Magnitude

BothWays(net) == {l \in DOMAIN net.loss : <<l[2], l[1]>> \in DOMAIN net.loss}

(* The best distances are those that satisfy Bellman's equations. *)
IsBest(net) ==
  /\ net.best \in [Nodes -> 0 .. UNREACHABLE]
  /\ net.best[Master] = 0
  /\ \A n \in Slaves :
       LET ways == {Over(net, l, net.best[l[2]]) : l \in {k \in BothWays(net) : k[1] = n}}
       IN  /\ \A d \in ways : net.best[n] <= d
           /\ net.best[n] \in ways \cup {UNREACHABLE}

ASSUME NetAssumption ==
  /\ Master \in Nodes
  /\ NoHop \notin Nodes
  /\ Mixed \notin Nat /\ NoPB \notin Nat
  /\ Idle \notin [sample : [source : Nodes, number : Nat \cup {Mixed}],
                  hop : Nodes, freed : BOOLEAN]
  /\ InBuffer \notin [source : Nodes, number : Nat \cup {Mixed}]
  /\ \A net \in Networks :
       /\ DOMAIN net.loss \subseteq Nodes \X Nodes
       /\ \A l \in DOMAIN net.loss : l[1] # l[2] /\ net.loss[l] \in Nat
       /\ AllAcceptable(net) => IsBest(net)
       /\ net.samples \in [Nodes -> Nat]
       /\ net.trouble \in Nat

Sample(source, number) == [source |-> source, number |-> number]

-----------------------------------------------------------------------------
(* Frames *)

PB(s, distance)        == [type |-> "PB", sender |-> s, distance |-> distance]
PR(s, distance, pbe)   == [type |-> "PR", sender |-> s, distance |-> distance,
                           pbe |-> pbe]
PC(s, pbe)             == [type |-> "PC", sender |-> s, pbe |-> pbe]
SD(sample, next)       == [type |-> "SD", sample |-> sample, next |-> next]

(* The channels after the frame at the head of the link l is taken. *)
Taken(l) == [channel EXCEPT ![l] = Tail(@)]

Broadcast(s, frame, ch) ==
  [l \in Links |-> IF l[1] = s THEN Append(ch[l], frame) ELSE ch[l]]

Unicast(s, r, frame, ch) ==
  IF <<s, r>> \in Links
  THEN [ch EXCEPT ![<<s, r>>] = Append(@, frame)]
  ELSE ch

Arrives(s, r, type) ==
  /\ status[r] # "Dead"
  /\ channel[<<s, r>>] # <<>>
  /\ Head(channel[<<s, r>>]).type = type

On(l, types) == \E i \in DOMAIN channel[l] : channel[l][i].type \in types

(* The PB of n, or an answer to it, is still on its way. *)
Conversing(n) ==
  \E l \in Links : \/ l[1] = n /\ On(l, {"PB", "PC"})
                   \/ l[2] = n /\ On(l, {"PR"})

-----------------------------------------------------------------------------
myDistance(n, tbl) == IF n = Master THEN 0 ELSE FirstDistance(tbl)

(* Every slave has just entered; none has had a routing conversation. *)
Init ==
  /\ network \in Networks
  /\ status = [n \in Nodes |-> IF n = Master THEN "NA" ELSE "Inside"]
  /\ table = [n \in Nodes |-> <<>>]
  /\ pb = [n \in Nodes |-> IF n = Master THEN 0 ELSE NoPB]
  /\ channel = [l \in Links |-> <<>>]
  /\ sending = [n \in Slaves |-> Idle]
  /\ taken = [n \in Nodes |-> 0]
  /\ copying = FALSE
  /\ internal = <<>>
  /\ delivered = <<>>
  /\ trouble = network.trouble

(* The listener of n writes its table: an entry that the WS listener still
   points into is freed if it was removed or replaced. *)
Freed(n, ip) ==
  sending' = IF n # Master /\ sending[n] # Idle /\ sending[n].hop = ip
             THEN [sending EXCEPT ![n].freed = TRUE]
             ELSE sending

(* The process of n starts anew. *)
Restarted(n) ==
  /\ status' = [status EXCEPT ![n] = "Outside"]
  /\ table' = [table EXCEPT ![n] = <<>>]
  /\ pb' = [pb EXCEPT ![n] = NoPB]
  /\ sending' = [sending EXCEPT ![n] = Idle]

(* A TB gives the slave a slot. *)
Enter(n) ==
  /\ status[n] = "Outside"
  /\ status' = [status EXCEPT ![n] = "Inside"]
  /\ UNCHANGED <<network, table, pb, channel, samples, hardware, trouble>>

(* The retransmission thread sends the PB as it was made.  Bound: not while
   a conversation about the last one is going on (it is 3 to 5 seconds ago). *)
PB_Retransmit(n) ==
  /\ status[n] # "Dead"
  /\ pb[n] # NoPB
  /\ ~Conversing(n)
  /\ channel' = Broadcast(n, PB(n, pb[n]), channel)
  /\ UNCHANGED <<network, routing, samples, hardware, trouble>>

(* Mistake: a neighbour that has not answered yet is taken to hear all. *)
RateOrPerfect(tbl, ip) ==
  IF Knows(tbl, ip) THEN routSearchByIp(tbl, ip).remotePBE ELSE 0

(* What the node knows of how a neighbour hears it. *)
KnownRate(tbl, ip) ==
  IF Knows(tbl, ip) THEN routSearchByIp(tbl, ip).remotePBE ELSE WORST_QUALITY

(* What is known of the sender's reception stays; the entry is heard anew. *)
PB_RX(s, r) ==
  LET frame == Head(channel[<<s, r>>])
      tbl   == routInsertOrUpdateEntry(table[r], s, frame.distance,
                                       KnownRate(table[r], s))
  IN
  /\ Arrives(s, r, "PB")
  /\ \/ /\ status[r] = "Inside"
        /\ table' = [table EXCEPT ![r] = tbl]
        /\ channel' = Unicast(r, s,
                        PR(r, myDistance(r, table'[r]), network.loss[<<s, r>>]),
                        Taken(<<s, r>>))
        /\ Freed(r, s)
     \/ /\ status[r] # "Inside"
        /\ table' = [table EXCEPT ![r] = routUpdateLastHeard(@, s)]
        /\ channel' = Taken(<<s, r>>)
        /\ UNCHANGED sending
  /\ UNCHANGED <<network, status, pb, taken, hardware, trouble>>

(* An answer to a PB of this node (the frame names r as its originator). *)
PR_RX(s, r) ==
  LET frame == Head(channel[<<s, r>>]) IN
  /\ Arrives(s, r, "PR")
  /\ table' = [table EXCEPT ![r] =
                 routInsertOrUpdateEntry(@, s, frame.distance, frame.pbe)]
  /\ channel' = Unicast(r, s, PC(r, network.loss[<<s, r>>]), Taken(<<s, r>>))
  /\ Freed(r, s)
  /\ UNCHANGED <<network, status, pb, taken, hardware, trouble>>

(* Mistake: a PB that is on is not made anew. *)
startPBOnce(r, distance) ==
  pb' = [pb EXCEPT ![r] = IF @ = NoPB THEN distance ELSE @]

(* A PB of this distance is repeated from now on. *)
startPB(r, distance) == pb' = [pb EXCEPT ![r] = distance]

(* The end of a conversation: the rate the other end saw enters the table
   and the PB is made anew. *)
PC_RX(s, r) ==
  LET frame == Head(channel[<<s, r>>])
      entry == routSearchByIp(table[r], s)
      tbl   == routInsertOrUpdateEntry(table[r], s, entry.distance, frame.pbe)
  IN
  /\ Arrives(s, r, "PC")
  /\ Knows(table[r], s)
  /\ table' = [table EXCEPT ![r] = tbl]
  /\ startPB(r, myDistance(r, table'[r]))
  /\ channel' = Taken(<<s, r>>)
  /\ Freed(r, s)
  /\ UNCHANGED <<network, status, taken, hardware, trouble>>

(* Without an entry for the sender PC_RX reads through NULL. *)
PC_RX_Crash(s, r) ==
  /\ Arrives(s, r, "PC")
  /\ ~Knows(table[r], s)
  /\ status' = [status EXCEPT ![r] = "Dead"]
  /\ channel' = Taken(<<s, r>>)
  /\ UNCHANGED <<network, table, pb, samples, hardware, trouble>>

-----------------------------------------------------------------------------
(* Samples of the slaves *)

(* SD_TX of the WS listener, up to the return of getBestHop: a pointer into
   the table, read only afterwards.  Without a hop the sample is dropped. *)
SD_TX(n) ==
  LET hop == getBestHop(table[n])
      sample == Sample(n, taken[n] + 1)
  IN
  /\ status[n] # "Dead"
  /\ taken[n] < network.samples[n]
  /\ sending[n] = Idle
  /\ taken' = [taken EXCEPT ![n] = @ + 1]
  /\ \/ /\ LosesLast(table[n])            \* controlledShutdown
        /\ Restarted(n)
     \/ /\ ~LosesLast(table[n])
        /\ table' = [table EXCEPT ![n] = Unexpired(@)]
        /\ sending' = [sending EXCEPT ![n] =
                         IF hop = NoHop THEN Idle
                         ELSE [sample |-> sample, hop |-> hop, freed |-> FALSE]]
        /\ UNCHANGED <<status, pb>>
  /\ UNCHANGED <<network, channel, hardware, trouble>>

(* The rest of SD_TX.  If the listener has freed the entry meanwhile, as every
   PB, PR and PC of that neighbour does, the next hop that is read may be
   anything. *)
SD_TX_Send(n) ==
  /\ status[n] # "Dead"
  /\ sending[n] # Idle
  /\ \E next \in Nodes \cup {NoHop} :
       /\ next = sending[n].hop \/ sending[n].freed
       /\ channel' = Broadcast(n, SD(sending[n].sample, next), channel)
  /\ sending' = [sending EXCEPT ![n] = Idle]
  /\ UNCHANGED <<network, routing, taken, hardware, trouble>>

(* The table once an SD of source was heard.  What the node knew of the
   source stays: it is listed as unreachable only if it was not known. *)
Heard(tbl, source) ==
  IF Knows(tbl, source) THEN routUpdateLastHeard(tbl, source)
  ELSE routInsertOrUpdateEntry(tbl, source, UNREACHABLE, WORST_QUALITY)

(* Mistake: a master, whose Status is NA, is not Inside either. *)
SD_RX_IgnoredUnlessInside(s, r) ==
  /\ Arrives(s, r, "SD")
  /\ status[r] # "Inside" \/ Head(channel[<<s, r>>]).next # r
  /\ channel' = Taken(<<s, r>>)
  /\ UNCHANGED <<network, routing, samples, hardware, trouble>>

(* SD_RX leaves alone what names another next hop. *)
SD_RX_Ignored(s, r) ==
  /\ Arrives(s, r, "SD")
  /\ status[r] = "Outside" \/ Head(channel[<<s, r>>]).next # r
  /\ channel' = Taken(<<s, r>>)
  /\ UNCHANGED <<network, routing, samples, hardware, trouble>>

(* Mistake: the sample is queued by way of TotalSample. *)
SD_RX_MasterShared(s) ==
  /\ Arrives(s, Master, "SD")
  /\ Head(channel[<<s, Master>>]).next = Master
  /\ internal' = Append(internal, InBuffer)
  /\ channel' = Taken(<<s, Master>>)
  /\ UNCHANGED <<network, routing, samples, copying, delivered, trouble>>

SD_RX_Master(s) ==
  LET sample == Head(channel[<<s, Master>>]).sample IN
  /\ Arrives(s, Master, "SD")
  /\ Head(channel[<<s, Master>>]).next = Master
  /\ table' = [table EXCEPT ![Master] = Heard(@, sample.source)]
  /\ internal' = Append(internal, sample)
  /\ channel' = Taken(<<s, Master>>)
  /\ UNCHANGED <<network, status, pb, samples, copying, delivered, trouble>>

(* A slave sends the sample on in the name of its source, or drops it when it
   has no hop.  The table holds the source, just heard, so that getBestHop
   never finds it emptied here. *)
SD_RX_Relay(s, r) ==
  LET sample == Head(channel[<<s, r>>]).sample
      tbl    == Heard(table[r], sample.source)
      hop    == getBestHop(tbl)
  IN
  /\ r \in Slaves
  /\ Arrives(s, r, "SD")
  /\ status[r] = "Inside"
  /\ Head(channel[<<s, r>>]).next = r
  /\ table' = [table EXCEPT ![r] = Unexpired(tbl)]
  /\ channel' = IF hop = NoHop THEN Taken(<<s, r>>)
                ELSE Broadcast(r, SD(sample, hop), Taken(<<s, r>>))
  /\ sending' = IF sending[r] # Idle /\ ~Knows(Unexpired(tbl), sending[r].hop)
                THEN [sending EXCEPT ![r].freed = TRUE]
                ELSE sending
  /\ UNCHANGED <<network, status, pb, taken, hardware, trouble>>

-----------------------------------------------------------------------------
(* Samples of the master: WS_listener writes each into TotalSample and queues
   a pointer to it; HW_dispatcher sends what the buffer then holds, parts of
   two samples while it is being written.  (A read that finds nothing new is
   one before the copy; whether one that finds all of it comes before or after
   the queueing makes no difference to what is sent.) *)

WS_listener_Copy ==
  /\ ~copying
  /\ taken[Master] < network.samples[Master]
  /\ taken' = [taken EXCEPT ![Master] = @ + 1]
  /\ copying' = TRUE
  /\ UNCHANGED <<network, routing, channel, sending, internal, delivered, trouble>>

WS_listener_Queue ==
  /\ copying
  /\ copying' = FALSE
  /\ internal' = Append(internal, InBuffer)
  /\ UNCHANGED <<network, routing, channel, samples, delivered, trouble>>

HW_dispatcher ==
  /\ internal # <<>>
  /\ internal' = Tail(internal)
  /\ \/ /\ Head(internal) # InBuffer
        /\ delivered' = Append(delivered, Head(internal))
     \/ /\ Head(internal) = InBuffer
        /\ delivered' = Append(delivered,
                          Sample(Master, IF copying THEN Mixed ELSE taken[Master]))
  /\ UNCHANGED <<network, routing, channel, samples, copying, trouble>>

-----------------------------------------------------------------------------
(* Faults *)

Fault == trouble > 0 /\ trouble' = trouble - 1

(* A frame is not received. *)
Lose(s, r) ==
  /\ Fault
  /\ channel[<<s, r>>] # <<>>
  /\ channel' = Taken(<<s, r>>)
  /\ UNCHANGED <<network, routing, samples, hardware>>

(* r does not hear s for nextHopTimeout, although it sends. *)
Silence(s, r) ==
  /\ Fault
  /\ Knows(table[r], s) /\ routSearchByIp(table[r], s).fresh
  /\ channel[<<s, r>>] = <<>>
  /\ table' = [table EXCEPT ![r][Place(table[r], s)].fresh = FALSE]
  /\ UNCHANGED <<network, status, pb, channel, samples, hardware>>

(* The process of a slave stops and is started again. *)
Restart(n) ==
  /\ Fault
  /\ Restarted(n)
  /\ UNCHANGED <<network, channel, taken, hardware>>

-----------------------------------------------------------------------------
Receive(s, r) ==
  PB_RX(s, r) \/ PR_RX(s, r) \/ PC_RX(s, r) \/ PC_RX_Crash(s, r)
    \/ SD_RX_Ignored(s, r) \/ SD_RX_Relay(s, r)
    \/ (r = Master /\ SD_RX_Master(s))

Next ==
  \/ \E n \in Slaves : Enter(n) \/ SD_TX(n) \/ SD_TX_Send(n) \/ Restart(n)
  \/ \E n \in Nodes : PB_Retransmit(n)
  \/ \E l \in Links : \/ Receive(l[1], l[2]) \/ Lose(l[1], l[2])
                      \/ Silence(l[1], l[2])
  \/ WS_listener_Copy \/ WS_listener_Queue \/ HW_dispatcher

(* Every thread goes on (in the networks without faults, the only ones that
   ComesToRest is about).  A PB is sent again and again: the timer a PC starts
   anew has a random length, so that some PB falls before the next PC.  The
   steps of the last two conjuncts are taken finitely often, so that fairness
   of all together is fairness of each. *)
NoFaults == network.trouble = 0

Fairness ==
  /\ \A n \in Nodes : WF_vars(NoFaults /\ PB_Retransmit(n))
  /\ \A l \in Nodes \X Nodes : WF_vars(NoFaults /\ l \in Links /\ Receive(l[1], l[2]))
  /\ WF_vars(NoFaults /\ \E n \in Slaves : SD_TX_Send(n))
  /\ WF_vars(NoFaults /\ (WS_listener_Queue \/ HW_dispatcher))

Spec == Init /\ [][Next]_vars

FairSpec == Spec /\ Fairness

-----------------------------------------------------------------------------
(* Properties *)

Distances == 0 .. UNREACHABLE

EntryType == [ip : Nodes, distance : Distances,
              remotePBE : Nat \cup {WORST_QUALITY}, fresh : BOOLEAN]

SampleType == [source : Nodes, number : Nat \cup {Mixed}]

FrameType ==
  [type : {"PB"}, sender : Nodes, distance : Distances]
    \cup [type : {"PR"}, sender : Nodes, distance : Distances, pbe : Nat]
    \cup [type : {"PC"}, sender : Nodes, pbe : Nat]
    \cup [type : {"SD"}, sample : SampleType, next : Nodes \cup {NoHop}]

(* Every variable stays within its type. *)
TypeOK ==
  /\ network \in Networks
  /\ status \in [Nodes -> {"NA", "Outside", "Inside", "Dead"}]
  /\ \A n \in Nodes : table[n] \in Seq(EntryType)
  /\ pb \in [Nodes -> Distances \cup {NoPB}]
  /\ channel \in [Links -> Seq(FrameType)]
  /\ \A n \in Slaves :
       sending[n] = Idle \/
       sending[n] \in [sample : SampleType, hop : Nodes, freed : BOOLEAN]
  /\ taken \in [Nodes -> Nat]
  /\ copying \in BOOLEAN
  /\ internal \in Seq(SampleType \cup {InBuffer})
  /\ delivered \in Seq(SampleType)
  /\ trouble \in Nat

(* Every link loses something, and none more than is acceptable. *)
Graded ==
  AllAcceptable(network) /\ \A l \in Links : network.loss[l] > 0

(* Every table is in the order of its distances and lists a neighbour once,
   whatever the order of PB, PR, PC and SD, so that looking at its head alone,
   as getBestHop and myDistance do, is enough. *)
TablesInOrder == \A n \in Nodes : InOrder(table[n])

(* An entry that can be used belongs to a neighbour that hears the node and
   is heard by it, and holds the loss of the frames the node sends to it, not
   of those it receives: what the exchange of PB, PR and PC is for. *)
UsedBothWays ==
  \A n \in Nodes : \A i \in DOMAIN table[n] :
    LET e == table[n][i] IN
      Usable(e) => /\ {<<n, e.ip>>, <<e.ip, n>>} \subseteq Links
                   /\ e.remotePBE = network.loss[<<n, e.ip>>]

(* No node believes or says that it is nearer to the master than the best
   path there is, also after faults and restarts and with PBs that were made
   long ago (createPB, myDistance). *)
NeverOptimistic ==
  AllAcceptable(network) =>
    /\ \A n \in Slaves : FirstDistance(table[n]) >= network.best[n]
    /\ \A n \in Nodes : pb[n] # NoPB => pb[n] >= network.best[n]
    /\ \A l \in Links : \A i \in DOMAIN channel[l] :
         LET f == channel[l][i] IN
           f.type \in {"PB", "PR"} => f.distance >= network.best[f.sender]

(* The process does not die of a PC whose sender it does not know (PC_RX
   reads the entry without a test) unless a fault came before. *)
NoCrash == NoFaults => \A n \in Nodes : status[n] # "Dead"

Delivery == INSTANCE SampleDelivery

(* The hardware is given every sample at most once, under the name of the
   node that took it, and no sample of the master older than one before. *)
DeliverySpec == Delivery!Spec

(* Every slave knows its best path. *)
Settled ==
  /\ AllAcceptable(network)
  /\ \A n \in Slaves : FirstDistance(table[n]) = network.best[n]

(* Every next hop is nearer to the master than the node. *)
Growing ==
  \A n \in Slaves :
    table[n] # <<>> /\ Usable(table[n][1]) =>
      getDistance(table[n][1]) > table[n][1].distance

(* getBestHop finds nothing expired. *)
HopsHeard == \A n \in Slaves : table[n] # <<>> => table[n][1].fresh

(* Once every slave knows its best path and hears the next hop on it, no slaves
   send in a circle, whatever happened before: of any set of them one has its
   next hop outside the set.  (Until then a circle is possible, also without
   faults: a PB that repeats an old, greater distance sends a node to one whose
   own path goes by that node.  And over links that lose nothing all distances
   are 0, and the code builds circles that stay: InsertPlace puts the later of
   two first.) *)
NoLoops ==
  Settled /\ HopsHeard /\ Growing =>
    \A C \in SUBSET Slaves :
      C # {} => \E n \in C : getBestHop(table[n]) \notin C

(* The samples of slaves on their way to the master. *)
UnderWay ==
  {sending[n].sample : n \in {x \in Slaves : sending[x] # Idle}}
    \cup UNION {{f.sample : f \in {g \in ToSet(channel[l]) :
                                    g.type = "SD" /\ g.next = l[2]}} : l \in Links}

(* Every slave is inside, knows its best path and hears the next hop on it. *)
Steady == Settled /\ HopsHeard /\ \A n \in Slaves : status[n] = "Inside"

(* The next hop of x is read from an entry that the listener has freed, or
   was, and the node it names has no path to the master. *)
Misled(x) ==
  \/ \E n \in Slaves : sending[n] # Idle /\ sending[n].freed /\ sending[n].sample = x
  \/ \E l \in Links : \E i \in DOMAIN channel[l] :
       /\ channel[l][i] = SD(x, l[2])
       /\ network.best[l[2]] = UNREACHABLE

(* A sample that is under way is dropped only by a fault of that very step,
   while paths are in flux, or because its next hop was read from an entry that
   the listener freed meanwhile; whatever went wrong before, and although every
   slave on its way chooses the next hop anew (SD_RX, buildSDMessage). *)
DroppedInFlux ==
  [][\A x \in UnderWay :
       \/ x \in UnderWay' \/ x \in ToSet(internal')
       \/ trouble' # trouble \/ ~Steady \/ Misled(x)]_vars

(* Without faults every slave comes to know its best path for good, although
   a PB repeats a distance that may be out of date, and no sample circulates
   for ever (the TTL of an SD is never counted down) or is left in a queue. *)
ComesToRest ==
  NoFaults /\ Graded =>
    <>[](Settled /\ UnderWay = {} /\ internal = <<>>)

=============================================================================
