--------------------------- MODULE RoutingNetProofs ---------------------------
(***************************************************************************)
(* The safety of the routing conversation, for any number of nodes, any    *)
(* links and losses, and any number of faults: what the tables, the PBs    *)
(* and the frames hold (IInv); then what becomes of a sample that is under *)
(* way once paths are steady; then that the samples reach the hardware as  *)
(* SampleDelivery promises (DeliveryInv).                                  *)
(***************************************************************************)
EXTENDS RoutingNet, RoutingTableProofs, FiniteSetTheorems

(* The entries that the table of n may hold: none nearer to the master than
   its neighbour can be, a rate that was reported only for a neighbour that
   hears n and is heard by it, and the rate it has; none expired if nothing
   goes wrong. *)
GoodEntries(net, n) ==
  {e \in EntryType :
     /\ AllAcceptable(net) => net.best[e.ip] <= e.distance
     /\ e.remotePBE # WORST_QUALITY =>
          /\ {<<n, e.ip>>, <<e.ip, n>>} \subseteq DOMAIN net.loss
          /\ e.remotePBE = net.loss[<<n, e.ip>>]
     /\ net.trouble = 0 => e.fresh}

GoodTables(net, tbl) ==
  /\ tbl \in [Nodes -> Seq(EntryType)]
  /\ \A n \in Nodes : tbl[n] \in Seq(GoodEntries(net, n)) /\ InOrder(tbl[n])

(* Who has an entry for whom.  After faults nothing is claimed. *)
Acquainted(net, tbl) ==
  {l \in Nodes \X Nodes : net.trouble = 0 => Knows(tbl[l[1]], l[2])}

(* A next hop of n: a neighbour that has a path to the master. *)
GoodHop(net, n, hop) ==
  /\ <<n, hop>> \in DOMAIN net.loss
  /\ AllAcceptable(net) => net.best[hop] # UNREACHABLE

(* The frames that the link l may carry.  A PR is sent by a node that has
   just written the other one into its table, a PC to one that has done so
   before it sent the PR.  An SD may name any node: the next hop may have been
   read from a freed entry. *)
GoodFrames(net, known, l) ==
  {f \in FrameType :
     /\ f.type # "SD" => f.sender = l[1]
     /\ f.type \in {"PB", "PR"} /\ AllAcceptable(net) => net.best[l[1]] <= f.distance
     /\ f.type \in {"PR", "PC"} => /\ <<l[2], l[1]>> \in DOMAIN net.loss
                                   /\ f.pbe = net.loss[<<l[2], l[1]>>]
     /\ f.type = "PR" => <<l[1], l[2]>> \in known
     /\ f.type = "PC" => <<l[2], l[1]>> \in known}

Carries(net, known, ch) ==
  /\ ch \in [DOMAIN net.loss -> Seq(FrameType)]
  /\ \A l \in DOMAIN net.loss : ch[l] \in Seq(GoodFrames(net, known, l))

GoodPBs(net, repeated) ==
  /\ repeated \in [Nodes -> Distances \cup {NoPB}]
  /\ AllAcceptable(net) =>
       \A n \in Nodes : repeated[n] # NoPB => net.best[n] <= repeated[n]

SendingType == [sample : SampleType, hop : Nodes, freed : BOOLEAN]

SamplesGood ==
  /\ taken \in [Nodes -> Nat]
  /\ sending \in [Slaves -> {Idle} \cup SendingType]
  /\ \A n \in Slaves : sending[n] # Idle => GoodHop(network, n, sending[n].hop)

HardwareTyped ==
  /\ copying \in BOOLEAN
  /\ copying => taken[Master] >= 1
  /\ internal \in Seq(SampleType \cup {InBuffer})
  /\ delivered \in Seq(SampleType)

StatusGood ==
  /\ status \in [Nodes -> {"NA", "Outside", "Inside", "Dead"}]
  /\ status[Master] # "Outside"
  /\ NoFaults => \A n \in Nodes : status[n] = IF n = Master THEN "NA" ELSE "Inside"

TroubleTyped == trouble \in Nat /\ (NoFaults => trouble = 0)

(* The inductive invariant. *)
IInv ==
  /\ network \in Networks
  /\ StatusGood
  /\ GoodTables(network, table)
  /\ GoodPBs(network, pb)
  /\ Carries(network, Acquainted(network, table), channel)
  /\ SamplesGood
  /\ HardwareTyped
  /\ TroubleTyped

-----------------------------------------------------------------------------
(* What the networks are. *)

LEMMA NetOf ==
  ASSUME NEW net \in Networks
  PROVE  /\ DOMAIN net.loss \subseteq Nodes \X Nodes
         /\ \A l \in DOMAIN net.loss :
              /\ l[1] \in Nodes /\ l[2] \in Nodes /\ l = <<l[1], l[2]>>
              /\ l[1] # l[2] /\ net.loss[l] \in Nat
              /\ AllAcceptable(net) => net.loss[l] <= Magnitude
         /\ AllAcceptable(net) => /\ net.best \in [Nodes -> Distances]
                                  /\ net.best[Master] = 0
         /\ net.samples \in [Nodes -> Nat] /\ net.trouble \in Nat
<1>1. DOMAIN net.loss \subseteq Nodes \X Nodes
  BY NetAssumption
<1>2. \A l \in Nodes \X Nodes : l[1] \in Nodes /\ l[2] \in Nodes /\ l = <<l[1], l[2]>>
  OBVIOUS
<1>3. \A l \in DOMAIN net.loss : l[1] # l[2] /\ net.loss[l] \in Nat
  BY NetAssumption
<1>4. AllAcceptable(net) => IsBest(net)
  BY NetAssumption
<1>5. AllAcceptable(net) => \A l \in DOMAIN net.loss : net.loss[l] <= Magnitude
  BY DEF AllAcceptable
<1>6. IsBest(net) => net.best \in [Nodes -> Distances] /\ net.best[Master] = 0
  BY DEF IsBest, Distances
<1>7. net.samples \in [Nodes -> Nat] /\ net.trouble \in Nat
  BY NetAssumption
<1> QED
  BY <1>1, <1>2, <1>3, <1>4, <1>5, <1>6, <1>7

(* Bellman: the best distance is no greater than that over a link. *)
LEMMA BestOverLink ==
  ASSUME NEW net \in Networks, AllAcceptable(net), NEW n \in Slaves, NEW x \in Nodes,
         {<<n, x>>, <<x, n>>} \subseteq DOMAIN net.loss
  PROVE  net.best[n] <= getDistance(Entry(x, net.best[x], net.loss[<<n, x>>]))
<1> DEFINE l == <<n, x>>
           ways == {Over(net, k, net.best[k[2]]) : k \in {j \in BothWays(net) : j[1] = n}}
<1>1. l \in BothWays(net) /\ l[1] = n /\ l[2] = x
  BY DEF BothWays
<1>2. Over(net, l, net.best[l[2]]) \in ways
  BY <1>1
<1>3. \A d \in ways : net.best[n] <= d
  BY NetAssumption DEF IsBest
<1> QED
  BY <1>1, <1>2, <1>3 DEF Over

-----------------------------------------------------------------------------
(* Entries and tables. *)

LEMMA EntriesMeasured ==
  \A e \in EntryType : getDistance(e) \in Distances
<1> SUFFICES ASSUME NEW e \in EntryType PROVE getDistance(e) \in Distances
  OBVIOUS
<1>1. e.distance \in 0 .. UNREACHABLE /\ e.remotePBE \in Rates
  BY DEF EntryType, Distances, Rates
<1> QED
  BY <1>1, DistanceTyped DEF Distances

LEMMA GoodMeasured ==
  ASSUME NEW net, NEW n
  PROVE  Measured(GoodEntries(net, n)) /\ GoodEntries(net, n) \subseteq EntryType
<1>1. GoodEntries(net, n) \subseteq EntryType
  BY DEF GoodEntries
<1>2. Distances \subseteq Nat
  BY TableAssumption DEF Distances
<1> QED
  BY <1>1, <1>2, EntriesMeasured DEF Measured

(* No entry promises a path that is shorter than the best. *)
LEMMA GoodDistance ==
  ASSUME NEW net \in Networks, AllAcceptable(net), NEW n \in Slaves, NEW e \in GoodEntries(net, n)
  PROVE  net.best[n] <= getDistance(e)
<1>0. /\ e \in EntryType /\ n \in Nodes
      /\ e.ip \in Nodes /\ e.distance \in 0 .. UNREACHABLE /\ net.best[e.ip] <= e.distance
      /\ e.remotePBE \in Nat \cup {WORST_QUALITY}
  BY DEF GoodEntries, EntryType, Distances, Slaves
<1>1. net.best[n] \in 0 .. UNREACHABLE /\ net.best[e.ip] \in 0 .. UNREACHABLE
  BY <1>0, NetOf DEF Distances
<1>2. CASE e.remotePBE = WORST_QUALITY
  BY <1>1, <1>2, TableAssumption DEF getDistance
<1>3. CASE e.remotePBE # WORST_QUALITY
  <2> DEFINE b == Entry(e.ip, net.best[e.ip], e.remotePBE)
  <2>1. /\ {<<n, e.ip>>, <<e.ip, n>>} \subseteq DOMAIN net.loss
        /\ e.remotePBE = net.loss[<<n, e.ip>>]
    BY <1>3 DEF GoodEntries
  <2>2. e.remotePBE \in Nat /\ e.remotePBE <= Magnitude
    BY <2>1, NetOf
  <2>3. b.distance = net.best[e.ip] /\ b.remotePBE = e.remotePBE
    BY DEF Entry
  <2>4. net.best[n] <= getDistance(b)
    BY <1>0, <2>1, BestOverLink
  <2> HIDE DEF b
  <2>5. getDistance(b) <= getDistance(e)
    BY <1>0, <1>1, <2>2, <2>3, DistanceMonotone
  <2>6. b.distance \in 0 .. UNREACHABLE /\ b.remotePBE \in Rates /\ e.remotePBE \in Rates
    BY <1>1, <2>2, <2>3 DEF Rates
  <2>7. getDistance(b) \in 0 .. UNREACHABLE /\ getDistance(e) \in 0 .. UNREACHABLE
    BY <1>0, <2>6, DistanceTyped
  <2> QED
    BY <1>1, <2>4, <2>5, <2>7, TableAssumption
<1> QED
  BY <1>2, <1>3

(* Nor does a node say so of itself. *)
LEMMA GoodMyDistance ==
  ASSUME NEW net \in Networks, NEW n \in Nodes, NEW t \in Seq(GoodEntries(net, n))
  PROVE  /\ myDistance(n, t) \in Distances
         /\ AllAcceptable(net) => net.best[n] <= myDistance(n, t)
<1>0. 0 \in Distances /\ UNREACHABLE \in Distances /\ \A d \in Distances : d <= UNREACHABLE
  BY TableAssumption DEF Distances
<1>1. CASE n = Master
  <2>1. AllAcceptable(net) => net.best[n] = 0
    BY <1>1, NetOf
  <2> QED
    BY <1>0, <1>1, <2>1 DEF myDistance
<1>2. CASE n # Master /\ t = <<>>
  <2>1. AllAcceptable(net) => net.best[n] \in Distances
    BY NetOf
  <2> QED
    BY <1>0, <1>2, <2>1 DEF myDistance, FirstDistance
<1>3. CASE n # Master /\ t # <<>>
  <2>1. t[1] \in GoodEntries(net, n)
    BY <1>3
  <2>2. myDistance(n, t) = getDistance(t[1]) /\ n \in Slaves
    BY <1>3 DEF myDistance, FirstDistance, Slaves
  <2> QED
    BY <2>1, <2>2, GoodDistance, GoodMeasured, EntriesMeasured
<1> QED
  BY <1>1, <1>2, <1>3

(* A table is written. *)
LEMMA TableWritten ==
  ASSUME NEW net, NEW tbl, GoodTables(net, tbl), NEW n \in Nodes,
         NEW t \in Seq(GoodEntries(net, n)), InOrder(t)
  PROVE  GoodTables(net, [tbl EXCEPT ![n] = t])
<1>1. t \in Seq(EntryType)
  <2>1. GoodEntries(net, n) \subseteq EntryType
    BY GoodMeasured
  <2> QED
    BY <2>1
<1> QED
  BY <1>1 DEF GoodTables

(* An entry that is removed is not known; otherwise whom a node knows it goes
   on to know. *)
LEMMA AcquaintedMore ==
  ASSUME NEW net, NEW tbl, GoodTables(net, tbl), NEW n \in Nodes, NEW t,
         net.trouble = 0 => \A x : Knows(tbl[n], x) => Knows(t, x)
  PROVE  Acquainted(net, tbl) \subseteq Acquainted(net, [tbl EXCEPT ![n] = t])
<1>1. \A x \in Nodes : [tbl EXCEPT ![n] = t][x] = IF x = n THEN t ELSE tbl[x]
  BY DEF GoodTables
<1> QED
  BY <1>1 DEF Acquainted

-----------------------------------------------------------------------------
(* Frames and channels. *)

LEMMA FramesMore ==
  ASSUME NEW net, NEW known, NEW more, known \subseteq more, NEW l
  PROVE  GoodFrames(net, known, l) \subseteq GoodFrames(net, more, l)
BY DEF GoodFrames

LEMMA CarriesMore ==
  ASSUME NEW net, NEW known, NEW more, known \subseteq more, NEW ch, Carries(net, known, ch)
  PROVE  Carries(net, more, ch)
<1>1. ASSUME NEW l \in DOMAIN net.loss PROVE ch[l] \in Seq(GoodFrames(net, more, l))
  <2>1. GoodFrames(net, known, l) \subseteq GoodFrames(net, more, l)
    BY FramesMore
  <2>2. ch[l] \in Seq(GoodFrames(net, known, l))
    BY DEF Carries
  <2> QED
    BY <2>1, <2>2
<1> QED
  BY <1>1 DEF Carries

LEMMA CarriesTaken ==
  ASSUME NEW net, NEW known, NEW ch, Carries(net, known, ch),
         NEW l \in DOMAIN net.loss, ch[l] # <<>>
  PROVE  /\ Carries(net, known, [ch EXCEPT ![l] = Tail(@)])
         /\ Head(ch[l]) \in GoodFrames(net, known, l)
<1>1. ch[l] \in Seq(GoodFrames(net, known, l)) /\ ch[l] \in Seq(FrameType)
  BY DEF Carries
<1>2. Tail(ch[l]) \in Seq(GoodFrames(net, known, l)) /\ Tail(ch[l]) \in Seq(FrameType)
  BY <1>1
<1>3. Head(ch[l]) \in GoodFrames(net, known, l)
  BY <1>1
<1> QED
  BY <1>2, <1>3 DEF Carries

LEMMA CarriesOneMore ==
  ASSUME NEW net, NEW known, NEW ch, Carries(net, known, ch), NEW l \in DOMAIN net.loss,
         NEW f \in GoodFrames(net, known, l)
  PROVE  /\ Append(ch[l], f) \in Seq(GoodFrames(net, known, l))
         /\ Append(ch[l], f) \in Seq(FrameType)
<1>1. ch[l] \in Seq(GoodFrames(net, known, l)) /\ ch[l] \in Seq(FrameType)
  BY DEF Carries
<1>2. f \in FrameType
  BY DEF GoodFrames
<1> QED
  BY <1>1, <1>2

LEMMA CarriesBroadcast ==
  ASSUME NEW known, NEW ch, Carries(network, known, ch), NEW s, NEW f,
         \A l \in Links : l[1] = s => f \in GoodFrames(network, known, l)
  PROVE  Carries(network, known, Broadcast(s, f, ch))
<1>1. \A l \in Links : l[1] = s =>
        /\ Append(ch[l], f) \in Seq(GoodFrames(network, known, l))
        /\ Append(ch[l], f) \in Seq(FrameType)
  BY CarriesOneMore DEF Links
<1>2. \A l \in Links : ch[l] \in Seq(GoodFrames(network, known, l)) /\ ch[l] \in Seq(FrameType)
  BY DEF Carries, Links
<1>3. Broadcast(s, f, ch) = [l \in Links |-> IF l[1] = s THEN Append(ch[l], f) ELSE ch[l]]
  BY DEF Broadcast
<1> QED
  BY <1>1, <1>2, <1>3 DEF Carries, Links

LEMMA CarriesUnicast ==
  ASSUME NEW known, NEW ch, Carries(network, known, ch), NEW s, NEW r, NEW f,
         <<s, r>> \in Links => f \in GoodFrames(network, known, <<s, r>>)
  PROVE  Carries(network, known, Unicast(s, r, f, ch))
<1>1. CASE <<s, r>> \notin Links
  BY <1>1 DEF Unicast
<1>2. CASE <<s, r>> \in Links
  <2> DEFINE l == <<s, r>>
             longer == Append(ch[l], f)
  <2>1. longer \in Seq(GoodFrames(network, known, l)) /\ longer \in Seq(FrameType)
    BY <1>2, CarriesOneMore DEF Links
  <2>2. Unicast(s, r, f, ch) = [ch EXCEPT ![l] = longer]
    BY <1>2 DEF Unicast
  <2> HIDE DEF longer, l
  <2> QED
    BY <2>1, <2>2 DEF Carries
<1> QED
  BY <1>1, <1>2

-----------------------------------------------------------------------------
(* What the operations on a table do to the tables of all. *)

LEMMA NewEntry ==
  ASSUME NEW net, NEW n, NEW ip \in Nodes, NEW d \in Distances, NEW rate \in Rates,
         AllAcceptable(net) => net.best[ip] <= d,
         rate # WORST_QUALITY => /\ {<<n, ip>>, <<ip, n>>} \subseteq DOMAIN net.loss
                                 /\ rate = net.loss[<<n, ip>>]
  PROVE  Entry(ip, d, rate) \in GoodEntries(net, n)
<1>1. Entry(ip, d, rate) \in EntryType
  BY DEF Entry, EntryType, Rates
<1> QED
  BY <1>1 DEF Entry, GoodEntries

LEMMA KnownEntry ==
  ASSUME NEW net, NEW tbl, GoodTables(net, tbl), NEW n \in Nodes, NEW ip, Knows(tbl[n], ip)
  PROVE  /\ routSearchByIp(tbl[n], ip) \in GoodEntries(net, n)
         /\ routSearchByIp(tbl[n], ip).ip = ip
<1>1. tbl[n] \in Seq(GoodEntries(net, n))
  BY DEF GoodTables
<1>2. Place(tbl[n], ip) \in DOMAIN tbl[n] /\ tbl[n][Place(tbl[n], ip)].ip = ip
  BY PlaceOf
<1> QED
  BY <1>1, <1>2, ElementOf DEF routSearchByIp

LEMMA KnownRateOf ==
  ASSUME NEW net, NEW tbl, GoodTables(net, tbl), NEW n \in Nodes, NEW ip
  PROVE  LET rate == KnownRate(tbl[n], ip)
         IN  /\ rate \in Rates
             /\ rate # WORST_QUALITY => /\ {<<n, ip>>, <<ip, n>>} \subseteq DOMAIN net.loss
                                        /\ rate = net.loss[<<n, ip>>]
<1>1. CASE ~Knows(tbl[n], ip)
  BY <1>1 DEF KnownRate, Rates
<1>2. CASE Knows(tbl[n], ip)
  <2> DEFINE e == routSearchByIp(tbl[n], ip)
  <2>1. e \in GoodEntries(net, n) /\ e.ip = ip
    BY <1>2, KnownEntry
  <2>2. KnownRate(tbl[n], ip) = e.remotePBE
    BY <1>2 DEF KnownRate
  <2> HIDE DEF e
  <2> QED
    BY <2>1, <2>2 DEF GoodEntries, EntryType, Rates
<1> QED
  BY <1>1, <1>2

(* What t, written over the table of n, is to be. *)
Grown(net, tbl, n, t) ==
  /\ t \in Seq(GoodEntries(net, n))
  /\ InOrder(t)
  /\ net.trouble = 0 => \A x : Knows(tbl[n], x) => Knows(t, x)

LEMMA GrownOf ==
  ASSUME NEW net, NEW tbl, GoodTables(net, tbl), NEW n \in Nodes, NEW t, Grown(net, tbl, n, t)
  PROVE  /\ GoodTables(net, [tbl EXCEPT ![n] = t])
         /\ Acquainted(net, tbl) \subseteq Acquainted(net, [tbl EXCEPT ![n] = t])
         /\ [tbl EXCEPT ![n] = t][n] = t
<1>1. t \in Seq(GoodEntries(net, n)) /\ InOrder(t)
      /\ (net.trouble = 0 => \A x : Knows(tbl[n], x) => Knows(t, x))
  BY DEF Grown
<1>2. GoodTables(net, [tbl EXCEPT ![n] = t])
  BY <1>1, TableWritten
<1>3. Acquainted(net, tbl) \subseteq Acquainted(net, [tbl EXCEPT ![n] = t])
  BY <1>1, AcquaintedMore
<1>4. [tbl EXCEPT ![n] = t][n] = t
  BY DEF GoodTables
<1> QED
  BY <1>2, <1>3, <1>4

LEMMA GrownInserted ==
  ASSUME NEW net, NEW tbl, GoodTables(net, tbl), NEW n \in Nodes,
         NEW ip, NEW d, NEW rate, Entry(ip, d, rate) \in GoodEntries(net, n)
  PROVE  /\ Grown(net, tbl, n, routInsertOrUpdateEntry(tbl[n], ip, d, rate))
         /\ Knows(routInsertOrUpdateEntry(tbl[n], ip, d, rate), ip)
<1>1. tbl[n] \in Seq(GoodEntries(net, n)) /\ InOrder(tbl[n])
  BY DEF GoodTables
<1>2. Measured(GoodEntries(net, n))
  BY GoodMeasured
<1> QED
  BY <1>1, <1>2, InsertedOrUpdated DEF Grown

LEMMA GrownHeard ==
  ASSUME NEW net, NEW tbl, GoodTables(net, tbl), NEW n \in Nodes, NEW ip
  PROVE  Grown(net, tbl, n, routUpdateLastHeard(tbl[n], ip))
<1>1. tbl[n] \in Seq(GoodEntries(net, n)) /\ InOrder(tbl[n])
  BY DEF GoodTables
<1>2. \A e \in GoodEntries(net, n) :
        LET f == [e EXCEPT !.fresh = TRUE]
        IN  /\ f \in GoodEntries(net, n) /\ f.ip = e.ip
            /\ f.distance = e.distance /\ f.remotePBE = e.remotePBE
  <2> SUFFICES ASSUME NEW e \in GoodEntries(net, n)
               PROVE  LET f == [e EXCEPT !.fresh = TRUE]
                      IN  /\ f \in GoodEntries(net, n) /\ f.ip = e.ip
                          /\ f.distance = e.distance /\ f.remotePBE = e.remotePBE
    OBVIOUS
  <2> DEFINE f == [e EXCEPT !.fresh = TRUE]
  <2>1. e \in EntryType
    BY DEF GoodEntries
  <2>2. /\ f \in EntryType /\ f.ip = e.ip /\ f.fresh
        /\ f.distance = e.distance /\ f.remotePBE = e.remotePBE
    BY <2>1 DEF EntryType
  <2> HIDE DEF f
  <2>3. f \in GoodEntries(net, n)
    BY <2>2 DEF GoodEntries
  <2> QED
    BY <2>2, <2>3 DEF f
<1> QED
  BY <1>1, <1>2, LastHeardUpdated DEF Grown

(* A table of which nothing is expired is not cut. *)
LEMMA GrownUnexpired ==
  ASSUME NEW net, NEW tbl, NEW n, NEW t, Grown(net, tbl, n, t)
  PROVE  /\ Grown(net, tbl, n, Unexpired(t))
         /\ net.trouble = 0 => Unexpired(t) = t /\ ~LosesLast(t)
<1>1. t \in Seq(GoodEntries(net, n)) /\ InOrder(t)
      /\ (net.trouble = 0 => \A x : Knows(tbl[n], x) => Knows(t, x))
  BY DEF Grown
<1>2. /\ Unexpired(t) \in Seq(GoodEntries(net, n)) /\ InOrder(Unexpired(t))
      /\ (\A i \in DOMAIN t : t[i].fresh) => Unexpired(t) = t /\ ~LosesLast(t)
  BY <1>1, UnexpiredOf
<1>3. net.trouble = 0 => \A i \in DOMAIN t : t[i].fresh
  <2>1. \A i \in DOMAIN t : t[i] \in GoodEntries(net, n)
    BY <1>1
  <2> QED
    BY <2>1 DEF GoodEntries
<1> QED
  BY <1>1, <1>2, <1>3 DEF Grown

LEMMA GrownSame ==
  ASSUME NEW net, NEW tbl, GoodTables(net, tbl), NEW n \in Nodes
  PROVE  Grown(net, tbl, n, tbl[n])
BY DEF GoodTables, Grown

LEMMA GrownBySample ==
  ASSUME NEW net \in Networks, NEW tbl, GoodTables(net, tbl), NEW n \in Nodes,
         NEW source \in Nodes
  PROVE  Grown(net, tbl, n, Heard(tbl[n], source))
<1>1. CASE Knows(tbl[n], source)
  BY <1>1, GrownHeard DEF Heard
<1>2. CASE ~Knows(tbl[n], source)
  <2>1. UNREACHABLE \in Distances /\ WORST_QUALITY \in Rates
    BY TableAssumption DEF Distances, Rates
  <2>2. AllAcceptable(net) => net.best[source] <= UNREACHABLE
    BY NetOf, TableAssumption DEF Distances
  <2>3. Entry(source, UNREACHABLE, WORST_QUALITY) \in GoodEntries(net, n)
    BY <2>1, <2>2, NewEntry
  <2> QED
    BY <1>2, <2>3, GrownInserted DEF Heard
<1> QED
  BY <1>1, <1>2

(* The next hop, if there is one, is a neighbour that has a path. *)
LEMMA HopOf ==
  ASSUME NEW net \in Networks, NEW tbl, NEW n, NEW t, Grown(net, tbl, n, t)
  PROVE  /\ getBestHop(t) \in Nodes \cup {NoHop}
         /\ getBestHop(t) # NoHop => GoodHop(net, n, getBestHop(t))
<1> DEFINE u == Unexpired(t)
           e == u[1]
<1>1. u \in Seq(GoodEntries(net, n))
  BY GrownUnexpired DEF Grown
<1>2. CASE u = <<>> \/ ~Usable(e)
  BY <1>2 DEF getBestHop, HeadHop
<1>3. CASE u # <<>> /\ Usable(e)
  <2>1. e \in GoodEntries(net, n)
    BY <1>1, <1>3
  <2>2. getBestHop(t) = e.ip
    BY <1>3 DEF getBestHop, HeadHop
  <2>3. e.remotePBE # WORST_QUALITY /\ e.distance # UNREACHABLE
    BY <1>3 DEF Usable, getDistance
  <2> HIDE DEF e
  <2>4. e.ip \in Nodes /\ e.distance \in Distances /\ <<n, e.ip>> \in DOMAIN net.loss
    BY <2>1, <2>3 DEF GoodEntries, EntryType
  <2>5. AllAcceptable(net) => net.best[e.ip] <= e.distance /\ net.best[e.ip] \in Distances
    BY <2>1, <2>4, NetOf DEF GoodEntries
  <2>6. AllAcceptable(net) => net.best[e.ip] # UNREACHABLE
    BY <2>3, <2>4, <2>5, TableAssumption DEF Distances
  <2> QED
    BY <2>2, <2>4, <2>6 DEF GoodHop
<1> QED
  BY <1>2, <1>3

-----------------------------------------------------------------------------
(* The initial states, and what every receiving step rests on. *)

LEMMA InitGood == Init => IInv
<1> SUFFICES ASSUME Init PROVE IInv
  OBVIOUS
<1>0. /\ network \in Networks /\ Master \in Nodes /\ Slaves \subseteq Nodes
      /\ table = [n \in Nodes |-> <<>>] /\ channel = [l \in Links |-> <<>>]
      /\ pb = [n \in Nodes |-> IF n = Master THEN 0 ELSE NoPB]
  BY NetAssumption DEF Init, Slaves
<1>1. StatusGood
  BY <1>0 DEF Init, StatusGood
<1>2. GoodTables(network, table)
  BY <1>0 DEF GoodTables, InOrder
<1>3. GoodPBs(network, pb)
  <2>1. AllAcceptable(network) => network.best[Master] = 0
    BY <1>0, NetOf
  <2>2. 0 \in Distances
    BY TableAssumption DEF Distances
  <2> QED
    BY <1>0, <2>1, <2>2 DEF GoodPBs
<1>4. Carries(network, Acquainted(network, table), channel)
  BY <1>0 DEF Carries, Links
<1>5. SamplesGood
  BY <1>0 DEF Init, SamplesGood
<1>6. HardwareTyped
  <2>1. copying = FALSE
    BY DEF Init
  <2>2. internal = <<>> /\ delivered = <<>>
    BY DEF Init
  <2>3. copying \in BOOLEAN /\ ~copying
    BY <2>1
  <2>4. internal \in Seq(SampleType \cup {InBuffer}) /\ delivered \in Seq(SampleType)
    BY <2>2
  <2> QED
    BY <2>3, <2>4 DEF HardwareTyped
<1>7. TroubleTyped
  BY <1>0, NetOf DEF Init, TroubleTyped, NoFaults
<1> QED
  BY <1>0, <1>1, <1>2, <1>3, <1>4, <1>5, <1>6, <1>7 DEF IInv

LEMMA Arrived ==
  ASSUME IInv, NEW s, NEW r, <<s, r>> \in Links, channel[<<s, r>>] # <<>>
  PROVE  /\ s \in Nodes /\ r \in Nodes /\ s # r /\ network.loss[<<s, r>>] \in Nat
         /\ Carries(network, Acquainted(network, table), Taken(<<s, r>>))
         /\ Head(channel[<<s, r>>]) \in
              GoodFrames(network, Acquainted(network, table), <<s, r>>)
<1> DEFINE l == <<s, r>>
<1>1. l \in DOMAIN network.loss /\ network \in Networks
  BY DEF Links, IInv
<1>2. l[1] \in Nodes /\ l[2] \in Nodes /\ l[1] # l[2] /\ network.loss[l] \in Nat
  BY <1>1, NetOf
<1>3. l[1] = s /\ l[2] = r
  OBVIOUS
<1> HIDE DEF l
<1>4. Carries(network, Acquainted(network, table), channel) /\ channel[l] # <<>>
  BY DEF IInv, l
<1>5. /\ Carries(network, Acquainted(network, table), Taken(l))
      /\ Head(channel[l]) \in GoodFrames(network, Acquainted(network, table), l)
  BY <1>1, <1>4, CarriesTaken DEF Taken
<1> QED
  BY <1>2, <1>3, <1>5 DEF l

(* What a frame on the link from s to r says. *)
LEMMA FrameOf ==
  ASSUME NEW net, NEW known, NEW s, NEW r, NEW f \in GoodFrames(net, known, <<s, r>>)
  PROVE  /\ f.type = "PB" => /\ f.distance \in Distances
                             /\ AllAcceptable(net) => net.best[s] <= f.distance
         /\ f.type = "PR" => /\ f.distance \in Distances
                             /\ AllAcceptable(net) => net.best[s] <= f.distance
                             /\ <<r, s>> \in DOMAIN net.loss
                             /\ f.pbe \in Nat /\ f.pbe = net.loss[<<r, s>>]
                             /\ <<s, r>> \in known
         /\ f.type = "PC" => /\ <<r, s>> \in DOMAIN net.loss
                             /\ f.pbe \in Nat /\ f.pbe = net.loss[<<r, s>>]
                             /\ <<r, s>> \in known
         /\ f.type = "SD" => f.sample \in SampleType
<1>1. f \in FrameType
  BY DEF GoodFrames
<1>2. f.type \in {"PB", "PR"} => f.distance \in Distances
  BY <1>1 DEF FrameType
<1>3. f.type \in {"PR", "PC"} => f.pbe \in Nat
  BY <1>1 DEF FrameType
<1>4. f.type = "SD" => f.sample \in SampleType
  BY <1>1 DEF FrameType
<1> QED
  BY <1>2, <1>3, <1>4 DEF GoodFrames

(* Frames that may be sent from s to r. *)
LEMMA MayBeSent ==
  ASSUME NEW net, NEW known, NEW s \in Nodes, NEW r \in Nodes
  PROVE  /\ \A d \in Distances :
              (AllAcceptable(net) => net.best[s] <= d)
                => PB(s, d) \in GoodFrames(net, known, <<s, r>>)
         /\ \A d \in Distances, rate \in Nat :
              /\ AllAcceptable(net) => net.best[s] <= d
              /\ <<r, s>> \in DOMAIN net.loss /\ rate = net.loss[<<r, s>>]
              /\ <<s, r>> \in known
              => PR(s, d, rate) \in GoodFrames(net, known, <<s, r>>)
         /\ \A rate \in Nat :
              /\ <<r, s>> \in DOMAIN net.loss /\ rate = net.loss[<<r, s>>]
              /\ <<r, s>> \in known
              => PC(s, rate) \in GoodFrames(net, known, <<s, r>>)
         /\ \A sample \in SampleType, next \in Nodes \cup {NoHop} :
              SD(sample, next) \in GoodFrames(net, known, <<s, r>>)
<1>1. ASSUME NEW d \in Distances, AllAcceptable(net) => net.best[s] <= d
      PROVE  PB(s, d) \in GoodFrames(net, known, <<s, r>>)
  <2>1. PB(s, d) \in FrameType
    BY DEF PB, FrameType
  <2> QED
    BY <1>1, <2>1 DEF PB, GoodFrames
<1>2. ASSUME NEW d \in Distances, NEW rate \in Nat, AllAcceptable(net) => net.best[s] <= d,
             <<r, s>> \in DOMAIN net.loss, rate = net.loss[<<r, s>>], <<s, r>> \in known
      PROVE  PR(s, d, rate) \in GoodFrames(net, known, <<s, r>>)
  <2>1. PR(s, d, rate) \in FrameType
    BY DEF PR, FrameType
  <2> QED
    BY <1>2, <2>1 DEF PR, GoodFrames
<1>3. ASSUME NEW rate \in Nat,
             <<r, s>> \in DOMAIN net.loss, rate = net.loss[<<r, s>>], <<r, s>> \in known
      PROVE  PC(s, rate) \in GoodFrames(net, known, <<s, r>>)
  <2>1. PC(s, rate) \in FrameType
    BY DEF PC, FrameType
  <2> QED
    BY <1>3, <2>1 DEF PC, GoodFrames
<1>4. ASSUME NEW sample \in SampleType, NEW next \in Nodes \cup {NoHop}
      PROVE  SD(sample, next) \in GoodFrames(net, known, <<s, r>>)
  <2>1. SD(sample, next) \in FrameType
    BY DEF SD, FrameType
  <2> QED
    BY <2>1 DEF SD, GoodFrames
<1> QED
  BY <1>1, <1>2, <1>3, <1>4

LEMMA FreedTyped ==
  ASSUME SamplesGood, NEW n, NEW ip, Freed(n, ip) \/ sending' = sending, taken' = taken,
         network' = network
  PROVE  SamplesGood'
<1>1. ASSUME n \in Slaves, sending[n] # Idle
      PROVE  [sending EXCEPT ![n].freed = TRUE] \in [Slaves -> {Idle} \cup SendingType]
  <2>1. sending[n] \in SendingType
    BY <1>1 DEF SamplesGood
  <2>2. [sending[n] EXCEPT !.freed = TRUE] \in SendingType
    BY <2>1 DEF SendingType
  <2> QED
    BY <2>2 DEF SamplesGood
<1>2. sending' \in [Slaves -> {Idle} \cup SendingType]
  <2>1. CASE n \in Slaves
    BY <1>1, <2>1 DEF Freed, SamplesGood
  <2>2. CASE n \notin Slaves
    BY <2>2 DEF Freed, SamplesGood
  <2> QED
    BY <2>1, <2>2
<1>3. ASSUME NEW x \in Slaves, sending'[x] # Idle
      PROVE  /\ sending[x] # Idle /\ sending'[x].hop = sending[x].hop
             /\ sending'[x].sample = sending[x].sample
  <2>1. CASE sending' = sending
    BY <1>3, <2>1
  <2>2. CASE n # Master /\ sending[n] # Idle /\ sending' = [sending EXCEPT ![n].freed = TRUE]
    <3>1. CASE x = n
      <4>1. sending[n] \in SendingType
        BY <2>2, <3>1 DEF SamplesGood
      <4>2. sending'[n] = [sending[n] EXCEPT !.freed = TRUE]
        BY <2>2, <3>1 DEF SamplesGood
      <4> QED
        BY <2>2, <3>1, <4>1, <4>2 DEF SendingType
    <3>2. CASE x # n
      <4>1. sending'[x] = sending[x]
        BY <2>2, <3>2 DEF SamplesGood
      <4> QED
        BY <1>3, <4>1
    <3> QED
      BY <3>1, <3>2
  <2> QED
    BY <2>1, <2>2 DEF Freed
<1> QED
  BY <1>2, <1>3 DEF SamplesGood

-----------------------------------------------------------------------------
(* The routing conversation. *)

LEMMA PB_RetransmitGood ==
  ASSUME IInv, NEW n \in Nodes, PB_Retransmit(n)
  PROVE  IInv'
<1>1. /\ pb[n] # NoPB /\ channel' = Broadcast(n, PB(n, pb[n]), channel) /\ network' = network
      /\ UNCHANGED <<status, table, pb, taken, sending, copying, internal, delivered, trouble>>
  BY DEF PB_Retransmit, routing, samples, hardware
<1>2. pb[n] \in Distances /\ (AllAcceptable(network) => network.best[n] <= pb[n])
  BY <1>1 DEF IInv, GoodPBs
<1>3. ASSUME NEW l \in Links, l[1] = n
      PROVE  PB(n, pb[n]) \in GoodFrames(network, Acquainted(network, table), l)
  <2>1. l = <<n, l[2]>> /\ l[2] \in Nodes
    BY <1>3, NetOf DEF IInv, Links
  <2> QED
    BY <1>2, <2>1, MayBeSent
<1>4. Carries(network, Acquainted(network, table), channel')
  BY <1>1, <1>3, CarriesBroadcast DEF IInv
<1>5. StatusGood' /\ SamplesGood' /\ HardwareTyped' /\ TroubleTyped'
  BY <1>1 DEF IInv, StatusGood, NoFaults, SamplesGood, HardwareTyped, TroubleTyped
<1> QED
  BY <1>1, <1>4, <1>5 DEF IInv

LEMMA PB_RXGood ==
  ASSUME IInv, NEW s, NEW r, <<s, r>> \in Links, PB_RX(s, r)
  PROVE  IInv'
<1> DEFINE frame == Head(channel[<<s, r>>])
           known == Acquainted(network, table)
           t     == routInsertOrUpdateEntry(table[r], s, frame.distance, KnownRate(table[r], s))
<1>0. /\ Arrives(s, r, "PB") /\ network' = network
      /\ UNCHANGED <<status, pb, taken, copying, internal, delivered, trouble>>
      /\ \/ /\ table' = [table EXCEPT ![r] = t]
            /\ channel' = Unicast(r, s,
                            PR(r, myDistance(r, table'[r]), network.loss[<<s, r>>]),
                            Taken(<<s, r>>))
            /\ Freed(r, s)
         \/ /\ table' = [table EXCEPT ![r] = routUpdateLastHeard(@, s)]
            /\ channel' = Taken(<<s, r>>)
            /\ UNCHANGED sending
  BY DEF PB_RX, hardware
<1>1. /\ s \in Nodes /\ r \in Nodes /\ network.loss[<<s, r>>] \in Nat
      /\ Carries(network, known, Taken(<<s, r>>))
      /\ frame \in GoodFrames(network, known, <<s, r>>) /\ frame.type = "PB"
  BY <1>0, Arrived DEF Arrives
<1> HIDE DEF frame, known
<1>2. frame.distance \in Distances /\ (AllAcceptable(network) => network.best[s] <= frame.distance)
  BY <1>1, FrameOf
<1>3. GoodTables(network, table) /\ network \in Networks
  BY DEF IInv
<1> DEFINE rate == KnownRate(table[r], s)
<1>4. /\ rate \in Rates
      /\ rate # WORST_QUALITY => /\ {<<r, s>>, <<s, r>>} \subseteq DOMAIN network.loss
                                 /\ rate = network.loss[<<r, s>>]
  BY <1>1, <1>3, KnownRateOf
<1> HIDE DEF rate
<1>5. Entry(s, frame.distance, rate) \in GoodEntries(network, r)
  BY <1>1, <1>2, <1>4, NewEntry
<1>6. Grown(network, table, r, t) /\ Knows(t, s)
  BY <1>1, <1>3, <1>5, GrownInserted DEF rate
<1>7. Grown(network, table, r, routUpdateLastHeard(table[r], s))
  BY <1>1, <1>3, GrownHeard
<1> HIDE DEF t
<1>8. /\ GoodTables(network, table') /\ known \subseteq Acquainted(network, table')
      /\ Carries(network, Acquainted(network, table'), channel')
  <2>1. CASE /\ table' = [table EXCEPT ![r] = t]
             /\ channel' = Unicast(r, s,
                             PR(r, myDistance(r, table'[r]), network.loss[<<s, r>>]),
                             Taken(<<s, r>>))
    <3> DEFINE d == myDistance(r, t)
    <3>1. /\ GoodTables(network, table') /\ known \subseteq Acquainted(network, table')
          /\ table'[r] = t
      BY <1>1, <1>3, <1>6, <2>1, GrownOf DEF known
    <3>2. d \in Distances /\ (AllAcceptable(network) => network.best[r] <= d)
      BY <1>1, <1>3, <1>6, GoodMyDistance DEF Grown
    <3>3. <<r, s>> \in Acquainted(network, table')
      BY <1>1, <1>6, <3>1 DEF Acquainted
    <3>4. PR(r, d, network.loss[<<s, r>>]) \in
            GoodFrames(network, Acquainted(network, table'), <<r, s>>)
      <4>1. <<s, r>> \in DOMAIN network.loss
        BY DEF Links
      <4> HIDE DEF d
      <4> QED
        BY <1>1, <3>2, <3>3, <4>1, MayBeSent
    <3>5. Carries(network, Acquainted(network, table'), Taken(<<s, r>>))
      BY <1>1, <3>1, CarriesMore
    <3>6. channel' = Unicast(r, s, PR(r, d, network.loss[<<s, r>>]), Taken(<<s, r>>))
      BY <2>1, <3>1
    <3> HIDE DEF d
    <3>7. Carries(network, Acquainted(network, table'), channel')
      BY <3>4, <3>5, <3>6, CarriesUnicast
    <3> QED
      BY <3>1, <3>7
  <2>2. CASE /\ table' = [table EXCEPT ![r] = routUpdateLastHeard(@, s)]
             /\ channel' = Taken(<<s, r>>)
    <3>1. GoodTables(network, table') /\ known \subseteq Acquainted(network, table')
      BY <1>1, <1>3, <1>7, <2>2, GrownOf DEF known
    <3>2. Carries(network, Acquainted(network, table'), Taken(<<s, r>>))
      BY <1>1, <3>1, CarriesMore
    <3> QED
      BY <2>2, <3>1, <3>2
  <2> QED
    BY <1>0, <2>1, <2>2
<1>9. SamplesGood'
  BY <1>0, FreedTyped DEF IInv
<1>10. StatusGood' /\ HardwareTyped' /\ TroubleTyped'
  BY <1>0 DEF IInv, StatusGood, NoFaults, HardwareTyped, TroubleTyped
<1> QED
  BY <1>0, <1>8, <1>9, <1>10 DEF IInv

LEMMA PR_RXGood ==
  ASSUME IInv, NEW s, NEW r, <<s, r>> \in Links, PR_RX(s, r)
  PROVE  IInv'
<1> DEFINE frame == Head(channel[<<s, r>>])
           known == Acquainted(network, table)
           t     == routInsertOrUpdateEntry(table[r], s, frame.distance, frame.pbe)
<1>0. /\ Arrives(s, r, "PR") /\ network' = network
      /\ UNCHANGED <<status, pb, taken, copying, internal, delivered, trouble>>
      /\ table' = [table EXCEPT ![r] = t]
      /\ channel' = Unicast(r, s, PC(r, network.loss[<<s, r>>]), Taken(<<s, r>>))
      /\ Freed(r, s)
  BY DEF PR_RX, hardware
<1>1. /\ s \in Nodes /\ r \in Nodes /\ network.loss[<<s, r>>] \in Nat
      /\ Carries(network, known, Taken(<<s, r>>))
      /\ frame \in GoodFrames(network, known, <<s, r>>) /\ frame.type = "PR"
  BY <1>0, Arrived DEF Arrives
<1> HIDE DEF frame, known
<1>2. /\ frame.distance \in Distances
      /\ AllAcceptable(network) => network.best[s] <= frame.distance
      /\ <<r, s>> \in DOMAIN network.loss
      /\ frame.pbe \in Nat /\ frame.pbe = network.loss[<<r, s>>]
      /\ <<s, r>> \in known
  BY <1>1, FrameOf
<1>3. GoodTables(network, table) /\ <<s, r>> \in DOMAIN network.loss
  BY DEF IInv, Links
<1>4. frame.pbe \in Rates
  BY <1>2 DEF Rates
<1>5. Entry(s, frame.distance, frame.pbe) \in GoodEntries(network, r)
  BY <1>1, <1>2, <1>3, <1>4, NewEntry
<1>6. Grown(network, table, r, t)
  BY <1>1, <1>3, <1>5, GrownInserted
<1> HIDE DEF t
<1>7. GoodTables(network, table') /\ known \subseteq Acquainted(network, table')
  BY <1>0, <1>1, <1>3, <1>6, GrownOf DEF known
<1>8. Carries(network, Acquainted(network, table'), channel')
  <2>1. <<s, r>> \in Acquainted(network, table')
    BY <1>2, <1>7
  <2>2. PC(r, network.loss[<<s, r>>]) \in
          GoodFrames(network, Acquainted(network, table'), <<r, s>>)
    BY <1>1, <1>3, <2>1, MayBeSent
  <2>3. Carries(network, Acquainted(network, table'), Taken(<<s, r>>))
    BY <1>1, <1>7, CarriesMore
  <2> QED
    BY <1>0, <2>2, <2>3, CarriesUnicast
<1>9. SamplesGood'
  BY <1>0, FreedTyped DEF IInv
<1>10. StatusGood' /\ HardwareTyped' /\ TroubleTyped'
  BY <1>0 DEF IInv, StatusGood, NoFaults, HardwareTyped, TroubleTyped
<1> QED
  BY <1>0, <1>7, <1>8, <1>9, <1>10 DEF IInv

LEMMA PC_RXGood ==
  ASSUME IInv, NEW s, NEW r, <<s, r>> \in Links, PC_RX(s, r)
  PROVE  IInv'
<1> DEFINE frame == Head(channel[<<s, r>>])
           known == Acquainted(network, table)
           entry == routSearchByIp(table[r], s)
           t     == routInsertOrUpdateEntry(table[r], s, entry.distance, frame.pbe)
<1>0. /\ Arrives(s, r, "PC") /\ network' = network
      /\ Knows(table[r], s)
      /\ UNCHANGED <<status, taken, copying, internal, delivered, trouble>>
      /\ table' = [table EXCEPT ![r] = t]
      /\ pb' = [pb EXCEPT ![r] = myDistance(r, table'[r])]
      /\ channel' = Taken(<<s, r>>)
      /\ Freed(r, s)
  BY DEF PC_RX, startPB, hardware
<1>1. /\ s \in Nodes /\ r \in Nodes
      /\ Carries(network, known, Taken(<<s, r>>))
      /\ frame \in GoodFrames(network, known, <<s, r>>) /\ frame.type = "PC"
  BY <1>0, Arrived DEF Arrives
<1> HIDE DEF frame, known, entry, t
<1>2. /\ <<r, s>> \in DOMAIN network.loss
      /\ frame.pbe \in Nat /\ frame.pbe = network.loss[<<r, s>>]
      /\ <<r, s>> \in known
  BY <1>1, FrameOf
<1>3. /\ GoodTables(network, table) /\ <<s, r>> \in DOMAIN network.loss
      /\ network \in Networks
  BY DEF IInv, Links
<1>4. entry \in GoodEntries(network, r) /\ entry.ip = s
  BY <1>0, <1>1, <1>3, KnownEntry DEF entry
<1>5. /\ entry.distance \in Distances /\ frame.pbe \in Rates
      /\ AllAcceptable(network) => network.best[s] <= entry.distance
  BY <1>2, <1>4 DEF GoodEntries, EntryType, Rates
<1>6. Entry(s, entry.distance, frame.pbe) \in GoodEntries(network, r)
  BY <1>1, <1>2, <1>3, <1>5, NewEntry
<1>7. Grown(network, table, r, t)
  BY <1>1, <1>3, <1>6, GrownInserted DEF t
<1>8. /\ GoodTables(network, table') /\ known \subseteq Acquainted(network, table')
      /\ table'[r] = t
  <2>1. table' = [table EXCEPT ![r] = t]
    BY <1>0
  <2>2. GoodTables(network, table') /\ known \subseteq Acquainted(network, table')
    BY <1>1, <1>3, <1>7, <2>1, GrownOf DEF known
  <2>3. table'[r] = t
    BY <1>1, <1>3, <2>1 DEF GoodTables
  <2> QED
    BY <2>2, <2>3
<1>9. GoodPBs(network, pb')
  <2> DEFINE d == myDistance(r, t)
  <2>1. d \in Distances /\ (AllAcceptable(network) => network.best[r] <= d)
    BY <1>1, <1>3, <1>7, GoodMyDistance DEF Grown
  <2>2. pb' = [pb EXCEPT ![r] = d]
    BY <1>0, <1>8
  <2>3. GoodPBs(network, pb)
    BY DEF IInv
  <2> HIDE DEF d
  <2> QED
    BY <1>1, <2>1, <2>2, <2>3 DEF GoodPBs
<1>10. Carries(network, Acquainted(network, table'), channel')
  BY <1>0, <1>1, <1>8, CarriesMore
<1>11. SamplesGood'
  BY <1>0, FreedTyped DEF IInv
<1>12. StatusGood' /\ HardwareTyped' /\ TroubleTyped'
  BY <1>0 DEF IInv, StatusGood, NoFaults, HardwareTyped, TroubleTyped
<1> QED
  BY <1>0, <1>8, <1>9, <1>10, <1>11, <1>12 DEF IInv

(* Without faults a PC never comes from a stranger. *)
LEMMA PC_RX_CrashGood ==
  ASSUME IInv, NEW s, NEW r, <<s, r>> \in Links, PC_RX_Crash(s, r)
  PROVE  IInv'
<1> DEFINE frame == Head(channel[<<s, r>>])
           known == Acquainted(network, table)
<1>0. /\ Arrives(s, r, "PC") /\ network' = network /\ ~Knows(table[r], s)
      /\ status' = [status EXCEPT ![r] = "Dead"] /\ channel' = Taken(<<s, r>>)
      /\ UNCHANGED <<table, pb, taken, sending, copying, internal, delivered, trouble>>
  BY DEF PC_RX_Crash, samples, hardware
<1>1. /\ s \in Nodes /\ r \in Nodes
      /\ Carries(network, known, Taken(<<s, r>>))
      /\ frame \in GoodFrames(network, known, <<s, r>>) /\ frame.type = "PC"
  BY <1>0, Arrived DEF Arrives
<1> HIDE DEF frame
<1>2. network.trouble # 0
  <2>1. <<r, s>> \in known
    BY <1>1, FrameOf
  <2> QED
    BY <1>0, <2>1 DEF Acquainted
<1>3. StatusGood'
  BY <1>0, <1>2, NetAssumption DEF IInv, StatusGood, NoFaults
<1>4. SamplesGood' /\ HardwareTyped' /\ TroubleTyped'
  BY <1>0 DEF IInv, NoFaults, SamplesGood, HardwareTyped, TroubleTyped
<1> QED
  BY <1>0, <1>1, <1>3, <1>4 DEF IInv

-----------------------------------------------------------------------------
(* Entering, restarts and faults. *)

LEMMA EnterGood ==
  ASSUME IInv, NEW n \in Slaves, Enter(n)
  PROVE  IInv'
<1>0. /\ network' = network /\ status' = [status EXCEPT ![n] = "Inside"]
      /\ UNCHANGED <<table, pb, channel, taken, sending, copying, internal, delivered, trouble>>
  BY DEF Enter, samples, hardware
<1>1. StatusGood'
  BY <1>0 DEF IInv, StatusGood, NoFaults, Slaves
<1>2. SamplesGood' /\ HardwareTyped' /\ TroubleTyped'
  BY <1>0 DEF IInv, NoFaults, SamplesGood, HardwareTyped, TroubleTyped
<1> QED
  BY <1>0, <1>1, <1>2 DEF IInv

(* The process starts anew; with nothing gone wrong it does not come to it. *)
LEMMA RestartedGood ==
  ASSUME IInv, NEW n \in Slaves, Restarted(n), network.trouble # 0, network' = network,
         channel' = channel, taken' \in [Nodes -> Nat], \A x \in Nodes : taken'[x] >= taken[x],
         UNCHANGED <<copying, internal, delivered>>,
         trouble' \in Nat
  PROVE  IInv'
<1>0. /\ status' = [status EXCEPT ![n] = "Outside"]
      /\ table' = [table EXCEPT ![n] = <<>>]
      /\ pb' = [pb EXCEPT ![n] = NoPB]
      /\ sending' = [sending EXCEPT ![n] = Idle]
      /\ n \in Nodes /\ Master \in Nodes /\ n # Master
  BY NetAssumption DEF Restarted, Slaves
<1>1. StatusGood'
  BY <1>0 DEF IInv, StatusGood, NoFaults
<1>2. Grown(network, table, n, <<>>)
  BY DEF Grown, InOrder
<1>3. /\ GoodTables(network, table')
      /\ Acquainted(network, table) \subseteq Acquainted(network, table')
  BY <1>0, <1>2, GrownOf DEF IInv
<1>4. Carries(network, Acquainted(network, table'), channel')
  BY <1>3, CarriesMore DEF IInv
<1>5. GoodPBs(network, pb')
  BY <1>0 DEF IInv, GoodPBs
<1>6. SamplesGood'
  BY <1>0 DEF IInv, SamplesGood
<1>7. HardwareTyped'
  <2>1. copying => taken'[Master] >= 1
    BY <1>0 DEF IInv, HardwareTyped, SamplesGood
  <2> QED
    BY <2>1 DEF IInv, HardwareTyped
<1>8. TroubleTyped'
  BY DEF TroubleTyped, NoFaults
<1> QED
  BY <1>1, <1>3, <1>4, <1>5, <1>6, <1>7, <1>8 DEF IInv

LEMMA FaultOf ==
  ASSUME IInv, Fault
  PROVE  network.trouble # 0 /\ trouble' \in Nat
BY DEF IInv, Fault, TroubleTyped, NoFaults

LEMMA RestartGood ==
  ASSUME IInv, NEW n \in Slaves, Restart(n)
  PROVE  IInv'
<1>0. /\ Restarted(n) /\ network' = network /\ channel' = channel /\ taken' = taken
      /\ UNCHANGED <<copying, internal, delivered>>
  BY DEF Restart, hardware
<1>1. network.trouble # 0 /\ trouble' \in Nat
  BY FaultOf DEF Restart
<1>2. taken' \in [Nodes -> Nat] /\ \A x \in Nodes : taken'[x] >= taken[x]
  BY <1>0 DEF IInv, SamplesGood
<1> QED
  BY <1>0, <1>1, <1>2, RestartedGood

LEMMA LoseGood ==
  ASSUME IInv, NEW s, NEW r, <<s, r>> \in Links, Lose(s, r)
  PROVE  IInv'
<1>0. /\ network' = network /\ channel[<<s, r>>] # <<>> /\ channel' = Taken(<<s, r>>)
      /\ UNCHANGED <<status, table, pb, taken, sending, copying, internal, delivered>>
  BY DEF Lose, routing, samples, hardware
<1>1. network.trouble # 0 /\ trouble' \in Nat
  BY FaultOf DEF Lose
<1>2. Carries(network, Acquainted(network, table), channel')
  BY <1>0, Arrived
<1>3. StatusGood' /\ SamplesGood' /\ HardwareTyped' /\ TroubleTyped'
  BY <1>0, <1>1 DEF IInv, StatusGood, NoFaults, SamplesGood, HardwareTyped, TroubleTyped
<1> QED
  BY <1>0, <1>2, <1>3 DEF IInv

LEMMA SilenceGood ==
  ASSUME IInv, NEW s, NEW r, <<s, r>> \in Links, Silence(s, r)
  PROVE  IInv'
<1> DEFINE k == Place(table[r], s)
           f == [table[r][k] EXCEPT !.fresh = FALSE]
           t == [table[r] EXCEPT ![k] = f]
<1>0. /\ network' = network /\ Knows(table[r], s)
      /\ table' = [table EXCEPT ![r] = t]
      /\ UNCHANGED <<status, pb, channel, taken, sending, copying, internal, delivered>>
  BY DEF Silence, samples, hardware
<1>1. network.trouble # 0 /\ trouble' \in Nat
  BY FaultOf DEF Silence
<1>2. GoodTables(network, table) /\ r \in Nodes
  BY NetOf DEF IInv, Links
<1>3. table[r] \in Seq(GoodEntries(network, r)) /\ InOrder(table[r])
  BY <1>2 DEF GoodTables
<1>4. k \in DOMAIN table[r] /\ table[r][k] \in GoodEntries(network, r)
  BY <1>0, <1>3, PlaceOf, ElementOf
<1>5. /\ f \in GoodEntries(network, r) /\ f.ip = table[r][k].ip
      /\ f.distance = table[r][k].distance /\ f.remotePBE = table[r][k].remotePBE
  <2> DEFINE e == table[r][k]
  <2>1. e \in EntryType /\ e \in GoodEntries(network, r)
    BY <1>4 DEF GoodEntries
  <2> HIDE DEF e, k
  <2> DEFINE g == [e EXCEPT !.fresh = FALSE]
  <2>2. /\ g \in EntryType /\ g.ip = e.ip
        /\ g.distance = e.distance /\ g.remotePBE = e.remotePBE
    BY <2>1 DEF EntryType
  <2> HIDE DEF g
  <2>3. g \in GoodEntries(network, r)
    BY <1>1, <2>1, <2>2 DEF GoodEntries
  <2>4. f = g
    BY DEF g, e
  <2> QED
    BY <2>2, <2>3, <2>4 DEF e
<1> HIDE DEF k, f
<1>6. t \in Seq(GoodEntries(network, r)) /\ InOrder(t)
  BY <1>3, <1>4, <1>5, FreshChanged
<1> HIDE DEF t
<1>7. Grown(network, table, r, t)
  BY <1>1, <1>6 DEF Grown
<1>8. /\ GoodTables(network, table')
      /\ Acquainted(network, table) \subseteq Acquainted(network, table')
  BY <1>0, <1>2, <1>7, GrownOf
<1>9. Carries(network, Acquainted(network, table'), channel')
  BY <1>0, <1>8, CarriesMore DEF IInv
<1>10. StatusGood' /\ SamplesGood' /\ HardwareTyped' /\ TroubleTyped'
  BY <1>0, <1>1 DEF IInv, StatusGood, NoFaults, SamplesGood, HardwareTyped, TroubleTyped
<1> QED
  BY <1>0, <1>8, <1>9, <1>10 DEF IInv

-----------------------------------------------------------------------------
(* Samples *)

LEMMA SampleTyped ==
  \A n \in Nodes, i \in Nat \cup {Mixed} : Sample(n, i) \in SampleType
BY DEF Sample, SampleType

LEMMA SD_TXGood ==
  ASSUME IInv, NEW n \in Slaves, SD_TX(n)
  PROVE  IInv'
<1> DEFINE sample == Sample(n, taken[n] + 1)
           hop == getBestHop(table[n])
<1>0. /\ network' = network /\ channel' = channel
      /\ UNCHANGED <<copying, internal, delivered, trouble>>
      /\ taken' = [taken EXCEPT ![n] = @ + 1]
      /\ \/ LosesLast(table[n]) /\ Restarted(n)
         \/ /\ table' = [table EXCEPT ![n] = Unexpired(@)]
            /\ sending' = [sending EXCEPT ![n] =
                             IF hop = NoHop THEN Idle
                             ELSE [sample |-> sample, hop |-> hop, freed |-> FALSE]]
            /\ UNCHANGED <<status, pb>>
  BY DEF SD_TX, hardware
<1>1. /\ n \in Nodes /\ taken \in [Nodes -> Nat] /\ trouble' \in Nat
      /\ GoodTables(network, table)
  BY <1>0 DEF IInv, Slaves, SamplesGood, TroubleTyped
<1>2. taken' \in [Nodes -> Nat] /\ \A x \in Nodes : taken'[x] >= taken[x]
  BY <1>0, <1>1
<1>3. Grown(network, table, n, table[n])
  BY <1>1, GrownSame
<1>4. /\ Grown(network, table, n, Unexpired(table[n]))
      /\ network.trouble = 0 => ~LosesLast(table[n])
  BY <1>3, GrownUnexpired
<1>5. CASE LosesLast(table[n]) /\ Restarted(n)
  BY <1>0, <1>1, <1>2, <1>4, <1>5, RestartedGood
<1>6. CASE /\ table' = [table EXCEPT ![n] = Unexpired(@)]
           /\ sending' = [sending EXCEPT ![n] =
                            IF hop = NoHop THEN Idle
                            ELSE [sample |-> sample, hop |-> hop, freed |-> FALSE]]
           /\ UNCHANGED <<status, pb>>
  <2>1. /\ GoodTables(network, table')
        /\ Acquainted(network, table) \subseteq Acquainted(network, table')
    BY <1>1, <1>4, <1>6, GrownOf
  <2>2. Carries(network, Acquainted(network, table'), channel')
    BY <1>0, <2>1, CarriesMore DEF IInv
  <2>3. SamplesGood'
    <3>1. /\ hop \in Nodes \cup {NoHop}
          /\ hop # NoHop => GoodHop(network, n, hop)
      BY <1>3, HopOf DEF IInv
    <3>2. sample \in SampleType
      BY <1>1, SampleTyped
    <3> HIDE DEF hop, sample
    <3> DEFINE s == IF hop = NoHop THEN Idle
                    ELSE [sample |-> sample, hop |-> hop, freed |-> FALSE]
    <3>3. /\ s \in {Idle} \cup SendingType
          /\ s # Idle => GoodHop(network, n, s.hop)
      BY <3>1, <3>2 DEF SendingType
    <3>4. sending' = [sending EXCEPT ![n] = s]
      BY <1>6
    <3> HIDE DEF s
    <3>5. SamplesGood
      BY DEF IInv
    <3> QED
      BY <1>0, <1>2, <3>3, <3>4, <3>5 DEF SamplesGood
  <2>4. StatusGood' /\ TroubleTyped'
    BY <1>0, <1>6 DEF IInv, StatusGood, NoFaults, TroubleTyped
  <2>5. HardwareTyped'
    <3>1. copying => taken'[Master] >= 1
      BY <1>1, <1>2, NetAssumption DEF IInv, HardwareTyped
    <3> QED
      BY <1>0, <3>1 DEF IInv, HardwareTyped
  <2> QED
    BY <1>0, <1>6, <2>1, <2>2, <2>3, <2>4, <2>5 DEF IInv
<1> QED
  BY <1>0, <1>5, <1>6

LEMMA SD_TX_SendGood ==
  ASSUME IInv, NEW n \in Slaves, SD_TX_Send(n)
  PROVE  IInv'
<1>0. /\ network' = network /\ sending[n] # Idle
      /\ sending' = [sending EXCEPT ![n] = Idle]
      /\ UNCHANGED <<status, table, pb, taken, copying, internal, delivered, trouble>>
  BY DEF SD_TX_Send, routing, hardware
<1>1. PICK next \in Nodes \cup {NoHop} :
        channel' = Broadcast(n, SD(sending[n].sample, next), channel)
  BY DEF SD_TX_Send
<1>2. sending[n].sample \in SampleType /\ n \in Nodes
  BY <1>0 DEF IInv, SamplesGood, SendingType, Slaves
<1>3. ASSUME NEW l \in Links, l[1] = n
      PROVE  SD(sending[n].sample, next) \in
               GoodFrames(network, Acquainted(network, table), l)
  <2>1. l = <<n, l[2]>> /\ l[2] \in Nodes
    BY <1>3, NetOf DEF IInv, Links
  <2> QED
    BY <1>2, <2>1, MayBeSent
<1>4. Carries(network, Acquainted(network, table), channel')
  BY <1>1, <1>3, CarriesBroadcast DEF IInv
<1>5. StatusGood' /\ SamplesGood' /\ HardwareTyped' /\ TroubleTyped'
  BY <1>0 DEF IInv, StatusGood, NoFaults, SamplesGood, HardwareTyped, TroubleTyped
<1> QED
  BY <1>0, <1>4, <1>5 DEF IInv

LEMMA SD_RX_IgnoredGood ==
  ASSUME IInv, NEW s, NEW r, <<s, r>> \in Links, SD_RX_Ignored(s, r)
  PROVE  IInv'
<1>0. /\ network' = network /\ channel[<<s, r>>] # <<>> /\ channel' = Taken(<<s, r>>)
      /\ UNCHANGED <<status, table, pb, taken, sending, copying, internal, delivered, trouble>>
  BY DEF SD_RX_Ignored, Arrives, routing, samples, hardware
<1>1. Carries(network, Acquainted(network, table), channel')
  BY <1>0, Arrived
<1>2. StatusGood' /\ SamplesGood' /\ HardwareTyped' /\ TroubleTyped'
  BY <1>0 DEF IInv, StatusGood, NoFaults, SamplesGood, HardwareTyped, TroubleTyped
<1> QED
  BY <1>0, <1>1, <1>2 DEF IInv

(* The sample of a frame, and the table of who hears it. *)
LEMMA SampleHeard ==
  ASSUME IInv, NEW s, NEW r, <<s, r>> \in Links, Arrives(s, r, "SD")
  PROVE  LET sample == Head(channel[<<s, r>>]).sample
         IN  /\ r \in Nodes /\ sample \in SampleType
             /\ Carries(network, Acquainted(network, table), Taken(<<s, r>>))
             /\ Grown(network, table, r, Heard(table[r], sample.source))
<1> DEFINE frame == Head(channel[<<s, r>>])
           known == Acquainted(network, table)
<1>1. /\ r \in Nodes /\ Carries(network, known, Taken(<<s, r>>))
      /\ frame \in GoodFrames(network, known, <<s, r>>) /\ frame.type = "SD"
  BY Arrived DEF Arrives
<1> HIDE DEF frame, known
<1>2. frame.sample \in SampleType
  BY <1>1, FrameOf
<1>3. frame.sample.source \in Nodes
  BY <1>2 DEF SampleType
<1>4. Grown(network, table, r, Heard(table[r], frame.sample.source))
  BY <1>1, <1>3, GrownBySample DEF IInv
<1> QED
  BY <1>1, <1>2, <1>4 DEF frame, known

LEMMA SD_RX_MasterGood ==
  ASSUME IInv, NEW s, <<s, Master>> \in Links, SD_RX_Master(s)
  PROVE  IInv'
<1> DEFINE sample == Head(channel[<<s, Master>>]).sample
           t == Heard(table[Master], sample.source)
<1>0. /\ Arrives(s, Master, "SD") /\ network' = network
      /\ table' = [table EXCEPT ![Master] = t]
      /\ internal' = Append(internal, sample) /\ channel' = Taken(<<s, Master>>)
      /\ UNCHANGED <<status, pb, taken, sending, copying, delivered, trouble>>
  BY DEF SD_RX_Master, samples
<1>1. /\ Master \in Nodes /\ sample \in SampleType
      /\ Carries(network, Acquainted(network, table), Taken(<<s, Master>>))
      /\ Grown(network, table, Master, t)
  BY <1>0, SampleHeard
<1> HIDE DEF sample, t
<1>2. /\ GoodTables(network, table')
      /\ Acquainted(network, table) \subseteq Acquainted(network, table')
  BY <1>0, <1>1, GrownOf DEF IInv
<1>3. Carries(network, Acquainted(network, table'), channel')
  BY <1>0, <1>1, <1>2, CarriesMore
<1>4. HardwareTyped'
  <2>1. internal' \in Seq(SampleType \cup {InBuffer})
    BY <1>0, <1>1 DEF IInv, HardwareTyped
  <2> QED
    BY <1>0, <2>1 DEF IInv, HardwareTyped
<1>5. StatusGood' /\ SamplesGood' /\ TroubleTyped'
  BY <1>0 DEF IInv, StatusGood, NoFaults, SamplesGood, TroubleTyped
<1> QED
  BY <1>0, <1>2, <1>3, <1>4, <1>5 DEF IInv

LEMMA SD_RX_RelayGood ==
  ASSUME IInv, NEW s, NEW r, <<s, r>> \in Links, SD_RX_Relay(s, r)
  PROVE  IInv'
<1> DEFINE sample == Head(channel[<<s, r>>]).sample
           t == Heard(table[r], sample.source)
           hop == getBestHop(t)
           known == Acquainted(network, table)
<1>0. /\ r \in Slaves /\ Arrives(s, r, "SD") /\ network' = network
      /\ table' = [table EXCEPT ![r] = Unexpired(t)]
      /\ channel' = IF hop = NoHop THEN Taken(<<s, r>>)
                    ELSE Broadcast(r, SD(sample, hop), Taken(<<s, r>>))
      /\ sending' = IF sending[r] # Idle /\ ~Knows(Unexpired(t), sending[r].hop)
                    THEN [sending EXCEPT ![r].freed = TRUE]
                    ELSE sending
      /\ UNCHANGED <<status, pb, taken, copying, internal, delivered, trouble>>
  BY DEF SD_RX_Relay, hardware
<1>1. /\ r \in Nodes /\ sample \in SampleType
      /\ Carries(network, known, Taken(<<s, r>>))
      /\ Grown(network, table, r, t)
  BY <1>0, SampleHeard
<1> HIDE DEF sample, t, known
<1>2. /\ Grown(network, table, r, Unexpired(t)) /\ hop \in Nodes \cup {NoHop}
      /\ hop # NoHop => GoodHop(network, r, hop)
  BY <1>1, GrownUnexpired, HopOf DEF IInv
<1> HIDE DEF hop
<1>3. GoodTables(network, table') /\ known \subseteq Acquainted(network, table')
  BY <1>0, <1>1, <1>2, GrownOf DEF IInv, known
<1>4. Carries(network, Acquainted(network, table'), Taken(<<s, r>>))
  BY <1>1, <1>3, CarriesMore
<1>5. ASSUME hop # NoHop, NEW l \in Links, l[1] = r
      PROVE  SD(sample, hop) \in GoodFrames(network, Acquainted(network, table'), l)
  <2>1. l = <<r, l[2]>> /\ l[2] \in Nodes
    BY <1>5, NetOf DEF IInv, Links
  <2> QED
    BY <1>1, <1>2, <1>5, <2>1, MayBeSent
<1>6. hop # NoHop => Carries(network, Acquainted(network, table'),
                            Broadcast(r, SD(sample, hop), Taken(<<s, r>>)))
  BY <1>4, <1>5, CarriesBroadcast
<1>7. Carries(network, Acquainted(network, table'), channel')
  BY <1>0, <1>4, <1>6
<1>8. SamplesGood'
  <2>1. Freed(r, sending[r].hop) \/ sending' = sending
    BY <1>0 DEF Freed, Slaves
  <2> QED
    BY <1>0, <2>1, FreedTyped DEF IInv
<1>9. StatusGood' /\ HardwareTyped' /\ TroubleTyped'
  BY <1>0 DEF IInv, StatusGood, NoFaults, HardwareTyped, TroubleTyped
<1> QED
  BY <1>0, <1>3, <1>7, <1>8, <1>9 DEF IInv

LEMMA HardwareGood ==
  ASSUME IInv, WS_listener_Copy \/ WS_listener_Queue \/ HW_dispatcher
  PROVE  IInv'
<1>0. /\ network' = network
      /\ UNCHANGED <<status, table, pb, channel, sending, trouble>>
  BY DEF WS_listener_Copy, WS_listener_Queue, HW_dispatcher, routing, samples
<1>1. /\ Master \in Nodes /\ taken \in [Nodes -> Nat] /\ copying \in BOOLEAN
      /\ copying => taken[Master] >= 1
      /\ internal \in Seq(SampleType \cup {InBuffer}) /\ delivered \in Seq(SampleType)
  BY NetAssumption DEF IInv, HardwareTyped, SamplesGood
<1>2. SamplesGood' /\ HardwareTyped'
  <2>1. CASE WS_listener_Copy
    <3>1. /\ taken' = [taken EXCEPT ![Master] = @ + 1] /\ copying' = TRUE
          /\ UNCHANGED <<internal, delivered>>
      BY <2>1 DEF WS_listener_Copy
    <3>2. taken' \in [Nodes -> Nat] /\ taken'[Master] >= 1
      BY <1>1, <3>1
    <3> QED
      BY <1>0, <1>1, <3>1, <3>2 DEF IInv, SamplesGood, HardwareTyped
  <2>2. CASE WS_listener_Queue
    <3>1. /\ copying' = FALSE /\ internal' = Append(internal, InBuffer)
          /\ UNCHANGED <<taken, delivered>>
      BY <2>2 DEF WS_listener_Queue, samples
    <3>2. internal' \in Seq(SampleType \cup {InBuffer})
      BY <1>1, <3>1
    <3>3. copying' \in BOOLEAN /\ ~copying'
      BY <3>1
    <3> QED
      BY <1>0, <1>1, <3>1, <3>2, <3>3 DEF IInv, SamplesGood, HardwareTyped
  <2>3. CASE HW_dispatcher
    <3>1. /\ internal # <<>> /\ internal' = Tail(internal)
          /\ UNCHANGED <<taken, copying>>
          /\ \/ /\ Head(internal) # InBuffer
                /\ delivered' = Append(delivered, Head(internal))
             \/ delivered' = Append(delivered,
                               Sample(Master, IF copying THEN Mixed ELSE taken[Master]))
      BY <2>3 DEF HW_dispatcher, samples
    <3>2. /\ internal' \in Seq(SampleType \cup {InBuffer})
          /\ Head(internal) \in SampleType \cup {InBuffer}
      BY <1>1, <3>1
    <3>3. \E x \in SampleType : delivered' = Append(delivered, x)
      <4>1. taken[Master] \in Nat
        BY <1>1
      <4>2. \A number \in Nat \cup {Mixed} : Sample(Master, number) \in SampleType
        BY <1>1, SampleTyped
      <4>3. Sample(Master, IF copying THEN Mixed ELSE taken[Master]) \in SampleType
        BY <4>1, <4>2
      <4> QED
        BY <3>1, <3>2, <4>3
    <3>4. delivered' \in Seq(SampleType)
      BY <1>1, <3>3
    <3> QED
      BY <1>0, <1>1, <3>1, <3>2, <3>4 DEF IInv, SamplesGood, HardwareTyped
  <2> QED
    BY <2>1, <2>2, <2>3
<1>3. StatusGood' /\ TroubleTyped'
  BY <1>0 DEF IInv, StatusGood, NoFaults, TroubleTyped
<1> QED
  BY <1>0, <1>2, <1>3 DEF IInv

-----------------------------------------------------------------------------
(* The invariant, and what follows from it. *)

LEMMA ReceiveGood ==
  ASSUME IInv, NEW l \in Links, Receive(l[1], l[2])
  PROVE  IInv'
<1> DEFINE s == l[1]
           r == l[2]
<1>1. <<s, r>> \in Links
  BY NetOf DEF IInv, Links
<1> HIDE DEF s, r
<1>2. CASE PB_RX(s, r)
  BY <1>1, <1>2, PB_RXGood
<1>3. CASE PR_RX(s, r)
  BY <1>1, <1>3, PR_RXGood
<1>4. CASE PC_RX(s, r)
  BY <1>1, <1>4, PC_RXGood
<1>5. CASE PC_RX_Crash(s, r)
  BY <1>1, <1>5, PC_RX_CrashGood
<1>6. CASE SD_RX_Ignored(s, r)
  BY <1>1, <1>6, SD_RX_IgnoredGood
<1>7. CASE SD_RX_Relay(s, r)
  BY <1>1, <1>7, SD_RX_RelayGood
<1>8. CASE r = Master /\ SD_RX_Master(s)
  BY <1>1, <1>8, SD_RX_MasterGood
<1>9. Receive(s, r)
  BY DEF s, r
<1> QED
  BY <1>2, <1>3, <1>4, <1>5, <1>6, <1>7, <1>8, <1>9 DEF Receive

LEMMA NextGood ==
  ASSUME IInv, [Next]_vars
  PROVE  IInv'
<1>1. CASE UNCHANGED vars
  BY <1>1 DEF vars, routing, samples, hardware, IInv, StatusGood, NoFaults,
              SamplesGood, HardwareTyped, TroubleTyped
<1>2. ASSUME NEW n \in Slaves, Enter(n) \/ SD_TX(n) \/ SD_TX_Send(n) \/ Restart(n)
      PROVE  IInv'
  BY <1>2, EnterGood, SD_TXGood, SD_TX_SendGood, RestartGood
<1>3. ASSUME NEW n \in Nodes, PB_Retransmit(n)
      PROVE  IInv'
  BY <1>3, PB_RetransmitGood
<1>4. ASSUME NEW l \in Links, Lose(l[1], l[2]) \/ Silence(l[1], l[2])
      PROVE  IInv'
  <2>1. <<l[1], l[2]>> \in Links
    BY NetOf DEF IInv, Links
  <2> QED
    BY <1>4, <2>1, LoseGood, SilenceGood
<1>5. CASE WS_listener_Copy \/ WS_listener_Queue \/ HW_dispatcher
  BY <1>5, HardwareGood
<1> QED
  BY <1>1, <1>2, <1>3, <1>4, <1>5, ReceiveGood DEF Next

(* Whatever is lost, delayed or restarted, the tables, the PBs and the frames
   under way stay good. *)
THEOREM Invariant == Spec => []IInv
<1>1. IInv /\ [Next]_vars => IInv'
  BY NextGood
<1> QED
  BY <1>1, InitGood, PTL DEF Spec

(* Every variable stays within its type (the state of routing.c,
   application.c, WS.c and HW.c). *)
THEOREM TypeCorrect == Spec => []TypeOK
<1>1. IInv => TypeOK
  <2> SUFFICES ASSUME IInv PROVE TypeOK
    OBVIOUS
  <2>1. \A n \in Nodes : table[n] \in Seq(EntryType)
    BY DEF IInv, GoodTables
  <2>2. \A n \in Slaves :
          sending[n] = Idle \/ sending[n] \in [sample : SampleType, hop : Nodes, freed : BOOLEAN]
    BY DEF IInv, SamplesGood, SendingType
  <2>3. channel \in [Links -> Seq(FrameType)] /\ pb \in [Nodes -> Distances \cup {NoPB}]
    BY DEF IInv, Carries, GoodPBs, Links
  <2> QED
    BY <2>1, <2>2, <2>3 DEF IInv, TypeOK, StatusGood, SamplesGood, HardwareTyped, TroubleTyped
<1> QED
  BY <1>1, Invariant, PTL

(* Every table is in the order of its distances and lists a neighbour once
   (routInsertOrUpdateEntry, routRemoveEntry, routUpdateLastHeard and the
   expiry in getBestHop together). *)
THEOREM TablesStayInOrder == Spec => []TablesInOrder
<1>1. IInv => TablesInOrder
  BY DEF IInv, GoodTables, TablesInOrder
<1> QED
  BY <1>1, Invariant, PTL

(* An entry that can be used is for a link that works both ways, and has the
   rate of the frames this node sends (PB_RX, PR_RX, PC_RX). *)
THEOREM RatesAreOfUsableLinks == Spec => []UsedBothWays
<1>1. IInv => UsedBothWays
  <2> SUFFICES ASSUME IInv, NEW n \in Nodes, NEW i \in DOMAIN table[n], Usable(table[n][i])
               PROVE  /\ {<<n, table[n][i].ip>>, <<table[n][i].ip, n>>} \subseteq Links
                      /\ table[n][i].remotePBE = network.loss[<<n, table[n][i].ip>>]
    BY DEF UsedBothWays
  <2> DEFINE e == table[n][i]
  <2>1. e \in GoodEntries(network, n)
    BY ElementOf DEF IInv, GoodTables
  <2>2. e.remotePBE # WORST_QUALITY
    BY DEF Usable, getDistance
  <2> HIDE DEF e
  <2>3. /\ {<<n, e.ip>>, <<e.ip, n>>} \subseteq Links
        /\ e.remotePBE = network.loss[<<n, e.ip>>]
    BY <2>1, <2>2 DEF GoodEntries, Links
  <2> QED
    BY <2>3 DEF e
<1> QED
  BY <1>1, Invariant, PTL

(* Where no link loses more than is acceptable no node believes or says that
   it is nearer to the master than its best path, whatever frames are lost,
   late or repeated and whichever node restarts. *)
THEOREM DistancesAreHonest == Spec => []NeverOptimistic
<1>1. IInv => NeverOptimistic
  <2> SUFFICES ASSUME IInv, AllAcceptable(network) PROVE NeverOptimistic
    BY DEF NeverOptimistic
  <2>0. network \in Networks
    BY DEF IInv
  <2>1. ASSUME NEW n \in Slaves
        PROVE  FirstDistance(table[n]) >= network.best[n]
    <3>1. n \in Nodes /\ n # Master
      BY DEF Slaves
    <3>2. table[n] \in Seq(GoodEntries(network, n))
      BY <3>1 DEF IInv, GoodTables
    <3>3. /\ myDistance(n, table[n]) \in Distances /\ network.best[n] \in Distances
          /\ network.best[n] <= myDistance(n, table[n])
      BY <2>0, <3>1, <3>2, GoodMyDistance, NetOf
    <3>4. myDistance(n, table[n]) = FirstDistance(table[n])
      BY <3>1 DEF myDistance
    <3>5. \A x \in Distances : x \in Int
      BY TableAssumption DEF Distances
    <3> QED
      BY <3>3, <3>4, <3>5
  <2>2. ASSUME NEW n \in Nodes, pb[n] # NoPB
        PROVE  pb[n] >= network.best[n]
    <3>1. pb[n] \in Distances /\ network.best[n] \in Distances /\ network.best[n] <= pb[n]
      BY <2>0, <2>2, NetOf DEF IInv, GoodPBs
    <3> QED
      BY <3>1, TableAssumption DEF Distances
  <2>3. ASSUME NEW l \in Links, NEW i \in DOMAIN channel[l],
               channel[l][i].type \in {"PB", "PR"}
        PROVE  channel[l][i].distance >= network.best[channel[l][i].sender]
    <3> DEFINE f == channel[l][i]
    <3>1. f \in GoodFrames(network, Acquainted(network, table), l)
      BY ElementOf DEF IInv, Carries, Links
    <3>2. f.type \in {"PB", "PR"}
      BY <2>3
    <3> HIDE DEF f
    <3>3. /\ f.sender = l[1] /\ network.best[l[1]] <= f.distance /\ f \in FrameType
      BY <3>1, <3>2 DEF GoodFrames
    <3>4. l[1] \in Nodes /\ network.best[l[1]] \in Distances
      BY <2>0, NetOf DEF Links
    <3>5. f.distance \in Distances
      BY <3>2, <3>3 DEF FrameType
    <3>6. f.distance >= network.best[f.sender]
      BY <3>3, <3>4, <3>5, TableAssumption DEF Distances
    <3> QED
      BY <3>6 DEF f
  <2> QED
    BY <2>1, <2>2, <2>3 DEF NeverOptimistic
<1> QED
  BY <1>1, Invariant, PTL

(* Where nothing goes wrong PC_RX never reads an entry that is not there. *)
THEOREM NoProcessDies == Spec => []NoCrash
<1>1. IInv => NoCrash
  BY DEF IInv, StatusGood, NoCrash
<1> QED
  BY <1>1, Invariant, PTL

LEMMA HopIsFirst ==
  ASSUME IInv, Settled, HopsHeard, Growing, NEW n \in Slaves, getBestHop(table[n]) # NoHop
  PROVE  /\ getBestHop(table[n]) \in Nodes
         /\ network.best[getBestHop(table[n])] < network.best[n]
<1> DEFINE e == table[n][1]
<1>1. /\ n \in Nodes /\ network \in Networks /\ AllAcceptable(network)
      /\ table[n] \in Seq(GoodEntries(network, n)) /\ InOrder(table[n])
      /\ FirstDistance(table[n]) = network.best[n]
      /\ table[n] # <<>> => e.fresh
  BY DEF IInv, GoodTables, Settled, HopsHeard, Slaves
<1>2. Unexpired(table[n]) = table[n]
  BY <1>1, UnexpiredOf
<1>3. table[n] # <<>> /\ Usable(e) /\ getBestHop(table[n]) = e.ip
  BY <1>2 DEF getBestHop, HeadHop
<1>4. e \in GoodEntries(network, n)
  BY <1>1, <1>3
<1>5. getDistance(e) = network.best[n] /\ e.distance < getDistance(e)
  BY <1>1, <1>3 DEF FirstDistance, Growing
<1> HIDE DEF e
<1>6. e.ip \in Nodes /\ e.distance \in Distances /\ network.best[e.ip] <= e.distance
  BY <1>1, <1>4 DEF GoodEntries, EntryType
<1>7. network.best[e.ip] \in Nat /\ e.distance \in Nat /\ network.best[n] \in Nat
  BY <1>1, <1>6, NetOf, TableAssumption DEF Distances
<1> QED
  BY <1>3, <1>5, <1>6, <1>7

(* Once every slave knows its best path and hears the next hop on it, no
   samples go in a circle, whatever was lost or restarted before (getBestHop,
   myDistance): the slave of a set that is nearest to the master has its next
   hop outside. *)
THEOREM NoCirclesOnceSettled == Spec => []NoLoops
<1>1. IInv => NoLoops
  <2> SUFFICES ASSUME IInv, Settled, HopsHeard, Growing, NEW C \in SUBSET Slaves, C # {}
               PROVE  \E n \in C : getBestHop(table[n]) \notin C
    BY DEF NoLoops
  <2>1. \A n \in C : n \in Slaves /\ network.best[n] \in Nat
    <3>1. network.best \in [Nodes -> Distances] /\ C \subseteq Nodes
      BY NetOf DEF IInv, Settled, Slaves
    <3> QED
      BY <3>1, TableAssumption DEF Distances
  <2> DEFINE T == {network.best[n] : n \in C}
  <2>2. T \subseteq Nat /\ T # {}
    BY <2>1
  <2>3. PICK x \in T : \A y \in T : x <= y
    BY <2>2, LeastOf
  <2>4. PICK n \in C : \A o \in C : network.best[n] <= network.best[o]
    BY <2>3
  <2>5. getBestHop(table[n]) \notin C
    <3> SUFFICES ASSUME getBestHop(table[n]) \in C PROVE FALSE
      OBVIOUS
    <3>1. getBestHop(table[n]) # NoHop
      BY NetAssumption DEF Slaves
    <3>2. network.best[getBestHop(table[n])] < network.best[n]
      BY <2>1, <3>1, HopIsFirst
    <3>3. network.best[n] <= network.best[getBestHop(table[n])]
      BY <2>4
    <3>4. network.best[n] \in Nat /\ network.best[getBestHop(table[n])] \in Nat
      BY <2>1
    <3> QED
      BY <3>2, <3>3, <3>4
  <2> QED
    BY <2>5
<1> QED
  BY <1>1, Invariant, PTL

-----------------------------------------------------------------------------
(* Where samples are, and how a step moves them. *)

Carried(ch, f, l) == \E i \in DOMAIN ch[l] : ch[l][i] = f

(* The WS listener of a slave has the sample, or a link carries it to the
   next hop. *)
Held(x) == \E n \in Slaves : sending[n] # Idle /\ sending[n].sample = x
Flying(f, l) == Carried(channel, f, l) /\ f.type = "SD" /\ f.next = l[2]

Somewhere(x) == Held(x) \/ \E l \in Links : \E f : Flying(f, l) /\ f.sample = x

LEMMA UnderWayIs == \A x : x \in UnderWay <=> Somewhere(x)
<1> SUFFICES ASSUME NEW x PROVE x \in UnderWay <=> Somewhere(x)
  OBVIOUS
<1> DEFINE held == {sending[n].sample : n \in {y \in Slaves : sending[y] # Idle}}
           on(l) == {f.sample : f \in {g \in ToSet(channel[l]) : g.type = "SD" /\ g.next = l[2]}}
           flying == UNION {on(l) : l \in Links}
<1>1. UnderWay = held \cup flying
  BY DEF UnderWay
<1>2. x \in held <=> Held(x)
  BY DEF Held
<1>3. \A l \in Links : x \in on(l) <=> \E f : Flying(f, l) /\ f.sample = x
  BY DEF Flying, Carried, ToSet
<1> HIDE DEF on
<1>4. x \in flying <=> \E l \in Links : x \in on(l)
  OBVIOUS
<1> HIDE DEF held, flying
<1> QED
  BY <1>1, <1>2, <1>3, <1>4 DEF Somewhere

LEMMA UnderWayWillBe == \A x : (x \in UnderWay <=> Somewhere(x))'
<1>1. (\A x : x \in UnderWay <=> Somewhere(x))'
  BY UnderWayIs, PTL
<1> QED
  BY <1>1

LEMMA AppendCarries ==
  ASSUME NEW S, NEW s \in Seq(S), NEW e
  PROVE  /\ \A i \in DOMAIN s : i \in DOMAIN Append(s, e) /\ Append(s, e)[i] = s[i]
         /\ Len(s) + 1 \in DOMAIN Append(s, e) /\ Append(s, e)[Len(s) + 1] = e
OBVIOUS

LEMMA TailCarries ==
  ASSUME NEW S, NEW s \in Seq(S), NEW i \in DOMAIN s, s[i] # Head(s)
  PROVE  \E j \in DOMAIN Tail(s) : Tail(s)[j] = s[i]
<1>1. i \in 1 .. Len(s) /\ Len(s) \in Nat /\ s # <<>>
  OBVIOUS
<1>2. i # 1
  OBVIOUS
<1>3. i - 1 \in DOMAIN Tail(s) /\ Tail(s)[i - 1] = s[i]
  BY <1>1, <1>2
<1> QED
  BY <1>3

(* A frame that is on a link stays there when others are sent, and when one
   that is not like it is taken. *)
LEMMA CarriedOn ==
  ASSUME NEW ch \in [Links -> Seq(FrameType)], NEW f, NEW l \in Links, Carried(ch, f, l)
  PROVE  /\ \A s, g : Carried(Broadcast(s, g, ch), f, l)
         /\ \A s, r, g : Carried(Unicast(s, r, g, ch), f, l)
         /\ \A k \in Links : ~(k = l /\ f = Head(ch[l]))
                               => Carried([ch EXCEPT ![k] = Tail(@)], f, l)
<1>1. PICK i \in DOMAIN ch[l] : ch[l][i] = f
  BY DEF Carried
<1>2. ch[l] \in Seq(FrameType)
  OBVIOUS
<1>3. \A g : i \in DOMAIN Append(ch[l], g) /\ Append(ch[l], g)[i] = f
  BY <1>1, <1>2, AppendCarries
<1>4. ASSUME NEW s, NEW g
      PROVE  Carried(Broadcast(s, g, ch), f, l)
  <2>1. Broadcast(s, g, ch)[l] = IF l[1] = s THEN Append(ch[l], g) ELSE ch[l]
    BY DEF Broadcast
  <2> QED
    BY <1>1, <1>3, <2>1 DEF Carried
<1>5. ASSUME NEW s, NEW r, NEW g
      PROVE  Carried(Unicast(s, r, g, ch), f, l)
  <2>1. \/ Unicast(s, r, g, ch)[l] = ch[l]
        \/ Unicast(s, r, g, ch)[l] = Append(ch[l], g)
    BY DEF Unicast
  <2> QED
    BY <1>1, <1>3, <2>1 DEF Carried
<1>6. ASSUME NEW k \in Links, ~(k = l /\ f = Head(ch[l]))
      PROVE  Carried([ch EXCEPT ![k] = Tail(@)], f, l)
  <2>1. CASE k # l
    BY <1>1, <2>1 DEF Carried
  <2>2. CASE k = l
    <3>1. [ch EXCEPT ![k] = Tail(@)][l] = Tail(ch[l])
      BY <2>2
    <3>2. \E j \in DOMAIN Tail(ch[l]) : Tail(ch[l])[j] = f
      BY <1>1, <1>2, <1>6, <2>2, TailCarries
    <3> QED
      BY <3>1, <3>2 DEF Carried
  <2> QED
    BY <2>1, <2>2
<1> QED
  BY <1>4, <1>5, <1>6

(* A frame that is sent is on every link of its sender. *)
LEMMA BroadcastCarried ==
  ASSUME NEW ch \in [Links -> Seq(FrameType)], NEW f, NEW l \in Links
  PROVE  Carried(Broadcast(l[1], f, ch), f, l)
<1>1. Broadcast(l[1], f, ch)[l] = Append(ch[l], f)
  BY DEF Broadcast
<1>2. ch[l] \in Seq(FrameType)
  OBVIOUS
<1>3. Len(ch[l]) + 1 \in DOMAIN Append(ch[l], f) /\ Append(ch[l], f)[Len(ch[l]) + 1] = f
  BY <1>2, AppendCarries
<1> QED
  BY <1>1, <1>3 DEF Carried

(* A sample that is heard leaves the head of a table what it was: if its source
   was not known, it is listed behind every neighbour that can be used. *)
LEMMA HeadStays ==
  ASSUME NEW net \in Networks, NEW tbl, GoodTables(net, tbl), NEW r \in Nodes,
         NEW src \in Nodes, tbl[r] # <<>>, tbl[r][1].fresh, Usable(tbl[r][1])
  PROVE  LET t == Heard(tbl[r], src)
         IN  t # <<>> /\ t[1].fresh /\ Usable(t[1])
<1> DEFINE u == tbl[r]
           t == Heard(u, src)
<1>0. u \in Seq(GoodEntries(net, r)) /\ InOrder(u) /\ u # <<>> /\ 1 \in DOMAIN u
      /\ u[1].fresh /\ Usable(u[1])
  BY DEF GoodTables
<1>1. u[1] \in GoodEntries(net, r) /\ u[1] \in EntryType
  <2>1. u[1] \in GoodEntries(net, r)
    BY <1>0, ElementOf
  <2> QED
    BY <2>1 DEF GoodEntries
<1> HIDE DEF u
<1>2. CASE Knows(u, src)
  <2> DEFINE k == Place(u, src)
  <2>1. k \in DOMAIN u /\ t = [u EXCEPT ![k].fresh = TRUE]
    BY <1>2, PlaceOf DEF Heard, routUpdateLastHeard
  <2> HIDE DEF k
  <2>2. t # <<>> /\ t[1] = IF k = 1 THEN [u[1] EXCEPT !.fresh = TRUE] ELSE u[1]
    <3>1. t \in Seq(GoodEntries(net, r)) /\ DOMAIN t = DOMAIN u
      BY <1>0, <2>1, GrownBySample DEF Grown, u
    <3>2. t # <<>>
      BY <1>0, <3>1
    <3>3. t[1] = IF k = 1 THEN [u[1] EXCEPT !.fresh = TRUE] ELSE u[1]
      BY <1>0, <2>1
    <3> QED
      BY <3>2, <3>3
  <2>3. /\ t[1].fresh /\ t[1].distance = u[1].distance
        /\ t[1].remotePBE = u[1].remotePBE
    BY <1>0, <1>1, <2>2 DEF EntryType
  <2>4. getDistance(t[1]) = getDistance(u[1])
    BY <2>3, DistanceIgnoresFresh
  <2> QED
    BY <1>0, <2>2, <2>3, <2>4 DEF Usable, u
<1>3. CASE ~Knows(u, src)
  <2> DEFINE e == Entry(src, UNREACHABLE, WORST_QUALITY)
             k == InsertPlace(u, e)
  <2>1. t = InsertAt(u, k, e)
    BY <1>3 DEF Heard, routInsertOrUpdateEntry, routRemoveEntry, Inserted
  <2>2. getDistance(e) = UNREACHABLE
    BY DEF getDistance, Entry
  <2>3. e \in GoodEntries(net, r)
    <3>1. UNREACHABLE \in Distances /\ WORST_QUALITY \in Rates
      BY TableAssumption DEF Distances, Rates
    <3>2. AllAcceptable(net) => net.best[src] <= UNREACHABLE
      BY NetOf, TableAssumption DEF Distances
    <3> QED
      BY <3>1, <3>2, NewEntry
  <2> HIDE DEF e
  <2>4. /\ k \in 1 .. Len(u) + 1 /\ Len(u) \in Nat
        /\ k <= Len(u) => ~Passed(u, e, k)
    BY <1>0, InsertPlaceOf
  <2>5. Passed(u, e, 1)
    <3>1. getDistance(u[1]) \in 0 .. UNREACHABLE
      BY <1>1, EntriesMeasured DEF Distances
    <3>2. getDistance(u[1]) < getDistance(e)
      BY <1>0, <2>2, <3>1, TableAssumption DEF Usable
    <3> QED
      BY <3>2 DEF Passed
  <2> HIDE DEF k, t
  <2>6. k > 1 /\ Len(u) >= 1
    BY <1>0, <2>4, <2>5
  <2>7. /\ InsertAt(u, k, e) \in Seq(GoodEntries(net, r))
        /\ Len(InsertAt(u, k, e)) = Len(u) + 1
        /\ InsertAt(u, k, e)[1] = u[1]
    BY <1>0, <2>3, <2>4, <2>6, InsertAtOf
  <2>8. t # <<>> /\ t[1] = u[1]
    BY <2>1, <2>4, <2>7
  <2> QED
    BY <1>0, <2>8 DEF t, u
<1> QED
  BY <1>2, <1>3

(* A slave that knows its best path and hears the next hop on it, and has a
   path, has one to send a sample on to. *)
LEMMA RelayHasHop ==
  ASSUME IInv, Settled, HopsHeard, NEW r \in Slaves, network.best[r] # UNREACHABLE,
         NEW src \in Nodes
  PROVE  getBestHop(Heard(table[r], src)) # NoHop
<1> DEFINE t == Heard(table[r], src)
<1>1. /\ r \in Nodes /\ network \in Networks /\ GoodTables(network, table)
      /\ FirstDistance(table[r]) = network.best[r]
      /\ table[r] # <<>> => table[r][1].fresh
  BY DEF IInv, Slaves, Settled, HopsHeard
<1>2. table[r] # <<>> /\ Usable(table[r][1])
  BY <1>1 DEF FirstDistance, Usable
<1>3. t # <<>> /\ t[1].fresh /\ Usable(t[1])
  BY <1>1, <1>2, HeadStays
<1>4. t \in Seq(GoodEntries(network, r)) /\ InOrder(t)
  BY <1>1, GrownBySample DEF Grown
<1> HIDE DEF t
<1>5. Unexpired(t) = t
  BY <1>3, <1>4, UnexpiredOf
<1>6. getBestHop(t) = t[1].ip
  BY <1>3, <1>5 DEF getBestHop, HeadHop
<1>7. t[1].ip \in Nodes
  <2>1. t[1] \in GoodEntries(network, r)
    BY <1>3, <1>4
  <2> QED
    BY <2>1 DEF GoodEntries, EntryType
<1> QED
  BY <1>6, <1>7, NetAssumption DEF t

(* How a step moves the samples. *)
Moves(x) == Somewhere(x)' \/ x \in ToSet(internal')

LEMMA HeldStays ==
  ASSUME IInv, NEW x, Held(x),
         \/ sending' = sending
         \/ \E m : sending' = [sending EXCEPT ![m].freed = TRUE]
         \/ \E m, v : sending[m] = Idle /\ sending' = [sending EXCEPT ![m] = v]
  PROVE  Held(x)'
<1>0. PICK n \in Slaves : sending[n] # Idle /\ sending[n].sample = x
  BY DEF Held
<1>1. sending \in [Slaves -> {Idle} \cup SendingType] /\ sending[n] \in SendingType
  BY <1>0 DEF IInv, SamplesGood
<1>2. SUFFICES sending'[n] # Idle /\ sending'[n].sample = x
  BY DEF Held
<1>3. CASE sending' = sending
  BY <1>0, <1>3
<1>4. ASSUME NEW m, sending' = [sending EXCEPT ![m].freed = TRUE]
      PROVE  sending'[n] # Idle /\ sending'[n].sample = x
  <2>1. CASE m = n
    <3>1. sending'[n] = [sending[n] EXCEPT !.freed = TRUE]
      BY <1>1, <1>4, <2>1
    <3>2. sending'[n] \in SendingType /\ sending'[n].sample = x
      BY <1>0, <1>1, <3>1 DEF SendingType
    <3>3. Idle \notin SendingType
      BY NetAssumption DEF SendingType, SampleType
    <3> QED
      BY <3>2, <3>3
  <2>2. CASE m # n
    <3>1. sending'[n] = sending[n]
      BY <1>1, <1>4, <2>2
    <3> QED
      BY <1>0, <3>1
  <2> QED
    BY <2>1, <2>2
<1>5. ASSUME NEW m, NEW v, sending[m] = Idle, sending' = [sending EXCEPT ![m] = v]
      PROVE  sending'[n] # Idle /\ sending'[n].sample = x
  <2>1. m # n
    BY <1>0, <1>5
  <2>2. sending'[n] = sending[n]
    BY <1>1, <1>5, <2>1
  <2> QED
    BY <1>0, <2>2
<1> QED
  BY <1>3, <1>4, <1>5

LEMMA FlyingStays ==
  ASSUME IInv, NEW l \in Links, NEW f, Flying(f, l),
         \/ channel' = channel
         \/ \E s, g : channel' = Broadcast(s, g, channel)
         \/ \E k \in Links :
              /\ ~(k = l /\ f = Head(channel[l])) /\ channel[k] # <<>>
              /\ \/ channel' = Taken(k)
                 \/ \E s, g : channel' = Broadcast(s, g, Taken(k))
                 \/ \E s, r, g : channel' = Unicast(s, r, g, Taken(k))
  PROVE  Flying(f, l)'
<1>1. Carried(channel, f, l) /\ f.type = "SD" /\ f.next = l[2]
  BY DEF Flying
<1>2. SUFFICES Carried(channel', f, l)
  BY <1>1 DEF Flying, Carried
<1>3. channel \in [Links -> Seq(FrameType)]
  BY DEF IInv, Carries, Links
<1>4. CASE channel' = channel
  BY <1>1, <1>4
<1>5. ASSUME NEW s, NEW g, channel' = Broadcast(s, g, channel)
      PROVE  Carried(channel', f, l)
  BY <1>1, <1>3, <1>5, CarriedOn
<1>6. ASSUME NEW k \in Links, ~(k = l /\ f = Head(channel[l])), channel[k] # <<>>,
             \/ channel' = Taken(k)
             \/ \E s, g : channel' = Broadcast(s, g, Taken(k))
             \/ \E s, r, g : channel' = Unicast(s, r, g, Taken(k))
      PROVE  Carried(channel', f, l)
  <2>1. Carried(Taken(k), f, l)
    BY <1>1, <1>3, <1>6, CarriedOn DEF Taken
  <2>2. Taken(k) \in [Links -> Seq(FrameType)]
    <3>1. channel[k] \in Seq(FrameType) /\ channel[k] # <<>>
      BY <1>3, <1>6
    <3>2. Tail(channel[k]) \in Seq(FrameType)
      BY <3>1
    <3> QED
      BY <1>3, <3>2 DEF Taken
  <2> DEFINE ch == Taken(k)
  <2>3. ch \in [Links -> Seq(FrameType)] /\ Carried(ch, f, l)
    BY <2>1, <2>2
  <2>4. \/ channel' = ch
        \/ \E s, g : channel' = Broadcast(s, g, ch)
        \/ \E s, r, g : channel' = Unicast(s, r, g, ch)
    BY <1>6
  <2> HIDE DEF ch
  <2> QED
    BY <2>3, <2>4, CarriedOn
<1> QED
  BY <1>4, <1>5, <1>6

(* A sample is sent on to a next hop. *)
LEMMA SentOn ==
  ASSUME IInv, network' = network, NEW n, NEW hop, GoodHop(network, n, hop), NEW sample,
         NEW ch \in [Links -> Seq(FrameType)], channel' = Broadcast(n, SD(sample, hop), ch)
  PROVE  Somewhere(sample)'
<1> DEFINE l == <<n, hop>>
           f == SD(sample, hop)
<1>1. l \in Links /\ l[1] = n /\ l[2] = hop /\ Links' = Links
  BY DEF GoodHop, Links
<1>2. f.type = "SD" /\ f.next = hop /\ f.sample = sample
  BY DEF SD
<1> HIDE DEF l, f
<1>3. channel' = Broadcast(l[1], f, ch)
  BY <1>1 DEF f
<1>4. Carried(channel', f, l)
  BY <1>1, <1>3, BroadcastCarried
<1>5. Flying(f, l)'
  BY <1>1, <1>2, <1>4 DEF Flying, Carried
<1> QED
  BY <1>1, <1>2, <1>5 DEF Somewhere

LEMMA FreedKind ==
  ASSUME NEW n, NEW ip, Freed(n, ip)
  PROVE  \/ sending' = sending
         \/ \E m : sending' = [sending EXCEPT ![m].freed = TRUE]
BY DEF Freed

(* What the listener of r does to the samples when a frame comes. *)
LEMMA ReceiveMoves ==
  ASSUME IInv, Steady, network' = network, NEW k \in Links, Receive(k[1], k[2]),
         NEW x, Somewhere(x), ~Misled(x)
  PROVE  Moves(x)
<1> DEFINE s == k[1]
           r == k[2]
           frame == Head(channel[k])
<1>0. k = <<s, r>> /\ s \in Nodes /\ r \in Nodes
  BY NetOf DEF IInv, Links
<1>1. Receive(s, r)
  OBVIOUS
<1> HIDE DEF s, r
<1>2. /\ PR_RX(s, r) \/ PB_RX(s, r) \/ PC_RX(s, r) \/ PC_RX_Crash(s, r)
           => frame.type # "SD"
      /\ SD_RX_Ignored(s, r) \/ SD_RX_Relay(s, r) \/ (r = Master /\ SD_RX_Master(s))
           => /\ frame.type = "SD"
              /\ Arrives(s, r, "SD")
  BY <1>0 DEF PB_RX, PR_RX, PC_RX, PC_RX_Crash, SD_RX_Ignored, SD_RX_Relay, SD_RX_Master, Arrives
<1>3. channel[k] # <<>>
  BY <1>0, <1>1 DEF Receive, PB_RX, PR_RX, PC_RX, PC_RX_Crash, SD_RX_Ignored, SD_RX_Relay,
                    SD_RX_Master, Arrives
<1>4. \/ sending' = sending
      \/ \E m : sending' = [sending EXCEPT ![m].freed = TRUE]
  <2>1. \/ sending' = sending
        \/ Freed(r, s)
        \/ \E m : sending' = [sending EXCEPT ![m].freed = TRUE]
    BY <1>0, <1>1 DEF Receive, PB_RX, PR_RX, PC_RX, PC_RX_Crash, SD_RX_Ignored, SD_RX_Relay,
                      SD_RX_Master, samples
  <2> QED
    BY <2>1, FreedKind
<1>5. \/ channel' = Taken(k)
      \/ \E n, g : channel' = Broadcast(n, g, Taken(k))
      \/ \E n, m, g : channel' = Unicast(n, m, g, Taken(k))
  BY <1>0, <1>1 DEF Receive, PB_RX, PR_RX, PC_RX, PC_RX_Crash, SD_RX_Ignored, SD_RX_Relay,
                    SD_RX_Master
<1>6. CASE Held(x)
  BY <1>4, <1>6, HeldStays DEF Moves, Somewhere
<1>7. ASSUME NEW l \in Links, NEW f, Flying(f, l), f.sample = x, ~(k = l /\ f = frame)
      PROVE  Moves(x)
  <2>1. Flying(f, l)'
    BY <1>3, <1>5, <1>7, FlyingStays
  <2>2. l \in Links'
    BY DEF Links
  <2> QED
    BY <1>7, <2>1, <2>2 DEF Moves, Somewhere
<1>8. ASSUME Flying(frame, k), frame.sample = x
      PROVE  Moves(x)
  <2>1. frame.type = "SD" /\ frame.next = r
    BY <1>8 DEF Flying, r
  <2>2. ~SD_RX_Ignored(s, r)
    <3>1. status[r] # "Outside"
      BY <1>0 DEF IInv, StatusGood, Steady, Slaves
    <3> QED
      BY <1>0, <2>1, <3>1 DEF SD_RX_Ignored
  <2>3. CASE r = Master /\ SD_RX_Master(s)
    <3>1. internal' = Append(internal, x)
      BY <1>0, <1>8, <2>3 DEF SD_RX_Master
    <3>2. internal \in Seq(SampleType \cup {InBuffer})
      BY DEF IInv, HardwareTyped
    <3>3. Len(internal) + 1 \in DOMAIN internal' /\ internal'[Len(internal) + 1] = x
      BY <3>1, <3>2, AppendCarries
    <3> QED
      BY <3>3 DEF Moves, ToSet
  <2>4. CASE SD_RX_Relay(s, r)
    <3> DEFINE t == Heard(table[r], x.source)
               hop == getBestHop(t)
    <3>1. /\ r \in Slaves /\ Arrives(s, r, "SD")
          /\ channel' = IF hop = NoHop THEN Taken(k)
                        ELSE Broadcast(r, SD(x, hop), Taken(k))
      BY <1>0, <1>8, <2>4 DEF SD_RX_Relay
    <3>2. Grown(network, table, r, t)
      BY <1>0, <1>8, <3>1, SampleHeard
    <3>3. hop # NoHop => GoodHop(network, r, hop)
      BY <3>2, HopOf DEF IInv
    <3>4. hop # NoHop
      <4>1. frame \in FrameType /\ 1 \in DOMAIN channel[k] /\ channel[k][1] = frame
        <5>1. frame \in GoodFrames(network, Acquainted(network, table), k)
          BY <1>0, <1>3, Arrived
        <5>2. channel[k] \in Seq(FrameType)
          BY DEF IInv, Carries, Links
        <5> QED
          BY <1>3, <5>1, <5>2 DEF GoodFrames
      <4>2. frame = SD(x, r) /\ x \in SampleType
        BY <1>8, <2>1, <4>1 DEF FrameType, SD
      <4>3. network.best[r] # UNREACHABLE
        BY <4>1, <4>2 DEF Misled, r
      <4>4. x.source \in Nodes
        BY <4>2 DEF SampleType
      <4> QED
        BY <3>1, <4>3, <4>4, RelayHasHop DEF Steady
    <3> HIDE DEF hop
    <3>5. Taken(k) \in [Links -> Seq(FrameType)]
      BY <1>0, <1>3, Arrived DEF Carries, Links
    <3>6. channel' = Broadcast(r, SD(x, hop), Taken(k))
      BY <3>1, <3>4
    <3> QED
      BY <3>3, <3>4, <3>5, <3>6, SentOn DEF Moves
  <2> QED
    BY <1>1, <1>2, <2>1, <2>2, <2>3, <2>4 DEF Receive
<1> HIDE DEF frame
<1> QED
  BY <1>6, <1>7, <1>8 DEF Somewhere

LEMMA StepMoves ==
  ASSUME IInv, Steady, Next, trouble' = trouble, NEW x, Somewhere(x), ~Misled(x)
  PROVE  Moves(x)
<1>0. /\ trouble \in Nat /\ channel \in [Links -> Seq(FrameType)]
  BY DEF IInv, TroubleTyped, Carries, Links
<1>1. ASSUME network' = network,
             \/ channel' = channel
             \/ \E s, g : channel' = Broadcast(s, g, channel),
             \/ sending' = sending
             \/ \E m, v : sending[m] = Idle /\ sending' = [sending EXCEPT ![m] = v]
      PROVE  Moves(x)
  <2>1. CASE Held(x)
    BY <1>1, <2>1, HeldStays DEF Moves, Somewhere
  <2>2. ASSUME NEW l \in Links, NEW f, Flying(f, l), f.sample = x
        PROVE  Moves(x)
    <3>1. Flying(f, l)' /\ l \in Links'
      BY <1>1, <2>2, FlyingStays DEF Links
    <3> QED
      BY <2>2, <3>1 DEF Moves, Somewhere
  <2> QED
    BY <2>1, <2>2 DEF Somewhere
<1>2. ASSUME NEW n \in Slaves, SD_TX_Send(n)
      PROVE  Moves(x)
  <2> DEFINE hop == sending[n].hop
             sample == sending[n].sample
  <2>1. /\ network' = network /\ sending[n] # Idle /\ sending' = [sending EXCEPT ![n] = Idle]
        /\ \E next : /\ next = hop \/ sending[n].freed
                     /\ channel' = Broadcast(n, SD(sample, next), channel)
    BY <1>2 DEF SD_TX_Send
  <2>2. GoodHop(network, n, hop)
    BY <2>1 DEF IInv, SamplesGood
  <2>3. CASE x = sample
    <3>1. channel' = Broadcast(n, SD(sample, hop), channel)
      BY <2>1, <2>3 DEF Misled
    <3> QED
      BY <1>0, <2>1, <2>2, <2>3, <3>1, SentOn DEF Moves
  <2>4. ASSUME NEW m \in Slaves, m # n, sending[m] # Idle, sending[m].sample = x
        PROVE  Moves(x)
    <3>1. sending'[m] = sending[m]
      BY <2>1, <2>4 DEF IInv, SamplesGood
    <3> QED
      BY <2>4, <3>1 DEF Moves, Somewhere, Held
  <2>5. ASSUME NEW l \in Links, NEW f, Flying(f, l), f.sample = x
        PROVE  Moves(x)
    <3>1. Flying(f, l)' /\ l \in Links'
      BY <2>1, <2>5, FlyingStays DEF Links
    <3> QED
      BY <2>5, <3>1 DEF Moves, Somewhere
  <2> QED
    BY <2>3, <2>4, <2>5 DEF Somewhere, Held
<1>3. ASSUME NEW n \in Slaves, SD_TX(n)
      PROVE  Moves(x)
  <2>1. /\ network' = network /\ channel' = channel /\ sending[n] = Idle
        /\ \E v : sending' = [sending EXCEPT ![n] = v]
    BY <1>3 DEF SD_TX, Restarted
  <2> QED
    BY <1>1, <2>1
<1>4. ASSUME NEW n \in Slaves, Enter(n)
      PROVE  Moves(x)
  BY <1>1, <1>4 DEF Enter, samples
<1>5. ASSUME NEW n \in Nodes, PB_Retransmit(n)
      PROVE  Moves(x)
  BY <1>1, <1>5 DEF PB_Retransmit, samples
<1>6. CASE WS_listener_Copy \/ WS_listener_Queue \/ HW_dispatcher
  BY <1>1, <1>6 DEF WS_listener_Copy, WS_listener_Queue, HW_dispatcher, samples
<1>7. ~Fault
  BY <1>0 DEF Fault
<1>8. ASSUME NEW l \in Links, Receive(l[1], l[2])
      PROVE  Moves(x)
  <2>1. network' = network
    BY <1>8 DEF Receive, PB_RX, PR_RX, PC_RX, PC_RX_Crash, SD_RX_Ignored, SD_RX_Relay,
                SD_RX_Master
  <2> QED
    BY <1>8, <2>1, ReceiveMoves
<1> QED
  BY <1>2, <1>3, <1>4, <1>5, <1>6, <1>7, <1>8 DEF Next, Restart, Lose, Silence

(* Once every slave is inside, knows its best path and hears the next hop on it,
   a sample that is under way is dropped only by a fault of that very step or
   because its next hop was read from an entry that the listener freed, whatever
   went wrong before: SD_RX picks the next hop anew and finds one (getBestHop),
   and the pointer that SD_TX holds is good unless it was freed. *)
THEOREM SamplesDropOnlyInFlux == Spec => DroppedInFlux
<1>1. IInv /\ [Next]_vars =>
        [\A x \in UnderWay :
           \/ x \in UnderWay' \/ x \in ToSet(internal')
           \/ trouble' # trouble \/ ~Steady \/ Misled(x)]_vars
  <2> SUFFICES ASSUME IInv, Next, NEW x \in UnderWay, trouble' = trouble, Steady, ~Misled(x)
               PROVE  x \in UnderWay' \/ x \in ToSet(internal')
    OBVIOUS
  <2>1. Somewhere(x)
    BY UnderWayIs
  <2>2. Moves(x)
    BY <2>1, StepMoves
  <2>3. Somewhere(x)' => x \in UnderWay'
    BY UnderWayWillBe
  <2> QED
    BY <2>2, <2>3 DEF Moves
<1> QED
  BY <1>1, Invariant, PTL DEF Spec, DroppedInFlux

-----------------------------------------------------------------------------
(* What the hardware is given, against SampleDelivery.  A sample of a slave is
   in one place only: with the WS listener of the slave that took it (Held), on
   one frame that a node still accepts, in InternalQueue, or delivered. *)

Loaded(f, l, x) == f.type = "SD" /\ f.next = l[2] /\ f.sample = x

InAir(ch, x) == \E l \in DOMAIN ch : \E i \in DOMAIN ch[l] : Loaded(ch[l][i], l, x)

OnceInAir(ch) ==
  \A x : \A l \in DOMAIN ch, k \in DOMAIN ch :
    \A i \in DOMAIN ch[l], j \in DOMAIN ch[k] :
      Loaded(ch[l][i], l, x) /\ Loaded(ch[k][j], k, x) => l = k /\ i = j

Queued(q, x) == \E i \in DOMAIN q : q[i] = x

OnceQueued(q) ==
  \A i \in DOMAIN q, j \in DOMAIN q : q[i] = q[j] /\ q[i] # InBuffer => i = j

KeptByItsSource == \A n \in Slaves : sending[n] # Idle => sending[n].sample.source = n

UnderWayOrQueued(x) == Held(x) \/ InAir(channel, x) \/ Queued(internal, x)

InOnePlace ==
  \A x \in SampleType :
    /\ ~(Held(x) /\ InAir(channel, x))
    /\ ~(Held(x) /\ Queued(internal, x))
    /\ ~(InAir(channel, x) /\ Queued(internal, x))
    /\ UnderWayOrQueued(x) => ~Queued(delivered, x)

(* Only slaves send samples, and none is given that was not taken. *)
Genuine(x) == x.source \in Slaves /\ x.number \in 1 .. taken[x.source]

NoneInvented ==
  \A x \in SampleType :
    /\ UnderWayOrQueued(x) => Genuine(x)
    /\ Queued(delivered, x) =>
         IF x.source = Master THEN x.number = Mixed \/ x.number \in 0 .. taken[Master]
         ELSE Genuine(x)

(* Each sample of the master is copied, queued as a pointer or delivered. *)
At(s, V) == {i \in DOMAIN s : s[i] \in V}

OfMaster == {x \in SampleType : x.source = Master}

OneDeliveryEach ==
  Cardinality(At(delivered, OfMaster)) + Cardinality(At(internal, {InBuffer}))
    + (IF copying THEN 1 ELSE 0) = taken[Master]

DeliveryInv ==
  /\ KeptByItsSource
  /\ OnceInAir(channel)
  /\ OnceQueued(internal)
  /\ InOnePlace
  /\ NoneInvented
  /\ OneDeliveryEach

-----------------------------------------------------------------------------
(* Counting places in a sequence. *)

LEMMA AtFinite ==
  ASSUME NEW S, NEW s \in Seq(S), NEW V
  PROVE  IsFiniteSet(At(s, V)) /\ Cardinality(At(s, V)) \in Nat
<1>1. IsFiniteSet(1 .. Len(s))
  BY FS_Interval
<1>2. At(s, V) \in SUBSET (1 .. Len(s))
  BY DEF At
<1>3. IsFiniteSet(At(s, V))
  BY <1>1, <1>2, FS_Subset
<1> QED
  BY <1>3, FS_CardinalityType

LEMMA AtAppend ==
  ASSUME NEW S, NEW s \in Seq(S), NEW V, NEW x \in S
  PROVE  Cardinality(At(Append(s, x), V)) =
           Cardinality(At(s, V)) + (IF x \in V THEN 1 ELSE 0)
<1> DEFINE n == Len(s) + 1
           t == Append(s, x)
<1>1. /\ Len(s) \in Nat /\ DOMAIN s = 1 .. Len(s)
      /\ DOMAIN t = 1 .. n /\ t[n] = x /\ \A i \in 1 .. Len(s) : t[i] = s[i]
  OBVIOUS
<1> HIDE DEF t
<1>2. n \notin At(s, V)
  BY <1>1 DEF At
<1>3. 1 .. n = (1 .. Len(s)) \cup {n}
  BY <1>1
<1>4. IsFiniteSet(At(s, V)) /\ Cardinality(At(s, V)) \in Nat
  BY AtFinite
<1>5. CASE x \in V
  <2>1. At(t, V) = At(s, V) \cup {n}
    BY <1>1, <1>3, <1>5 DEF At
  <2>2. Cardinality(At(s, V) \cup {n}) = Cardinality(At(s, V)) + 1
    BY <1>2, <1>4, FS_AddElement
  <2> QED
    BY <1>5, <2>1, <2>2 DEF t
<1>6. CASE x \notin V
  <2>1. At(t, V) = At(s, V)
    BY <1>1, <1>3, <1>6 DEF At
  <2> QED
    BY <1>4, <1>6, <2>1 DEF t
<1> QED
  BY <1>5, <1>6

LEMMA AtTail ==
  ASSUME NEW S, NEW s \in Seq(S), s # <<>>, NEW V
  PROVE  Cardinality(At(s, V)) =
           Cardinality(At(Tail(s), V)) + (IF Head(s) \in V THEN 1 ELSE 0)
<1> DEFINE t == Tail(s)
           A == At(t, V)
           B == At(s, V) \ {1}
           f == [i \in A |-> i + 1]
<1>1. /\ Len(s) \in Nat /\ Len(s) >= 1 /\ DOMAIN s = 1 .. Len(s) /\ Head(s) = s[1]
      /\ t \in Seq(S) /\ DOMAIN t = 1 .. (Len(s) - 1)
      /\ \A i \in 1 .. (Len(s) - 1) : t[i] = s[i + 1]
  OBVIOUS
<1> HIDE DEF t
<1>2. A = {i \in 1 .. (Len(s) - 1) : s[i + 1] \in V}
  BY <1>1 DEF At
<1>3. B = {i \in 2 .. Len(s) : s[i] \in V}
  BY <1>1 DEF At
<1>4. ExistsBijection(A, B)
  <2>1. \A i \in A : i \in Int /\ i + 1 \in B
    BY <1>1, <1>2, <1>3
  <2>2. f \in [A -> B]
    BY <2>1
  <2>3. \A i \in A, j \in A : f[i] = f[j] => i = j
    BY <2>1
  <2>4. \A j \in B : j - 1 \in A /\ f[j - 1] = j
    BY <1>1, <1>2, <1>3
  <2> HIDE DEF A, B, f
  <2>5. f \in Bijection(A, B)
    BY <2>2, <2>3, <2>4 DEF Bijection, Injection, Surjection, IsInjective
  <2> QED
    BY <2>5 DEF ExistsBijection
<1>5. IsFiniteSet(A) /\ IsFiniteSet(At(s, V)) /\ Cardinality(At(s, V)) \in Nat
  BY <1>1, AtFinite
<1>6. Cardinality(A) = Cardinality(B)
  BY <1>4, <1>5, FS_Bijection
<1>7. Cardinality(B) = IF 1 \in At(s, V) THEN Cardinality(At(s, V)) - 1
                       ELSE Cardinality(At(s, V))
  BY <1>5, FS_RemoveElement
<1>8. 1 \in At(s, V) <=> Head(s) \in V
  BY <1>1 DEF At
<1>9. A = At(Tail(s), V)
  BY DEF t
<1> HIDE DEF A, B, f
<1> QED
  BY <1>5, <1>6, <1>7, <1>8, <1>9

-----------------------------------------------------------------------------
(* Samples in the air. *)

LEMMA AirTaken ==
  ASSUME NEW L, NEW ch \in [L -> Seq(FrameType)], OnceInAir(ch), NEW l \in L, ch[l] # <<>>
  PROVE  LET less == [ch EXCEPT ![l] = Tail(@)]
         IN  /\ OnceInAir(less)
             /\ \A x : InAir(less, x) => InAir(ch, x)
             /\ \A x : Loaded(Head(ch[l]), l, x) => InAir(ch, x) /\ ~InAir(less, x)
<1> DEFINE less == [ch EXCEPT ![l] = Tail(@)]
           was(k, i) == IF k = l THEN i + 1 ELSE i
<1>1. /\ DOMAIN ch = L /\ DOMAIN less = L
      /\ less[l] = Tail(ch[l]) /\ \A k \in L : k # l => less[k] = ch[k]
      /\ \A k \in L : ch[k] \in Seq(FrameType)
  OBVIOUS
<1>2. /\ Head(ch[l]) = ch[l][1] /\ 1 \in DOMAIN ch[l]
      /\ \A i \in DOMAIN less[l] :
           i \in Nat /\ i >= 1 /\ i + 1 \in DOMAIN ch[l] /\ less[l][i] = ch[l][i + 1]
  BY <1>1
<1> HIDE DEF less
<1>3. \A k \in L : \A i \in DOMAIN less[k] :
        /\ i \in Nat /\ was(k, i) \in DOMAIN ch[k] /\ less[k][i] = ch[k][was(k, i)]
        /\ k = l => was(k, i) > 1
  BY <1>1, <1>2
<1>4. \A k \in L : \A i \in DOMAIN less[k], j \in DOMAIN less[k] : was(k, i) = was(k, j) => i = j
  BY <1>3
<1> HIDE DEF was
<1>5. OnceInAir(less)
  <2> SUFFICES ASSUME NEW x, NEW k \in L, NEW h \in L, NEW i \in DOMAIN less[k], NEW j \in DOMAIN less[h],
                      Loaded(less[k][i], k, x), Loaded(less[h][j], h, x)
               PROVE  k = h /\ i = j
    BY <1>1 DEF OnceInAir
  <2>1. k = h /\ was(k, i) = was(h, j)
    BY <1>1, <1>3 DEF OnceInAir
  <2> QED
    BY <1>4, <2>1
<1>6. \A x : InAir(less, x) => InAir(ch, x)
  BY <1>1, <1>3 DEF InAir
<1>7. ASSUME NEW x, Loaded(Head(ch[l]), l, x)
      PROVE  InAir(ch, x) /\ ~InAir(less, x)
  <2>1. InAir(ch, x)
    BY <1>1, <1>2, <1>7 DEF InAir
  <2>2. ASSUME NEW k \in L, NEW i \in DOMAIN less[k], Loaded(less[k][i], k, x)
        PROVE  FALSE
    <3>1. k = l /\ was(k, i) = 1
      BY <1>1, <1>2, <1>3, <1>7, <2>2 DEF OnceInAir
    <3> QED
      BY <1>3, <3>1
  <2> QED
    BY <1>1, <2>1, <2>2 DEF InAir
<1> QED
  BY <1>5, <1>6, <1>7 DEF less

(* A frame f is put on the links of T. *)
Put(f, T, ch) == [k \in DOMAIN ch |-> IF k \in T THEN Append(ch[k], f) ELSE ch[k]]

(* No sample of f is in the air, and f is accepted at the end of one link at
   most. *)
New(f, T, ch) ==
  /\ \A k \in DOMAIN ch \cap T : \A x : Loaded(f, k, x) => ~InAir(ch, x)
  /\ \A k \in DOMAIN ch \cap T, h \in DOMAIN ch \cap T :
       \A x : Loaded(f, k, x) /\ Loaded(f, h, x) => k = h

LEMMA AirAdded ==
  ASSUME NEW L, NEW ch \in [L -> Seq(FrameType)], OnceInAir(ch), NEW f, NEW T, New(f, T, ch)
  PROVE  /\ OnceInAir(Put(f, T, ch))
         /\ \A x : InAir(Put(f, T, ch), x) => InAir(ch, x) \/ \E k \in L \cap T : Loaded(f, k, x)
<1> DEFINE more == Put(f, T, ch)
<1>0. /\ DOMAIN more = L
      /\ \A k \in L : more[k] = IF k \in T THEN Append(ch[k], f) ELSE ch[k]
      /\ \A k \in L \cap T : \A x : Loaded(f, k, x) => ~InAir(ch, x)
      /\ \A k \in L \cap T, h \in L \cap T : \A x : Loaded(f, k, x) /\ Loaded(f, h, x) => k = h
  BY DEF Put, New
<1> HIDE DEF more
<1>1. DOMAIN ch = L /\ \A k \in L : ch[k] \in Seq(FrameType)
  OBVIOUS
<1>2. ASSUME NEW k \in L, NEW i \in DOMAIN more[k]
      PROVE  \/ i \in DOMAIN ch[k] /\ more[k][i] = ch[k][i]
             \/ k \in T /\ i = Len(ch[k]) + 1 /\ more[k][i] = f
  <2>1. CASE k \in T
    <3>1. more[k] = Append(ch[k], f) /\ ch[k] \in Seq(FrameType)
      BY <1>0, <1>1, <2>1
    <3>2. i \in 1 .. Len(ch[k]) + 1 /\ Len(ch[k]) \in Nat /\ DOMAIN ch[k] = 1 .. Len(ch[k])
      BY <3>1
    <3>3. CASE i = Len(ch[k]) + 1
      BY <2>1, <3>1, <3>2, <3>3
    <3>4. CASE i \in 1 .. Len(ch[k])
      BY <3>1, <3>2, <3>4
    <3> QED
      BY <3>2, <3>3, <3>4
  <2>2. CASE k \notin T
    BY <1>0, <2>2
  <2> QED
    BY <2>1, <2>2
<1>3. OnceInAir(more)
  <2> SUFFICES ASSUME NEW x, NEW k \in L, NEW h \in L, NEW i \in DOMAIN more[k], NEW j \in DOMAIN more[h],
                      Loaded(more[k][i], k, x), Loaded(more[h][j], h, x)
               PROVE  k = h /\ i = j
    BY <1>0 DEF OnceInAir
  <2>1. CASE i \in DOMAIN ch[k] /\ more[k][i] = ch[k][i] /\ j \in DOMAIN ch[h] /\ more[h][j] = ch[h][j]
    BY <1>1, <2>1 DEF OnceInAir
  <2>2. CASE i \in DOMAIN ch[k] /\ more[k][i] = ch[k][i] /\ h \in T /\ more[h][j] = f
    BY <1>0, <1>1, <2>2 DEF InAir
  <2>3. CASE k \in T /\ more[k][i] = f /\ j \in DOMAIN ch[h] /\ more[h][j] = ch[h][j]
    BY <1>0, <1>1, <2>3 DEF InAir
  <2>4. CASE /\ k \in T /\ i = Len(ch[k]) + 1 /\ more[k][i] = f
             /\ h \in T /\ j = Len(ch[h]) + 1 /\ more[h][j] = f
    BY <1>0, <2>4
  <2> QED
    BY <1>2, <2>1, <2>2, <2>3, <2>4
<1>4. ASSUME NEW x, InAir(more, x)
      PROVE  InAir(ch, x) \/ \E k \in L \cap T : Loaded(f, k, x)
  <2>1. PICK k \in L : \E i \in DOMAIN more[k] : Loaded(more[k][i], k, x)
    BY <1>0, <1>4 DEF InAir
  <2>2. PICK i \in DOMAIN more[k] : Loaded(more[k][i], k, x)
    BY <2>1
  <2> QED
    BY <1>0, <1>1, <1>2, <2>2 DEF InAir
<1> QED
  BY <1>3, <1>4 DEF more

LEMMA AirSame ==
  ASSUME NEW ch \in [Links -> Seq(FrameType)], OnceInAir(ch), NEW f, f.type # "SD", NEW s, NEW r
  PROVE  /\ OnceInAir(Broadcast(s, f, ch)) /\ OnceInAir(Unicast(s, r, f, ch))
         /\ \A x : InAir(Broadcast(s, f, ch), x) \/ InAir(Unicast(s, r, f, ch), x) => InAir(ch, x)
<1>1. \A k, x : ~Loaded(f, k, x)
  BY DEF Loaded
<1>2. ASSUME NEW T
      PROVE  OnceInAir(Put(f, T, ch)) /\ \A x : InAir(Put(f, T, ch), x) => InAir(ch, x)
  <2>1. New(f, T, ch)
    BY <1>1 DEF New
  <2> QED
    BY <1>1, <2>1, AirAdded
<1>3. Broadcast(s, f, ch) = Put(f, {k \in Links : k[1] = s}, ch)
  BY DEF Broadcast, Put
<1>4. Unicast(s, r, f, ch) = Put(f, {<<s, r>>}, ch)
  BY DEF Unicast, Put
<1> QED
  BY <1>2, <1>3, <1>4

LEMMA AirSent ==
  ASSUME IInv, NEW ch \in [Links -> Seq(FrameType)], OnceInAir(ch), NEW y, ~InAir(ch, y), NEW s, NEW next
  PROVE  /\ OnceInAir(Broadcast(s, SD(y, next), ch))
         /\ \A x : InAir(Broadcast(s, SD(y, next), ch), x) => InAir(ch, x) \/ x = y
<1> DEFINE T == {k \in Links : k[1] = s}
           f == SD(y, next)
<1>1. \A k, x : Loaded(f, k, x) => x = y /\ k[2] = next
  BY DEF Loaded, SD
<1>2. \A k \in Links \cap T : k = <<s, k[2]>>
  BY NetOf DEF IInv, Links
<1>3. New(f, T, ch)
  BY <1>1, <1>2 DEF New
<1>4. Broadcast(s, f, ch) = Put(f, T, ch)
  BY DEF Broadcast, Put
<1> HIDE DEF T, f
<1>5. /\ OnceInAir(Put(f, T, ch))
      /\ \A x : InAir(Put(f, T, ch), x) => InAir(ch, x) \/ \E k \in Links \cap T : Loaded(f, k, x)
  BY <1>3, AirAdded
<1> QED
  BY <1>1, <1>4, <1>5 DEF f

-----------------------------------------------------------------------------
(* How a step moves samples from place to place. *)

InAirNext(x)     == InAir(channel, x)'
QueuedNext(x)    == Queued(internal, x)'
DeliveredNext(x) == Queued(delivered, x)'

(* x enters no place. *)
Stays(x) ==
  /\ Held(x)' => Held(x)
  /\ InAirNext(x) => InAir(channel, x)
  /\ QueuedNext(x) => Queued(internal, x)
  /\ DeliveredNext(x) => Queued(delivered, x)

(* x, which was in one place, is in no more than one. *)
HandedOn(x) ==
  /\ UnderWayOrQueued(x)
  /\ ~(Held(x)' /\ InAirNext(x)) /\ ~(Held(x)' /\ QueuedNext(x))
  /\ ~(InAirNext(x) /\ QueuedNext(x))
  /\ Held(x)' \/ InAirNext(x) \/ QueuedNext(x) => ~DeliveredNext(x)

(* x is new. *)
TakenNow(x) == Genuine(x)' /\ ~InAirNext(x) /\ ~QueuedNext(x) /\ ~DeliveredNext(x)

(* x is what TotalSample holds. *)
FromBuffer(x) ==
  /\ x.source = Master
  /\ x.number = Mixed \/ x.number \in 0 .. taken[Master]
  /\ Held(x)' => Held(x)
  /\ InAirNext(x) => InAir(channel, x)
  /\ QueuedNext(x) => Queued(internal, x)

LEMMA PlacesKept ==
  ASSUME InOnePlace, NoneInvented, taken \in [Nodes -> Nat], taken' \in [Nodes -> Nat],
         \A n \in Nodes : taken[n] <= taken'[n],
         \A x \in SampleType : Stays(x) \/ HandedOn(x) \/ TakenNow(x) \/ FromBuffer(x)
  PROVE  InOnePlace' /\ NoneInvented'
<1>0. Master \in Nodes /\ Master \notin Slaves /\ Slaves \subseteq Nodes
      /\ \A x \in SampleType : x.source \in Slaves \/ x.source = Master
  BY NetAssumption DEF Slaves, SampleType
<1>1. \A x \in SampleType : Genuine(x) => Genuine(x)'
  <2> SUFFICES ASSUME NEW x \in SampleType, x.source \in Slaves, x.number \in 1 .. taken[x.source]
               PROVE  x.number \in 1 .. taken'[x.source]
    BY DEF Genuine
  <2>1. taken[x.source] \in Nat /\ taken'[x.source] \in Nat /\ taken[x.source] <= taken'[x.source]
    BY <1>0
  <2> QED
    BY <2>1
<1>2. 0 .. taken[Master] \subseteq 0 .. taken'[Master]
  <2>1. taken[Master] \in Nat /\ taken'[Master] \in Nat /\ taken[Master] <= taken'[Master]
    BY <1>0
  <2> QED
    BY <2>1
<1> DEFINE OneOf(x) == /\ ~(Held(x)' /\ InAirNext(x)) /\ ~(Held(x)' /\ QueuedNext(x))
                       /\ ~(InAirNext(x) /\ QueuedNext(x))
                       /\ Held(x)' \/ InAirNext(x) \/ QueuedNext(x) => ~DeliveredNext(x)
           True(x) == /\ Held(x)' \/ InAirNext(x) \/ QueuedNext(x) => Genuine(x)'
                      /\ DeliveredNext(x) =>
                           IF x.source = Master
                           THEN x.number = Mixed \/ x.number \in 0 .. taken'[Master]
                           ELSE Genuine(x)'
<1>3. ASSUME NEW x \in SampleType
      PROVE  OneOf(x) /\ True(x)
  <2>1. /\ ~(Held(x) /\ InAir(channel, x)) /\ ~(Held(x) /\ Queued(internal, x))
        /\ ~(InAir(channel, x) /\ Queued(internal, x))
        /\ UnderWayOrQueued(x) => ~Queued(delivered, x)
        /\ UnderWayOrQueued(x) => Genuine(x)
        /\ Queued(delivered, x) =>
             IF x.source = Master THEN x.number = Mixed \/ x.number \in 0 .. taken[Master]
             ELSE Genuine(x)
    BY DEF InOnePlace, NoneInvented
  <2>2. Genuine(x) => x.source # Master
    BY <1>0 DEF Genuine
  <2>3. Genuine(x)' => x.source # Master
    BY <1>0 DEF Genuine
  <2>4. Genuine(x) => Genuine(x)'
    BY <1>1
  <2>5. CASE Stays(x)
    BY <1>2, <2>1, <2>4, <2>5 DEF Stays, UnderWayOrQueued
  <2>6. CASE HandedOn(x)
    BY <2>1, <2>2, <2>4, <2>6 DEF HandedOn
  <2>7. CASE TakenNow(x)
    BY <2>3, <2>7 DEF TakenNow
  <2>8. CASE FromBuffer(x)
    BY <1>2, <2>1, <2>2, <2>8 DEF FromBuffer, UnderWayOrQueued
  <2> QED
    BY <2>5, <2>6, <2>7, <2>8
<1>4. InOnePlace'
  BY <1>3 DEF InOnePlace, UnderWayOrQueued, InAirNext, QueuedNext, DeliveredNext
<1>5. NoneInvented'
  BY <1>3 DEF NoneInvented, UnderWayOrQueued, InAirNext, QueuedNext, DeliveredNext
<1> QED
  BY <1>4, <1>5

LEMMA FewerHeld ==
  ASSUME IInv, KeptByItsSource,
         \/ sending' = sending
         \/ \E m \in Slaves : sending[m] # Idle /\ sending' = [sending EXCEPT ![m].freed = TRUE]
         \/ \E m \in Slaves : sending' = [sending EXCEPT ![m] = Idle]
  PROVE  KeptByItsSource' /\ \A x : Held(x)' => Held(x)
<1>1. sending \in [Slaves -> {Idle} \cup SendingType] /\ Idle \notin SendingType
  BY NetAssumption DEF IInv, SamplesGood, SendingType, SampleType
<1>2. ASSUME NEW n \in Slaves, sending'[n] # Idle
      PROVE  sending[n] # Idle /\ sending'[n].sample = sending[n].sample
  <2>1. CASE sending' = sending
    BY <1>2, <2>1
  <2>2. ASSUME NEW m \in Slaves, sending[m] # Idle, sending' = [sending EXCEPT ![m].freed = TRUE]
        PROVE  sending[n] # Idle /\ sending'[n].sample = sending[n].sample
    <3>1. CASE n = m
      <4>1. sending[n] \in SendingType /\ sending'[n] = [sending[n] EXCEPT !.freed = TRUE]
        BY <1>1, <2>2, <3>1
      <4> QED
        BY <1>1, <4>1 DEF SendingType
    <3>2. CASE n # m
      BY <1>1, <1>2, <2>2, <3>2
    <3> QED
      BY <3>1, <3>2
  <2>3. ASSUME NEW m \in Slaves, sending' = [sending EXCEPT ![m] = Idle]
        PROVE  sending[n] # Idle /\ sending'[n].sample = sending[n].sample
    BY <1>1, <1>2, <2>3
  <2> QED
    BY <2>1, <2>2, <2>3
<1> QED
  BY <1>2 DEF KeptByItsSource, Held

LEMMA FreedHeld ==
  ASSUME NEW n \in Nodes, NEW ip, Freed(n, ip)
  PROVE  \/ sending' = sending
         \/ \E m \in Slaves : sending[m] # Idle /\ sending' = [sending EXCEPT ![m].freed = TRUE]
BY DEF Freed, Slaves

(* Nothing enters a place: the samples are where they were, or lost. *)
LEMMA NothingNew ==
  ASSUME IInv, DeliveryInv, UNCHANGED <<taken, hardware>>,
         KeptByItsSource', \A x : Held(x)' => Held(x),
         OnceInAir(channel'), \A x : InAir(channel', x) => InAir(channel, x)
  PROVE  DeliveryInv'
<1>1. /\ KeptByItsSource /\ OnceInAir(channel) /\ OnceQueued(internal) /\ InOnePlace /\ NoneInvented
      /\ OneDeliveryEach
  BY DEF DeliveryInv
<1>2. UNCHANGED <<taken, copying, internal, delivered>>
  BY DEF hardware
<1>3. OnceQueued(internal)'
  BY <1>1, <1>2 DEF OnceQueued
<1>4. OneDeliveryEach'
  BY <1>1, <1>2 DEF OneDeliveryEach
<1>5. taken \in [Nodes -> Nat] /\ \A n \in Nodes : taken[n] <= taken[n]
  BY DEF IInv, SamplesGood
<1>6. \A x : InAirNext(x) => InAir(channel, x)
  BY DEF InAirNext, InAir
<1>7. \A x : Stays(x)
  BY <1>2, <1>6 DEF Stays, QueuedNext, DeliveredNext, Queued
<1>8. InOnePlace' /\ NoneInvented'
  BY <1>1, <1>2, <1>5, <1>7, PlacesKept
<1>9. OnceInAir(channel)'
  BY DEF OnceInAir
<1> QED
  BY <1>3, <1>4, <1>8, <1>9 DEF DeliveryInv

LEMMA AirLess ==
  ASSUME IInv, OnceInAir(channel), NEW k \in Links, channel[k] # <<>>
  PROVE  /\ Taken(k) \in [Links -> Seq(FrameType)]
         /\ OnceInAir(Taken(k))
         /\ \A x : InAir(Taken(k), x) => InAir(channel, x)
         /\ \A x : Loaded(Head(channel[k]), k, x) => InAir(channel, x) /\ ~InAir(Taken(k), x)
<1>1. channel \in [Links -> Seq(FrameType)]
  BY DEF IInv, Carries, Links
<1>2. Tail(channel[k]) \in Seq(FrameType)
  <2>1. channel[k] \in Seq(FrameType)
    BY <1>1
  <2> QED
    BY <2>1
<1>3. Taken(k) \in [Links -> Seq(FrameType)]
  BY <1>1, <1>2 DEF Taken
<1>4. /\ OnceInAir(Taken(k))
      /\ \A x : InAir(Taken(k), x) => InAir(channel, x)
      /\ \A x : Loaded(Head(channel[k]), k, x) => InAir(channel, x) /\ ~InAir(Taken(k), x)
  BY <1>1, AirTaken DEF Taken
<1> QED
  BY <1>3, <1>4

(* The steps that hand no sample on. *)
LEMMA OthersPlaced ==
  ASSUME IInv, DeliveryInv, NEW n \in Nodes,
         \/ n \in Slaves /\ (Enter(n) \/ Restart(n))
         \/ PB_Retransmit(n)
  PROVE  DeliveryInv'
<1>0. KeptByItsSource /\ OnceInAir(channel) /\ channel \in [Links -> Seq(FrameType)]
  BY DEF DeliveryInv, IInv, Carries, Links
<1>1. UNCHANGED <<taken, hardware>>
  BY DEF Enter, Restart, PB_Retransmit, samples
<1>2. sending' = sending \/ \E m \in Slaves : sending' = [sending EXCEPT ![m] = Idle]
  BY DEF Enter, Restart, Restarted, PB_Retransmit, samples
<1>3. KeptByItsSource' /\ \A x : Held(x)' => Held(x)
  BY <1>0, <1>2, FewerHeld
<1>4. channel' = channel \/ \E d : channel' = Broadcast(n, PB(n, d), channel)
  BY DEF Enter, Restart, PB_Retransmit
<1>5. OnceInAir(channel') /\ \A x : InAir(channel', x) => InAir(channel, x)
  <2>1. \A d : PB(n, d).type # "SD"
    BY DEF PB
  <2> QED
    BY <1>0, <1>4, <2>1, AirSame
<1> QED
  BY <1>1, <1>3, <1>5, NothingNew

LEMMA OthersOnLinkPlaced ==
  ASSUME IInv, DeliveryInv, NEW s, NEW r, <<s, r>> \in Links,
         \/ PB_RX(s, r) \/ PR_RX(s, r) \/ PC_RX(s, r) \/ PC_RX_Crash(s, r)
         \/ SD_RX_Ignored(s, r) \/ Lose(s, r) \/ Silence(s, r)
  PROVE  DeliveryInv'
<1>0. KeptByItsSource /\ OnceInAir(channel) /\ r \in Nodes /\ channel \in [Links -> Seq(FrameType)]
  BY NetOf DEF DeliveryInv, IInv, Links, Carries
<1>1. UNCHANGED <<taken, hardware>>
  BY DEF PB_RX, PR_RX, PC_RX, PC_RX_Crash, SD_RX_Ignored, Lose, Silence, samples
<1>2. sending' = sending \/ Freed(r, s)
  BY DEF PB_RX, PR_RX, PC_RX, PC_RX_Crash, SD_RX_Ignored, Lose, Silence, samples
<1>3. KeptByItsSource' /\ \A x : Held(x)' => Held(x)
  BY <1>0, <1>2, FreedHeld, FewerHeld
<1>4. channel' = channel \/ channel[<<s, r>>] # <<>>
  BY DEF PB_RX, PR_RX, PC_RX, PC_RX_Crash, SD_RX_Ignored, Lose, Silence, Arrives
<1>5. \/ channel' = channel
      \/ channel' = Taken(<<s, r>>)
      \/ \E d, e : channel' = Unicast(r, s, PR(r, d, e), Taken(<<s, r>>))
      \/ \E e : channel' = Unicast(r, s, PC(r, e), Taken(<<s, r>>))
  BY DEF PB_RX, PR_RX, PC_RX, PC_RX_Crash, SD_RX_Ignored, Lose, Silence
<1>6. OnceInAir(channel') /\ \A x : InAir(channel', x) => InAir(channel, x)
  <2>1. CASE channel' = channel
    BY <1>0, <2>1
  <2>2. CASE channel[<<s, r>>] # <<>> /\ channel' # channel
    <3> DEFINE ch == Taken(<<s, r>>)
    <3>1. /\ ch \in [Links -> Seq(FrameType)] /\ OnceInAir(ch)
          /\ \A x : InAir(ch, x) => InAir(channel, x)
      BY <1>0, <2>2, AirLess
    <3>2. \A d, e : PR(r, d, e).type # "SD" /\ PC(r, e).type # "SD"
      BY DEF PR, PC
    <3>3. channel' = ch \/ \E f : f.type # "SD" /\ channel' = Unicast(r, s, f, ch)
      BY <1>5, <2>2, <3>2
    <3> HIDE DEF ch
    <3>4. CASE channel' = ch
      BY <3>1, <3>4
    <3>5. ASSUME NEW f, f.type # "SD", channel' = Unicast(r, s, f, ch)
          PROVE  OnceInAir(channel') /\ \A x : InAir(channel', x) => InAir(channel, x)
      <4>1. OnceInAir(Unicast(r, s, f, ch)) /\ \A x : InAir(Unicast(r, s, f, ch), x) => InAir(ch, x)
        BY <3>1, <3>5, AirSame
      <4> QED
        BY <3>1, <3>5, <4>1
    <3> QED
      BY <3>3, <3>4, <3>5
  <2> QED
    BY <1>4, <2>1, <2>2
<1> QED
  BY <1>1, <1>3, <1>6, NothingNew

LEMMA SD_TXPlaced ==
  ASSUME IInv, DeliveryInv, NEW n \in Slaves, SD_TX(n)
  PROVE  DeliveryInv'
<1>0. /\ n \in Nodes /\ n # Master /\ sending[n] = Idle
      /\ sending \in [Slaves -> {Idle} \cup SendingType]
      /\ taken \in [Nodes -> Nat] /\ taken' = [taken EXCEPT ![n] = @ + 1]
      /\ UNCHANGED <<channel, copying, internal, delivered>>
      /\ KeptByItsSource /\ OnceInAir(channel) /\ OnceQueued(internal) /\ InOnePlace /\ NoneInvented
      /\ OneDeliveryEach
  BY DEF SD_TX, Slaves, IInv, SamplesGood, DeliveryInv, hardware
<1>2. /\ taken' \in [Nodes -> Nat] /\ taken'[n] = taken[n] + 1 /\ taken'[Master] = taken[Master]
      /\ taken[n] \in Nat /\ \A o \in Nodes : taken[o] <= taken'[o]
  BY <1>0, NetAssumption
<1>3. PICK y \in SampleType : y = Sample(n, taken[n] + 1) /\ y.source = n /\ y.number = taken[n] + 1
  <2>1. taken[n] + 1 \in Nat \cup {Mixed}
    BY <1>2
  <2> QED
    BY <1>0, <2>1, SampleTyped DEF Sample
<1>1. \/ sending' = [sending EXCEPT ![n] = Idle]
      \/ \E hop : sending' = [sending EXCEPT ![n] = [sample |-> y, hop |-> hop, freed |-> FALSE]]
  BY <1>3 DEF SD_TX, Restarted
<1>4. /\ \A m \in Slaves : m # n => sending'[m] = sending[m]
      /\ sending'[n] = Idle \/ sending'[n].sample = y
  BY <1>0, <1>1
<1>5. KeptByItsSource' /\ \A x : Held(x)' => Held(x) \/ x = y
  BY <1>3, <1>4, <1>0 DEF KeptByItsSource, Held
<1>6. ~UnderWayOrQueued(y) /\ ~Queued(delivered, y)
  <2>1. ~Genuine(y)
    BY <1>2, <1>3 DEF Genuine
  <2> QED
    BY <1>0, <1>3, <2>1 DEF NoneInvented
<1>7. \A x : (InAirNext(x) <=> InAir(channel, x)) /\ (QueuedNext(x) <=> Queued(internal, x))
             /\ (DeliveredNext(x) <=> Queued(delivered, x))
  BY <1>0 DEF InAirNext, QueuedNext, DeliveredNext, InAir, Queued
<1>8. Genuine(y)'
  BY <1>2, <1>3 DEF Genuine
<1>9. TakenNow(y)
  BY <1>6, <1>7, <1>8 DEF TakenNow, UnderWayOrQueued
<1>10. \A x \in SampleType : x # y => Stays(x)
  BY <1>5, <1>7 DEF Stays
<1>11. InOnePlace' /\ NoneInvented'
  BY <1>0, <1>2, <1>9, <1>10, PlacesKept
<1>12. OnceInAir(channel)' /\ OnceQueued(internal)'
  BY <1>0 DEF OnceInAir, OnceQueued
<1>13. OneDeliveryEach'
  BY <1>0, <1>2 DEF OneDeliveryEach
<1> QED
  BY <1>5, <1>11, <1>12, <1>13 DEF DeliveryInv

LEMMA SD_TX_SendPlaced ==
  ASSUME IInv, DeliveryInv, NEW n \in Slaves, SD_TX_Send(n)
  PROVE  DeliveryInv'
<1>0. /\ sending[n] # Idle /\ sending' = [sending EXCEPT ![n] = Idle]
      /\ sending \in [Slaves -> {Idle} \cup SendingType]
      /\ taken \in [Nodes -> Nat] /\ channel \in [Links -> Seq(FrameType)]
      /\ UNCHANGED <<taken, copying, internal, delivered>>
      /\ \E next : channel' = Broadcast(n, SD(sending[n].sample, next), channel)
      /\ KeptByItsSource /\ OnceInAir(channel) /\ OnceQueued(internal) /\ InOnePlace /\ NoneInvented
      /\ OneDeliveryEach
  BY DEF SD_TX_Send, IInv, SamplesGood, DeliveryInv, hardware, Carries, Links
<1>1. PICK y \in SampleType : y = sending[n].sample /\ Held(y) /\ y.source = n
  BY <1>0 DEF SendingType, Held, KeptByItsSource
<1>2. ~InAir(channel, y) /\ ~Queued(internal, y) /\ ~Queued(delivered, y)
  BY <1>0, <1>1 DEF InOnePlace, UnderWayOrQueued
<1>3. OnceInAir(channel') /\ \A x : InAir(channel', x) => InAir(channel, x) \/ x = y
  BY <1>0, <1>1, <1>2, AirSent
<1>4. KeptByItsSource' /\ \A x : Held(x)' => Held(x)
  BY <1>0, FewerHeld
<1>5. ~Held(y)'
  <2> SUFFICES ASSUME NEW m \in Slaves, sending'[m] # Idle, sending'[m].sample = y PROVE FALSE
    BY DEF Held
  <2>1. m # n /\ sending[m] = sending'[m]
    BY <1>0
  <2> QED
    BY <1>0, <1>1, <2>1 DEF KeptByItsSource
<1>6. \A x : (InAirNext(x) => InAir(channel, x) \/ x = y) /\ (QueuedNext(x) <=> Queued(internal, x))
             /\ (DeliveredNext(x) <=> Queued(delivered, x))
  <2>1. \A x : InAirNext(x) <=> InAir(channel', x)
    BY DEF InAirNext, InAir
  <2>2. \A x : (QueuedNext(x) <=> Queued(internal, x)) /\ (DeliveredNext(x) <=> Queued(delivered, x))
    BY <1>0 DEF QueuedNext, DeliveredNext, Queued
  <2> QED
    BY <1>3, <2>1, <2>2
<1>7. HandedOn(y)
  BY <1>1, <1>2, <1>5, <1>6 DEF HandedOn, UnderWayOrQueued
<1>8. \A x \in SampleType : x # y => Stays(x)
  BY <1>4, <1>6 DEF Stays
<1>9. \A o \in Nodes : taken[o] <= taken[o]
  BY <1>0
<1>10. InOnePlace' /\ NoneInvented'
  BY <1>0, <1>7, <1>8, <1>9, PlacesKept
<1>11. OnceInAir(channel)' /\ OnceQueued(internal)' /\ OneDeliveryEach'
  BY <1>0, <1>3 DEF OnceInAir, OnceQueued, OneDeliveryEach
<1> QED
  BY <1>4, <1>10, <1>11 DEF DeliveryInv

(* The sample on the frame that comes to r. *)
LEMMA SampleArrived ==
  ASSUME IInv, OnceInAir(channel), NEW s, NEW r, <<s, r>> \in Links, Arrives(s, r, "SD"),
         Head(channel[<<s, r>>]).next = r
  PROVE  /\ channel[<<s, r>>] # <<>>
         /\ Head(channel[<<s, r>>]).sample \in SampleType
         /\ InAir(channel, Head(channel[<<s, r>>]).sample)
         /\ ~InAir(Taken(<<s, r>>), Head(channel[<<s, r>>]).sample)
<1>1. channel[<<s, r>>] # <<>> /\ Head(channel[<<s, r>>]).type = "SD"
  BY DEF Arrives
<1>2. Head(channel[<<s, r>>]) \in FrameType
  <2>1. channel[<<s, r>>] \in Seq(FrameType)
    BY DEF IInv, Carries, Links
  <2> QED
    BY <1>1, <2>1
<1>3. Head(channel[<<s, r>>]).sample \in SampleType
  BY <1>1, <1>2 DEF FrameType
<1>4. Loaded(Head(channel[<<s, r>>]), <<s, r>>, Head(channel[<<s, r>>]).sample)
  BY <1>1 DEF Loaded
<1> QED
  BY <1>1, <1>3, <1>4, AirLess

LEMMA SD_RX_RelayPlaced ==
  ASSUME IInv, DeliveryInv, NEW s, NEW r, <<s, r>> \in Links, SD_RX_Relay(s, r)
  PROVE  DeliveryInv'
<1>0. /\ r \in Slaves /\ Arrives(s, r, "SD") /\ Head(channel[<<s, r>>]).next = r
      /\ UNCHANGED <<taken, hardware>>
      /\ KeptByItsSource /\ OnceInAir(channel)
  BY DEF SD_RX_Relay, DeliveryInv
<1>1. PICK y \in SampleType :
        /\ y = Head(channel[<<s, r>>]).sample
        /\ channel[<<s, r>>] # <<>> /\ InAir(channel, y) /\ ~InAir(Taken(<<s, r>>), y)
  BY <1>0, SampleArrived
<1>2. \/ sending' = sending
      \/ \E m \in Slaves : sending[m] # Idle /\ sending' = [sending EXCEPT ![m].freed = TRUE]
  BY <1>0 DEF SD_RX_Relay
<1>3. KeptByItsSource' /\ \A x : Held(x)' => Held(x)
  BY <1>0, <1>2, FewerHeld
<1>4. channel' = Taken(<<s, r>>) \/ \E hop : channel' = Broadcast(r, SD(y, hop), Taken(<<s, r>>))
  BY <1>1 DEF SD_RX_Relay
<1>5. /\ Taken(<<s, r>>) \in [Links -> Seq(FrameType)] /\ OnceInAir(Taken(<<s, r>>))
      /\ \A x : InAir(Taken(<<s, r>>), x) => InAir(channel, x)
  BY <1>0, <1>1, AirLess
<1>6. OnceInAir(channel') /\ \A x : InAir(channel', x) => InAir(channel, x)
  <2> DEFINE ch == Taken(<<s, r>>)
  <2>1. ch \in [Links -> Seq(FrameType)] /\ OnceInAir(ch) /\ ~InAir(ch, y)
        /\ \A x : InAir(ch, x) => InAir(channel, x)
    BY <1>1, <1>5
  <2>2. channel' = ch \/ \E hop : channel' = Broadcast(r, SD(y, hop), ch)
    BY <1>4
  <2> HIDE DEF ch
  <2>3. ASSUME NEW hop, channel' = Broadcast(r, SD(y, hop), ch)
        PROVE  OnceInAir(channel') /\ \A x : InAir(channel', x) => InAir(channel, x)
    <3>1. /\ OnceInAir(Broadcast(r, SD(y, hop), ch))
          /\ \A x : InAir(Broadcast(r, SD(y, hop), ch), x) => InAir(ch, x) \/ x = y
      BY <2>1, AirSent
    <3> QED
      BY <1>1, <2>1, <2>3, <3>1
  <2> QED
    BY <2>1, <2>2, <2>3
<1> QED
  BY <1>0, <1>3, <1>6, NothingNew

LEMMA SD_RX_MasterPlaced ==
  ASSUME IInv, DeliveryInv, NEW s, <<s, Master>> \in Links, SD_RX_Master(s)
  PROVE  DeliveryInv'
<1>0. /\ Arrives(s, Master, "SD") /\ Head(channel[<<s, Master>>]).next = Master
      /\ internal' = Append(internal, Head(channel[<<s, Master>>]).sample)
      /\ channel' = Taken(<<s, Master>>)
      /\ UNCHANGED <<taken, sending, copying, delivered>>
      /\ taken \in [Nodes -> Nat] /\ internal \in Seq(SampleType \cup {InBuffer})
      /\ KeptByItsSource /\ OnceInAir(channel) /\ OnceQueued(internal) /\ InOnePlace /\ NoneInvented
      /\ OneDeliveryEach
  BY DEF SD_RX_Master, DeliveryInv, samples, IInv, SamplesGood, HardwareTyped
<1>1. PICK y \in SampleType :
        /\ y = Head(channel[<<s, Master>>]).sample
        /\ channel[<<s, Master>>] # <<>> /\ InAir(channel, y) /\ ~InAir(Taken(<<s, Master>>), y)
  BY <1>0, SampleArrived
<1>2. y # InBuffer
  BY NetAssumption DEF SampleType
<1>3. ~Held(y) /\ ~Queued(internal, y) /\ ~Queued(delivered, y) /\ UnderWayOrQueued(y)
  BY <1>0, <1>1 DEF InOnePlace, UnderWayOrQueued
<1>4. /\ OnceInAir(Taken(<<s, Master>>))
      /\ \A x : InAir(Taken(<<s, Master>>), x) => InAir(channel, x)
  BY <1>0, <1>1, AirLess
<1>5. \A x : InAirNext(x) <=> InAir(Taken(<<s, Master>>), x)
  BY <1>0 DEF InAirNext, InAir
<1>6. /\ Len(internal) \in Nat /\ DOMAIN internal = 1 .. Len(internal)
      /\ DOMAIN internal' = 1 .. (Len(internal) + 1)
      /\ internal'[Len(internal) + 1] = y
      /\ \A i \in 1 .. Len(internal) : internal'[i] = internal[i]
  BY <1>0, <1>1
<1>7. \A x : QueuedNext(x) => Queued(internal, x) \/ x = y
  <2> SUFFICES ASSUME NEW x, NEW i \in DOMAIN internal', internal'[i] = x, x # y
               PROVE  Queued(internal, x)
    BY DEF QueuedNext, Queued
  <2>1. i \in 1 .. Len(internal)
    BY <1>6
  <2> QED
    BY <1>6, <2>1 DEF Queued
<1>8. OnceQueued(internal)'
  <2> SUFFICES ASSUME NEW i \in DOMAIN internal', NEW j \in DOMAIN internal',
                      internal'[i] = internal'[j], internal'[i] # InBuffer
               PROVE  i = j
    BY DEF OnceQueued
  <2>1. i \in 1 .. Len(internal) \/ i = Len(internal) + 1
    BY <1>6
  <2>2. j \in 1 .. Len(internal) \/ j = Len(internal) + 1
    BY <1>6
  <2>3. CASE i \in 1 .. Len(internal) /\ j \in 1 .. Len(internal)
    BY <1>0, <1>6, <2>3 DEF OnceQueued
  <2>4. CASE i \in 1 .. Len(internal) /\ j = Len(internal) + 1
    BY <1>3, <1>6, <2>4 DEF Queued
  <2>5. CASE i = Len(internal) + 1 /\ j \in 1 .. Len(internal)
    BY <1>3, <1>6, <2>5 DEF Queued
  <2> QED
    BY <2>1, <2>2, <2>3, <2>4, <2>5
<1>9. \A x : (Held(x)' <=> Held(x)) /\ (DeliveredNext(x) <=> Queued(delivered, x))
  BY <1>0 DEF Held, DeliveredNext, Queued
<1>10. HandedOn(y)
  BY <1>1, <1>3, <1>5, <1>9 DEF HandedOn
<1>11. \A x \in SampleType : x # y => Stays(x)
  BY <1>4, <1>5, <1>7, <1>9 DEF Stays
<1>12. InOnePlace' /\ NoneInvented'
  <2>1. \A o \in Nodes : taken[o] <= taken[o]
    BY <1>0
  <2> QED
    BY <1>0, <1>10, <1>11, <2>1, PlacesKept
<1>13. OneDeliveryEach'
  <2>1. y \in SampleType \cup {InBuffer} /\ y \notin {InBuffer}
    BY <1>2
  <2>2. Cardinality(At(Append(internal, y), {InBuffer})) = Cardinality(At(internal, {InBuffer})) + 0
    BY <1>0, <2>1, AtAppend
  <2>3. Cardinality(At(internal, {InBuffer})) \in Nat
    BY <1>0, AtFinite
  <2>4. Cardinality(At(internal', {InBuffer})) = Cardinality(At(internal, {InBuffer}))
    BY <1>0, <1>1, <2>2, <2>3
  <2> QED
    BY <1>0, <2>4 DEF OneDeliveryEach
<1>14. OnceInAir(channel)' /\ KeptByItsSource'
  <2>1. OnceInAir(channel')
    BY <1>0, <1>4
  <2> QED
    BY <1>0, <2>1 DEF OnceInAir, KeptByItsSource
<1> QED
  BY <1>8, <1>12, <1>13, <1>14 DEF DeliveryInv

LEMMA CopyPlaced ==
  ASSUME IInv, DeliveryInv, WS_listener_Copy
  PROVE  DeliveryInv'
<1>0. /\ Master \in Nodes /\ ~copying /\ copying' = TRUE
      /\ taken \in [Nodes -> Nat] /\ taken' = [taken EXCEPT ![Master] = @ + 1]
      /\ UNCHANGED <<channel, sending, internal, delivered>>
      /\ internal \in Seq(SampleType \cup {InBuffer}) /\ delivered \in Seq(SampleType)
      /\ KeptByItsSource /\ OnceInAir(channel) /\ OnceQueued(internal) /\ InOnePlace /\ NoneInvented
      /\ OneDeliveryEach
  BY NetAssumption DEF WS_listener_Copy, DeliveryInv, IInv, SamplesGood, HardwareTyped
<1>1. taken' \in [Nodes -> Nat] /\ \A o \in Nodes : taken[o] <= taken'[o]
  BY <1>0
<1>2. \A x : Stays(x)
  BY <1>0 DEF Stays, InAirNext, QueuedNext, DeliveredNext, Held, InAir, Queued
<1>3. InOnePlace' /\ NoneInvented'
  BY <1>0, <1>1, <1>2, PlacesKept
<1>4. OneDeliveryEach'
  <2> DEFINE a == Cardinality(At(delivered, OfMaster))
             b == Cardinality(At(internal, {InBuffer}))
  <2>1. a \in Nat /\ b \in Nat
    BY <1>0, AtFinite
  <2>2. a + b + 0 = taken[Master]
    BY <1>0 DEF OneDeliveryEach
  <2>3. taken'[Master] = taken[Master] + 1
    BY <1>0
  <2> HIDE DEF a, b
  <2>4. a + b + 1 = taken'[Master]
    BY <2>1, <2>2, <2>3
  <2>5. a = Cardinality(At(delivered', OfMaster)) /\ b = Cardinality(At(internal', {InBuffer}))
    BY <1>0 DEF a, b
  <2> QED
    BY <1>0, <2>4, <2>5 DEF OneDeliveryEach, OfMaster, At
<1>5. OnceInAir(channel)' /\ KeptByItsSource' /\ OnceQueued(internal)'
  BY <1>0 DEF OnceInAir, KeptByItsSource, OnceQueued
<1> QED
  BY <1>3, <1>4, <1>5 DEF DeliveryInv

LEMMA QueuePlaced ==
  ASSUME IInv, DeliveryInv, WS_listener_Queue
  PROVE  DeliveryInv'
<1>0. /\ copying /\ ~copying' /\ internal' = Append(internal, InBuffer)
      /\ UNCHANGED <<channel, taken, sending, delivered>>
      /\ taken \in [Nodes -> Nat]
      /\ internal \in Seq(SampleType \cup {InBuffer}) /\ delivered \in Seq(SampleType)
      /\ KeptByItsSource /\ OnceInAir(channel) /\ OnceQueued(internal) /\ InOnePlace /\ NoneInvented
      /\ OneDeliveryEach
  BY DEF WS_listener_Queue, DeliveryInv, IInv, SamplesGood, HardwareTyped, samples
<1>1. /\ Len(internal) \in Nat /\ DOMAIN internal = 1 .. Len(internal)
      /\ DOMAIN internal' = 1 .. (Len(internal) + 1)
      /\ internal'[Len(internal) + 1] = InBuffer
      /\ \A i \in 1 .. Len(internal) : internal'[i] = internal[i]
  BY <1>0
<1>2. \A i \in DOMAIN internal' : i \in 1 .. Len(internal) \/ internal'[i] = InBuffer
  BY <1>1
<1>3. \A x \in SampleType : QueuedNext(x) => Queued(internal, x)
  <2>1. InBuffer \notin SampleType
    BY NetAssumption DEF SampleType
  <2> QED
    BY <1>1, <1>2, <2>1 DEF QueuedNext, Queued
<1>4. \A x \in SampleType : Stays(x)
  BY <1>0, <1>3 DEF Stays, InAirNext, DeliveredNext, Held, InAir, Queued
<1>5. InOnePlace' /\ NoneInvented'
  <2>1. \A o \in Nodes : taken[o] <= taken[o]
    BY <1>0
  <2> QED
    BY <1>0, <1>4, <2>1, PlacesKept
<1>6. OnceQueued(internal)'
  <2> SUFFICES ASSUME NEW i \in DOMAIN internal', NEW j \in DOMAIN internal',
                      internal'[i] = internal'[j], internal'[i] # InBuffer
               PROVE  i = j
    BY DEF OnceQueued
  <2>1. i \in 1 .. Len(internal) /\ j \in 1 .. Len(internal)
    BY <1>2
  <2> QED
    BY <1>0, <1>1, <2>1 DEF OnceQueued
<1>7. OneDeliveryEach'
  <2> DEFINE a == Cardinality(At(delivered, OfMaster))
             b == Cardinality(At(internal, {InBuffer}))
             c == Cardinality(At(internal', {InBuffer}))
  <2>1. a \in Nat /\ b \in Nat
    BY <1>0, AtFinite
  <2>2. a + b + 1 = taken[Master]
    BY <1>0 DEF OneDeliveryEach
  <2>3. c = b + 1
    <3>1. InBuffer \in SampleType \cup {InBuffer} /\ InBuffer \in {InBuffer}
      OBVIOUS
    <3>2. Cardinality(At(Append(internal, InBuffer), {InBuffer}))
            = Cardinality(At(internal, {InBuffer})) + 1
      BY <1>0, <3>1, AtAppend
    <3> QED
      BY <1>0, <3>2
  <2>4. a = Cardinality(At(delivered', OfMaster))
    BY <1>0
  <2>5. c = Cardinality(At(internal', {InBuffer}))
    OBVIOUS
  <2> HIDE DEF a, b, c
  <2>6. a + c + 0 = taken[Master]
    BY <2>1, <2>2, <2>3
  <2> QED
    BY <1>0, <2>4, <2>5, <2>6 DEF OneDeliveryEach, OfMaster, At
<1>8. OnceInAir(channel)' /\ KeptByItsSource'
  BY <1>0 DEF OnceInAir, KeptByItsSource
<1> QED
  BY <1>5, <1>6, <1>7, <1>8 DEF DeliveryInv

(* What is dispatched: a sample of a slave, or what TotalSample holds. *)
LEMMA Dispatched ==
  ASSUME IInv, DeliveryInv, HW_dispatcher
  PROVE  \E y \in SampleType :
           /\ delivered' = Append(delivered, y)
           /\ \/ Head(internal) = y /\ Queued(internal, y)
              \/ /\ Head(internal) = InBuffer
                 /\ y.source = Master
                 /\ y.number = IF copying THEN Mixed ELSE taken[Master]
<1>0. /\ internal # <<>> /\ internal \in Seq(SampleType \cup {InBuffer})
      /\ Master \in Nodes /\ taken[Master] \in Nat
  BY NetAssumption DEF HW_dispatcher, IInv, HardwareTyped, SamplesGood
<1>1. 1 \in DOMAIN internal /\ Head(internal) = internal[1] /\ Head(internal) \in SampleType \cup {InBuffer}
  BY <1>0
<1>2. CASE Head(internal) # InBuffer
  <2>1. Queued(internal, Head(internal))
    BY <1>1 DEF Queued
  <2>2. delivered' = Append(delivered, Head(internal))
    BY <1>2 DEF HW_dispatcher
  <2> QED
    BY <1>1, <1>2, <2>1, <2>2
<1>3. CASE Head(internal) = InBuffer
  <2> DEFINE number == IF copying THEN Mixed ELSE taken[Master]
  <2>1. number \in Nat \cup {Mixed}
    BY <1>0
  <2>2. delivered' = Append(delivered, Sample(Master, number))
    BY <1>3 DEF HW_dispatcher
  <2> HIDE DEF number
  <2>3. Sample(Master, number) \in SampleType
    BY <1>0, <2>1, SampleTyped
  <2>4. Sample(Master, number).source = Master /\ Sample(Master, number).number = number
    BY DEF Sample
  <2> QED
    BY <1>3, <2>2, <2>3, <2>4 DEF number
<1> QED
  BY <1>2, <1>3

LEMMA HW_dispatcherPlaced ==
  ASSUME IInv, DeliveryInv, HW_dispatcher
  PROVE  DeliveryInv'
<1>0. /\ internal # <<>> /\ internal' = Tail(internal)
      /\ UNCHANGED <<channel, taken, sending, copying>>
      /\ taken \in [Nodes -> Nat] /\ Master \in Nodes /\ taken[Master] \in Nat
      /\ internal \in Seq(SampleType \cup {InBuffer}) /\ delivered \in Seq(SampleType)
      /\ KeptByItsSource /\ OnceInAir(channel) /\ OnceQueued(internal) /\ InOnePlace /\ NoneInvented
      /\ OneDeliveryEach
  BY NetAssumption DEF HW_dispatcher, DeliveryInv, IInv, SamplesGood, HardwareTyped, samples
<1>1. PICK y \in SampleType :
        /\ delivered' = Append(delivered, y)
        /\ \/ Head(internal) = y /\ Queued(internal, y)
           \/ /\ Head(internal) = InBuffer
              /\ y.source = Master
              /\ y.number = IF copying THEN Mixed ELSE taken[Master]
  BY Dispatched
<1>2. /\ Len(internal) \in Nat /\ Len(internal) >= 1 /\ DOMAIN internal = 1 .. Len(internal)
      /\ Head(internal) = internal[1]
      /\ DOMAIN internal' = 1 .. (Len(internal) - 1)
      /\ \A i \in 1 .. (Len(internal) - 1) : internal'[i] = internal[i + 1]
  BY <1>0
<1>3. \A i \in DOMAIN internal' :
        i \in Nat /\ i >= 1 /\ i + 1 \in DOMAIN internal /\ internal'[i] = internal[i + 1]
  BY <1>2
<1>4. \A x : QueuedNext(x) => Queued(internal, x)
  BY <1>3 DEF QueuedNext, Queued
<1>5. OnceQueued(internal)'
  <2> SUFFICES ASSUME NEW i \in DOMAIN internal', NEW j \in DOMAIN internal',
                      internal'[i] = internal'[j], internal'[i] # InBuffer
               PROVE  i = j
    BY DEF OnceQueued
  <2>1. i + 1 = j + 1
    BY <1>0, <1>3 DEF OnceQueued
  <2> QED
    BY <1>3, <2>1
<1>6. \A x : DeliveredNext(x) => Queued(delivered, x) \/ x = y
  <2>1. /\ Len(delivered) \in Nat /\ DOMAIN delivered = 1 .. Len(delivered)
        /\ DOMAIN delivered' = 1 .. (Len(delivered) + 1)
        /\ delivered'[Len(delivered) + 1] = y
        /\ \A i \in 1 .. Len(delivered) : delivered'[i] = delivered[i]
    BY <1>0, <1>1
  <2> SUFFICES ASSUME NEW x, NEW i \in DOMAIN delivered', delivered'[i] = x, x # y
               PROVE  Queued(delivered, x)
    BY DEF DeliveredNext, Queued
  <2>2. i \in 1 .. Len(delivered)
    BY <2>1
  <2> QED
    BY <2>1, <2>2 DEF Queued
<1>7. \A x : (Held(x)' <=> Held(x)) /\ (InAirNext(x) <=> InAir(channel, x))
  BY <1>0 DEF Held, InAirNext, InAir
<1>8. \A x \in SampleType : x # y => Stays(x)
  BY <1>4, <1>6, <1>7 DEF Stays
<1> DEFINE a == Cardinality(At(delivered, OfMaster))
           b == Cardinality(At(internal, {InBuffer}))
           c == Cardinality(At(Append(delivered, y), OfMaster))
           d == Cardinality(At(Tail(internal), {InBuffer}))
<1>9. /\ a \in Nat /\ b \in Nat /\ d \in Nat
      /\ c = a + (IF y \in OfMaster THEN 1 ELSE 0)
      /\ b = d + (IF Head(internal) \in {InBuffer} THEN 1 ELSE 0)
  <2>1. Tail(internal) \in Seq(SampleType \cup {InBuffer})
    BY <1>0
  <2>2. a \in Nat /\ b \in Nat /\ d \in Nat
    BY <1>0, <2>1, AtFinite
  <2>3. c = a + (IF y \in OfMaster THEN 1 ELSE 0)
    BY <1>0, AtAppend
  <2>4. b = d + (IF Head(internal) \in {InBuffer} THEN 1 ELSE 0)
    BY <1>0, AtTail
  <2> QED
    BY <2>2, <2>3, <2>4
<1>10. OneDeliveryEach /\ c + d = a + b => OneDeliveryEach'
  <2>1. c = Cardinality(At(delivered', OfMaster)) /\ d = Cardinality(At(internal', {InBuffer}))
    BY <1>0, <1>1
  <2> HIDE DEF a, b, c, d
  <2>2. OneDeliveryEach <=> a + b + (IF copying THEN 1 ELSE 0) = taken[Master]
    BY DEF OneDeliveryEach, a, b
  <2>3. OneDeliveryEach' <=> c + d + (IF copying THEN 1 ELSE 0) = taken[Master]
    BY <1>0, <2>1 DEF OneDeliveryEach, OfMaster, At
  <2> QED
    BY <2>2, <2>3
<1> HIDE DEF a, b, c, d
<1>11. ASSUME Head(internal) = y, Queued(internal, y)
      PROVE  (HandedOn(y) \/ FromBuffer(y)) /\ OneDeliveryEach'
  <2>1. UnderWayOrQueued(y) /\ ~Held(y) /\ ~InAir(channel, y) /\ Genuine(y)
    BY <1>0, <1>11 DEF InOnePlace, NoneInvented, UnderWayOrQueued
  <2>2. y # InBuffer
    BY NetAssumption DEF SampleType
  <2>3. ~QueuedNext(y)
    <3> SUFFICES ASSUME NEW i \in DOMAIN internal', internal'[i] = y PROVE FALSE
      BY DEF QueuedNext, Queued
    <3>0. /\ i + 1 \in DOMAIN internal /\ 1 \in DOMAIN internal
          /\ internal[i + 1] = y /\ internal[1] = y
      BY <1>2, <1>3, <1>11
    <3>1. i + 1 = 1
      BY <1>0, <2>2, <3>0 DEF OnceQueued
    <3> QED
      BY <1>3, <3>1
  <2>4. HandedOn(y)
    BY <1>7, <2>1, <2>3 DEF HandedOn
  <2>5. y \notin OfMaster /\ Head(internal) \notin {InBuffer}
    BY <1>11, <2>1, <2>2 DEF OfMaster, Genuine, Slaves
  <2> QED
    BY <1>9, <1>10, <1>0, <2>4, <2>5
<1>12. ASSUME Head(internal) = InBuffer, y.source = Master,
              y.number = IF copying THEN Mixed ELSE taken[Master]
       PROVE  (HandedOn(y) \/ FromBuffer(y)) /\ OneDeliveryEach'
  <2>1. FromBuffer(y)
    <3>1. y.number = Mixed \/ y.number \in 0 .. taken[Master]
      BY <1>0, <1>12
    <3> QED
      BY <1>4, <1>7, <1>12, <3>1 DEF FromBuffer
  <2>2. y \in OfMaster
    BY <1>12 DEF OfMaster
  <2> QED
    BY <1>0, <1>9, <1>10, <1>12, <2>1, <2>2
<1>13. (HandedOn(y) \/ FromBuffer(y)) /\ OneDeliveryEach'
  BY <1>1, <1>11, <1>12
<1>14. InOnePlace' /\ NoneInvented'
  <2>1. \A o \in Nodes : taken[o] <= taken[o]
    BY <1>0
  <2> QED
    BY <1>0, <1>8, <1>13, <2>1, PlacesKept
<1>15. OnceInAir(channel)' /\ KeptByItsSource'
  BY <1>0 DEF OnceInAir, KeptByItsSource
<1> QED
  BY <1>5, <1>13, <1>14, <1>15 DEF DeliveryInv

LEMMA InitPlaced == Init => DeliveryInv
<1> SUFFICES ASSUME Init PROVE DeliveryInv
  OBVIOUS
<1>0. /\ Master \in Nodes
      /\ taken = [n \in Nodes |-> 0] /\ sending = [n \in Slaves |-> Idle] /\ copying = FALSE
      /\ internal = <<>> /\ delivered = <<>> /\ channel = [l \in Links |-> <<>>]
  BY NetAssumption DEF Init
<1>1. /\ \A x : ~Held(x) /\ ~InAir(channel, x) /\ ~Queued(internal, x) /\ ~Queued(delivered, x)
      /\ KeptByItsSource /\ OnceInAir(channel) /\ OnceQueued(internal)
  BY <1>0 DEF Held, InAir, Queued, KeptByItsSource, OnceInAir, OnceQueued
<1>2. InOnePlace /\ NoneInvented
  BY <1>1 DEF InOnePlace, NoneInvented, UnderWayOrQueued
<1>3. OneDeliveryEach
  <2>1. At(delivered, OfMaster) = {} /\ At(internal, {InBuffer}) = {}
    BY <1>0 DEF At
  <2>2. Cardinality(At(delivered, OfMaster)) = 0 /\ Cardinality(At(internal, {InBuffer})) = 0
    BY <2>1, FS_EmptySet
  <2>3. taken[Master] = 0 /\ ~copying
    BY <1>0
  <2> QED
    BY <2>2, <2>3 DEF OneDeliveryEach
<1> QED
  BY <1>1, <1>2, <1>3 DEF DeliveryInv

LEMMA NextPlaced ==
  ASSUME IInv, DeliveryInv, [Next]_vars
  PROVE  DeliveryInv'
<1>1. CASE UNCHANGED vars
  <2>1. /\ UNCHANGED <<taken, hardware>> /\ sending' = sending /\ channel' = channel
        /\ KeptByItsSource /\ OnceInAir(channel)
    BY <1>1 DEF vars, samples, DeliveryInv
  <2>2. KeptByItsSource' /\ \A x : Held(x)' => Held(x)
    BY <2>1, FewerHeld
  <2> QED
    BY <2>1, <2>2, NothingNew
<1>2. ASSUME NEW n \in Slaves, Enter(n) \/ SD_TX(n) \/ SD_TX_Send(n) \/ Restart(n)
      PROVE  DeliveryInv'
  <2>1. n \in Nodes
    BY DEF Slaves
  <2> QED
    BY <1>2, <2>1, OthersPlaced, SD_TXPlaced, SD_TX_SendPlaced
<1>3. ASSUME NEW n \in Nodes, PB_Retransmit(n)
      PROVE  DeliveryInv'
  BY <1>3, OthersPlaced
<1>4. ASSUME NEW l \in Links, Receive(l[1], l[2]) \/ Lose(l[1], l[2]) \/ Silence(l[1], l[2])
      PROVE  DeliveryInv'
  <2> DEFINE s == l[1]
             r == l[2]
  <2>1. <<s, r>> \in Links
    BY NetOf DEF IInv, Links
  <2>2. Receive(s, r) \/ Lose(s, r) \/ Silence(s, r)
    BY <1>4
  <2> HIDE DEF s, r
  <2>3. CASE \/ PB_RX(s, r) \/ PR_RX(s, r) \/ PC_RX(s, r) \/ PC_RX_Crash(s, r)
             \/ SD_RX_Ignored(s, r) \/ Lose(s, r) \/ Silence(s, r)
    BY <2>1, <2>3, OthersOnLinkPlaced
  <2>4. CASE SD_RX_Relay(s, r)
    BY <2>1, <2>4, SD_RX_RelayPlaced
  <2>5. CASE r = Master /\ SD_RX_Master(s)
    BY <2>1, <2>5, SD_RX_MasterPlaced
  <2> QED
    BY <2>2, <2>3, <2>4, <2>5 DEF Receive
<1>5. CASE WS_listener_Copy \/ WS_listener_Queue \/ HW_dispatcher
  BY <1>5, CopyPlaced, QueuePlaced, HW_dispatcherPlaced
<1> QED
  BY <1>1, <1>2, <1>3, <1>4, <1>5 DEF Next

LEMMA PlacesInvariant == Spec => []DeliveryInv
<1>1. IInv /\ DeliveryInv /\ [Next]_vars => DeliveryInv'
  BY NextPlaced
<1> QED
  BY <1>1, InitPlaced, Invariant, PTL DEF Spec

-----------------------------------------------------------------------------
(* The steps of SampleDelivery. *)

LEMMA OthersDeliverNothing ==
  ASSUME Next, ~HW_dispatcher
  PROVE  /\ delivered' = delivered
         /\ taken' = taken \/ \E n \in Nodes : taken' = [taken EXCEPT ![n] = @ + 1]
<1>1. ASSUME NEW n \in Slaves, Enter(n) \/ SD_TX(n) \/ SD_TX_Send(n) \/ Restart(n)
      PROVE  /\ delivered' = delivered
             /\ taken' = taken \/ taken' = [taken EXCEPT ![n] = @ + 1]
  BY <1>1 DEF Enter, SD_TX, SD_TX_Send, Restart, samples, hardware
<1>2. ASSUME NEW n \in Nodes, PB_Retransmit(n)
      PROVE  delivered' = delivered /\ taken' = taken
  BY <1>2 DEF PB_Retransmit, samples, hardware
<1>3. ASSUME NEW s, NEW r, Receive(s, r) \/ Lose(s, r) \/ Silence(s, r)
      PROVE  delivered' = delivered /\ taken' = taken
  BY <1>3 DEF Receive, PB_RX, PR_RX, PC_RX, PC_RX_Crash, SD_RX_Ignored, SD_RX_Relay,
              SD_RX_Master, Lose, Silence, samples, hardware
<1>4. CASE WS_listener_Copy \/ WS_listener_Queue
  <2>1. delivered' = delivered /\ (taken' = taken \/ taken' = [taken EXCEPT ![Master] = @ + 1])
    BY <1>4 DEF WS_listener_Copy, WS_listener_Queue, samples
  <2> QED
    BY <2>1, NetAssumption
<1>5. Slaves \subseteq Nodes
  BY DEF Slaves
<1> QED
  BY <1>1, <1>2, <1>3, <1>4, <1>5 DEF Next

LEMMA DispatchDelivers ==
  ASSUME IInv, DeliveryInv, HW_dispatcher
  PROVE  Delivery!Next
<1>0. /\ internal # <<>> /\ internal \in Seq(SampleType \cup {InBuffer})
      /\ Master \in Nodes /\ taken[Master] \in Nat /\ copying \in BOOLEAN
      /\ delivered \in Seq(SampleType) /\ taken' = taken
      /\ InOnePlace /\ NoneInvented /\ OneDeliveryEach
  BY NetAssumption DEF HW_dispatcher, DeliveryInv, IInv, SamplesGood, HardwareTyped, samples
<1>1. PICK y \in SampleType :
        /\ delivered' = Append(delivered, y)
        /\ \/ Head(internal) = y /\ Queued(internal, y)
           \/ /\ Head(internal) = InBuffer
              /\ y.source = Master
              /\ y.number = IF copying THEN Mixed ELSE taken[Master]
  BY Dispatched
<1>2. y = [source |-> y.source, number |-> y.number]
  BY DEF SampleType
<1>3. CASE Head(internal) = y /\ Queued(internal, y)
  <2>1. y.source \in Nodes \ {Master} /\ y.number \in 1 .. taken[y.source] /\ ~Queued(delivered, y)
    BY <1>0, <1>3 DEF InOnePlace, NoneInvented, UnderWayOrQueued, Genuine, Slaves
  <2>2. Delivery!DeliverSlave(y.source)
    BY <1>0, <1>1, <1>2, <2>1 DEF Delivery!DeliverSlave, Delivery!Sample, Queued
  <2> QED
    BY <2>1, <2>2 DEF Delivery!Next
<1>4. CASE /\ Head(internal) = InBuffer /\ y.source = Master
           /\ y.number = IF copying THEN Mixed ELSE taken[Master]
  <2>1. Delivery!Own = At(delivered, OfMaster)
    <3>1. \A i \in DOMAIN delivered : delivered[i] \in SampleType
      BY <1>0
    <3> QED
      BY <3>1 DEF Delivery!Own, At, OfMaster
  <2>2. Cardinality(Delivery!Own) < taken[Master] /\ taken[Master] >= 1
    <3> DEFINE a == Cardinality(At(delivered, OfMaster))
               b == Cardinality(At(internal, {InBuffer}))
               d == Cardinality(At(Tail(internal), {InBuffer}))
    <3>1. Tail(internal) \in Seq(SampleType \cup {InBuffer})
      BY <1>0
    <3>2. a \in Nat /\ b \in Nat /\ d \in Nat
      BY <1>0, <3>1, AtFinite
    <3>3. b = d + (IF Head(internal) \in {InBuffer} THEN 1 ELSE 0)
      BY <1>0, AtTail
    <3>4. a + b + (IF copying THEN 1 ELSE 0) = taken[Master]
      BY <1>0 DEF OneDeliveryEach
    <3> HIDE DEF a, b, d
    <3>5. a < taken[Master] /\ taken[Master] >= 1
      BY <1>0, <1>4, <3>2, <3>3, <3>4
    <3> QED
      BY <2>1, <3>5 DEF a
  <2>3. \A i \in Delivery!Own : delivered[i].number = Mixed \/ delivered[i].number <= taken[Master]
    <3> SUFFICES ASSUME NEW i \in DOMAIN delivered, delivered[i].source = Master
                 PROVE  delivered[i].number = Mixed \/ delivered[i].number <= taken[Master]
      BY DEF Delivery!Own
    <3>1. delivered[i] \in SampleType /\ Queued(delivered, delivered[i])
      BY <1>0 DEF Queued
    <3>2. delivered[i].number = Mixed \/ delivered[i].number \in 0 .. taken[Master]
      BY <1>0, <3>1 DEF NoneInvented
    <3> QED
      BY <1>0, <3>2
  <2>4. y.number \in {taken[Master], Mixed} /\ taken[Master] \in 1 .. taken[Master]
    BY <1>0, <1>4, <2>2
  <2>5. delivered' = Append(delivered, Delivery!Sample(Master, y.number))
    BY <1>1, <1>2, <1>4 DEF Delivery!Sample
  <2>6. Delivery!DeliverOwn
    <3> DEFINE k == taken[Master]
    <3>0. Delivery!Cardinality(Delivery!Own) = Cardinality(Delivery!Own)
      BY DEF Cardinality, Delivery!Cardinality
    <3>1. /\ k \in 1 .. taken[Master]
          /\ Cardinality(Delivery!Own) < taken[Master]
          /\ \A i \in Delivery!Own : delivered[i].number = Mixed \/ delivered[i].number <= k
      BY <2>2, <2>3, <2>4
    <3>2. \E number \in {k, Mixed} : delivered' = Append(delivered, Delivery!Sample(Master, number))
      BY <2>4, <2>5
    <3>3. UNCHANGED taken
      BY <1>0
    <3> HIDE DEF k
    <3> QED
      BY <3>0, <3>1, <3>2, <3>3 DEF Delivery!DeliverOwn
  <2> QED
    BY <2>6 DEF Delivery!Next
<1> QED
  BY <1>1, <1>3, <1>4

(* The code keeps the promise of SampleDelivery: the hardware is given a
   sample of a slave at most once, whatever is relayed, lost or restarted, and
   TotalSample, which the queued samples of the master share, never takes it
   back to an older one (SD_TX, SD_RX, WS_listener, HW_dispatcher). *)
THEOREM DeliversAsPromised == Spec => DeliverySpec
<1>1. Init => Delivery!Init
  BY DEF Init, Delivery!Init
<1>2. IInv /\ DeliveryInv /\ [Next]_vars => [Delivery!Next]_(Delivery!vars)
  <2> SUFFICES ASSUME IInv, DeliveryInv, [Next]_vars
               PROVE  Delivery!Next \/ (taken' = taken /\ delivered' = delivered)
    BY DEF Delivery!vars
  <2>1. CASE UNCHANGED vars
    BY <2>1 DEF vars, samples, hardware
  <2>2. CASE HW_dispatcher
    BY <2>2, DispatchDelivers
  <2>3. CASE Next /\ ~HW_dispatcher
    BY <2>3, OthersDeliverNothing DEF Delivery!Next, Delivery!Take
  <2> QED
    BY <2>1, <2>2, <2>3
<1> QED
  BY <1>1, <1>2, Invariant, PlacesInvariant, PTL DEF Spec, DeliverySpec, Delivery!Spec

=============================================================================
