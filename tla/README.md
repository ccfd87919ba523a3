# Verification of the NP mesh protocol

The repository is a C program: every node of a wireless sensor network runs it, one node as the
**master** (it has a connection to the outside), the others as **slaves**. Nodes reach each other over WF,
a broadcast radio that a local bridge stands in for; wireless sensors hand their samples to a node over WS,
and the master hands what it collects to HW. The protocol (NP) lets slaves enter the network over any number of
hops, finds the way to the master, gives every node a slot in a time table, and brings samples to the master.

This directory models that program in TLA+, checks the models with TLC and proves theorems about
them with TLAPS. The source is the reference: each definition that stands for code is listed in
`PROJECT.json` under `map` with the lines it translates.

## 1. The system

### Threads of a node

| thread | code | what it does |
|---|---|---|
| listener (main thread) | `RX/WF.c` `WF_listener`, `main.c` `handler` | receives a frame, runs one handler to its end |
| dispatcher | `TX/WF.c` `WF_dispatcher` | pops a message, adopts a new time table, sends in its slot |
| retransmission | `TX/retransmission.c` `retransmit` | repeats PB, TB, PR, NE and NER at random intervals |
| WS listener | `RX/WS.c` | takes samples: to `InternalQueue` on the master, `SD_TX` on a slave |
| HW dispatcher | `TX/HW.c` | sends what is in `InternalQueue` to HW (master only) |

They share `Self` (`data_structures/node.h`). Under a lock are the queues (`queue.Lock`), the retransmissions
(`Rt.Lock`), the new time table (`NewTimeTable->Lock`), the routing table (but not in `getBestHop`) and the IP lists. `Status`,
`TB_PBID` and the statics of the handlers are not, and `controlledShutdown` may be called by any thread.

### Components

| component | state | operations | what makes it correct |
|---|---|---|---|
| Network entry, `RX/network.c` | `Status`, `SubSlaves`, `OutsideSlaves`, `OutsidePending`, the NE and NER retransmitted | `NE_RX`, `NEP_RX`, `NER_RX`, `NEA_RX` | who is inside is known to the master; who is answered gets a slot; everybody gets in |
| Time tables, `RX/time_table.c`, `TX/time_table.c`, `message_build.c` | the TB retransmitted with its bitmap, `TB_ret_amm`, `TB_PBID`, `previous_Timetable`, `PBID_IP_TA`, `NewTimeTable` | `beginTBTransmission`, `generateTB`, `TB_RX`, `TA_RX` | tables of one time are equal, later ones only grow, slots are exclusive, the TB ends |
| Dispatcher, `TX/WF.c`, `data_structures/time_table.c` | `TimeTable`, `NewTimeTable`, the clock | the loop, `checkNewTimeTable` | the table followed is one that was made; two nodes do not send at once; a message does not wait for ever |
| Routing conversation, `RX/routing.c`, `TX/routing.c` | the routing table, `RoutingPBIDTable`, `started_waiting`, the PB and PR retransmitted | `PB_RX`, `PR_RX`, `PC_RX`, `createPB` | distances come from real conversations; a proxy has a way to the master |
| Routing table, `routing_table.c`, `utils/equations.c` | a list of entries sorted by distance | insert or update, remove, search, `getBestHop`, `myDistance` | sorted, no entry twice, the best hop is the best |
| Retransmission, `TX/retransmission.c` | for each of five kinds: on or off, message, time, count | start, stop, the loop | what is on has a message; giving up does not undo what happened meanwhile |
| Samples, `RX/application.c`, `TX/application.c` | the routing table and the lists | `SD_TX`, `SD_RX` | a sample reaches the master once |
| Packet queues, `utils/queue.c` | a linked list with a lock | `addToQueue`, `popFromQueue` | priority first, first in first out among equals, no dangling pointer |
| IP lists, `utils/list.c` | a linked list | insert, search, get, remove | no IP twice, positions are right |
| PBID tables, `pbid_table.c` | a linked list of pairs | insert, search, remove | one pair for an IP |
| Messages, `message_build.c`, `utils/messages.c` | none | build, clear | fields at the offsets the handlers read |
| Sockets, WS and HW loops, debug output | sockets | send, receive, print | pure input and output |

### How they interact

A PB that an outside slave hears starts an NE retransmission to its sender, the *proxy*. `NE_RX` at the master registers the
outsider and begins a TB; at a slave it answers NEP and sends an NER towards `getBestHop()`, which every slave on the way
forwards, leaving itself a note in `SubSlaves` and `OutsidePending`. The master answers NEA, which travels back by
those notes. The TB is repeated, with a PBID that grows, until every slave in it has sent a TA: the TA clears the
slave's bit in the TB that is repeated. Slaves send TBs and TAs on for their `SubSlaves`, using PBIDs to
tell new from old. A slave that finds itself in a TB is `Inside` and stores the table in
`NewTimeTable`; its dispatcher adopts it once the clock has passed the table's sync time.

### What is hard

- Frames are lost, delayed and overtake each other; relays duplicate TBs and TAs; NEs and TBs are repeated; answers come late.
- A TB carries no age that `TB_RX` compares, a TA does not say which TB it answers.
- Slaves restart (`controlledShutdown` executes the program anew) and start again with PBID 0 while others remember them; some paths dereference NULL.
- `TB_ret_amm` and the PBIDs are bytes and signed shorts that wrap.
- Five threads, with the state in `Self` partly under locks and partly not.
- Routing is a distance vector over lossy, perhaps one-way links: PBs repeat distances that are out of date, links may be perfect (all distances 0) or worse than
  acceptable (distances wrap), and nothing counts a sample's hops.
- The retransmission thread sleeps while the listener starts, stops and replaces what it is to send, and lets go of its lock in the middle of a pass.
- Slots rest on clocks that differ and sleeps that overshoot.

`PROJECT.json` lists these under `hazards`, each at its line, with the properties that look for it.

## 2. The modules

| module | what it is |
|---|---|
| `NetworkEntry` | the protocol of entry and time tables: all nodes, the air, every handler and retransmission |
| `MCNetworkEntry` | its topologies for TLC |
| `NetworkEntryProofs` | type correctness, the lemmas on what each action does to the tables |
| `NetworkEntrySafetyProofs` | the safety theorems: tables and slots; the ways to the master while no route expires |
| `TimeSlots` | the dispatcher, its clocks and the hand-over of tables from the listener |
| `MCTimeSlots` | its clocks and nodes for TLC |
| `TimeSlotsProofs` | the arithmetic of slots, and the theorems about tables, slots and waiting |
| `RoutingTable` | the routing table of one node, its distances and `getBestHop`, as operators on sequences |
| `RoutingTableProofs` | the lemmas on these operators |
| `SampleDelivery` | the abstract specification of what becomes of samples |
| `RoutingNet` | PB, PR, PC and SD over a network of lossy links, with the routing tables and the loops around WS and HW |
| `MCRoutingNet` | its networks for TLC |
| `RoutingNetProofs` | the theorems about tables, distances, loops and samples, with the refinement of `SampleDelivery` |
| `IPList`, `PbidTable` | the linked lists of addresses and of PBIDs as operators on sequences |
| `Retransmission` | the retransmission thread with its times, counts and lock |
| `Relaying` | the abstract specification of what a node sends on for others |
| `OneNode` | one node that may hear any frame at any time: its handlers, lists, PBID table and retransmission thread |
| `MCOneNode` | its scenes and delays for TLC |
| `OneNodeProofs` | the theorems about the two threads of a node |
| `OneNodeListProofs` | the theorems about its lists, its types and its relaying, with the refinement of `Relaying` |
| `PriorityQueue` | the abstract specification of a packet queue |
| `PacketQueue` | the linked list with its lock and its threads, step by step, on a heap that reuses memory |
| `MCPacketQueue` | its cells, packets and threads for TLC |
| `PacketQueueProofs` | the queue's theorems, with the refinement of `PriorityQueue` |

### NetworkEntry

One action is one handler, run to its end by the listener thread, or one transmission by the retransmission thread; the
names are those of the C functions, with the role of the node in front where a handler does different things on master and slave (`MasterNE_RX`,
`ProxyNE_RX`). Variables are the fields of `Self` and the statics of the handlers (`started` is `started_waiting`,
`prevTable` is `previous_Timetable`), as functions from nodes.

- *Frames.* `net` is a set of records `[to, msg]`: one copy of a broadcast for each neighbour whose handler would do more than compare
  addresses and return. Frames may be received in any order and lost at any time; duplicates come from the retransmissions. When there are more than
  `MaxInFlight`, some are lost.
- *PB, PR, PC* are not kept as frames. As long as a neighbour retransmits a PB, one may be heard, and the conversation it starts may
  end; `Hear` is what these handlers do to the routing table, to the PB and to the wait. An entry is absent, entered by a PB or a sample with no rate yet (`unrated`), or has a rate
  and is UNREACHABLE or usable by its distance (`Rated`). A PB updates the distance of an entry that has a rate and gives none to one that has not. The conversation proper is `RoutingNet`.
- *getBestHop* has three outcomes (`LosesAll`: the process starts anew; `NoHop`: NULL; `BestHops`), and which neighbours have
  expired is any set that expiry from the head of the sorted list can leave (`Expirable`).
  `NE_RX` and `NER_RX` use the NULL: the process is gone (`Crashed`).
- *sync* is the number of the table (`gen`) where the code has a time: the master makes tables one after another, with growing times.
- *The bitmap* of a TB is the set `bits`. `TA_RX` looks for a set bit in one byte more than the bitmap has when the number of nodes is a
  multiple of eight; what is there is any value (`stray`).

### RoutingTable and RoutingNet

A table is the sequence of its entries from the head; `Inserted` is the walk of `routInsertOrUpdateEntry`, with the case of a single entry that puts the newcomer
before one *as far* as it. `getDistance` is the formula of `equations.c` in whole numbers, cut to the width of an unsigned short; rates are counted in fractions
of the highest acceptable loss, which is `Magnitude`. `LastHeard` is a flag: heard within `nextHopTimeout` or not. `LocalPBE` is left out: a frame that is received has a
rate, which is all `getDistance` asks.

`RoutingNet` keeps a channel for each directed link. The actions are the handlers `PB_RX`, `PR_RX`, `PC_RX` (with `PC_RX_Crash`, the NULL it reads through) and `SD_RX` by its
three outcomes, the PB of the retransmission thread, `SD_TX` of the WS listener in two steps, and
the loops of `WS_listener` and `HW_dispatcher` on the master with their one buffer: while the listener copies a sample into it, a delivery may take part of the old and part
of the new (`Mixed`). Faults are steps of their own, counted by `trouble`: a frame lost, a
neighbour not heard for its time, and a restart. No fault is needed for the race of `SD_TX`: between its two steps it holds a pointer into the table, any PB, PR or PC of that neighbour frees the
entry under it (`freed`), and the address then read may be any. PR and PC are put on the link to the node they name only, since all others drop them.
A frame queued before a restart counts as one in the air.

`SampleDelivery` says what may become of samples: a slave's reach HW at most once and under its name, and the master's own, which share a buffer, never more often than they were taken and never an older after a newer. That they do need not be of *distinct* samples: what a queued pointer delivers is what the buffer holds by then.

### IPList, PbidTable, Retransmission and OneNode

`OneNode` is the counterpart of `NetworkEntry`: one node in detail, and neighbours that may send any frame of the scene, in any order and as often as they like. Losses, repetitions, delays
and restarts of the neighbours are therefore all among its behaviours. The lists are sequences with the positions of `list.c`, the PBID table has the pair of zeros that stands for an empty one, and the actions have the
names of the handlers, with the role or outcome behind.

In `Retransmission` a critical section of `Rt.Lock` is one step; the give-up of an NE is four (`Pass_GiveUp`, `GiveUp_Stop`, `GiveUp_Status`, `Pass_Rest`), since the code lets go of the lock in the middle. Times are kept relative to
the clock: `due` counts down to the time of a message, `nap` to the end of the thread's sleep; `TickRetransmission` is time, which may pass the end of the sleep by `Late`.

`Relaying` is the promise: a TA goes on only if it is newer than all of its originator since the time table changed, an NEA only if it was asked for since the last. The refinement maps
`latest` to a search in `PBID_IP_TA` and `asked` to the set of `OutsidePending`, so it is the list operations that keep it.

### TimeSlots

`TB_RX_Locks`/`Unlocks` are the two ends of the critical section in which `TB_RX` (and `generateTB` on the master) stores a table; `Pop`,
`Check` (one turn of the dispatcher loop up to the end of a sleep) and `Send` are the dispatcher; `Tick` is time, which may pass any bounded
amount between reading the clock and handing over (`Delay`) and beyond the end of a sleep (`Late`). Each node's clock has an
offset. The tables are those `NetworkEntry` shows there to be: lists that grow at the head, taken by any node in any order.
`sent` is the time of the hand-over to WF; what WF needs to transmit is outside the program.

### PacketQueue

`Make` is `malloc` and the assignments, `Lock`, `Walk` (one turn of the loop) and `Link` the critical section of `addToQueue`. `Test` is
the test of `Size` *without* the lock, `LockPop` and `Unlink` the critical section of `popFromQueue`, and `Return` reads and frees the
element *after* the lock is released. The heap hands out any free cell, so a dangling pointer would meet new contents. `order` is a history
variable, the cells in the order of the list. `Last` is written and never read, and left out. Each queue has one consumer, as in the program.
`PriorityQueue` says what the queue is for: a packet goes behind those of at least its priority, and the first leaves. The refinement
maps `queue` to the elements of `order` and `out` to the packet unlinked last.

## 3. What TLC checks

| run | instance | what it shows |
|---|---|---|
| `entry_restarts` | chain m0 - s1 - s2, routes expire, samples, crash and restart, bitmap of two bits per byte, PBIDs -3..2, counts mod 2, two TBs, two frames | types; a slave inside is registered; slots of a table are exclusive; promises are kept; only a stale table evicts |
| `entry_chain` | the same chain, both slaves may be proxies, three frames, two TBs | tables agree, who is struck off has a table with a slot for it, proxies have a next hop |
| `entry_live` | m0 and one slave, fairness | it enters; the TB ends |
| `slots_pair` | two nodes, clocks one unit apart, slots of 5 units with 3 of jitter, sleeps and hand-overs late by one | hand-overs keep their distance; no message waits more than a period and the lateness |
| `slots_tables` | three nodes, two tables, slots of two units | types; the table followed is one the master made, with the node's own slot |
| `routing_net` | three nodes in seven networks, see below | types; tables in order; entries used both ways; no optimism; no loops once settled; no crash without a fault; samples dropped only by a fault, in flux or sent astray by a freed pointer; routes settle and samples come to rest; refinement of `SampleDelivery` |
| `one_node` | three neighbours, four scenes, see below | types and times; nothing is sent late; a node that waits sends no NE; lists agree; an NE ends; refinement of `Relaying`; no deadlock |
| `queue` | two producers, four cells, two packets, two priorities | types, list shape, live pointers, an element to pop, refinement of `PriorityQueue`; no deadlock |
| `waiting_forever`, `tb_never_sent`, `no_next_hop`, `slot_minus_one` | small instances of the same | the code does not do what a comment says, see section 5 |

**Bounds.** `MaxTB` two is the smallest number for which an older table can meet a newer one, and `MaxInFlight` three for which a request, a
table and an acknowledgement are under way together. A chain of three nodes has everything that a relay does, since handlers look
only at neighbours and lists. `MaxSends` one or two lets a TB be sent again with a higher PBID; `PbidMax` and `AmmMod` are small so
that they wrap: in `entry_restarts` the PBIDs of TAs and the count of a TB that is under way, which a request then finds at 0, in `entry_live` the PBID of the TB. `NEAttempts` one makes the give-up race with answers. In `TimeSlots`, `MaxTime` covers two periods of two slots after the
table is adopted; `Skew` is a bound on how far two clocks differ, one unit in `slots_pair`. In `PacketQueue` four cells are three elements in the list and one on its way, which is a walk over a
passed element, a link in the middle and one at the end. The theorems below hold without bounds on nodes, cells, priorities and
(but for `MaxTB`, a parameter) messages, and without bounds on time, distances, networks or faults.

*`routing_net`.* Distances go to 16 and the highest acceptable loss is 4, so that distances of one and two hops differ, meet and wrap. The networks are a pair (with the samples of both nodes, and
again with two faults; the master has three samples, for the fewest with which two pointers to its buffer are queued while a third sample is copied into it), a link heard one way only, a triangle whose way around is the shorter, a line with a fault, a line of perfect links and one with a link
that loses more than is acceptable. Those without faults are explored to the end, and `ComesToRest` speaks of these. In `Net` the best distances are given, and
`NetAssumption` has TLC check them against Bellman's equations. `NoLoops` speaks of the states in which every
slave knows its best distance (`Settled`) and hears its next hop (`HopsHeard`), which `ComesToRest` shows to be reached where nothing goes wrong; the line with a fault reaches them after one. Each node keeps at most one PB conversation going: a PB is repeated only when the last one and its answers are through (`Conversing`), since
the shortest PB delay is far longer than an exchange.

*`one_node`.* Times are in units of the check of the thread, with an oversleep of one; the delays are those of `protocol.h`, in seconds. Two attempts at
an NE are the fewest for which the count and its reset matter, three PBIDs with a negative one for which a TA can be older, newer and
equal. The scenes split the frames by the part of the node they concern, since nothing a scene leaves out reads or writes what the scene is about: entering and leaving with
the NE, its give-up and an outsider of its own; three outsiders and the lists; a relay of three originators, so that a pair is removed from the head, the middle and
the end, and as the only one; the master with a TB.

**Deadlock** is checked for the queue, where a producer that finds memory can always add, and for `OneNode`, whose thread and clock never stop. In the others the bounds end every behaviour, and a slave
may wait with nothing armed, so it is not checked.

**Fairness** (`FairSpec` of `NetworkEntry`, for a network of one hop): weak for `RetransmitTB` (the thread loops and sleeps at most a
second), weak for hearing the master's PB (it is repeated for ever and started in `main`), strong for the receipt of TBs
at a slave and of NEs and TAs at the master (they are sent again and again, and not all are lost). Nothing is assumed of NEP or
of the NE give-up. Nothing is claimed of several hops: section 6.
`FairSpec` of `RoutingNet` is weak fairness of every handler, of the PB of every node and of the loops, in the networks without faults. That a PB is sent at all although each PC starts its timer anew rests on the
timer's random length. `FairSpec` of `OneNode` is weak fairness of the clock and the thread together; nothing is assumed of what is heard, and `NEEnds` says what follows:
an NE ends unless PBs go on starting it anew.

**Mutants.** Each property has a mutant of the code in `PROJECT.json` under which TLC finds it violated.

## 4. What is proved

All theorems are checked by TLAPS to the last leaf, for every value of the constants that the named assumptions allow
(`NodesAssumption`, `NumbersAssumption`, `NoneAssumption`, `QueueAssumption`, `DelaysAssumption`, `OneNodeAssumption`,
`TimeAssumption`, `TableAssumption`, `NetAssumption`). Every invariant, action property and refinement that a passing run checks is also a theorem, all but
the four liveness properties.

**NetworkEntry**, any number of slaves, any topology, any bound on frames:

- `TypeCorrect`: `Spec => []TypeOK`, one lemma for each action.
- `TablesAlwaysAgree`: `Spec => []TablesAgree`. The inductive invariant is `AgreeInv == TypeOK /\ TablesAgree`. The table of a slave alone is
  not inductive: what a slave will take next is in the air, so `Tables` gathers those in TBs in flight, those held and the one the master repeats, and says of every
  two that the later lists all the earlier does and that one time has one table. Lemma `NextKind` shows that every step is *quiet* (no table appears that
  did not exist, `tbGen` stays, lists only grow) or *generates* (one table appears, of a new time, from all the registered); the rest is about
  these two kinds only, not about the twenty actions.
- `SlotsAlwaysExclusive` follows: equal times are equal tables, and a slot is the place of the node in its table.
- `InsideAlwaysRegistered` uses `InsideInv`: a slave becomes `Inside` by a TB that lists it, and every table lists registered slaves only.
- `PromisesAlwaysKept`: an answer is put in the air only with a new table that lists the outsider, and later tables only grow.
- `OnlyStaleTablesEverEvict`: a step that takes a slot away took a TB without the slave; by the order of tables it is older than the slave's.
- `ProxiesAlwaysHaveNextHop` and `StruckOffAlwaysHasTable`, for networks in which no route expires. The inductive invariant is `WaysInv`: nobody has crashed; who repeats a PB knows a way, and so does
  every usable neighbour (`WaysHold`); an NE or NER, in the air or repeated, goes to a node that knows one (`Asked`); and a TA, as well as a bit cleared in the repeated TB, is of a slave that has taken a
  table (`Acknowledged`). `StruckOffAlwaysHasTable` adds that this slave still holds one, which is what a slave with a table does not lose short of a restart: its number is one of the master's, it lists the slave itself,
  and all it lists are in the TB that is repeated (from `AgreeInv`). It need not be the same table: the TA of an older one clears the bit as well. `WaysHold`, `Asked` and `Acknowledged` need each other: only who is asked needs a next hop, and who is asked was heard with a PB. Every step *advances*: ways once known stay, and what is new is of this kind (`Advances`).

**TimeSlots**, any number of nodes, sizes of slots, jitter and clocks that differ by at most `Skew`:

- `TypeCorrect`; `TablesAreMade`: `Spec => []FollowsMadeTable`.
- `SlotsKeepApart`: `Spec => []HandOversApart`. What is inductive is not the distance of two hand-overs but, for each node, that what it hands over it could have sent by its clock at most `Delay` before
  (`InTime`). The distance is then arithmetic: lemma `SlotsApart` says of any two readings of the clock that lie in different slots of one table, each at least `Jitter` from its end, how far apart they are, and lemma
  `UniqueQuotient` that a time lies in one period only.
- `WaitsAreBounded`: `Spec => []WaitBounded`. `Waits` says that a message makes the dispatcher sleep once at most, up to the beginning of its slot (`SlotBegins`); lemma `AwakeInSlot` that it
  then wakes up in the slot, as long as a sleep does not outlast it.

`IInv == Typed /\ Keeps`; `Keeps` has, besides, that every table kept, adopted or used for a hand-over is a whole one the master made (`KeepsMade`), and that a slot is missing only because a table left the node out or
while a listener holds the lock.

**PacketQueue**, any number of producers, cells, packets and priorities:

- `QueueTypeCorrect`, `ListStaysInOnePiece`, `PointersNeverDangle`, `PopFindsAnElement`: the runs' invariants.
- `QueueKeepsItsPromise`: `Spec => AbstractQueue`. `Link` is `Add`, `Unlink` is `Pop`, all else stutters.

The inductive invariant `QueueInv` adds to the checked invariants that a thread is in its critical section when, and only when, it holds the
lock (`Locked`), that allocated cells are filled and unlinked elements have no successor (`Filled`), that the list is sorted (`Sorted`) and that a producer that walks has passed a prefix
of it with at least its own priority (`Walkers`). `PopsInPlace` is what makes the test of `Size` without the lock safe; it is inductive because only the
consumer takes elements away. `LinkEffect` says what the pointer assignments of `addToQueue` do to the list, and all else is drawn from it.

**OneNode**, any neighbours, frames, tables, delays and oversleep:

- `RetransmissionsInTime`: `Spec => []SentInTime`. The argument is `TimesKept`: while the thread sleeps, whatever is on is due no earlier than the end of the sleep. What the thread itself left on
  it took into account; what the listener starts is due after at least `Check + Late`, more than any sleep; the TB, due at once, is the one exception, and may have to wait for one check. In the middle of a give-up
  the NER has not been looked at yet, so for it only the oversleep holds (`Slack`). `DelaysAssumption` asks the same of the delays as `protocol.h` gives: for the kinds that are ever started the shortest is above a check and an oversleep.
- `WaitsQuietly`: `Spec => []WaitingSendsNoNE`. It is inductive beside `RtTyped`: every handler does one of five things to the retransmissions (`Handled`), only `PB_RX` starts an NE and that
  when the node is outside, and only `NEP_RX`, which stops the NE, makes it wait.
- `TypesHold`: `Spec => []TypeOK`, times and counts included: nothing is due later than its longest delay, and an NE is counted to `NEAttempts` at most.
- `ListsStayInAgreement`: `Spec => []ListsAgree`, inductive with the types of the lists. The lemmas say what `insertIPList`, `removeFromList` and the search do to the set of a list without duplicates.
- `RelaysAsPromised`: `Spec => RelayingSpec`, the refinement of `Relaying`. The invariant is `PromiseInv`: the lists agree, and `PBID_IP_TA` has no address twice and its pair of zeros only alone
  (`IsPbidTable`). Lemmas `PairRemoved` and `PairInserted` say what `pbid_table.c` does to what a search finds: for the address in question and for all others, with the removal of the head, the middle, the end and the
  only pair.

**RoutingNet**, any nodes, links, losses, bounds of distances, numbers of samples and of faults. `RoutingTableProofs` has the lemmas: a distance is in its range and, over a link of acceptable loss, at least that of the
neighbour, and monotone (`DistanceMonotone`); what insertion, update, removal and expiry do to order and entries. `IInv` says of the tables, the PBs and the frames of every link what the handlers rely on: entries only for
neighbours, not nearer than the best paths, with the rate of the link if it was reported and the link works both ways; the same of the distances that PBs and frames carry; and, where nothing went wrong, that a PR or PC is only under way between nodes that
know each other.

- `TypeCorrect`; `TablesStayInOrder`; `RatesAreOfUsableLinks` (`UsedBothWays`).
- `DistancesAreHonest`: `NeverOptimistic`. What is in the air counts too: a distance received is one that was sent.
- `NoProcessDies`: `NoCrash`, from who knows whom: the sender of a PC is in the table of whoever gets it.
- `NoCirclesOnceSettled`: `Spec => []NoLoops`. A node's next hop has a smaller best distance than the node, since distances are never optimistic; of any set of slaves one has the least.
- `SamplesDropOnlyInFlux`: `Spec => DroppedInFlux`, in all networks. A step that drops a sample under way is itself a fault, or is taken while some slave is not inside, does not know its best path or does not hear the next
  hop on it (`~Steady`), or the sample was sent by a pointer to a freed entry (`Misled`), by which it is handed to nobody, or to a node with no path. Every other step leaves a sample somewhere on its way or in `InternalQueue` (`StepMoves`), and where paths are steady
  whoever passes one on has a next hop (`HeadStays`, `RelayHasHop`): its own head does not go away while it looks, although `SD_RX` has just entered the source in the table. Without `Misled` the run finds the race in a network that has no fault.
- `DeliversAsPromised`: `Spec => DeliverySpec`, the refinement of `SampleDelivery`, in all networks, faults or not. The invariant `DeliveryInv`: a sample of a slave is in one place only (the WS listener of its source, one frame
  that somebody still accepts, `InternalQueue`, or delivered: `OnceInAir`, `OnceQueued`, `InOnePlace`), none is invented, and the samples the master took are as many as its deliveries, its queued pointers and the copy under way
  (`OneDeliveryEach`).

**What the proofs found.** Two properties that TLC had found to hold could not be proved, and were wrong.

- `DeliverySpec` did not hold with a third sample of the master: while it is copied, the pointers of the first two may be both in the queue, and an abstract specification that let each sample be delivered once did not
  allow for what they deliver. `HW_dispatcher` gave the sample before where a copy was under way; the buffer is then a mixture. Two samples were too few to show it. The instance now has three, and the specification says what the code does.
- `NoLoops` used to say that without faults there is never a circle. In a network of six nodes there is: let m-y-x-b-a-c be a line with a link m-x besides. A PB that repeats the greater distance b had before a PR
  told it a better one makes a's distance rise, and sends a to c, whose own way goes by a. TLC, led along this trace, confirms it; the networks of three nodes that it explores in full have no such circle. The property is now about settled networks, where it
  is true and proved, and the passing circle is listed in section 6.

**Model-checked only.** Liveness (`EverySlaveEnters`, `TBEnds`, `NEEnds`, `ComesToRest`), since fairness is out of the prover's reach; that the instances reach what the theorems assume, such as settled networks; and the four
runs of section 5.

## 5. Where code and comments differ

| run | what happens |
|---|---|
| `waiting_forever` | `protocol.h:49` gives the wait a time; it is armed in `PB_RX` but entered in `NEP_RX`, so a late NEP starts a wait without end |
| `tb_never_sent` | `TX/time_table.c:30` takes `TB_ret_amm # 0` for a TB already sent; the count is not reset for a new TB |
| `no_next_hop` | `routing_table.c:122` announces a controlled shutdown, returns NULL, and the callers dereference it |
| `slot_minus_one` | `data_structures/time_table.h:10` has slots from 0; a TB without the node leaves -1 beside the sync time of a stored table |

## 6. What is not modelled

- Sockets, the bridge, argument parsing, debug output: pure input and output.
- Byte offsets and sizes in messages: handlers and builders agree on them or nothing works; a test shows it.
- Floating point: `RoutingTable` computes in whole numbers and keeps the order, the ends of the scale and the wrap at its width. `NetworkEntry` keeps of a distance what decides there (absent,
  UNREACHABLE, usable).
- The distance that a PR carries in `NetworkEntry` is that of its sender when it is heard, where the code has that of the moment it was built: a PR that is late is one heard earlier, unless its receiver has dropped the entry in between. `RoutingNet`
  has PBs, PRs and PCs as frames with their own distances.
- `sendNetStats` of the master's `TA_RX`, which queues a report for the hardware once the bitmap is empty (`RX/time_table.c:165`): it changes nothing that the protocol reads.
- PBIDs of the routing conversation: they have no effect on it (a guard `|| 1` in `PB_RX`, two branches alike in `PC_RX`).
- Two walks of the routing table at the same time (`getBestHop` has no lock): a handler and `SD_TX` are atomic, only the pointer that `getBestHop` returns is used later.
- Two-step sleeps of `controlledShutdown`: a restart is one step. PR is never retransmitted by the program (`startRetransmission(rPR)` has no caller), so its slot is only cleared.
- `L->Last` of an address list, which `removeFromList` may leave dangling: nothing inserts at the end.
- Liveness over several hops and restarts: nothing bounds how often routes expire and nodes restart, and one TA whose originator has
  restarted keeps the TB going (a hazard in `PROJECT.json`).
- What the models show of the code and no comment denies, so that it is not in section 5: over perfect links two slaves may prefer each other for good (the premise `Growing` of `NoLoops`); until a network has settled, a PB
  with an old distance may close a circle for a while (the premise `Settled`), and so may a next hop that expires (`HopsHeard`); beyond the
  acceptable loss a distance wraps to a short one (`NeverOptimistic` is about acceptable rates); a PC after its sender's entry expired kills the process (`NoCrash` is about networks without faults); a node that was once
  the proxy of an outsider swallows the NEAs for a later proxy behind it, whose NER is then repeated for ever (`network.c:143`); giving an NE up stops one that was started meanwhile for another proxy.
- The time WF takes to send: the comment in `TX/WF.c` that would account for it is switched off in the code.

## 7. Plan

Done: network entry and time tables; time slots; packet queues; routing and samples; one node with its retransmissions, lists and relays; a theorem for every safety property and both refinements that were left. What remains:

1. `NetworkEntry` with routes that expire: which of `WaysInv` survives until the first expiry, and what a proxy can still count on afterwards.
2. An abstract specification of the entry itself (who is outside, asked for, registered, in a table), and `NetworkEntry` shown to implement it.
3. `RoutingNet`: a bound on the next hop's distance also while the network settles, from the time a PB may be old.
4. Hazards without a property, each with its reason in `PROJECT.json`: the stray byte of `time_table.c:157`, the PBID of a restarted slave (`time_table.c:171`), `OutsideSlaves` that never shrinks (`network.c:143`), the one NER slot of a proxy (`network.c:45`), the give-up after
   a TB (`retransmission.c:154`), two slaves that prefer each other over perfect links (`routing_table.c:225`), the PB timer that every PC starts anew (`routing.c:163`).
5. `entry_live` with two slaves: which fairness of their requests the code justifies while one keeps the other's TB waiting.
