---------------------------- MODULE RoutingTable ----------------------------
(***************************************************************************)
(* The routing table of a node (src/src/data_structures/routing_table.c    *)
(* and utils/equations.c) as operators on a sequence of entries, the head  *)
(* of the list first.                                                      *)
(*                                                                         *)
(* An entry holds the neighbour, the distance to the master it last        *)
(* advertised, the bit error rate it last reported for this node's frames  *)
(* (RemotePBE), and whether it was heard within nextHopTimeout (LastHeard, *)
(* as the only thing the code asks of it).  LocalPBE is left out: every    *)
(* frame that is received has a rate below WORST_QUALITY, which is all     *)
(* that getDistance asks of it.                                            *)
(*                                                                         *)
(* A rate is counted in units of HIGHEST_LOSS_ACCEPTABLE / Magnitude, so   *)
(* that Magnitude stands for the highest loss acceptable; it may be        *)
(* larger.                                                                 *)
(***************************************************************************)
EXTENDS Integers, Sequences, SequencesExt

CONSTANTS
  UNREACHABLE,    \* the largest unsigned short
  WORST_QUALITY,  \* the RemotePBE of a neighbour that has not reported one
  Magnitude,      \* HIGHEST_LOSS_ACCEPTABLE, in the units of the rates
  NoHop           \* the NULL that getBestHop returns

ASSUME TableAssumption ==
  /\ UNREACHABLE \in Nat \ {0}
  /\ Magnitude \in Nat \ {0}
  /\ WORST_QUALITY \notin Nat

(* Mistake: LastHeard is not set. *)
EntryNotHeard(ip, distance, remotePBE) ==
  [ip |-> ip, distance |-> distance, remotePBE |-> remotePBE, fresh |-> FALSE]

Entry(ip, distance, remotePBE) ==
  [ip |-> ip, distance |-> distance, remotePBE |-> remotePBE, fresh |-> TRUE]

(* Mistake: the sum is kept in an int. *)
getDistanceInt(e) ==
  IF e.remotePBE = WORST_QUALITY \/ e.distance = UNREACHABLE
  THEN UNREACHABLE
  ELSE e.distance + (e.remotePBE * (UNREACHABLE - e.distance)) \div Magnitude

(* The distance to the master by way of an entry, cut to an unsigned short:
   beyond the highest loss acceptable the sum exceeds UNREACHABLE and wraps. *)
getDistance(e) ==
  IF e.remotePBE = WORST_QUALITY \/ e.distance = UNREACHABLE
  THEN UNREACHABLE
  ELSE (e.distance + (e.remotePBE * (UNREACHABLE - e.distance)) \div Magnitude)
         % (UNREACHABLE + 1)

Usable(e) == getDistance(e) # UNREACHABLE

Knows(table, ip) == \E i \in DOMAIN table : table[i].ip = ip
Place(table, ip) == CHOOSE i \in DOMAIN table : table[i].ip = ip
routSearchByIp(table, ip) == table[Place(table, ip)]

routRemoveEntry(table, ip) ==
  IF Knows(table, ip) THEN RemoveAt(table, Place(table, ip)) ELSE table

routUpdateLastHeard(table, ip) ==
  IF Knows(table, ip)
  THEN [table EXCEPT ![Place(table, ip)].fresh = TRUE]
  ELSE table

(* The walk to where an entry that is not in the table goes passes those that
   are not farther, except that it goes before a single one as far as it. *)
Passed(table, e, i) ==
  \/ getDistance(table[i]) < getDistance(e)
  \/ getDistance(table[i]) = getDistance(e) /\ Len(table) > 1

InsertPlace(table, e) ==
  CHOOSE p \in 1 .. Len(table) + 1 :
    /\ \A i \in 1 .. p - 1 : Passed(table, e, i)
    /\ p <= Len(table) => ~Passed(table, e, p)

Inserted(table, e) == InsertAt(table, InsertPlace(table, e), e)

(* Mistake: an entry that is there is updated in its place. *)
UpdateInPlace(table, ip, distance, remotePBE) ==
  IF Knows(table, ip)
  THEN [table EXCEPT ![Place(table, ip)] = Entry(ip, distance, remotePBE)]
  ELSE Inserted(table, Entry(ip, distance, remotePBE))

routInsertOrUpdateEntry(table, ip, distance, remotePBE) ==
  Inserted(routRemoveEntry(table, ip), Entry(ip, distance, remotePBE))

(* getBestHop first drops the entries at the head that were not heard from
   in time ... *)
Unexpired(table) ==
  LET from == CHOOSE k \in 1 .. Len(table) + 1 :
                /\ \A i \in 1 .. k - 1 : ~table[i].fresh
                /\ k <= Len(table) => table[k].fresh
  IN  SubSeq(table, from, Len(table))

(* ... restarts the node when that leaves none ... *)
LosesLast(table) == table # <<>> /\ \A i \in DOMAIN table : ~table[i].fresh

(* Mistake: the list is taken from its other end. *)
LastHop(table) ==
  IF table = <<>> \/ ~Usable(table[1]) THEN NoHop ELSE table[Len(table)].ip

(* ... and otherwise returns the neighbour at the head, unless it is
   unreachable. *)
HeadHop(table) ==
  IF table = <<>> \/ ~Usable(table[1]) THEN NoHop ELSE table[1].ip

getBestHop(table) == HeadHop(Unexpired(table))

(* Mistake: the distance of the neighbour, without the link to it. *)
FirstNeighbourDistance(table) ==
  IF table = <<>> THEN UNREACHABLE ELSE table[1].distance

(* The distance a slave advertises. *)
FirstDistance(table) ==
  IF table = <<>> THEN UNREACHABLE ELSE getDistance(table[1])

-----------------------------------------------------------------------------
(* The entries are in the order of their distances, one for a neighbour: the
   head is the best hop and is not hidden by an older entry. *)
InOrder(table) ==
  \A i, j \in DOMAIN table : i < j =>
    /\ getDistance(table[i]) <= getDistance(table[j])
    /\ table[i].ip # table[j].ip

=============================================================================
