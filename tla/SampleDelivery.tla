--------------------------- MODULE SampleDelivery ---------------------------
(***************************************************************************)
(* What the network promises about samples: the hardware at the master is  *)
(* given a sample of a slave at most once, under the name of the slave     *)
(* that took it, and may never be given it.  The master's own samples      *)
(* share one buffer: each one taken leads to at most one delivery, of what *)
(* the buffer then holds, which is never older than what was delivered     *)
(* before, or of two samples mixed.  RoutingNet shows that the code keeps  *)
(* this promise.                                                           *)
(***************************************************************************)
EXTENDS Integers, Sequences, FiniteSets

CONSTANTS
  Nodes, Master,
  Mixed         \* the number of a delivery that mixes two samples

VARIABLES
  taken,        \* how many samples the sensors of each node have given
  delivered     \* the samples given to the hardware, in order

vars == <<taken, delivered>>

Sample(source, number) == [source |-> source, number |-> number]

(* The deliveries of samples of the master. *)
Own == {i \in DOMAIN delivered : delivered[i].source = Master}

Init == taken = [n \in Nodes |-> 0] /\ delivered = <<>>

Take(n) == taken' = [taken EXCEPT ![n] = @ + 1] /\ UNCHANGED delivered

DeliverSlave(n) ==
  \E k \in 1 .. taken[n] :
    /\ \A i \in DOMAIN delivered : delivered[i] # Sample(n, k)
    /\ delivered' = Append(delivered, Sample(n, k))
    /\ UNCHANGED taken

DeliverOwn ==
  \E k \in 1 .. taken[Master] :
    /\ Cardinality(Own) < taken[Master]
    /\ \A i \in Own : delivered[i].number = Mixed \/ delivered[i].number <= k
    /\ \E number \in {k, Mixed} :
         delivered' = Append(delivered, Sample(Master, number))
    /\ UNCHANGED taken

Next ==
  \/ \E n \in Nodes : Take(n)
  \/ \E n \in Nodes \ {Master} : DeliverSlave(n)
  \/ DeliverOwn

Spec == Init /\ [][Next]_vars

=============================================================================
