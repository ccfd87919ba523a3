---------------------------- MODULE MCRoutingNet ----------------------------
(***************************************************************************)
(* RoutingNet over small networks, with distances up to 16 and the highest *)
(* loss acceptable cut into quarters.                                      *)
(***************************************************************************)
EXTENDS RoutingNet

CONSTANTS m, a, b

(* Links that hear both ways with the same loss. *)
Pairs(losses) ==
  [l \in UNION {{p, <<p[2], p[1]>>} : p \in DOMAIN losses} |->
     IF l \in DOMAIN losses THEN losses[l] ELSE losses[<<l[2], l[1]>>]]

Net(loss, bestA, bestB, ofM, ofA, ofB, faults) ==
  [loss |-> loss, trouble |-> faults,
   best |-> (m :> 0 @@ a :> bestA @@ b :> bestB),
   samples |-> (m :> ofM @@ a :> ofA @@ b :> ofB)]

(* a next to the master; the samples of both meet in one queue. *)
Pair == Pairs(<<m, a>> :> 1)

(* a hears the master and is not heard: its way is by b. *)
OneWay == Pairs(<<m, b>> :> 1 @@ <<b, a>> :> 1) @@ (<<m, a>> :> 1)

(* a hears only b. *)
Line == Pairs(<<m, b>> :> 1 @@ <<b, a>> :> 1)

(* The way from a to the master by b is shorter than the direct one; a link
   loses more in one direction than in the other. *)
Triangle == Pairs(<<m, a>> :> 3 @@ <<b, a>> :> 1) @@ (<<m, b>> :> 2 @@ <<b, m>> :> 1)

(* Links that lose nothing, so that every distance is 0. *)
Perfect == Pairs(<<m, b>> :> 0 @@ <<b, a>> :> 0)

(* One link loses more than is acceptable. *)
Lossy == Pairs(<<m, b>> :> 1 @@ <<b, a>> :> 5)

MCNetworks ==
  {Net(Pair, 4, 16, 3, 1, 0, 0), Net(Pair, 4, 16, 1, 2, 0, 2),
   Net(OneWay, 7, 4, 0, 1, 0, 0), Net(Triangle, 7, 4, 0, 0, 0, 0),
   Net(Line, 7, 4, 0, 0, 0, 1), Net(Perfect, 0, 0, 0, 0, 0, 0),
   Net(Lossy, 0, 0, 0, 0, 0, 0)}

=============================================================================
