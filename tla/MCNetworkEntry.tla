--------------------------- MODULE MCNetworkEntry ---------------------------
(***************************************************************************)
(* NetworkEntry on small networks.                                         *)
(***************************************************************************)
EXTENDS NetworkEntry, TLC

CONSTANTS m0, s1, s2

(* m0 -- s1 *)
Pair == {s1}
PairLinks == (m0 :> {s1} @@ s1 :> {m0})

(* m0 -- s1 -- s2 *)
Chain == {s1, s2}
ChainLinks == (m0 :> {s1} @@ s1 :> {m0, s2} @@ s2 :> {s1})

=============================================================================
