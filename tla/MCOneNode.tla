------------------------------ MODULE MCOneNode ------------------------------
(***************************************************************************)
(* OneNode in four scenes, each with the frames that concern one part of   *)
(* the node; the neighbours are p, q and r.                                *)
(***************************************************************************)
EXTENDS OneNode

CONSTANTS p, q, r, t, u

Scene(role, frames) == [role |-> role, frames |-> frames]

(* It enters and leaves, is asked itself and broadcasts PBs of its own. *)
Entering ==
  Scene("Slave", {TB(t, TRUE), TB(u, FALSE), PB(p, TRUE), PB(q, FALSE), NEP, PC,
                  NE(q), NEA(q)})

(* Three outsiders come directly or by another proxy. *)
Outsiders ==
  Scene("Slave", {TB(t, TRUE)} \cup {NE(o) : o \in {p, q}} \cup {NER(o) : o \in {q, r}}
                   \cup {NEA(o) : o \in IPs} \cup {SD(r)})

(* It relays the TAs of three SubSlaves. *)
Relayer ==
  Scene("Slave", {TB(t, TRUE), TB(u, TRUE)} \cup {NER(o) : o \in IPs}
                   \cup {TA(o, i) : o \in IPs, i \in PBIDs})

(* The master of two nodes. *)
OfMaster ==
  Scene("Master", {PC, NE(p), NER(q), TA(p, 0), TA(q, 0), NEA(q), SD(q)})

MCScenes == {Entering, Outsiders, Relayer, OfMaster}

MCDelays == [PB |-> 3 .. 5, TB |-> 6 .. 7, PR |-> 1 .. 2, NE |-> 2 .. 3, NER |-> 2 .. 3]
MCPBIDs == -1 .. 1

=============================================================================
