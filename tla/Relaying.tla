------------------------------- MODULE Relaying -------------------------------
(***************************************************************************)
(* What a node promises about the messages it sends on for other nodes.    *)
(* A TA goes on only when it is newer than every TA of the same originator *)
(* sent on since the time table began, so a TA never circles; an NEA goes  *)
(* on only for an outsider asked for since the last one, so an NEA never   *)
(* circles either.  OneNode shows that the lists and tables of the code    *)
(* keep this promise.                                                      *)
(***************************************************************************)
EXTENDS Integers

CONSTANTS
  IPs,          \* the other nodes
  PBIDs,        \* the PBIDs of TAs, signed shorts
  NoTA,         \* no TA sent on
  NoTable       \* before the first time table

VARIABLES
  latest,       \* the newest TA sent on of each originator
  timetable,    \* the time table
  asked,        \* the outsiders whose NEA is to go on
  relayed       \* the last TA or NEA sent on

vars == <<latest, timetable, asked, relayed>>

RelayedTA(o, p) == [type |-> "TA", originator |-> o, pbid |-> p]
RelayedNEA(o)   == [type |-> "NEA", outsider |-> o]
Nothing         == [type |-> "none"]

Init ==
  /\ latest = [o \in IPs |-> NoTA]
  /\ timetable = NoTable
  /\ asked = {}
  /\ relayed = Nothing

RelayTA(o, p) ==
  /\ latest[o] # NoTA => latest[o] < p
  /\ latest' = [latest EXCEPT ![o] = p]
  /\ relayed' = RelayedTA(o, p)
  /\ UNCHANGED <<timetable, asked>>

NewTable ==
  /\ timetable' # timetable
  /\ latest' = [o \in IPs |-> NoTA]
  /\ UNCHANGED <<asked, relayed>>

Ask(o) ==
  /\ asked' = asked \cup {o}
  /\ UNCHANGED <<latest, timetable, relayed>>

RelayNEA(o) ==
  /\ o \in asked
  /\ asked' = asked \ {o}
  /\ relayed' = RelayedNEA(o)
  /\ UNCHANGED <<latest, timetable>>

Next ==
  \/ NewTable
  \/ \E o \in IPs, p \in PBIDs : RelayTA(o, p)
  \/ \E o \in IPs : Ask(o) \/ RelayNEA(o)

Spec == Init /\ [][Next]_vars

=============================================================================
