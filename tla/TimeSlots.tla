----------------------------- MODULE TimeSlots -----------------------------
(***************************************************************************)
(* When a node sends: the WF dispatcher and the time table it follows.     *)
(*                                                                         *)
(* The listener thread stores the time table of every TB it takes in       *)
(* NewTimeTable, under a lock.  The dispatcher thread waits for a message, *)
(* reads its clock, adopts the new table if its time has come, and hands   *)
(* the message to WF at once when it follows no table or the clock is in   *)
(* its own slot; otherwise it sleeps and reads the clock again.            *)
(*                                                                         *)
(* Source: src/src/TX/WF.c, data_structures/time_table.c, the end of       *)
(* generateTB in data_structures/message_build.c and the beginning of      *)
(* TB_RX in RX/time_table.c.  Times are whole units.  The tables are those *)
(* of NetworkEntry: the master makes them, any node may take any of them,  *)
(* late and in any order.                                                  *)
(***************************************************************************)
EXTENDS Integers, Sequences, FiniteSets, Functions

CONSTANTS
  Master,        \* the node that runs with IsMaster
  Slaves,        \* the other nodes
  None,          \* no table, no message
  Offset,        \* Offset[n]: how far the clock of n is ahead
  Skew,          \* how far two clocks differ at most
  Validity,      \* DEFAULT_VALIDITY_DELAY
  TimeslotSize,  \* DEFAULT_TIMESLOT_SIZE
  Jitter,        \* TRANSMISSION_JITTER
  Delay,         \* longest time from reading the clock to the hand-over
  Late,          \* longest time a sleep exceeds what was requested
  MaxTables,     \* bound: time tables the master makes
  MaxMessages,   \* bound: messages the dispatchers are given, together
  MaxTime        \* bound: time

Nodes == {Master} \cup Slaves

(* A table as the master makes it: its sync time and the nodes in it. *)
Made == [sync : Nat \ {0}, ips : Seq(Nodes)]

ASSUME TimeAssumption ==
  /\ Master \notin Slaves /\ IsFiniteSet(Slaves)
  /\ Offset \in [Nodes -> Nat]
  /\ Skew \in Nat /\ \A n1, n2 \in Nodes : Offset[n1] - Offset[n2] <= Skew
  /\ Validity \in Nat \ {0}
  /\ TimeslotSize \in Nat /\ Jitter \in Nat /\ Jitter < TimeslotSize
  /\ Delay \in Nat
  /\ Late \in Nat
  /\ None \notin Made
  /\ MaxTables \in Nat /\ MaxMessages \in Nat /\ MaxTime \in Nat

VARIABLES
  now,      \* real time
  made,     \* the tables made so far, the last one last
  taking,   \* the table whose TB_RX holds the lock of NewTimeTable
  new,      \* Self.NewTimeTable
  table,    \* Self.TimeTable, which only the dispatcher uses
  popped,   \* number of messages popped so far
  pc,       \* what the dispatcher does next: "pop", "check" or "send"
  from,     \* when it begins to do so, or read the clock to send
  since,    \* when it popped the message or adopted the table, if later
  sent      \* its last hand-over, unless it followed no table

clockVars == <<now, made>>
newVars   == <<taking, new>>
sendVars  == <<table, popped, pc, from, since, sent>>
vars == <<clockVars, newVars, sendVars>>

Clock(n) == now + Offset[n]

(* A table as a node keeps it: its sync time, the node's slot and how many *)
(* slots there are.  NoTable is one with sync = 0.                         *)
Kept(sync, slot, size) == [sync |-> sync, slot |-> slot, size |-> size]
NoTable == Kept(0, 0, 1)

Init ==
  /\ now = 0
  /\ made = <<>>
  /\ taking = [n \in Nodes |-> None]
  /\ new = [n \in Nodes |-> NoTable]
  /\ table = [n \in Nodes |-> NoTable]
  /\ popped = 0
  /\ pc = [n \in Nodes |-> "pop"]
  /\ from = [n \in Nodes |-> 0]
  /\ since = [n \in Nodes |-> 0]
  /\ sent = [n \in Nodes |-> None]

-----------------------------------------------------------------------------
(* The listener and retransmission threads *)

(* The lists the master may have by now: it adds those it learns of at the *)
(* head (see Insert in NetworkEntry).                                      *)
Grown ==
  LET ips == IF made = <<>> THEN <<Master>> ELSE made[Len(made)].ips
      unknown == Slaves \ Range(ips)
  IN  UNION {{<<Master>> \o learnt \o Tail(ips) :
                learnt \in {l \in [1 .. k -> unknown] : IsInjective(l)}} :
             k \in 0 .. Cardinality(unknown)}

(* The master makes a table of itself and the nodes it knows, one at least *)
(* as it was asked to, and begins to store it.                             *)
generateTB(ips) ==
  LET sync == Clock(Master) + Validity IN
  /\ Len(made) < MaxTables
  /\ Len(ips) > 1
  /\ taking[Master] = None
  /\ \A i \in DOMAIN made : made[i].sync < sync
  /\ made' = Append(made, [sync |-> sync, ips |-> ips])
  /\ taking' = [taking EXCEPT ![Master] = [sync |-> sync, ips |-> ips]]
  /\ UNCHANGED <<now, new, sendVars>>

(* Mistake: slots are numbered from one. *)
SlotFromOne(t, n) == IF n \in Range(t.ips)
  THEN CHOOSE i \in 1 .. Len(t.ips) : t.ips[i] = n ELSE -1

(* The place of n in t, or -1. *)
SlotIn(t, n) == IF n \in Range(t.ips)
  THEN (CHOOSE i \in 1 .. Len(t.ips) : t.ips[i] = n) - 1 ELSE -1

(* TB_RX takes the lock and forgets the slot of the table before. *)
TB_RX_Locks(n, t) ==
  /\ n \in Slaves
  /\ taking[n] = None
  /\ taking' = [taking EXCEPT ![n] = t]
  /\ new' = [new EXCEPT ![n].slot = -1]
  /\ UNCHANGED <<clockVars, sendVars>>

(* It has looked for its slot; without one it leaves the rest as it was.   *)
(* The master always has the first.                                        *)
Unlocks(n) ==
  LET t == taking[n]
      slot == SlotIn(t, n)
  IN
  /\ t # None
  /\ new' = [new EXCEPT ![n] =
               IF slot = -1 THEN [@ EXCEPT !.slot = -1]
                            ELSE Kept(t.sync, slot, Len(t.ips))]
  /\ taking' = [taking EXCEPT ![n] = None]
  /\ UNCHANGED <<clockVars, sendVars>>

-----------------------------------------------------------------------------
(* The dispatcher *)

(* popFromQueue: there is a message to send. *)
Pop(n) ==
  /\ pc[n] = "pop"
  /\ popped < MaxMessages
  /\ popped' = popped + 1
  /\ pc' = [pc EXCEPT ![n] = "check"]
  /\ from' = [from EXCEPT ![n] = now]
  /\ since' = [since EXCEPT ![n] = now]
  /\ UNCHANGED <<clockVars, newVars, table, sent>>

(* Mistake: the new table is read without the lock. *)
AdoptsUnlocked(n) == new[n].sync # 0 /\ new[n].sync < Clock(n)

(* checkNewTimeTable: when nobody holds the lock. *)
Adopts(n) == taking[n] = None /\ new[n].sync # 0 /\ new[n].sync < Clock(n)

TableSize(t) == t.size * TimeslotSize
SlotTime(t)  == t.sync + t.slot * TimeslotSize

(* Mistakes: the slot is used to its end; the sleep skips a period. *)
InSlotToItsEnd(t, act) == (act - SlotTime(t)) % TableSize(t) < TimeslotSize
NextSlotSkipping(t, act) ==
  TableSize(t) * ((act - SlotTime(t)) \div TableSize(t) + 2) + SlotTime(t)

(* Whether the clock is in the usable part of the slot, and when the slot  *)
(* comes again.                                                            *)
InSlot(t, act) == (act - SlotTime(t)) % TableSize(t) < TimeslotSize - Jitter
NextSlot(t, act) ==
  TableSize(t) * ((act - SlotTime(t)) \div TableSize(t) + 1) + SlotTime(t)

MaySend(t, act) ==
  t.sync = 0 \/ (act >= t.sync /\ act >= SlotTime(t) /\ InSlot(t, act))

SleepsUntil(t, act) ==
  IF act < t.sync THEN t.sync
  ELSE IF act < SlotTime(t) THEN SlotTime(t) ELSE NextSlot(t, act)

(* One turn of the loop up to the hand-over or to the end of the sleep.    *)
Check(n) ==
  LET act == Clock(n)
      t == IF Adopts(n) THEN new[n] ELSE table[n]
  IN
  /\ pc[n] = "check" /\ now >= from[n]
  /\ table' = [table EXCEPT ![n] = t]
  /\ new' = IF Adopts(n) THEN [new EXCEPT ![n].sync = 0] ELSE new
  /\ since' = IF Adopts(n) THEN [since EXCEPT ![n] = now] ELSE since
  /\ pc' = [pc EXCEPT ![n] = IF MaySend(t, act) THEN "send" ELSE "check"]
  /\ from' = [from EXCEPT ![n] =
                IF MaySend(t, act) THEN now ELSE SleepsUntil(t, act) - Offset[n]]
  /\ UNCHANGED <<clockVars, taking, popped, sent>>

(* sendToSocket *)
Send(n) ==
  /\ pc[n] = "send"
  /\ sent' = [sent EXCEPT ![n] =
                IF table[n].sync = 0 THEN None ELSE [at |-> now, in |-> table[n]]]
  /\ pc' = [pc EXCEPT ![n] = "pop"]
  /\ from' = [from EXCEPT ![n] = 0]
  /\ since' = [since EXCEPT ![n] = 0]
  /\ UNCHANGED <<clockVars, newVars, table, popped>>

(* Time passes, but for nobody to be later than assumed. *)
Tick ==
  /\ now < MaxTime
  /\ \A n \in Nodes : /\ pc[n] = "check" => now < from[n] + Late
                      /\ pc[n] = "send" => now < from[n] + Delay
  /\ now' = now + 1
  /\ UNCHANGED <<made, newVars, sendVars>>

Next ==
  \/ \E ips \in Grown : generateTB(ips)
  \/ \E n \in Nodes :
       \/ \E i \in DOMAIN made : TB_RX_Locks(n, made[i])
       \/ Unlocks(n)
       \/ Pop(n) \/ Check(n) \/ Send(n)
  \/ Tick

Spec == Init /\ [][Next]_vars

-----------------------------------------------------------------------------
(* Properties *)

Table == [sync : Nat, slot : Nat \cup {-1}, size : Nat \ {0}]

(* Every variable keeps its type; a slot is below the number of slots.     *)
TypeOK ==
  /\ now \in 0 .. MaxTime
  /\ made \in Seq(Made) /\ Len(made) <= MaxTables
  /\ taking \in [Nodes -> {None} \cup Range(made)]
  /\ new \in [Nodes -> Table] /\ table \in [Nodes -> Table]
  /\ \A n \in Nodes : new[n].slot < new[n].size /\ table[n].slot < table[n].size
  /\ popped \in 0 .. MaxMessages
  /\ pc \in [Nodes -> {"pop", "check", "send"}]
  /\ from \in [Nodes -> Nat] /\ since \in [Nodes -> 0 .. MaxTime]
  /\ sent \in [Nodes -> {None} \cup [at : 0 .. MaxTime, in : Table]]

(* The gap the jitter leaves. *)
Gap == Jitter - Delay - Skew

(* Two nodes that follow the same table hand their messages to WF more     *)
(* than Gap apart, in whichever periods they do: TRANSMISSION_JITTER keeps *)
(* that much of the channel free between the slots, less what clocks and   *)
(* scheduling take of it.  (A node thrown out of the table while it waits  *)
(* for its time adopts slot -1 and is not in it; see SlotsInTable.)        *)
HandOversApart ==
  \A n1, n2 \in Nodes :
    n1 # n2 /\ sent[n1] # None /\ sent[n2] # None =>
      LET h1 == sent[n1]  h2 == sent[n2] IN
      /\ h1.in.sync = h2.in.sync
      /\ h1.in.slot >= 0 /\ h2.in.slot >= 0
      => h1.at - h2.at > Gap \/ h2.at - h1.at > Gap

(* A message waits for one period at most once the node follows a table,   *)
(* as long as a sleep does not outlast the slot it is for.                 *)
WaitBounded ==
  \A n \in Nodes :
    pc[n] # "pop" /\ table[n].sync # 0 /\ Late < TimeslotSize - Jitter =>
      now - since[n] <= TableSize(table[n]) + 2 * Late + Delay

(* The table a node follows is one the master made, as a whole, and its    *)
(* slot is its own, whatever TBs came between storing and adopting it; it  *)
(* has no slot only when some table leaves it out (see SlotsInTable).      *)
FollowsMadeTable ==
  \A n \in Nodes : table[n].sync # 0 =>
    /\ \E i \in DOMAIN made :
         /\ table[n].sync = made[i].sync
         /\ table[n].size = Len(made[i].ips)
         /\ table[n].slot \in {-1, SlotIn(made[i], n)}
    /\ table[n].slot = -1 => \E i \in DOMAIN made : n \notin Range(made[i].ips)

(* data_structures/time_table.h:10: "local slot (0 to N(umber of nodes))". *)
(* A TB that leaves the node out while a table waits for its time leaves   *)
(* it with slot -1, which the dispatcher adopts.                           *)
SlotsInTable == \A n \in Nodes : table[n].sync # 0 => table[n].slot >= 0

=============================================================================
