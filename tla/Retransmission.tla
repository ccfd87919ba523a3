---------------------------- MODULE Retransmission ----------------------------
(***************************************************************************)
(* The retransmission thread of a node and what starts and stops it:       *)
(* src/src/TX/retransmission.c.  Times are in units of the delay between   *)
(* two checks of the thread and are kept relative to the clock: due counts *)
(* down to the time at which a message is to be sent and below 0 once it   *)
(* is overdue; nap counts down to the end of the thread's sleep.           *)
(*                                                                         *)
(* A critical section of Rt.Lock is one step.  Every pass of the thread is *)
(* one such section, except when it gives an NE up: it then lets go of the *)
(* lock, stops the NE, makes the node Outside and takes the lock again,    *)
(* and the listener may run in between.                                    *)
(***************************************************************************)
EXTENDS Integers, FiniteSets, FiniteSetsExt

CONSTANTS
  Delays,       \* the times to a retransmission, for every kind of message:
                \*   range(RETRANSMISSION_DELAY_.._MIN, .._MAX)
  Check,        \* DEFAULT_RETRANSMIT_CHECK
  Late,         \* bound: how much longer than asked for the thread sleeps
  NEAttempts,   \* RETRANSMISSION_ATTEMPTS_NE
  AmmMod,       \* number of values of the bytes .._ret_amm
  NoMsg         \* NULL

Kinds == {"PB", "TB", "PR", "NE", "NER"}

ASSUME DelaysAssumption ==
  /\ Delays \in [Kinds -> SUBSET Nat]
  /\ \A k \in Kinds : Delays[k] # {}
  /\ \A k \in Kinds \ {"PR"} : \A d \in Delays[k] : d >= Check + Late
  /\ Check \in Nat \ {0} /\ Late \in Nat \ {0}
  /\ NEAttempts \in Nat \ {0} /\ AmmMod \in Nat /\ AmmMod > NEAttempts

VARIABLES
  rt,           \* Self.Rt, for each kind:
                \*   msg  .._ret_msg, NULL exactly when the bit is clear
                \*   due  Time_.. less the time now, 0 when the bit is clear
                \*   amm  .._ret_amm, kept for the kinds whose count is read
  thread        \* the retransmission thread: where it is and its nap

retransmission == <<rt, thread>>

On(k) == rt[k].msg # NoMsg

Counted == {"NE", "TB"}
NoRetransmission == [msg |-> NoMsg, due |-> 0, amm |-> 0]

InitRetransmission ==
  /\ rt = [k \in Kinds |-> NoRetransmission]
  /\ thread = [at |-> "asleep", nap |-> 0]

-----------------------------------------------------------------------------
(* A message that is being retransmitted is replaced, and its time and     *)
(* count begin anew.                                                       *)
startRetransmission(k, msg) ==
  \E d \in Delays[k] : rt' = [rt EXCEPT ![k] = [msg |-> msg, due |-> d, amm |-> 0]]

(* The count stays. *)
Stopped(r, k) == [r EXCEPT ![k] = [msg |-> NoMsg, due |-> 0, amm |-> @.amm]]
stopRetransmission(k) == rt' = Stopped(rt, k)

-----------------------------------------------------------------------------
(* The pass of the thread over some kinds *)

Overdue(k) == On(k) /\ rt[k].due < 0

(* Mistake: the transmission is not counted. *)
SentUncounted(k, d) == [msg |-> rt[k].msg, due |-> rt[k].due + d, amm |-> rt[k].amm]

(* What is left of the retransmission k after it was sent, the next time d *)
(* after the one that has passed.                                          *)
Sent(k, d) ==
  [msg |-> rt[k].msg,
   due |-> rt[k].due + d,
   amm |-> IF k \in Counted THEN (rt[k].amm + 1) % AmmMod ELSE rt[k].amm]

(* The overdue ones of kinds are sent. *)
SendOverdue(kinds) ==
  \E d \in [{k \in kinds : Overdue(k)} -> UNION {Delays[k] : k \in Kinds}] :
    /\ \A k \in DOMAIN d : d[k] \in Delays[k]
    /\ rt' = [k \in Kinds |-> IF k \in DOMAIN d THEN Sent(k, d[k]) ELSE rt[k]]

(* Mistake: the sleep is as long as the times allow, without a check in    *)
(* between for what is started meanwhile.                                  *)
WaitsUnchecked(kinds, limit) ==
  LET dues == {rt[k].due : k \in {j \in kinds : On(j) /\ ~Overdue(j)}}
  IN  IF dues = {} THEN {limit} ELSE dues

(* The times after which there may be something to do: the limit and those *)
(* of the kinds that were not overdue.                                     *)
Waits(kinds, limit) ==
  {limit} \cup {rt[k].due : k \in {j \in kinds : On(j) /\ ~Overdue(j)}}

(* The shortest of them (earliest - Act). *)
NapUntilEarliest(at, kinds, limit) ==
  \E nap \in Waits(kinds, limit) :
    /\ \A wait \in Waits(kinds, limit) : nap <= wait
    /\ thread' = [at |-> at, nap |-> nap]

(* Mistake: the count is compared before it grows. *)
GivesUpLate == Overdue("NE") /\ rt["NE"].amm = NEAttempts

(* The last attempt at an NE is about to be made. *)
GivesUp == Overdue("NE") /\ (rt["NE"].amm + 1) % AmmMod = NEAttempts

(* A pass in which no NE is given up. *)
Pass ==
  /\ thread.at = "asleep" /\ thread.nap <= 0
  /\ ~GivesUp
  /\ SendOverdue(Kinds)
  /\ NapUntilEarliest("asleep", Kinds, Check)

(* The last NE is sent; the lock is let go. *)
Pass_GiveUp ==
  /\ thread.at = "asleep" /\ thread.nap <= 0
  /\ GivesUp
  /\ SendOverdue(Kinds \ {"NER"})
  /\ NapUntilEarliest("givingUp", Kinds \ {"NER"}, Check)

GiveUp_Stop ==
  /\ thread.at = "givingUp"
  /\ stopRetransmission("NE")
  /\ thread' = [thread EXCEPT !.at = "stopped"]

(* Self.Status = Outside: a step of the module that has the status. *)
GiveUp_Status ==
  /\ thread.at = "stopped"
  /\ thread' = [thread EXCEPT !.at = "outside"]
  /\ UNCHANGED rt

(* The lock is taken again, for what is left of the pass. *)
Pass_Rest ==
  /\ thread.at = "outside"
  /\ SendOverdue({"NER"})
  /\ NapUntilEarliest("asleep", {"NER"}, thread.nap)

(* Time passes while the thread sleeps; once awake it is not held up. *)
TickRetransmission ==
  /\ thread.at = "asleep" /\ thread.nap > -Late
  /\ thread' = [thread EXCEPT !.nap = @ - 1]
  /\ rt' = [k \in Kinds |->
              [rt[k] EXCEPT !.due = IF On(k) THEN @ - 1 ELSE @]]

=============================================================================
