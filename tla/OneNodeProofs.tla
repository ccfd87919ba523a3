---------------------------- MODULE OneNodeProofs ----------------------------
(***************************************************************************)
(* What the two threads of OneNode keep for all delays and whatever the    *)
(* neighbours send, with proofs.                                           *)
(***************************************************************************)
EXTENDS OneNode, TLAPS

Msgs == {NoMsg, "PB", "TB"} \cup IPs

(* The part of the state that belongs to the retransmissions. *)
RtTyped ==
  /\ scene \in Scenes
  /\ rt \in [Kinds -> [msg : Msgs, due : Int, amm : Int]]
  /\ thread \in [at : {"asleep", "givingUp", "stopped", "outside"}, nap : Int]

(* How long what is started may at the least wait, while the thread sleeps *)
(* for a time nap.  What the rest of a pass has still to look at may be     *)
(* overdue by all that the thread overslept.                               *)
Slack(k) ==
  IF k = "TB" THEN thread.nap - Check
  ELSE IF k = "NER" /\ thread.at # "asleep" THEN -Late
  ELSE thread.nap

(* The thread wakes before anything is overdue by more than it oversleeps. *)
TimesKept ==
  /\ -Late <= thread.nap /\ thread.nap <= Check
  /\ ~On("PR")
  /\ \A k \in Kinds : On(k) => rt[k].due >= Slack(k)

IInv == RtTyped /\ TimesKept /\ WaitingSendsNoNE

-----------------------------------------------------------------------------
(* The ways a step changes the retransmissions *)

Started(k) == \E msg \in Msgs : startRetransmission(k, msg)

(* Every handler leaves the thread where it is; what it does to the        *)
(* retransmissions is one of five things.                                  *)
Handled ==
  \/ UNCHANGED rt
  \/ \E k \in {"PB", "NE", "NER"} : Started(k)
  \/ \E k \in Kinds : stopRetransmission(k)
  \/ \E d \in Delays["PB"] :
       rt' = [Stopped(rt, "PR") EXCEPT !["PB"] = [msg |-> "PB", due |-> d, amm |-> 0]]
  \/ rt' = [rt EXCEPT !["TB"] = [msg |-> "TB", due |-> IF On("TB") THEN @.due ELSE 0,
                                amm |-> @.amm]]

LEMMA FramesTyped ==
  ASSUME scene \in Scenes, NEW f \in scene.frames
  PROVE  f \in Frame
BY OneNodeAssumption

LEMMA ReceiveHandles ==
  ASSUME RtTyped, NEW f \in scene.frames, Receive(f)
  PROVE  Handled /\ UNCHANGED <<thread, scene>>
<1> USE DEF Handled
<1>0. f \in Frame
  BY FramesTyped DEF RtTyped
<1>1. CASE PB_RX_Asks(f)
  <2>1. f.from \in Msgs
    BY <1>0, <1>1 DEF PB_RX_Asks, Heard, Frame, Msgs
  <2> QED
    BY <1>1, <2>1 DEF PB_RX_Asks, Started
<1>2. CASE PB_RX_TimesOut(f)
  BY <1>2 DEF PB_RX_TimesOut, retransmission
<1>3. CASE PC_RX(f)
  BY <1>3 DEF PC_RX
<1>4. CASE NE_RX_Master(f)
  BY <1>4 DEF NE_RX_Master, beginTBTransmission
<1>5. CASE NE_RX_Proxy(f)
  <2>1. f.from \in Msgs
    BY <1>0, <1>5 DEF NE_RX_Proxy, Heard, Frame, Msgs
  <2> QED
    BY <1>5, <2>1 DEF NE_RX_Proxy, Started
<1>6. CASE NEP_RX(f)
  BY <1>6 DEF NEP_RX, Kinds
<1>7. CASE NER_RX(f)
  BY <1>7 DEF NER_RX, beginTBTransmission
<1>8. CASE NEA_RX_Proxy(f)
  BY <1>8 DEF NEA_RX_Proxy, Kinds
<1>9. CASE NEA_RX_Relay(f) \/ TB_RX_Evicted(f) \/ TB_RX_Listed(f) \/ TA_RX_Relay(f) \/ SD_RX(f)
  BY <1>9 DEF NEA_RX_Relay, TB_RX_Evicted, TB_RX_Listed, TA_RX_Relay, SD_RX, retransmission
<1>10. CASE TA_RX_Master(f)
  BY <1>10 DEF TA_RX_Master, Kinds
<1> QED
  BY <1>1, <1>2, <1>3, <1>4, <1>5, <1>6, <1>7, <1>8, <1>9, <1>10, Receive(f) DEF Receive

(* What a handler starts is due only after a check, the first TB aside. *)
LEMMA HandledKeeps ==
  ASSUME RtTyped, TimesKept, Handled, UNCHANGED <<thread, scene>>
  PROVE  RtTyped' /\ TimesKept'
<1> USE DelaysAssumption DEF On, RtTyped, TimesKept, Slack
<1>0. {"PB", "NE", "NER"} \subseteq Kinds \ {"PR", "TB"} /\ {"TB", "PR"} \subseteq Kinds
  BY DEF Kinds
<1>1. CASE UNCHANGED rt
  BY <1>1
<1>2. CASE \E k \in {"PB", "NE", "NER"} : Started(k)
  <2>0. PICK k \in {"PB", "NE", "NER"} : Started(k)
    BY <1>2
  <2>1. PICK msg \in Msgs, d \in Delays[k] :
          rt' = [rt EXCEPT ![k] = [msg |-> msg, due |-> d, amm |-> 0]]
    BY <2>0 DEF Started, startRetransmission
  <2>2. d \in Int /\ d >= Check + Late
    BY <1>0
  <2> QED
    BY <1>0, <2>1, <2>2
<1>3. CASE \E k \in Kinds : stopRetransmission(k)
  BY <1>3 DEF stopRetransmission, Stopped, Msgs
<1>4. CASE \E d \in Delays["PB"] :
             rt' = [Stopped(rt, "PR") EXCEPT !["PB"] = [msg |-> "PB", due |-> d, amm |-> 0]]
  <2>1. PICK d \in Delays["PB"] :
          rt' = [Stopped(rt, "PR") EXCEPT !["PB"] = [msg |-> "PB", due |-> d, amm |-> 0]]
    BY <1>4
  <2>2. d \in Int /\ d >= Check + Late
    BY <1>0
  <2> QED
    BY <1>0, <2>1, <2>2 DEF Stopped, Msgs
<1>5. CASE rt' = [rt EXCEPT !["TB"] = [msg |-> "TB", due |-> IF On("TB") THEN @.due ELSE 0,
                                      amm |-> @.amm]]
  BY <1>0, <1>5 DEF Msgs
<1> QED
  BY <1>1, <1>2, <1>3, <1>4, <1>5 DEF Handled

-----------------------------------------------------------------------------
(* The retransmission thread *)

LEMMA SendOverdueKeeps ==
  ASSUME RtTyped, TimesKept, NEW kinds \in SUBSET Kinds, SendOverdue(kinds)
  PROVE  /\ rt' \in [Kinds -> [msg : Msgs, due : Int, amm : Int]]
         /\ \A k \in Kinds : rt'[k].msg = rt[k].msg
         /\ \A k \in Kinds : Overdue(k) /\ k \in kinds /\ k # "PR" =>
              rt'[k].due >= rt[k].due + Check + Late
         /\ \A k \in Kinds : ~(Overdue(k) /\ k \in kinds) => rt'[k] = rt[k]
<1>1. PICK d \in [{k \in kinds : Overdue(k)} -> UNION {Delays[k] : k \in Kinds}] :
        /\ \A k \in DOMAIN d : d[k] \in Delays[k]
        /\ rt' = [k \in Kinds |-> IF k \in DOMAIN d THEN Sent(k, d[k]) ELSE rt[k]]
  BY DEF SendOverdue
<1>2. DOMAIN d = {k \in kinds : Overdue(k)}
  BY <1>1
<1>3. \A k \in DOMAIN d : d[k] \in Int /\ (k # "PR" => d[k] >= Check + Late)
  BY <1>1, <1>2, DelaysAssumption
<1>4. \A k \in Kinds : rt[k].due \in Int /\ rt[k].amm \in Int /\ rt[k].msg \in Msgs
  BY DEF RtTyped
<1>5. \A k \in Kinds : k \in DOMAIN d =>
        /\ rt'[k] \in [msg : Msgs, due : Int, amm : Int]
        /\ rt'[k].msg = rt[k].msg
        /\ rt'[k].due = rt[k].due + d[k]
  BY <1>1, <1>3, <1>4, DelaysAssumption DEF Sent
<1>6. \A k \in Kinds : k \notin DOMAIN d => rt'[k] = rt[k]
  BY <1>1
<1>7. rt' \in [Kinds -> [msg : Msgs, due : Int, amm : Int]]
  <2>1. \A k \in Kinds : rt'[k] \in [msg : Msgs, due : Int, amm : Int]
    BY <1>5, <1>6 DEF RtTyped
  <2> QED
    BY <1>1, <2>1
<1> QED
  BY <1>2, <1>3, <1>4, <1>5, <1>6, <1>7, DelaysAssumption

(* The nap is no longer than any of the waits and is one of them. *)
LEMMA NapKeeps ==
  ASSUME RtTyped, NEW kinds \in SUBSET Kinds, NEW limit \in Int, NEW at,
         NapUntilEarliest(at, kinds, limit)
  PROVE  /\ thread' = [at |-> at, nap |-> thread'.nap]
         /\ thread'.nap \in Int
         /\ thread'.nap <= limit
         /\ thread'.nap >= 0 \/ thread'.nap = limit
         /\ \A k \in kinds : On(k) /\ ~Overdue(k) => thread'.nap <= rt[k].due
<1>1. PICK nap \in Waits(kinds, limit) :
        /\ \A wait \in Waits(kinds, limit) : nap <= wait
        /\ thread' = [at |-> at, nap |-> nap]
  BY DEF NapUntilEarliest
<1>2. nap = limit \/ \E k \in kinds : On(k) /\ ~Overdue(k) /\ nap = rt[k].due
  BY DEF Waits
<1>3. \A k \in kinds : rt[k].due \in Int
  BY DEF RtTyped
<1>4. limit \in Waits(kinds, limit)
  BY DEF Waits
<1>5. \A k \in kinds : On(k) /\ ~Overdue(k) => rt[k].due \in Waits(kinds, limit)
  BY DEF Waits
<1> QED
  BY <1>1, <1>2, <1>3, <1>4, <1>5 DEF Overdue

(* A pass over all kinds, or over all but the NER. *)
LEMMA PassKeeps ==
  ASSUME RtTyped, TimesKept, thread.at = "asleep", UNCHANGED scene,
         NEW kinds \in {Kinds, Kinds \ {"NER"}},
         NEW at \in {"asleep", "givingUp"}, at = "asleep" => kinds = Kinds,
         SendOverdue(kinds), NapUntilEarliest(at, kinds, Check)
  PROVE  RtTyped' /\ TimesKept'
<1>1. /\ thread' = [at |-> at, nap |-> thread'.nap]
      /\ thread'.nap \in Int
      /\ thread'.nap <= Check /\ thread'.nap >= 0
      /\ \A k \in kinds : On(k) /\ ~Overdue(k) => thread'.nap <= rt[k].due
  BY NapKeeps, DelaysAssumption
<1>2. /\ rt' \in [Kinds -> [msg : Msgs, due : Int, amm : Int]]
      /\ \A k \in Kinds : rt'[k].msg = rt[k].msg
      /\ \A k \in Kinds : Overdue(k) /\ k \in kinds /\ k # "PR" =>
           rt'[k].due >= rt[k].due + Check + Late
      /\ \A k \in Kinds : ~(Overdue(k) /\ k \in kinds) => rt'[k] = rt[k]
  BY SendOverdueKeeps
<1>3. RtTyped'
  BY <1>1, <1>2 DEF RtTyped
<1>4. \A k \in Kinds : On(k)' <=> On(k)
  BY <1>2 DEF On
<1>5. ~On("PR") /\ "PR" \in Kinds
  BY DEF TimesKept, Kinds
<1>6. ASSUME NEW k \in Kinds, On(k)
      PROVE  rt'[k].due >= Slack(k)'
  <2>1. /\ rt[k].due \in Int /\ rt'[k].due \in Int /\ thread.nap \in Int
        /\ Check \in Nat /\ Late \in Nat /\ Check # 0
    BY <1>2, DelaysAssumption DEF RtTyped
  <2>2. -Late <= thread.nap /\ rt[k].due >= IF k = "TB" THEN thread.nap - Check ELSE thread.nap
    BY <1>6 DEF TimesKept, Slack
  <2>3. CASE Overdue(k) /\ k \in kinds
    BY <1>1, <1>2, <1>5, <1>6, <2>1, <2>2, <2>3 DEF Slack
  <2>4. CASE ~Overdue(k) /\ k \in kinds
    BY <1>1, <1>2, <1>6, <2>1, <2>4 DEF Slack
  <2>5. CASE k \notin kinds
    BY <1>1, <1>2, <2>1, <2>2, <2>5 DEF Slack
  <2> QED
    BY <2>3, <2>4, <2>5
<1> QED
  BY <1>1, <1>3, <1>4, <1>5, <1>6, DelaysAssumption DEF TimesKept

LEMMA RestKeeps ==
  ASSUME RtTyped, TimesKept, Pass_Rest, UNCHANGED scene
  PROVE  RtTyped' /\ TimesKept'
<1>0. "NER" \in Kinds /\ "PR" \in Kinds /\ thread.nap \in Int
  BY DEF RtTyped, Kinds
<1>1. /\ thread' = [at |-> "asleep", nap |-> thread'.nap]
      /\ thread'.nap \in Int
      /\ thread'.nap <= thread.nap /\ (thread'.nap >= 0 \/ thread'.nap = thread.nap)
      /\ On("NER") /\ ~Overdue("NER") => thread'.nap <= rt["NER"].due
  BY <1>0, NapKeeps DEF Pass_Rest
<1>2. /\ rt' \in [Kinds -> [msg : Msgs, due : Int, amm : Int]]
      /\ \A k \in Kinds : rt'[k].msg = rt[k].msg
      /\ Overdue("NER") => rt'["NER"].due >= rt["NER"].due + Check + Late
      /\ \A k \in Kinds : ~(Overdue(k) /\ k = "NER") => rt'[k] = rt[k]
  <2>1. SendOverdue({"NER"}) /\ {"NER"} \in SUBSET Kinds
    BY <1>0 DEF Pass_Rest
  <2> QED
    BY <1>0, <2>1, SendOverdueKeeps
<1>3. RtTyped'
  BY <1>1, <1>2 DEF RtTyped
<1>4. \A k \in Kinds : On(k)' <=> On(k)
  BY <1>2 DEF On
<1>5. ASSUME NEW k \in Kinds, On(k)
      PROVE  rt'[k].due >= Slack(k)'
  <2>1. /\ rt[k].due \in Int /\ rt'[k].due \in Int
        /\ Check \in Nat /\ Late \in Nat /\ Check # 0
    BY <1>2, DelaysAssumption DEF RtTyped
  <2>2. /\ -Late <= thread.nap /\ thread.nap <= Check
        /\ rt[k].due >= Slack(k)
    BY <1>5 DEF TimesKept
  <2>3. thread.at = "outside"
    BY DEF Pass_Rest
  <2>4. CASE k = "NER"
    BY <1>0, <1>1, <1>2, <1>5, <2>1, <2>2, <2>3, <2>4 DEF Slack
  <2>5. CASE k # "NER"
    BY <1>0, <1>1, <1>2, <2>1, <2>2, <2>3, <2>5 DEF Slack
  <2> QED
    BY <2>4, <2>5
<1> QED
  BY <1>0, <1>1, <1>3, <1>4, <1>5, DelaysAssumption DEF TimesKept

LEMMA RetransmitKeeps ==
  ASSUME RtTyped, TimesKept, Retransmit
  PROVE  RtTyped' /\ TimesKept'
<1>0. UNCHANGED scene
  BY DEF Retransmit
<1>1. CASE Pass
  BY <1>0, <1>1, PassKeeps DEF Pass
<1>2. CASE Pass_GiveUp
  BY <1>0, <1>2, PassKeeps DEF Pass_GiveUp
<1>3. CASE GiveUp_Stop
  BY <1>0, <1>3, DelaysAssumption
  DEF GiveUp_Stop, stopRetransmission, Stopped, RtTyped, TimesKept, Slack, On, Msgs, Kinds
<1>4. CASE GiveUp_Status
  BY <1>0, <1>4, DelaysAssumption DEF GiveUp_Status, RtTyped, TimesKept, Slack, On
<1>5. CASE Pass_Rest
  BY <1>0, <1>5, RestKeeps
<1> QED
  BY <1>1, <1>2, <1>3, <1>4, <1>5 DEF Retransmit

LEMMA TickKeeps ==
  ASSUME RtTyped, TimesKept, Tick
  PROVE  RtTyped' /\ TimesKept'
<1>1. /\ thread' = [at |-> "asleep", nap |-> thread.nap - 1]
      /\ thread.at = "asleep" /\ thread.nap \in Int /\ thread.nap > -Late
  BY DEF Tick, TickRetransmission, RtTyped
<1>2. ASSUME NEW k \in Kinds
      PROVE  /\ rt'[k] \in [msg : Msgs, due : Int, amm : Int]
             /\ rt'[k].msg = rt[k].msg
             /\ On(k) => rt'[k].due = rt[k].due - 1
  <2>1. rt[k] \in [msg : Msgs, due : Int, amm : Int]
    BY DEF RtTyped
  <2>2. rt'[k] = [rt[k] EXCEPT !.due = IF On(k) THEN @ - 1 ELSE @]
    BY DEF Tick, TickRetransmission
  <2> QED
    BY <2>1, <2>2 DEF On
<1>3. RtTyped'
  <2>1. \A k \in Kinds : rt'[k] \in [msg : Msgs, due : Int, amm : Int]
    BY <1>2
  <2>2. rt' \in [Kinds -> [msg : Msgs, due : Int, amm : Int]]
    BY <2>1 DEF Tick, TickRetransmission
  <2> QED
    BY <1>1, <2>2 DEF Tick, RtTyped
<1>4. \A k \in Kinds : On(k)' <=> On(k)
  BY <1>2 DEF On
<1>5. "PR" \in Kinds
  BY DEF Kinds
<1>6. ASSUME NEW k \in Kinds, On(k)
      PROVE  rt'[k].due >= Slack(k)'
  <2>1. rt[k].due \in Int /\ rt'[k].due = rt[k].due - 1
    <3>1. rt[k].due \in Int
      BY DEF RtTyped
    <3> QED
      BY <1>2, <1>6, <3>1
  <2>2. rt[k].due >= IF k = "TB" THEN thread.nap - Check ELSE thread.nap
    BY <1>1, <1>6 DEF TimesKept, Slack
  <2> QED
    BY <1>1, <2>1, <2>2, DelaysAssumption DEF Slack
<1> QED
  BY <1>1, <1>3, <1>4, <1>5, <1>6, DelaysAssumption DEF TimesKept

-----------------------------------------------------------------------------
(* The status *)

(* Only an outsider starts to ask, and only a node that no longer asks     *)
(* begins to wait.                                                         *)
LEMMA ReceiveWaits ==
  ASSUME RtTyped, WaitingSendsNoNE, NEW f \in scene.frames, Receive(f)
  PROVE  WaitingSendsNoNE'
<1> USE DEF WaitingSendsNoNE
<1>0. {"NE", "PB", "TB", "PR", "NER"} \subseteq Kinds
  BY DEF Kinds
<1>1. CASE PB_RX_Asks(f)
  BY <1>1 DEF PB_RX_Asks
<1>2. CASE PB_RX_TimesOut(f) \/ TB_RX_Evicted(f) \/ TB_RX_Listed(f)
  BY <1>2 DEF PB_RX_TimesOut, TB_RX_Evicted, TB_RX_Listed
<1>3. CASE PC_RX(f)
  <2>1. rt'["NE"] = rt["NE"] /\ status' = status
    BY <1>0, <1>3 DEF PC_RX, Stopped, entry, RtTyped
  <2> QED
    BY <2>1 DEF On
<1>4. CASE NE_RX_Master(f) \/ NER_RX(f)
  <2>1. rt'["NE"] = rt["NE"] /\ status' = status
    BY <1>0, <1>4 DEF NE_RX_Master, NER_RX, beginTBTransmission, entry, RtTyped
  <2> QED
    BY <2>1 DEF On
<1>5. CASE NE_RX_Proxy(f)
  <2>1. rt'["NE"] = rt["NE"] /\ status' = status
    BY <1>0, <1>5 DEF NE_RX_Proxy, startRetransmission, entry, RtTyped
  <2> QED
    BY <2>1 DEF On
<1>6. CASE NEP_RX(f)
  BY <1>0, <1>6 DEF NEP_RX, stopRetransmission, Stopped, On, RtTyped
<1>7. CASE NEA_RX_Proxy(f) \/ TA_RX_Master(f)
  <2>1. rt'["NE"] = rt["NE"] /\ status' = status
    BY <1>0, <1>7
    DEF NEA_RX_Proxy, TA_RX_Master, stopRetransmission, Stopped, entry, RtTyped
  <2> QED
    BY <2>1 DEF On
<1>8. CASE NEA_RX_Relay(f) \/ TA_RX_Relay(f) \/ SD_RX(f)
  BY <1>8 DEF NEA_RX_Relay, TA_RX_Relay, SD_RX, retransmission, entry, On
<1> QED
  BY <1>1, <1>2, <1>3, <1>4, <1>5, <1>6, <1>7, <1>8, Receive(f) DEF Receive

LEMMA RetransmitWaits ==
  ASSUME RtTyped, TimesKept, WaitingSendsNoNE, Retransmit
  PROVE  WaitingSendsNoNE'
<1>0. "NE" \in Kinds
  BY DEF Kinds
<1>1. CASE Pass \/ Pass_GiveUp \/ Pass_Rest
  <2>1. \E kinds \in SUBSET Kinds : SendOverdue(kinds)
    BY <1>1 DEF Pass, Pass_GiveUp, Pass_Rest, Kinds
  <2>2. rt'["NE"].msg = rt["NE"].msg
    BY <1>0, <2>1, SendOverdueKeeps
  <2>3. status' = status
    BY <1>1 DEF Retransmit, GiveUp_Status, Pass, Pass_GiveUp, Pass_Rest
  <2> QED
    BY <2>2, <2>3 DEF WaitingSendsNoNE, On
<1>2. CASE GiveUp_Stop
  BY <1>0, <1>2
  DEF GiveUp_Stop, stopRetransmission, Stopped, WaitingSendsNoNE, On, RtTyped
<1>3. CASE GiveUp_Status
  <2>1. status' = "Outside"
    BY <1>3 DEF Retransmit, Pass, Pass_GiveUp, GiveUp_Stop, Pass_Rest, GiveUp_Status
  <2> QED
    BY <2>1 DEF WaitingSendsNoNE
<1> QED
  BY <1>1, <1>2, <1>3 DEF Retransmit

LEMMA TickWaits ==
  ASSUME RtTyped, WaitingSendsNoNE, Tick
  PROVE  WaitingSendsNoNE'
<1>1. "NE" \in Kinds
  BY DEF Kinds
<1>2. rt'["NE"].msg = rt["NE"].msg /\ status' = status
  BY <1>1 DEF Tick, TickRetransmission, RtTyped
<1> QED
  BY <1>2 DEF WaitingSendsNoNE, On

-----------------------------------------------------------------------------
(* The two threads *)

LEMMA Begins == Init => IInv
<1> SUFFICES ASSUME Init PROVE IInv
  OBVIOUS
<1>1. RtTyped
  BY DEF Init, InitRetransmission, NoRetransmission, RtTyped, Msgs
<1>2. TimesKept
  BY DelaysAssumption
  DEF Init, InitRetransmission, NoRetransmission, TimesKept, On, Kinds
<1>3. WaitingSendsNoNE
  BY DEF Init, WaitingSendsNoNE
<1> QED
  BY <1>1, <1>2, <1>3 DEF IInv

LEMMA Keeps == IInv /\ [Next]_vars => IInv'
<1> SUFFICES ASSUME IInv, [Next]_vars PROVE IInv'
  OBVIOUS
<1> USE DEF IInv
<1>1. CASE \E f \in scene.frames : Receive(f)
  <2>1. PICK f \in scene.frames : Receive(f)
    BY <1>1
  <2>2. Handled /\ UNCHANGED <<thread, scene>>
    BY <2>1, ReceiveHandles
  <2> QED
    BY <2>1, <2>2, HandledKeeps, ReceiveWaits
<1>2. CASE Retransmit
  BY <1>2, RetransmitKeeps, RetransmitWaits
<1>3. CASE Tick
  BY <1>3, TickKeeps, TickWaits
<1>4. CASE UNCHANGED vars
  BY <1>4
  DEF vars, entry, retransmission, RtTyped, TimesKept, Slack, WaitingSendsNoNE, On
<1> QED
  BY <1>1, <1>2, <1>3, <1>4 DEF Next

LEMMA Holds == Spec => []IInv
BY Begins, Keeps, PTL DEF Spec

(* Nothing that is retransmitted is ever overdue by more than the thread   *)
(* oversleeps, for all delays of at least a check and an oversleep: the    *)
(* checks of the thread (retransmission.c:90) are enough for whatever the  *)
(* handlers start while it sleeps.                                         *)
THEOREM RetransmissionsInTime == Spec => []SentInTime
<1>1. IInv => SentInTime
  <2> SUFFICES ASSUME IInv, NEW k \in Kinds, On(k)
               PROVE  rt[k].due >= IF k = "TB" THEN -(Check + Late) ELSE -Late
    BY DEF SentInTime
  <2>1. rt[k].due \in Int /\ thread.nap \in Int
    BY DEF IInv, RtTyped
  <2>2. -Late <= thread.nap /\ rt[k].due >= Slack(k)
    BY DEF IInv, TimesKept
  <2> QED
    BY <2>1, <2>2, DelaysAssumption DEF Slack
<1> QED
  BY <1>1, Holds, PTL

(* However the listener and the retransmission thread write the status     *)
(* after each other (network.c:62-64, retransmission.c:152-155), a node    *)
(* that waits repeats no NE.                                               *)
THEOREM WaitsQuietly == Spec => []WaitingSendsNoNE
<1>1. IInv => WaitingSendsNoNE
  BY DEF IInv
<1> QED
  BY <1>1, Holds, PTL

=============================================================================
