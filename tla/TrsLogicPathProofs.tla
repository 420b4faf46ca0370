-------------------------- MODULE TrsLogicPathProofs --------------------------
(***************************************************************************)
(* Proofs about TrsLogicPath, for every depth of the two queues: the phase *)
(* bits show the dispatcher a FIFO, the path implements the logic CQ of    *)
(* TrsLogicCq, and a CQE is left behind in three ways only.                *)
(***************************************************************************)
EXTENDS TrsLogicPath, TrsLogicQueueProofs

-----------------------------------------------------------------------------
(* Positions of the physical CQ. *)

(* How far the slot j is behind the slot i. *)
Far(i, j) == IF i <= j THEN j - i ELSE j - i + PhyDepth

(* The slot k places behind the slot i. *)
Behind(i, k) == IF i + k < PhyDepth THEN i + k ELSE i + k - PhyDepth

(* Types of the channel's own variables. *)
ChanType ==
    /\ slot \in [PhySlots -> Cqes \cup {NoCqe}]
    /\ phase \in [PhySlots -> {0, 1}]
    /\ hwTail \in PhySlots /\ hwHead \in PhySlots /\ cq_head \in PhySlots
    /\ hwPhase \in {0, 1} /\ loop \in {0, 1}
    /\ chanLock \in Producers \cup {NoThread}
    /\ pending \in [Producers -> BOOLEAN]
    /\ dpc \in [Producers -> {"off", "loop", "sent", "end"}]
    /\ proc_num \in [Producers -> Nat] /\ \A p \in Producers : proc_num[p] < DispatchNum
    /\ full_flag \in [Threads -> BOOLEAN]
    /\ posts \in 0 .. MaxPosts

(* The lock of the channel is held during a traversal and by nobody else. *)
LockInv == \A p \in Producers : dpc[p] # "off" <=> chanLock = p

(* The dispatcher is between the head the device knows and the place where    *)
(* the device writes; the phases tell the two sides of that place apart, and  *)
(* the laps of the two differ while the device is ahead across the end.       *)
PhaseInv ==
    /\ Far(hwHead, cq_head) <= Far(hwHead, hwTail)
    /\ hwPhase = IF cq_head <= hwTail THEN 1 - loop ELSE loop
    /\ \A i \in PhySlots : phase[i] = IF i < hwTail THEN hwPhase ELSE 1 - hwPhase

(* What is not dispatched yet is a CQE, and the one that a dispatcher has     *)
(* handed over but not passed is still there.                                 *)
CellInv ==
    /\ \A i \in PhySlots : Far(cq_head, i) < Far(cq_head, hwTail) => slot[i] \in Cqes
    /\ \A p \in Producers : dpc[p] = "sent" => cq_head # hwTail

PhyInv == ChanType /\ LockInv /\ PhaseInv /\ CellInv

(* The CQEs from the head to where the device writes. *)
Waiting == [k \in 1 .. Far(cq_head, hwTail) |-> slot[Behind(cq_head, k - 1)]]

-----------------------------------------------------------------------------
(* Why no CQE is left behind but by the steps that set left. *)

(* A CQE that could be dispatched has a dispatcher on its way. *)
CqeAwaited == CqeIsValid(cq_head, loop) /\ ~(valid /\ IsFull) => DispatcherComes

(* Whoever takes CQEs from a logic CQ for which a traversal stopped knows     *)
(* that it was full.                                                          *)
SeenFull ==
    CqeIsValid(cq_head, loop) /\ valid /\ IsFull /\ ~DispatcherComes =>
        \A t \in Threads : pc[t] \in {"range", "done"} => full_flag[t]

-----------------------------------------------------------------------------
(* The physical CQ shows a FIFO. *)

(* The slots of the physical CQ are the numbers below its depth. *)
LEMMA PhyDepthFacts ==
    /\ PhyDepth \in Nat /\ PhyDepth > 1
    /\ \A i \in PhySlots : i \in Int /\ 0 <= i /\ i < PhyDepth
    /\ \A i \in Int : 0 <= i /\ i < PhyDepth => i \in PhySlots
  BY LogicPathAssumption DEF LogicPathAssumption, PhySlots

(* Reducing an index that is off by at most one lap. *)
LEMMA PhyMod ==
    ASSUME NEW a \in Int, 0 <= a, a < 2 * PhyDepth
    PROVE  a % PhyDepth = IF a < PhyDepth THEN a ELSE a - PhyDepth
  BY PhyDepthFacts

(* The slot behind another one. *)
LEMMA NextSlot ==
    ASSUME NEW i \in PhySlots
    PROVE  /\ (i + 1) % PhyDepth \in PhySlots
           /\ (i + 1) % PhyDepth = IF i = PhyDepth - 1 THEN 0 ELSE i + 1
  BY PhyDepthFacts, PhyMod

(* Every step of the path does one of four things to the physical CQ. *)
Consumes == \E p \in Producers :
    /\ chanLock = p /\ dpc[p] # "off" /\ cq_head # hwTail
    /\ UpdateCqHead
    /\ dpc' = [dpc EXCEPT ![p] = "loop"]
    /\ UNCHANGED <<slot, phase, hwTail, hwPhase, hwHead, posts>>

Rests == UNCHANGED <<slot, phase, hwTail, hwPhase, hwHead, cq_head, loop, posts>>

(* The phase bit at the head tells whether the device is ahead. *)
LEMMA ValidIsAhead ==
    ASSUME ChanType, PhaseInv
    PROVE  CqeIsValid(cq_head, loop) <=> cq_head # hwTail
<1>1. /\ cq_head \in PhySlots /\ hwTail \in PhySlots /\ loop \in {0, 1} /\ hwPhase \in {0, 1}
  BY DEF ChanType
<1>2. phase[cq_head] = IF cq_head < hwTail THEN hwPhase ELSE 1 - hwPhase
  BY <1>1 DEF PhaseInv
<1>3. (loop + 1) % 2 = 1 - loop
  BY <1>1
<1>4. hwPhase = IF cq_head <= hwTail THEN 1 - loop ELSE loop
  BY DEF PhaseInv
<1>. QED
  BY <1>1, <1>2, <1>3, <1>4, PhyDepthFacts DEF CqeIsValid

(* Initially the physical CQ is empty. *)
LEMMA InitPhy == PathInit => PhyInv
<1>. SUFFICES ASSUME PathInit PROVE PhyInv
  OBVIOUS
<1>1. 0 \in PhySlots
  BY PhyDepthFacts
<1>2. ChanType
  BY <1>1, LogicPathAssumption DEF PathInit, ChanType, LogicPathAssumption
<1>3. LockInv
  BY LogicPathAssumption DEF PathInit, LockInv, LogicPathAssumption
<1>. QED
  BY <1>1, <1>2, <1>3, PhyDepthFacts DEF PhyInv, PhaseInv, CellInv, PathInit, Far

(* The steps of the path by what they do to the channel. *)
LEMMA PathCases ==
    ASSUME PathNext
    PROVE  \/ \E c \in Cqes : Post(c)
           \/ OtherInterrupt \/ DispatchLater
           \/ \E p \in Producers :
                 \/ Dispatch(p) \/ DispatchEmpty(p) \/ DispatchShare(p) \/ DispatchFull(p)
                 \/ DispatchDrop(p) \/ DispatchEnque(p) \/ DispatchNext(p) \/ DispatchEnd(p)
           \/ \E t \in Threads : PathCopyReport(t) \/ PathCopyDone(t)
           \/ UNCHANGED chanVars
  BY DEF PathNext, DispatchStep, PathWakeup, PathThreadStep

(* Every step keeps the types of the channel. *)
LEMMA ChanTypeStep ==
    ASSUME ChanType, PhaseInv, [PathNext]_pathVars
    PROVE  ChanType'
<1>0. Tasklet \in Producers /\ Work \in Producers /\ DispatchNum \in Nat \ {0} /\ MaxPosts \in Nat
  BY LogicPathAssumption DEF LogicPathAssumption
<1>1. ASSUME NEW c \in Cqes, Post(c) PROVE ChanType'
  <2>1. hwTail' \in PhySlots
    BY <1>1, NextSlot DEF Post, ChanType
  <2>2. hwPhase' \in {0, 1}
    BY <1>1 DEF Post, ChanType
  <2>3. slot' \in [PhySlots -> Cqes \cup {NoCqe}] /\ phase' \in [PhySlots -> {0, 1}]
    BY <1>1 DEF Post, ChanType
  <2>4. posts' \in 0 .. MaxPosts
    BY <1>0, <1>1 DEF Post, ChanType
  <2>5. pending' \in [Producers -> BOOLEAN]
    BY <1>0, <1>1 DEF Post, ChanType
  <2>. QED
    BY <1>1, <2>1, <2>2, <2>3, <2>4, <2>5 DEF Post, ChanType
<1>2. ASSUME OtherInterrupt \/ DispatchLater PROVE ChanType'
  <2>1. pending' \in [Producers -> BOOLEAN]
    BY <1>0, <1>2 DEF OtherInterrupt, DispatchLater, ChanType
  <2>. QED
    BY <1>2, <2>1 DEF OtherInterrupt, DispatchLater, devVars, ChanType
<1>3. ASSUME NEW p \in Producers, Dispatch(p) PROVE ChanType'
  <2>1. pending' \in [Producers -> BOOLEAN]
    BY <1>3 DEF Dispatch, ChanType
  <2>2. proc_num' \in [Producers -> Nat] /\ \A q \in Producers : proc_num'[q] < DispatchNum
    BY <1>0, <1>3 DEF Dispatch, ChanType
  <2>3. /\ chanLock' \in Producers \cup {NoThread}
        /\ dpc' \in [Producers -> {"off", "loop", "sent", "end"}]
    BY <1>3 DEF Dispatch, ChanType
  <2>. QED
    BY <1>3, <2>1, <2>2, <2>3 DEF Dispatch, devVars, ChanType
<1>4. ASSUME NEW p \in Producers, DispatchEmpty(p) \/ DispatchShare(p) PROVE ChanType'
  <2>1. pending' \in [Producers -> BOOLEAN]
    BY <1>0, <1>4 DEF DispatchEmpty, DispatchShare, ChanType
  <2>2. dpc' \in [Producers -> {"off", "loop", "sent", "end"}]
    BY <1>4 DEF DispatchEmpty, DispatchShare, ChanType
  <2>. QED
    BY <1>4, <2>1, <2>2 DEF DispatchEmpty, DispatchShare, devVars, ChanType
<1>5. ASSUME NEW p \in Producers, TakeNext(p)
      PROVE  proc_num' \in [Producers -> Nat] /\ \A q \in Producers : proc_num'[q] < DispatchNum
  BY <1>0, <1>5 DEF TakeNext, ChanType
<1>6. ASSUME UpdateCqHead PROVE cq_head' \in PhySlots /\ loop' \in {0, 1}
  BY <1>6, NextSlot DEF UpdateCqHead, ChanType
<1>7. ASSUME NEW p \in Producers, DispatchFull(p) \/ DispatchEnque(p) PROVE ChanType'
  <2>1. dpc' \in [Producers -> {"off", "loop", "sent", "end"}]
    BY <1>7 DEF DispatchFull, DispatchEnque, ChanType
  <2>2. TakeNext(p)
    BY <1>7 DEF DispatchFull, DispatchEnque
  <2>. QED
    BY <1>5, <1>7, <2>1, <2>2 DEF DispatchFull, DispatchEnque, devVars, ChanType
<1>8. ASSUME NEW p \in Producers, DispatchDrop(p) PROVE ChanType'
  BY <1>5, <1>6, <1>8 DEF DispatchDrop, devVars, ChanType
<1>9. ASSUME NEW p \in Producers, DispatchNext(p) PROVE ChanType'
  <2>1. dpc' \in [Producers -> {"off", "loop", "sent", "end"}]
    BY <1>9 DEF DispatchNext, ChanType
  <2>. QED
    BY <1>6, <1>9, <2>1 DEF DispatchNext, devVars, ChanType
<1>10. ASSUME NEW p \in Producers, DispatchEnd(p) PROVE ChanType'
  <2>1. dpc' \in [Producers -> {"off", "loop", "sent", "end"}]
    BY <1>10 DEF DispatchEnd, ChanType
  <2>2. proc_num' \in [Producers -> Nat] /\ \A q \in Producers : proc_num'[q] < DispatchNum
    BY <1>0, <1>10 DEF DispatchEnd, ChanType
  <2>. QED
    BY <1>10, <2>1, <2>2 DEF DispatchEnd, devVars, ChanType
<1>11. ASSUME NEW t \in Threads, PathCopyReport(t) PROVE ChanType'
  <2>1. full_flag' \in [Threads -> BOOLEAN]
    BY <1>11 DEF PathCopyReport, ChanType
  <2>. QED
    BY <1>11, <2>1 DEF PathCopyReport, devVars, ChanType
<1>12. ASSUME NEW t \in Threads, PathCopyDone(t) PROVE ChanType'
  <2>1. full_flag' \in [Threads -> BOOLEAN] /\ pending' \in [Producers -> BOOLEAN]
    BY <1>0, <1>12 DEF PathCopyDone, ChanType
  <2>. QED
    BY <1>12, <2>1 DEF PathCopyDone, devVars, ChanType
<1>13. ASSUME UNCHANGED chanVars PROVE ChanType'
  BY <1>13 DEF chanVars, ChanType
<1>14. CASE UNCHANGED pathVars
  BY <1>13, <1>14 DEF pathVars
<1>15. CASE PathNext
  BY <1>1, <1>2, <1>3, <1>4, <1>7, <1>8, <1>9, <1>10, <1>11, <1>12, <1>13, <1>15, PathCases
<1>. QED
  BY <1>14, <1>15

(* Who traverses has the lock. *)
LEMMA LockStep ==
    ASSUME ChanType, LockInv, [PathNext]_pathVars
    PROVE  LockInv'
<1>0. NoThread \notin Producers /\ dpc \in [Producers -> {"off", "loop", "sent", "end"}]
  BY LogicPathAssumption DEF LogicPathAssumption, ChanType
<1>1. CASE UNCHANGED <<dpc, chanLock>>
  BY <1>1 DEF LockInv
<1>2. ASSUME NEW p \in Producers, Dispatch(p) PROVE LockInv'
  BY <1>0, <1>2 DEF Dispatch, LockInv
<1>3. ASSUME NEW p \in Producers,
             DispatchEmpty(p) \/ DispatchShare(p) \/ DispatchFull(p) \/ DispatchEnque(p) \/ DispatchNext(p)
      PROVE  LockInv'
  <2>1. /\ dpc[p] # "off" /\ chanLock' = chanLock
        /\ \E l \in {"loop", "sent", "end"} : dpc' = [dpc EXCEPT ![p] = l]
    BY <1>3 DEF DispatchEmpty, DispatchShare, DispatchFull, DispatchEnque, DispatchNext, TakeNext, AtNextCqe
  <2>. QED
    BY <1>0, <2>1 DEF LockInv
<1>4. ASSUME NEW p \in Producers, DispatchEnd(p) PROVE LockInv'
  BY <1>0, <1>4 DEF DispatchEnd, LockInv
<1>5. ASSUME NEW p \in Producers, DispatchDrop(p) PROVE LockInv'
  BY <1>1, <1>5 DEF DispatchDrop
<1>6. CASE OtherInterrupt \/ DispatchLater \/ \E c \in Cqes : Post(c)
  BY <1>1, <1>6 DEF OtherInterrupt, DispatchLater, Post
<1>7. CASE \E t \in Threads : PathCopyReport(t) \/ PathCopyDone(t)
  BY <1>1, <1>7 DEF PathCopyReport, PathCopyDone
<1>8. CASE UNCHANGED chanVars \/ UNCHANGED pathVars
  BY <1>1, <1>8 DEF chanVars, pathVars
<1>. QED
  BY <1>2, <1>3, <1>4, <1>5, <1>6, <1>7, <1>8, PathCases

(* The effect of a step on the physical CQ: the device writes, a dispatcher   *)
(* consumes, the device learns the head, or nothing.                          *)
LEMMA PhyEffect ==
    ASSUME PhyInv, [PathNext]_pathVars
    PROVE  \/ \E c \in Cqes : Post(c)
           \/ Consumes
           \/ \E p \in Producers : DispatchEnd(p)
           \/ /\ Rests
              /\ \A p \in Producers : dpc'[p] = "sent" => cq_head # hwTail
<1>0. /\ dpc \in [Producers -> {"off", "loop", "sent", "end"}]
      /\ \A p \in Producers : dpc[p] = "sent" => cq_head # hwTail
      /\ \A p \in Producers : dpc[p] # "off" <=> chanLock = p
      /\ CqeIsValid(cq_head, loop) <=> cq_head # hwTail
  BY ValidIsAhead DEF PhyInv, ChanType, CellInv, LockInv
<1>1. ASSUME NEW p \in Producers, DispatchDrop(p) \/ DispatchNext(p) PROVE Consumes
  <2>1. /\ dpc[p] \in {"loop", "sent"} /\ cq_head # hwTail /\ UpdateCqHead
        /\ UNCHANGED <<slot, phase, hwTail, hwPhase, hwHead, posts>>
    BY <1>0, <1>1 DEF DispatchDrop, DispatchNext, TakeNext, AtNextCqe, devVars
  <2>2. dpc' = [dpc EXCEPT ![p] = "loop"]
    BY <1>0, <1>1 DEF DispatchDrop, DispatchNext, TakeNext, AtNextCqe
  <2>. QED
    BY <1>0, <2>1, <2>2 DEF Consumes
<1>2. ASSUME NEW p \in Producers, DispatchEnque(p)
      PROVE  Rests /\ \A q \in Producers : dpc'[q] = "sent" => cq_head # hwTail
  BY <1>0, <1>2 DEF DispatchEnque, TakeNext, devVars, Rests
<1>3. ASSUME NEW p \in Producers, Dispatch(p) \/ DispatchEmpty(p) \/ DispatchShare(p) \/ DispatchFull(p)
      PROVE  Rests /\ \A q \in Producers : dpc'[q] = "sent" => cq_head # hwTail
  <2>1. Rests
    BY <1>3 DEF Dispatch, DispatchEmpty, DispatchShare, DispatchFull, devVars, Rests
  <2>2. \/ dpc' = dpc
        \/ \E l \in {"loop", "end"} : dpc' = [dpc EXCEPT ![p] = l]
    BY <1>3 DEF Dispatch, DispatchEmpty, DispatchShare, DispatchFull
  <2>. QED
    BY <1>0, <2>1, <2>2
<1>4. ASSUME \/ OtherInterrupt \/ DispatchLater
             \/ \E t \in Threads : PathCopyReport(t) \/ PathCopyDone(t)
             \/ UNCHANGED chanVars \/ UNCHANGED pathVars
      PROVE  Rests /\ dpc' = dpc
  BY <1>4 DEF OtherInterrupt, DispatchLater, PathCopyReport, PathCopyDone, chanVars, pathVars, devVars, Rests
<1>. QED
  BY <1>0, <1>1, <1>2, <1>3, <1>4, PathCases

(* Distances are less than a lap, and zero only from a slot to itself. *)
LEMMA FarFacts ==
    ASSUME NEW i \in PhySlots, NEW j \in PhySlots
    PROVE  Far(i, j) \in 0 .. PhyDepth - 1 /\ (Far(i, j) = 0 <=> i = j)
  BY PhyDepthFacts DEF Far

(* The device writes behind everything that is not dispatched, never over it. *)
LEMMA PostPhy ==
    ASSUME PhyInv, NEW c \in Cqes, Post(c)
    PROVE  /\ PhaseInv' /\ CellInv'
           /\ Far(cq_head, hwTail') = Far(cq_head, hwTail) + 1
<1>0. /\ cq_head \in PhySlots /\ hwTail \in PhySlots /\ hwHead \in PhySlots
      /\ loop \in {0, 1} /\ hwPhase \in {0, 1}
      /\ slot \in [PhySlots -> Cqes \cup {NoCqe}] /\ phase \in [PhySlots -> {0, 1}]
  BY DEF PhyInv, ChanType
<1>1. /\ hwTail' = IF hwTail = PhyDepth - 1 THEN 0 ELSE hwTail + 1
      /\ hwTail' # hwHead
      /\ hwPhase' = IF hwTail' = 0 THEN 1 - hwPhase ELSE hwPhase
      /\ UNCHANGED <<hwHead, cq_head, loop, dpc>>
      /\ slot' = [slot EXCEPT ![hwTail] = c] /\ phase' = [phase EXCEPT ![hwTail] = hwPhase]
  BY <1>0, NextSlot DEF Post
<1>2. /\ Far(hwHead, cq_head) <= Far(hwHead, hwTail)
      /\ hwPhase = IF cq_head <= hwTail THEN 1 - loop ELSE loop
      /\ \A i \in PhySlots : phase[i] = IF i < hwTail THEN hwPhase ELSE 1 - hwPhase
  BY DEF PhyInv, PhaseInv
<1>3. Far(hwHead, cq_head) <= Far(hwHead, hwTail') /\ hwTail' # cq_head
  BY <1>0, <1>1, <1>2, PhyDepthFacts DEF Far
<1>4. Far(cq_head, hwTail') = Far(cq_head, hwTail) + 1
  BY <1>0, <1>1, <1>3, PhyDepthFacts DEF Far
<1>5. hwPhase' = IF cq_head <= hwTail' THEN 1 - loop ELSE loop
  BY <1>0, <1>1, <1>2, <1>3, PhyDepthFacts
<1>6. ASSUME NEW i \in PhySlots PROVE phase'[i] = IF i < hwTail' THEN hwPhase' ELSE 1 - hwPhase'
  BY <1>0, <1>1, <1>2, PhyDepthFacts
<1>7. ASSUME NEW i \in PhySlots, Far(cq_head, i) < Far(cq_head, hwTail') PROVE slot'[i] \in Cqes
  <2>1. i = hwTail \/ Far(cq_head, i) < Far(cq_head, hwTail)
    BY <1>0, <1>4, <1>7, PhyDepthFacts DEF Far
  <2>2. Far(cq_head, i) < Far(cq_head, hwTail) => slot[i] \in Cqes
    BY DEF PhyInv, CellInv
  <2>. QED
    BY <1>0, <1>1, <2>1, <2>2
<1>8. PhaseInv'
  BY <1>1, <1>3, <1>5, <1>6 DEF PhaseInv, Far
<1>9. CellInv'
  BY <1>1, <1>3, <1>7 DEF CellInv, Far
<1>. QED
  BY <1>4, <1>8, <1>9

(* A dispatcher steps over one CQE. *)
LEMMA ConsumePhy ==
    ASSUME PhyInv, Consumes
    PROVE  /\ PhaseInv' /\ CellInv'
           /\ cq_head # hwTail
           /\ Far(cq_head', hwTail) = Far(cq_head, hwTail) - 1
<1>0. /\ cq_head \in PhySlots /\ hwTail \in PhySlots /\ hwHead \in PhySlots
      /\ loop \in {0, 1} /\ hwPhase \in {0, 1}
      /\ dpc \in [Producers -> {"off", "loop", "sent", "end"}]
  BY DEF PhyInv, ChanType
<1>1. /\ cq_head' = IF cq_head = PhyDepth - 1 THEN 0 ELSE cq_head + 1
      /\ cq_head # hwTail
      /\ loop' = IF cq_head' = 0 THEN 1 - loop ELSE loop
      /\ UNCHANGED <<hwHead, hwTail, hwPhase, slot, phase>>
  BY <1>0, NextSlot DEF Consumes, UpdateCqHead
<1>2. /\ Far(hwHead, cq_head) <= Far(hwHead, hwTail)
      /\ hwPhase = IF cq_head <= hwTail THEN 1 - loop ELSE loop
      /\ \A i \in PhySlots : phase[i] = IF i < hwTail THEN hwPhase ELSE 1 - hwPhase
  BY DEF PhyInv, PhaseInv
<1>3. Far(hwHead, cq_head') <= Far(hwHead, hwTail)
  BY <1>0, <1>1, <1>2, PhyDepthFacts DEF Far
<1>4. Far(cq_head', hwTail) = Far(cq_head, hwTail) - 1
  BY <1>0, <1>1, PhyDepthFacts DEF Far
<1>5. hwPhase = IF cq_head' <= hwTail THEN 1 - loop' ELSE loop'
  BY <1>0, <1>1, <1>2, PhyDepthFacts
<1>6. ASSUME NEW i \in PhySlots, Far(cq_head', i) < Far(cq_head', hwTail) PROVE slot[i] \in Cqes
  <2>1. Far(cq_head, i) < Far(cq_head, hwTail)
    BY <1>0, <1>1, <1>6, PhyDepthFacts DEF Far
  <2>. QED
    BY <2>1 DEF PhyInv, CellInv
<1>7. ASSUME NEW q \in Producers PROVE dpc'[q] # "sent"
  BY <1>0, <1>7 DEF Consumes, PhyInv, LockInv
<1>8. PhaseInv'
  BY <1>1, <1>2, <1>3, <1>5 DEF PhaseInv, Far
<1>9. CellInv'
  BY <1>1, <1>6, <1>7 DEF CellInv, Far
<1>. QED
  BY <1>1, <1>4, <1>8, <1>9

(* Every step keeps the lock, the phases and what is not dispatched yet. *)
LEMMA PhyStep == PhyInv /\ [PathNext]_pathVars => PhyInv'
<1>. SUFFICES ASSUME PhyInv, [PathNext]_pathVars PROVE PhyInv'
  OBVIOUS
<1>0. ChanType' /\ LockInv'
  BY ChanTypeStep, LockStep DEF PhyInv
<1>1. ASSUME NEW p \in Producers, DispatchEnd(p) PROVE PhaseInv' /\ CellInv'
  <2>0. /\ cq_head \in PhySlots /\ hwTail \in PhySlots
        /\ dpc \in [Producers -> {"off", "loop", "sent", "end"}]
    BY DEF PhyInv, ChanType
  <2>1. /\ hwHead' = cq_head /\ dpc' = [dpc EXCEPT ![p] = "off"]
        /\ UNCHANGED <<slot, phase, hwTail, hwPhase, cq_head, loop>>
    BY <1>1 DEF DispatchEnd, devVars
  <2>2. Far(cq_head, cq_head) <= Far(cq_head, hwTail)
    BY <2>0, FarFacts
  <2>. QED
    BY <2>0, <2>1, <2>2 DEF PhyInv, PhaseInv, CellInv, Far
<1>2. ASSUME Rests, \A p \in Producers : dpc'[p] = "sent" => cq_head # hwTail
      PROVE  PhaseInv' /\ CellInv'
  BY <1>2 DEF Rests, PhyInv, PhaseInv, CellInv, Far
<1>. QED
  BY <1>0, <1>1, <1>2, PhyEffect, PostPhy, ConsumePhy DEF PhyInv

(* So they always hold. *)
LEMMA PhyInvariant == PathSpec => []PhyInv
  BY InitPhy, PhyStep, PTL DEF PathSpec

(* The slots that the phase bits show are those up to where the device        *)
(* writes.                                                                    *)
ShowsWaiting == PhyQueue = Waiting

(* What the phase bits show is what waits to be dispatched. *)
LEMMA ShownIsWaiting == PhyInv => ShowsWaiting
<1>. SUFFICES ASSUME PhyInv PROVE PhyQueue = Waiting
  BY DEF ShowsWaiting
<1>. DEFINE at(k)  == (cq_head + k) % PhyDepth
            lap(k) == IF cq_head + k < PhyDepth THEN loop ELSE 1 - loop
            shown  == {n \in 0 .. PhyDepth : \A k \in 0 .. n - 1 : CqeIsValid(at(k), lap(k))}
            n      == Far(cq_head, hwTail)
<1>0. /\ cq_head \in PhySlots /\ hwTail \in PhySlots /\ loop \in {0, 1} /\ hwPhase \in {0, 1}
      /\ hwPhase = IF cq_head <= hwTail THEN 1 - loop ELSE loop
      /\ \A i \in PhySlots : phase[i] = IF i < hwTail THEN hwPhase ELSE 1 - hwPhase
  BY DEF PhyInv, ChanType, PhaseInv
<1>1. n \in 0 .. PhyDepth - 1 /\ PhyDepth \in Nat
  BY <1>0, FarFacts, PhyDepthFacts
<1>2. ASSUME NEW k \in 0 .. PhyDepth - 1
      PROVE  at(k) = Behind(cq_head, k) /\ at(k) \in PhySlots
  BY <1>0, PhyMod, PhyDepthFacts DEF Behind
<1>3. ASSUME NEW k \in 0 .. PhyDepth - 1
      PROVE  CqeIsValid(at(k), lap(k)) <=> phase[Behind(cq_head, k)] = 1 - lap(k)
  <2>1. lap(k) \in {0, 1}
    BY <1>0
  <2>2. (lap(k) + 1) % 2 = 1 - lap(k)
    BY <2>1
  <2>. QED
    BY <1>2, <2>2 DEF CqeIsValid
<1>4. ASSUME NEW k \in 0 .. n - 1 PROVE CqeIsValid(at(k), lap(k))
  <2>1. k \in 0 .. PhyDepth - 1 /\ Behind(cq_head, k) \in PhySlots
    BY <1>1, <1>2
  <2>2. phase[Behind(cq_head, k)] = 1 - lap(k)
    BY <1>0, <2>1, PhyDepthFacts DEF Behind, Far
  <2>. QED
    BY <1>3, <2>1, <2>2
<1>5. ~CqeIsValid(at(n), lap(n))
  <2>1. Behind(cq_head, n) = hwTail
    BY <1>0, PhyDepthFacts DEF Behind, Far
  <2>2. phase[hwTail] # 1 - lap(n)
    BY <1>0, PhyDepthFacts DEF Far
  <2>. QED
    BY <1>1, <1>3, <2>1, <2>2
<1>6. n \in shown /\ \A m \in shown : n >= m
  <2>1. n \in shown
    BY <1>1, <1>4
  <2>2. ASSUME NEW m \in shown PROVE n >= m
    <3>1. m \in 0 .. PhyDepth /\ \A k \in 0 .. m - 1 : CqeIsValid(at(k), lap(k))
      OBVIOUS
    <3>2. n \notin 0 .. m - 1
      BY <1>5, <3>1
    <3>. QED
      BY <1>1, <3>1, <3>2
  <2>. QED
    BY <2>1, <2>2
<1>7. Max(shown) = n
  <2>1. Max(shown) \in shown /\ \A m \in shown : Max(shown) >= m
    BY <1>6 DEF Max
  <2>2. shown \subseteq Int
    BY <1>1
  <2>. QED
    BY <1>6, <2>1, <2>2
<1>8. PhyQueue = [k \in 1 .. Max(shown) |-> slot[at(k - 1)]]
  BY DEF PhyQueue
<1>9. \A k \in 1 .. n : at(k - 1) = Behind(cq_head, k - 1)
  BY <1>1, <1>2
<1>. QED
  BY <1>7, <1>8, <1>9 DEF Waiting

(* A step adds one CQE at the tail, takes the one at the head, or neither. *)
LEMMA FifoStep ==
    ASSUME PhyInv, PhyInv', [PathNext]_pathVars
    PROVE  \/ Waiting' = Waiting
           \/ Waiting # <<>> /\ Waiting' = Tail(Waiting)
           \/ posts' = posts + 1 /\ Waiting' = Append(Waiting, slot'[hwTail])
<1>0. /\ cq_head \in PhySlots /\ hwTail \in PhySlots /\ slot \in [PhySlots -> Cqes \cup {NoCqe}]
      /\ cq_head' \in PhySlots /\ hwTail' \in PhySlots
  BY DEF PhyInv, ChanType
<1>. DEFINE n == Far(cq_head, hwTail)
<1>1. n \in 0 .. PhyDepth - 1 /\ PhyDepth \in Nat /\ Far(cq_head', hwTail') \in 0 .. PhyDepth - 1
  BY <1>0, FarFacts, PhyDepthFacts
<1>2. ASSUME NEW c \in Cqes, Post(c)
      PROVE  posts' = posts + 1 /\ Waiting' = Append(Waiting, slot'[hwTail])
  <2>1. /\ cq_head' = cq_head /\ slot' = [slot EXCEPT ![hwTail] = c] /\ posts' = posts + 1
        /\ Far(cq_head', hwTail') = n + 1
    BY <1>2, PostPhy DEF Post
  <2>2. Behind(cq_head, n) = hwTail
    BY <1>0, PhyDepthFacts DEF Behind, Far
  <2>3. ASSUME NEW k \in 1 .. n
        PROVE  Behind(cq_head, k - 1) \in PhySlots /\ Behind(cq_head, k - 1) # hwTail
    BY <1>0, <1>1, PhyDepthFacts DEF Behind, Far
  <2>4. Waiting' = [k \in 1 .. n + 1 |-> slot'[Behind(cq_head, k - 1)]]
    BY <2>1 DEF Waiting, Behind
  <2>5. Waiting = [k \in 1 .. n |-> slot[Behind(cq_head, k - 1)]]
    BY DEF Waiting
  <2>6. ASSUME NEW k \in 1 .. n PROVE slot'[Behind(cq_head, k - 1)] = slot[Behind(cq_head, k - 1)]
    BY <1>0, <2>1, <2>3
  <2>. HIDE DEF n
  <2>7. Waiting \in Seq(Cqes \cup {NoCqe}) /\ Len(Waiting) = n
    BY <1>0, <1>1, <2>3, <2>5
  <2>8. Waiting' = [k \in 1 .. n + 1 |-> IF k <= n THEN Waiting[k] ELSE slot'[hwTail]]
    BY <1>1, <2>2, <2>4, <2>5, <2>6
  <2>. QED
    BY <1>1, <2>1, <2>7, <2>8
<1>3. ASSUME Consumes PROVE Waiting # <<>> /\ Waiting' = Tail(Waiting)
  <2>1. /\ cq_head' = IF cq_head = PhyDepth - 1 THEN 0 ELSE cq_head + 1
        /\ cq_head # hwTail /\ slot' = slot /\ hwTail' = hwTail
        /\ Far(cq_head', hwTail') = n - 1
    BY <1>0, <1>3, ConsumePhy, NextSlot DEF Consumes, UpdateCqHead
  <2>2. n >= 1
    BY <1>0, <1>1, <2>1, FarFacts
  <2>3. ASSUME NEW k \in 1 .. n - 1 PROVE Behind(cq_head', k - 1) = Behind(cq_head, k)
    BY <1>0, <1>1, <2>1, PhyDepthFacts DEF Behind
  <2>4. Waiting' = [k \in 1 .. n - 1 |-> slot[Behind(cq_head', k - 1)]]
    BY <2>1 DEF Waiting, Behind
  <2>5. Waiting = [k \in 1 .. n |-> slot[Behind(cq_head, k - 1)]]
    BY DEF Waiting
  <2>6. ASSUME NEW k \in 1 .. n PROVE Behind(cq_head, k - 1) \in PhySlots
    BY <1>0, <1>1, PhyDepthFacts DEF Behind
  <2>. HIDE DEF n
  <2>7. Waiting \in Seq(Cqes \cup {NoCqe}) /\ Len(Waiting) = n
    BY <1>0, <1>1, <2>5, <2>6
  <2>8. ASSUME NEW k \in 1 .. n - 1 PROVE slot[Behind(cq_head', k - 1)] = Waiting[k + 1]
    BY <1>1, <2>3, <2>5
  <2>9. Waiting' = [k \in 1 .. n - 1 |-> Waiting[k + 1]]
    BY <2>4, <2>8
  <2>10. /\ Tail(Waiting) \in Seq(Cqes \cup {NoCqe}) /\ Len(Tail(Waiting)) = n - 1
         /\ \A k \in 1 .. n - 1 : Tail(Waiting)[k] = Waiting[k + 1]
    BY <1>1, <2>2, <2>7
  <2>11. Tail(Waiting) = [k \in 1 .. n - 1 |-> Waiting[k + 1]]
    <3>. DEFINE s == Tail(Waiting)
    <3>1. s \in Seq(Cqes \cup {NoCqe}) /\ Len(s) = n - 1 /\ \A k \in 1 .. n - 1 : s[k] = Waiting[k + 1]
      BY <2>10
    <3>. HIDE DEF s
    <3>2. s = [k \in 1 .. Len(s) |-> s[k]]
      BY <3>1
    <3>3. [k \in 1 .. n - 1 |-> s[k]] = [k \in 1 .. n - 1 |-> Waiting[k + 1]]
      BY <3>1
    <3>4. s = [k \in 1 .. n - 1 |-> Waiting[k + 1]]
      BY <3>1, <3>2, <3>3
    <3>. QED
      BY <3>4 DEF s
  <2>12. Waiting # <<>>
    BY <1>1, <2>2, <2>7
  <2>. QED
    BY <2>9, <2>11, <2>12
<1>4. ASSUME NEW p \in Producers, DispatchEnd(p) PROVE Waiting' = Waiting
  BY <1>4 DEF DispatchEnd, devVars, Waiting, Far, Behind
<1>5. ASSUME Rests PROVE Waiting' = Waiting
  BY <1>5 DEF Rests, Waiting, Far, Behind
<1>. QED
  BY <1>2, <1>3, <1>4, <1>5, PhyEffect

(* The phase bits never lie, for every depth of the physical CQ: what         *)
(* trs_logic_cqe_is_valid shows the dispatchers changes only by one CQE that  *)
(* the device adds and by the oldest one being consumed                       *)
(* (trs_chan_update_cq_head), across the end of the ring and with a device    *)
(* that learns the head late.                                                 *)
THEOREM PhaseBitsTell == PathSpec => PhySeesFifo
<1>1. /\ PhyInv /\ PhyInv' /\ [PathNext]_pathVars /\ ShowsWaiting /\ ShowsWaiting'
      => [ \/ PhyQueue' = PhyQueue
           \/ PhyQueue # <<>> /\ PhyQueue' = Tail(PhyQueue)
           \/ posts' = posts + 1 /\ PhyQueue' = Append(PhyQueue, slot'[hwTail]) ]_pathVars
  BY FifoStep DEF ShowsWaiting
<1>. QED
  BY <1>1, ShownIsWaiting, PhyInvariant, PTL DEF PathSpec, PhySeesFifo

-----------------------------------------------------------------------------
(* The path implements the logic CQ: its dispatchers hand over CQEs only, and *)
(* its other steps are steps of TrsLogicCq or leave it alone.                 *)

(* Every step of the path is one of the logic CQ, or none. *)
LEMMA PathStepIsStep == PhyInv /\ [PathNext]_pathVars => [Next]_vars
<1>. SUFFICES ASSUME PhyInv, [PathNext]_pathVars PROVE [Next]_vars
  OBVIOUS
<1>1. ASSUME NEW p \in Producers, DispatchEnque(p) PROVE Next
  <2>1. cq_head \in PhySlots /\ hwTail \in PhySlots /\ cq_head # hwTail
    BY <1>1, ValidIsAhead DEF DispatchEnque, TakeNext, PhyInv, ChanType
  <2>2. Far(cq_head, cq_head) < Far(cq_head, hwTail)
    BY <2>1, FarFacts
  <2>3. slot[cq_head] \in Cqes
    BY <2>1, <2>2 DEF PhyInv, CellInv
  <2>. QED
    BY <1>1, <2>3 DEF DispatchEnque, Next
<1>2. ASSUME NEW p \in Producers,
             \/ Dispatch(p) \/ DispatchEmpty(p) \/ DispatchShare(p) \/ DispatchFull(p)
             \/ DispatchDrop(p) \/ DispatchNext(p) \/ DispatchEnd(p)
      PROVE  UNCHANGED vars
  BY <1>2 DEF Dispatch, DispatchEmpty, DispatchShare, DispatchFull, DispatchDrop, DispatchNext, DispatchEnd
<1>3. CASE OtherInterrupt \/ DispatchLater \/ \E c \in Cqes : Post(c)
  BY <1>3 DEF OtherInterrupt, DispatchLater, Post
<1>4. ASSUME NEW t \in Threads, PathThreadStep(t) PROVE Next
  BY <1>4 DEF PathThreadStep, PathCopyReport, PathCopyDone, LogicOwn, Next, ThreadStep
<1>5. ASSUME NEW t \in Threads, LogicCall(t) PROVE Next
  BY <1>5 DEF LogicCall, Next
<1>6. ASSUME NEW p \in Producers, PathWakeup(p) PROVE Next
  BY <1>6 DEF PathWakeup, Next
<1>7. CASE UNCHANGED pathVars
  BY <1>7 DEF pathVars
<1>8. CASE PathNext
  BY <1>1, <1>2, <1>3, <1>4, <1>5, <1>6, <1>8 DEF PathNext, DispatchStep
<1>. QED
  BY <1>7, <1>8

(* The path is a logic CQ of TrsLogicCq: every behaviour of channel, tasklet, *)
(* work item and device is one of trs_logic_cq.c with dispatchers that call   *)
(* trs_logic_cq_enque, so what is proved of the logic CQ holds of the path.   *)
THEOREM PathIsLogicCq == PathSpec => Spec
<1>1. PathInit => Init
  BY DEF PathInit
<1>. QED
  BY <1>1, PathStepIsStep, PhyInvariant, PTL DEF PathSpec, Spec

(* Hence the receivers see the FIFO of TrsLogicQueue whatever the dispatchers *)
(* deliver: a CQE that a traversal enqueues is neither lost nor doubled on    *)
(* its way through the ring of the logic CQ.                                  *)
THEOREM PathIsQueue == PathSpec => ImplementsQueue
  BY PathIsLogicCq, RingIsQueue, PTL

(* The history variable is a truth value. *)
LEMMA LeftStep == ASSUME left \in BOOLEAN, [PathNext]_pathVars PROVE left' \in BOOLEAN
<1>1. ASSUME NEW p \in Producers, DispatchStep(p) PROVE left' \in BOOLEAN
  BY <1>1 DEF DispatchStep, Dispatch, DispatchEmpty, DispatchShare, DispatchFull, DispatchDrop,
              DispatchEnque, DispatchNext, DispatchEnd
<1>2. ASSUME NEW t \in Threads, PathThreadStep(t) PROVE left' \in BOOLEAN
  BY <1>2 DEF PathThreadStep, PathCopyReport, PathCopyDone
<1>. QED
  BY <1>1, <1>2 DEF PathNext, Post, OtherInterrupt, DispatchLater, PathWakeup, pathVars

(* Every variable of the channel and of the logic CQ keeps its type; heads    *)
(* and tails index their rings on every lap.                                  *)
THEOREM PathTyped == PathSpec => []PathTypeOK
<1>1. PhyInv /\ TypeOK /\ left \in BOOLEAN => PathTypeOK
  <2>. SUFFICES ASSUME ChanType, TypeOK, left \in BOOLEAN PROVE PathTypeOK
    BY DEF PhyInv
  <2>1. proc_num \in [Producers -> 0 .. DispatchNum]
    <3>1. DispatchNum \in Nat
      BY LogicPathAssumption DEF LogicPathAssumption
    <3>2. \A p \in Producers : proc_num[p] \in 0 .. DispatchNum
      BY <3>1 DEF ChanType
    <3>. QED
      BY <3>2 DEF ChanType
  <2>. QED
    BY <2>1 DEF ChanType, PathTypeOK
<1>2. PathInit => left \in BOOLEAN
  BY DEF PathInit
<1>3. left \in BOOLEAN /\ [PathNext]_pathVars => (left \in BOOLEAN)'
  BY LeftStep
<1>. QED
  BY <1>1, <1>2, <1>3, PhyInvariant, PathIsLogicCq, RingTyped, PTL DEF PathSpec

(* With the dispatchers of chan_rxtx.c as its producers, a receiver that      *)
(* could return does not sleep without a waker on its way, unless another     *)
(* receiver uses up its token, a waker looks at the wait queue too early or   *)
(* wake_up_nr wakes too few.                                                  *)
THEOREM PathWakesReceivers == PathSpec /\ [][NotMissed]_vars => []NoStrandedReceiver
  BY PathIsLogicCq, NoLostWakeup, PTL

-----------------------------------------------------------------------------
(* No other way to leave a CQE behind. *)

StrandInv == CqeAwaited /\ SeenFull

(* Initially no CQE waits. *)
LEMMA InitStrand == PathInit => StrandInv
<1>. SUFFICES ASSUME PathInit PROVE ~CqeIsValid(cq_head, loop)
  BY DEF StrandInv, CqeAwaited, SeenFull
<1>1. 0 \in PhySlots
  BY PhyDepthFacts
<1>2. (0 + 1) % 2 = 1
  OBVIOUS
<1>. QED
  BY <1>1, <1>2 DEF PathInit, CqeIsValid

(* A step after which a dispatcher is on its way. *)
LEMMA StrandComes == ASSUME DispatcherComes' PROVE StrandInv'
  BY DEF StrandInv, CqeAwaited, SeenFull

(* A step of the channel that leaves the logic CQ and the head of the         *)
(* physical CQ as they are, and does not make the dispatchers go away.        *)
LEMMA StrandQuiet ==
    ASSUME StrandInv, UNCHANGED <<vars, phase, cq_head, loop>>, full_flag' = full_flag,
           DispatcherComes => DispatcherComes'
    PROVE  StrandInv'
  BY DEF StrandInv, CqeAwaited, SeenFull, CqeIsValid, IsFull, vars, ringVars

(* A step of the logic CQ alone, which does not make room in it. *)
LEMMA StrandLogic ==
    ASSUME StrandInv, UNCHANGED chanVars, UNCHANGED <<valid, head, tail>>,
           \A t \in Threads : pc'[t] \in {"range", "done"} => pc[t] \in {"range", "done"}
    PROVE  StrandInv'
<1>1. /\ DispatcherComes' = DispatcherComes /\ IsFull' = IsFull /\ full_flag' = full_flag
      /\ CqeIsValid(cq_head, loop)' = CqeIsValid(cq_head, loop)
  BY DEF chanVars, DispatcherComes, IsFull, CqeIsValid
<1>. QED
  BY <1>1 DEF StrandInv, CqeAwaited, SeenFull

(* Steps of threads and wakers that touch neither the ring nor the channel. *)
LEMMA StrandOther ==
    ASSUME ControlTypeOK, StrandInv, UNCHANGED chanVars, NEW t \in Wakers,
           \/ CopyCqes(t) \/ Wait(t) \/ Wakeup(t) \/ UninitDone(t) \/ FreeId(t)
           \/ \E r \in Requests : Recv(t, r)
           \/ Expired(t) \/ Interrupted(t) \/ AllocId(t) \/ InitFails(t) \/ Free(t)
    PROVE  StrandInv'
<1>0. pc \in [Wakers -> ThreadPcs \cup WakeupPcs] /\ Threads \subseteq Wakers
  BY DEF ControlTypeOK, Wakers
<1>1. CASE CopyCqes(t)
  <2>1. /\ pc[t] = "range" /\ UNCHANGED <<valid, head, tail>>
        /\ \E l \in {"idle", "wait", "copy", "done"} : pc' = [pc EXCEPT ![t] = l]
    BY <1>1 DEF CopyCqes, TryAgain, Return, Goto, ringVars
  <2>. QED
    BY <1>0, <2>1, StrandLogic
<1>2. ASSUME UNCHANGED <<valid, head, tail>>,
             \E l \in (ThreadPcs \cup WakeupPcs) \ {"range", "done"} : pc' = [pc EXCEPT ![t] = l]
      PROVE  StrandInv'
  BY <1>0, <1>2, StrandLogic
<1>3. CASE Wait(t)
  <2>1. UNCHANGED <<valid, head, tail>>
    BY <1>3 DEF Wait, WaitCount, PrepareToWait, WaitCheck, WaitTake, Awakened, FinishWait, WaitUncount, ringVars
  <2>2. \E l \in {"prep", "check", "take", "asleep", "finish", "again", "gone", "copy", "idle"} :
            pc' = [pc EXCEPT ![t] = l]
    BY <1>3 DEF Wait, WaitCount, PrepareToWait, WaitCheck, WaitTake, Awakened, FinishWait, WaitUncount,
                Goto, Return
  <2>. QED
    BY <1>2, <2>1, <2>2 DEF ThreadPcs
<1>4. CASE Wakeup(t)
  <2>1. UNCHANGED <<valid, head, tail>>
    BY <1>4 DEF Wakeup, WakeupRead, WakeupSet, WakeupWake, WakeupReordered, WakeupLate, ringVars
  <2>2. \E l \in {"w_set", "w_wake", "w_late", "f_fin", "idle"} : pc' = [pc EXCEPT ![t] = l]
    BY <1>4 DEF Wakeup, WakeupRead, WakeupSet, WakeupWake, WakeupReordered, WakeupLate, AfterWakeup, Goto
  <2>. QED
    BY <1>2, <2>1, <2>2 DEF ThreadPcs, WakeupPcs
<1>5. CASE \/ UninitDone(t) \/ FreeId(t)
           \/ \E r \in Requests : Recv(t, r)
           \/ Expired(t) \/ Interrupted(t) \/ AllocId(t) \/ InitFails(t) \/ Free(t)
  <2>1. UNCHANGED <<valid, head, tail>>
    BY <1>5 DEF UninitDone, FreeId, Recv, Expired, Interrupted, AllocId, InitFails, Free, ringVars
  <2>2. \E l \in {"f_id", "idle", "copy", "leave", "a_init", "f_lock"} : pc' = [pc EXCEPT ![t] = l]
    BY <1>5 DEF UninitDone, FreeId, Recv, Expired, Interrupted, AllocId, InitFails, Free, Goto
  <2>. QED
    BY <1>2, <2>1, <2>2 DEF ThreadPcs
<1>. QED
  BY <1>1, <1>3, <1>4, <1>5

(* A step that leaves a CQE behind sets left, and only a new traversal clears *)
(* it.                                                                        *)
LEMMA StrandStep ==
    ASSUME PhyInv, ControlTypeOK, left \/ StrandInv, [PathNext]_pathVars
    PROVE  left' \/ StrandInv'
<1>0. /\ Tasklet \in Producers /\ Work \in Producers
      /\ pending \in [Producers -> BOOLEAN]
      /\ dpc \in [Producers -> {"off", "loop", "sent", "end"}]
      /\ full_flag \in [Threads -> BOOLEAN]
      /\ pc \in [Wakers -> ThreadPcs \cup WakeupPcs] /\ Threads \subseteq Wakers /\ Producers \subseteq Wakers
  BY LogicPathAssumption DEF LogicPathAssumption, PhyInv, ChanType, ControlTypeOK, Wakers
<1>01. ASSUME left' = left, ~left' PROVE StrandInv
  BY <1>01
<1>1. CASE UNCHANGED pathVars
  <2>1. UNCHANGED <<vars, phase, cq_head, loop, full_flag, pending, dpc, left>>
    BY <1>1 DEF pathVars, chanVars
  <2>2. CASE StrandInv
    BY <2>1, <2>2, StrandQuiet DEF DispatcherComes
  <2>. QED
    BY <2>1, <2>2
<1>. SUFFICES ASSUME PathNext, ~left' PROVE StrandInv'
  BY <1>1
<1>2. CASE OtherInterrupt \/ DispatchLater \/ \E c \in Cqes : Post(c)
  <2>1. pending'[Tasklet] \/ pending'[Work]
    BY <1>0, <1>2 DEF OtherInterrupt, DispatchLater, Post
  <2>. QED
    BY <1>0, <2>1, StrandComes DEF DispatcherComes
<1>3. ASSUME NEW p \in Producers, Dispatch(p) PROVE StrandInv'
  <2>1. CASE chanLock = NoThread
    <3>1. dpc'[p] = "loop"
      BY <1>0, <1>3, <2>1 DEF Dispatch
    <3>. QED
      BY <3>1, StrandComes DEF DispatcherComes
  <2>2. CASE chanLock # NoThread
    <3>1. chanLock \in Producers /\ dpc[chanLock] # "off" /\ dpc' = dpc
      BY <1>3, <2>2 DEF Dispatch, PhyInv, ChanType, LockInv
    <3>2. dpc[chanLock] # "end"
      BY <1>3, <2>2, <3>1 DEF Dispatch, TooLate
    <3>. QED
      BY <1>0, <3>1, <3>2, StrandComes DEF DispatcherComes
  <2>. QED
    BY <2>1, <2>2
<1>4. ASSUME NEW p \in Producers, DispatchEmpty(p) PROVE StrandInv'
  <2>1. ~CqeIsValid(cq_head, loop)'
    BY <1>4 DEF DispatchEmpty, devVars, CqeIsValid
  <2>. QED
    BY <2>1 DEF StrandInv, CqeAwaited, SeenFull
<1>5. ASSUME NEW p \in Producers, DispatchShare(p) PROVE StrandInv'
  <2>1. pending'[Work]
    BY <1>0, <1>5 DEF DispatchShare
  <2>. QED
    BY <1>0, <2>1, StrandComes DEF DispatcherComes
<1>6. ASSUME NEW p \in Producers, DispatchFull(p) PROVE StrandInv'
  <2>1. UNCHANGED vars /\ full_flag' = full_flag /\ valid /\ IsFull
    BY <1>6 DEF DispatchFull
  <2>2. \A t \in Threads : pc[t] \in {"range", "done"} => full_flag[t]
    BY <1>6 DEF DispatchFull, FillsUnseen
  <2>. QED
    BY <2>1, <2>2 DEF StrandInv, CqeAwaited, SeenFull, IsFull, vars, ringVars
<1>7. ASSUME NEW p \in Producers, DispatchDrop(p) \/ DispatchEnque(p) \/ DispatchNext(p) PROVE StrandInv'
  <2>1. dpc'[p] \in {"loop", "sent"}
    BY <1>0, <1>7 DEF DispatchDrop, DispatchEnque, DispatchNext, TakeNext, AtNextCqe
  <2>. QED
    BY <2>1, StrandComes DEF DispatcherComes
<1>8. ASSUME NEW p \in Producers, DispatchEnd(p) PROVE StrandInv'
  <2>1. /\ UNCHANGED <<vars, phase, cq_head, loop, full_flag, pending, left>>
        /\ dpc[p] = "end" /\ dpc' = [dpc EXCEPT ![p] = "off"]
    BY <1>8 DEF DispatchEnd, devVars
  <2>2. DispatcherComes => DispatcherComes'
    BY <1>0, <2>1 DEF DispatcherComes
  <2>. QED
    BY <1>01, <2>1, <2>2, StrandQuiet
<1>9. ASSUME NEW t \in Threads, PathCopyReport(t) PROVE StrandInv'
  <2>0. StrandInv
    BY <1>01, <1>9 DEF PathCopyReport
  <2>1. /\ UNCHANGED <<valid, head, tail, phase, cq_head, loop, pending, dpc>>
        /\ \E l \in {"idle", "wait", "range"} : pc' = [pc EXCEPT ![t] = l]
        /\ full_flag' = [full_flag EXCEPT ![t] = (pc'[t] = "range") /\ IsFull]
    BY <1>9 DEF PathCopyReport, CopyReport, TryAgain, Return, Goto, ringVars, devVars
  <2>2. ASSUME IsFull, NEW s \in Threads, pc'[s] \in {"range", "done"},
               pc[s] \in {"range", "done"} => full_flag[s]
        PROVE  full_flag'[s]
    BY <1>0, <2>1, <2>2
  <2>3. /\ DispatcherComes' = DispatcherComes /\ IsFull' = IsFull
        /\ CqeIsValid(cq_head, loop)' = CqeIsValid(cq_head, loop)
    BY <2>1 DEF DispatcherComes, IsFull, CqeIsValid
  <2>. QED
    BY <2>0, <2>1, <2>2, <2>3 DEF StrandInv, CqeAwaited, SeenFull
<1>10. ASSUME NEW t \in Threads, PathCopyDone(t) PROVE StrandInv'
  <2>0. StrandInv
    BY <1>01, <1>10 DEF PathCopyDone
  <2>1. /\ pc[t] = "done" /\ UNCHANGED <<phase, cq_head, loop, dpc>>
        /\ pending' = [pending EXCEPT ![Tasklet] = @ \/ full_flag[t]]
    BY <1>10 DEF PathCopyDone, CopyDone, devVars
  <2>2. CASE DispatcherComes \/ full_flag[t]
    <3>1. DispatcherComes'
      BY <1>0, <2>1, <2>2 DEF DispatcherComes
    <3>. QED
      BY <3>1, StrandComes
  <2>3. CASE ~DispatcherComes /\ ~full_flag[t]
    <3>1. ~CqeIsValid(cq_head, loop)
      BY <2>0, <2>1, <2>3 DEF StrandInv, CqeAwaited, SeenFull
    <3>2. ~CqeIsValid(cq_head, loop)'
      BY <2>1, <3>1 DEF CqeIsValid
    <3>. QED
      BY <3>2 DEF StrandInv, CqeAwaited, SeenFull
  <2>. QED
    BY <2>2, <2>3
<1>11. ASSUME NEW t \in Threads, UNCHANGED chanVars, left' = (left \/ FreedInFront),
              InitQueue(t) \/ UninitLock(t)
       PROVE  StrandInv'
  <2>1. CASE DispatcherComes
    BY <1>11, <2>1, StrandComes DEF DispatcherComes, chanVars
  <2>2. CASE ~DispatcherComes
    <3>1. ~CqeIsValid(cq_head, loop)
      BY <1>11, <2>2 DEF FreedInFront, StrandInv, CqeAwaited
    <3>2. ~CqeIsValid(cq_head, loop)'
      BY <1>11, <3>1 DEF CqeIsValid, chanVars
    <3>. QED
      BY <3>2 DEF StrandInv, CqeAwaited, SeenFull
  <2>. QED
    BY <2>1, <2>2
<1>12. ASSUME NEW t \in Threads, UNCHANGED chanVars,
              \/ LogicOwn(t) /\ left' = (left \/ FreedInFront)
              \/ LogicCall(t) /\ left' = left
       PROVE  StrandInv'
  <2>1. StrandInv
    BY <1>12
  <2>. QED
    BY <1>0, <1>11, <1>12, <2>1, StrandOther DEF LogicOwn, LogicCall
<1>13. ASSUME NEW p \in Producers, PathWakeup(p) PROVE StrandInv'
  BY <1>0, <1>01, <1>13, StrandOther DEF PathWakeup
<1>. QED
  BY <1>2, <1>3, <1>4, <1>5, <1>6, <1>7, <1>8, <1>9, <1>10, <1>12, <1>13
     DEF PathNext, DispatchStep, PathThreadStep

(* A CQE that could be dispatched has a dispatcher on its way, or since the   *)
(* last traversal began one of three things has happened, and these are all:  *)
(* a trylock of trs_chan_cq_dispatch_non_block failed against a dispatcher    *)
(* that had looked for the last time; a traversal stopped for a logic CQ that *)
(* filled after trs_logic_cq_copy_report had looked; a full logic CQ was      *)
(* freed in front of the CQE.                                                 *)
THEOREM NoCqeStranded == PathSpec => []NoStrandedCqe
<1>1. PathSpec => []ControlTypeOK
  BY PathIsLogicCq, TypeCorrect, PTL
<1>2. left \/ StrandInv => NoStrandedCqe
  BY DEF StrandInv, CqeAwaited, NoStrandedCqe
<1>3. PhyInv /\ ControlTypeOK /\ (left \/ StrandInv) /\ [PathNext]_pathVars => (left \/ StrandInv)'
  BY StrandStep
<1>4. PathInit => left \/ StrandInv
  BY InitStrand
<1>. QED
  BY <1>1, <1>2, <1>3, <1>4, PhyInvariant, PTL DEF PathSpec
=============================================================================
