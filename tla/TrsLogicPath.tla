----------------------------- MODULE TrsLogicPath -----------------------------
(***************************************************************************)
(* The way of a completion from the device to a receiver: the task         *)
(* scheduler writes CQEs with a phase bit into the physical completion     *)
(* queue of a channel and raises an interrupt, chan/chan_rxtx.c dispatches *)
(* them from a tasklet or a work item into the logic CQ of TrsLogicCq, and *)
(* a receiver that drains a full logic CQ schedules the dispatcher again.  *)
(***************************************************************************)
EXTENDS TrsLogicCq

CONSTANTS Tasklet, Work,  \* the two contexts that dispatch; they are the Producers
          PhyDepth,       \* depth of the physical CQ
          DispatchNum,    \* where one dispatch stops (64)
          Overload,       \* other channels of the interrupt may use up its 3 seconds
          MaxPosts        \* bound on the CQEs the device writes

ASSUME LogicPathAssumption ==
    /\ Producers = {Tasklet, Work} /\ Tasklet # Work /\ NoThread \notin Producers
    /\ PhyDepth \in Nat /\ PhyDepth > 1
    /\ DispatchNum \in Nat \ {0}
    /\ Overload \in BOOLEAN
    /\ MaxPosts \in Nat

VARIABLES slot, phase,    \* what the device wrote: CQE and phase bit of each slot
          hwTail, hwPhase,\* where the device writes next, and with which phase
          hwHead,         \* the head the device was last told
          cq_head, loop,  \* chan->cq.cq_head and the parity of chan->cq.loop
          chanLock,       \* holder of chan->lock
          pending,        \* pending[p]: the tasklet or the work item is scheduled
          dpc, proc_num,  \* where dispatcher p is, and how many CQEs it has looked at
          full_flag,      \* full_flag[t] of a copy under way
          posts,          \* CQEs written so far
          left            \* history: since the last traversal began, one of the
                          \* steps that can leave a CQE behind was taken

chanVars == <<slot, phase, hwTail, hwPhase, hwHead, cq_head, loop, chanLock,
              pending, dpc, proc_num, full_flag, posts>>
devVars  == <<slot, phase, hwTail, hwPhase, posts>>
pathVars == <<vars, chanVars, left>>

PhySlots == 0 .. PhyDepth - 1

(* trs_logic_cqe_is_valid *)
CqeIsValid(i, l) == phase[i] = (l + 1) % 2

(* What can leave a CQE behind: a dispatcher finds the lock taken by one that *)
(* has looked for the last time, ...                                          *)
TooLate == \E q \in Producers : dpc[q] = "end"

(* ... a traversal stops for a logic CQ that filled after its receiver looked *)
(* whether it was full, ...                                                   *)
FillsUnseen == \E t \in Threads : pc[t] \in {"range", "done"} /\ ~full_flag[t]

(* ... or the full logic CQ for which a CQE waits is freed.                   *)
FreedInFront ==
    /\ CqeIsValid(cq_head, loop) /\ valid /\ IsFull
    /\ \E t \in Threads : UninitLock(t) \/ InitQueue(t)

-----------------------------------------------------------------------------
(* The task scheduler (external): it leaves one slot free behind the head it *)
(* was told, flips the phase on every lap, and its interrupt schedules the    *)
(* tasklet.                                                                   *)
Post(c) ==
    /\ posts < MaxPosts
    /\ (hwTail + 1) % PhyDepth # hwHead
    /\ slot' = [slot EXCEPT ![hwTail] = c]
    /\ phase' = [phase EXCEPT ![hwTail] = hwPhase]
    /\ hwTail' = (hwTail + 1) % PhyDepth
    /\ hwPhase' = IF hwTail' = 0 THEN 1 - hwPhase ELSE hwPhase
    /\ posts' = posts + 1
    /\ pending' = [pending EXCEPT ![Tasklet] = TRUE]
    /\ UNCHANGED <<vars, hwHead, cq_head, loop, chanLock, dpc, proc_num, full_flag, left>>

(* An interrupt for another channel on the list of this irq_ctx. *)
OtherInterrupt ==
    /\ pending' = [pending EXCEPT ![Tasklet] = TRUE]
    /\ UNCHANGED <<vars, devVars, hwHead, cq_head, loop, chanLock, dpc, proc_num, full_flag, left>>

(* trs_chan_irq_proc_list or trs_chan_work, up to the trylock of             *)
(* trs_chan_cq_dispatch_non_block: a dispatcher that finds the lock taken     *)
(* returns.                                                                   *)
Dispatch(p) ==
    /\ pending[p]
    /\ dpc[p] = "off"
    /\ pending' = [pending EXCEPT ![p] = FALSE]
    /\ proc_num' = [proc_num EXCEPT ![p] = 0]
    /\ IF chanLock = NoThread
       THEN chanLock' = p /\ dpc' = [dpc EXCEPT ![p] = "loop"] /\ left' = FALSE
       ELSE left' = (left \/ TooLate) /\ UNCHANGED <<chanLock, dpc>>
    /\ UNCHANGED <<vars, devVars, hwHead, cq_head, loop, full_flag>>

(* The tasklet has run for three seconds: the work item has to do it. *)
DispatchLater ==
    /\ Overload
    /\ pending[Tasklet]
    /\ dpc[Tasklet] = "off"
    /\ pending' = [pending EXCEPT ![Tasklet] = FALSE, ![Work] = TRUE]
    /\ UNCHANGED <<vars, devVars, hwHead, cq_head, loop, chanLock, dpc, proc_num, full_flag, left>>

(* Mutant of UpdateCqHead: the head does not wrap. *)
UpdateCqHeadNoWrap ==
    /\ cq_head' = cq_head + 1
    /\ loop' = loop

(* Mutant of UpdateCqHead: the lap is not counted. *)
UpdateCqHeadNoLap ==
    /\ cq_head' = (cq_head + 1) % PhyDepth
    /\ loop' = loop

(* trs_chan_update_cq_head *)
UpdateCqHead ==
    /\ cq_head' = (cq_head + 1) % PhyDepth
    /\ loop' = IF cq_head' = 0 THEN 1 - loop ELSE loop

AtNextCqe(p) == dpc[p] = "loop" /\ pc[p] = "idle"

(* The traversal of trs_chan_cq_dispatch ends: no valid CQE is left ... *)
DispatchEmpty(p) ==
    /\ AtNextCqe(p)
    /\ ~CqeIsValid(cq_head, loop)
    /\ dpc' = [dpc EXCEPT ![p] = "end"]
    /\ UNCHANGED <<vars, devVars, hwHead, cq_head, loop, chanLock, pending, proc_num, full_flag, left>>

(* ... or this dispatch has done its share, and the work item goes on ... *)
DispatchShare(p) ==
    /\ AtNextCqe(p)
    /\ CqeIsValid(cq_head, loop)
    /\ proc_num[p] + 1 = DispatchNum
    /\ pending' = [pending EXCEPT ![Work] = TRUE]
    /\ dpc' = [dpc EXCEPT ![p] = "end"]
    /\ UNCHANGED <<vars, devVars, hwHead, cq_head, loop, chanLock, proc_num, full_flag, left>>

(* trs_logic_phy_cq_recv_proc hands the next CQE over. *)
TakeNext(p) ==
    /\ AtNextCqe(p)
    /\ CqeIsValid(cq_head, loop)
    /\ proc_num[p] + 1 # DispatchNum
    /\ proc_num' = [proc_num EXCEPT ![p] = @ + 1]

(* ... or the logic CQ is full (CQ_RECV_CONTINUE). *)
DispatchFull(p) ==
    /\ TakeNext(p)
    /\ valid /\ IsFull
    /\ dpc' = [dpc EXCEPT ![p] = "end"]
    /\ left' = (left \/ FillsUnseen)
    /\ UNCHANGED <<vars, devVars, hwHead, cq_head, loop, chanLock, pending, full_flag>>

(* Mutant of DispatchDrop: a CQE for a logic CQ that is gone stays. *)
DispatchKeep(p) ==
    /\ TakeNext(p)
    /\ ~valid
    /\ dpc' = [dpc EXCEPT ![p] = "end"]
    /\ UNCHANGED <<vars, devVars, hwHead, cq_head, loop, chanLock, pending, full_flag, left>>

(* A CQE for a logic CQ that is gone is dropped. *)
DispatchDrop(p) ==
    /\ TakeNext(p)
    /\ ~valid
    /\ UpdateCqHead
    /\ UNCHANGED <<vars, devVars, hwHead, chanLock, pending, dpc, full_flag, left>>

DispatchEnque(p) ==
    /\ TakeNext(p)
    /\ Enque(p, slot[cq_head])
    /\ dpc' = [dpc EXCEPT ![p] = "sent"]
    /\ UNCHANGED <<devVars, hwHead, cq_head, loop, chanLock, pending, full_flag, left>>

(* trs_logic_cq_enque has returned. *)
DispatchNext(p) ==
    /\ dpc[p] = "sent"
    /\ pc[p] = "idle"
    /\ UpdateCqHead
    /\ dpc' = [dpc EXCEPT ![p] = "loop"]
    /\ UNCHANGED <<vars, devVars, hwHead, chanLock, pending, proc_num, full_flag, left>>

(* Mutant of DispatchEnd: the request for a dispatch is cleared after it, not *)
(* before.                                                                    *)
DispatchEndClears(p) ==
    /\ dpc[p] = "end"
    /\ hwHead' = cq_head
    /\ chanLock' = NoThread
    /\ dpc' = [dpc EXCEPT ![p] = "off"]
    /\ proc_num' = [proc_num EXCEPT ![p] = 0]
    /\ pending' = [pending EXCEPT ![p] = FALSE]
    /\ UNCHANGED <<vars, devVars, cq_head, loop, full_flag, left>>

(* The device learns the new head; the lock is released. *)
DispatchEnd(p) ==
    /\ dpc[p] = "end"
    /\ hwHead' = cq_head
    /\ chanLock' = NoThread
    /\ dpc' = [dpc EXCEPT ![p] = "off"]
    /\ proc_num' = [proc_num EXCEPT ![p] = 0]
    /\ UNCHANGED <<vars, devVars, cq_head, loop, pending, full_flag, left>>

DispatchStep(p) == \/ Dispatch(p) \/ DispatchEmpty(p) \/ DispatchShare(p) \/ DispatchFull(p)
                   \/ DispatchDrop(p) \/ DispatchEnque(p) \/ DispatchNext(p) \/ DispatchEnd(p)

-----------------------------------------------------------------------------
(* The steps of the logic CQ that touch the channel. *)

(* trs_logic_cq_copy_report notes whether the logic CQ is full ... *)
PathCopyReport(t) ==
    /\ CopyReport(t)
    /\ full_flag' = [full_flag EXCEPT ![t] = (pc'[t] = "range") /\ IsFull]
    /\ UNCHANGED <<devVars, hwHead, cq_head, loop, chanLock, pending, dpc, proc_num, left>>

(* ... and schedules the tasklet after the copy if it was. *)
PathCopyDone(t) ==
    /\ CopyDone(t)
    /\ pending' = [pending EXCEPT ![Tasklet] = @ \/ full_flag[t]]
    /\ full_flag' = [full_flag EXCEPT ![t] = FALSE]
    /\ UNCHANGED <<devVars, hwHead, cq_head, loop, chanLock, dpc, proc_num, left>>

(* The steps that do not. *)
LogicOwn(t) == \/ CopyCqes(t) \/ Wait(t) \/ Wakeup(t)
               \/ InitQueue(t) \/ UninitLock(t) \/ UninitDone(t) \/ FreeId(t)

PathThreadStep(t) == \/ PathCopyReport(t)
                     \/ PathCopyDone(t)
                     \/ LogicOwn(t) /\ left' = (left \/ FreedInFront) /\ UNCHANGED chanVars

LogicCall(t) == \/ t \in Receivers /\ \E r \in Requests : Recv(t, r)
                \/ t \in Receivers /\ (Expired(t) \/ Interrupted(t))
                \/ t \in Controllers /\ (AllocId(t) \/ InitFails(t) \/ Free(t))

PathWakeup(p) == Wakeup(p) /\ UNCHANGED <<chanVars, left>>

PathInit ==
    /\ Init
    /\ slot = [i \in PhySlots |-> NoCqe]
    /\ phase = [i \in PhySlots |-> 0]
    /\ hwTail = 0
    /\ hwPhase = 1
    /\ hwHead = 0
    /\ cq_head = 0
    /\ loop = 0
    /\ chanLock = NoThread
    /\ pending = [p \in Producers |-> FALSE]
    /\ dpc = [p \in Producers |-> "off"]
    /\ proc_num = [p \in Producers |-> 0]
    /\ full_flag = [t \in Threads |-> FALSE]
    /\ posts = 0
    /\ left = FALSE

PathNext ==
    \/ \E c \in Cqes : Post(c)
    \/ OtherInterrupt
    \/ DispatchLater
    \/ \E p \in Producers : DispatchStep(p) \/ PathWakeup(p)
    \/ \E t \in Threads : \/ PathThreadStep(t)
                          \/ LogicCall(t) /\ UNCHANGED <<chanVars, left>>

PathSpec == PathInit /\ [][PathNext]_pathVars

(* A scheduled tasklet or work item runs, a dispatcher and a thread inside an *)
(* ioctl go on; nothing obliges the device or the process.                    *)
PathFairness ==
    /\ \A p \in Producers : WF_pathVars(DispatchStep(p) \/ PathWakeup(p))
    /\ \A t \in Threads : WF_pathVars(PathThreadStep(t))

PathFairSpec == PathSpec /\ PathFairness

-----------------------------------------------------------------------------
(* Properties *)

(* Every variable of the channel has its type; heads and tails index the     *)
(* physical CQ.                                                               *)
PathTypeOK ==
    /\ TypeOK
    /\ slot \in [PhySlots -> Cqes \cup {NoCqe}]
    /\ phase \in [PhySlots -> {0, 1}]
    /\ {hwTail, hwHead, cq_head} \subseteq PhySlots
    /\ {hwPhase, loop} \subseteq {0, 1}
    /\ chanLock \in Producers \cup {NoThread}
    /\ pending \in [Producers -> BOOLEAN]
    /\ dpc \in [Producers -> {"off", "loop", "sent", "end"}]
    /\ proc_num \in [Producers -> 0 .. DispatchNum]
    /\ full_flag \in [Threads -> BOOLEAN]
    /\ posts \in 0 .. MaxPosts
    /\ left \in BOOLEAN

(* The physical CQ as the phase bits show it to the dispatcher. *)
PhyQueue ==
    LET at(k)    == (cq_head + k) % PhyDepth
        lap(k)   == IF cq_head + k < PhyDepth THEN loop ELSE 1 - loop
        shown    == {n \in 0 .. PhyDepth : \A k \in 0 .. n - 1 : CqeIsValid(at(k), lap(k))}
    IN  [k \in 1 .. Max(shown) |-> slot[at(k - 1)]]

(* The phase bits never lie: what they show the dispatcher changes only by    *)
(* the device adding one CQE and by the dispatcher consuming the oldest one,  *)
(* on every lap of the ring, though the device learns the head late.          *)
PhySeesFifo ==
    [][ \/ PhyQueue' = PhyQueue
        \/ PhyQueue # <<>> /\ PhyQueue' = Tail(PhyQueue)
        \/ posts' = posts + 1 /\ PhyQueue' = Append(PhyQueue, slot'[hwTail]) ]_pathVars

(* A dispatcher is on its way: scheduled, or not done with its traversal. *)
DispatcherComes == \E p \in Producers : pending[p] \/ dpc[p] \in {"loop", "sent"}

(* A CQE that could be dispatched has a dispatcher on its way, whatever       *)
(* tasklet and work item do to each other, unless a traversal has ended and   *)
(* since then one of TooLate, FillsUnseen and FreedInFront happened.          *)
NoStrandedCqe ==
    CqeIsValid(cq_head, loop) /\ ~(valid /\ IsFull) => DispatcherComes \/ left

(* The thread that fetches from a full logic CQ resumes the traversal that    *)
(* stopped for it (chan_rxtx.c:631).                                          *)
FetchResumesTraversal ==
    CqeIsValid(cq_head, loop) /\ valid /\ ~IsFull => DispatcherComes

(* The CQE at the head of the physical CQ is consumed, unless the logic CQ    *)
(* fills up in front of it or it is left behind.                              *)
CqeDispatched ==
    \A i \in PhySlots :
        CqeIsValid(cq_head, loop) /\ cq_head = i ~> cq_head # i \/ (valid /\ IsFull) \/ left

(* Whatever was missed, a full logic CQ that was drained or a lock that was   *)
(* taken, the next interrupt of the channel's interrupt line makes good: if   *)
(* interrupts keep coming, no CQE stays behind.                               *)
InterruptRepairs ==
    []<>pending[Tasklet] =>
        \A i \in PhySlots :
            CqeIsValid(cq_head, loop) /\ cq_head = i ~> cq_head # i \/ (valid /\ IsFull)

(* A CQE waits in the physical CQ that no dispatcher has handed over yet. *)
Unsent == CqeIsValid(cq_head, loop) /\ \A p \in Producers : dpc[p] # "sent"

(* From the device to the receiver: a thread that sleeps in a receive while a *)
(* CQE that anybody may take waits in the physical CQ gets an answer, unless  *)
(* the CQE is left behind.                                                    *)
ReceiverServed ==
    \A t \in Receivers :
        pc[t] = "asleep" /\ valid /\ Unsent ~> pc[t] = "idle" \/ ~valid \/ left
=============================================================================
