------------------------------ MODULE TrsChanSq ------------------------------
(***************************************************************************)
(* The submission queue of one channel, from trs_chan_send to the device   *)
(* and back, and the end of the channel: chan/chan_rxtx.c and              *)
(* chan/chan_init.c.                                                       *)
(*                                                                         *)
(* Senders take turns (semaphore), copy SQEs to the ring and ring the      *)
(* doorbell.  The device executes SQEs and reports its head in CQEs.  A    *)
(* dispatcher, the tasklet or the work item of the channel, moves sq_head, *)
(* the driver's idea of how far the device is: for hardware channels to    *)
(* what a query of the device says, otherwise to what the CQE says.  A     *)
(* sender that finds the ring of a hardware channel full asks the device   *)
(* as well.  The channel is released by whoever drops the last reference.  *)
(*                                                                         *)
(* The slots and phase bits of the physical CQ are in TrsLogicPath; here   *)
(* the CQEs that wait in it are a sequence.                                *)
(***************************************************************************)
EXTENDS Integers, Sequences, FiniteSets

CONSTANTS Senders,   \* threads in process context
          SqDepth,   \* sq->para.sq_depth
          HwTypes,   \* which channels: TRUE where types.type is CHAN_TYPE_HW
          CqDepth,   \* bound: CQEs the device can have outstanding
          MaxNum,    \* bound: para->sqe_num of a send
          Timeouts,  \* bound: para->timeout of a send, -1 for no timeout
          Nobody

Dispatchers == {"tasklet", "work"}

ASSUME SqAssumption ==
    /\ IsFiniteSet(Senders) /\ Nobody \notin Senders \cup Dispatchers
    /\ SqDepth \in Nat \ {0, 1} /\ MaxNum \in Nat \ {0}
    /\ HwTypes \subseteq BOOLEAN /\ CqDepth \in Nat \ {0}
    /\ Timeouts \subseteq Nat \cup {-1}

VARIABLES
    hw,         \* types.type of the channel is CHAN_TYPE_HW
    listed,     \* the channel is in chan_idr
    ref,        \* chan->ref
    sq_head, sq_tail,
    status,     \* sq.status
    sem,        \* holder of sq.sem
    doorbell,   \* the tail the device was told last
    dev_head,   \* the next SQE of the device
    lost,       \* an SQE was copied to a ring with no room for it
    overtaken,  \* history: a dispatcher stored a head that sq_head had passed
    cqes,       \* heads reported in CQEs that are not dispatched
    chan_lock,  \* holder of chan->lock
    on_irq_list,
    sched,      \* sched[d]: the tasklet or chan->work is scheduled
    disp,       \* where a dispatcher is, and the head it is about to store
    pc,         \* where a sender is
    sub,        \* the submission of the holder of the semaphore
    releasing   \* how far the release of the channel is

ringVars == <<sq_head, sq_tail, doorbell, lost, overtaken>>
devVars  == <<hw, dev_head, cqes, status>>
dispVars == <<chan_lock, sched, disp>>
lifeVars == <<listed, ref, on_irq_list, releasing>>
sendVars == <<sem, pc, sub>>
vars == <<ringVars, devVars, dispVars, lifeVars, sendVars>>

Plus(k, n) == (k + n) % SqDepth

(* From position a up to, not including, position b. *)
Distance(a, b) == (b - a) % SqDepth

Goto(t, l) == pc' = [pc EXCEPT ![t] = l]
NoSub == [left |-> 0, timeout |-> 0, first |-> 0, head |-> 0, again |-> FALSE]

-----------------------------------------------------------------------------
(* trs_chan_send_ex *)

(* trs_chan_get, and the check of sq.status. *)
Send(t) ==
    /\ pc[t] = "idle" /\ listed
    /\ ref' = ref + 1
    /\ Goto(t, IF status = 0 THEN "put" ELSE "sem")
    /\ UNCHANGED <<ringVars, devVars, dispVars, listed, on_irq_list, releasing, sem, sub>>

(* trs_chan_sem_down; trs_chan_submit keeps the tail it starts with. *)
SemDown(t) ==
    /\ pc[t] = "sem" /\ sem = Nobody /\ sem' = t /\ Goto(t, "check")
    /\ \E n \in 1 .. MaxNum, w \in Timeouts :
          sub' = [NoSub EXCEPT !.left = n, !.timeout = w, !.first = sq_tail]
    /\ UNCHANGED <<ringVars, devVars, dispVars, lifeVars>>

(* A timeout or a signal. *)
SemFails(t) ==
    /\ pc[t] = "sem" /\ Goto(t, "put")
    /\ UNCHANGED <<ringVars, devVars, dispVars, lifeVars, sem, sub>>

(* trs_chan_sq_is_full *)
IsFull == Plus(sq_tail, 1) = sq_head

(* trs_chan_submit after -ETIMEDOUT *)
Countdown(t) ==
    /\ Goto(t, "check")
    /\ sub' = [sub EXCEPT !.again = FALSE, !.timeout = IF @ = -1 THEN @ ELSE @ - 1]

(* trs_chan_fill_sqe on a ring that trs_chan_is_full calls full: the first    *)
(* look leads to a wait, the one after the wait (again) is -ETIMEDOUT.        *)
FoundFull(t) ==
    IF sub.again THEN Countdown(t)
    ELSE Goto(t, IF sub.timeout = 0 THEN "up" ELSE "wait") /\ UNCHANGED sub

(* trs_chan_is_full *)
CheckFull(t) ==
    /\ pc[t] = "check"
    /\ \/ ~IsFull /\ Goto(t, "write") /\ UNCHANGED sub
       \/ IsFull /\ hw /\ Goto(t, "query") /\ UNCHANGED sub
       \/ IsFull /\ ~hw /\ FoundFull(t)
    /\ UNCHANGED <<ringVars, devVars, dispVars, lifeVars, sem>>

(* trs_chan_update_sq_head_from_hw: a failed query leaves sq_head alone. *)
QueryHead(t) ==
    /\ pc[t] = "query" /\ Goto(t, "store")
    /\ sub' = [sub EXCEPT !.head = dev_head]
    /\ UNCHANGED <<ringVars, devVars, dispVars, lifeVars, sem>>

QueryFails(t) ==
    /\ pc[t] = "query" /\ FoundFull(t)
    /\ UNCHANGED <<ringVars, devVars, dispVars, lifeVars, sem>>

StoreHead(t) ==
    /\ pc[t] = "store" /\ Goto(t, "second")
    /\ sq_head' = sub.head /\ sub' = [sub EXCEPT !.head = 0]
    /\ UNCHANGED <<sq_tail, doorbell, lost, overtaken, devVars, dispVars, lifeVars, sem>>

(* The second look of trs_chan_is_full. *)
SecondLook(t) ==
    /\ pc[t] = "second"
    /\ IF IsFull THEN FoundFull(t) ELSE Goto(t, "write") /\ UNCHANGED sub
    /\ UNCHANGED <<ringVars, devVars, dispVars, lifeVars, sem>>

(* trs_chan_submit_wait, at most one millisecond. *)
Woken(t) ==
    /\ pc[t] = "wait" /\ ~IsFull
    /\ Goto(t, "check") /\ sub' = [sub EXCEPT !.again = TRUE]
    /\ UNCHANGED <<ringVars, devVars, dispVars, lifeVars, sem>>

WaitExpires(t) ==
    /\ pc[t] = "wait" /\ IsFull /\ Countdown(t)
    /\ UNCHANGED <<ringVars, devVars, dispVars, lifeVars, sem>>

WaitSignalled(t) ==
    /\ pc[t] = "wait" /\ Goto(t, "up")
    /\ UNCHANGED <<ringVars, devVars, dispVars, lifeVars, sem, sub>>

(* The device has still to execute all of the ring. *)
NoRoom == Plus(sq_tail, 1) = dev_head

WriteNoWrap(t) ==
    /\ pc[t] = "write" /\ Goto(t, IF sub.left = 1 THEN "ring" ELSE "check")
    /\ sq_tail' = sq_tail + 1 /\ lost' = (lost \/ NoRoom)
    /\ sub' = [sub EXCEPT !.left = @ - 1, !.again = FALSE]
    /\ UNCHANGED <<sq_head, doorbell, overtaken, devVars, dispVars, lifeVars, sem>>

(* Copy the SQE to the tail. *)
Write(t) ==
    /\ pc[t] = "write" /\ Goto(t, IF sub.left = 1 THEN "ring" ELSE "check")
    /\ sq_tail' = Plus(sq_tail, 1) /\ lost' = (lost \/ NoRoom)
    /\ sub' = [sub EXCEPT !.left = @ - 1, !.again = FALSE]
    /\ UNCHANGED <<sq_head, doorbell, overtaken, devVars, dispVars, lifeVars, sem>>

(* copy_from_user or the check of the SQE fails: what was copied before stays *)
(* behind the doorbell, and goes to the device with the next one.             *)
WriteFails(t) ==
    /\ pc[t] = "write" /\ Goto(t, "up")
    /\ UNCHANGED <<ringVars, devVars, dispVars, lifeVars, sem, sub>>

(* CTRL_CMD_SQ_TAIL_UPDATE *)
Ring(t) ==
    /\ pc[t] = "ring" /\ Goto(t, "up")
    /\ doorbell' = sq_tail
    /\ UNCHANGED <<sq_head, sq_tail, lost, overtaken, devVars, dispVars, lifeVars, sem, sub>>

(* The tail goes back one SQE too far. *)
RingFailsOff(t) ==
    /\ pc[t] = "ring" /\ Goto(t, "up")
    /\ sq_tail' = Plus(sub.first, SqDepth - 1)
    /\ UNCHANGED <<sq_head, doorbell, lost, overtaken, devVars, dispVars, lifeVars, sem, sub>>

RingFails(t) ==
    /\ pc[t] = "ring" /\ Goto(t, "up")
    /\ sq_tail' = sub.first
    /\ UNCHANGED <<sq_head, doorbell, lost, overtaken, devVars, dispVars, lifeVars, sem, sub>>

(* A failed submit returns with the semaphore held. *)
SemUpForgets(t) ==
    /\ pc[t] = "up" /\ sem' = IF sub.left = 0 THEN Nobody ELSE sem
    /\ sub' = NoSub /\ Goto(t, "put")
    /\ UNCHANGED <<ringVars, devVars, dispVars, lifeVars>>

SemUp(t) ==
    /\ pc[t] = "up" /\ sem' = Nobody
    /\ sub' = NoSub /\ Goto(t, "put")
    /\ UNCHANGED <<ringVars, devVars, dispVars, lifeVars>>

-----------------------------------------------------------------------------
(* The end of a channel. *)

(* trs_chan_put; the last one releases the channel. *)
PutRef ==
    /\ ref' = ref - 1
    /\ releasing' = IF ref = 1 THEN "sq" ELSE releasing

Put(t) ==
    /\ pc[t] = "put" /\ PutRef /\ Goto(t, "idle")
    /\ UNCHANGED <<ringVars, devVars, dispVars, listed, on_irq_list, sem, sub>>

(* trs_chan_inst_destroy: out of chan_idr, then the reference of the table.   *)
(* The wakeups change nothing: the condition of a waiting sender stays false. *)
Destroy ==
    /\ listed /\ listed' = FALSE /\ PutRef
    /\ UNCHANGED <<ringVars, devVars, dispVars, on_irq_list, sendVars>>

(* _trs_chan_inst_release: the device is told, the SQ goes first. *)
SqUninit ==
    /\ releasing = "sq" /\ releasing' = "list"
    /\ UNCHANGED <<ringVars, devVars, dispVars, listed, ref, on_irq_list, sendVars>>

(* trs_chan_del_from_irq_list, under the lock the tasklet holds. *)
DelFromIrqList ==
    /\ releasing = "list" /\ disp["tasklet"].pc = "idle"
    /\ on_irq_list' = FALSE /\ releasing' = "work"
    /\ UNCHANGED <<ringVars, devVars, dispVars, listed, ref, sendVars>>

CancelWorkNoSync ==
    /\ releasing = "work"
    /\ sched' = [sched EXCEPT !["work"] = FALSE] /\ releasing' = "gone"
    /\ UNCHANGED <<ringVars, devVars, chan_lock, disp, listed, ref, on_irq_list, sendVars>>

(* cancel_work_sync waits for the work item; then the memory is freed. *)
CancelWork ==
    /\ releasing = "work" /\ disp["work"].pc = "idle"
    /\ sched' = [sched EXCEPT !["work"] = FALSE] /\ releasing' = "gone"
    /\ UNCHANGED <<ringVars, devVars, chan_lock, disp, listed, ref, on_irq_list, sendVars>>

-----------------------------------------------------------------------------
(* Dispatchers and the device. *)

(* An interrupt for another channel of the irq_ctx, or                       *)
(* CHAN_CTRL_CMD_CQ_SCHED.                                                   *)
Interrupt ==
    /\ sched' = [sched EXCEPT !["tasklet"] = TRUE]
    /\ UNCHANGED <<ringVars, devVars, chan_lock, disp, lifeVars, sendVars>>

(* trs_chan_irq_proc_list after three seconds: the work item has to do it. *)
DispatchLater ==
    /\ sched["tasklet"] /\ disp["tasklet"].pc = "idle" /\ on_irq_list
    /\ sched' = [sched EXCEPT !["tasklet"] = FALSE, !["work"] = TRUE]
    /\ UNCHANGED <<ringVars, devVars, chan_lock, disp, lifeVars, sendVars>>

At(d, l) == disp' = [disp EXCEPT ![d] = [pc |-> l, val |-> 0]]

(* trs_chan_cq_dispatch_non_block: one attempt at the lock. *)
Dispatch(d) ==
    /\ sched[d] /\ disp[d].pc = "idle" /\ (d = "tasklet" => on_irq_list)
    /\ sched' = [sched EXCEPT ![d] = FALSE]
    /\ IF chan_lock = Nobody THEN chan_lock' = d /\ At(d, "loop") ELSE UNCHANGED <<chan_lock, disp>>
    /\ UNCHANGED <<ringVars, devVars, lifeVars, sendVars>>

TakeAhead(d) ==
    /\ disp[d].pc = "loop" /\ cqes # <<>>
    /\ disp' = [disp EXCEPT ![d] = [pc |-> "store", val |-> Plus(Head(cqes), 1)]]
    /\ UNCHANGED <<ringVars, devVars, chan_lock, sched, lifeVars, sendVars>>

(* trs_chan_cq_dispatch at a CQE, trs_chan_try_to_update_sq_head: the head of *)
(* the device, or, when it cannot be asked, the head in the CQE.              *)
Take(d) ==
    /\ disp[d].pc = "loop" /\ cqes # <<>>
    /\ \E h \in IF hw THEN {dev_head, Head(cqes)} ELSE {Head(cqes)} :
          disp' = [disp EXCEPT ![d] = [pc |-> "store", val |-> h]]
    /\ UNCHANGED <<ringVars, devVars, chan_lock, sched, lifeVars, sendVars>>

(* The position v is behind sq_head, seen from the device. *)
Passed(v) == Distance(v, dev_head) > Distance(sq_head, dev_head)

(* trs_chan_update_sq_head; the CQE is done with.  The CQE after it may be    *)
(* the 64th of the traversal, which is left to the work item.                 *)
DispatchStore(d) ==
    /\ disp[d].pc = "store"
    /\ sq_head' = disp[d].val
    /\ overtaken' = (overtaken \/ Passed(disp[d].val))
    /\ cqes' = Tail(cqes)
    /\ \/ At(d, "loop") /\ UNCHANGED sched
       \/ At(d, "end") /\ cqes' # <<>> /\ sched' = [sched EXCEPT !["work"] = TRUE]
    /\ UNCHANGED <<hw, sq_tail, doorbell, lost, dev_head, status, chan_lock, lifeVars, sendVars>>

(* No valid CQE is left.  A hardware channel is asked for the tail of its CQ; *)
(* it may know of a CQE by then, and the tasklet comes again for it.          *)
DispatchEmpty(d) ==
    /\ disp[d].pc = "loop" /\ cqes = <<>>
    /\ \E again \in IF hw THEN BOOLEAN ELSE {FALSE} :
          sched' = [sched EXCEPT !["tasklet"] = @ \/ again]
    /\ At(d, "end")
    /\ UNCHANGED <<ringVars, devVars, chan_lock, lifeVars, sendVars>>

DispatchEnd(d) ==
    /\ disp[d].pc = "end"
    /\ chan_lock' = Nobody
    /\ At(d, "idle")
    /\ UNCHANGED <<ringVars, devVars, sched, lifeVars, sendVars>>

(* The device executes the SQE at its head, reports the next position and     *)
(* raises an interrupt.                                                       *)
Execute ==
    /\ status = 1 /\ dev_head # doorbell /\ Len(cqes) < CqDepth
    /\ releasing = "no"
    /\ dev_head' = Plus(dev_head, 1)
    /\ cqes' = Append(cqes, dev_head')
    /\ sched' = [sched EXCEPT !["tasklet"] = TRUE]
    /\ UNCHANGED <<ringVars, hw, status, chan_lock, disp, lifeVars, sendVars>>

(* CHAN_CTRL_CMD_SQ_STATUS_SET *)
SetStatus ==
    /\ listed /\ status' = 1 - status
    /\ UNCHANGED <<ringVars, hw, dev_head, cqes, dispVars, lifeVars, sendVars>>

-----------------------------------------------------------------------------
Sending(t) ==
    \/ SemDown(t) \/ CheckFull(t) \/ QueryHead(t) \/ StoreHead(t) \/ SecondLook(t)
    \/ Woken(t) \/ WaitExpires(t) \/ Write(t) \/ Ring(t) \/ SemUp(t) \/ Put(t)

Failing(t) == SemFails(t) \/ QueryFails(t) \/ WaitSignalled(t) \/ WriteFails(t) \/ RingFails(t)

Dispatching(d) ==
    Dispatch(d) \/ Take(d) \/ DispatchStore(d) \/ DispatchEmpty(d) \/ DispatchEnd(d)

Releasing == SqUninit \/ DelFromIrqList \/ CancelWork

Init ==
    /\ hw \in HwTypes
    /\ listed = TRUE /\ ref = 1 /\ on_irq_list = TRUE /\ releasing = "no"
    /\ sq_head = 0 /\ sq_tail = 0 /\ doorbell = 0 /\ lost = FALSE /\ overtaken = FALSE
    /\ dev_head = 0 /\ cqes = <<>> /\ status = 1
    /\ sem = Nobody /\ chan_lock = Nobody
    /\ sched = [d \in Dispatchers |-> FALSE]
    /\ disp = [d \in Dispatchers |-> [pc |-> "idle", val |-> 0]]
    /\ pc = [t \in Senders |-> "idle"] /\ sub = NoSub

Next ==
    \/ \E t \in Senders : Send(t) \/ Sending(t) \/ Failing(t)
    \/ \E d \in Dispatchers : Dispatching(d)
    \/ Interrupt \/ DispatchLater \/ Destroy \/ Releasing
    \/ Execute \/ SetStatus

Spec == Init /\ [][Next]_vars

(* Senders run on and not every query fails; a tasklet or work item that is   *)
(* scheduled runs once, and a traversal goes on to its end; a device whose SQ *)
(* is enabled executes.  Nothing obliges anybody to schedule the tasklet.     *)
(* The lock of the irq_ctx is a queued spinlock and cancel_work_sync keeps    *)
(* the work item from being queued again: dispatchers that come back and back *)
(* do not shut out the release.                                               *)
Fairness ==
    /\ \A t \in Senders : WF_vars(Sending(t))
    /\ SF_vars(\E t \in Senders : QueryHead(t))
    /\ \A d \in Dispatchers : WF_vars(Dispatching(d))
    /\ SF_vars(Releasing) /\ WF_vars(Execute)

FairSpec == Spec /\ Fairness

-----------------------------------------------------------------------------
Places == {"idle", "sem", "check", "query", "store", "second", "wait", "write", "ring", "up", "put"}

Rounds == {"idle", "loop", "store", "end"}

Position == 0 .. SqDepth - 1

(* Every variable keeps its type; positions stay inside the ring. *)
TypeOK ==
    /\ hw \in HwTypes
    /\ listed \in BOOLEAN /\ on_irq_list \in BOOLEAN /\ overtaken \in BOOLEAN
    /\ ref \in Nat /\ status \in {0, 1} /\ lost \in BOOLEAN
    /\ {sq_head, sq_tail, doorbell, dev_head} \subseteq Position
    /\ cqes \in Seq(Position)
    /\ sem \in Senders \cup {Nobody} /\ chan_lock \in Dispatchers \cup {Nobody}
    /\ sched \in [Dispatchers -> BOOLEAN]
    /\ disp \in [Dispatchers -> [pc : Rounds, val : Position]]
    /\ pc \in [Senders -> Places]
    /\ sub \in [left : 0 .. MaxNum, timeout : Nat \cup {-1},
                first : Position, head : Position, again : BOOLEAN]
    /\ releasing \in {"no", "sq", "list", "work", "gone"}

(* No sender runs into SQEs the device has not executed, or takes back the    *)
(* tail behind a doorbell, after failed sends, across the end of the ring,    *)
(* however late the dispatchers are and however many CQEs are outstanding,    *)
(* unless a dispatcher has stored a head that sq_head had passed.             *)
SubmittedIntact ==
    overtaken \/ (~lost /\ Distance(dev_head, doorbell) <= Distance(dev_head, sq_tail))

(* sq_head may lag behind the device but never overtakes it and never falls   *)
(* back behind the senders: the equality test of trs_chan_sq_is_full needs    *)
(* both.  The exception is the same, and only a channel that is asked for its *)
(* head, by dispatchers and senders without a common lock, can meet it.       *)
HeadIsPast ==
    /\ overtaken => hw
    /\ overtaken \/ Distance(sq_head, sq_tail) >= Distance(dev_head, sq_tail)

(* The SQ is there while somebody sends, the channel while somebody           *)
(* dispatches, although tasklet and work item hold no reference.              *)
LiveWhileUsed ==
    /\ (\E t \in Senders : pc[t] # "idle") => releasing = "no"
    /\ (\E d \in Dispatchers : disp[d].pc # "idle") => releasing # "gone"

(* SQEs of a send that failed halfway, which no doorbell has told of. *)
Leftover == sem = Nobody /\ doorbell # sq_tail

(* A channel that is destroyed with its SQ enabled is released in the end,    *)
(* unless a send failed halfway: every send that is under way, of fewer SQEs  *)
(* than the ring has slots, returns, however long it is willing to wait,      *)
(* because a full ring holds SQEs the device knows of.  It takes interrupts   *)
(* that keep coming: a tasklet that gave up the lock leaves its CQEs, a CQ    *)
(* that may be full of them, and the sender behind them to the next one.      *)
ReleasedInTheEnd ==
    MaxNum < SqDepth /\ []~Leftover /\ []<>sched["tasklet"]
        => (~listed /\ status = 1 ~> releasing = "gone")
=============================================================================
