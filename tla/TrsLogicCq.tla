------------------------------ MODULE TrsLogicCq ------------------------------
(***************************************************************************)
(* One logic completion queue of trs_core/trs_logic_cq.c: the ring that    *)
(* the dispatchers (tasklets, work items) fill and the threads of the      *)
(* owning process drain, the wait queue on which a receive sleeps, and the *)
(* allocation and the freeing of the queue.                                *)
(*                                                                         *)
(* Everything a dispatcher does under logic_cq->lock is one step.  A       *)
(* receiver holds logic_cq->mutex over several steps, so dispatchers run   *)
(* in between.  Waiting and waking touch wait_thread_num, wakeup_num and   *)
(* the wait queue in separate steps, as the code does.                     *)
(***************************************************************************)
EXTENDS Integers, Sequences, FiniteSets, FiniteSetsExt

CONSTANTS Receivers,    \* threads of the owning process that receive
          Controllers,  \* threads of that process that allocate and free the queue
          Producers,    \* contexts that call trs_logic_cq_enque
          Depth,        \* cq_depth
          Cqes,         \* CQEs: records [match, task, data]
          Requests,     \* halReportRecvInfo: records [version, task, num,
                        \*   timeout \in {"zero","some","never"}, buf \in {"ok","bad"}]
          NoReq,        \* the request of a thread that is not in a receive
          NoCqe,        \* a slot of freshly allocated (zeroed) memory
          NoThread,     \* holder of an unlocked mutex
          StoreOrdered  \* wakeup_num is globally visible before waitqueue_active
                        \* reads the wait queue (smp_wmb does not order the two)

Threads == Receivers \cup Controllers
Slots   == 0 .. Depth - 1
Wakers  == Threads \cup Producers

ASSUME LogicCqAssumption ==
    /\ Depth \in Nat \ {0}
    /\ IsFiniteSet(Threads)
    /\ Threads \cap Producers = {}
    /\ NoThread \notin Threads
    /\ NoReq \notin Requests
    /\ \A r \in Requests : r.num \in Nat
    /\ NoCqe \notin Cqes
    /\ StoreOrdered \in BOOLEAN

VARIABLES valid,           \* logic_cq->valid
          mapped,          \* logic_cq->addr # NULL
          ring,            \* the memory behind addr
          head, tail,      \* logic_cq->head, logic_cq->tail
          mutex,           \* holder of logic_cq->mutex
          wakeup_num,      \* logic_cq->wakeup_num
          wait_thread_num, \* logic_cq->wait_thread_num
          waitq,           \* threads queued on logic_cq->wait_queue
          owned,           \* the process holds the queue's id (trs_proc_has_res)
          idPool,          \* how often the id is on the free list of its pool
          ts_mutex,        \* holder of the process's ts_ctx[tsId].mutex
          pc,              \* pc[x]: where thread or dispatcher x is
          req,             \* req[t]: parameters of the receive of thread t
          got,             \* got[t]: report_cqe_num of a copy not yet finished
          report,          \* report[t]: CQEs copied to the user buffer of t
          wnum             \* wnum[x]: number of threads x is about to wake

ringVars == <<mapped, ring, head, tail>>
waitVars == <<wakeup_num, wait_thread_num, waitq>>
idVars   == <<owned, idPool, ts_mutex>>
callVars == <<req, got, report>>
vars == <<valid, mutex, ringVars, waitVars, idVars, pc, callVars, wnum>>

Goto(x, l) == pc' = [pc EXCEPT ![x] = l]

-----------------------------------------------------------------------------
(* The ring. *)

IsEmpty == tail = head
IsFull  == (tail + 1) % Depth = head

(* The run of ring[from .. to-1] that the receive r may copy: a first stretch *)
(* of CQEs without match flag, closed by a CQE that matches r's task; CQEs    *)
(* for other tasks are skipped in front of it and end it behind.              *)
MatchCopyRange(r, from, to) ==
    LET other(i) == ring[i].match /\ ring[i].task # r.task
        free  == {i \in from .. to - 1 : ~other(i)}
        start == Min(free)
        cnt   == Min({to - from, r.num})
        run   == {i \in free : /\ i \in start .. start + cnt - 1
                               /\ \A j \in start .. i - 1 : ~ring[j].match}
    IN  IF free = {} THEN [start |-> 0, num |-> 0]
                     ELSE [start |-> start, num |-> Cardinality(run)]

(* Where the receive r copies from: of a wrapped ring the part up to the end  *)
(* of the memory first, then (rollback) the part from its beginning.          *)
CopyRange(r) ==
    LET up  == MatchCopyRange(r, head, IF tail > head THEN tail ELSE Depth)
        low == MatchCopyRange(r, 0, tail)
        At(x, b) == [start |-> x.start, num |-> x.num, rollback |-> b]
    IN  IF r.version # 1
        THEN [start |-> head, rollback |-> FALSE,
              num |-> IF tail > head THEN tail - head ELSE Depth - head]
        ELSE IF tail > head \/ up.num # 0 THEN At(up, FALSE) ELSE At(low, TRUE)

(* Copy num CQEs from src to dst, the last one first: a CQE that was already *)
(* overwritten is copied as overwritten.                                     *)
MoveCqes(m, src, dst, num) ==
    LET new[i \in Slots] ==
          IF i \notin dst .. dst + num - 1 THEN m[i]
          ELSE LET s == i + src - dst
               IN  IF s > i /\ s < dst + num THEN new[s] ELSE m[s]
    IN  new

(* Mutant of EliminateHoles: the CQEs left at the end of the memory are not *)
(* moved up.                                                                *)
EliminateHolesUpper(x) ==
    LET n  == Min({x.num, Depth - head})
        m1 == MoveCqes(ring, 0, x.num, x.start)
    IN  IF ~x.rollback
        THEN MoveCqes(ring, head, head + x.num, x.start - head)
        ELSE MoveCqes(m1, Depth - n, x.num - n, n)

(* Close the gap that a copy of num CQEs at start leaves behind the CQEs it  *)
(* skipped, by moving those towards the tail.                                *)
EliminateHoles(x) ==
    LET n    == Min({x.num, Depth - head})
        rest == Depth - head - n
        m1   == MoveCqes(ring, 0, x.num, x.start)
        m2   == MoveCqes(m1, Depth - n, x.num - n, n)
    IN  IF ~x.rollback
        THEN MoveCqes(ring, head, head + x.num, x.start - head)
        ELSE MoveCqes(m2, head, Depth - rest, rest)

-----------------------------------------------------------------------------
(* trs_logic_cq_enque, trs_logic_cq_wakeup *)

(* A full or invalid queue refuses the CQE and nothing changes. *)
Enque(p, c) ==
    /\ pc[p] = "idle"
    /\ valid
    /\ ~IsFull
    /\ ring' = [ring EXCEPT ![tail] = c]
    /\ tail' = (tail + 1) % Depth
    /\ Goto(p, "w_read")
    /\ UNCHANGED <<valid, mutex, mapped, head, waitVars, idVars, callVars, wnum>>

(* Mutant of WakeupRead: only threads already counted get a token. *)
WakeupReadCounted(x) ==
    /\ pc[x] = "w_read"
    /\ wnum' = [wnum EXCEPT ![x] = wait_thread_num]
    /\ Goto(x, "w_set")
    /\ UNCHANGED <<valid, mutex, ringVars, waitVars, idVars, callVars>>

WakeupRead(x) ==
    /\ pc[x] = "w_read"
    /\ wnum' = [wnum EXCEPT ![x] = IF wait_thread_num > 0 THEN wait_thread_num ELSE 1]
    /\ Goto(x, "w_set")
    /\ UNCHANGED <<valid, mutex, ringVars, waitVars, idVars, callVars>>

WakeupSet(x) ==
    /\ pc[x] = "w_set"
    /\ wakeup_num' = wnum[x]
    /\ Goto(x, "w_wake")
    /\ UNCHANGED <<valid, mutex, ringVars, wait_thread_num, waitq, idVars, callVars, wnum>>

(* Where the caller of trs_logic_cq_wakeup goes on. *)
AfterWakeup(x) == IF x \in Threads THEN "f_fin" ELSE "idle"

(* The queued threads whose task state is still TASK_INTERRUPTIBLE. *)
Wakeable == {t \in waitq : pc[t] # "leave"}

(* wake_up_nr: wnum[x] exclusive waiters, or all if there are fewer, leave *)
(* the wait queue.                                                         *)
WakeupWake(x) ==
    /\ pc[x] = "w_wake"
    /\ \E woken \in SUBSET Wakeable :
          /\ woken = Wakeable \/ Cardinality(woken) = wnum[x]
          /\ waitq' = waitq \ woken
    /\ wnum' = [wnum EXCEPT ![x] = 0]
    /\ Goto(x, AfterWakeup(x))
    /\ UNCHANGED <<valid, mutex, ringVars, wakeup_num, wait_thread_num, idVars, callVars>>

(* The load of waitqueue_active is satisfied before the store to wakeup_num *)
(* leaves the store buffer: nobody is woken, and the store appears later.   *)
WakeupReordered(x) ==
    /\ ~StoreOrdered
    /\ pc[x] = "w_set"
    /\ waitq = {}
    /\ Goto(x, "w_late")
    /\ UNCHANGED <<valid, mutex, ringVars, waitVars, idVars, callVars, wnum>>

WakeupLate(x) ==
    /\ pc[x] = "w_late"
    /\ wakeup_num' = wnum[x]
    /\ wnum' = [wnum EXCEPT ![x] = 0]
    /\ Goto(x, AfterWakeup(x))
    /\ UNCHANGED <<valid, mutex, ringVars, wait_thread_num, waitq, idVars, callVars>>

-----------------------------------------------------------------------------
(* trs_logic_cq_recv *)

Return(t) == /\ Goto(t, "idle")
             /\ req' = [req EXCEPT ![t] = NoReq]

(* -EAGAIN: a receive that must not wait reports no CQE. *)
TryAgain(t) == IF req[t].timeout = "zero" THEN Return(t)
               ELSE Goto(t, "wait") /\ UNCHANGED req

Recv(t, r) ==
    /\ pc[t] = "idle"
    /\ owned
    /\ req' = [req EXCEPT ![t] = r]
    /\ Goto(t, "copy")
    /\ UNCHANGED <<valid, mutex, ringVars, waitVars, idVars, got, report, wnum>>

(* trs_logic_cq_copy_report, up to the choice of the copy routine. *)
CopyReport(t) ==
    /\ pc[t] = "copy"
    /\ mutex = NoThread
    /\ IF ~valid THEN Return(t) /\ UNCHANGED mutex
       ELSE IF IsEmpty THEN TryAgain(t) /\ UNCHANGED mutex
       ELSE mutex' = t /\ Goto(t, "range") /\ UNCHANGED req
    /\ UNCHANGED <<valid, ringVars, waitVars, idVars, got, report, wnum>>

(* trs_logic_cq_match_copy or trs_logic_cq_non_match_copy with a tail read  *)
(* once.  copy_to_user fails with a positive number: the receive does not   *)
(* return, it starts over.                                                  *)
CopyCqes(t) ==
    /\ pc[t] = "range"
    /\ LET x == CopyRange(req[t])
       IN  \/ /\ x.num = 0
              /\ TryAgain(t)
              /\ mutex' = NoThread
              /\ UNCHANGED <<ringVars, got, report>>
           \/ /\ x.num # 0
              /\ req[t].buf = "bad"
              /\ Goto(t, "copy")
              /\ mutex' = NoThread
              /\ UNCHANGED <<ringVars, req, got, report>>
           \/ /\ x.num # 0
              /\ req[t].buf = "ok"
              /\ report' = [report EXCEPT ![t] = [i \in 1 .. x.num |-> ring[x.start + i - 1]]]
              /\ got' = [got EXCEPT ![t] = x.num]
              /\ ring' = IF x.start = head THEN ring ELSE EliminateHoles(x)
              /\ Goto(t, "done")
              /\ UNCHANGED <<mutex, mapped, head, tail, req>>
    /\ UNCHANGED <<valid, waitVars, idVars, wnum>>

(* What the slots in front of head still hold is dead: the model forgets it. *)
CopyDone(t) ==
    /\ pc[t] = "done"
    /\ head' = (head + got[t]) % Depth
    /\ ring' = [i \in Slots |-> IF (i - head) % Depth < got[t] THEN NoCqe ELSE ring[i]]
    /\ mutex' = NoThread
    /\ got' = [got EXCEPT ![t] = 0]
    /\ report' = [report EXCEPT ![t] = <<>>]
    /\ Return(t)
    /\ UNCHANGED <<valid, mapped, tail, waitVars, idVars, wnum>>

(* trs_logic_cq_wait_event *)
WaitCount(t) ==
    /\ pc[t] = "wait"
    /\ wait_thread_num' = wait_thread_num + 1
    /\ Goto(t, "prep")
    /\ UNCHANGED <<valid, mutex, ringVars, wakeup_num, waitq, idVars, callVars, wnum>>

PrepareToWait(t) ==
    /\ pc[t] = "prep"
    /\ waitq' = waitq \cup {t}
    /\ Goto(t, "check")
    /\ UNCHANGED <<valid, mutex, ringVars, wakeup_num, wait_thread_num, idVars, callVars, wnum>>

(* Mutant of WaitCheck: a wakeup that came before the sleep is not looked for. *)
WaitCheckNothing(t) ==
    /\ pc[t] = "check"
    /\ Goto(t, "asleep")
    /\ UNCHANGED <<valid, mutex, ringVars, waitVars, idVars, callVars, wnum>>

WaitCheck(t) ==
    /\ pc[t] = "check"
    /\ Goto(t, IF wakeup_num > 0 THEN "take" ELSE "asleep")
    /\ UNCHANGED <<valid, mutex, ringVars, waitVars, idVars, callVars, wnum>>

WaitTake(t) ==
    /\ pc[t] = "take"
    /\ wakeup_num' = wakeup_num - 1
    /\ Goto(t, "finish")
    /\ UNCHANGED <<valid, mutex, ringVars, wait_thread_num, waitq, idVars, callVars, wnum>>

(* schedule_timeout returns because wake_up_nr took t off the wait queue. *)
Awakened(t) ==
    /\ pc[t] = "asleep"
    /\ t \notin waitq
    /\ Goto(t, "finish")
    /\ UNCHANGED <<valid, mutex, ringVars, waitVars, idVars, callVars, wnum>>

(* The timeout expires, or a signal ends the sleep. *)
Expired(t) ==
    /\ pc[t] = "asleep"
    /\ req[t].timeout = "some"
    /\ Goto(t, "leave")
    /\ UNCHANGED <<valid, mutex, ringVars, waitVars, idVars, callVars, wnum>>

Interrupted(t) ==
    /\ pc[t] = "asleep"
    /\ Goto(t, "leave")
    /\ UNCHANGED <<valid, mutex, ringVars, waitVars, idVars, callVars, wnum>>

(* finish_wait; a thread that was woken gives up if a signal is pending. *)
FinishWait(t) ==
    /\ \/ pc[t] = "finish" /\ Goto(t, "again")
       \/ pc[t] \in {"finish", "leave"} /\ Goto(t, "gone")
    /\ waitq' = waitq \ {t}
    /\ UNCHANGED <<valid, mutex, ringVars, wakeup_num, wait_thread_num, idVars, callVars, wnum>>

WaitUncount(t) ==
    /\ pc[t] \in {"again", "gone"}
    /\ wait_thread_num' = wait_thread_num - 1
    /\ IF pc[t] = "again" THEN Goto(t, "copy") /\ UNCHANGED req ELSE Return(t)
    /\ UNCHANGED <<valid, mutex, ringVars, wakeup_num, waitq, idVars, got, report, wnum>>

-----------------------------------------------------------------------------
(* trs_logic_cq_alloc, trs_logic_cq_free.  ioctl_trs_sqcq_alloc and         *)
(* ioctl_trs_sqcq_free hold ts_ctx[tsId].mutex of the process around them.  *)

(* The id comes off the pool; trs_proc_add_res refuses one that has an     *)
(* owner, and it goes back.                                                *)
AllocId(t) ==
    /\ pc[t] = "idle"
    /\ ts_mutex = NoThread
    /\ idPool > 0
    /\ ~owned
    /\ ts_mutex' = t
    /\ idPool' = idPool - 1
    /\ owned' = TRUE
    /\ Goto(t, "a_init")
    /\ UNCHANGED <<valid, mutex, ringVars, waitVars, callVars, wnum>>

(* The rest of trs_logic_cq_id_init.  When the task scheduler cannot be     *)
(* told of the queue, trs_logic_cq_alloc tears it down again.               *)
InitQueue(t) ==
    /\ pc[t] = "a_init"
    /\ mutex = NoThread
    /\ mapped' = TRUE
    /\ ring' = [i \in Slots |-> NoCqe]
    /\ head' = 0
    /\ tail' = 0
    /\ wakeup_num' = 0
    /\ wait_thread_num' = 0
    /\ valid' = TRUE
    /\ \/ Goto(t, "idle") /\ ts_mutex' = NoThread
       \/ Goto(t, "f_lock") /\ UNCHANGED ts_mutex
    /\ UNCHANGED <<mutex, waitq, owned, idPool, callVars, wnum>>

(* No memory for the ring: addr is NULL and the id is given up. *)
InitFails(t) ==
    /\ pc[t] = "a_init"
    /\ mutex = NoThread
    /\ mapped' = FALSE
    /\ owned' = FALSE
    /\ Goto(t, "f_id")
    /\ UNCHANGED <<valid, mutex, ring, head, tail, waitVars, idPool, ts_mutex, callVars, wnum>>

(* Mutant of Free: the ioctl does not take the mutex of the process. *)
FreeUnlocked(t) ==
    /\ pc[t] = "idle"
    /\ owned
    /\ Goto(t, "f_lock")
    /\ UNCHANGED <<valid, mutex, ringVars, waitVars, idVars, callVars, wnum>>

Free(t) ==
    /\ pc[t] = "idle"
    /\ ts_mutex = NoThread
    /\ owned
    /\ ts_mutex' = t
    /\ Goto(t, "f_lock")
    /\ UNCHANGED <<valid, mutex, ringVars, waitVars, owned, idPool, callVars, wnum>>

(* Mutant of UninitLock: the queue is taken down without its mutex. *)
UninitUnlocked(t) ==
    /\ pc[t] = "f_lock"
    /\ mutex' = t
    /\ valid' = FALSE
    /\ Goto(t, "w_read")
    /\ UNCHANGED <<ringVars, waitVars, idVars, callVars, wnum>>

(* trs_logic_cq_id_uninit *)
UninitLock(t) ==
    /\ pc[t] = "f_lock"
    /\ mutex = NoThread
    /\ mutex' = t
    /\ valid' = FALSE
    /\ Goto(t, "w_read")
    /\ UNCHANGED <<ringVars, waitVars, idVars, callVars, wnum>>

UninitDone(t) ==
    /\ pc[t] = "f_fin"
    /\ mapped' = FALSE
    /\ ring' = [i \in Slots |-> NoCqe]
    /\ owned' = FALSE
    /\ mutex' = NoThread
    /\ Goto(t, "f_id")
    /\ UNCHANGED <<valid, head, tail, waitVars, idPool, ts_mutex, callVars, wnum>>

(* trs_id_free *)
FreeId(t) ==
    /\ pc[t] = "f_id"
    /\ idPool' = idPool + 1
    /\ ts_mutex' = NoThread
    /\ Goto(t, "idle")
    /\ UNCHANGED <<valid, mutex, ringVars, waitVars, owned, callVars, wnum>>

-----------------------------------------------------------------------------
Init ==
    /\ valid = FALSE
    /\ mapped = FALSE
    /\ ring = [i \in Slots |-> NoCqe]
    /\ head = 0
    /\ tail = 0
    /\ mutex = NoThread
    /\ wakeup_num = 0
    /\ wait_thread_num = 0
    /\ waitq = {}
    /\ owned = FALSE
    /\ idPool = 1
    /\ ts_mutex = NoThread
    /\ pc = [x \in Wakers |-> "idle"]
    /\ req = [t \in Threads |-> NoReq]
    /\ got = [t \in Threads |-> 0]
    /\ report = [t \in Threads |-> <<>>]
    /\ wnum = [x \in Wakers |-> 0]

Wakeup(x) == WakeupRead(x) \/ WakeupSet(x) \/ WakeupWake(x) \/ WakeupReordered(x) \/ WakeupLate(x)

Wait(t) == \/ WaitCount(t) \/ PrepareToWait(t) \/ WaitCheck(t) \/ WaitTake(t)
           \/ Awakened(t) \/ FinishWait(t) \/ WaitUncount(t)

(* What thread t does by itself once it is inside an ioctl. *)
ThreadStep(t) == \/ CopyReport(t) \/ CopyCqes(t) \/ CopyDone(t) \/ Wait(t)
                 \/ Wakeup(t) \/ InitQueue(t) \/ UninitLock(t) \/ UninitDone(t) \/ FreeId(t)

Next ==
    \/ \E p \in Producers : \/ \E c \in Cqes : Enque(p, c)
                            \/ Wakeup(p)
    \/ \E t \in Receivers : \/ \E r \in Requests : Recv(t, r)
                            \/ Expired(t)
                            \/ Interrupted(t)
    \/ \E t \in Controllers : AllocId(t) \/ InitFails(t) \/ Free(t)
    \/ \E t \in Threads : ThreadStep(t)

Spec == Init /\ [][Next]_vars

(* A thread inside an ioctl and a dispatcher inside trs_logic_cq_enque run *)
(* on; a call, a signal or a timeout may never come.                       *)
Fairness == /\ \A t \in Threads : WF_vars(ThreadStep(t))
            /\ \A p \in Producers : WF_vars(Wakeup(p))

FairSpec == Spec /\ Fairness

-----------------------------------------------------------------------------
(* Properties *)

ThreadPcs   == {"idle", "copy", "range", "done", "wait", "prep", "check", "take", "asleep",
                "finish", "again", "leave", "gone", "a_init", "f_lock", "f_fin", "f_id"}
WakeupPcs   == {"w_read", "w_set", "w_wake", "w_late"}

(* The variables that decide who may do what. *)
ControlTypeOK ==
    /\ valid \in BOOLEAN /\ mapped \in BOOLEAN /\ owned \in BOOLEAN
    /\ head \in Slots /\ tail \in Slots
    /\ mutex \in Threads \cup {NoThread} /\ ts_mutex \in Threads \cup {NoThread}
    /\ wakeup_num \in Int /\ wait_thread_num \in Int
    /\ waitq \subseteq Threads
    /\ idPool \in Nat
    /\ pc \in [Wakers -> ThreadPcs \cup WakeupPcs]
    /\ req \in [Threads -> Requests \cup {NoReq}]
    /\ got \in [Threads -> Int]
    /\ wnum \in [Wakers -> Nat]

(* Every variable has its type; head and tail index the ring. *)
TypeOK ==
    /\ ControlTypeOK
    /\ ring \in [Slots -> Cqes \cup {NoCqe}]
    /\ got \in [Threads -> 0 .. Depth]
    /\ report \in [Threads -> Seq(Cqes)]

(* A receiver between the two halves of a copy works on memory that is still *)
(* mapped, however the queue is freed meanwhile: trs_logic_cq_id_uninit frees *)
(* addr under the mutex that the copy holds, and a valid queue has memory for *)
(* the dispatchers, which take only the spinlock.                             *)
CopyInMappedRing ==
    /\ valid => mapped
    /\ \A t \in Threads : pc[t] \in {"range", "done"} => valid /\ mapped

(* The receive of t would return if it ran: the queue is gone, or it holds a *)
(* CQE that the receive may take.                                            *)
Ready(t) == ~valid \/ (~IsEmpty /\ CopyRange(req[t]).num # 0)

(* A receiver that sleeps although it could return will be found by a waker. *)
WillBeFound(t) ==
    pc[t] = "asleep" /\ t \in waitq /\ Ready(t) =>
        \E x \in Wakers : pc[x] \in {"w_read", "w_set", "w_wake"}

(* No receiver sleeps through its completion: if it is queued to sleep and    *)
(* its receive could return, some trs_logic_cq_wakeup is still on its way.    *)
NoStrandedReceiver == \A t \in Receivers : WillBeFound(t)

(* The id of the queue is on the free list, or belongs to the process, or is  *)
(* on its way back, and only one of these: neither a failed allocation nor a  *)
(* free loses it or returns it to the pool twice.                             *)
IdReturnedOnce ==
    idPool + Cardinality({t \in Threads : pc[t] = "f_id"}) + (IF owned THEN 1 ELSE 0) = 1

(* Why these hold: the inductive invariants of TrsLogicCqProofs. *)

(* The copy and the teardown exclude each other by the mutex. *)
MutexInv ==
    \A t \in Threads :
        /\ pc[t] \in {"range", "done"} => mutex = t /\ valid
        /\ pc[t] \in WakeupPcs \cup {"f_fin"} => mutex = t /\ ~valid

(* Where the id is at each point of an allocation and of a free, of which the *)
(* mutex of the process lets one run at a time.                               *)
OwnerInv ==
    /\ valid => mapped /\ owned
    /\ \A t \in Threads :
          /\ pc[t] \in {"a_init", "f_lock", "f_fin", "f_id"} \cup WakeupPcs => ts_mutex = t
          /\ pc[t] = "a_init" => owned /\ ~valid
          /\ pc[t] \in {"f_lock", "f_fin"} \cup WakeupPcs => owned
          /\ pc[t] = "f_id" => ~owned /\ idPool = 0
    /\ owned => idPool = 0
    /\ ~owned /\ (\A t \in Threads : pc[t] # "f_id") => idPool = 1

RecvPcs == {"copy", "range", "done", "wait", "prep", "check", "take", "asleep",
            "finish", "again", "leave", "gone"}

WaitShape ==
    /\ waitq \subseteq Receivers
    /\ \A t \in Threads : pc[t] \in RecvPcs => t \in Receivers
    /\ \A x \in Wakers : pc[x] \in {"w_set", "w_wake", "w_late"} => wnum[x] >= 1

(* A receiver on its way to sleep that need not wait, and a waker that will   *)
(* leave it a token.                                                          *)
NeedsToken(t) == pc[t] \in {"wait", "prep", "check"} /\ Ready(t)
TokenComes    == \E x \in Wakers : pc[x] \in {"w_read", "w_set"}

(* A receiver on its way to sleep will find the wakeup. *)
WillFind(t) == NeedsToken(t) => wakeup_num >= 1 \/ TokenComes

WaitInv == WaitShape /\ \A t \in Receivers : WillFind(t)

(* The steps of trs_logic_cq.c that can take the wakeup from a receiver:      *)
(* another receiver uses up the last token (559), ...                         *)
TokenUsedUp ==
    /\ \E s \in Threads : WaitTake(s)
    /\ wakeup_num' < 1 /\ ~TokenComes
    /\ \E t \in Receivers : NeedsToken(t)

(* ... a waker looks at the wait queue before its token can be seen, while a  *)
(* receiver has yet to look for it (640-643), ...                             *)
LooksTooEarly ==
    /\ \E x \in Wakers : WakeupReordered(x)
    /\ wakeup_num < 1
    /\ \E t \in Receivers : NeedsToken(t)

(* ... or wake_up_nr stops at the number of threads that waited when the      *)
(* waker began (633, 644).                                                    *)
TooFewWoken ==
    /\ \E x \in Wakers : WakeupWake(x)
    /\ \E t \in Receivers : pc[t] = "asleep" /\ t \in waitq' /\ Ready(t)

NotMissed == ~TokenUsedUp /\ ~LooksTooEarly /\ ~TooFewWoken

(* The queue as its receivers see it. *)
Queue ==
    LET copier == {t \in Threads : pc[t] = "done"}
        first  == IF copier = {} THEN head ELSE head + got[CHOOSE t \in copier : TRUE]
    IN  IF valid THEN [i \in 1 .. (tail - first) % Depth |-> ring[(first + i - 1) % Depth]]
                 ELSE <<>>

Abstract == INSTANCE TrsLogicQueue WITH open <- valid, q <- Queue

(* The ring, with dispatchers and receivers interleaved, is the queue of      *)
(* TrsLogicQueue: no CQE is lost, duplicated, reordered or given to the       *)
(* receiver of another task by wrapping, copying and closing holes.           *)
ImplementsQueue == Abstract!Spec

(* A receive that sleeps although it could return does return, unless another *)
(* queue takes the place of the freed one before it looks.                    *)
ReceiverReturns ==
    \A t \in Receivers : pc[t] = "asleep" /\ Ready(t) ~> pc[t] = "idle" \/ ~Ready(t)

=============================================================================
