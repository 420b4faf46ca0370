--------------------------- MODULE TrsLogicCqProofs ---------------------------
(***************************************************************************)
(* Proofs about TrsLogicCq, for every depth, every set of CQEs and of      *)
(* receive parameters and any number of dispatchers.                       *)
(***************************************************************************)
EXTENDS TrsLogicCq, TLAPS, FiniteSetTheorems

(* An index that is advanced modulo the depth stays in the ring. *)
LEMMA ModInSlots == \A a \in Int : a % Depth \in Slots
<1>1. Depth \in Nat \ {0}
  BY LogicCqAssumption DEF LogicCqAssumption
<1>2. ASSUME NEW a \in Int PROVE a % Depth \in 0 .. Depth - 1
  BY <1>1
<1>. QED
  BY <1>2 DEF Slots

(* Initially every control variable has its type. *)
LEMMA InitType == Init => ControlTypeOK
<1>. SUFFICES ASSUME Init PROVE ControlTypeOK
  OBVIOUS
<1>1. 0 \in Slots
  BY LogicCqAssumption DEF LogicCqAssumption, Slots
<1>2. valid \in BOOLEAN /\ mapped \in BOOLEAN /\ owned \in BOOLEAN
  BY DEF Init
<1>3. /\ pc \in [Wakers -> ThreadPcs \cup WakeupPcs]
      /\ req \in [Threads -> Requests \cup {NoReq}]
      /\ got \in [Threads -> Int]
      /\ wnum \in [Wakers -> Nat]
  BY DEF Init, ThreadPcs
<1>4. /\ mutex \in Threads \cup {NoThread} /\ ts_mutex \in Threads \cup {NoThread}
      /\ wakeup_num \in Int /\ wait_thread_num \in Int /\ idPool \in Nat
      /\ waitq \subseteq Threads
  BY DEF Init
<1>. QED
  BY <1>1, <1>2, <1>3, <1>4 DEF Init, ControlTypeOK

(* The disjuncts of Next, each with the process that takes the step. *)
LEMMA NextCases ==
    ASSUME Next
    PROVE  \/ \E p \in Producers, c \in Cqes : Enque(p, c)
           \/ \E x \in Wakers : \/ WakeupRead(x) \/ WakeupSet(x) \/ WakeupWake(x)
                                \/ WakeupReordered(x) \/ WakeupLate(x)
           \/ \E t \in Receivers, r \in Requests : Recv(t, r)
           \/ \E t \in Receivers : Expired(t) \/ Interrupted(t)
           \/ \E t \in Threads : \/ CopyReport(t) \/ CopyCqes(t) \/ CopyDone(t)
                                 \/ WaitCount(t) \/ PrepareToWait(t) \/ WaitCheck(t)
                                 \/ WaitTake(t) \/ Awakened(t) \/ FinishWait(t)
                                 \/ WaitUncount(t)
           \/ \E t \in Controllers : AllocId(t) \/ InitFails(t) \/ Free(t)
           \/ \E t \in Threads : \/ InitQueue(t) \/ UninitLock(t)
                                 \/ UninitDone(t) \/ FreeId(t)
  BY DEF Next, ThreadStep, Wait, Wakeup, Wakers

(* The number of CQEs that a receive is given is an integer. *)
LEMMA MatchCopyNum ==
    ASSUME NEW r, NEW from \in Int, NEW to \in Int
    PROVE  MatchCopyRange(r, from, to).num \in Int
<1>. DEFINE other(i) == ring[i].match /\ ring[i].task # r.task
            free  == {i \in from .. to - 1 : ~other(i)}
            start == Min(free)
            cnt   == Min({to - from, r.num})
            run   == {i \in free : /\ i \in start .. start + cnt - 1
                                  /\ \A j \in start .. i - 1 : ~ring[j].match}
<1>1. IsFiniteSet(from .. to - 1)
  BY FS_Interval
<1>2. run \subseteq from .. to - 1
  OBVIOUS
<1>3. Cardinality(run) \in Int
  <2>. HIDE DEF run
  <2>1. IsFiniteSet(run)
    BY <1>1, <1>2, FS_Subset
  <2>2. Cardinality(run) \in Nat
    BY <2>1, FS_CardinalityType
  <2>. QED
    BY <2>2
<1>4. MatchCopyRange(r, from, to) = IF free = {} THEN [start |-> 0, num |-> 0]
                                    ELSE [start |-> start, num |-> Cardinality(run)]
  BY DEF MatchCopyRange
<1>. QED
  <2>. HIDE DEF run, start, free
  <2>. QED
    BY <1>3, <1>4

(* So is the number of CQEs that either copy routine takes from the ring. *)
LEMMA CopyNum ==
    ASSUME NEW r, ControlTypeOK
    PROVE  CopyRange(r).num \in Int
<1>. DEFINE up  == MatchCopyRange(r, head, IF tail > head THEN tail ELSE Depth)
            low == MatchCopyRange(r, 0, tail)
<1>1. head \in Int /\ tail \in Int /\ Depth \in Int
  BY LogicCqAssumption DEF LogicCqAssumption, ControlTypeOK, Slots
<1>2. up.num \in Int /\ low.num \in Int
  BY <1>1, MatchCopyNum
<1>3. CopyRange(r) =
        IF r.version # 1
        THEN [start |-> head, rollback |-> FALSE,
              num |-> IF tail > head THEN tail - head ELSE Depth - head]
        ELSE IF tail > head \/ up.num # 0
             THEN [start |-> up.start, num |-> up.num, rollback |-> FALSE]
             ELSE [start |-> low.start, num |-> low.num, rollback |-> TRUE]
  BY DEF CopyRange
<1>. HIDE DEF up, low
<1>. QED
  BY <1>1, <1>2, <1>3

(* Every step keeps the types; copying keeps head inside the ring. *)
LEMMA TypeStep == ControlTypeOK /\ [Next]_vars => ControlTypeOK'
<1>. SUFFICES ASSUME ControlTypeOK, [Next]_vars PROVE ControlTypeOK'
  OBVIOUS
<1>. USE DEF ControlTypeOK, ThreadPcs, WakeupPcs, Goto, Return
<1>1. ASSUME NEW p \in Producers, NEW c \in Cqes, Enque(p, c) PROVE ControlTypeOK'
  <2>1. (tail + 1) % Depth \in Slots
    BY ModInSlots DEF Slots
  <2>. QED
    BY <1>1, <2>1 DEF Enque, waitVars, idVars, callVars
<1>2. ASSUME NEW x \in Wakers, WakeupRead(x) \/ WakeupSet(x) \/ WakeupReordered(x)
      PROVE  ControlTypeOK'
  BY <1>2 DEF WakeupRead, WakeupSet, WakeupReordered, ringVars, waitVars, idVars, callVars
<1>3. ASSUME NEW x \in Wakers, WakeupWake(x) \/ WakeupLate(x) PROVE ControlTypeOK'
  BY <1>3 DEF WakeupWake, WakeupLate, AfterWakeup, ringVars, waitVars, idVars, callVars
<1>4. ASSUME NEW t \in Receivers, NEW r \in Requests, Recv(t, r) PROVE ControlTypeOK'
  BY <1>4 DEF Recv, ringVars, waitVars, idVars
<1>5. ASSUME NEW t \in Receivers, Expired(t) \/ Interrupted(t) PROVE ControlTypeOK'
  BY <1>5 DEF Expired, Interrupted, ringVars, waitVars, idVars, callVars
<1>6. ASSUME NEW t \in Threads, CopyReport(t) \/ CopyCqes(t) PROVE ControlTypeOK'
  <2>1. CopyRange(req[t]).num \in Int
    BY CopyNum
  <2>. QED
    BY <1>6, <2>1 DEF CopyReport, CopyCqes, TryAgain, ringVars, waitVars, idVars
<1>7. ASSUME NEW t \in Threads, CopyDone(t) PROVE ControlTypeOK'
  <2>1. (head + got[t]) % Depth \in Slots
    BY ModInSlots DEF Slots
  <2>2. head' \in Slots /\ UNCHANGED <<valid, mapped, tail, waitVars, idVars, wnum>>
    BY <1>7, <2>1 DEF CopyDone
  <2>3. /\ mutex' = NoThread
        /\ pc' = [pc EXCEPT ![t] = "idle"]
        /\ req' = [req EXCEPT ![t] = NoReq]
    BY <1>7 DEF CopyDone
  <2>4. got' \in [Threads -> Int]
    BY <1>7 DEF CopyDone
  <2>5. pc' \in [Wakers -> ThreadPcs \cup WakeupPcs]
    BY <2>3
  <2>6. req' \in [Threads -> Requests \cup {NoReq}]
    BY <2>3
  <2>. QED
    BY <2>2, <2>3, <2>4, <2>5, <2>6 DEF waitVars, idVars
<1>8. ASSUME NEW t \in Threads,
             WaitCount(t) \/ PrepareToWait(t) \/ WaitCheck(t) \/ WaitTake(t)
      PROVE  ControlTypeOK'
  BY <1>8 DEF WaitCount, PrepareToWait, WaitCheck, WaitTake, ringVars, waitVars, idVars, callVars
<1>9. ASSUME NEW t \in Threads, Awakened(t) \/ FinishWait(t) \/ WaitUncount(t)
      PROVE  ControlTypeOK'
  BY <1>9 DEF Awakened, FinishWait, WaitUncount, ringVars, waitVars, idVars, callVars
<1>10. ASSUME NEW t \in Controllers, AllocId(t) \/ InitFails(t) \/ Free(t)
       PROVE  ControlTypeOK'
  <2>1. CASE AllocId(t)
    <3>1. idPool' \in Nat
      BY <2>1 DEF AllocId
    <3>2. /\ owned' = TRUE /\ ts_mutex' = t /\ t \in Threads
          /\ pc' = [pc EXCEPT ![t] = "a_init"]
          /\ UNCHANGED <<valid, mutex, ringVars, waitVars, callVars, wnum>>
      BY <2>1 DEF AllocId, Threads
    <3>. QED
      BY <3>1, <3>2 DEF ringVars, waitVars, callVars
  <2>2. CASE InitFails(t)
    BY <2>2 DEF InitFails, waitVars, callVars
  <2>3. CASE Free(t)
    <3>1. t \in Threads
      BY DEF Threads
    <3>. QED
      BY <2>3, <3>1 DEF Free, ringVars, waitVars, callVars
  <2>. QED
    BY <1>10, <2>1, <2>2, <2>3
<1>11. ASSUME NEW t \in Threads, InitQueue(t) PROVE ControlTypeOK'
  BY <1>11, LogicCqAssumption DEF LogicCqAssumption, Slots, InitQueue, idVars, callVars
<1>12. ASSUME NEW t \in Threads, UninitLock(t) \/ UninitDone(t) \/ FreeId(t)
       PROVE  ControlTypeOK'
  <2>1. CASE UninitLock(t)
    BY <2>1 DEF UninitLock, ringVars, waitVars, idVars, callVars
  <2>2. CASE UninitDone(t)
    BY <2>2 DEF UninitDone, waitVars, callVars
  <2>3. CASE FreeId(t)
    <3>1. idPool' \in Nat
      BY <2>3 DEF FreeId
    <3>2. /\ pc' = [pc EXCEPT ![t] = "idle"] /\ ts_mutex' = NoThread
          /\ UNCHANGED <<valid, mutex, ringVars, waitVars, owned, callVars, wnum>>
      BY <2>3 DEF FreeId
    <3>. QED
      BY <3>1, <3>2 DEF ringVars, waitVars, callVars
  <2>. QED
    BY <1>12, <2>1, <2>2, <2>3
<1>13. CASE UNCHANGED vars
  BY <1>13 DEF vars, ringVars, waitVars, idVars, callVars
<1>. QED
  BY <1>1, <1>2, <1>3, <1>4, <1>5, <1>6, <1>7, <1>8, <1>9, <1>10, <1>11, <1>12, <1>13, NextCases

(* The type invariant: whatever is copied, head and tail index the ring, and  *)
(* every control variable has its type, for every depth and every request.    *)
THEOREM TypeCorrect == Spec => []ControlTypeOK
  BY InitType, TypeStep, PTL DEF Spec

-----------------------------------------------------------------------------
(* The copy and the teardown exclude each other. *)

(* Initially nobody copies and nobody tears the queue down. *)
LEMMA MutexInit == Init => MutexInv
  BY DEF Init, MutexInv, WakeupPcs, Wakers

(* Who copies holds the mutex of a valid queue, who tears down that of an     *)
(* invalid one, and every step keeps it so.                                   *)
LEMMA MutexStep == ControlTypeOK /\ MutexInv /\ [Next]_vars => MutexInv'
<1>. SUFFICES ASSUME ControlTypeOK, MutexInv, [Next]_vars,
                     NEW s \in Threads
              PROVE  /\ pc'[s] \in {"range", "done"} => mutex' = s /\ valid'
                     /\ pc'[s] \in WakeupPcs \cup {"f_fin"} => mutex' = s /\ ~valid'
  BY DEF MutexInv
<1>0. /\ pc[s] \in {"range", "done"} => mutex = s /\ valid
      /\ pc[s] \in WakeupPcs \cup {"f_fin"} => mutex = s /\ ~valid
      /\ s # NoThread
      /\ s \notin Producers
      /\ s \in Wakers
      /\ DOMAIN pc = Wakers
      /\ Threads \subseteq Wakers /\ Controllers \subseteq Threads
      /\ Receivers \subseteq Threads /\ Producers \subseteq Wakers
  BY LogicCqAssumption DEF LogicCqAssumption, MutexInv, ControlTypeOK, Wakers, Threads
<1>. USE DEF WakeupPcs, Goto, Return
<1>1. ASSUME NEW p \in Producers, NEW c \in Cqes, Enque(p, c)
      PROVE  UNCHANGED <<valid, mutex>> /\ pc'[s] = pc[s]
  BY <1>0, <1>1 DEF Enque
<1>2. ASSUME NEW x \in Wakers, WakeupRead(x) \/ WakeupSet(x) \/ WakeupReordered(x)
      PROVE  /\ UNCHANGED <<valid, mutex>>
             /\ pc'[s] = pc[s] \/ (pc[s] \in WakeupPcs /\ pc'[s] \in WakeupPcs)
  BY <1>0, <1>2 DEF WakeupRead, WakeupSet, WakeupReordered
<1>3. ASSUME NEW x \in Wakers, WakeupWake(x) \/ WakeupLate(x)
      PROVE  /\ UNCHANGED <<valid, mutex>>
             /\ pc'[s] = pc[s] \/ (pc[s] \in WakeupPcs /\ pc'[s] = "f_fin")
  BY <1>0, <1>3 DEF WakeupWake, WakeupLate, AfterWakeup
<1>4. ASSUME NEW t \in Receivers, NEW r \in Requests, Recv(t, r)
      PROVE  UNCHANGED <<valid, mutex>> /\ (pc'[s] = pc[s] \/ pc'[s] = "copy")
  BY <1>0, <1>4 DEF Recv
<1>5. ASSUME NEW t \in Receivers, Expired(t) \/ Interrupted(t)
      PROVE  UNCHANGED <<valid, mutex>> /\ (pc'[s] = pc[s] \/ pc'[s] = "leave")
  BY <1>0, <1>5 DEF Expired, Interrupted
<1>6. ASSUME NEW t \in Threads, CopyReport(t)
      PROVE  /\ valid' = valid
             /\ \/ s = t /\ mutex' = mutex /\ pc'[s] \in {"idle", "wait"}
                \/ s = t /\ mutex' = t /\ valid /\ pc'[s] = "range"
                \/ s # t /\ mutex = NoThread /\ pc'[s] = pc[s]
  BY <1>0, <1>6 DEF CopyReport, TryAgain
<1>7. ASSUME NEW t \in Threads, CopyCqes(t)
      PROVE  /\ valid' = valid
             /\ \/ s = t /\ pc'[s] \in {"idle", "wait", "copy"}
                \/ s = t /\ mutex' = mutex /\ pc[s] = "range" /\ pc'[s] = "done"
                \/ s # t /\ mutex = t /\ pc'[s] = pc[s]
  BY <1>0, <1>7 DEF CopyCqes, TryAgain, MutexInv
<1>8. ASSUME NEW t \in Threads, CopyDone(t)
      PROVE  /\ valid' = valid
             /\ \/ s = t /\ pc'[s] = "idle"
                \/ s # t /\ mutex = t /\ pc'[s] = pc[s]
  BY <1>0, <1>8 DEF CopyDone, MutexInv
<1>9. ASSUME NEW t \in Threads,
             \/ WaitCount(t) \/ PrepareToWait(t) \/ WaitCheck(t) \/ WaitTake(t)
             \/ Awakened(t) \/ FinishWait(t) \/ WaitUncount(t)
      PROVE  /\ UNCHANGED <<valid, mutex>>
             /\ pc'[s] = pc[s] \/ pc'[s] \in RecvPcs \ {"range", "done"} \/ pc'[s] = "idle"
  BY <1>0, <1>9 DEF WaitCount, PrepareToWait, WaitCheck, WaitTake, Awakened, FinishWait,
                    WaitUncount, RecvPcs
<1>10. ASSUME NEW t \in Controllers, AllocId(t) \/ InitFails(t) \/ Free(t)
       PROVE  /\ UNCHANGED <<valid, mutex>>
              /\ pc'[s] = pc[s] \/ pc'[s] \in {"a_init", "f_id", "f_lock"}
  BY <1>0, <1>10 DEF AllocId, InitFails, Free
<1>11. ASSUME NEW t \in Threads, InitQueue(t)
       PROVE  /\ mutex' = mutex /\ mutex = NoThread
              /\ pc'[s] = pc[s] \/ pc'[s] \in {"idle", "f_lock"}
  BY <1>0, <1>11 DEF InitQueue
<1>12. ASSUME NEW t \in Threads, UninitLock(t)
       PROVE  \/ s = t /\ mutex' = t /\ ~valid' /\ pc'[s] = "w_read"
              \/ s # t /\ mutex = NoThread /\ pc'[s] = pc[s]
  BY <1>0, <1>12 DEF UninitLock
<1>13. ASSUME NEW t \in Threads, UninitDone(t) \/ FreeId(t)
       PROVE  /\ valid' = valid
              /\ \/ s = t /\ pc'[s] \in {"f_id", "idle"}
                 \/ s # t /\ pc'[s] = pc[s] /\ (mutex = t \/ mutex' = mutex)
  BY <1>0, <1>13 DEF UninitDone, FreeId, MutexInv
<1>14. CASE UNCHANGED vars
  BY <1>0, <1>14 DEF vars
<1>. HIDE DEF Goto, Return
<1>. QED
  <2>1. CASE \E p \in Producers, c \in Cqes : Enque(p, c)
    BY <1>0, <1>1, <2>1
  <2>2. CASE \E x \in Wakers : \/ WakeupRead(x) \/ WakeupSet(x) \/ WakeupWake(x)
                               \/ WakeupReordered(x) \/ WakeupLate(x)
    BY <1>0, <1>2, <1>3, <2>2
  <2>3. CASE \/ \E t \in Receivers, r \in Requests : Recv(t, r)
             \/ \E t \in Receivers : Expired(t) \/ Interrupted(t)
    BY <1>0, <1>4, <1>5, <2>3
  <2>4. CASE \E t \in Threads : CopyReport(t) \/ CopyCqes(t) \/ CopyDone(t)
    BY <1>0, <1>6, <1>7, <1>8, <2>4
  <2>5. CASE \E t \in Threads : \/ WaitCount(t) \/ PrepareToWait(t) \/ WaitCheck(t)
                                \/ WaitTake(t) \/ Awakened(t) \/ FinishWait(t)
                                \/ WaitUncount(t)
    BY <1>0, <1>9, <2>5 DEF RecvPcs
  <2>6. CASE \E t \in Controllers : AllocId(t) \/ InitFails(t) \/ Free(t)
    BY <1>0, <1>10, <2>6
  <2>7. CASE \E t \in Threads : \/ InitQueue(t) \/ UninitLock(t)
                                \/ UninitDone(t) \/ FreeId(t)
    BY <1>0, <1>11, <1>12, <1>13, <2>7
  <2>. QED
    BY <1>14, <2>1, <2>2, <2>3, <2>4, <2>5, <2>6, <2>7, NextCases

-----------------------------------------------------------------------------
(* The memory of the ring and the id of the queue. *)

ControlPcs == {"a_init", "f_lock", "f_fin", "f_id"} \cup WakeupPcs

(* Initially the id is in its pool. *)
LEMMA OwnerInit == Init => OwnerInv
  BY DEF Init, OwnerInv, WakeupPcs, Wakers

(* A step that leaves the id alone and moves no thread into or out of the     *)
(* allocation and the teardown.                                               *)
LEMMA OwnerQuiet ==
    ASSUME OwnerInv,
           UNCHANGED <<valid, mapped, owned, idPool, ts_mutex>>,
           \A s \in Threads :
              \/ pc'[s] = pc[s]
              \/ pc[s] \notin ControlPcs /\ pc'[s] \notin ControlPcs
              \/ pc[s] \in WakeupPcs /\ pc'[s] \in WakeupPcs \cup {"f_fin"}
    PROVE  OwnerInv'
<1>1. ASSUME NEW t \in Threads
      PROVE  /\ pc'[t] \in ControlPcs => ts_mutex' = t
             /\ pc'[t] = "a_init" => owned' /\ ~valid'
             /\ pc'[t] \in {"f_lock", "f_fin"} \cup WakeupPcs => owned'
             /\ pc'[t] = "f_id" => ~owned' /\ idPool' = 0
             /\ pc'[t] = "f_id" <=> pc[t] = "f_id"
  BY DEF OwnerInv, ControlPcs, WakeupPcs
<1>. QED
  BY <1>1 DEF OwnerInv, ControlPcs

(* Every step keeps the id in one place: in the pool, with the process, or on *)
(* its way back in the hands of the thread that has the mutex of the process. *)
LEMMA OwnerStep == ControlTypeOK /\ MutexInv /\ OwnerInv /\ [Next]_vars => OwnerInv'
<1>. SUFFICES ASSUME ControlTypeOK, MutexInv, OwnerInv, [Next]_vars PROVE OwnerInv'
  OBVIOUS
<1>0. /\ DOMAIN pc = Wakers
      /\ Threads \cap Producers = {} /\ NoThread \notin Threads
      /\ Threads \subseteq Wakers /\ Controllers \subseteq Threads
      /\ Receivers \subseteq Threads /\ Producers \subseteq Wakers
  BY LogicCqAssumption DEF LogicCqAssumption, ControlTypeOK, Wakers, Threads
<1>. DEFINE Quiet == /\ UNCHANGED <<valid, mapped, owned, idPool, ts_mutex>>
                     /\ \A s \in Threads :
                          \/ pc'[s] = pc[s]
                          \/ pc[s] \notin ControlPcs /\ pc'[s] \notin ControlPcs
                          \/ pc[s] \in WakeupPcs /\ pc'[s] \in WakeupPcs \cup {"f_fin"}
<1>1. ASSUME NEW p \in Producers, NEW c \in Cqes, Enque(p, c) PROVE Quiet
  BY <1>0, <1>1 DEF Enque, Goto, idVars
<1>2. ASSUME NEW x \in Wakers,
             \/ WakeupRead(x) \/ WakeupSet(x) \/ WakeupWake(x)
             \/ WakeupReordered(x) \/ WakeupLate(x)
      PROVE  Quiet
  BY <1>0, <1>2 DEF WakeupRead, WakeupSet, WakeupWake, WakeupReordered, WakeupLate,
                    AfterWakeup, WakeupPcs, Goto, ringVars, idVars
<1>3. ASSUME NEW t \in Receivers,
             \/ \E r \in Requests : Recv(t, r)
             \/ Expired(t) \/ Interrupted(t)
      PROVE  Quiet
  BY <1>0, <1>3 DEF Recv, Expired, Interrupted, Goto, ControlPcs, WakeupPcs, ringVars, idVars
<1>4. ASSUME NEW t \in Threads, CopyReport(t) \/ CopyCqes(t) \/ CopyDone(t) PROVE Quiet
  BY <1>0, <1>4 DEF CopyReport, CopyCqes, CopyDone, TryAgain, Return, Goto, ControlPcs,
                    WakeupPcs, ringVars, idVars
<1>5. ASSUME NEW t \in Threads,
             \/ WaitCount(t) \/ PrepareToWait(t) \/ WaitCheck(t) \/ WaitTake(t)
             \/ Awakened(t) \/ FinishWait(t) \/ WaitUncount(t)
      PROVE  Quiet
  BY <1>0, <1>5 DEF WaitCount, PrepareToWait, WaitCheck, WaitTake, Awakened, FinishWait,
                    WaitUncount, Return, Goto, ControlPcs, WakeupPcs, ringVars, idVars
<1>6. ASSUME UNCHANGED vars PROVE Quiet
  BY <1>6 DEF vars, ringVars, idVars
<1>. HIDE DEF Quiet
<1>7. ASSUME NEW t \in Controllers, AllocId(t) PROVE OwnerInv'
  <2>1. /\ pc[t] = "idle" /\ pc' = [pc EXCEPT ![t] = "a_init"]
        /\ ~owned /\ idPool > 0 /\ idPool' = idPool - 1 /\ owned' = TRUE
        /\ ts_mutex = NoThread /\ ts_mutex' = t
        /\ UNCHANGED <<valid, mapped>>
    BY <1>7 DEF AllocId, Goto, ringVars
  <2>2. /\ \A s \in Threads \ {t} : pc'[s] = pc[s] /\ pc[s] \notin ControlPcs
        /\ pc'[t] = "a_init"
    BY <1>0, <2>1 DEF OwnerInv, ControlPcs
  <2>3. idPool' = 0
    BY <1>0, <2>1, <2>2 DEF OwnerInv, ControlPcs
  <2>4. ~valid'
    BY <2>1 DEF OwnerInv
  <2>5. \A s \in Threads : pc'[s] \in ControlPcs => s = t
    BY <2>2
  <2>. QED
    BY <1>0, <2>1, <2>2, <2>3, <2>4, <2>5 DEF OwnerInv, ControlPcs, WakeupPcs
<1>8. ASSUME NEW t \in Controllers, InitFails(t) PROVE OwnerInv'
  <2>1. /\ pc[t] = "a_init" /\ pc' = [pc EXCEPT ![t] = "f_id"]
        /\ owned' = FALSE /\ UNCHANGED <<valid, idPool, ts_mutex>>
    BY <1>8 DEF InitFails, Goto
  <2>2. /\ \A s \in Threads \ {t} : pc'[s] = pc[s] /\ pc'[s] \notin ControlPcs
        /\ pc'[t] = "f_id"
    BY <1>0, <2>1 DEF OwnerInv, ControlPcs
  <2>3. idPool' = 0 /\ ~valid'
    BY <1>0, <2>1 DEF OwnerInv
  <2>. QED
    BY <1>0, <2>1, <2>2, <2>3 DEF OwnerInv, ControlPcs, WakeupPcs
<1>9. ASSUME NEW t \in Controllers, Free(t) PROVE OwnerInv'
  <2>1. /\ pc[t] = "idle" /\ pc' = [pc EXCEPT ![t] = "f_lock"]
        /\ ts_mutex = NoThread /\ ts_mutex' = t
        /\ owned /\ UNCHANGED <<valid, mapped, owned, idPool>>
    BY <1>9 DEF Free, Goto, ringVars
  <2>2. /\ \A s \in Threads \ {t} : pc'[s] = pc[s] /\ pc'[s] \notin ControlPcs
        /\ pc'[t] = "f_lock"
    BY <1>0, <2>1 DEF OwnerInv, ControlPcs
  <2>. QED
    BY <1>0, <2>1, <2>2 DEF OwnerInv, ControlPcs, WakeupPcs
<1>10. ASSUME NEW t \in Threads, InitQueue(t) PROVE OwnerInv'
  <2>1. /\ pc[t] = "a_init"
        /\ \/ pc' = [pc EXCEPT ![t] = "idle"]
           \/ pc' = [pc EXCEPT ![t] = "f_lock"] /\ ts_mutex' = ts_mutex
        /\ mapped' /\ UNCHANGED <<owned, idPool>>
    BY <1>10 DEF InitQueue, Goto
  <2>2. /\ ts_mutex = t /\ owned /\ idPool = 0
        /\ \A s \in Threads \ {t} : pc'[s] = pc[s] /\ pc'[s] \notin ControlPcs
        /\ pc'[t] \in {"idle", "f_lock"}
    BY <1>0, <2>1 DEF OwnerInv, ControlPcs
  <2>. QED
    BY <1>0, <2>1, <2>2 DEF OwnerInv, ControlPcs, WakeupPcs
<1>11. ASSUME NEW t \in Threads, UninitLock(t) PROVE OwnerInv'
  <2>1. /\ pc[t] = "f_lock" /\ pc' = [pc EXCEPT ![t] = "w_read"]
        /\ valid' = FALSE /\ UNCHANGED <<mapped, owned, idPool, ts_mutex>>
    BY <1>11 DEF UninitLock, Goto, ringVars, idVars
  <2>2. /\ ts_mutex = t /\ owned
        /\ \A s \in Threads \ {t} : pc'[s] = pc[s] /\ pc'[s] \notin ControlPcs
        /\ pc'[t] = "w_read"
    BY <1>0, <2>1 DEF OwnerInv, ControlPcs
  <2>. QED
    BY <1>0, <2>1, <2>2 DEF OwnerInv, ControlPcs, WakeupPcs
<1>12. ASSUME NEW t \in Threads, UninitDone(t) PROVE OwnerInv'
  <2>1. /\ pc[t] = "f_fin" /\ pc' = [pc EXCEPT ![t] = "f_id"]
        /\ owned' = FALSE /\ UNCHANGED <<valid, idPool, ts_mutex>> /\ ~valid
    BY <1>12 DEF UninitDone, Goto, MutexInv
  <2>2. /\ ts_mutex = t /\ owned /\ idPool = 0
        /\ \A s \in Threads \ {t} : pc'[s] = pc[s] /\ pc'[s] \notin ControlPcs
        /\ pc'[t] = "f_id"
    BY <1>0, <2>1 DEF OwnerInv, ControlPcs
  <2>. QED
    BY <1>0, <2>1, <2>2 DEF OwnerInv, ControlPcs, WakeupPcs
<1>13. ASSUME NEW t \in Threads, FreeId(t) PROVE OwnerInv'
  <2>1. /\ pc[t] = "f_id" /\ pc' = [pc EXCEPT ![t] = "idle"]
        /\ idPool' = idPool + 1 /\ UNCHANGED <<valid, mapped, owned>>
    BY <1>13 DEF FreeId, Goto, ringVars
  <2>2. /\ ts_mutex = t /\ ~owned /\ idPool = 0
        /\ \A s \in Threads \ {t} : pc'[s] = pc[s] /\ pc'[s] \notin ControlPcs
        /\ pc'[t] = "idle"
    BY <1>0, <2>1 DEF OwnerInv, ControlPcs
  <2>3. idPool' = 1 /\ ~valid /\ ~valid' /\ ~owned'
    BY <2>1, <2>2 DEF OwnerInv
  <2>. QED
    BY <1>0, <2>1, <2>2, <2>3 DEF OwnerInv, ControlPcs, WakeupPcs
<1>14. Quiet => OwnerInv'
  BY OwnerQuiet DEF Quiet
<1>. QED
  BY <1>1, <1>2, <1>3, <1>4, <1>5, <1>6, <1>7, <1>8, <1>9, <1>10, <1>11, <1>12, <1>13,
     <1>14, NextCases

(* So the id is in one place throughout. *)
LEMMA OwnerInvariant == Spec => [](MutexInv /\ OwnerInv)
  BY TypeCorrect, InitType, TypeStep, MutexInit, MutexStep, OwnerInit, OwnerStep, PTL DEF Spec

(* However often the queue is freed and allocated again, a receiver between   *)
(* the two halves of trs_logic_cq_copy_report, and a dispatcher that finds    *)
(* the queue valid, have the memory of the ring under them.                   *)
THEOREM CopyIsSafe == Spec => []CopyInMappedRing
<1>1. MutexInv /\ OwnerInv => CopyInMappedRing
  BY DEF MutexInv, OwnerInv, CopyInMappedRing
<1>. QED
  BY <1>1, OwnerInvariant, PTL

(* The id of the queue is neither lost nor returned twice to its pool by the  *)
(* allocation, its failures and the freeing, whichever threads call them.     *)
THEOREM IdIsSafe == Spec => []IdReturnedOnce
<1>1. OwnerInv => IdReturnedOnce
  <2>. DEFINE back == {t \in Threads : pc[t] = "f_id"}
  <2>. SUFFICES ASSUME OwnerInv PROVE idPool + Cardinality(back) + (IF owned THEN 1 ELSE 0) = 1
    BY DEF IdReturnedOnce
  <2>1. CASE back = {}
    <3>1. Cardinality(back) = 0
      BY <2>1, FS_EmptySet
    <3>2. idPool = IF owned THEN 0 ELSE 1
      BY <2>1 DEF OwnerInv
    <3>. HIDE DEF back
    <3>. QED
      BY <3>1, <3>2
  <2>2. CASE back # {}
    <3>1. PICK t \in back : TRUE
      BY <2>2
    <3>2. back = {t}
      BY <3>1 DEF OwnerInv
    <3>3. Cardinality(back) = 1
      BY <3>2, FS_Singleton
    <3>4. ~owned /\ idPool = 0
      BY <3>1 DEF OwnerInv
    <3>. HIDE DEF back
    <3>. QED
      BY <3>3, <3>4
  <2>. QED
    BY <2>1, <2>2
<1>. QED
  BY <1>1, OwnerInvariant, PTL
=============================================================================
