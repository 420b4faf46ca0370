--------------------------- MODULE TrsChanSqProofs ---------------------------
(***************************************************************************)
(* Proofs about TrsChanSq, for any number of senders, any depth of the     *)
(* ring, any size and timeout of a send.                                   *)
(***************************************************************************)
EXTENDS TrsChanSq, TLAPS, FiniteSetTheorems

(* The disjuncts of Next. *)
LEMMA NextCases ==
    ASSUME Next
    PROVE  \/ \E t \in Senders : Send(t) \/ SemDown(t) \/ SemFails(t) \/ SemUp(t) \/ Put(t)
           \/ \E t \in Senders : CheckFull(t) \/ QueryHead(t) \/ QueryFails(t) \/ StoreHead(t) \/ SecondLook(t)
           \/ \E t \in Senders : Woken(t) \/ WaitExpires(t) \/ WaitSignalled(t)
           \/ \E t \in Senders : Write(t) \/ WriteFails(t) \/ Ring(t) \/ RingFails(t)
           \/ \E d \in Dispatchers : Dispatch(d) \/ DispatchEmpty(d) \/ DispatchEnd(d)
           \/ \E d \in Dispatchers : Take(d) \/ DispatchStore(d)
           \/ Interrupt \/ DispatchLater \/ Execute \/ SetStatus
           \/ Destroy \/ SqUninit \/ DelFromIrqList \/ CancelWork
  BY DEF Next, Sending, Failing, Dispatching, Releasing

-----------------------------------------------------------------------------
(* Arithmetic of the ring. *)

(* One step along the ring. *)
LEMMA PlusOne ==
    \A k \in Position : /\ Plus(k, 1) \in Position
                        /\ Plus(k, 1) = IF k = SqDepth - 1 THEN 0 ELSE k + 1
  BY SqAssumption DEF SqAssumption, Plus, Position

(* A distance is a number below the depth. *)
LEMMA DistanceCases ==
    \A a, b \in Position : /\ Distance(a, b) \in Nat /\ Distance(a, b) < SqDepth
                           /\ Distance(a, b) = IF a <= b THEN b - a ELSE b - a + SqDepth
  BY SqAssumption DEF SqAssumption, Distance, Position

-----------------------------------------------------------------------------
(* Types, and where a sender is. *)

Submitting == {"check", "query", "store", "second", "wait", "write"}

(* The senders inside the semaphore are its holder, who has something left to *)
(* send until it rings; a send that is willing to wait has time left.         *)
SendInv ==
    /\ \A t \in Senders : pc[t] \in Submitting \cup {"ring", "up"} <=> sem = t
    /\ \A t \in Senders : pc[t] \in Submitting => sub.left # 0
    /\ \A t \in Senders : pc[t] = "wait" => sub.timeout # 0
    /\ sub.again => sub.timeout # 0

SubType == [left : 0 .. MaxNum, timeout : Nat \cup {-1},
            first : Position, head : Position, again : BOOLEAN]

RingType ==
    /\ sq_head \in Position /\ sq_tail \in Position
    /\ doorbell \in Position /\ dev_head \in Position
    /\ cqes \in Seq(Position)
    /\ disp \in [Dispatchers -> [pc : Rounds, val : Position]]

SendType ==
    /\ sem \in Senders \cup {Nobody}
    /\ pc \in [Senders -> Places]
    /\ sub \in SubType

LifeType ==
    /\ hw \in HwTypes
    /\ listed \in BOOLEAN /\ on_irq_list \in BOOLEAN /\ lost \in BOOLEAN
    /\ overtaken \in BOOLEAN /\ sched \in [Dispatchers -> BOOLEAN]
    /\ ref \in Int /\ status \in {0, 1}
    /\ chan_lock \in Dispatchers \cup {Nobody}
    /\ releasing \in {"no", "sq", "list", "work", "gone"}

(* A dispatcher at work holds the lock; the CQE that it has taken is there. *)
DispInv ==
    \A d \in Dispatchers : /\ disp[d].pc # "idle" => chan_lock = d
                           /\ disp[d].pc = "store" => cqes # <<>>

TypeInv == RingType /\ SendType /\ LifeType /\ SendInv /\ DispInv

(* What TypeOK says beyond these groups is that the reference count is not    *)
(* negative.                                                                  *)
LEMMA TypeSplit == TypeInv /\ ref \in Nat => TypeOK
  BY DEF TypeInv, RingType, SendType, LifeType, SubType, TypeOK

(* Initially types and shapes hold. *)
LEMMA InitType == Init => TypeInv
<1>. SUFFICES ASSUME Init PROVE TypeInv
  OBVIOUS
<1>1. 0 \in Position
  BY SqAssumption DEF SqAssumption, Position
<1>2. NoSub \in SubType /\ ~NoSub.again
  BY <1>1, SqAssumption DEF NoSub, SubType, SqAssumption
<1>3. RingType
  BY <1>1 DEF Init, RingType, Rounds
<1>4. SendType
  BY <1>2 DEF Init, SendType, Places
<1>5. SendInv
  BY <1>2, SqAssumption DEF Init, SendInv, Submitting, SqAssumption
<1>6. LifeType
  <2>1. /\ listed \in BOOLEAN /\ on_irq_list \in BOOLEAN /\ overtaken \in BOOLEAN /\ lost \in BOOLEAN
        /\ hw \in HwTypes
    BY Zenon DEF Init
  <2>2. sched \in [Dispatchers -> BOOLEAN]
    BY Zenon DEF Init
  <2>. QED
    BY <2>1, <2>2 DEF Init, LifeType
<1>7. DispInv
  BY DEF Init, DispInv
<1>. QED
  BY <1>3, <1>4, <1>5, <1>6, <1>7 DEF TypeInv

(* A dispatcher between two CQEs. *)
LEMMA RoundFacts ==
    ASSUME NEW d \in Dispatchers, Dispatch(d) \/ DispatchEmpty(d) \/ DispatchEnd(d)
    PROVE  disp' = disp \/ \E l \in Rounds \ {"store"} : disp' = [disp EXCEPT ![d] = [pc |-> l, val |-> 0]]
  BY DEF Dispatch, DispatchEmpty, DispatchEnd, At, Rounds

(* A dispatcher that takes a CQE. *)
LEMMA TakeFacts ==
    ASSUME TypeInv, NEW d \in Dispatchers, Take(d)
    PROVE  \E h \in IF hw THEN {dev_head, Head(cqes)} ELSE {Head(cqes)} :
              /\ h \in Position /\ disp' = [disp EXCEPT ![d] = [pc |-> "store", val |-> h]]
<1>1. cqes # <<>> /\ Head(cqes) \in Position /\ dev_head \in Position
  BY DEF Take, TypeInv, RingType
<1>. QED
  BY <1>1 DEF Take

(* Every step keeps the types of the ring. *)
LEMMA RingTypeStep == TypeInv /\ [Next]_vars => RingType'
<1>. SUFFICES ASSUME TypeInv, [Next]_vars PROVE RingType'
  OBVIOUS
<1>. USE DEF TypeInv, RingType, ringVars, devVars, dispVars
<1>1. ASSUME NEW t \in Senders, StoreHead(t) PROVE RingType'
  <2>1. sub.head \in Position
    BY DEF SendType, SubType
  <2>. QED
    BY <1>1, <2>1 DEF StoreHead
<1>2. ASSUME NEW t \in Senders, RingFails(t) PROVE RingType'
  <2>1. sub.first \in Position
    BY DEF SendType, SubType
  <2>. QED
    BY <1>2, <2>1 DEF RingFails
<1>3. ASSUME NEW t \in Senders, Write(t) PROVE RingType'
  BY <1>3, PlusOne DEF Write
<1>4. ASSUME NEW t \in Senders, Ring(t) PROVE RingType'
  BY <1>4 DEF Ring
<1>5. ASSUME NEW d \in Dispatchers, Take(d) PROVE RingType'
  <2>1. PICK h \in Position : disp' = [disp EXCEPT ![d] = [pc |-> "store", val |-> h]]
    BY <1>5, TakeFacts
  <2>2. disp' \in [Dispatchers -> [pc : Rounds, val : Position]]
    BY <2>1 DEF Rounds
  <2>. QED
    BY <1>5, <2>2 DEF Take
<1>6. ASSUME NEW d \in Dispatchers, DispatchStore(d) PROVE RingType'
  <2>1. disp[d].val \in Position /\ 0 \in Position
    BY SqAssumption DEF SqAssumption, Position
  <2>2. disp' \in [Dispatchers -> [pc : Rounds, val : Position]]
    BY <1>6, <2>1 DEF DispatchStore, At, Rounds
  <2>3. cqes' \in Seq(Position)
    BY <1>6 DEF DispatchStore, DispInv
  <2>. QED
    BY <1>6, <2>1, <2>2, <2>3 DEF DispatchStore
<1>7. CASE Execute
  <2>1. dev_head' \in Position
    BY <1>7, PlusOne DEF Execute
  <2>. QED
    BY <1>7, <2>1 DEF Execute
<1>8. ASSUME NEW t \in Senders, Send(t) \/ SemDown(t) \/ SemFails(t) \/ SemUp(t) \/ Put(t)
      PROVE  RingType'
  BY <1>8 DEF Send, SemDown, SemFails, SemUp, Put
<1>9. ASSUME NEW t \in Senders, CheckFull(t) \/ QueryHead(t) \/ QueryFails(t) \/ SecondLook(t)
      PROVE  RingType'
  BY <1>9 DEF CheckFull, QueryHead, QueryFails, SecondLook
<1>10. ASSUME NEW t \in Senders, Woken(t) \/ WaitExpires(t) \/ WaitSignalled(t) \/ WriteFails(t)
      PROVE  RingType'
  BY <1>10 DEF Woken, WaitExpires, WaitSignalled, WriteFails
<1>11. CASE Interrupt \/ DispatchLater \/ SetStatus
  BY <1>11 DEF Interrupt, DispatchLater, SetStatus
<1>12. CASE Destroy \/ SqUninit \/ DelFromIrqList \/ CancelWork
  BY <1>12 DEF Destroy, SqUninit, DelFromIrqList, CancelWork
<1>13. ASSUME NEW d \in Dispatchers, Dispatch(d) \/ DispatchEmpty(d) \/ DispatchEnd(d) PROVE RingType'
  <2>1. disp' \in [Dispatchers -> [pc : Rounds, val : Position]]
    BY <1>13, RoundFacts, SqAssumption DEF SqAssumption, Position
  <2>. QED
    BY <1>13, <2>1 DEF Dispatch, DispatchEmpty, DispatchEnd
<1>14. CASE UNCHANGED vars
  BY <1>14 DEF vars
<1>. QED
  BY <1>1, <1>2, <1>3, <1>4, <1>5, <1>6, <1>7, <1>8, <1>9, <1>10, <1>11, <1>12, <1>13, <1>14,
     NextCases

(* Counting down leaves a send that is good for another round. *)
LEMMA CountdownFacts ==
    ASSUME TypeInv, NEW t \in Senders, Countdown(t), sub.timeout # 0
    PROVE  /\ sub' \in SubType /\ sub'.left = sub.left /\ ~sub'.again
           /\ pc' = [pc EXCEPT ![t] = "check"]
<1>1. sub \in SubType
  BY DEF TypeInv, SendType
<1>. DEFINE T == IF sub.timeout = -1 THEN sub.timeout ELSE sub.timeout - 1
<1>2. T \in Nat \cup {-1}
  BY <1>1 DEF SubType
<1>3. sub' = [sub EXCEPT !.again = FALSE, !.timeout = T]
  BY <1>1 DEF Countdown, SubType
<1>. HIDE DEF T
<1>4. sub' \in SubType
  BY <1>1, <1>2, <1>3 DEF SubType
<1>5. sub'.left = sub.left /\ sub'.again = FALSE
  BY <1>1, <1>3 DEF SubType
<1>. QED
  BY <1>4, <1>5 DEF Countdown, Goto

(* A sender that finds the ring full stays inside the semaphore. *)
LEMMA FoundFullFacts ==
    ASSUME TypeInv, NEW t \in Senders, pc[t] \in Submitting, FoundFull(t), UNCHANGED sem
    PROVE  SendType' /\ SendInv'
<1>. USE DEF TypeInv, SendType, SendInv, Submitting, Places
<1>1. CASE sub.again
  <2>1. Countdown(t) /\ sub.timeout # 0
    BY <1>1 DEF FoundFull
  <2>. QED
    BY <2>1, CountdownFacts
<1>2. CASE ~sub.again
  BY <1>2 DEF FoundFull, Goto
<1>. QED
  BY <1>1, <1>2

(* Every step keeps the places of the senders and the order among them. *)
LEMMA SendTypeStep == TypeInv /\ [Next]_vars => SendType' /\ SendInv'
<1>. SUFFICES ASSUME TypeInv, [Next]_vars PROVE SendType' /\ SendInv'
  OBVIOUS
<1>. USE SqAssumption DEF SqAssumption, TypeInv, SendType, SendInv, Submitting, Places, SubType,
             Goto, sendVars
<1>1. ASSUME NEW t \in Senders, Send(t) PROVE SendType' /\ SendInv'
  BY <1>1 DEF Send
<1>2. ASSUME NEW t \in Senders, SemDown(t) PROVE SendType' /\ SendInv'
  <2>1. PICK n \in 1 .. MaxNum, w \in Timeouts :
           sub' = [NoSub EXCEPT !.left = n, !.timeout = w, !.first = sq_tail]
    BY <1>2 DEF SemDown
  <2>2. n \in 0 .. MaxNum /\ n # 0 /\ w \in Nat \cup {-1} /\ sq_tail \in Position /\ 0 \in Position
    BY DEF RingType, Position
  <2>3. sub' = [left |-> n, timeout |-> w, first |-> sq_tail, head |-> 0, again |-> FALSE]
    BY <2>1 DEF NoSub
  <2>4. /\ sub' \in SubType /\ sub'.left # 0 /\ ~sub'.again
    BY <2>2, <2>3
  <2>. QED
    BY <1>2, <2>4 DEF SemDown
<1>3. ASSUME NEW t \in Senders, SemFails(t) PROVE SendType' /\ SendInv'
  BY <1>3 DEF SemFails
<1>4. ASSUME NEW t \in Senders, SemUp(t) PROVE SendType' /\ SendInv'
  <2>1. NoSub \in SubType /\ ~NoSub.again
    BY DEF NoSub, Position
  <2>. QED
    BY <1>4, <2>1 DEF SemUp
<1>5. ASSUME NEW t \in Senders, Put(t) PROVE SendType' /\ SendInv'
  BY <1>5 DEF Put
<1>6. ASSUME NEW t \in Senders, CheckFull(t) PROVE SendType' /\ SendInv'
  <2>1. CASE IsFull /\ ~hw /\ FoundFull(t)
    BY <1>6, <2>1, FoundFullFacts DEF CheckFull
  <2>2. CASE UNCHANGED sub /\ (Goto(t, "write") \/ Goto(t, "query"))
    BY <1>6, <2>2 DEF CheckFull
  <2>. QED
    BY <1>6, <2>1, <2>2 DEF CheckFull
<1>7. ASSUME NEW t \in Senders, QueryHead(t) PROVE SendType' /\ SendInv'
  BY <1>7 DEF QueryHead, RingType
<1>8. ASSUME NEW t \in Senders, QueryFails(t) PROVE SendType' /\ SendInv'
  BY <1>8, FoundFullFacts DEF QueryFails
<1>9. ASSUME NEW t \in Senders, StoreHead(t) PROVE SendType' /\ SendInv'
  BY <1>9 DEF StoreHead, Position
<1>10. ASSUME NEW t \in Senders, SecondLook(t) PROVE SendType' /\ SendInv'
  <2>1. CASE FoundFull(t)
    BY <1>10, <2>1, FoundFullFacts DEF SecondLook
  <2>2. CASE UNCHANGED sub /\ Goto(t, "write")
    BY <1>10, <2>2 DEF SecondLook
  <2>. QED
    BY <1>10, <2>1, <2>2 DEF SecondLook
<1>11. ASSUME NEW t \in Senders, Woken(t) PROVE SendType' /\ SendInv'
  BY <1>11 DEF Woken
<1>12. ASSUME NEW t \in Senders, WaitExpires(t) PROVE SendType' /\ SendInv'
  BY <1>12, CountdownFacts DEF WaitExpires
<1>13. ASSUME NEW t \in Senders, WaitSignalled(t) PROVE SendType' /\ SendInv'
  BY <1>13 DEF WaitSignalled
<1>14. ASSUME NEW t \in Senders, Write(t) PROVE SendType' /\ SendInv'
  <2>1. sub.left - 1 \in 0 .. MaxNum
    BY <1>14 DEF Write
  <2>2. /\ sub' \in SubType /\ sub'.left = sub.left - 1 /\ sub'.again = FALSE
    BY <1>14, <2>1 DEF Write
  <2>. QED
    BY <1>14, <2>2 DEF Write
<1>15. ASSUME NEW t \in Senders, WriteFails(t) PROVE SendType' /\ SendInv'
  BY <1>15 DEF WriteFails
<1>16. ASSUME NEW t \in Senders, Ring(t) PROVE SendType' /\ SendInv'
  BY <1>16 DEF Ring
<1>17. ASSUME NEW t \in Senders, RingFails(t) PROVE SendType' /\ SendInv'
  BY <1>17 DEF RingFails
<1>18. ASSUME NEW d \in Dispatchers,
             \/ Dispatch(d) \/ Take(d) \/ DispatchStore(d) \/ DispatchEmpty(d) \/ DispatchEnd(d)
       PROVE SendType' /\ SendInv'
  BY <1>18 DEF Dispatch, Take, DispatchStore, DispatchEmpty, DispatchEnd
<1>19. CASE Interrupt \/ DispatchLater \/ Execute \/ SetStatus
  BY <1>19 DEF Interrupt, DispatchLater, Execute, SetStatus
<1>20. CASE Destroy \/ SqUninit \/ DelFromIrqList \/ CancelWork
  BY <1>20 DEF Destroy, SqUninit, DelFromIrqList, CancelWork
<1>21. CASE UNCHANGED vars
  BY <1>21 DEF vars
<1>. QED
  BY <1>1, <1>2, <1>3, <1>4, <1>5, <1>6, <1>7, <1>8, <1>9, <1>10, <1>11, <1>12, <1>13,
     <1>14, <1>15, <1>16, <1>17, <1>18, <1>19, <1>20, <1>21, NextCases

(* Every step keeps the types of the rest, and the lock with the dispatcher   *)
(* at work.                                                                   *)
LEMMA LifeTypeStep == TypeInv /\ [Next]_vars => LifeType' /\ DispInv'
<1>. SUFFICES ASSUME TypeInv, [Next]_vars PROVE LifeType' /\ DispInv'
  OBVIOUS
<1>. USE DEF TypeInv, LifeType, DispInv, devVars, dispVars, lifeVars, ringVars, PutRef
<1>1. ASSUME NEW t \in Senders, Send(t) \/ SemDown(t) \/ SemFails(t) \/ SemUp(t) \/ Put(t)
      PROVE  LifeType' /\ DispInv'
  <2>1. CASE Send(t)
    BY <2>1 DEF Send
  <2>2. CASE SemDown(t) \/ SemFails(t) \/ SemUp(t)
    BY <2>2 DEF SemDown, SemFails, SemUp
  <2>3. CASE Put(t)
    BY <2>3 DEF Put
  <2>. QED
    BY <1>1, <2>1, <2>2, <2>3
<1>2. ASSUME NEW t \in Senders, CheckFull(t) \/ QueryHead(t) \/ QueryFails(t) \/ StoreHead(t) \/ SecondLook(t)
      PROVE  LifeType' /\ DispInv'
  BY <1>2 DEF CheckFull, QueryHead, QueryFails, StoreHead, SecondLook
<1>3. ASSUME NEW t \in Senders, Woken(t) \/ WaitExpires(t) \/ WaitSignalled(t)
      PROVE  LifeType' /\ DispInv'
  BY <1>3 DEF Woken, WaitExpires, WaitSignalled
<1>4. ASSUME NEW t \in Senders, Write(t) \/ WriteFails(t) \/ Ring(t) \/ RingFails(t)
      PROVE  LifeType' /\ DispInv'
  <2>1. lost' \in BOOLEAN
    BY <1>4, Zenon DEF Write, WriteFails, Ring, RingFails
  <2>. QED
    BY <1>4, <2>1 DEF Write, WriteFails, Ring, RingFails
<1>5. ASSUME NEW d \in Dispatchers, Take(d) PROVE LifeType' /\ DispInv'
  <2>1. PICK h : disp' = [disp EXCEPT ![d] = [pc |-> "store", val |-> h]]
    BY <1>5, TakeFacts
  <2>2. DispInv'
    BY <1>5, <2>1 DEF Take, RingType
  <2>. QED
    BY <1>5, <2>2 DEF Take
<1>6. ASSUME NEW d \in Dispatchers, DispatchStore(d) PROVE LifeType' /\ DispInv'
  <2>1. PICK l \in {"loop", "end"} : disp' = [disp EXCEPT ![d] = [pc |-> l, val |-> 0]]
    BY <1>6 DEF DispatchStore, At
  <2>2. disp[d].pc # "idle" /\ UNCHANGED chan_lock
    BY <1>6 DEF DispatchStore
  <2>3. DispInv'
    BY <2>1, <2>2 DEF RingType
  <2>4. overtaken' \in BOOLEAN
    BY <1>6, Zenon DEF DispatchStore
  <2>5. sched' \in [Dispatchers -> BOOLEAN]
    BY <1>6 DEF DispatchStore
  <2>. QED
    BY <1>6, <2>3, <2>4, <2>5 DEF DispatchStore
<1>7. CASE Execute
  <2>1. cqes' # <<>>
    BY <1>7 DEF Execute, RingType
  <2>2. sched' \in [Dispatchers -> BOOLEAN]
    BY <1>7 DEF Execute
  <2>. QED
    BY <1>7, <2>1, <2>2 DEF Execute
<1>8. CASE Interrupt \/ DispatchLater \/ SetStatus
  <2>1. sched' \in [Dispatchers -> BOOLEAN]
    BY <1>8 DEF Interrupt, DispatchLater, SetStatus
  <2>. QED
    BY <1>8, <2>1 DEF Interrupt, DispatchLater, SetStatus
<1>9. CASE Destroy \/ SqUninit \/ DelFromIrqList \/ CancelWork
  <2>1. listed' \in BOOLEAN /\ on_irq_list' \in BOOLEAN
    BY <1>9, Zenon DEF Destroy, SqUninit, DelFromIrqList, CancelWork
  <2>2. sched' \in [Dispatchers -> BOOLEAN]
    BY <1>9 DEF Destroy, SqUninit, DelFromIrqList, CancelWork
  <2>. QED
    BY <1>9, <2>1, <2>2 DEF Destroy, SqUninit, DelFromIrqList, CancelWork
<1>10. ASSUME NEW d \in Dispatchers, Dispatch(d) PROVE LifeType' /\ DispInv'
  <2>1. sched' \in [Dispatchers -> BOOLEAN]
    BY <1>10 DEF Dispatch
  <2>2. CASE chan_lock = Nobody
    <3>1. \A e \in Dispatchers : disp[e].pc = "idle"
      BY <2>2, SqAssumption DEF SqAssumption
    <3>. QED
      BY <1>10, <2>1, <2>2, <3>1 DEF Dispatch, At, RingType
  <2>3. CASE chan_lock # Nobody
    BY <1>10, <2>1, <2>3 DEF Dispatch
  <2>. QED
    BY <2>2, <2>3
<1>11. ASSUME NEW d \in Dispatchers, DispatchEmpty(d) PROVE LifeType' /\ DispInv'
  <2>1. sched' \in [Dispatchers -> BOOLEAN]
    BY <1>11 DEF DispatchEmpty
  <2>. QED
    BY <1>11, <2>1 DEF DispatchEmpty, At, RingType
<1>12. ASSUME NEW d \in Dispatchers, DispatchEnd(d) PROVE LifeType' /\ DispInv'
  <2>1. \A e \in Dispatchers : e # d => disp[e].pc = "idle"
    BY <1>12 DEF DispatchEnd
  <2>. QED
    BY <1>12, <2>1 DEF DispatchEnd, At, RingType
<1>13. CASE UNCHANGED vars
  BY <1>13 DEF vars
<1>. QED
  BY <1>1, <1>2, <1>3, <1>4, <1>5, <1>6, <1>7, <1>8, <1>9, <1>10, <1>11, <1>12, <1>13, NextCases

(* Every step keeps types and shapes. *)
LEMMA TypeStep == TypeInv /\ [Next]_vars => TypeInv'
  BY RingTypeStep, SendTypeStep, LifeTypeStep DEF TypeInv

-----------------------------------------------------------------------------
(* The references of the channel. *)

Using == {t \in Senders : pc[t] # "idle"}

Count(b) == IF b THEN 1 ELSE 0

(* The references are the table's and one for each sender under way, and the  *)
(* release has begun exactly if there is none.                                *)
RefInv ==
    /\ ref = Cardinality(Using) + Count(listed)
    /\ releasing = "no" <=> ref # 0

(* Tasklet and work item hold no reference: the list of the interrupt, and    *)
(* the cancelled work item, keep them out of a channel that is freed.         *)
IrqInv ==
    /\ on_irq_list <=> releasing \in {"no", "sq", "list"}
    /\ ~on_irq_list => disp["tasklet"].pc = "idle"
    /\ releasing = "gone" => ~sched["work"] /\ disp["work"].pc = "idle"

(* The senders on a channel can be counted. *)
LEMMA UsingFinite == IsFiniteSet(Using) /\ Cardinality(Using) \in Nat
<1>1. Using \in SUBSET Senders /\ IsFiniteSet(Senders)
  BY SqAssumption DEF Using, SqAssumption
<1>. QED
  BY <1>1, FS_Subset, FS_CardinalityType

(* A sender that comes adds a reference, one that goes drops it, and between  *)
(* the number of them does not change.                                        *)
LEMMA UsingMoves ==
    ASSUME TypeInv, NEW t \in Senders, NEW l, pc' = [pc EXCEPT ![t] = l]
    PROVE  /\ pc[t] = "idle" /\ l # "idle" => Cardinality(Using') = Cardinality(Using) + 1
           /\ pc[t] # "idle" /\ l = "idle" => Cardinality(Using') = Cardinality(Using) - 1
           /\ pc[t] # "idle" /\ l # "idle" => Using' = Using
<1>. USE DEF TypeInv, SendType
<1>1. ASSUME pc[t] = "idle", l # "idle" PROVE Cardinality(Using') = Cardinality(Using) + 1
  <2>1. Using' = Using \cup {t} /\ t \notin Using
    BY <1>1 DEF Using
  <2>. QED
    BY <2>1, UsingFinite, FS_AddElement
<1>2. ASSUME pc[t] # "idle", l = "idle" PROVE Cardinality(Using') = Cardinality(Using) - 1
  <2>1. Using' = Using \ {t} /\ t \in Using
    BY <1>2 DEF Using
  <2>. QED
    BY <2>1, UsingFinite, FS_RemoveElement
<1>3. ASSUME pc[t] # "idle", l # "idle" PROVE Using' = Using
  BY <1>3 DEF Using
<1>. QED
  BY <1>1, <1>2, <1>3

LifeInv == RefInv /\ IrqInv

(* Initially the channel has its registration only. *)
LEMMA InitLife == Init => LifeInv
<1>. SUFFICES ASSUME Init PROVE LifeInv
  OBVIOUS
<1>1. Using = {}
  BY DEF Init, Using
<1>. QED
  BY <1>1, FS_EmptySet DEF Init, LifeInv, RefInv, IrqInv, Count, Dispatchers

(* Dropping a reference while the others are counted. *)
LEMMA PutFacts ==
    ASSUME TypeInv, LifeInv, PutRef, ref # 0,
           Cardinality(Using') + Count(listed') = Cardinality(Using) + Count(listed) - 1,
           UNCHANGED <<on_irq_list, disp, sched>>
    PROVE  LifeInv'
<1>1. ref \in Int /\ releasing = "no" /\ on_irq_list
  BY DEF LifeInv, RefInv, IrqInv, TypeInv, LifeType
<1>2. Cardinality(Using) \in Nat /\ Count(listed) \in Nat
  BY UsingFinite DEF Count
<1>3. ref' = Cardinality(Using') + Count(listed')
  BY <1>1, <1>2 DEF LifeInv, RefInv, PutRef
<1>4. releasing' = "no" <=> ref' # 0
  BY <1>1 DEF PutRef
<1>5. RefInv'
  BY <1>3, <1>4 DEF RefInv
<1>6. IrqInv'
  BY <1>1 DEF LifeInv, IrqInv, PutRef
<1>. QED
  BY <1>5, <1>6 DEF LifeInv

(* A sender that stays under way, and everything else alone. *)
LEMMA StayFacts ==
    ASSUME TypeInv, LifeInv, Using' = Using, UNCHANGED lifeVars, UNCHANGED <<disp, sched>>
    PROVE  LifeInv'
  BY DEF LifeInv, RefInv, IrqInv, lifeVars

(* Every step keeps references and interrupts in order. *)
LEMMA LifeStep == TypeInv /\ LifeInv /\ [Next]_vars => LifeInv'
<1>. SUFFICES ASSUME TypeInv, LifeInv, [Next]_vars PROVE LifeInv'
  OBVIOUS
<1>1. ASSUME NEW t \in Senders, Send(t) PROVE LifeInv'
  <2>1. Cardinality(Using') = Cardinality(Using) + 1
    <3>. DEFINE l == IF status = 0 THEN "put" ELSE "sem"
    <3>1. l # "idle"
      OBVIOUS
    <3>2. pc' = [pc EXCEPT ![t] = l] /\ pc[t] = "idle"
      BY <1>1 DEF Send, Goto
    <3>. HIDE DEF l
    <3>. QED
      BY <3>1, <3>2, UsingMoves
  <2>2. ref # 0 /\ ref \in Nat
    BY <1>1, UsingFinite DEF Send, LifeInv, RefInv, Count
  <2>3. RefInv'
    BY <1>1, <2>1, <2>2, UsingFinite DEF Send, LifeInv, RefInv, Count
  <2>. QED
    BY <1>1, <2>3 DEF Send, LifeInv, IrqInv, dispVars
<1>2. ASSUME NEW t \in Senders, Put(t) PROVE LifeInv'
  <2>1. Cardinality(Using') = Cardinality(Using) - 1
    BY <1>2, UsingMoves DEF Put, Goto
  <2>2. t \in Using
    BY <1>2 DEF Put, Using
  <2>3. Cardinality(Using) # 0
    BY <2>2, UsingFinite, FS_EmptySet
  <2>4. ref # 0
    BY <2>3, UsingFinite DEF LifeInv, RefInv, Count
  <2>. QED
    BY <1>2, <2>1, <2>4, PutFacts, UsingFinite DEF Put, dispVars, Count
<1>3. CASE Destroy
  <2>1. Using' = Using
    BY <1>3 DEF Destroy, sendVars, Using
  <2>2. ref # 0 /\ Count(listed) = 1 /\ Count(listed') = 0
    BY <1>3, UsingFinite DEF Destroy, LifeInv, RefInv, Count
  <2>3. Cardinality(Using') + Count(listed') = Cardinality(Using) + Count(listed) - 1
    BY <2>1, <2>2, UsingFinite
  <2>. QED
    BY <1>3, <2>2, <2>3, PutFacts DEF Destroy, dispVars
<1>4. ASSUME NEW t \in Senders, NEW l, l # "idle", pc[t] # "idle", pc' = [pc EXCEPT ![t] = l],
             UNCHANGED lifeVars, UNCHANGED <<disp, sched>>
      PROVE  LifeInv'
  BY <1>4, UsingMoves, StayFacts
<1>5. ASSUME NEW t \in Senders, SemDown(t) \/ SemFails(t) \/ SemUp(t) PROVE LifeInv'
  BY <1>5, <1>4 DEF SemDown, SemFails, SemUp, Goto, dispVars
<1>6. ASSUME NEW t \in Senders, FoundFull(t), pc[t] # "idle", UNCHANGED lifeVars, UNCHANGED <<disp, sched>>
      PROVE  LifeInv'
  BY <1>6, <1>4 DEF FoundFull, Countdown, Goto
<1>7. ASSUME NEW t \in Senders, CheckFull(t) \/ SecondLook(t) PROVE LifeInv'
  BY <1>7, <1>4, <1>6 DEF CheckFull, SecondLook, Goto, dispVars
<1>8. ASSUME NEW t \in Senders, QueryHead(t) \/ QueryFails(t) \/ StoreHead(t) PROVE LifeInv'
  BY <1>8, <1>4, <1>6 DEF QueryHead, QueryFails, StoreHead, Goto, dispVars
<1>9. ASSUME NEW t \in Senders, Woken(t) \/ WaitExpires(t) \/ WaitSignalled(t) PROVE LifeInv'
  BY <1>9, <1>4 DEF Woken, WaitExpires, WaitSignalled, Countdown, Goto, dispVars
<1>10. ASSUME NEW t \in Senders, Write(t) \/ WriteFails(t) \/ Ring(t) \/ RingFails(t) PROVE LifeInv'
  BY <1>10, <1>4 DEF Write, WriteFails, Ring, RingFails, Goto, dispVars
<1>11. ASSUME UNCHANGED <<listed, ref, pc>>, releasing = "no" <=> releasing' = "no", IrqInv'
       PROVE  LifeInv'
  BY <1>11 DEF LifeInv, RefInv, Using
<1>12. ASSUME NEW d \in Dispatchers, Dispatch(d) \/ DispatchEmpty(d) \/ DispatchEnd(d) PROVE LifeInv'
  <2>0. disp \in [Dispatchers -> [pc : Rounds, val : Position]] /\ sched \in [Dispatchers -> BOOLEAN]
    BY DEF TypeInv, RingType, LifeType
  <2>1. ASSUME Dispatch(d) PROVE IrqInv'
    BY <2>0, <2>1 DEF Dispatch, At, LifeInv, IrqInv, lifeVars, Dispatchers
  <2>2. ASSUME DispatchEmpty(d) PROVE IrqInv'
    BY <2>0, <2>2 DEF DispatchEmpty, At, LifeInv, IrqInv, lifeVars, Dispatchers
  <2>3. ASSUME DispatchEnd(d) PROVE IrqInv'
    BY <2>0, <2>3 DEF DispatchEnd, At, LifeInv, IrqInv, lifeVars, Dispatchers
  <2>4. IrqInv'
    BY <1>12, <2>1, <2>2, <2>3
  <2>. QED
    BY <1>12, <2>4, <1>11 DEF Dispatch, DispatchEmpty, DispatchEnd, lifeVars, sendVars
<1>13. ASSUME NEW d \in Dispatchers, Take(d) \/ DispatchStore(d) PROVE LifeInv'
  <2>0. disp \in [Dispatchers -> [pc : Rounds, val : Position]] /\ sched \in [Dispatchers -> BOOLEAN]
    BY DEF TypeInv, RingType, LifeType
  <2>1. PICK r : disp' = [disp EXCEPT ![d] = r]
    BY <1>13 DEF Take, DispatchStore, At
  <2>2. disp[d].pc # "idle" /\ UNCHANGED lifeVars
    BY <1>13 DEF Take, DispatchStore
  <2>3. (releasing # "gone" \/ d = "tasklet") /\ (on_irq_list \/ d = "work")
    BY <2>2 DEF LifeInv, IrqInv, Dispatchers
  <2>4. releasing # "gone"
    BY <2>3 DEF LifeInv, IrqInv
  <2>5. IrqInv'
    BY <2>0, <2>1, <2>2, <2>3, <2>4 DEF LifeInv, IrqInv, lifeVars, Dispatchers
  <2>. QED
    BY <1>13, <2>5, <1>11 DEF Take, DispatchStore, lifeVars, sendVars
<1>14. CASE Interrupt \/ DispatchLater
  <2>0. sched \in [Dispatchers -> BOOLEAN]
    BY DEF TypeInv, LifeType
  <2>1. IrqInv'
    BY <1>14, <2>0 DEF Interrupt, DispatchLater, LifeInv, IrqInv, lifeVars, Dispatchers
  <2>. QED
    BY <1>14, <2>1, <1>11 DEF Interrupt, DispatchLater, lifeVars, sendVars
<1>15. CASE Execute \/ SetStatus
  <2>0. sched \in [Dispatchers -> BOOLEAN]
    BY DEF TypeInv, LifeType
  <2>1. IrqInv'
    BY <1>15, <2>0 DEF Execute, SetStatus, LifeInv, IrqInv, lifeVars, dispVars, Dispatchers
  <2>. QED
    BY <1>15, <2>1, <1>11 DEF Execute, SetStatus, lifeVars, sendVars
<1>16. CASE SqUninit \/ DelFromIrqList \/ CancelWork
  <2>0. sched \in [Dispatchers -> BOOLEAN]
    BY DEF TypeInv, LifeType
  <2>1. IrqInv'
    BY <1>16, <2>0 DEF Dispatchers, SqUninit, DelFromIrqList, CancelWork, LifeInv, IrqInv, dispVars
  <2>. QED
    BY <1>16, <2>1, <1>11 DEF SqUninit, DelFromIrqList, CancelWork, sendVars
<1>17. CASE UNCHANGED vars
  BY <1>17 DEF vars, LifeInv, RefInv, IrqInv, Using, lifeVars, sendVars, dispVars
<1>. QED
  BY <1>1, <1>2, <1>3, <1>5, <1>7, <1>8, <1>9, <1>10, <1>12, <1>13, <1>14, <1>15, <1>16,
     <1>17, NextCases

(* Every variable keeps its type: positions stay inside the ring across its   *)
(* end, a timeout never counts past zero, and the reference count of the      *)
(* channel is never negative.                                                 *)
THEOREM TypeCorrect == Spec => []TypeOK
<1>1. Init => TypeInv /\ LifeInv
  BY InitType, InitLife
<1>2. TypeInv /\ LifeInv /\ [Next]_vars => (TypeInv /\ LifeInv)'
  BY TypeStep, LifeStep
<1>3. TypeInv /\ LifeInv => TypeOK
  BY TypeSplit, UsingFinite DEF LifeInv, RefInv, Count
<1>. QED
  BY <1>1, <1>2, <1>3, PTL DEF Spec

(* No sender works on a SQ, and no dispatcher on a channel, that was released *)
(* (trs_chan_inst_release), although dispatchers hold no reference.           *)
THEOREM ChannelLives == Spec => []LiveWhileUsed
<1>1. Init => TypeInv /\ LifeInv
  BY InitType, InitLife
<1>2. TypeInv /\ LifeInv /\ [Next]_vars => (TypeInv /\ LifeInv)'
  BY TypeStep, LifeStep
<1>3. TypeInv /\ LifeInv => LiveWhileUsed
  <2>. SUFFICES ASSUME TypeInv, LifeInv PROVE LiveWhileUsed
    OBVIOUS
  <2>1. ASSUME NEW t \in Senders, pc[t] # "idle" PROVE releasing = "no"
    <3>1. t \in Using
      BY <2>1 DEF Using
    <3>2. Cardinality(Using) # 0
      BY <3>1, UsingFinite, FS_EmptySet
    <3>. QED
      BY <3>2, UsingFinite DEF LifeInv, RefInv, Count
  <2>2. ASSUME NEW d \in Dispatchers, disp[d].pc # "idle" PROVE releasing # "gone"
    BY <2>2 DEF LifeInv, IrqInv, Dispatchers
  <2>. QED
    BY <2>1, <2>2 DEF LiveWhileUsed
<1>. QED
  BY <1>1, <1>2, <1>3, PTL DEF Spec

-----------------------------------------------------------------------------
(* The ring.                                                                  *)

(* Positions are the numbers below a depth of at least two. *)
LEMMA PositionInt == SqDepth \in Nat /\ SqDepth > 1 /\ \A k \in Position : k \in Int /\ 0 <= k /\ k < SqDepth
  BY SqAssumption DEF SqAssumption, Position

(* Going one step away from h, short of h itself. *)
LEMMA DistanceStep ==
    ASSUME NEW h \in Position, NEW k \in Position, Plus(k, 1) # h
    PROVE  Distance(h, Plus(k, 1)) = Distance(h, k) + 1
<1>1. /\ Plus(k, 1) \in Position /\ Plus(k, 1) = IF k = SqDepth - 1 THEN 0 ELSE k + 1
      /\ Distance(h, k) = IF h <= k THEN k - h ELSE k - h + SqDepth
  BY PlusOne, DistanceCases
<1>2. Distance(h, Plus(k, 1)) = IF h <= Plus(k, 1) THEN Plus(k, 1) - h ELSE Plus(k, 1) - h + SqDepth
  BY <1>1, DistanceCases
<1>. QED
  BY <1>1, <1>2, PositionInt

(* Measuring from a later position g. *)
LEMMA DistanceFrom ==
    ASSUME NEW h \in Position, NEW g \in Position, NEW a \in Position, Distance(h, g) <= Distance(h, a)
    PROVE  Distance(g, a) = Distance(h, a) - Distance(h, g)
<1>1. /\ Distance(h, g) = IF h <= g THEN g - h ELSE g - h + SqDepth
      /\ Distance(h, a) = IF h <= a THEN a - h ELSE a - h + SqDepth
      /\ Distance(g, a) = IF g <= a THEN a - g ELSE a - g + SqDepth
  BY DistanceCases
<1>. QED
  BY <1>1, PositionInt

(* Distances from h tell positions apart. *)
LEMMA DistanceSame ==
    ASSUME NEW h \in Position, NEW a \in Position, NEW b \in Position
    PROVE  Distance(h, h) = 0 /\ (Distance(h, a) = Distance(h, b) => a = b)
<1>1. /\ Distance(h, h) = IF h <= h THEN h - h ELSE h - h + SqDepth
      /\ Distance(h, a) = IF h <= a THEN a - h ELSE a - h + SqDepth
      /\ Distance(h, b) = IF h <= b THEN b - h ELSE b - h + SqDepth
  BY DistanceCases
<1>. QED
  BY <1>1, PositionInt

(* Seen from a head h of the driver: first the device, then the doorbell,     *)
(* then the tail; a submission starts between the doorbell and the tail.      *)
InOrder(h, dev, bell, tail) ==
    Distance(h, dev) <= Distance(h, bell) /\ Distance(h, bell) <= Distance(h, tail)

Ordered(h) ==
    /\ InOrder(h, dev_head, doorbell, sq_tail)
    /\ \A t \in Senders : pc[t] \in Submitting \cup {"ring"} => InOrder(h, doorbell, sub.first, sq_tail)

(* The heads a sender works with: the one it has read, and may store late, is *)
(* as good as the current one; it writes to a ring that is not full.          *)
HeadInv ==
    /\ Ordered(sq_head)
    /\ \A t \in Senders : pc[t] = "store" => Ordered(sub.head)
    /\ \A t \in Senders : pc[t] \in {"query", "store", "second"} => hw
    /\ \A t \in Senders : pc[t] = "write" => ~IsFull
    /\ ~lost

(* The heads the completions carry: on a channel that is not asked they are   *)
(* the positions behind sq_head one by one, up to the device.                 *)
CqeInv ==
    ~hw => /\ Distance(sq_head, dev_head) = Len(cqes)
           /\ \A k \in 1 .. Len(cqes) : Distance(sq_head, cqes[k]) = k
           /\ \A d \in Dispatchers : disp[d].pc = "store" => disp[d].val = Head(cqes)

RingInv == HeadInv /\ CqeInv

(* The order holds until a dispatcher stores a head that was passed, which    *)
(* only a channel that is asked can see.                                      *)
UntilOvertaken == (overtaken => hw) /\ (overtaken \/ RingInv)

(* A head that sq_head has not passed is on the way to the device. *)
LEMMA NotPassed ==
    ASSUME NEW h \in Position, NEW g \in Position, NEW a \in Position
    PROVE  Distance(g, a) <= Distance(h, a) <=> Distance(h, g) <= Distance(h, a)
<1>1. /\ Distance(h, g) = IF h <= g THEN g - h ELSE g - h + SqDepth
      /\ Distance(h, a) = IF h <= a THEN a - h ELSE a - h + SqDepth
      /\ Distance(g, a) = IF g <= a THEN a - g ELSE a - g + SqDepth
  BY DistanceCases
<1>. QED
  BY <1>1, PositionInt

(* Three positions in order are in order seen from any head on the way to the *)
(* first of them.                                                             *)
LEMMA OrderLater ==
    ASSUME NEW h \in Position, NEW g \in Position, NEW a \in Position, NEW b \in Position,
           NEW c \in Position, InOrder(h, a, b, c), Distance(h, g) <= Distance(h, a)
    PROVE  InOrder(g, a, b, c)
<1>1. /\ Distance(h, g) \in Nat /\ Distance(h, a) \in Nat /\ Distance(h, b) \in Nat /\ Distance(h, c) \in Nat
  BY DistanceCases
<1>2. Distance(h, g) <= Distance(h, b) /\ Distance(h, g) <= Distance(h, c)
  BY <1>1 DEF InOrder
<1>3. /\ Distance(g, a) = Distance(h, a) - Distance(h, g)
      /\ Distance(g, b) = Distance(h, b) - Distance(h, g)
      /\ Distance(g, c) = Distance(h, c) - Distance(h, g)
  BY <1>2, DistanceFrom
<1>. QED
  BY <1>1, <1>3 DEF InOrder

(* The first of them goes one step, unless it has reached the second. *)
LEMMA OrderFirst ==
    ASSUME NEW h \in Position, NEW a \in Position, NEW b \in Position,
           NEW c \in Position, InOrder(h, a, b, c), a # b
    PROVE  InOrder(h, Plus(a, 1), b, c) /\ Distance(h, Plus(a, 1)) = Distance(h, a) + 1
<1>1. /\ Distance(h, a) \in Nat /\ Distance(h, b) \in Nat /\ Distance(h, b) < SqDepth /\ SqDepth \in Nat
  BY DistanceCases, PositionInt
<1>2. Distance(h, a) < Distance(h, b)
  BY <1>1, DistanceSame DEF InOrder
<1>3. Plus(a, 1) # h
  <2>1. ASSUME Plus(a, 1) = h PROVE Distance(h, a) = SqDepth - 1
    BY <2>1, PlusOne, DistanceCases, PositionInt
  <2>. QED
    BY <2>1, <1>1, <1>2
<1>4. Distance(h, Plus(a, 1)) = Distance(h, a) + 1
  BY <1>3, DistanceStep
<1>. QED
  BY <1>1, <1>2, <1>4 DEF InOrder

(* The last of them goes one step, short of the head. *)
LEMMA OrderLast ==
    ASSUME NEW h \in Position, NEW a \in Position, NEW b \in Position,
           NEW c \in Position, InOrder(h, a, b, c), Plus(c, 1) # h
    PROVE  InOrder(h, a, b, Plus(c, 1)) /\ Plus(c, 1) # a
<1>1. Distance(h, a) \in Nat /\ Distance(h, b) \in Nat /\ Distance(h, c) \in Nat
  BY DistanceCases
<1>2. Distance(h, Plus(c, 1)) = Distance(h, c) + 1
  BY DistanceStep
<1>. QED
  BY <1>1, <1>2 DEF InOrder

(* A head on the way to the device is as good as the current one. *)
LEMMA OrderedLater ==
    ASSUME TypeInv, NEW h \in Position, Ordered(h), NEW g \in Position, Distance(h, g) <= Distance(h, dev_head)
    PROVE  /\ Ordered(g)
           /\ Plus(sq_tail, 1) # h => Plus(sq_tail, 1) # g
<1>1. /\ dev_head \in Position /\ doorbell \in Position /\ sq_tail \in Position /\ sub.first \in Position
  BY DEF TypeInv, RingType, SendType, SubType
<1>2. InOrder(g, dev_head, doorbell, sq_tail)
  BY <1>1, OrderLater DEF Ordered
<1>3. ASSUME NEW t \in Senders, pc[t] \in Submitting \cup {"ring"}
      PROVE  InOrder(g, doorbell, sub.first, sq_tail)
  <2>1. InOrder(h, doorbell, sub.first, sq_tail)
    BY <1>3 DEF Ordered
  <2>2. Distance(h, g) <= Distance(h, doorbell)
    BY <1>1, DistanceCases DEF Ordered, InOrder
  <2>. QED
    BY <1>1, <2>1, <2>2, OrderLater
<1>4. ASSUME Plus(sq_tail, 1) # h PROVE Plus(sq_tail, 1) # g
  <2>1. Distance(h, Plus(sq_tail, 1)) = Distance(h, sq_tail) + 1
    BY <1>1, <1>4, DistanceStep
  <2>2. Distance(h, g) <= Distance(h, sq_tail)
    BY <1>1, DistanceCases DEF Ordered, InOrder
  <2>. QED
    BY <1>1, <2>1, <2>2, DistanceCases
<1>. QED
  BY <1>2, <1>3, <1>4 DEF Ordered

(* Initially the ring is empty. *)
LEMMA InitRing == Init => RingInv
<1>. SUFFICES ASSUME Init PROVE RingInv
  OBVIOUS
<1>1. Distance(0, 0) = 0 /\ Plus(0, 1) # 0
  BY DistanceSame, PlusOne, SqAssumption DEF SqAssumption, Position
<1>2. HeadInv
  BY <1>1 DEF Init, HeadInv, Ordered, InOrder, Submitting
<1>3. CqeInv
  BY <1>1 DEF Init, CqeInv
<1>. QED
  BY <1>2, <1>3 DEF RingInv

(* At most one sender is inside the semaphore. *)
LEMMA Alone ==
    ASSUME TypeInv, NEW t \in Senders, pc[t] \in Submitting \cup {"ring", "up"}, NEW u \in Senders, u # t
    PROVE  pc[u] \notin Submitting \cup {"ring", "up"}
  BY DEF TypeInv, SendInv

ringState == <<hw, sq_head, sq_tail, doorbell, dev_head, lost>>

(* A sender goes on inside the semaphore, or leaves it without a doorbell. *)
LEMMA SenderMoves ==
    ASSUME TypeInv, HeadInv, NEW t \in Senders, NEW l, pc' = [pc EXCEPT ![t] = l], pc[t] \in Submitting,
           l \in {"check", "query", "wait", "write", "up"}, l = "query" => hw, l = "write" => ~IsFull,
           sub'.first = sub.first, UNCHANGED ringState
    PROVE  HeadInv'
<1>1. pc \in [Senders -> Places]
  BY DEF TypeInv, SendType
<1>2. \A u \in Senders : pc'[u] = IF u = t THEN l ELSE pc[u]
  BY <1>1
<1>3. \A u \in Senders : u # t => pc'[u] \notin Submitting \cup {"ring", "up"}
  BY <1>2, Alone
<1>. QED
  BY <1>2, <1>3 DEF HeadInv, Ordered, InOrder, IsFull, Submitting, ringState

(* A sender outside the semaphore, before and after its step. *)
LEMMA OutsiderMoves ==
    ASSUME TypeInv, HeadInv, NEW t \in Senders, NEW l, pc' = [pc EXCEPT ![t] = l],
           l \notin Submitting \cup {"ring"}, sub' = sub \/ (sem' = Nobody /\ SendInv'), UNCHANGED ringState
    PROVE  HeadInv'
<1>1. pc \in [Senders -> Places]
  BY DEF TypeInv, SendType
<1>2. \A u \in Senders : pc'[u] = IF u = t THEN l ELSE pc[u]
  BY <1>1
<1>3. CASE sub' = sub
  BY <1>2, <1>3 DEF HeadInv, Ordered, InOrder, IsFull, Submitting, ringState
<1>4. CASE sem' = Nobody /\ SendInv'
  <2>1. \A u \in Senders : pc'[u] \notin Submitting \cup {"ring", "up"}
    BY <1>4, SqAssumption DEF SendInv, SqAssumption
  <2>. QED
    BY <2>1 DEF HeadInv, Ordered, InOrder, IsFull, Submitting, ringState
<1>. QED
  BY <1>3, <1>4

(* What FoundFull does with the place and the submission of a sender. *)
LEMMA FoundFullMoves ==
    ASSUME TypeInv, HeadInv, NEW t \in Senders, FoundFull(t), pc[t] \in Submitting, UNCHANGED ringState
    PROVE  HeadInv'
<1>. DEFINE l == IF sub.again THEN "check" ELSE IF sub.timeout = 0 THEN "up" ELSE "wait"
<1>1. pc' = [pc EXCEPT ![t] = l]
  BY DEF FoundFull, Countdown, Goto
<1>2. sub'.first = sub.first
  BY DEF FoundFull, Countdown, TypeInv, SendType, SubType
<1>3. l \in {"check", "wait", "up"}
  OBVIOUS
<1>. HIDE DEF l
<1>. QED
  BY <1>1, <1>2, <1>3, SenderMoves

(* Heads, doorbell and tail keep their order: entering and leaving a send, *)
LEMMA HeadStepSend ==
    ASSUME TypeInv, RingInv, TypeInv', NEW t \in Senders,
           Send(t) \/ SemDown(t) \/ SemFails(t) \/ SemUp(t) \/ Put(t)
    PROVE  HeadInv'
<1>. USE DEF RingInv, ringVars, devVars, ringState, Goto
<1>1. CASE Send(t)
  <2>. DEFINE l == IF status = 0 THEN "put" ELSE "sem"
  <2>1. pc' = [pc EXCEPT ![t] = l] /\ l \notin Submitting \cup {"ring"}
    BY <1>1 DEF Send, Submitting
  <2>. HIDE DEF l
  <2>. QED
    BY <1>1, <2>1, OutsiderMoves DEF Send
<1>2. CASE SemDown(t)
  <2>1. sub'.first = sq_tail /\ sub'.head = 0
    BY <1>2 DEF SemDown, NoSub
  <2>2. \A u \in Senders : pc'[u] = IF u = t THEN "check" ELSE pc[u]
    BY <1>2 DEF SemDown, TypeInv, SendType
  <2>3. \A u \in Senders : u # t => pc'[u] \notin Submitting \cup {"ring"}
    BY <1>2, <2>2 DEF SemDown, TypeInv, SendInv
  <2>4. InOrder(sq_head, doorbell, sq_tail, sq_tail)
    BY DistanceCases DEF TypeInv, RingType, HeadInv, Ordered, InOrder
  <2>5. UNCHANGED ringState
    BY <1>2 DEF SemDown
  <2>6. Ordered(sq_head)'
    BY <2>1, <2>4, <2>5 DEF HeadInv, Ordered
  <2>. QED
    BY <2>2, <2>3, <2>5, <2>6 DEF HeadInv, Submitting
<1>3. CASE SemFails(t)
  BY <1>3, OutsiderMoves DEF SemFails, Submitting
<1>4. CASE SemUp(t)
  BY <1>4, OutsiderMoves DEF SemUp, Submitting, TypeInv
<1>5. CASE Put(t)
  BY <1>5, OutsiderMoves DEF Put, Submitting
<1>. QED
  BY <1>1, <1>2, <1>3, <1>4, <1>5

(* looking for room, *)
LEMMA HeadStepFull ==
    ASSUME TypeInv, RingInv, NEW t \in Senders,
           CheckFull(t) \/ QueryHead(t) \/ QueryFails(t) \/ StoreHead(t) \/ SecondLook(t)
    PROVE  HeadInv'
<1>. USE DEF RingInv, ringVars, devVars, ringState, Goto
<1>0. /\ pc \in [Senders -> Places]
      /\ sq_head \in Position /\ dev_head \in Position /\ sub.head \in Position
  BY DEF TypeInv, SendType, RingType, SubType
<1>1. CASE CheckFull(t)
  <2>1. CASE IsFull /\ ~hw /\ FoundFull(t)
    BY <1>1, <2>1, FoundFullMoves DEF CheckFull, Submitting
  <2>2. CASE ~IsFull /\ Goto(t, "write") /\ UNCHANGED sub
    BY <1>1, <2>2, SenderMoves DEF CheckFull, Submitting
  <2>3. CASE IsFull /\ hw /\ Goto(t, "query") /\ UNCHANGED sub
    BY <1>1, <2>3, SenderMoves DEF CheckFull, Submitting
  <2>. QED
    BY <1>1, <2>1, <2>2, <2>3 DEF CheckFull
<1>2. CASE QueryFails(t)
  BY <1>2, FoundFullMoves DEF QueryFails, Submitting
<1>3. CASE SecondLook(t)
  <2>1. CASE FoundFull(t)
    BY <1>3, <2>1, FoundFullMoves DEF SecondLook, Submitting
  <2>2. CASE ~IsFull /\ Goto(t, "write") /\ UNCHANGED sub
    BY <1>3, <2>2, SenderMoves DEF SecondLook, Submitting
  <2>. QED
    BY <1>3, <2>1, <2>2 DEF SecondLook
<1>4. CASE QueryHead(t)
  <2>1. sub'.first = sub.first /\ sub'.head = dev_head
    BY <1>4 DEF QueryHead, TypeInv, SendType, SubType
  <2>2. \A u \in Senders : pc'[u] = IF u = t THEN "store" ELSE pc[u]
    BY <1>4, <1>0 DEF QueryHead
  <2>3. \A u \in Senders : u # t => pc'[u] \notin Submitting \cup {"ring", "up"}
    BY <1>4, <2>2, Alone DEF QueryHead, Submitting
  <2>4. Ordered(dev_head)
    <3>1. Distance(sq_head, dev_head) \in Nat
      BY <1>0, DistanceCases
    <3>2. Distance(sq_head, dev_head) <= Distance(sq_head, dev_head)
      BY <3>1
    <3>. QED
      BY <1>0, <3>2, OrderedLater DEF HeadInv
  <2>5. pc[t] \in Submitting /\ hw
    BY <1>4 DEF QueryHead, HeadInv, Submitting
  <2>6. Ordered(sq_head)'
    BY <1>4, <2>1, <2>3, <2>5 DEF QueryHead, Ordered, InOrder, HeadInv
  <2>7. Ordered(sub.head)'
    BY <1>4, <2>1, <2>3, <2>4, <2>5 DEF QueryHead, Ordered, InOrder
  <2>. QED
    BY <1>4, <2>2, <2>3, <2>5, <2>6, <2>7 DEF QueryHead, HeadInv, Submitting
<1>5. CASE StoreHead(t)
  <2>1. sub'.first = sub.first
    BY <1>5 DEF StoreHead, TypeInv, SendType, SubType
  <2>2. \A u \in Senders : pc'[u] = IF u = t THEN "second" ELSE pc[u]
    BY <1>5, <1>0 DEF StoreHead
  <2>3. \A u \in Senders : u # t => pc'[u] \notin Submitting \cup {"ring", "up"}
    BY <1>5, <2>2, Alone DEF StoreHead, Submitting
  <2>4. Ordered(sub.head) /\ pc[t] \in Submitting /\ hw
    BY <1>5 DEF StoreHead, HeadInv, Submitting
  <2>5. Ordered(sq_head)'
    BY <1>5, <2>1, <2>3, <2>4 DEF StoreHead, Ordered, InOrder
  <2>. QED
    BY <1>5, <2>2, <2>3, <2>4, <2>5 DEF StoreHead, HeadInv, Submitting
<1>. QED
  BY <1>1, <1>2, <1>3, <1>4, <1>5

(* waiting for it, *)
LEMMA HeadStepWait ==
    ASSUME TypeInv, RingInv, NEW t \in Senders, Woken(t) \/ WaitExpires(t) \/ WaitSignalled(t)
    PROVE  HeadInv'
<1>1. sub'.first = sub.first
  BY DEF Woken, WaitExpires, WaitSignalled, Countdown, TypeInv, SendType, SubType
<1>2. PICK l \in {"check", "up"} : pc' = [pc EXCEPT ![t] = l]
  BY DEF Woken, WaitExpires, WaitSignalled, Countdown, Goto
<1>3. pc[t] \in Submitting /\ UNCHANGED ringState
  BY DEF Woken, WaitExpires, WaitSignalled, Submitting, ringState, ringVars, devVars
<1>. QED
  BY <1>1, <1>2, <1>3, SenderMoves DEF RingInv

(* copying SQEs and ringing the doorbell, *)
LEMMA HeadStepWrite ==
    ASSUME TypeInv, RingInv, NEW t \in Senders, Write(t) \/ WriteFails(t) \/ Ring(t) \/ RingFails(t)
    PROVE  HeadInv'
<1>. USE DEF RingInv, ringVars, devVars, ringState, Goto
<1>0. /\ pc \in [Senders -> Places]
      /\ sq_head \in Position /\ sq_tail \in Position /\ dev_head \in Position
      /\ doorbell \in Position /\ sub.first \in Position
  BY DEF TypeInv, SendType, RingType, SubType
<1>1. CASE Write(t)
  <2>. DEFINE l == IF sub.left = 1 THEN "ring" ELSE "check"
  <2>1. /\ sub'.first = sub.first /\ sq_tail' = Plus(sq_tail, 1)
        /\ UNCHANGED <<hw, sq_head, doorbell, dev_head>>
        /\ lost' <=> lost \/ NoRoom
    BY <1>1 DEF Write, TypeInv, SendType, SubType
  <2>2. \A u \in Senders : pc'[u] = IF u = t THEN l ELSE pc[u]
    BY <1>1, <1>0 DEF Write
  <2>3. l \in {"ring", "check"}
    OBVIOUS
  <2>. HIDE DEF l
  <2>4. \A u \in Senders : u # t => pc'[u] \notin Submitting \cup {"ring", "up"}
    BY <1>1, <2>2, Alone DEF Write, Submitting
  <2>5. pc[t] \in Submitting /\ Plus(sq_tail, 1) # sq_head
    BY <1>1 DEF Write, HeadInv, Submitting, IsFull
  <2>6. /\ InOrder(sq_head, dev_head, doorbell, Plus(sq_tail, 1)) /\ Plus(sq_tail, 1) # dev_head
        /\ InOrder(sq_head, doorbell, sub.first, Plus(sq_tail, 1))
    BY <1>0, <2>5, OrderLast DEF HeadInv, Ordered
  <2>7. Ordered(sq_head)'
    BY <2>1, <2>6 DEF Ordered
  <2>8. ~lost'
    BY <2>1, <2>6 DEF HeadInv, NoRoom
  <2>. QED
    BY <2>2, <2>3, <2>4, <2>7, <2>8 DEF HeadInv, Submitting
<1>2. CASE WriteFails(t)
  <2>1. PICK l \in {"up"} : pc' = [pc EXCEPT ![t] = l]
    BY <1>2 DEF WriteFails
  <2>2. pc[t] \in Submitting /\ sub' = sub /\ UNCHANGED ringState
    BY <1>2 DEF WriteFails, Submitting
  <2>. QED
    BY <2>1, <2>2, SenderMoves
<1>3. ASSUME pc[t] = "ring", pc' = [pc EXCEPT ![t] = "up"], InOrder(sq_head, dev_head, doorbell', sq_tail'),
             UNCHANGED <<hw, sq_head, dev_head, lost>>
      PROVE  HeadInv'
  <2>1. \A u \in Senders : pc'[u] = IF u = t THEN "up" ELSE pc[u]
    BY <1>3, <1>0
  <2>2. \A u \in Senders : pc'[u] \notin Submitting \cup {"ring"}
    BY <1>3, <2>1, Alone DEF Submitting
  <2>3. Ordered(sq_head)'
    BY <1>3, <2>2 DEF Ordered
  <2>. QED
    BY <1>3, <2>2, <2>3 DEF HeadInv, Submitting
<1>4. CASE Ring(t)
  <2>1. InOrder(sq_head, dev_head, sq_tail, sq_tail)
    BY <1>0, DistanceCases DEF HeadInv, Ordered, InOrder
  <2>. QED
    BY <1>4, <1>3, <2>1 DEF Ring
<1>5. CASE RingFails(t)
  <2>1. InOrder(sq_head, dev_head, doorbell, sub.first)
    BY <1>5 DEF RingFails, HeadInv, Ordered, InOrder
  <2>. QED
    BY <1>5, <1>3, <2>1 DEF RingFails
<1>. QED
  BY <1>1, <1>2, <1>4, <1>5

(* A dispatcher stores a head on the way to the device, unless it was passed. *)
LEMMA StoredHead ==
    ASSUME TypeInv, RingInv, NEW d \in Dispatchers, disp[d].pc = "store"
    PROVE  /\ disp[d].val \in Position /\ cqes # <<>> /\ Head(cqes) = cqes[1] /\ Len(cqes) \in Nat \ {0}
           /\ Passed(disp[d].val) \/ Distance(sq_head, disp[d].val) <= Distance(sq_head, dev_head)
           /\ ~hw => Distance(sq_head, disp[d].val) = 1 /\ ~Passed(disp[d].val)
<1>1. /\ disp[d].val \in Position /\ cqes # <<>> /\ cqes \in Seq(Position)
      /\ sq_head \in Position /\ dev_head \in Position
  BY DEF TypeInv, RingType, DispInv
<1>2. Head(cqes) = cqes[1] /\ Len(cqes) \in Nat \ {0} /\ 1 \in 1 .. Len(cqes)
  BY <1>1
<1>3. /\ Distance(disp[d].val, dev_head) \in Nat /\ Distance(sq_head, dev_head) \in Nat
      /\ Distance(sq_head, disp[d].val) \in Nat
  BY <1>1, DistanceCases
<1>4. Passed(disp[d].val) <=> ~(Distance(sq_head, disp[d].val) <= Distance(sq_head, dev_head))
  BY <1>1, <1>3, NotPassed DEF Passed
<1>5. ASSUME ~hw
      PROVE  Distance(sq_head, disp[d].val) = 1 /\ Distance(sq_head, disp[d].val) <= Distance(sq_head, dev_head)
  BY <1>1, <1>2, <1>5 DEF RingInv, CqeInv
<1>. QED
  BY <1>1, <1>2, <1>4, <1>5

(* storing the head of a CQE, *)
LEMMA HeadStepDispatch ==
    ASSUME TypeInv, RingInv, NEW d \in Dispatchers, DispatchStore(d), ~Passed(disp[d].val)
    PROVE  HeadInv'
<1>. DEFINE g == disp[d].val
<1>1. sq_head' = g /\ UNCHANGED <<hw, sq_tail, doorbell, lost, dev_head, pc, sub>>
  BY DEF DispatchStore, sendVars
<1>2. g \in Position /\ Distance(sq_head, g) <= Distance(sq_head, dev_head) /\ sq_head \in Position
  BY StoredHead DEF DispatchStore, TypeInv, RingType
<1>. HIDE DEF g
<1>3. Ordered(g) /\ (Plus(sq_tail, 1) # sq_head => Plus(sq_tail, 1) # g)
  BY <1>2, OrderedLater DEF RingInv, HeadInv
<1>4. Ordered(sq_head)'
  BY <1>1, <1>3 DEF Ordered
<1>5. \A t \in Senders : pc'[t] = "store" => Ordered(sub.head)'
  BY <1>1 DEF Ordered, RingInv, HeadInv
<1>. QED
  BY <1>1, <1>3, <1>4, <1>5 DEF RingInv, HeadInv, IsFull

(* and executing an SQE, which puts the device one further ahead. *)
LEMMA HeadStepExecute ==
    ASSUME TypeInv, RingInv, Execute
    PROVE  HeadInv' /\ Distance(sq_head, dev_head') = Distance(sq_head, dev_head) + 1
<1>1. /\ dev_head' = Plus(dev_head, 1) /\ dev_head # doorbell
      /\ UNCHANGED <<hw, sq_head, sq_tail, doorbell, lost, pc, sub>>
  BY DEF Execute, ringVars, sendVars
<1>2. /\ sq_head \in Position /\ sq_tail \in Position /\ dev_head \in Position
      /\ doorbell \in Position /\ sub.head \in Position
  BY DEF TypeInv, SendType, RingType, SubType
<1>3. /\ InOrder(sq_head, Plus(dev_head, 1), doorbell, sq_tail)
      /\ Distance(sq_head, Plus(dev_head, 1)) = Distance(sq_head, dev_head) + 1
  BY <1>1, <1>2, OrderFirst DEF RingInv, HeadInv, Ordered
<1>4. Ordered(sq_head)'
  BY <1>1, <1>3 DEF RingInv, HeadInv, Ordered
<1>5. ASSUME NEW t \in Senders, pc'[t] = "store" PROVE Ordered(sub.head)'
  <2>1. Ordered(sub.head)
    BY <1>1, <1>5 DEF RingInv, HeadInv
  <2>2. InOrder(sub.head, Plus(dev_head, 1), doorbell, sq_tail)
    BY <1>1, <1>2, <2>1, OrderFirst DEF Ordered
  <2>. QED
    BY <1>1, <2>1, <2>2 DEF Ordered
<1>. QED
  BY <1>1, <1>3, <1>4, <1>5 DEF RingInv, HeadInv, IsFull

(* Every step keeps that order. *)
LEMMA HeadStep ==
    ASSUME TypeInv, RingInv, TypeInv', [Next]_vars, ~overtaken'
    PROVE  HeadInv'
<1>1. CASE Interrupt \/ DispatchLater \/ SetStatus
  BY <1>1 DEF Interrupt, DispatchLater, SetStatus, ringVars, devVars, sendVars, RingInv, HeadInv,
              Ordered, InOrder, IsFull
<1>2. CASE Destroy \/ SqUninit \/ DelFromIrqList \/ CancelWork
  BY <1>2 DEF Destroy, SqUninit, DelFromIrqList, CancelWork, ringVars, devVars, sendVars, RingInv,
              HeadInv, Ordered, InOrder, IsFull
<1>3. ASSUME NEW d \in Dispatchers, Dispatch(d) \/ Take(d) \/ DispatchEmpty(d) \/ DispatchEnd(d)
      PROVE  HeadInv'
  <2>1. UNCHANGED <<hw, sq_head, sq_tail, doorbell, dev_head, lost, pc, sub>>
    BY <1>3 DEF Dispatch, Take, DispatchEmpty, DispatchEnd, ringVars, devVars, sendVars
  <2>. QED
    BY <2>1 DEF RingInv, HeadInv, Ordered, InOrder, IsFull
<1>4. ASSUME NEW d \in Dispatchers, DispatchStore(d) PROVE HeadInv'
  <2>1. ~Passed(disp[d].val)
    BY <1>4 DEF DispatchStore
  <2>. QED
    BY <1>4, <2>1, HeadStepDispatch
<1>5. CASE UNCHANGED vars
  BY <1>5 DEF vars, ringVars, devVars, sendVars, RingInv, HeadInv, Ordered, InOrder, IsFull
<1>. QED
  BY <1>1, <1>2, <1>3, <1>4, <1>5, NextCases, HeadStepSend, HeadStepFull, HeadStepWait,
     HeadStepWrite, HeadStepExecute

(* A stored head leaves the others on their way behind it. *)
LEMMA CqeStepStore ==
    ASSUME TypeInv, RingInv, NEW d \in Dispatchers, DispatchStore(d)
    PROVE  CqeInv'
<1>. SUFFICES ASSUME ~hw PROVE CqeInv'
  BY DEF DispatchStore, CqeInv
<1>1. /\ sq_head' = disp[d].val /\ cqes' = Tail(cqes) /\ UNCHANGED <<hw, dev_head>>
      /\ disp[d].pc = "store"
  BY DEF DispatchStore
<1>2. \A e \in Dispatchers : disp'[e].pc # "store"
  <2>1. PICK l \in {"loop", "end"} : disp' = [disp EXCEPT ![d] = [pc |-> l, val |-> 0]]
    BY DEF DispatchStore, At
  <2>2. \A e \in Dispatchers : e # d => disp[e].pc = "idle"
    BY <1>1 DEF TypeInv, DispInv
  <2>. QED
    BY <2>1, <2>2 DEF TypeInv, RingType
<1>3. cqes \in Seq(Position) /\ sq_head \in Position /\ dev_head \in Position
  BY DEF TypeInv, RingType
<1>4. disp[d].val \in Position /\ cqes # <<>> /\ Len(cqes) \in Nat \ {0}
  BY <1>1, StoredHead
<1>5. Len(cqes') = Len(cqes) - 1 /\ \A k \in 1 .. Len(cqes') : cqes'[k] = cqes[k + 1] /\ k + 1 \in 1 .. Len(cqes)
  BY <1>1, <1>3, <1>4
<1>6. Distance(sq_head, disp[d].val) = 1 /\ Distance(sq_head, dev_head) = Len(cqes)
  BY <1>1, StoredHead DEF RingInv, CqeInv
<1>7. Distance(disp[d].val, dev_head) = Len(cqes) - 1
  BY <1>3, <1>4, <1>6, DistanceFrom
<1>8. ASSUME NEW k \in 1 .. Len(cqes') PROVE Distance(disp[d].val, cqes'[k]) = k
  <2>1. Distance(sq_head, cqes[k + 1]) = k + 1 /\ cqes[k + 1] \in Position
    BY <1>3, <1>5 DEF RingInv, CqeInv
  <2>2. k \in Nat /\ Distance(sq_head, disp[d].val) <= Distance(sq_head, cqes[k + 1])
    BY <1>5, <1>6, <2>1
  <2>3. Distance(disp[d].val, cqes[k + 1]) = k + 1 - 1
    BY <1>3, <1>4, <1>6, <2>1, <2>2, DistanceFrom
  <2>. QED
    BY <1>5, <2>2, <2>3
<1>. QED
  BY <1>1, <1>2, <1>5, <1>7, <1>8 DEF CqeInv

(* A new CQE reports the head of the device, behind those on their way. *)
LEMMA CqeStepExecute ==
    ASSUME TypeInv, RingInv, Execute
    PROVE  CqeInv'
<1>1. cqes' = Append(cqes, dev_head') /\ UNCHANGED <<hw, sq_head, disp>>
  BY DEF Execute, ringVars
<1>. SUFFICES ASSUME ~hw PROVE CqeInv'
  BY <1>1 DEF CqeInv
<1>2. cqes \in Seq(Position) /\ dev_head' \in Position /\ Len(cqes) \in Nat
  BY PlusOne DEF TypeInv, RingType, Execute
<1>3. /\ Len(cqes') = Len(cqes) + 1 /\ cqes'[Len(cqes) + 1] = dev_head'
      /\ \A k \in 1 .. Len(cqes) : cqes'[k] = cqes[k]
  BY <1>1, <1>2
<1>4. Distance(sq_head, dev_head') = Len(cqes) + 1
  BY HeadStepExecute DEF RingInv, CqeInv
<1>5. ASSUME NEW k \in 1 .. Len(cqes') PROVE Distance(sq_head, cqes'[k]) = k
  BY <1>2, <1>3, <1>4 DEF RingInv, CqeInv
<1>6. ASSUME NEW d \in Dispatchers, disp'[d].pc = "store" PROVE disp'[d].val = Head(cqes')
  <2>1. cqes # <<>> /\ disp[d].val = Head(cqes)
    BY <1>1, <1>6 DEF RingInv, CqeInv, TypeInv, DispInv
  <2>2. Head(cqes') = Head(cqes)
    BY <1>1, <1>2, <2>1
  <2>. QED
    BY <1>1, <2>1, <2>2
<1>. QED
  BY <1>1, <1>3, <1>4, <1>5, <1>6 DEF CqeInv

(* Every step keeps the heads on their way in order. *)
LEMMA CqeStep ==
    ASSUME TypeInv, RingInv, [Next]_vars
    PROVE  CqeInv'
<1>1. ASSUME UNCHANGED <<hw, sq_head, dev_head, cqes, disp>> PROVE CqeInv'
  BY <1>1 DEF RingInv, CqeInv
<1>. USE DEF ringVars, devVars, dispVars
<1>2. ASSUME NEW t \in Senders, StoreHead(t) PROVE CqeInv'
  BY <1>2 DEF StoreHead, RingInv, HeadInv, CqeInv
<1>3. ASSUME NEW d \in Dispatchers, Take(d) PROVE CqeInv'
  <2>1. PICK h \in IF hw THEN {dev_head, Head(cqes)} ELSE {Head(cqes)} :
           disp' = [disp EXCEPT ![d] = [pc |-> "store", val |-> h]]
    BY <1>3, TakeFacts
  <2>2. ~hw => h = Head(cqes)
    BY <2>1
  <2>3. \A e \in Dispatchers : e # d => disp[e].pc = "idle"
    BY <1>3 DEF Take, TypeInv, DispInv
  <2>4. \A e \in Dispatchers : disp'[e].pc = "store" => disp'[e].val = h
    BY <2>1, <2>3 DEF TypeInv, RingType
  <2>. QED
    BY <1>3, <2>2, <2>4 DEF Take, RingInv, CqeInv
<1>4. ASSUME NEW t \in Senders, Send(t) \/ SemDown(t) \/ SemFails(t) \/ SemUp(t) \/ Put(t)
      PROVE  CqeInv'
  BY <1>1, <1>4 DEF Send, SemDown, SemFails, SemUp, Put
<1>5. ASSUME NEW t \in Senders, CheckFull(t) \/ QueryHead(t) \/ QueryFails(t) \/ SecondLook(t)
      PROVE  CqeInv'
  BY <1>1, <1>5 DEF CheckFull, QueryHead, QueryFails, SecondLook
<1>6. ASSUME NEW t \in Senders, Woken(t) \/ WaitExpires(t) \/ WaitSignalled(t)
      PROVE  CqeInv'
  BY <1>1, <1>6 DEF Woken, WaitExpires, WaitSignalled
<1>7. ASSUME NEW t \in Senders, Write(t) \/ WriteFails(t) \/ Ring(t) \/ RingFails(t)
      PROVE  CqeInv'
  BY <1>1, <1>7 DEF Write, WriteFails, Ring, RingFails
<1>8. CASE Interrupt \/ DispatchLater \/ SetStatus
  BY <1>1, <1>8 DEF Interrupt, DispatchLater, SetStatus
<1>9. CASE Destroy \/ SqUninit \/ DelFromIrqList \/ CancelWork
  BY <1>1, <1>9 DEF Destroy, SqUninit, DelFromIrqList, CancelWork
<1>10. ASSUME NEW d \in Dispatchers, Dispatch(d) \/ DispatchEmpty(d) \/ DispatchEnd(d)
       PROVE  CqeInv'
  <2>1. \A e \in Dispatchers : disp'[e].pc = "store" => disp'[e] = disp[e]
    BY <1>10, RoundFacts DEF TypeInv, RingType
  <2>2. UNCHANGED <<hw, sq_head, dev_head, cqes>>
    BY <1>10 DEF Dispatch, DispatchEmpty, DispatchEnd
  <2>. QED
    BY <2>1, <2>2 DEF RingInv, CqeInv
<1>11. CASE UNCHANGED vars
  BY <1>1, <1>11 DEF vars
<1>. QED
  BY <1>2, <1>3, <1>4, <1>5, <1>6, <1>7, <1>8, <1>9, <1>10, <1>11, NextCases, CqeStepStore, CqeStepExecute

(* The type of a channel does not change, and the first head that is stored   *)
(* although it was passed is stored on a channel that is asked.               *)
LEMMA OvertakenStep ==
    ASSUME TypeInv, UntilOvertaken, [Next]_vars
    PROVE  (overtaken' => hw') /\ (overtaken => overtaken')
<1>. USE DEF UntilOvertaken, ringVars, devVars
<1>1. ASSUME NEW d \in Dispatchers, DispatchStore(d) PROVE (overtaken' => hw') /\ (overtaken => overtaken')
  <2>1. ~overtaken /\ ~hw => ~Passed(disp[d].val)
    BY <1>1, StoredHead DEF DispatchStore
  <2>. QED
    BY <1>1, <2>1 DEF DispatchStore
<1>2. ASSUME UNCHANGED <<overtaken, hw>> PROVE (overtaken' => hw') /\ (overtaken => overtaken')
  BY <1>2
<1>3. CASE \E t \in Senders : Send(t) \/ SemDown(t) \/ SemFails(t) \/ SemUp(t) \/ Put(t)
  BY <1>2, <1>3 DEF Send, SemDown, SemFails, SemUp, Put
<1>4. CASE \E t \in Senders : CheckFull(t) \/ QueryHead(t) \/ QueryFails(t) \/ StoreHead(t) \/ SecondLook(t)
  BY <1>2, <1>4 DEF CheckFull, QueryHead, QueryFails, StoreHead, SecondLook
<1>5. CASE \E t \in Senders : Woken(t) \/ WaitExpires(t) \/ WaitSignalled(t)
  BY <1>2, <1>5 DEF Woken, WaitExpires, WaitSignalled
<1>6. CASE \E t \in Senders : Write(t) \/ WriteFails(t) \/ Ring(t) \/ RingFails(t)
  BY <1>2, <1>6 DEF Write, WriteFails, Ring, RingFails
<1>7. CASE \E d \in Dispatchers : Dispatch(d) \/ Take(d) \/ DispatchEmpty(d) \/ DispatchEnd(d)
  BY <1>2, <1>7 DEF Dispatch, Take, DispatchEmpty, DispatchEnd
<1>8. CASE Interrupt \/ DispatchLater \/ Execute \/ SetStatus
  BY <1>2, <1>8 DEF Interrupt, DispatchLater, Execute, SetStatus
<1>9. CASE Destroy \/ SqUninit \/ DelFromIrqList \/ CancelWork
  BY <1>2, <1>9 DEF Destroy, SqUninit, DelFromIrqList, CancelWork
<1>10. CASE UNCHANGED vars
  BY <1>2, <1>10 DEF vars
<1>. QED
  BY <1>1, <1>3, <1>4, <1>5, <1>6, <1>7, <1>8, <1>9, <1>10, NextCases

(* The order of the ring holds until then. *)
LEMMA RingAlways == Spec => [](TypeInv /\ UntilOvertaken)
<1>1. Init => TypeInv /\ UntilOvertaken
  <2>1. Init => ~overtaken
    BY DEF Init
  <2>. QED
    BY <2>1, InitType, InitRing DEF UntilOvertaken
<1>2. TypeInv /\ UntilOvertaken /\ [Next]_vars => (TypeInv /\ UntilOvertaken)'
  <2>. SUFFICES ASSUME TypeInv, UntilOvertaken, [Next]_vars PROVE TypeInv' /\ UntilOvertaken'
    OBVIOUS
  <2>1. TypeInv'
    BY TypeStep
  <2>2. (overtaken' => hw') /\ (overtaken => overtaken')
    BY OvertakenStep
  <2>3. ASSUME ~overtaken' PROVE RingInv'
    <3>1. RingInv
      BY <2>2, <2>3 DEF UntilOvertaken
    <3>. QED
      BY <2>1, <2>3, <3>1, HeadStep, CqeStep DEF RingInv
  <2>. QED
    BY <2>1, <2>2, <2>3 DEF UntilOvertaken
<1>. QED
  BY <1>1, <1>2, PTL DEF Spec

(* Where the device stands, the doorbell is not past the tail; seen from      *)
(* there, sq_head is not past the device.                                     *)
LEMMA RingImplies == TypeInv /\ UntilOvertaken => SubmittedIntact /\ HeadIsPast
<1>. SUFFICES ASSUME TypeInv, UntilOvertaken PROVE SubmittedIntact /\ HeadIsPast
  OBVIOUS
<1>1. CASE overtaken
  BY <1>1 DEF UntilOvertaken, SubmittedIntact, HeadIsPast
<1>2. CASE ~overtaken
  <2>1. /\ sq_head \in Position /\ sq_tail \in Position /\ dev_head \in Position /\ doorbell \in Position
    BY DEF TypeInv, RingType
  <2>2. /\ InOrder(sq_head, dev_head, doorbell, sq_tail) /\ ~lost
        /\ Distance(sq_head, dev_head) \in Nat /\ Distance(sq_head, doorbell) \in Nat
        /\ Distance(sq_head, sq_tail) \in Nat
    BY <1>2, <2>1, DistanceCases DEF UntilOvertaken, RingInv, HeadInv, Ordered
  <2>3. /\ Distance(dev_head, doorbell) = Distance(sq_head, doorbell) - Distance(sq_head, dev_head)
        /\ Distance(dev_head, sq_tail) = Distance(sq_head, sq_tail) - Distance(sq_head, dev_head)
    BY <2>1, <2>2, DistanceFrom DEF InOrder
  <2>. QED
    BY <1>2, <2>2, <2>3 DEF SubmittedIntact, HeadIsPast, InOrder
<1>. QED
  BY <1>1, <1>2

(* trs_chan_submit never copies an SQE over one the device has still to       *)
(* execute and never takes the tail back behind a doorbell, until a           *)
(* dispatcher stores a head that sq_head had passed: for any depth of the     *)
(* ring, any number of senders and any number of CQEs outstanding, however    *)
(* queries, stores of sq_head and dispatchers interleave.                     *)
THEOREM SubmitSafe == Spec => []SubmittedIntact
  BY RingAlways, RingImplies, PTL

(* sq_head never overtakes the device and never falls back behind the tail,   *)
(* although senders and dispatchers store it without a common lock, until a   *)
(* dispatcher stores a head that was passed; on a channel whose device is not *)
(* asked (trs_chan_update_sq_head_from_hw) that never happens.                *)
THEOREM HeadLags == Spec => []HeadIsPast
  BY RingAlways, RingImplies, PTL
=============================================================================
