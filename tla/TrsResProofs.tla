----------------------------- MODULE TrsResProofs -----------------------------
(***************************************************************************)
(* Proofs about TrsRes, for any number of processes, threads, ids,         *)
(* contexts and shares.                                                    *)
(***************************************************************************)
EXTENDS TrsRes, TLAPS, FiniteSetTheorems

(* The disjuncts of Next. *)
LEMMA NextCases ==
    ASSUME Next
    PROVE  \/ \E t \in Threads : OpenWait(t) \/ OpenCreate(t)
           \/ \E t \in Threads, c \in proc_list, i \in Ids :
                 AllocId(t, c, i) \/ FreeRes(t, c, i) \/ ShareFind(t, c, i)
           \/ \E t \in Threads : MapNotice(t) \/ AddRes(t) \/ AddCount(t)
           \/ \E t \in Threads : DelCount(t) \/ PutRes(t) \/ UnmapNotice(t) \/ FreeId(t)
           \/ \E t \in Threads : ShareGet(t)
           \/ \E t \in Threads, i \in Ids : SharePut(t, i)
           \/ \E t \in Threads, c \in proc_list : Release(t, c)
           \/ \E t \in Threads : ReleaseCheck(t) \/ ReleaseNext(t) \/ ReleaseDone(t)
  BY DEF Next, Call, Step

(* A context is a record of a pid and a task id, and is not the mark for none. *)
LEMMA ContextFacts ==
    /\ \A c \in Contexts : c.pid \in Pids /\ c.task \in Tasks /\ c # NoCtx
    /\ \A t \in Threads : PidOf[t] \in Pids
    /\ NoPid \notin Pids
    /\ NoId \notin Ids
    /\ 0 \in Tasks
    /\ \A k \in Tasks : k \in Nat /\ (k < MaxTask => k + 1 \in Tasks)
  BY ResAssumption, ContextAssumption DEF ResAssumption, ContextAssumption, Contexts, Tasks

TypeInv == ControlTypeOK /\ CallShape

(* An entry has its four fields, and what is done to an entry gives one. *)
LEMMA EntryFacts ==
    /\ \A p \in Pids \cup {NoPid}, k \in Tasks, s \in {"NORMAL", "DEL"}, r \in Nat :
          /\ Entry(p, k, s, r) \in Entries
          /\ Entry(p, k, s, r).pid = p /\ Entry(p, k, s, r).task = k
          /\ Entry(p, k, s, r).status = s /\ Entry(p, k, s, r).ref = r
    /\ \A e \in Entries : /\ e.pid \in Pids \cup {NoPid} /\ e.task \in Tasks
                          /\ e.status \in {"NORMAL", "DEL"} /\ e.ref \in Nat
  BY DEF Entry, Entries

(* Marking an entry changes its status only. *)
LEMMA MarkFacts ==
    ASSUME NEW e \in Entries
    PROVE  LET d == Entry(e.pid, e.task, "DEL", e.ref)
           IN  /\ d \in Entries
               /\ d.pid = e.pid /\ d.task = e.task /\ d.status = "DEL" /\ d.ref = e.ref
  BY DEF Entry, Entries

(* Dropping a reference clears the owner exactly if it was the last one. *)
LEMMA DropFacts ==
    ASSUME NEW e \in Entries, e.ref # 0
    PROVE  /\ Dropped(e) \in Entries
           /\ Dropped(e).pid = IF e.ref = 1 THEN NoPid ELSE e.pid
           /\ Dropped(e).task = e.task /\ Dropped(e).status = e.status
           /\ Dropped(e).ref = e.ref - 1
<1>1. /\ e.ref \in Nat /\ e.ref - 1 \in Nat
      /\ (IF e.ref = 1 THEN NoPid ELSE e.pid) \in Pids \cup {NoPid}
      /\ e.task \in Tasks /\ e.status \in {"NORMAL", "DEL"}
  BY EntryFacts
<1>. QED
  BY <1>1 DEF Dropped, Entry, Entries

(* Initially every variable has its type. *)
LEMMA InitType == Init => TypeInv
<1>. SUFFICES ASSUME Init PROVE TypeInv
  OBVIOUS
<1>1. ids \in [Ids -> Entries]
  <2>1. Entry(NoPid, 0, "NORMAL", 0) \in Entries
    BY ContextFacts DEF Entry, Entries
  <2>. QED
    BY <2>1 DEF Init
<1>2. /\ use_num \in Int
      /\ proc_list \subseteq Contexts /\ exit_list \subseteq Contexts /\ exiting \subseteq Contexts
      /\ cur_task_id \in Tasks
      /\ current_id_num \in [Tasks -> Int]
      /\ pool \in [Ids -> Nat]
      /\ shares \in [Ids -> Nat]
  BY ContextFacts DEF Init
<1>3. mapped \in [Ids -> BOOLEAN]
  BY DEF Init
<1>4. /\ pc \in [Threads -> Pcs]
      /\ ctx \in [Threads -> Contexts \cup {NoCtx}]
      /\ rid \in [Threads -> Ids \cup {NoId}]
      /\ CallShape
  BY DEF Init, Pcs, CallShape
<1>. QED
  BY <1>1, <1>2, <1>3, <1>4 DEF TypeInv, ControlTypeOK

(* Where the threads are, as far as the type invariant goes. *)
PlaceOK ==
    /\ pc \in [Threads -> Pcs]
    /\ ctx \in [Threads -> Contexts \cup {NoCtx}]
    /\ rid \in [Threads -> Ids \cup {NoId}]
    /\ CallShape

(* A thread that leaves a call, or goes on with the next id of a context that *)
(* is being released, keeps the shape of the calls.                           *)
LEMMA ReturnShape ==
    ASSUME TypeInv, NEW t \in Threads, FreeReturns(t) \/ Leave(t)
    PROVE  PlaceOK'
<1>1. CASE Leave(t)
  BY <1>1 DEF TypeInv, ControlTypeOK, PlaceOK, CallShape, Leave, Enter, Pcs
<1>2. CASE ctx[t] \in exiting /\ Goto(t, "r_next")
  BY <1>2 DEF TypeInv, ControlTypeOK, PlaceOK, CallShape, Goto, Pcs
<1>. QED
  BY <1>1, <1>2 DEF FreeReturns

(* Every step keeps the types and the shape of the calls. *)
LEMMA TypeStep == TypeInv /\ [Next]_vars => TypeInv'
<1>. SUFFICES ASSUME TypeInv, [Next]_vars PROVE TypeInv'
  OBVIOUS
<1>. USE DEF TypeInv, ControlTypeOK, CallShape, Pcs, Enter, Goto, Leave, FreeReturns,
             tableVars, procVars
<1>1. ASSUME NEW t \in Threads, OpenWait(t) PROVE TypeInv'
  BY <1>1 DEF OpenWait
<1>2. ASSUME NEW t \in Threads, OpenCreate(t) PROVE TypeInv'
  <2>1. [pid |-> PidOf[t], task |-> cur_task_id] \in Contexts
    BY ContextFacts DEF Contexts
  <2>2. cur_task_id' \in Tasks
    BY <1>2, ContextFacts DEF OpenCreate
  <2>3. proc_list' \subseteq Contexts
    BY <1>2, <2>1 DEF OpenCreate
  <2>. QED
    BY <1>2, <2>2, <2>3 DEF OpenCreate
<1>3. ASSUME NEW t \in Threads, NEW c \in proc_list, NEW i \in Ids,
             AllocId(t, c, i) PROVE TypeInv'
  BY <1>3 DEF AllocId, CanCall
<1>4. ASSUME NEW t \in Threads, NEW c \in proc_list, NEW i \in Ids,
             FreeRes(t, c, i) PROVE TypeInv'
  <2>1. Entry(ids[i].pid, ids[i].task, "DEL", ids[i].ref) \in Entries
    BY MarkFacts
  <2>2. ids' \in [Ids -> Entries]
    BY <1>4, <2>1 DEF FreeRes, MarkDeleted
  <2>. QED
    BY <1>4, <2>2 DEF FreeRes, CanCall
<1>5. ASSUME NEW t \in Threads, NEW c \in proc_list, NEW i \in Ids,
             ShareFind(t, c, i) PROVE TypeInv'
  BY <1>5 DEF ShareFind
<1>6. ASSUME NEW t \in Threads, MapNotice(t) PROVE TypeInv'
  <2>1. mapped' \in [Ids -> BOOLEAN]
    BY <1>6, Zenon DEF MapNotice
  <2>. QED
    BY <1>6, <2>1 DEF MapNotice
<1>7. ASSUME NEW t \in Threads, AddRes(t) PROVE TypeInv'
  <2>1. rid[t] \in Ids /\ ctx[t] \in Contexts
    BY <1>7 DEF AddRes
  <2>2. Entry(ctx[t].pid, ctx[t].task, "NORMAL", 1) \in Entries
    BY <2>1, ContextFacts, EntryFacts
  <2>3. ids' \in [Ids -> Entries] /\ use_num' \in Int
    BY <1>7, <2>1, <2>2 DEF AddRes
  <2>. QED
    BY <1>7, <2>3 DEF AddRes
<1>8. ASSUME NEW t \in Threads, AddCount(t) PROVE TypeInv'
  <2>1. ctx[t].task \in Tasks
    BY <1>8, ContextFacts DEF AddCount
  <2>2. current_id_num' \in [Tasks -> Int]
    BY <1>8, <2>1 DEF AddCount
  <2>. QED
    BY <1>8, <2>2, ReturnShape DEF AddCount, PlaceOK
<1>9. ASSUME NEW t \in Threads, DelCount(t) PROVE TypeInv'
  <2>1. ctx[t].task \in Tasks
    BY <1>9, ContextFacts DEF DelCount
  <2>2. current_id_num' \in [Tasks -> Int]
    BY <1>9, <2>1 DEF DelCount
  <2>. QED
    BY <1>9, <2>2 DEF DelCount
<1>10. ASSUME NEW t \in Threads, PutRes(t) PROVE TypeInv'
  <2>1. rid[t] \in Ids
    BY <1>10 DEF PutRes
  <2>2. ids' \in [Ids -> Entries]
    BY <1>10, <2>1, DropFacts DEF PutRes
  <2>3. PlaceOK'
    <3>1. CASE Goto(t, "unmap")
      BY <1>10, <3>1 DEF PutRes, PlaceOK
    <3>. QED
      BY <1>10, <3>1, ReturnShape DEF PutRes
  <2>4. use_num' \in Int
    BY <1>10 DEF PutRes
  <2>. QED
    BY <1>10, <2>2, <2>3, <2>4 DEF PutRes, PlaceOK
<1>11. ASSUME NEW t \in Threads, UnmapNotice(t) PROVE TypeInv'
  <2>1. mapped' \in [Ids -> BOOLEAN]
    BY <1>11, Zenon DEF UnmapNotice
  <2>. QED
    BY <1>11, <2>1 DEF UnmapNotice
<1>12. ASSUME NEW t \in Threads, FreeId(t) PROVE TypeInv'
  <2>1. pool' \in [Ids -> Nat]
    BY <1>12 DEF FreeId
  <2>. QED
    BY <1>12, <2>1, ReturnShape DEF FreeId, PlaceOK
<1>18. ASSUME NEW t \in Threads, ShareGet(t) PROVE TypeInv'
  <2>1. rid[t] \in Ids
    BY <1>18 DEF ShareGet
  <2>2. ids[rid[t]] \in Entries
    BY <2>1
  <2>3. Entry(ids[rid[t]].pid, ids[rid[t]].task, ids[rid[t]].status, ids[rid[t]].ref + 1) \in Entries
    BY <2>2 DEF Entry, Entries
  <2>4. /\ ids' \in [Ids -> Entries]
        /\ shares' \in [Ids -> Nat]
    BY <1>18, <2>1, <2>3 DEF ShareGet
  <2>. QED
    BY <1>18, <2>4, ReturnShape DEF ShareGet, PlaceOK
<1>13. ASSUME NEW t \in Threads, NEW i \in Ids, SharePut(t, i) PROVE TypeInv'
  BY <1>13 DEF SharePut
<1>14. ASSUME NEW t \in Threads, NEW c \in proc_list, Release(t, c) PROVE TypeInv'
  BY <1>14 DEF Release
<1>15. ASSUME NEW t \in Threads, ReleaseCheck(t) \/ ReleaseDone(t) PROVE TypeInv'
  BY <1>15 DEF ReleaseCheck, ReleaseDone
<1>16. ASSUME NEW t \in Threads, ReleaseNext(t) PROVE TypeInv'
  <2>1. CASE ids' = ids /\ Enter(t, "r_done", ctx[t], NoId)
    BY <1>16, <2>1 DEF ReleaseNext
  <2>2. ASSUME NEW i \in Ids, MarkDeleted(i), Enter(t, "d_count", ctx[t], i) PROVE TypeInv'
    <3>1. Entry(ids[i].pid, ids[i].task, "DEL", ids[i].ref) \in Entries
      BY MarkFacts
    <3>2. ids' \in [Ids -> Entries]
      BY <2>2, <3>1 DEF MarkDeleted
    <3>. QED
      BY <1>16, <2>2, <3>2 DEF ReleaseNext
  <2>. QED
    <3>. HIDE DEF TypeInv, Enter
    <3>. QED
      BY <1>16, <2>1, <2>2 DEF ReleaseNext
<1>17. CASE UNCHANGED vars
  BY <1>17 DEF vars
<1>. QED
  BY <1>1, <1>2, <1>3, <1>4, <1>5, <1>6, <1>7, <1>8, <1>9, <1>10, <1>11, <1>12, <1>13,
     <1>14, <1>15, <1>16, <1>17, <1>18, NextCases

-----------------------------------------------------------------------------
(* Where the ids are. *)

SafeInv == RefInv /\ IdConserved /\ OwnedIsMapped /\ AddMapped

(* A step that touches neither owners nor references, neither the free list   *)
(* nor the task scheduler, and after which the same threads carry the same    *)
(* ids.                                                                       *)
Frame ==
    /\ \A j \in Ids : ids'[j].pid = ids[j].pid /\ ids'[j].ref = ids[j].ref
    /\ UNCHANGED <<pool, mapped>>
    /\ \A s \in Threads :
          /\ pc'[s] \in {"a_map", "a_add", "unmap", "free"} <=> pc[s] \in {"a_map", "a_add", "unmap", "free"}
          /\ pc[s] \in {"a_map", "a_add", "unmap", "free"} => rid'[s] = rid[s]
          /\ pc'[s] = "a_add" => pc[s] = "a_add"

(* Such a step keeps the invariant. *)
LEMMA FrameSafe == SafeInv /\ Frame => SafeInv'
<1>. SUFFICES ASSUME SafeInv, Frame PROVE SafeInv'
  OBVIOUS
<1>1. \A j \in Ids : Owned(j)' <=> Owned(j)
  BY DEF Frame, Owned
<1>2. \A s \in Threads, j \in Ids : Carries(s, j)' <=> Carries(s, j)
  BY DEF Frame, Carries
<1>3. RefInv'
  BY <1>1 DEF SafeInv, RefInv, Frame
<1>4. IdConserved'
  BY <1>1, <1>2 DEF SafeInv, IdConserved, Frame
<1>5. OwnedIsMapped'
  BY <1>1 DEF SafeInv, OwnedIsMapped, Frame
<1>6. AddMapped'
  BY DEF SafeInv, AddMapped, Frame
<1>. QED
  BY <1>3, <1>4, <1>5, <1>6 DEF SafeInv

(* Marking an id as deleted leaves its owner and its references. *)
LEMMA MarkKeeps ==
    ASSUME TypeInv, NEW i \in Ids, MarkDeleted(i)
    PROVE  \A j \in Ids : /\ ids'[j].pid = ids[j].pid /\ ids'[j].ref = ids[j].ref
                          /\ ids'[j].task = ids[j].task
                          /\ ids'[j].status = IF j = i THEN "DEL" ELSE ids[j].status
<1>1. ids \in [Ids -> Entries]
  BY DEF TypeInv, ControlTypeOK
<1>2. ids' = [ids EXCEPT ![i] = Entry(ids[i].pid, ids[i].task, "DEL", ids[i].ref)]
  BY DEF MarkDeleted
<1>. QED
  BY <1>1, <1>2, MarkFacts

(* The calls that begin, end or count without moving an id. *)
LEMMA QuietSafe ==
    ASSUME TypeInv, SafeInv, NEW t \in Threads,
           \/ OpenWait(t) \/ OpenCreate(t) \/ AddCount(t) \/ DelCount(t)
           \/ ReleaseCheck(t) \/ ReleaseNext(t) \/ ReleaseDone(t)
           \/ \E i \in Ids : SharePut(t, i)
           \/ \E c \in proc_list : Release(t, c)
           \/ \E c \in proc_list, i \in Ids : FreeRes(t, c, i) \/ ShareFind(t, c, i)
    PROVE  SafeInv'
<1>. USE DEF TypeInv, ControlTypeOK, Enter, Goto, Leave, tableVars, procVars
<1>1. CASE \/ OpenWait(t) \/ OpenCreate(t) \/ AddCount(t) \/ DelCount(t)
           \/ ReleaseCheck(t) \/ ReleaseDone(t)
  <2>1. Frame
    BY <1>1 DEF Frame, OpenWait, OpenCreate, AddCount, DelCount, ReleaseCheck, ReleaseDone
  <2>. QED
    BY <2>1, FrameSafe
<1>2. ASSUME NEW i \in Ids, SharePut(t, i) PROVE SafeInv'
  <2>1. Frame
    BY <1>2 DEF Frame, SharePut
  <2>. QED
    BY <2>1, FrameSafe
<1>3. ASSUME NEW c \in proc_list, Release(t, c) PROVE SafeInv'
  <2>1. Frame
    BY <1>3 DEF Frame, Release, CanCall
  <2>. QED
    BY <2>1, FrameSafe
<1>4. ASSUME NEW c \in proc_list, NEW i \in Ids, ShareFind(t, c, i) PROVE SafeInv'
  <2>1. Frame
    BY <1>4 DEF Frame, ShareFind
  <2>. QED
    BY <2>1, FrameSafe
<1>5. ASSUME NEW c \in proc_list, NEW i \in Ids, FreeRes(t, c, i) PROVE SafeInv'
  <2>1. \A j \in Ids : ids'[j].pid = ids[j].pid /\ ids'[j].ref = ids[j].ref
    BY <1>5, MarkKeeps DEF FreeRes
  <2>2. Frame
    BY <1>5, <2>1 DEF Frame, FreeRes, CanCall
  <2>. QED
    BY <2>2, FrameSafe
<1>6. CASE ReleaseNext(t)
  <2>1. CASE ids' = ids /\ Enter(t, "r_done", ctx[t], NoId)
    <3>1. Frame
      BY <1>6, <2>1 DEF Frame, ReleaseNext
    <3>. QED
      BY <3>1, FrameSafe
  <2>2. ASSUME NEW i \in Ids, MarkDeleted(i), Enter(t, "d_count", ctx[t], i) PROVE SafeInv'
    <3>1. \A j \in Ids : ids'[j].pid = ids[j].pid /\ ids'[j].ref = ids[j].ref
      BY <2>2, MarkKeeps
    <3>2. Frame
      BY <1>6, <2>2, <3>1 DEF Frame, ReleaseNext
    <3>. QED
      BY <3>2, FrameSafe
  <2>. QED
    <3>. HIDE DEF Enter, TypeInv
    <3>. QED
      BY <1>6, <2>1, <2>2 DEF ReleaseNext
<1>. QED
  BY <1>1, <1>2, <1>3, <1>4, <1>5, <1>6

(* Taking an id off the free list: the thread carries it. *)
LEMMA AllocSafe ==
    ASSUME TypeInv, SafeInv, NEW t \in Threads, NEW c \in proc_list, NEW i \in Ids,
           AllocId(t, c, i)
    PROVE  SafeInv'
<1>. USE DEF TypeInv, ControlTypeOK, Enter, AllocId, CanCall, tableVars
<1>1. \A j \in Ids : Owned(j)' <=> Owned(j)
  BY DEF Owned
<1>2. \A s \in Threads, j \in Ids : Carries(s, j)' <=> Carries(s, j) \/ (s = t /\ j = i)
  BY DEF Carries
<1>3. pool[i] = 1 /\ pool' = [pool EXCEPT ![i] = 0]
  <2>1. pool[i] > 0 /\ pool[i] \in {0, 1}
    BY DEF SafeInv, IdConserved
  <2>2. pool[i] = 1 /\ pool[i] - 1 = 0
    BY <2>1
  <2>3. pool' = [pool EXCEPT ![i] = pool[i] - 1]
    OBVIOUS
  <2>. QED
    BY <2>2, <2>3
<1>4. RefInv'
  BY <1>1 DEF SafeInv, RefInv
<1>5. IdConserved'
  BY <1>1, <1>2, <1>3 DEF SafeInv, IdConserved
<1>6. OwnedIsMapped' /\ AddMapped'
  BY <1>1 DEF SafeInv, OwnedIsMapped, AddMapped
<1>. QED
  BY <1>4, <1>5, <1>6 DEF SafeInv

(* A notice changes what the task scheduler knows of an id that one thread    *)
(* carries and nobody owns.                                                   *)
LEMMA NoticeSafe ==
    ASSUME TypeInv, SafeInv, NEW t \in Threads, MapNotice(t) \/ UnmapNotice(t)
    PROVE  SafeInv'
<1>. USE DEF TypeInv, ControlTypeOK, Goto, tableVars
<1>1. rid[t] \in Ids /\ Carries(t, rid[t])
  BY DEF CallShape, MapNotice, UnmapNotice, Carries
<1>2. /\ \A j \in Ids : Owned(j)' <=> Owned(j)
      /\ UNCHANGED <<ids, pool>>
  BY DEF Owned, MapNotice, UnmapNotice
<1>3. \A s \in Threads, j \in Ids : Carries(s, j)' <=> Carries(s, j)
  BY DEF Carries, MapNotice, UnmapNotice
<1>4. /\ \A j \in Ids : j # rid[t] => mapped'[j] = mapped[j]
      /\ pc'[t] = "a_add" => mapped'[rid[t]]
      /\ rid' = rid /\ \A s \in Threads : s # t => pc'[s] = pc[s]
  <2>1. CASE mapped' = [mapped EXCEPT ![rid[t]] = TRUE] /\ Goto(t, "a_add")
    BY <2>1, <1>1
  <2>2. ASSUME NEW m \in BOOLEAN, mapped' = [mapped EXCEPT ![rid[t]] = m], Goto(t, "free")
        PROVE  /\ \A j \in Ids : j # rid[t] => mapped'[j] = mapped[j]
               /\ pc'[t] = "a_add" => mapped'[rid[t]]
               /\ rid' = rid /\ \A s \in Threads : s # t => pc'[s] = pc[s]
    BY <2>2
  <2>. QED
    BY <2>1, <2>2, <1>1 DEF MapNotice, UnmapNotice
<1>5. RefInv'
  BY <1>2 DEF SafeInv, RefInv
<1>6. IdConserved'
  BY <1>2, <1>3 DEF SafeInv, IdConserved
<1>7. OwnedIsMapped'
  BY <1>1, <1>2, <1>4 DEF SafeInv, OwnedIsMapped, IdConserved
<1>8. AddMapped'
  <2>. SUFFICES ASSUME NEW s \in Threads, pc'[s] = "a_add" PROVE mapped'[rid'[s]]
    BY DEF AddMapped
  <2>1. CASE s = t
    BY <2>1, <1>4
  <2>2. CASE s # t
    <3>1. pc[s] = "a_add" /\ rid[s] \in Ids /\ Carries(s, rid[s])
      BY <2>2, <1>4 DEF CallShape, Carries
    <3>2. rid[s] # rid[t]
      BY <2>2, <3>1, <1>1 DEF SafeInv, IdConserved, Carries
    <3>. QED
      BY <3>1, <3>2, <1>4 DEF SafeInv, AddMapped
  <2>. QED
    BY <2>1, <2>2
<1>. QED
  BY <1>5, <1>6, <1>7, <1>8 DEF SafeInv

(* Entering an id in the table: the thread that carried it lets go. *)
LEMMA AddSafe ==
    ASSUME TypeInv, SafeInv, NEW t \in Threads, AddRes(t)
    PROVE  /\ SafeInv'
           /\ \A j \in Ids : Owned(j)' <=> Owned(j) \/ j = rid[t]
           /\ rid[t] \in Ids /\ ~Owned(rid[t])
           /\ use_num' = use_num + 1
<1>. DEFINE i == rid[t]
            e == Entry(ctx[t].pid, ctx[t].task, "NORMAL", 1)
<1>1. i \in Ids /\ ctx[t] \in Contexts /\ Carries(t, i) /\ pc[t] = "a_add"
  BY DEF TypeInv, CallShape, AddRes, Carries
<1>2. ~Owned(i) /\ pool[i] = 0 /\ mapped[i]
  BY <1>1 DEF SafeInv, IdConserved, AddMapped
<1>3. /\ ids' = [ids EXCEPT ![i] = e] /\ use_num' = use_num + 1 /\ Goto(t, "a_count")
      /\ UNCHANGED <<pool, mapped>>
  BY <1>2 DEF AddRes, Owned
<1>4. e.pid \in Pids /\ e.pid # NoPid /\ e.ref = 1
  BY <1>1, ContextFacts DEF Entry
<1>5. ids \in [Ids -> Entries] /\ pc \in [Threads -> Pcs]
  BY DEF TypeInv, ControlTypeOK
<1>6. \A j \in Ids : ids'[j] = IF j = i THEN e ELSE ids[j]
  BY <1>1, <1>3, <1>5
<1>7. \A j \in Ids : Owned(j)' <=> Owned(j) \/ j = i
  BY <1>4, <1>6 DEF Owned
<1>8. \A s \in Threads, j \in Ids : Carries(s, j)' <=> Carries(s, j) /\ s # t
  BY <1>1, <1>3, <1>5 DEF Carries, Goto
<1>. HIDE DEF e
<1>9. RefInv'
  BY <1>4, <1>6, <1>7 DEF SafeInv, RefInv
<1>10. IdConserved'
  BY <1>1, <1>2, <1>3, <1>7, <1>8 DEF SafeInv, IdConserved, Carries
<1>11. OwnedIsMapped'
  BY <1>2, <1>3, <1>7 DEF SafeInv, OwnedIsMapped
<1>12. AddMapped'
  BY <1>3, <1>5 DEF SafeInv, AddMapped, Goto
<1>. QED
  BY <1>1, <1>2, <1>3, <1>7, <1>9, <1>10, <1>11, <1>12 DEF SafeInv

(* Dropping a reference: with the last one the thread carries the id. *)
LEMMA PutSafe ==
    ASSUME TypeInv, SafeInv, NEW t \in Threads, PutRes(t)
    PROVE  /\ SafeInv'
           /\ rid[t] \in Ids
           /\ \/ (\A j \in Ids : Owned(j)' <=> Owned(j)) /\ use_num' = use_num
              \/ /\ Owned(rid[t]) /\ use_num' = use_num - 1
                 /\ \A j \in Ids : Owned(j)' <=> Owned(j) /\ j # rid[t]
<1>. DEFINE i == rid[t]
<1>1. i \in Ids /\ pc[t] = "put"
  BY DEF TypeInv, CallShape, PutRes
<1>2. /\ ids \in [Ids -> Entries] /\ pc \in [Threads -> Pcs]
      /\ ctx \in [Threads -> Contexts \cup {NoCtx}] /\ rid \in [Threads -> Ids \cup {NoId}]
  BY DEF TypeInv, ControlTypeOK
<1>3. UNCHANGED <<pool, mapped>>
  BY DEF PutRes
<1>4. ids[i] \in Entries /\ ids[i].ref \in Nat
  BY <1>1, <1>2, EntryFacts
<1>5. CASE ids[i].ref = 0
  <2>1. FreeReturns(t) /\ UNCHANGED <<ids, use_num>>
    BY <1>5 DEF PutRes, tableVars
  <2>2. Frame
    BY <1>1, <1>2, <1>3, <2>1 DEF Frame, FreeReturns, Leave, Enter, Goto
  <2>3. \A j \in Ids : Owned(j)' <=> Owned(j)
    BY <2>1 DEF Owned
  <2>. QED
    BY <1>1, <2>1, <2>2, <2>3, FrameSafe
<1>6. CASE ids[i].ref > 1
  <2>1. /\ ids' = [ids EXCEPT ![i] = Dropped(ids[i])]
        /\ FreeReturns(t) /\ use_num' = use_num
    BY <1>6 DEF PutRes
  <2>2. \A j \in Ids : /\ ids'[j].pid = ids[j].pid
                       /\ ids'[j].ref = IF j = i THEN ids[j].ref - 1 ELSE ids[j].ref
    BY <1>1, <1>2, <1>4, <1>6, <2>1, DropFacts
  <2>3. \A j \in Ids : Owned(j)' <=> Owned(j)
    BY <2>2 DEF Owned
  <2>4. \A s \in Threads :
        IF s = t THEN pc'[s] \in {"idle", "r_next"} ELSE pc'[s] = pc[s] /\ rid'[s] = rid[s]
    BY <1>2, <2>1 DEF FreeReturns, Leave, Enter, Goto
  <2>5. \A s \in Threads, j \in Ids : Carries(s, j)' <=> Carries(s, j)
    BY <1>1, <2>4 DEF Carries
  <2>6. RefInv'
    <3>1. \A j \in Ids : ids[j].ref \in Nat
      BY <1>2, EntryFacts
    <3>. QED
      BY <1>1, <1>6, <2>2, <2>3, <3>1 DEF SafeInv, RefInv
  <2>7. IdConserved'
    BY <1>3, <2>3, <2>5 DEF SafeInv, IdConserved
  <2>8. OwnedIsMapped' /\ AddMapped'
    BY <1>3, <2>3, <2>4 DEF SafeInv, OwnedIsMapped, AddMapped
  <2>. QED
    BY <1>1, <2>1, <2>3, <2>6, <2>7, <2>8 DEF SafeInv
<1>7. CASE ids[i].ref = 1
  <2>1. /\ ids' = [ids EXCEPT ![i] = Dropped(ids[i])]
        /\ Goto(t, "unmap") /\ use_num' = use_num - 1
    BY <1>7 DEF PutRes
  <2>2. \A j \in Ids : j # i => ids'[j] = ids[j]
    BY <1>1, <1>2, <2>1
  <2>3. ids'[i].pid = NoPid /\ ids'[i].ref = 0
    BY <1>1, <1>2, <1>4, <1>7, <2>1, DropFacts
  <2>4. Owned(i) /\ \A j \in Ids : Owned(j)' <=> Owned(j) /\ j # i
    BY <1>1, <1>7, <2>2, <2>3 DEF SafeInv, RefInv, Owned
  <2>5. \A s \in Threads, j \in Ids : Carries(s, j)' <=> Carries(s, j) \/ (s = t /\ j = i)
    BY <1>1, <1>2, <2>1 DEF Carries, Goto
  <2>6. RefInv'
    BY <1>1, <2>2, <2>3, <2>4 DEF SafeInv, RefInv
  <2>7. IdConserved'
    BY <1>1, <1>3, <2>4, <2>5 DEF SafeInv, IdConserved
  <2>8. OwnedIsMapped' /\ AddMapped'
    BY <1>2, <1>3, <2>1, <2>4 DEF SafeInv, OwnedIsMapped, AddMapped, Goto
  <2>. QED
    BY <1>1, <2>1, <2>4, <2>6, <2>7, <2>8 DEF SafeInv
<1>. QED
  BY <1>4, <1>5, <1>6, <1>7

(* The id goes back to the free list. *)
LEMMA FreeIdSafe ==
    ASSUME TypeInv, SafeInv, NEW t \in Threads, FreeId(t)
    PROVE  SafeInv'
<1>. DEFINE i == rid[t]
<1>1. i \in Ids /\ pc[t] = "free" /\ Carries(t, i)
  BY DEF TypeInv, CallShape, FreeId, Carries
<1>2. ~Owned(i) /\ pool[i] = 0
  BY <1>1 DEF SafeInv, IdConserved
<1>3. /\ pool \in [Ids -> Nat] /\ pc \in [Threads -> Pcs]
      /\ ctx \in [Threads -> Contexts \cup {NoCtx}] /\ rid \in [Threads -> Ids \cup {NoId}]
  BY DEF TypeInv, ControlTypeOK
<1>4. /\ pool' = [pool EXCEPT ![i] = 1] /\ UNCHANGED <<ids, mapped>>
      /\ FreeReturns(t)
  BY <1>1, <1>2, <1>3 DEF FreeId, tableVars
<1>5. \A s \in Threads :
        IF s = t THEN pc'[s] \in {"idle", "r_next"} ELSE pc'[s] = pc[s] /\ rid'[s] = rid[s]
  BY <1>3, <1>4 DEF FreeReturns, Leave, Enter, Goto
<1>6. \A s \in Threads, j \in Ids : Carries(s, j)' <=> Carries(s, j) /\ s # t
  BY <1>1, <1>5 DEF Carries
<1>7. \A j \in Ids : Owned(j)' <=> Owned(j)
  BY <1>4 DEF Owned
<1>8. RefInv' /\ OwnedIsMapped' /\ AddMapped'
  BY <1>4, <1>5, <1>7 DEF SafeInv, RefInv, OwnedIsMapped, AddMapped
<1>9. IdConserved'
  BY <1>1, <1>2, <1>3, <1>4, <1>6, <1>7 DEF SafeInv, IdConserved, Carries
<1>. QED
  BY <1>8, <1>9 DEF SafeInv

(* A share takes a reference of an id that has an owner. *)
LEMMA ShareGetSafe ==
    ASSUME TypeInv, SafeInv, NEW t \in Threads, ShareGet(t)
    PROVE  SafeInv' /\ \A j \in Ids : Owned(j)' <=> Owned(j)
<1>. DEFINE i == rid[t]
<1>1. i \in Ids /\ pc[t] = "s_get" /\ ctx[t] \in Contexts
  BY DEF TypeInv, CallShape, ShareGet
<1>2. /\ ids \in [Ids -> Entries] /\ pc \in [Threads -> Pcs]
      /\ ctx \in [Threads -> Contexts \cup {NoCtx}] /\ rid \in [Threads -> Ids \cup {NoId}]
  BY DEF TypeInv, ControlTypeOK
<1>3. UNCHANGED <<pool, mapped>> /\ Leave(t)
  BY DEF ShareGet
<1>4. \A s \in Threads :
        IF s = t THEN pc'[s] = "idle" ELSE pc'[s] = pc[s] /\ rid'[s] = rid[s]
  BY <1>2, <1>3 DEF Leave, Enter
<1>5. \A j \in Ids : /\ ids'[j].pid = ids[j].pid
                     /\ ids'[j].ref = ids[j].ref \/ (Owned(j) /\ ids'[j].ref = ids[j].ref + 1)
  <2>1. CASE IsIdPidMatch(i, ctx[t])
    <3>. DEFINE e == Entry(ids[i].pid, ids[i].task, ids[i].status, ids[i].ref + 1)
    <3>1. ids' = [ids EXCEPT ![i] = e]
      BY <2>1 DEF ShareGet
    <3>2. Owned(i)
      BY <1>1, <2>1, ContextFacts DEF IsIdPidMatch, Owned
    <3>3. e.pid = ids[i].pid /\ e.ref = ids[i].ref + 1
      BY DEF Entry
    <3>4. \A j \in Ids : ids'[j] = IF j = i THEN e ELSE ids[j]
      BY <1>1, <1>2, <3>1
    <3>. HIDE DEF e
    <3>. QED
      BY <3>2, <3>3, <3>4
  <2>2. CASE ~IsIdPidMatch(i, ctx[t])
    BY <2>2 DEF ShareGet
  <2>. QED
    BY <2>1, <2>2
<1>6. \A j \in Ids : Owned(j)' <=> Owned(j)
  BY <1>5 DEF Owned
<1>7. \A s \in Threads, j \in Ids : Carries(s, j)' <=> Carries(s, j)
  BY <1>1, <1>4 DEF Carries
<1>8. \A j \in Ids : ids[j].ref \in Nat
  BY <1>2, EntryFacts
<1>9. RefInv'
  BY <1>5, <1>6, <1>8 DEF SafeInv, RefInv
<1>10. IdConserved'
  BY <1>3, <1>6, <1>7 DEF SafeInv, IdConserved
<1>11. OwnedIsMapped' /\ AddMapped'
  BY <1>3, <1>4, <1>6 DEF SafeInv, OwnedIsMapped, AddMapped
<1>. QED
  BY <1>6, <1>9, <1>10, <1>11 DEF SafeInv

(* Every step keeps the ids where they belong. *)
LEMMA SafeStep == TypeInv /\ SafeInv /\ [Next]_vars => SafeInv'
<1>. SUFFICES ASSUME TypeInv, SafeInv, [Next]_vars PROVE SafeInv'
  OBVIOUS
<1>1. CASE UNCHANGED vars
  BY <1>1, FrameSafe DEF Frame, vars, tableVars
<1>. QED
  BY <1>1, NextCases, QuietSafe, AllocSafe, NoticeSafe, AddSafe, PutSafe, FreeIdSafe,
     ShareGetSafe

(* Initially every id is on the free list. *)
LEMMA InitSafe == Init => SafeInv
<1>. SUFFICES ASSUME Init PROVE SafeInv
  OBVIOUS
<1>1. \A i \in Ids : ids[i].pid = NoPid /\ ids[i].ref = 0
  BY DEF Init, Entry
<1>2. \A i \in Ids : pool[i] = 1
  BY DEF Init
<1>3. \A t \in Threads : pc[t] = "idle"
  BY DEF Init
<1>. QED
  BY <1>1, <1>2, <1>3 DEF SafeInv, RefInv, IdConserved, OwnedIsMapped, AddMapped, Owned, Carries

-----------------------------------------------------------------------------
(* The count of ids in use. *)

Used == {i \in Ids : Owned(i)}

(* Who owns an id changes only where use_num does. *)
LEMMA UseStep ==
    ASSUME TypeInv, SafeInv, [Next]_vars
    PROVE  \/ Used' = Used /\ use_num' = use_num
           \/ \E i \in Ids : /\ ~Owned(i) /\ Used' = Used \cup {i}
                             /\ use_num' = use_num + 1
           \/ \E i \in Ids : /\ Owned(i) /\ Used' = Used \ {i}
                             /\ use_num' = use_num - 1
<1>1. ASSUME \A j \in Ids : ids'[j].pid = ids[j].pid, use_num' = use_num
      PROVE  Used' = Used /\ use_num' = use_num
  BY <1>1 DEF Used, Owned
<1>2. ASSUME NEW t \in Threads, AddRes(t)
      PROVE  ~Owned(rid[t]) /\ Used' = Used \cup {rid[t]} /\ use_num' = use_num + 1 /\ rid[t] \in Ids
  BY <1>2, AddSafe DEF Used
<1>3. ASSUME NEW t \in Threads, PutRes(t)
      PROVE  \/ Used' = Used /\ use_num' = use_num
             \/ /\ rid[t] \in Ids /\ Owned(rid[t])
                /\ Used' = Used \ {rid[t]} /\ use_num' = use_num - 1
  BY <1>3, PutSafe DEF Used
<1>4. ASSUME NEW t \in Threads, ShareGet(t) PROVE Used' = Used /\ use_num' = use_num
  BY <1>4, ShareGetSafe DEF Used, ShareGet
<1>5. ASSUME NEW t \in Threads,
             \/ OpenWait(t) \/ OpenCreate(t) \/ MapNotice(t) \/ AddCount(t) \/ DelCount(t)
             \/ UnmapNotice(t) \/ FreeId(t) \/ ReleaseCheck(t) \/ ReleaseDone(t)
             \/ \E i \in Ids : SharePut(t, i)
             \/ \E c \in proc_list : Release(t, c)
             \/ \E c \in proc_list, i \in Ids : AllocId(t, c, i) \/ ShareFind(t, c, i)
      PROVE  Used' = Used /\ use_num' = use_num
  <2>1. UNCHANGED tableVars
    BY <1>5 DEF OpenWait, OpenCreate, MapNotice, AddCount, DelCount, UnmapNotice, FreeId,
                ReleaseCheck, ReleaseDone, SharePut, Release, AllocId, ShareFind
  <2>. QED
    BY <2>1, <1>1 DEF tableVars
<1>6. ASSUME NEW t \in Threads, NEW c \in proc_list, NEW i \in Ids, FreeRes(t, c, i)
      PROVE  Used' = Used /\ use_num' = use_num
  <2>1. MarkDeleted(i) /\ use_num' = use_num
    BY <1>6 DEF FreeRes
  <2>. QED
    BY <2>1, MarkKeeps, <1>1
<1>7. ASSUME NEW t \in Threads, ReleaseNext(t) PROVE Used' = Used /\ use_num' = use_num
  <2>1. use_num' = use_num /\ (ids' = ids \/ \E i \in Ids : MarkDeleted(i))
    BY <1>7 DEF ReleaseNext
  <2>. QED
    BY <2>1, MarkKeeps, <1>1
<1>8. CASE UNCHANGED vars
  BY <1>8, <1>1 DEF vars, tableVars
<1>. QED
  BY <1>2, <1>3, <1>4, <1>5, <1>6, <1>7, <1>8, NextCases

(* use_num counts the owned ids. *)
LEMMA UseNumStep == TypeInv /\ SafeInv /\ UseNumExact /\ [Next]_vars => UseNumExact'
<1>. SUFFICES ASSUME TypeInv, SafeInv, UseNumExact, [Next]_vars PROVE UseNumExact'
  OBVIOUS
<1>1. IsFiniteSet(Used) /\ use_num = Cardinality(Used) /\ Cardinality(Used) \in Nat
  BY ResAssumption, FS_Subset, FS_CardinalityType DEF ResAssumption, UseNumExact, Used
<1>2. CASE Used' = Used /\ use_num' = use_num
  BY <1>1, <1>2 DEF UseNumExact, Used
<1>3. ASSUME NEW i \in Ids, ~Owned(i), Used' = Used \cup {i}, use_num' = use_num + 1
      PROVE  UseNumExact'
  <2>1. i \notin Used
    BY <1>3 DEF Used
  <2>2. Cardinality(Used \cup {i}) = Cardinality(Used) + 1
    BY <1>1, <2>1, FS_AddElement
  <2>. QED
    BY <1>1, <1>3, <2>2 DEF UseNumExact, Used
<1>4. ASSUME NEW i \in Ids, Owned(i), Used' = Used \ {i}, use_num' = use_num - 1
      PROVE  UseNumExact'
  <2>1. i \in Used
    BY <1>4 DEF Used
  <2>2. Cardinality(Used \ {i}) = Cardinality(Used) - 1
    BY <1>1, <2>1, FS_RemoveElement
  <2>. QED
    BY <1>1, <1>4, <2>2 DEF UseNumExact, Used
<1>. QED
  BY <1>2, <1>3, <1>4, UseStep

(* Initially nothing is in use. *)
LEMMA InitUseNum == Init => UseNumExact
<1>. SUFFICES ASSUME Init PROVE UseNumExact
  OBVIOUS
<1>1. Used = {}
  BY DEF Init, Entry, Used, Owned
<1>. QED
  BY <1>1, FS_EmptySet DEF Init, UseNumExact, Used

-----------------------------------------------------------------------------
(* Contexts. *)

(* Only trs_open enters a context, after a look at the list under the same    *)
(* lock.                                                                      *)
LEMMA ContextStep == TypeInv /\ OneContextPerPid /\ [Next]_vars => OneContextPerPid'
<1>. SUFFICES ASSUME TypeInv, OneContextPerPid, [Next]_vars PROVE OneContextPerPid'
  OBVIOUS
<1>1. ASSUME NEW t \in Threads, OpenCreate(t) PROVE OneContextPerPid'
  BY <1>1 DEF OpenCreate, ContextsOf, OneContextPerPid
<1>2. ASSUME NEW t \in Threads, ReleaseCheck(t) \/ ReleaseDone(t) PROVE OneContextPerPid'
  BY <1>2 DEF ReleaseCheck, ReleaseDone, OneContextPerPid
<1>3. CASE proc_list' = proc_list
  BY <1>3 DEF OneContextPerPid
<1>4. CASE UNCHANGED vars
  BY <1>3, <1>4 DEF vars, procVars
<1>. QED
  BY <1>1, <1>2, <1>3, <1>4, NextCases
     DEF OpenWait, AllocId, FreeRes, ShareFind, MapNotice, AddRes, AddCount, DelCount, PutRes,
         UnmapNotice, FreeId, ShareGet, SharePut, Release, ReleaseNext, procVars

-----------------------------------------------------------------------------
(* The theorems. *)

TableInv == TypeInv /\ SafeInv /\ UseNumExact

(* The table, the free list and the threads that carry ids agree. *)
THEOREM TableInvariant == Spec => []TableInv
<1>1. Init => TableInv
  BY InitType, InitSafe, InitUseNum DEF TableInv
<1>2. TableInv /\ [Next]_vars => TableInv'
  BY TypeStep, SafeStep, UseNumStep DEF TableInv
<1>. QED
  BY <1>1, <1>2, PTL DEF Spec

(* Every variable of trs_res_mng and of the contexts keeps its type, and      *)
(* use_num neither falls below zero nor exceeds the number of ids.            *)
THEOREM TypeCorrect == Spec => []TypeOK
<1>1. TableInv => TypeOK
  <2>. SUFFICES ASSUME TableInv PROVE TypeOK
    OBVIOUS
  <2>1. IsFiniteSet(Ids) /\ Used \subseteq Ids
    BY ResAssumption DEF ResAssumption, Used
  <2>2. /\ Cardinality(Used) \in Nat /\ Cardinality(Ids) \in Nat
        /\ Cardinality(Used) <= Cardinality(Ids)
    BY <2>1, FS_Subset, FS_CardinalityType
  <2>3. use_num = Cardinality(Used)
    BY DEF TableInv, UseNumExact, Used
  <2>. QED
    BY <2>2, <2>3 DEF TableInv, TypeInv, TypeOK
<1>. QED
  BY <1>1, TableInvariant, PTL

(* An id is on the free list, entered in the table or carried by one thread,  *)
(* whatever threads, processes and shares there are.                          *)
THEOREM IdsAreConserved == Spec => []IdConserved
<1>1. TableInv => IdConserved
  BY DEF TableInv, SafeInv
<1>. QED
  BY <1>1, TableInvariant, PTL

(* The task scheduler knows every id that has an owner. *)
THEOREM OwnedIdsAreMapped == Spec => []OwnedIsMapped
<1>1. TableInv => OwnedIsMapped
  BY DEF TableInv, SafeInv
<1>. QED
  BY <1>1, TableInvariant, PTL

(* use_num is the number of ids with an owner. *)
THEOREM UseNumIsExact == Spec => []UseNumExact
<1>1. TableInv => UseNumExact
  BY DEF TableInv
<1>. QED
  BY <1>1, TableInvariant, PTL

(* A pid has at most one context. *)
THEOREM ContextIsUnique == Spec => []OneContextPerPid
<1>1. Init => OneContextPerPid
  BY DEF Init, OneContextPerPid
<1>2. TableInv /\ OneContextPerPid /\ [Next]_vars => OneContextPerPid'
  BY ContextStep DEF TableInv
<1>. QED
  BY <1>1, <1>2, TableInvariant, PTL DEF Spec

-----------------------------------------------------------------------------
(* The references of an id. *)

Drop(i)   == {t \in Threads : rid[t] = i /\ pc[t] \in {"d_count", "put"}}
Keeps(i)  == IF Owned(i) /\ ids[i].status = "NORMAL" THEN 1 ELSE 0

(* The threads about to drop a reference can be counted. *)
LEMMA DropFinite ==
    \A i \in Ids : IsFiniteSet(Drop(i)) /\ Cardinality(Drop(i)) \in Nat
<1>. SUFFICES ASSUME NEW i \in Ids PROVE IsFiniteSet(Drop(i)) /\ Cardinality(Drop(i)) \in Nat
  OBVIOUS
<1>1. IsFiniteSet(Threads) /\ Drop(i) \in SUBSET Threads
  BY ResAssumption DEF ResAssumption, Drop
<1>2. IsFiniteSet(Drop(i))
  BY <1>1, FS_Subset
<1>. QED
  BY <1>2, FS_CardinalityType

(* RefsExact in terms of these two. *)
LEMMA RefsRestated ==
    RefsExact <=> \A i \in Ids : ids[i].ref = shares[i] + Cardinality(Drop(i)) + Keeps(i)
  BY DEF RefsExact, Drop, Keeps

(* A step that touches no references. *)
LEMMA RefsFrame ==
    ASSUME RefsExact, UNCHANGED <<ids, shares>>, \A i \in Ids : Drop(i)' = Drop(i)
    PROVE  RefsExact'
<1>1. \A i \in Ids : ids'[i].ref = shares'[i] + Cardinality(Drop(i)') + Keeps(i)'
  BY RefsRestated DEF Keeps, Owned
<1>. QED
  BY <1>1 DEF RefsExact, Drop, Keeps, Owned

(* Marking an id: the reference of the owner becomes the one the thread will  *)
(* drop.                                                                      *)
LEMMA RefsMark ==
    ASSUME TypeInv, RefsExact, NEW t \in Threads, NEW c \in Contexts, NEW i \in Ids,
           IsIdPidMatch(i, c), MarkDeleted(i), Enter(t, "d_count", c, i),
           pc[t] \in {"idle", "r_next"}, shares' = shares
    PROVE  RefsExact'
<1>1. Keeps(i) = 1
  BY ContextFacts DEF Keeps, IsIdPidMatch, Owned
<1>2. /\ \A j \in Ids : ids'[j].ref = ids[j].ref
      /\ Keeps(i)' = 0 /\ \A j \in Ids : j # i => Keeps(j)' = Keeps(j)
  BY MarkKeeps DEF Keeps, Owned
<1>3. pc \in [Threads -> Pcs] /\ rid \in [Threads -> Ids \cup {NoId}]
  BY DEF TypeInv, ControlTypeOK
<1>4. /\ t \notin Drop(i) /\ Drop(i)' = Drop(i) \cup {t}
      /\ \A j \in Ids : j # i => Drop(j)' = Drop(j)
  BY <1>3 DEF Drop, Enter
<1>5. Cardinality(Drop(i)') = Cardinality(Drop(i)) + 1
  BY <1>4, DropFinite, FS_AddElement
<1>6. \A j \in Ids : ids'[j].ref = shares'[j] + Cardinality(Drop(j)') + Keeps(j)'
  <2>. SUFFICES ASSUME NEW j \in Ids
                PROVE  ids'[j].ref = shares'[j] + Cardinality(Drop(j)') + Keeps(j)'
    OBVIOUS
  <2>1. ids[j].ref = shares[j] + Cardinality(Drop(j)) + Keeps(j) /\ shares[j] \in Nat
    BY RefsRestated DEF TypeInv, ControlTypeOK
  <2>2. CASE j = i
    BY <2>1, <2>2, <1>1, <1>2, <1>5, DropFinite
  <2>3. CASE j # i
    BY <2>1, <2>3, <1>2, <1>4
  <2>. QED
    BY <2>2, <2>3
<1>. QED
  BY <1>6 DEF RefsExact, Drop, Keeps

(* A put is never refused, and the last one finds the id deleted. *)
LEMMA PutFacts ==
    ASSUME TypeInv, SafeInv, RefsExact, NEW t \in Threads, PutRes(t)
    PROVE  /\ rid[t] \in Ids /\ ids[rid[t]].ref # 0
           /\ ids[rid[t]].ref = 1 => ids[rid[t]].status = "DEL" /\ shares[rid[t]] = 0
           /\ ids' = [ids EXCEPT ![rid[t]] = Dropped(ids[rid[t]])]
           /\ t \in Drop(rid[t])
<1>. DEFINE i == rid[t]
<1>1. i \in Ids /\ pc[t] = "put"
  BY DEF TypeInv, CallShape, PutRes
<1>2. t \in Drop(i)
  BY <1>1 DEF Drop
<1>3. Cardinality(Drop(i)) \in Nat /\ Cardinality(Drop(i)) # 0
  BY <1>1, <1>2, DropFinite, FS_EmptySet
<1>4. /\ ids[i].ref = shares[i] + Cardinality(Drop(i)) + Keeps(i)
      /\ shares[i] \in Nat /\ Keeps(i) \in {0, 1}
  BY <1>1, RefsRestated DEF TypeInv, ControlTypeOK, Keeps
<1>5. ids[i].ref # 0 /\ (ids[i].ref = 1 => Keeps(i) = 0 /\ shares[i] = 0)
  BY <1>3, <1>4
<1>6. ids[i].ref = 1 => ids[i].status = "DEL"
  <2>1. ids[i].status \in {"NORMAL", "DEL"}
    BY <1>1, EntryFacts DEF TypeInv, ControlTypeOK
  <2>2. ids[i].ref = 1 => Owned(i)
    BY <1>1 DEF SafeInv, RefInv
  <2>. QED
    BY <1>5, <2>1, <2>2 DEF Keeps
<1>7. ids' = [ids EXCEPT ![i] = Dropped(ids[i])]
  BY <1>5 DEF PutRes
<1>. QED
  BY <1>1, <1>2, <1>5, <1>6, <1>7

(* Dropping a reference. *)
LEMMA RefsPut ==
    ASSUME TypeInv, SafeInv, RefsExact, NEW t \in Threads, PutRes(t)
    PROVE  RefsExact'
<1>0. PICK i \in Ids : i = rid[t]
  BY PutFacts
<1>1. /\ i \in Ids /\ ids[i].ref # 0 /\ t \in Drop(i)
      /\ ids[i].ref = 1 => ids[i].status = "DEL"
      /\ ids' = [ids EXCEPT ![i] = Dropped(ids[i])]
  BY <1>0, PutFacts
<1>2. /\ ids \in [Ids -> Entries] /\ pc \in [Threads -> Pcs]
      /\ ctx \in [Threads -> Contexts \cup {NoCtx}] /\ rid \in [Threads -> Ids \cup {NoId}]
  BY DEF TypeInv, ControlTypeOK
<1>3. /\ ids'[i].ref = ids[i].ref - 1 /\ ids'[i].status = ids[i].status
      /\ ids'[i].pid = IF ids[i].ref = 1 THEN NoPid ELSE ids[i].pid
      /\ \A j \in Ids : j # i => ids'[j] = ids[j]
  BY <1>1, <1>2, DropFacts
<1>4. \A j \in Ids : Keeps(j)' = Keeps(j)
  BY <1>1, <1>3 DEF Keeps, Owned
<1>5. Goto(t, "unmap") \/ FreeReturns(t)
  BY DEF PutRes
<1>6. \A s \in Threads :
        IF s = t THEN pc'[s] \in {"idle", "r_next", "unmap"} ELSE pc'[s] = pc[s] /\ rid'[s] = rid[s]
  BY <1>2, <1>5 DEF FreeReturns, Leave, Enter, Goto
<1>7. Drop(i)' = Drop(i) \ {t} /\ \A j \in Ids : j # i => Drop(j)' = Drop(j)
  BY <1>0, <1>6 DEF Drop
<1>8. Cardinality(Drop(i)') = Cardinality(Drop(i)) - 1
  BY <1>1, <1>7, DropFinite, FS_RemoveElement
<1>9. \A j \in Ids : ids'[j].ref = shares'[j] + Cardinality(Drop(j)') + Keeps(j)'
  <2>. SUFFICES ASSUME NEW j \in Ids
                PROVE  ids'[j].ref = shares'[j] + Cardinality(Drop(j)') + Keeps(j)'
    OBVIOUS
  <2>1. /\ ids[j].ref = shares[j] + Cardinality(Drop(j)) + Keeps(j)
        /\ shares[j] \in Nat /\ Keeps(j) \in {0, 1} /\ shares' = shares
    BY RefsRestated DEF TypeInv, ControlTypeOK, Keeps, PutRes
  <2>2. CASE j = i
    BY <2>1, <2>2, <1>3, <1>4, <1>8, DropFinite
  <2>3. CASE j # i
    BY <2>1, <2>3, <1>3, <1>4, <1>7
  <2>. QED
    BY <2>2, <2>3
<1>. QED
  BY <1>9 DEF RefsExact, Drop, Keeps

(* Entering an id: nobody has a reference yet. *)
LEMMA RefsAdd ==
    ASSUME TypeInv, SafeInv, RefsExact, NEW t \in Threads, AddRes(t)
    PROVE  RefsExact'
<1>0. PICK i \in Ids : i = rid[t]
  BY AddSafe
<1>. DEFINE e == Entry(ctx[t].pid, ctx[t].task, "NORMAL", 1)
<1>1. i \in Ids /\ ctx[t] \in Contexts /\ pc[t] = "a_add" /\ ~Owned(i)
  BY <1>0, AddSafe DEF TypeInv, CallShape, AddRes
<1>2. /\ ids \in [Ids -> Entries] /\ pc \in [Threads -> Pcs]
  BY DEF TypeInv, ControlTypeOK
<1>3. ids' = [ids EXCEPT ![i] = e] /\ Goto(t, "a_count") /\ shares' = shares
  BY <1>0, <1>1 DEF AddRes, Owned
<1>4. e.pid # NoPid /\ e.ref = 1 /\ e.status = "NORMAL"
  BY <1>1, ContextFacts DEF Entry
<1>5. \A j \in Ids : ids'[j] = IF j = i THEN e ELSE ids[j]
  BY <1>1, <1>2, <1>3
<1>. HIDE DEF e
<1>6. Keeps(i)' = 1 /\ Keeps(i) = 0 /\ \A j \in Ids : j # i => Keeps(j)' = Keeps(j)
  BY <1>1, <1>4, <1>5 DEF Keeps, Owned
<1>7. \A j \in Ids : Drop(j)' = Drop(j)
  BY <1>1, <1>2, <1>3 DEF Drop, Goto
<1>8. ids[i].ref = 0
  <2>1. ids[i].ref \in Nat /\ ~(ids[i].ref > 0)
    BY <1>1, <1>2, EntryFacts DEF SafeInv, RefInv
  <2>. QED
    BY <2>1
<1>9. \A j \in Ids : ids'[j].ref = shares'[j] + Cardinality(Drop(j)') + Keeps(j)'
  <2>. SUFFICES ASSUME NEW j \in Ids
                PROVE  ids'[j].ref = shares'[j] + Cardinality(Drop(j)') + Keeps(j)'
    OBVIOUS
  <2>1. ids[j].ref = shares[j] + Cardinality(Drop(j)) + Keeps(j) /\ shares[j] \in Nat
    BY RefsRestated DEF TypeInv, ControlTypeOK
  <2>2. CASE j = i
    <3>1. Cardinality(Drop(j)) \in Nat
      BY DropFinite
    <3>. QED
      BY <3>1, <2>1, <2>2, <1>3, <1>4, <1>5, <1>6, <1>7, <1>8
  <2>3. CASE j # i
    BY <2>1, <2>3, <1>3, <1>5, <1>6, <1>7
  <2>. QED
    BY <2>2, <2>3
<1>. QED
  BY <1>9 DEF RefsExact, Drop, Keeps

(* A share takes a reference, or turns into the one a thread will drop. *)
LEMMA RefsShare ==
    ASSUME TypeInv, SafeInv, RefsExact, NEW t \in Threads,
           ShareGet(t) \/ \E i \in Ids : SharePut(t, i)
    PROVE  RefsExact'
<1>1. /\ ids \in [Ids -> Entries] /\ pc \in [Threads -> Pcs] /\ shares \in [Ids -> Nat]
      /\ ctx \in [Threads -> Contexts \cup {NoCtx}] /\ rid \in [Threads -> Ids \cup {NoId}]
  BY DEF TypeInv, ControlTypeOK
<1>2. CASE ShareGet(t)
  <2>. DEFINE i == rid[t]
              e == Entry(ids[i].pid, ids[i].task, ids[i].status, ids[i].ref + 1)
  <2>1. i \in Ids /\ pc[t] = "s_get" /\ Leave(t)
    BY <1>2 DEF TypeInv, CallShape, ShareGet
  <2>2. \A j \in Ids : Drop(j)' = Drop(j)
    BY <1>1, <2>1 DEF Drop, Leave, Enter
  <2>3. CASE UNCHANGED <<ids, shares>>
    BY <2>2, <2>3, RefsFrame
  <2>4. CASE ids' = [ids EXCEPT ![i] = e] /\ shares' = [shares EXCEPT ![i] = shares[i] + 1]
    <3>1. e.pid = ids[i].pid /\ e.status = ids[i].status /\ e.ref = ids[i].ref + 1
      BY DEF Entry
    <3>2. \A j \in Ids : ids'[j] = IF j = i THEN e ELSE ids[j]
      BY <1>1, <2>1, <2>4
    <3>3. \A j \in Ids : shares'[j] = IF j = i THEN shares[j] + 1 ELSE shares[j]
      BY <1>1, <2>1, <2>4
    <3>. HIDE DEF e
    <3>4. \A j \in Ids : Keeps(j)' = Keeps(j)
      BY <3>1, <3>2 DEF Keeps, Owned
    <3>5. \A j \in Ids : ids'[j].ref = shares'[j] + Cardinality(Drop(j)') + Keeps(j)'
      <4>. SUFFICES ASSUME NEW j \in Ids
                    PROVE  ids'[j].ref = shares'[j] + Cardinality(Drop(j)') + Keeps(j)'
        OBVIOUS
      <4>1. /\ ids[j].ref = shares[j] + Cardinality(Drop(j)) + Keeps(j)
            /\ shares[j] \in Nat /\ Keeps(j) \in {0, 1} /\ Cardinality(Drop(j)) \in Nat
        BY <1>1, RefsRestated, DropFinite DEF Keeps
      <4>2. CASE j = i
        BY <4>1, <4>2, <3>1, <3>2, <3>3, <3>4, <2>2
      <4>3. CASE j # i
        BY <4>1, <4>3, <3>2, <3>3, <3>4, <2>2
      <4>. QED
        BY <4>2, <4>3
    <3>. QED
      BY <3>5 DEF RefsExact, Drop, Keeps
  <2>. QED
    BY <1>2, <2>3, <2>4 DEF ShareGet
<1>3. ASSUME NEW i \in Ids, SharePut(t, i) PROVE RefsExact'
  <2>1. /\ pc[t] = "idle" /\ shares[i] > 0 /\ shares' = [shares EXCEPT ![i] = shares[i] - 1]
        /\ Enter(t, "put", NoCtx, i) /\ ids' = ids
    BY <1>3 DEF SharePut, tableVars
  <2>2. /\ t \notin Drop(i) /\ Drop(i)' = Drop(i) \cup {t}
        /\ \A j \in Ids : j # i => Drop(j)' = Drop(j)
    BY <1>1, <2>1 DEF Drop, Enter
  <2>3. Cardinality(Drop(i)') = Cardinality(Drop(i)) + 1
    BY <2>2, DropFinite, FS_AddElement
  <2>4. \A j \in Ids : Keeps(j)' = Keeps(j)
    BY <2>1 DEF Keeps, Owned
  <2>5. \A j \in Ids : ids'[j].ref = shares'[j] + Cardinality(Drop(j)') + Keeps(j)'
    <3>. SUFFICES ASSUME NEW j \in Ids
                  PROVE  ids'[j].ref = shares'[j] + Cardinality(Drop(j)') + Keeps(j)'
      OBVIOUS
    <3>1. /\ ids[j].ref = shares[j] + Cardinality(Drop(j)) + Keeps(j)
          /\ shares[j] \in Nat /\ Keeps(j) \in {0, 1} /\ Cardinality(Drop(j)) \in Nat
      BY <1>1, RefsRestated, DropFinite DEF Keeps
    <3>2. CASE j = i
      <4>1. shares'[j] = shares[j] - 1
        BY <1>1, <2>1, <3>2
      <4>. QED
        BY <4>1, <3>1, <3>2, <2>1, <2>3, <2>4
    <3>3. CASE j # i
      <4>1. shares'[j] = shares[j]
        BY <1>1, <2>1, <3>3
      <4>. QED
        BY <4>1, <3>1, <3>3, <2>1, <2>2, <2>4
    <3>. QED
      BY <3>2, <3>3
  <2>. QED
    BY <2>5 DEF RefsExact, Drop, Keeps
<1>. QED
  BY <1>2, <1>3

(* Every step keeps the references exact. *)
LEMMA RefsStep == TypeInv /\ SafeInv /\ RefsExact /\ [Next]_vars => RefsExact'
<1>. SUFFICES ASSUME TypeInv, SafeInv, RefsExact, [Next]_vars PROVE RefsExact'
  OBVIOUS
<1>1. /\ pc \in [Threads -> Pcs] /\ proc_list \subseteq Contexts
      /\ ctx \in [Threads -> Contexts \cup {NoCtx}] /\ rid \in [Threads -> Ids \cup {NoId}]
  BY DEF TypeInv, ControlTypeOK
<1>2. ASSUME NEW t \in Threads,
             \/ OpenWait(t) \/ OpenCreate(t) \/ MapNotice(t) \/ AddCount(t) \/ DelCount(t)
             \/ UnmapNotice(t) \/ FreeId(t) \/ ReleaseCheck(t) \/ ReleaseDone(t)
      PROVE  RefsExact'
  <2>1. UNCHANGED <<ids, shares>>
    BY <1>2 DEF OpenWait, OpenCreate, MapNotice, AddCount, DelCount, UnmapNotice, FreeId,
                ReleaseCheck, ReleaseDone, tableVars
  <2>2. \A i \in Ids : Drop(i)' = Drop(i)
    BY <1>1, <1>2 DEF OpenWait, OpenCreate, MapNotice, AddCount, DelCount, UnmapNotice, FreeId,
                ReleaseCheck, ReleaseDone, Drop, Goto, Leave, Enter, FreeReturns
  <2>. QED
    BY <2>1, <2>2, RefsFrame
<1>3. ASSUME NEW t \in Threads, NEW c \in proc_list, NEW i \in Ids,
             AllocId(t, c, i) \/ ShareFind(t, c, i)
      PROVE  RefsExact'
  <2>1. UNCHANGED <<ids, shares>>
    BY <1>3 DEF AllocId, ShareFind, tableVars
  <2>2. \A j \in Ids : Drop(j)' = Drop(j)
    BY <1>1, <1>3 DEF AllocId, ShareFind, CanCall, Drop, Enter
  <2>. QED
    BY <2>1, <2>2, RefsFrame
<1>4. ASSUME NEW t \in Threads, NEW c \in proc_list, Release(t, c) PROVE RefsExact'
  <2>1. UNCHANGED <<ids, shares>>
    BY <1>4 DEF Release, tableVars
  <2>2. \A j \in Ids : Drop(j)' = Drop(j)
    BY <1>1, <1>4 DEF Release, CanCall, Drop, Enter
  <2>. QED
    BY <2>1, <2>2, RefsFrame
<1>5. ASSUME NEW t \in Threads, NEW c \in proc_list, NEW i \in Ids, FreeRes(t, c, i)
      PROVE  RefsExact'
  BY <1>1, <1>5, RefsMark DEF FreeRes, CanCall
<1>6. ASSUME NEW t \in Threads, ReleaseNext(t) PROVE RefsExact'
  <2>1. CASE ids' = ids /\ Enter(t, "r_done", ctx[t], NoId)
    <3>1. \A j \in Ids : Drop(j)' = Drop(j)
      BY <1>1, <1>6, <2>1 DEF ReleaseNext, Drop, Enter
    <3>. QED
      BY <1>6, <2>1, <3>1, RefsFrame DEF ReleaseNext
  <2>2. ASSUME NEW i \in Ids, IsIdPidMatch(i, ctx[t]), MarkDeleted(i),
               Enter(t, "d_count", ctx[t], i)
        PROVE  RefsExact'
    <3>1. ctx[t] \in Contexts /\ pc[t] = "r_next" /\ shares' = shares
      BY <1>6 DEF ReleaseNext, TypeInv, CallShape
    <3>. QED
      BY <2>2, <3>1, RefsMark
  <2>. QED
    BY <1>6, <2>1, <2>2 DEF ReleaseNext
<1>7. CASE UNCHANGED vars
  <2>1. UNCHANGED <<ids, shares>> /\ \A i \in Ids : Drop(i)' = Drop(i)
    BY <1>7 DEF vars, tableVars, Drop
  <2>. QED
    BY <2>1, RefsFrame
<1>. QED
  BY <1>2, <1>3, <1>4, <1>5, <1>6, <1>7, RefsPut, RefsAdd, RefsShare, NextCases

(* Initially there are no references. *)
LEMMA InitRefs == Init => RefsExact
<1>. SUFFICES ASSUME Init PROVE RefsExact
  OBVIOUS
<1>1. \A i \in Ids : ids[i].ref = 0 /\ shares[i] = 0 /\ Keeps(i) = 0
  BY DEF Init, Entry, Keeps, Owned
<1>2. \A i \in Ids : Drop(i) = {}
  BY DEF Init, Drop
<1>3. \A i \in Ids : Cardinality(Drop(i)) = 0
  BY <1>2, FS_EmptySet
<1>. QED
  BY <1>1, <1>3, RefsRestated

-----------------------------------------------------------------------------
(* Who uses a context. *)

(* The moves of a thread inside its context. *)
LEMMA HoldMove ==
    ASSUME TypeInv, HoldInv, NEW t \in Threads, UNCHANGED <<proc_list, exiting>>,
           \/ FreeReturns(t) /\ pc[t] # "s_get"
           \/ Leave(t)
           \/ /\ \E l \in {"o_create", "a_add", "a_count", "put", "unmap", "free"} : Goto(t, l)
              /\ pc[t] # "s_get"
           \/ ctx[t] \in exiting /\ pc[t] # "s_get"
              /\ \E l \in {"r_next", "r_done", "d_count"}, i \in Ids \cup {NoId} : Enter(t, l, ctx[t], i)
    PROVE  HoldInv'
<1>1. /\ pc \in [Threads -> Pcs] /\ exiting \subseteq Contexts
      /\ ctx \in [Threads -> Contexts \cup {NoCtx}] /\ rid \in [Threads -> Ids \cup {NoId}]
      /\ NoCtx \notin exiting
  BY ContextFacts DEF TypeInv, ControlTypeOK
<1>2. \A s \in Threads : s # t => pc'[s] = pc[s] /\ ctx'[s] = ctx[s]
  BY <1>1 DEF FreeReturns, Leave, Enter, Goto
<1>3. \/ pc'[t] = "idle" /\ ctx'[t] = NoCtx
      \/ /\ ctx'[t] = ctx[t] /\ pc[t] # "s_get" /\ pc'[t] # "s_get"
         /\ pc'[t] \in {"r_check", "r_next", "r_done"} => ctx[t] \in exiting
  BY <1>1 DEF FreeReturns, Leave, Enter, Goto
<1>. QED
  BY <1>1, <1>2, <1>3 DEF HoldInv

(* Every step keeps a released context to its releasing thread. *)
LEMMA HoldStep == TypeInv /\ HoldInv /\ [Next]_vars => HoldInv'
<1>. SUFFICES ASSUME TypeInv, HoldInv, [Next]_vars PROVE HoldInv'
  OBVIOUS
<1>1. /\ pc \in [Threads -> Pcs] /\ exiting \subseteq Contexts /\ proc_list \subseteq Contexts
      /\ ctx \in [Threads -> Contexts \cup {NoCtx}] /\ rid \in [Threads -> Ids \cup {NoId}]
      /\ NoCtx \notin exiting /\ NoCtx \notin proc_list
  BY ContextFacts DEF TypeInv, ControlTypeOK
<1>2. ASSUME NEW t \in Threads,
             \/ OpenWait(t) \/ MapNotice(t) \/ AddRes(t) \/ AddCount(t) \/ DelCount(t)
             \/ PutRes(t) \/ UnmapNotice(t) \/ FreeId(t) \/ ShareGet(t)
      PROVE  HoldInv'
  <2>1. UNCHANGED <<proc_list, exiting>>
    BY <1>2 DEF OpenWait, MapNotice, AddRes, AddCount, DelCount, PutRes, UnmapNotice, FreeId,
                ShareGet, procVars
  <2>2. \/ FreeReturns(t) /\ pc[t] # "s_get"
        \/ Leave(t)
        \/ /\ \E l \in {"o_create", "a_add", "a_count", "put", "unmap", "free"} : Goto(t, l)
           /\ pc[t] # "s_get"
    BY <1>2 DEF OpenWait, MapNotice, AddRes, AddCount, DelCount, PutRes, UnmapNotice, FreeId, ShareGet
  <2>. QED
    BY <2>1, <2>2, HoldMove
<1>3. ASSUME NEW t \in Threads, OpenCreate(t) PROVE HoldInv'
  <2>1. proc_list \subseteq proc_list' /\ exiting' = exiting /\ Leave(t)
    BY <1>3 DEF OpenCreate
  <2>. QED
    BY <1>1, <2>1 DEF HoldInv, Leave, Enter
<1>4. ASSUME NEW t \in Threads, NEW c \in proc_list, NEW i \in Ids,
             AllocId(t, c, i) \/ FreeRes(t, c, i) \/ ShareFind(t, c, i)
      PROVE  HoldInv'
  <2>1. /\ UNCHANGED <<proc_list, exiting>>
        /\ \/ Enter(t, "a_map", c, i) /\ c \notin exiting
           \/ Enter(t, "d_count", c, i) /\ c \notin exiting
           \/ Enter(t, "s_get", c, i)
    BY <1>4 DEF AllocId, FreeRes, ShareFind, CanCall, procVars
  <2>2. /\ ctx'[t] = c /\ pc'[t] \in {"a_map", "d_count", "s_get"}
        /\ pc'[t] # "s_get" => c \notin exiting
        /\ \A s \in Threads : s # t => pc'[s] = pc[s] /\ ctx'[s] = ctx[s]
    BY <1>1, <2>1 DEF Enter
  <2>. QED
    BY <1>1, <2>1, <2>2 DEF HoldInv
<1>5. ASSUME NEW t \in Threads, NEW i \in Ids, SharePut(t, i) PROVE HoldInv'
  <2>1. UNCHANGED <<proc_list, exiting>> /\ Enter(t, "put", NoCtx, i)
    BY <1>5 DEF SharePut, procVars
  <2>2. /\ ctx'[t] = NoCtx /\ pc'[t] = "put"
        /\ \A s \in Threads : s # t => pc'[s] = pc[s] /\ ctx'[s] = ctx[s]
    BY <1>1, <2>1 DEF Enter
  <2>. QED
    BY <1>1, <2>1, <2>2 DEF HoldInv
<1>6. ASSUME NEW t \in Threads, NEW c \in proc_list, Release(t, c) PROVE HoldInv'
  <2>1. /\ proc_list' = proc_list /\ exiting' = exiting \cup {c} /\ ~InUse(c)
        /\ ctx'[t] = c /\ pc'[t] \in {"r_check", "r_done"}
        /\ \A s \in Threads : s # t => pc'[s] = pc[s] /\ ctx'[s] = ctx[s]
    BY <1>1, <1>6 DEF Release, Enter
  <2>. QED
    BY <1>1, <2>1 DEF HoldInv, InUse
<1>7. ASSUME NEW t \in Threads, ReleaseCheck(t) \/ ReleaseDone(t) PROVE HoldInv'
  <2>1. CASE ReleaseCheck(t) /\ Goto(t, "r_next") /\ UNCHANGED proc_list
    <3>1. /\ UNCHANGED <<proc_list, exiting>> /\ pc'[t] = "r_next" /\ ctx' = ctx
          /\ \A s \in Threads : s # t => pc'[s] = pc[s]
          /\ pc[t] = "r_check"
      BY <1>1, <2>1 DEF ReleaseCheck, Goto
    <3>. QED
      BY <3>1 DEF HoldInv
  <2>2. CASE proc_list' = proc_list \ {ctx[t]} /\ Leave(t)
    <3>1. /\ exiting' = exiting /\ pc[t] \in {"r_check", "r_done"}
          /\ pc'[t] = "idle" /\ ctx'[t] = NoCtx
          /\ \A s \in Threads : s # t => pc'[s] = pc[s] /\ ctx'[s] = ctx[s]
      BY <1>1, <1>7, <2>2 DEF ReleaseCheck, ReleaseDone, Leave, Enter
    <3>2. \A s \in Threads : s # t /\ pc[s] # "s_get" => ctx[s] # ctx[t]
      BY <3>1 DEF HoldInv
    <3>. QED
      BY <1>1, <2>2, <3>1, <3>2 DEF HoldInv
  <2>. QED
    BY <1>7, <2>1, <2>2 DEF ReleaseCheck, ReleaseDone
<1>8. ASSUME NEW t \in Threads, ReleaseNext(t) PROVE HoldInv'
  <2>1. UNCHANGED <<proc_list, exiting>> /\ ctx[t] \in exiting /\ pc[t] = "r_next"
    BY <1>8 DEF ReleaseNext, procVars, HoldInv
  <2>2. \E l \in {"r_next", "r_done", "d_count"}, i \in Ids \cup {NoId} : Enter(t, l, ctx[t], i)
    BY <1>8 DEF ReleaseNext
  <2>. QED
    BY <2>1, <2>2, HoldMove
<1>9. CASE UNCHANGED vars
  BY <1>9 DEF vars, procVars, HoldInv
<1>. QED
  BY <1>2, <1>3, <1>4, <1>5, <1>6, <1>7, <1>8, <1>9, NextCases

(* Initially no context is in use. *)
LEMMA InitHold == Init => HoldInv
  BY DEF Init, HoldInv

(* Every step gives a task id once, and counts only for task ids given. *)
LEMMA TaskStep == TypeInv /\ HoldInv /\ TaskInv /\ [Next]_vars => TaskInv'
<1>. SUFFICES ASSUME TypeInv, HoldInv, TaskInv, [Next]_vars PROVE TaskInv'
  OBVIOUS
<1>1. /\ proc_list \subseteq Contexts /\ exit_list \subseteq Contexts
      /\ cur_task_id \in Nat /\ current_id_num \in [Tasks -> Int]
      /\ \A k \in Tasks : k \in Nat
  BY ContextFacts DEF TypeInv, ControlTypeOK
<1>2. ASSUME NEW t \in Threads, OpenCreate(t) PROVE TaskInv'
  <2>1. CASE UNCHANGED <<cur_task_id, proc_list>>
    BY <1>2, <2>1 DEF OpenCreate, TaskInv
  <2>2. CASE cur_task_id' = cur_task_id + 1 /\ UNCHANGED proc_list
    BY <1>1, <1>2, <2>2, ContextFacts DEF OpenCreate, TaskInv
  <2>3. ASSUME NEW n, n = [pid |-> PidOf[t], task |-> cur_task_id],
               cur_task_id' = cur_task_id + 1, proc_list' = proc_list \cup {n}
        PROVE  TaskInv'
    <3>1. n.task = cur_task_id /\ exit_list' = exit_list /\ current_id_num' = current_id_num
      BY <1>2, <2>3 DEF OpenCreate
    <3>2. \A c \in proc_list \cup exit_list : c.task \in Nat /\ c.task < cur_task_id
      BY <1>1, ContextFacts DEF TaskInv
    <3>. QED
      BY <1>1, <2>3, <3>1, <3>2 DEF TaskInv
  <2>. QED
    BY <1>2, <2>1, <2>2, <2>3 DEF OpenCreate
<1>3. ASSUME NEW t \in Threads, AddCount(t) \/ DelCount(t) PROVE TaskInv'
  <2>1. ctx[t] \in Contexts /\ pc[t] \in {"a_count", "d_count"}
    BY <1>3 DEF AddCount, DelCount, TypeInv, CallShape
  <2>2. ctx[t].task \in Tasks /\ ctx[t].task < cur_task_id
    BY <2>1, ContextFacts DEF HoldInv, TaskInv
  <2>3. \A k \in Tasks : k # ctx[t].task => current_id_num'[k] = current_id_num[k]
    BY <1>1, <1>3 DEF AddCount, DelCount
  <2>4. UNCHANGED <<proc_list, exit_list, cur_task_id>>
    BY <1>3 DEF AddCount, DelCount, procVars
  <2>. QED
    BY <1>1, <2>2, <2>3, <2>4 DEF TaskInv
<1>4. ASSUME NEW t \in Threads, ReleaseCheck(t) \/ ReleaseDone(t) PROVE TaskInv'
  <2>1. /\ UNCHANGED <<cur_task_id, current_id_num>> /\ proc_list' \subseteq proc_list
        /\ exit_list' \subseteq exit_list \cup {ctx[t]}
        /\ pc[t] \in {"r_check", "r_done"}
    BY <1>4 DEF ReleaseCheck, ReleaseDone
  <2>2. ctx[t] \in proc_list
    BY <2>1, ContextFacts DEF HoldInv, TypeInv, CallShape
  <2>. QED
    BY <2>1, <2>2 DEF TaskInv
<1>5. CASE UNCHANGED <<proc_list, exit_list, cur_task_id, current_id_num>>
  BY <1>5 DEF TaskInv
<1>6. ASSUME NEW t \in Threads, NEW c \in proc_list, Release(t, c) PROVE TaskInv'
  BY <1>5, <1>6 DEF Release
<1>7. ASSUME NEW t \in Threads, NEW c \in proc_list, NEW i \in Ids,
             AllocId(t, c, i) \/ FreeRes(t, c, i) \/ ShareFind(t, c, i)
      PROVE  TaskInv'
  BY <1>5, <1>7 DEF AllocId, FreeRes, ShareFind, procVars
<1>8. ASSUME NEW t \in Threads,
             \/ OpenWait(t) \/ MapNotice(t) \/ AddRes(t) \/ PutRes(t) \/ UnmapNotice(t)
             \/ FreeId(t) \/ ShareGet(t) \/ ReleaseNext(t) \/ \E i \in Ids : SharePut(t, i)
      PROVE  TaskInv'
  BY <1>5, <1>8 DEF OpenWait, MapNotice, AddRes, PutRes, UnmapNotice, FreeId, ShareGet,
                    ReleaseNext, SharePut, procVars
<1>9. CASE UNCHANGED vars
  BY <1>5, <1>9 DEF vars, procVars
<1>. QED
  BY <1>2, <1>3, <1>4, <1>6, <1>7, <1>8, <1>9, NextCases

(* Initially no task id is given. *)
LEMMA InitTask == Init => TaskInv
  BY DEF Init, TaskInv

(* The references of an id are exact. *)
THEOREM RefsAreExact == Spec => []RefsExact
<1>1. TableInv /\ RefsExact /\ [Next]_vars => RefsExact'
  BY RefsStep DEF TableInv
<1>. QED
  BY <1>1, InitRefs, TableInvariant, PTL DEF Spec

-----------------------------------------------------------------------------
(* What a closed context leaves behind. *)

Behind == \A c \in Contexts : Norm(c) # {} => c \in proc_list \cup exit_list

(* What the counts of contexts speak of is finite. *)
LEMMA CountFinite ==
    ASSUME NEW c
    PROVE  /\ IsFiniteSet(Norm(c)) /\ Cardinality(Norm(c)) \in Nat
           /\ IsFiniteSet(Adding(c)) /\ Cardinality(Adding(c)) \in Nat
           /\ IsFiniteSet(Deleting(c)) /\ Cardinality(Deleting(c)) \in Nat
<1>1. IsFiniteSet(Ids) /\ IsFiniteSet(Threads)
  BY ResAssumption DEF ResAssumption
<1>2. Norm(c) \in SUBSET Ids /\ Adding(c) \in SUBSET Threads /\ Deleting(c) \in SUBSET Threads
  BY DEF Norm, Adding, Deleting
<1>3. IsFiniteSet(Norm(c)) /\ IsFiniteSet(Adding(c)) /\ IsFiniteSet(Deleting(c))
  BY <1>1, <1>2, FS_Subset
<1>. QED
  BY <1>3, FS_CardinalityType

(* A context is given by its pid and its task id; its ids have an owner. *)
LEMMA NormFacts ==
    ASSUME NEW c \in Contexts
    PROVE  /\ c = [pid |-> c.pid, task |-> c.task]
           /\ \A d \in Contexts : c.pid = d.pid /\ c.task = d.task => c = d
           /\ \A i \in Norm(c) : /\ i \in Ids /\ Owned(i) /\ ids[i].status = "NORMAL"
                                 /\ [pid |-> ids[i].pid, task |-> ids[i].task] = c
           /\ \A i \in Ids : /\ Owned(i) /\ ids[i].status = "NORMAL"
                             /\ [pid |-> ids[i].pid, task |-> ids[i].task] = c
                             => i \in Norm(c)
<1>1. c = [pid |-> c.pid, task |-> c.task] /\ c.pid # NoPid
  BY ContextFacts DEF Contexts
<1>2. \A d \in Contexts : c.pid = d.pid /\ c.task = d.task => c = d
  BY DEF Contexts
<1>3. \A i \in Norm(c) : ids[i].pid = c.pid /\ ids[i].task = c.task /\ ids[i].status = "NORMAL" /\ i \in Ids
  BY DEF Norm, IsIdPidMatch
<1>4. \A i \in Ids : [pid |-> ids[i].pid, task |-> ids[i].task] = c
                    => ids[i].pid = c.pid /\ ids[i].task = c.task
  OBVIOUS
<1>. QED
  BY <1>1, <1>2, <1>3, <1>4 DEF Owned, Norm, IsIdPidMatch

(* A step that leaves the normal ids of every context, and the threads that   *)
(* have not counted yet.                                                      *)
CountSame ==
    /\ \A c \in Contexts : Norm(c)' = Norm(c)
    /\ \A c \in Contexts : Adding(c)' = Adding(c) /\ Deleting(c)' = Deleting(c)
    /\ UNCHANGED current_id_num

(* Such a step leaves the counts exact. *)
LEMMA SameExact ==
    ASSUME CountSame, NEW c \in Contexts, Exact(c)
    PROVE  Exact(c)'
  BY DEF CountSame, Exact

(* Neither a put nor a share changes what a context has. *)
LEMMA NormKept ==
    ASSUME TypeInv, SafeInv, RefsExact, NEW t \in Threads,
           PutRes(t) \/ ShareGet(t)
    PROVE  \A c \in Contexts : Norm(c)' = Norm(c)
<1>1. ids \in [Ids -> Entries] /\ NoPid \notin Pids /\ \A c \in Contexts : c.pid \in Pids
  BY ContextFacts DEF TypeInv, ControlTypeOK
<1>2. CASE PutRes(t)
  <2>1. PICK i \in Ids : i = rid[t]
    BY <1>2, PutFacts
  <2>2. /\ ids[i].ref # 0 /\ (ids[i].ref = 1 => ids[i].status = "DEL")
        /\ ids' = [ids EXCEPT ![i] = Dropped(ids[i])]
    BY <1>2, <2>1, PutFacts
  <2>3. /\ ids'[i].status = ids[i].status /\ ids'[i].task = ids[i].task
        /\ ids'[i].pid = IF ids[i].ref = 1 THEN NoPid ELSE ids[i].pid
        /\ \A j \in Ids : j # i => ids'[j] = ids[j]
    BY <1>1, <2>2, DropFacts
  <2>4. \A c \in Contexts, j \in Ids : IsIdPidMatch(j, c)' <=> IsIdPidMatch(j, c)
    BY <1>1, <2>2, <2>3 DEF IsIdPidMatch
  <2>. QED
    BY <2>4 DEF Norm
<1>3. CASE ShareGet(t)
  <2>1. rid[t] \in Ids
    BY <1>3 DEF TypeInv, CallShape, ShareGet
  <2>. DEFINE e == Entry(ids[rid[t]].pid, ids[rid[t]].task, ids[rid[t]].status, ids[rid[t]].ref + 1)
  <2>2. ids' = ids \/ ids' = [ids EXCEPT ![rid[t]] = e]
    BY <1>3 DEF ShareGet
  <2>3. e.pid = ids[rid[t]].pid /\ e.task = ids[rid[t]].task /\ e.status = ids[rid[t]].status
    BY DEF Entry
  <2>4. \A j \in Ids : ids'[j].pid = ids[j].pid /\ ids'[j].task = ids[j].task /\ ids'[j].status = ids[j].status
    BY <1>1, <2>1, <2>2, <2>3
  <2>5. \A c \in Contexts, j \in Ids : IsIdPidMatch(j, c)' <=> IsIdPidMatch(j, c)
    BY <2>4 DEF IsIdPidMatch
  <2>. QED
    BY <2>5 DEF Norm
<1>. QED
  BY <1>2, <1>3

(* A thread that neither comes to count nor has to. *)
Passes(t) ==
    /\ pc[t] \notin {"a_count", "d_count"} /\ pc'[t] \notin {"a_count", "d_count"}
    /\ \A s \in Threads : s # t => pc'[s] = pc[s] /\ ctx'[s] = ctx[s]

(* The steps of such threads leave the counts. *)
LEMMA PassSame ==
    ASSUME NEW t \in Threads, Passes(t), UNCHANGED current_id_num,
           \A c \in Contexts : Norm(c)' = Norm(c)
    PROVE  CountSame
  BY DEF Passes, CountSame, Adding, Deleting

(* The steps that leave the counts. *)
LEMMA QuietSame ==
    ASSUME TypeInv, SafeInv, RefsExact, NEW t \in Threads,
           \/ OpenWait(t) \/ OpenCreate(t) \/ MapNotice(t) \/ PutRes(t) \/ UnmapNotice(t)
           \/ FreeId(t) \/ ShareGet(t) \/ ReleaseCheck(t) \/ ReleaseDone(t)
           \/ \E i \in Ids : SharePut(t, i)
           \/ \E c \in proc_list : Release(t, c)
           \/ \E c \in proc_list, i \in Ids : AllocId(t, c, i) \/ ShareFind(t, c, i)
    PROVE  CountSame
<1>1. /\ pc \in [Threads -> Pcs]
      /\ ctx \in [Threads -> Contexts \cup {NoCtx}]
  BY DEF TypeInv, ControlTypeOK
<1>. USE DEF Goto, Enter, Leave, FreeReturns, tableVars
<1>2. CASE OpenWait(t) \/ OpenCreate(t) \/ MapNotice(t) \/ UnmapNotice(t) \/ FreeId(t)
           \/ ReleaseCheck(t) \/ ReleaseDone(t)
  <2>1. UNCHANGED <<ids, current_id_num>>
    BY <1>2 DEF OpenWait, OpenCreate, MapNotice, UnmapNotice, FreeId, ReleaseCheck, ReleaseDone
  <2>2. Passes(t)
    BY <1>1, <1>2 DEF Passes, OpenWait, OpenCreate, MapNotice, UnmapNotice, FreeId, ReleaseCheck,
                      ReleaseDone
  <2>3. \A c \in Contexts : Norm(c)' = Norm(c)
    BY <2>1 DEF Norm, IsIdPidMatch
  <2>. QED
    BY <2>1, <2>2, <2>3, PassSame
<1>3. CASE PutRes(t) \/ ShareGet(t)
  <2>1. UNCHANGED current_id_num
    BY <1>3 DEF PutRes, ShareGet
  <2>2. Passes(t)
    BY <1>1, <1>3 DEF Passes, PutRes, ShareGet
  <2>. QED
    BY <1>3, <2>1, <2>2, NormKept, PassSame
<1>4. CASE \/ \E i \in Ids : SharePut(t, i)
           \/ \E c \in proc_list : Release(t, c)
           \/ \E c \in proc_list, i \in Ids : AllocId(t, c, i) \/ ShareFind(t, c, i)
  <2>1. UNCHANGED <<ids, current_id_num>>
    BY <1>4 DEF SharePut, Release, AllocId, ShareFind
  <2>2. Passes(t)
    BY <1>1, <1>4 DEF Passes, SharePut, Release, AllocId, ShareFind, CanCall
  <2>3. \A c \in Contexts : Norm(c)' = Norm(c)
    BY <2>1 DEF Norm, IsIdPidMatch
  <2>. QED
    BY <2>1, <2>2, <2>3, PassSame
<1>. QED
  BY <1>2, <1>3, <1>4

(* Entering an id: it belongs to the context of the thread, which counts next. *)
LEMMA ExactAdd ==
    ASSUME TypeInv, SafeInv, NEW t \in Threads, AddRes(t), NEW c \in Contexts, Exact(c)
    PROVE  /\ Exact(c)'
           /\ ctx[t] \in Contexts /\ rid[t] \in Ids
           /\ \A d \in Contexts : d # ctx[t] => Norm(d)' = Norm(d)
           /\ \A j \in Ids : j # rid[t] => ids'[j] = ids[j]
           /\ ids'[rid[t]].pid = ctx[t].pid /\ ids'[rid[t]].task = ctx[t].task
           /\ Goto(t, "a_count")
<1>0. PICK i \in Ids, a \in Contexts : i = rid[t] /\ a = ctx[t] /\ pc[t] = "a_add"
  BY DEF TypeInv, CallShape, AddRes
<1>. DEFINE e == Entry(a.pid, a.task, "NORMAL", 1)
<1>1. ~Owned(i)
  BY <1>0, AddSafe
<1>2. ids \in [Ids -> Entries] /\ pc \in [Threads -> Pcs]
  BY DEF TypeInv, ControlTypeOK
<1>3. ids' = [ids EXCEPT ![i] = e] /\ Goto(t, "a_count") /\ current_id_num' = current_id_num
  BY <1>0, <1>1 DEF AddRes, Owned
<1>4. e.pid = a.pid /\ e.task = a.task /\ e.status = "NORMAL"
  BY DEF Entry
<1>5. \A j \in Ids : ids'[j] = IF j = i THEN e ELSE ids[j]
  BY <1>2, <1>3
<1>. HIDE DEF e
<1>6. i \notin Norm(a) /\ Norm(a)' = Norm(a) \cup {i}
  BY <1>1, <1>4, <1>5, NormFacts DEF Norm, IsIdPidMatch
<1>7. \A d \in Contexts : d # a => Norm(d)' = Norm(d)
  <2>. SUFFICES ASSUME NEW d \in Contexts, d # a PROVE Norm(d)' = Norm(d)
    OBVIOUS
  <2>1. i \notin Norm(d) /\ ~IsIdPidMatch(i, d)'
    BY <1>1, <1>4, <1>5, NormFacts DEF IsIdPidMatch
  <2>2. \A j \in Ids : j # i => (IsIdPidMatch(j, d)' <=> IsIdPidMatch(j, d))
    BY <1>5 DEF IsIdPidMatch
  <2>. QED
    BY <2>1, <2>2 DEF Norm
<1>8. /\ t \notin Adding(a) /\ Adding(a)' = Adding(a) \cup {t}
      /\ \A d \in Contexts : d # a => Adding(d)' = Adding(d)
      /\ \A d \in Contexts : Deleting(d)' = Deleting(d)
  BY <1>0, <1>2, <1>3 DEF Adding, Deleting, Goto
<1>9. Exact(c)'
  <2>1. CASE c = a
    <3>1. Cardinality(Norm(a)') = Cardinality(Norm(a)) + 1
      BY <1>6, CountFinite, FS_AddElement
    <3>2. Cardinality(Adding(a)') = Cardinality(Adding(a)) + 1
      BY <1>8, CountFinite, FS_AddElement
    <3>. QED
      BY <2>1, <3>1, <3>2, <1>3, <1>8, CountFinite DEF Exact
  <2>2. CASE c # a
    BY <2>2, <1>3, <1>7, <1>8 DEF Exact
  <2>. QED
    BY <2>1, <2>2
<1>. QED
  BY <1>0, <1>3, <1>4, <1>5, <1>7, <1>9

(* Marking an id: it leaves its context, and the thread counts next. *)
LEMMA ExactMark ==
    ASSUME TypeInv, NEW t \in Threads, NEW a \in Contexts, NEW i \in Ids,
           IsIdPidMatch(i, a), MarkDeleted(i), Enter(t, "d_count", a, i),
           pc[t] \in {"idle", "r_next"}, UNCHANGED current_id_num
    PROVE  /\ \A c \in Contexts : Exact(c) => Exact(c)'
           /\ \A c \in Contexts : Norm(c)' \subseteq Norm(c)
<1>1. pc \in [Threads -> Pcs] /\ ctx \in [Threads -> Contexts \cup {NoCtx}]
  BY DEF TypeInv, ControlTypeOK
<1>2. \A j \in Ids : /\ ids'[j].pid = ids[j].pid /\ ids'[j].task = ids[j].task
                     /\ ids'[j].status = IF j = i THEN "DEL" ELSE ids[j].status
  BY MarkKeeps
<1>3. i \in Norm(a) /\ Norm(a)' = Norm(a) \ {i}
  BY <1>2 DEF Norm, IsIdPidMatch
<1>4. \A d \in Contexts : d # a => Norm(d)' = Norm(d)
  <2>. SUFFICES ASSUME NEW d \in Contexts, d # a PROVE Norm(d)' = Norm(d)
    OBVIOUS
  <2>1. ~IsIdPidMatch(i, d)
    BY NormFacts DEF IsIdPidMatch
  <2>. QED
    BY <1>2, <2>1 DEF Norm, IsIdPidMatch
<1>5. /\ t \notin Deleting(a) /\ Deleting(a)' = Deleting(a) \cup {t}
      /\ \A d \in Contexts : d # a => Deleting(d)' = Deleting(d)
      /\ \A d \in Contexts : Adding(d)' = Adding(d)
  BY <1>1 DEF Adding, Deleting, Enter
<1>6. Exact(a) => Exact(a)'
  <2>1. Cardinality(Norm(a)') = Cardinality(Norm(a)) - 1
    BY <1>3, CountFinite, FS_RemoveElement
  <2>2. Cardinality(Deleting(a)') = Cardinality(Deleting(a)) + 1
    BY <1>5, CountFinite, FS_AddElement
  <2>. QED
    BY <2>1, <2>2, <1>5, CountFinite DEF Exact
<1>7. \A c \in Contexts : c # a => (Exact(c) => Exact(c)')
  BY <1>4, <1>5 DEF Exact
<1>. QED
  BY <1>3, <1>4, <1>6, <1>7

(* Counting. *)
LEMMA ExactCount ==
    ASSUME TypeInv, HoldInv, TaskInv, NEW t \in Threads, AddCount(t) \/ DelCount(t),
           NEW c \in proc_list, Exact(c)
    PROVE  Exact(c)'
<1>0. PICK a \in Contexts : a = ctx[t] /\ pc[t] \in {"a_count", "d_count"}
  BY DEF TypeInv, CallShape, AddCount, DelCount
<1>1. /\ pc \in [Threads -> Pcs] /\ ctx \in [Threads -> Contexts \cup {NoCtx}]
      /\ current_id_num \in [Tasks -> Int] /\ c \in Contexts /\ c.task \in Tasks
      /\ a.task \in Tasks
  BY ContextFacts DEF TypeInv, ControlTypeOK
<1>2. a \in proc_list /\ (c # a => c.task # a.task)
  BY <1>0, ContextFacts DEF HoldInv, TaskInv
<1>3. \A d \in Contexts : Norm(d)' = Norm(d)
  BY DEF AddCount, DelCount, tableVars, Norm, IsIdPidMatch
<1>4. CASE AddCount(t)
  <2>1. /\ t \in Adding(a) /\ Adding(a)' = Adding(a) \ {t}
        /\ \A d \in Contexts : d # a => Adding(d)' = Adding(d)
        /\ \A d \in Contexts : Deleting(d)' = Deleting(d)
    BY <1>0, <1>1, <1>4, ContextFacts DEF AddCount, Adding, Deleting, Leave, Enter
  <2>2. /\ current_id_num'[a.task] = current_id_num[a.task] + 1
        /\ c # a => current_id_num'[c.task] = current_id_num[c.task]
    BY <1>0, <1>1, <1>2, <1>4 DEF AddCount
  <2>3. Cardinality(Adding(a)') = Cardinality(Adding(a)) - 1
    BY <2>1, CountFinite, FS_RemoveElement
  <2>4. CASE c = a
    <3>1. current_id_num[a.task] =
            Cardinality(Norm(a)) - Cardinality(Adding(a)) + Cardinality(Deleting(a))
      BY <2>4 DEF Exact
    <3>2. /\ Cardinality(Norm(a)) \in Nat /\ Cardinality(Adding(a)) \in Nat
          /\ Cardinality(Deleting(a)) \in Nat
      BY CountFinite
    <3>3. current_id_num'[a.task] =
            Cardinality(Norm(a)') - Cardinality(Adding(a)') + Cardinality(Deleting(a)')
      BY <2>1, <2>2, <2>3, <3>1, <3>2, <1>3
    <3>. QED
      BY <2>4, <3>3 DEF Exact
  <2>5. CASE c # a
    BY <2>1, <2>2, <2>5, <1>1, <1>3 DEF Exact
  <2>. QED
    BY <2>4, <2>5
<1>5. CASE DelCount(t)
  <2>1. /\ t \in Deleting(a) /\ Deleting(a)' = Deleting(a) \ {t}
        /\ \A d \in Contexts : d # a => Deleting(d)' = Deleting(d)
        /\ \A d \in Contexts : Adding(d)' = Adding(d)
    BY <1>0, <1>1, <1>5 DEF DelCount, Adding, Deleting, Goto
  <2>2. /\ current_id_num'[a.task] = current_id_num[a.task] - 1
        /\ c # a => current_id_num'[c.task] = current_id_num[c.task]
    BY <1>0, <1>1, <1>2, <1>5 DEF DelCount
  <2>3. Cardinality(Deleting(a)') = Cardinality(Deleting(a)) - 1
    BY <2>1, CountFinite, FS_RemoveElement
  <2>4. CASE c = a
    <3>1. current_id_num[a.task] =
            Cardinality(Norm(a)) - Cardinality(Adding(a)) + Cardinality(Deleting(a))
      BY <2>4 DEF Exact
    <3>2. /\ Cardinality(Norm(a)) \in Nat /\ Cardinality(Adding(a)) \in Nat
          /\ Cardinality(Deleting(a)) \in Nat
      BY CountFinite
    <3>3. current_id_num'[a.task] =
            Cardinality(Norm(a)') - Cardinality(Adding(a)') + Cardinality(Deleting(a)')
      BY <2>1, <2>2, <2>3, <3>1, <3>2, <1>3
    <3>. QED
      BY <2>4, <3>3 DEF Exact
  <2>5. CASE c # a
    BY <2>1, <2>2, <2>5, <1>1, <1>3 DEF Exact
  <2>. QED
    BY <2>4, <2>5
<1>. QED
  BY <1>4, <1>5

(* A context that nobody works for and that counts nothing has no ids. *)
LEMMA NothingCounted ==
    ASSUME TypeInv, CountInv, NEW c \in proc_list, ~(current_id_num[c.task] > 0),
           \A t \in Threads : ctx[t] = c => pc[t] \notin {"a_count", "d_count"}
    PROVE  Norm(c) = {}
<1>1. Adding(c) = {} /\ Deleting(c) = {}
  BY DEF Adding, Deleting
<1>2. Cardinality(Adding(c)) = 0 /\ Cardinality(Deleting(c)) = 0
  BY <1>1, FS_EmptySet
<1>3. current_id_num[c.task] = Cardinality(Norm(c))
  BY <1>2, CountFinite DEF CountInv, Exact
<1>4. Cardinality(Norm(c)) = 0
  BY <1>3, CountFinite
<1>. QED
  BY <1>4, CountFinite, FS_EmptySet

(* Steps that leave the counts and bring nobody to the end of a release. *)
LEMMA QuietCount ==
    ASSUME TypeInv, CountInv, CountSame, proc_list' \subseteq proc_list,
           \A s \in Threads : pc'[s] = "r_done" => pc[s] = "r_done" /\ ctx'[s] = ctx[s]
    PROVE  CountInv'
<1>1. \A c \in proc_list : c \in Contexts /\ Exact(c)
  BY DEF CountInv, TypeInv, ControlTypeOK
<1>2. \A c \in proc_list' : Exact(c)'
  BY <1>1, SameExact
<1>3. \A s \in Threads, c \in Contexts : pc'[s] = "r_done" /\ ctx'[s] = c => Norm(c)' = {}
  BY DEF CountInv, CountSame
<1>. QED
  BY <1>2, <1>3 DEF CountInv

(* Every step keeps the counts, and leaves no id without its context. *)
LEMMA BehindStep ==
    /\ TypeInv /\ SafeInv /\ RefsExact /\ HoldInv /\ TaskInv /\ CountInv /\ Behind
    /\ [Next]_vars
    => CountInv' /\ Behind'
<1>. SUFFICES ASSUME TypeInv, SafeInv, RefsExact, HoldInv, TaskInv, CountInv, Behind, [Next]_vars
              PROVE  CountInv' /\ Behind'
  OBVIOUS
<1>0. /\ proc_list \subseteq Contexts /\ pc \in [Threads -> Pcs]
      /\ ctx \in [Threads -> Contexts \cup {NoCtx}] /\ cur_task_id \in Nat
      /\ NoCtx \notin Contexts /\ current_id_num \in [Tasks -> Int]
  BY ContextFacts DEF TypeInv, ControlTypeOK
<1>1. ASSUME NEW t \in Threads,
             \/ OpenWait(t) \/ MapNotice(t) \/ PutRes(t) \/ UnmapNotice(t)
             \/ FreeId(t) \/ ShareGet(t) \/ ReleaseCheck(t)
             \/ \E i \in Ids : SharePut(t, i)
             \/ \E c \in proc_list, i \in Ids : AllocId(t, c, i) \/ ShareFind(t, c, i)
      PROVE  CountInv' /\ Behind'
  <2>1. CountSame
    BY <1>1, QuietSame
  <2>2. proc_list' \subseteq proc_list /\ proc_list \cup exit_list \subseteq proc_list' \cup exit_list'
    BY <1>1 DEF OpenWait, MapNotice, PutRes, UnmapNotice, FreeId, ShareGet, ReleaseCheck,
                SharePut, AllocId, ShareFind, procVars
  <2>3. \A s \in Threads : pc'[s] = "r_done" => pc[s] = "r_done" /\ ctx'[s] = ctx[s]
    BY <1>0, <1>1 DEF OpenWait, MapNotice, PutRes, UnmapNotice, FreeId, ShareGet, ReleaseCheck,
                SharePut, AllocId, ShareFind, Goto, Enter, Leave, FreeReturns
  <2>. QED
    BY <2>1, <2>2, <2>3, QuietCount DEF Behind, CountSame
<1>2. ASSUME NEW t \in Threads, ReleaseDone(t) PROVE CountInv' /\ Behind'
  <2>1. CountSame
    BY <1>2, QuietSame
  <2>2. PICK a \in Contexts : a = ctx[t] /\ pc[t] = "r_done"
    BY <1>2 DEF ReleaseDone, TypeInv, CallShape
  <2>3. proc_list' = proc_list \ {a} /\ exit_list' = exit_list /\ Norm(a) = {}
    BY <1>2, <2>2 DEF ReleaseDone, CountInv
  <2>4. \A s \in Threads : pc'[s] = "r_done" => pc[s] = "r_done" /\ ctx'[s] = ctx[s]
    BY <1>0, <1>2 DEF ReleaseDone, Enter, Leave
  <2>. QED
    BY <2>1, <2>3, <2>4, QuietCount DEF Behind, CountSame
<1>3. ASSUME NEW t \in Threads, OpenCreate(t) PROVE CountInv' /\ Behind'
  <2>1. CountSame
    BY <1>3, QuietSame
  <2>2. /\ exit_list' = exit_list
        /\ \A s \in Threads : pc'[s] = "r_done" => pc[s] = "r_done" /\ ctx'[s] = ctx[s]
    BY <1>0, <1>3 DEF OpenCreate, Enter, Leave
  <2>3. CASE proc_list' = proc_list
    BY <2>1, <2>2, <2>3, QuietCount DEF Behind, CountSame
  <2>4. ASSUME NEW n, n = [pid |-> PidOf[t], task |-> cur_task_id],
               proc_list' = proc_list \cup {n}
        PROVE  CountInv' /\ Behind'
    <3>1. n \in Contexts /\ n.task = cur_task_id
      BY <2>4, ContextFacts DEF Contexts, TypeInv, ControlTypeOK
    <3>2. n \notin proc_list \cup exit_list
      BY <1>0, <3>1 DEF TaskInv
    <3>3. Norm(n) = {} /\ Adding(n) = {} /\ Deleting(n) = {}
      BY <1>0, <3>1, <3>2 DEF Behind, HoldInv, Adding, Deleting
    <3>4. current_id_num[n.task] = 0
      BY <1>0, <3>1, ContextFacts DEF TaskInv
    <3>5. Exact(n)
      BY <3>3, <3>4, FS_EmptySet DEF Exact
    <3>6. \A c \in proc_list' : c \in Contexts /\ Exact(c)
      BY <1>0, <2>4, <3>1, <3>5 DEF CountInv
    <3>7. \A c \in proc_list' : Exact(c)'
      BY <2>1, <3>6, SameExact
    <3>8. \A s \in Threads, c \in Contexts : pc'[s] = "r_done" /\ ctx'[s] = c => Norm(c)' = {}
      BY <2>1, <2>2 DEF CountInv, CountSame
    <3>9. Behind'
      BY <2>1, <2>2, <2>4 DEF Behind, CountSame
    <3>. QED
      BY <3>7, <3>8, <3>9 DEF CountInv
  <2>. QED
    BY <1>3, <2>3, <2>4 DEF OpenCreate
<1>4. ASSUME NEW t \in Threads, NEW a \in proc_list, Release(t, a) PROVE CountInv' /\ Behind'
  <2>1. CountSame
    BY <1>4, QuietSame
  <2>2. /\ UNCHANGED <<proc_list, exit_list>> /\ ctx'[t] = a
        /\ pc'[t] = "r_done" => ~(current_id_num[a.task] > 0)
        /\ \A s \in Threads : s # t => pc'[s] = pc[s] /\ ctx'[s] = ctx[s]
        /\ ~InUse(a)
    BY <1>0, <1>4 DEF Release, Enter
  <2>3. pc'[t] = "r_done" => Norm(a) = {}
    BY <2>2, NothingCounted DEF InUse
  <2>4. \A c \in proc_list' : Exact(c)'
    BY <1>0, <2>1, <2>2, SameExact DEF CountInv
  <2>5. \A s \in Threads, c \in Contexts : pc'[s] = "r_done" /\ ctx'[s] = c => Norm(c)' = {}
    BY <2>1, <2>2, <2>3 DEF CountInv, CountSame
  <2>. QED
    BY <2>1, <2>2, <2>4, <2>5 DEF CountInv, Behind, CountSame
<1>5. ASSUME NEW t \in Threads, AddRes(t) PROVE CountInv' /\ Behind'
  <2>1. PICK a \in Contexts : a = ctx[t] /\ pc[t] = "a_add"
    BY <1>5 DEF AddRes, TypeInv, CallShape
  <2>2. a \in proc_list /\ Exact(a) /\ UNCHANGED <<proc_list, exit_list>>
    BY <1>0, <1>5, <2>1 DEF HoldInv, CountInv, AddRes, procVars
  <2>3. (\A d \in Contexts : d # a => Norm(d)' = Norm(d)) /\ Goto(t, "a_count")
    BY <1>5, <2>1, <2>2, ExactAdd
  <2>4. \A c \in proc_list' : Exact(c)'
    BY <1>0, <1>5, <2>2, ExactAdd DEF CountInv
  <2>5. \A s \in Threads : pc'[s] = "r_done" => pc[s] = "r_done" /\ ctx'[s] = ctx[s] /\ ctx[s] # a
    BY <1>0, <2>1, <2>3 DEF Goto, HoldInv
  <2>6. \A s \in Threads, c \in Contexts : pc'[s] = "r_done" /\ ctx'[s] = c => Norm(c)' = {}
    BY <2>3, <2>5 DEF CountInv
  <2>. QED
    BY <2>2, <2>3, <2>4, <2>6 DEF CountInv, Behind
<1>6. ASSUME NEW t \in Threads, AddCount(t) \/ DelCount(t) PROVE CountInv' /\ Behind'
  <2>1. UNCHANGED <<ids, proc_list, exit_list>>
    BY <1>6 DEF AddCount, DelCount, tableVars, procVars
  <2>2. \A c \in Contexts : Norm(c)' = Norm(c)
    BY <2>1 DEF Norm, IsIdPidMatch
  <2>3. \A c \in proc_list' : Exact(c)'
    BY <1>6, <2>1, ExactCount DEF CountInv
  <2>4. \A s \in Threads : pc'[s] = "r_done" => pc[s] = "r_done" /\ ctx'[s] = ctx[s]
    BY <1>0, <1>6 DEF AddCount, DelCount, Goto, Leave, Enter
  <2>5. \A s \in Threads, c \in Contexts : pc'[s] = "r_done" /\ ctx'[s] = c => Norm(c)' = {}
    BY <2>2, <2>4 DEF CountInv
  <2>. QED
    BY <2>1, <2>2, <2>3, <2>5 DEF CountInv, Behind
<1>7. ASSUME NEW t \in Threads, NEW a \in Contexts, NEW i \in Ids,
             IsIdPidMatch(i, a), MarkDeleted(i), Enter(t, "d_count", a, i),
             pc[t] \in {"idle", "r_next"}, UNCHANGED <<current_id_num, proc_list, exit_list>>
      PROVE  CountInv' /\ Behind'
  <2>1. /\ \A c \in Contexts : Exact(c) => Exact(c)'
        /\ \A c \in Contexts : Norm(c)' \subseteq Norm(c)
    BY <1>7, ExactMark
  <2>2. \A s \in Threads : pc'[s] = "r_done" => pc[s] = "r_done" /\ ctx'[s] = ctx[s]
    BY <1>0, <1>7 DEF Enter
  <2>3. \A c \in proc_list' : Exact(c)'
    BY <1>0, <1>7, <2>1 DEF CountInv
  <2>4. \A s \in Threads, c \in Contexts : pc'[s] = "r_done" /\ ctx'[s] = c => Norm(c)' = {}
    BY <2>1, <2>2 DEF CountInv
  <2>. QED
    BY <1>7, <2>1, <2>3, <2>4 DEF CountInv, Behind
<1>8. ASSUME NEW t \in Threads, NEW c \in proc_list, NEW i \in Ids, FreeRes(t, c, i)
      PROVE  CountInv' /\ Behind'
  BY <1>0, <1>7, <1>8 DEF FreeRes, CanCall, procVars
<1>9. ASSUME NEW t \in Threads, ReleaseNext(t) PROVE CountInv' /\ Behind'
  <2>1. PICK a \in Contexts : a = ctx[t] /\ pc[t] = "r_next"
    BY <1>9 DEF ReleaseNext, TypeInv, CallShape
  <2>2. UNCHANGED <<current_id_num, proc_list, exit_list>>
    BY <1>9 DEF ReleaseNext, procVars
  <2>3. CASE /\ current_id_num[a.task] = 0 \/ Norm(a) = {}
             /\ ids' = ids /\ Enter(t, "r_done", a, NoId)
    <3>1. a \in proc_list /\ \A s \in Threads : ctx[s] = a => pc[s] \notin {"a_count", "d_count"}
      BY <1>0, <2>1 DEF HoldInv
    <3>2. Norm(a) = {}
      BY <2>3, <3>1, NothingCounted
    <3>3. \A c \in Contexts : Norm(c)' = Norm(c)
      BY <2>3 DEF Norm, IsIdPidMatch
    <3>4. Passes(t)
      BY <1>0, <2>1, <2>3 DEF Passes, Enter
    <3>5. CountSame
      BY <2>2, <3>3, <3>4, PassSame
    <3>6. ctx'[t] = a
      BY <1>0, <2>3 DEF Enter
    <3>7. \A c \in proc_list' : Exact(c)'
      BY <1>0, <2>2, <3>5, SameExact DEF CountInv
    <3>8. \A s \in Threads, c \in Contexts : pc'[s] = "r_done" /\ ctx'[s] = c => Norm(c)' = {}
      BY <3>2, <3>3, <3>4, <3>6 DEF CountInv, Passes
    <3>. QED
      BY <2>2, <3>3, <3>7, <3>8 DEF CountInv, Behind
  <2>4. ASSUME NEW i \in Ids, IsIdPidMatch(i, a), MarkDeleted(i), Enter(t, "d_count", a, i)
        PROVE  CountInv' /\ Behind'
    BY <1>7, <2>1, <2>2, <2>4
  <2>. QED
    BY <1>9, <2>1, <2>3, <2>4 DEF ReleaseNext, Norm
<1>10. CASE UNCHANGED vars
  <2>1. CountSame
    BY <1>10 DEF vars, tableVars, CountSame, Norm, IsIdPidMatch, Adding, Deleting
  <2>2. UNCHANGED <<proc_list, exit_list, pc, ctx>>
    BY <1>10 DEF vars, procVars
  <2>. QED
    BY <2>1, <2>2, QuietCount DEF Behind, CountSame
<1>. QED
  BY <1>1, <1>2, <1>3, <1>4, <1>5, <1>6, <1>8, <1>9, <1>10, NextCases

(* Initially there is no context and no id has an owner. *)
LEMMA InitBehind == Init => CountInv /\ Behind
<1>. SUFFICES ASSUME Init PROVE CountInv /\ Behind
  OBVIOUS
<1>1. \A i \in Ids : ids[i].pid = NoPid
  BY DEF Init, Entry
<1>2. \A c \in Contexts : Norm(c) = {}
  BY <1>1, ContextFacts DEF Norm, IsIdPidMatch
<1>. QED
  BY <1>2 DEF Init, CountInv, Behind

(* An id that is entered for a context whose file is gone was deleted and     *)
(* waits for its last share, or its context was put aside.                    *)
THEOREM NothingIsLeftBehind == Spec => []NothingLeftBehind
<1>. DEFINE Inv == RefsExact /\ HoldInv /\ TaskInv /\ CountInv /\ Behind
<1>1. Init => Inv
  BY InitRefs, InitHold, InitTask, InitBehind
<1>2. TableInv /\ Inv /\ [Next]_vars => Inv'
  BY RefsStep, HoldStep, TaskStep, BehindStep DEF TableInv
<1>3. TableInv /\ Inv => NothingLeftBehind
  <2>. SUFFICES ASSUME TableInv, Behind,
                       NEW i \in Ids, Owned(i), ids[i].status = "NORMAL"
                PROVE  [pid |-> ids[i].pid, task |-> ids[i].task] \in proc_list \cup exit_list
    BY DEF NothingLeftBehind
  <2>. DEFINE c == [pid |-> ids[i].pid, task |-> ids[i].task]
  <2>1. c \in Contexts
    BY EntryFacts DEF TableInv, TypeInv, ControlTypeOK, Owned, Contexts
  <2>2. i \in Norm(c)
    BY DEF Norm, IsIdPidMatch
  <2>. QED
    BY <2>1, <2>2 DEF Behind
<1>. QED
  BY <1>1, <1>2, <1>3, TableInvariant, PTL DEF Spec
=============================================================================
