-------------------------------- MODULE TrsRes --------------------------------
(***************************************************************************)
(* Who owns the ids of one resource type (streams, events, notifies ...):  *)
(* trs_core/trs_res_mng.c and trs_core/trs_proc.c.                         *)
(*                                                                         *)
(* A process opens the device and gets a context (pid and task_id); its    *)
(* threads allocate and free ids; a shared id (shr_id) holds a further     *)
(* reference, which any process may drop last; closing the file recycles   *)
(* what the context still owns, and gives up when the task scheduler does  *)
(* not let go.  What is done under res_mng->mutex or under the semaphore   *)
(* of the instance is one step; the counter of the context, the notices    *)
(* to the task scheduler and the free list of ids are touched outside.     *)
(***************************************************************************)
EXTENDS Integers, FiniteSets

CONSTANTS Threads,   \* threads of all processes
          Pids,      \* processes
          PidOf,     \* PidOf[t]: the process (tgid) of thread t
          Ids,       \* ids of the resource type
          MaxTask,   \* bound on the contexts created
          MaxShare,  \* bound: an id with so many shares is not shared further
          NoPid,     \* pid 0: nobody
          NoCtx, NoId

ASSUME ResAssumption ==
    /\ \A t \in Threads : PidOf[t] \in Pids
    /\ NoPid \notin Pids
    /\ NoId \notin Ids
    /\ IsFiniteSet(Ids) /\ IsFiniteSet(Threads)
    /\ MaxTask \in Nat /\ MaxShare \in Nat

Tasks    == 0 .. MaxTask
Contexts == [pid : Pids, task : Tasks]

ASSUME ContextAssumption == NoCtx \notin Contexts

VARIABLES ids,             \* res_mng->ids: [pid, task, status, ref] of each id
          use_num,         \* res_mng->use_num
          proc_list,       \* contexts on proc_list_head
          exit_list,       \* contexts on exit_proc_list_head
          exiting,         \* contexts with status TRS_PROC_STATUS_EXIT
          cur_task_id,     \* ts_inst->cur_task_id
          current_id_num,  \* ids of each context, by task_id
          pool,            \* pool[i]: how often id i is on the free list
          mapped,          \* mapped[i]: the task scheduler knows id i
          shares,          \* shares[i]: nodes of shr_id that hold id i
          pc, ctx, rid     \* where a thread is, with which context and id

tableVars == <<ids, use_num>>
procVars  == <<proc_list, exit_list, exiting, cur_task_id>>
vars == <<tableVars, procVars, current_id_num, pool, mapped, shares, pc, ctx, rid>>

(* struct trs_res_ids *)
Entry(p, k, s, r) == [pid |-> p, task |-> k, status |-> s, ref |-> r]

Enter(t, l, c, i) ==
    /\ pc' = [pc EXCEPT ![t] = l]
    /\ ctx' = [ctx EXCEPT ![t] = c]
    /\ rid' = [rid EXCEPT ![t] = i]

Goto(t, l) == pc' = [pc EXCEPT ![t] = l] /\ UNCHANGED <<ctx, rid>>

Leave(t) == Enter(t, "idle", NoCtx, NoId)

(* A free returns to the user, or to the loop that recycles a context. *)
FreeReturns(t) == IF ctx[t] \in exiting THEN Goto(t, "r_next") ELSE Leave(t)

(* trs_proc_ctx_find *)
ContextsOf(p) == {c \in proc_list : c.pid = p}

(* Mutant of IsIdPidMatch: the task_id is not compared. *)
IsIdPidMatchAnyTask(i, c) == ids[i].pid = c.pid /\ ids[i].status = "NORMAL"

(* trs_is_id_pid_match *)
IsIdPidMatch(i, c) ==
    ids[i].pid = c.pid /\ ids[i].task = c.task /\ ids[i].status = "NORMAL"

-----------------------------------------------------------------------------
(* trs_open *)

(* trs_proc_wait_for_exit: no context of the process is left. *)
OpenWait(t) ==
    /\ pc[t] = "idle"
    /\ ContextsOf(PidOf[t]) = {}
    /\ Goto(t, "o_create")
    /\ UNCHANGED <<tableVars, procVars, current_id_num, pool, mapped, shares>>

(* Mutant of OpenCreate: the list is not searched again. *)
OpenCreateBlind(t) ==
    /\ pc[t] = "o_create"
    /\ cur_task_id < MaxTask
    /\ cur_task_id' = cur_task_id + 1
    /\ proc_list' = proc_list \cup {[pid |-> PidOf[t], task |-> cur_task_id]}
    /\ Leave(t)
    /\ UNCHANGED <<tableVars, exit_list, exiting, current_id_num, pool, mapped, shares>>

(* Another thread of the process was faster ("Repeat init") or there is no   *)
(* memory; or a context is made and entered, or made and given up because it *)
(* cannot be bound.                                                          *)
OpenCreate(t) ==
    /\ pc[t] = "o_create"
    /\ \/ UNCHANGED <<cur_task_id, proc_list>>
       \/ /\ ContextsOf(PidOf[t]) = {}
          /\ cur_task_id < MaxTask
          /\ cur_task_id' = cur_task_id + 1
          /\ \/ proc_list' = proc_list \cup {[pid |-> PidOf[t], task |-> cur_task_id]}
             \/ UNCHANGED proc_list
    /\ Leave(t)
    /\ UNCHANGED <<tableVars, exit_list, exiting, current_id_num, pool, mapped, shares>>

-----------------------------------------------------------------------------
(* trs_res_id_alloc *)

(* An ioctl is let in through a file whose context is not on its way out. *)
CanCall(t, c) == pc[t] = "idle" /\ c \in ContextsOf(PidOf[t]) \ exiting

AllocId(t, c, i) ==
    /\ CanCall(t, c)
    /\ pool[i] > 0
    /\ pool' = [pool EXCEPT ![i] = @ - 1]
    /\ Enter(t, "a_map", c, i)
    /\ UNCHANGED <<tableVars, procVars, current_id_num, mapped, shares>>

(* Mutant of MapNotice: the result of the notice is not looked at. *)
MapNoticeIgnored(t) ==
    /\ pc[t] = "a_map"
    /\ \E m \in BOOLEAN : mapped' = [mapped EXCEPT ![rid[t]] = m]
    /\ Goto(t, "a_add")
    /\ UNCHANGED <<tableVars, procVars, current_id_num, pool, shares>>

(* trs_res_notice_ts(0): when no answer comes, the id goes back, whether the *)
(* task scheduler took the message or not.                                   *)
MapNotice(t) ==
    /\ pc[t] = "a_map"
    /\ \/ /\ mapped' = [mapped EXCEPT ![rid[t]] = TRUE]
          /\ Goto(t, "a_add")
       \/ /\ \E m \in {TRUE, mapped[rid[t]]} : mapped' = [mapped EXCEPT ![rid[t]] = m]
          /\ Goto(t, "free")
    /\ UNCHANGED <<tableVars, procVars, current_id_num, pool, shares>>

(* trs_proc_add_res under the mutex ... *)
AddRes(t) ==
    LET i == rid[t]
    IN  /\ pc[t] = "a_add"
        /\ IF ids[i].pid # NoPid
           THEN Goto(t, "unmap") /\ UNCHANGED tableVars
           ELSE /\ ids' = [ids EXCEPT ![i] = Entry(ctx[t].pid, ctx[t].task, "NORMAL", 1)]
                /\ use_num' = use_num + 1
                /\ Goto(t, "a_count")
        /\ UNCHANGED <<procVars, current_id_num, pool, mapped, shares>>

(* ... and after it. *)
AddCount(t) ==
    /\ pc[t] = "a_count"
    /\ current_id_num' = [current_id_num EXCEPT ![ctx[t].task] = @ + 1]
    /\ Leave(t)
    /\ UNCHANGED <<tableVars, procVars, pool, mapped, shares>>

-----------------------------------------------------------------------------
(* _trs_res_id_free, trs_res_id_put *)

(* Mutant of MarkDeleted: the id stays NORMAL until it is put. *)
MarkNothing(i) == UNCHANGED ids

MarkDeleted(i) == ids' = [ids EXCEPT ![i] = Entry(@.pid, @.task, "DEL", @.ref)]

(* trs_proc_del_res under the mutex; an id that does not belong to the *)
(* context is refused.                                                 *)
FreeRes(t, c, i) ==
    /\ CanCall(t, c)
    /\ IsIdPidMatch(i, c)
    /\ MarkDeleted(i)
    /\ Enter(t, "d_count", c, i)
    /\ UNCHANGED <<use_num, procVars, current_id_num, pool, mapped, shares>>

DelCount(t) ==
    /\ pc[t] = "d_count"
    /\ current_id_num' = [current_id_num EXCEPT ![ctx[t].task] = @ - 1]
    /\ Goto(t, "put")
    /\ UNCHANGED <<tableVars, procVars, pool, mapped, shares>>

(* One reference less; with the last one the owner goes. *)
Dropped(e) == Entry(IF e.ref = 1 THEN NoPid ELSE e.pid, e.task, e.status, e.ref - 1)

(* Mutant of PutRes: every put counts as the end of a use. *)
PutResCounts(t) ==
    LET i == rid[t]
        last == ids[i].ref = 1
    IN  /\ pc[t] = "put"
        /\ ids' = [ids EXCEPT ![i] = Dropped(@)]
        /\ use_num' = use_num - 1
        /\ IF last THEN Goto(t, "unmap") ELSE FreeReturns(t)
        /\ UNCHANGED <<procVars, current_id_num, pool, mapped, shares>>

(* Mutant of PutRes: the id is freed although it is still shared. *)
PutResFrees(t) ==
    LET i == rid[t]
        last == ids[i].ref = 1
    IN  /\ pc[t] = "put"
        /\ ids' = [ids EXCEPT ![i] = Dropped(@)]
        /\ use_num' = IF last THEN use_num - 1 ELSE use_num
        /\ Goto(t, "unmap")
        /\ UNCHANGED <<procVars, current_id_num, pool, mapped, shares>>

(* Mutant of PutRes: the last reference is not noticed. *)
PutResKeeps(t) ==
    LET i == rid[t]
    IN  /\ pc[t] = "put"
        /\ ids' = [ids EXCEPT ![i] = Entry(@.pid, @.task, @.status, @.ref - 1)]
        /\ FreeReturns(t)
        /\ UNCHANGED <<use_num, procVars, current_id_num, pool, mapped, shares>>

(* trs_res_put *)
PutRes(t) ==
    LET i == rid[t]
        last == ids[i].ref = 1
    IN  /\ pc[t] = "put"
        /\ IF ids[i].ref = 0
           THEN FreeReturns(t) /\ UNCHANGED tableVars
           ELSE /\ ids' = [ids EXCEPT ![i] = Dropped(@)]
                /\ use_num' = IF last THEN use_num - 1 ELSE use_num
                /\ IF last THEN Goto(t, "unmap") ELSE FreeReturns(t)
        /\ UNCHANGED <<procVars, current_id_num, pool, mapped, shares>>

(* trs_res_notice_ts(1): the result does not matter. *)
UnmapNotice(t) ==
    /\ pc[t] = "unmap"
    /\ \E m \in {FALSE, mapped[rid[t]]} : mapped' = [mapped EXCEPT ![rid[t]] = m]
    /\ Goto(t, "free")
    /\ UNCHANGED <<tableVars, procVars, current_id_num, pool, shares>>

(* trs_res_mng_id_free; the allocator is taken to accept the id. *)
FreeId(t) ==
    /\ pc[t] = "free"
    /\ pool' = [pool EXCEPT ![rid[t]] = @ + 1]
    /\ FreeReturns(t)
    /\ UNCHANGED <<tableVars, procVars, current_id_num, mapped, shares>>

-----------------------------------------------------------------------------
(* trs_res_id_get and trs_res_id_put, as the nodes of shr_id call them *)

(* trs_get_proc_task_id *)
ShareFind(t, c, i) ==
    /\ pc[t] = "idle"
    /\ c \in ContextsOf(PidOf[t])
    /\ shares[i] < MaxShare
    /\ Enter(t, "s_get", c, i)
    /\ UNCHANGED <<tableVars, procVars, current_id_num, pool, mapped, shares>>

(* trs_res_get under the mutex, with the task_id read before. *)
ShareGet(t) ==
    LET i == rid[t]
    IN  /\ pc[t] = "s_get"
        /\ IF IsIdPidMatch(i, ctx[t])
           THEN /\ ids' = [ids EXCEPT ![i] = Entry(@.pid, @.task, @.status, @.ref + 1)]
                /\ shares' = [shares EXCEPT ![i] = @ + 1]
           ELSE UNCHANGED <<ids, shares>>
        /\ Leave(t)
        /\ UNCHANGED <<use_num, procVars, current_id_num, pool, mapped>>

(* The last user of a node, of whatever process, destroys it. *)
SharePut(t, i) ==
    /\ pc[t] = "idle"
    /\ shares[i] > 0
    /\ shares' = [shares EXCEPT ![i] = @ - 1]
    /\ Enter(t, "put", NoCtx, i)
    /\ UNCHANGED <<tableVars, procVars, current_id_num, pool, mapped>>

-----------------------------------------------------------------------------
(* trs_release *)

(* Threads inside an ioctl of context c keep its file open. *)
InUse(c) == \E t \in Threads : ctx[t] = c /\ pc[t] # "s_get"

(* trs_proc_release finds out whether anything is left, of this resource type *)
(* or of another one.                                                         *)
Release(t, c) ==
    /\ CanCall(t, c)
    /\ ~InUse(c)
    /\ exiting' = exiting \cup {c}
    /\ \E l \in {"r_check", "r_done"} :
          /\ l = "r_done" => ~(current_id_num[c.task] > 0)
          /\ Enter(t, l, c, NoId)
    /\ UNCHANGED <<tableVars, proc_list, exit_list, cur_task_id, current_id_num, pool,
                   mapped, shares>>

(* trs_proc_release_check_ts: the task scheduler has let go of the process, *)
(* or 300 tries were in vain and the context is put aside with its ids.     *)
ReleaseCheck(t) ==
    /\ pc[t] = "r_check"
    /\ \/ /\ Goto(t, "r_next")
          /\ UNCHANGED <<proc_list, exit_list>>
       \/ /\ proc_list' = proc_list \ {ctx[t]}
          /\ exit_list' = exit_list \cup {ctx[t]}
          /\ Leave(t)
    /\ UNCHANGED <<tableVars, exiting, cur_task_id, current_id_num, pool, mapped, shares>>

(* trs_for_each_proc_res_id: the next id is freed, until the count is 0. *)
ReleaseNext(t) ==
    LET left == {i \in Ids : IsIdPidMatch(i, ctx[t])}
    IN  /\ pc[t] = "r_next"
        /\ IF current_id_num[ctx[t].task] = 0 \/ left = {}
           THEN Enter(t, "r_done", ctx[t], NoId) /\ UNCHANGED ids
           ELSE \E i \in left : MarkDeleted(i) /\ Enter(t, "d_count", ctx[t], i)
        /\ UNCHANGED <<use_num, procVars, current_id_num, pool, mapped, shares>>

ReleaseDone(t) ==
    /\ pc[t] = "r_done"
    /\ proc_list' = proc_list \ {ctx[t]}
    /\ Leave(t)
    /\ UNCHANGED <<tableVars, exit_list, exiting, cur_task_id, current_id_num, pool,
                   mapped, shares>>

-----------------------------------------------------------------------------
Init ==
    /\ ids = [i \in Ids |-> Entry(NoPid, 0, "NORMAL", 0)]
    /\ use_num = 0
    /\ proc_list = {}
    /\ exit_list = {}
    /\ exiting = {}
    /\ cur_task_id = 0
    /\ current_id_num = [k \in Tasks |-> 0]
    /\ pool = [i \in Ids |-> 1]
    /\ mapped = [i \in Ids |-> FALSE]
    /\ shares = [i \in Ids |-> 0]
    /\ pc = [t \in Threads |-> "idle"]
    /\ ctx = [t \in Threads |-> NoCtx]
    /\ rid = [t \in Threads |-> NoId]

(* What a thread does by itself once it is inside a call. *)
Step(t) ==
    \/ OpenCreate(t)
    \/ MapNotice(t) \/ AddRes(t) \/ AddCount(t)
    \/ DelCount(t) \/ PutRes(t) \/ UnmapNotice(t) \/ FreeId(t)
    \/ ShareGet(t)
    \/ ReleaseCheck(t) \/ ReleaseNext(t) \/ ReleaseDone(t)

Call(t) ==
    \/ OpenWait(t)
    \/ \E c \in proc_list : Release(t, c)
    \/ \E i \in Ids : \/ \E c \in proc_list : AllocId(t, c, i) \/ FreeRes(t, c, i)
                                                \/ ShareFind(t, c, i)
                      \/ SharePut(t, i)

Next == \E t \in Threads : Call(t) \/ Step(t)

Spec == Init /\ [][Next]_vars

(* A thread inside a call runs on; nothing obliges a process to call. *)
FairSpec == Spec /\ \A t \in Threads : WF_vars(Step(t))

-----------------------------------------------------------------------------
(* Properties *)

Pcs == {"idle", "o_create", "a_map", "a_add", "a_count", "d_count", "put", "unmap", "free",
        "s_get", "r_check", "r_next", "r_done"}

Entries == [pid : Pids \cup {NoPid}, task : Tasks, status : {"NORMAL", "DEL"}, ref : Nat]

(* The variables have their types ... *)
ControlTypeOK ==
    /\ ids \in [Ids -> Entries]
    /\ use_num \in Int
    /\ proc_list \subseteq Contexts /\ exit_list \subseteq Contexts /\ exiting \subseteq Contexts
    /\ cur_task_id \in Tasks
    /\ current_id_num \in [Tasks -> Int]
    /\ pool \in [Ids -> Nat]
    /\ mapped \in [Ids -> BOOLEAN]
    /\ shares \in [Ids -> Nat]
    /\ pc \in [Threads -> Pcs]
    /\ ctx \in [Threads -> Contexts \cup {NoCtx}]
    /\ rid \in [Threads -> Ids \cup {NoId}]

(* ... and use_num, an unsigned number in the code, neither falls below zero  *)
(* nor exceeds the ids there are (trs_is_proc_res_limited subtracts the two). *)
TypeOK == ControlTypeOK /\ use_num \in 0 .. Cardinality(Ids)

Owned(i) == ids[i].pid # NoPid

(* t alone has id i in its hands: it took it off the free list, or it dropped *)
(* the last reference.                                                        *)
Carries(t, i) == rid[t] = i /\ pc[t] \in {"a_map", "a_add", "unmap", "free"}

(* An id is on the free list once, or entered in the table, or carried by one *)
(* thread, and only one of these, however frees by its process, the last      *)
(* close of a share and the recycling of the process meet.                    *)
IdConserved ==
    \A i \in Ids :
        /\ pool[i] \in {0, 1}
        /\ pool[i] = 1 => ~Owned(i)
        /\ \A t \in Threads : Carries(t, i) => pool[i] = 0 /\ ~Owned(i)
        /\ \A s, t \in Threads : Carries(s, i) /\ Carries(t, i) => s = t
        /\ pool[i] = 0 /\ ~Owned(i) => \E t \in Threads : Carries(t, i)

(* The references of an id are those of its owner, of the nodes that share    *)
(* it and of the threads about to drop one, so a put is never refused and an  *)
(* id is not freed under a share.                                             *)
RefsExact ==
    \A i \in Ids :
        ids[i].ref = shares[i]
                     + Cardinality({t \in Threads : rid[t] = i /\ pc[t] \in {"d_count", "put"}})
                     + (IF Owned(i) /\ ids[i].status = "NORMAL" THEN 1 ELSE 0)

(* Nothing of a closed context stays: an id that is entered for a context     *)
(* whose file is gone was deleted and waits for its last share, or the        *)
(* context was put aside because the task scheduler did not let go.           *)
NothingLeftBehind ==
    \A i \in Ids :
        Owned(i) /\ ids[i].status = "NORMAL" =>
            [pid |-> ids[i].pid, task |-> ids[i].task] \in proc_list \cup exit_list

(* The task scheduler knows every id that has an owner, whatever notices got  *)
(* lost and whoever freed the id before.                                      *)
OwnedIsMapped == \A i \in Ids : Owned(i) => mapped[i]

(* One pid has one context, so that trs_get_proc_task_id finds the right one  *)
(* ("Prevent starting processes with the same pid", trs_fops.c:533).          *)
OneContextPerPid == \A c, d \in proc_list : c.pid = d.pid => c = d

(* The count of ids in use is the number of ids with an owner. *)
UseNumExact == use_num = Cardinality({i \in Ids : Owned(i)})

(* Why these hold: parts of the inductive invariant of TrsResProofs. *)

(* A thread inside a call knows its id and its context. *)
CallShape ==
    \A t \in Threads :
        /\ pc[t] \in {"a_map", "a_add", "a_count", "d_count", "put", "unmap", "free", "s_get"} =>
              rid[t] \in Ids
        /\ pc[t] \in {"a_map", "a_add", "a_count", "d_count", "s_get", "r_check", "r_next", "r_done"} =>
              ctx[t] \in Contexts

(* An id has an owner as long as it has references. *)
RefInv == \A i \in Ids : Owned(i) <=> ids[i].ref > 0

(* An id about to be entered is known to the task scheduler. *)
AddMapped == \A t \in Threads : pc[t] = "a_add" => mapped[rid[t]]

(* A context in use is on the list; one that is being released is used by the *)
(* releasing thread only.                                                     *)
HoldInv ==
    /\ \A t \in Threads : ctx[t] # NoCtx /\ pc[t] # "s_get" => ctx[t] \in proc_list
    /\ \A t \in Threads : pc[t] \in {"r_check", "r_next", "r_done"} => ctx[t] \in exiting
    /\ \A s, t \in Threads :
          /\ ctx[s] = ctx[t] /\ ctx[t] \in exiting
          /\ pc[s] # "s_get" /\ pc[t] # "s_get"
          => s = t

(* A task id is given once. *)
TaskInv ==
    /\ \A c \in proc_list \cup exit_list : c.task < cur_task_id
    /\ \A c, d \in proc_list : c.task = d.task => c = d
    /\ \A k \in Tasks : k >= cur_task_id => current_id_num[k] = 0

(* The count of a context lags behind its ids by the threads that have not    *)
(* counted yet.                                                               *)
Norm(c)     == {i \in Ids : IsIdPidMatch(i, c)}
Adding(c)   == {t \in Threads : ctx[t] = c /\ pc[t] = "a_count"}
Deleting(c) == {t \in Threads : ctx[t] = c /\ pc[t] = "d_count"}

Exact(c) == current_id_num[c.task] =
                Cardinality(Norm(c)) - Cardinality(Adding(c)) + Cardinality(Deleting(c))

CountInv ==
    /\ \A c \in proc_list : Exact(c)
    /\ \A t \in Threads, c \in Contexts : pc[t] = "r_done" /\ ctx[t] = c => Norm(c) = {}

(* An id that was deleted and is not shared comes back to the free list. *)
DeletedComesBack ==
    \A i \in Ids :
        Owned(i) /\ ids[i].status = "DEL" /\ shares[i] = 0 ~> pool[i] = 1
=============================================================================
