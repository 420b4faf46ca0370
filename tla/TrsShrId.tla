------------------------------- MODULE TrsShrId -------------------------------
(***************************************************************************)
(* Notifies and events shared between processes: shr_id/trs_shr_id_node.c, *)
(* shr_id/trs_shr_id.c and shr_id/trs_shr_id_fops.c.                       *)
(*                                                                         *)
(* A process creates a node for an id it owns; the node holds a reference  *)
(* to the id (trs_res_id_get).  The creator puts pids on the white list of *)
(* the node, and the processes with these pids open and close it by name.  *)
(* The context of a process lists what it created and opened; when its     *)
(* file is closed, the thread that drops the last reference to the context *)
(* closes and destroys what is on the lists.  A pid can be used again by a *)
(* later process, which only its start time tells from the earlier one.    *)
(*                                                                         *)
(* One step is what is done under one lock (htable.lock, node->lock,       *)
(* proc_ctx->mutex, proc_lock, the mutex of the id table) or one operation *)
(* on a reference count.                                                   *)
(***************************************************************************)
EXTENDS Integers, FiniteSets

CONSTANTS Threads,   \* threads of all processes
          Pids,
          PidOf,     \* PidOf[t]: the pid of the process of thread t
          Ids,       \* ids of one resource type of one device
          PidMaxNum, \* SHR_ID_PID_MAX_NUM, slots of a white list
          MaxOpen,   \* TRS_SHR_ID_NODE_MAX_OPEN_NUM
          MaxListed, \* bound: so often is a node on a list of a context
          MaxClock,  \* MaxClock[p]: bound on the processes started with pid p
          NoPid,     \* pid 0: nobody
          NoName

ASSUME ShrAssumption ==
    /\ IsFiniteSet(Threads) /\ IsFiniteSet(Pids) /\ IsFiniteSet(Ids)
    /\ \A t \in Threads : PidOf[t] \in Pids
    /\ PidMaxNum \in Nat \ {0} /\ MaxOpen \in Nat \ {0}
    /\ MaxListed \in Nat \ {0} /\ MaxClock \in [Pids -> Nat]
    /\ NoPid \notin Pids
    /\ NoName \notin Pids \X Ids

(* shr_id_name_generate: the name of a node tells its creator and its id. *)
Names == Pids \X Ids

NotListed == -1

VARIABLES
    res,        \* the id table of trs_core: [pid, task, status, ref] of each id
    nodes,      \* names in htable
    creator,    \* node->pid
    ref,        \* node->ref
    set_time,   \* node->wlist: when a pid was put on the list, or NotListed
    open_num,   \* node->wlist: how often a pid has the node open
    procs,      \* pids in proc_htable
    file,       \* the file of the context is open
    proc_ref,   \* proc_ctx->ref
    start_time, \* proc_ctx->start_time
    created,    \* create_list_head: the ref of each name on it, 0 if not on it
    opened,     \* open_list_head
    clock,      \* processes with a pid that were started so far
    running,    \* one of them runs, the last
    call        \* what each thread is doing

nodeVars == <<nodes, creator, ref, set_time, open_num>>
procVars == <<procs, file, proc_ref, start_time, created, opened>>
timeVars == <<clock, running>>
vars == <<res, nodeVars, procVars, timeVars, call>>

(* A call works for the context of pid who on the node name; back is where it *)
(* goes on after its operation op on the node has succeeded.                  *)
Call(l, o, n, w, b) == [pc |-> l, op |-> o, name |-> n, who |-> w, back |-> b]
Idle == Call("idle", "none", NoName, NoPid, "idle")

Begin(t, l, o, n, w, b) == call' = [call EXCEPT ![t] = Call(l, o, n, w, b)]
Goto(t, l)   == call' = [call EXCEPT ![t].pc = l]
Return(t)    == call' = [call EXCEPT ![t] = Idle]
Resume(t, l) == IF l = "idle" THEN Return(t) ELSE Goto(t, l)

(* Where the call goes on after a failure: only the recycling does. *)
Failed(t) == IF call[t].back = "recycle" THEN "recycle" ELSE "idle"

-----------------------------------------------------------------------------
(* Processes, and the id table as far as a node can tell (see TrsRes). *)

(* The times that are compared belong to one pid, so its processes are all *)
(* that needs to be counted.                                               *)
ProcStart(p) ==
    /\ ~running[p]
    /\ clock[p] < MaxClock[p]
    /\ clock' = [clock EXCEPT ![p] = @ + 1]
    /\ running' = [running EXCEPT ![p] = TRUE]
    /\ UNCHANGED <<res, nodeVars, procVars, call>>

(* Its file may stay open, in the hands of a child. *)
ProcExit(p) ==
    /\ running[p]
    /\ \A t \in Threads : PidOf[t] = p => call[t] = Idle
    /\ running' = [running EXCEPT ![p] = FALSE]
    /\ UNCHANGED <<res, nodeVars, procVars, clock, call>>

Entry(p, k, s, r) == [pid |-> p, task |-> k, status |-> s, ref |-> r]

Unused == Entry(NoPid, 0, "NORMAL", 0)

(* trs_res_put: with the last reference the id is free. *)
Dropped(e) == IF e.ref <= 1 THEN Unused ELSE Entry(e.pid, e.task, e.status, e.ref - 1)

(* trs_proc_add_res *)
IdAlloc(p, i) ==
    /\ running[p]
    /\ res[i].pid = NoPid
    /\ res' = [res EXCEPT ![i] = Entry(p, clock[p], "NORMAL", 1)]
    /\ UNCHANGED <<nodeVars, procVars, timeVars, call>>

(* trs_proc_del_res, trs_res_put: by the owner or by its release. *)
IdFree(i) ==
    /\ res[i].pid # NoPid /\ res[i].status = "NORMAL"
    /\ res' = [res EXCEPT ![i] = Dropped(Entry(@.pid, @.task, "DEL", @.ref))]
    /\ UNCHANGED <<nodeVars, procVars, timeVars, call>>

-----------------------------------------------------------------------------
(* shr_id_file_open *)

(* shr_id_wait_for_proc_exit: no context of the pid is left. *)
OpenWait(t) ==
    /\ call[t] = Idle
    /\ running[PidOf[t]]
    /\ PidOf[t] \notin procs
    /\ Goto(t, "f_add")
    /\ UNCHANGED <<res, nodeVars, procVars, timeVars>>

NewProc(p) ==
    /\ procs' = procs \cup {p}
    /\ file' = [file EXCEPT ![p] = TRUE]
    /\ proc_ref' = [proc_ref EXCEPT ![p] = 1]
    /\ start_time' = [start_time EXCEPT ![p] = clock[p]]
    /\ created' = [created EXCEPT ![p] = [n \in Names |-> 0]]
    /\ opened' = [opened EXCEPT ![p] = [n \in Names |-> 0]]

(* shr_id_proc_create, shr_id_proc_add: another thread may have been faster, *)
(* or there is no memory.                                                    *)
OpenAdd(t) ==
    /\ call[t].pc = "f_add"
    /\ \/ PidOf[t] \notin procs /\ NewProc(PidOf[t])
       \/ UNCHANGED procVars
    /\ Return(t)
    /\ UNCHANGED <<res, nodeVars, timeVars>>

-----------------------------------------------------------------------------
(* shr_id_file_ioctl *)

CanCall(t) ==
    LET p == PidOf[t]
    IN  /\ call[t] = Idle
        /\ p \in procs /\ file[p]
        /\ running[p] /\ start_time[p] = clock[p]

(* Destroy, open, close or set pids of the node with this name. *)
Ioctl(t, o, n, b) ==
    /\ CanCall(t)
    /\ o = "open" => opened[PidOf[t]][n] < MaxListed
    /\ Begin(t, "get", o, n, PidOf[t], b)
    /\ UNCHANGED <<res, nodeVars, procVars, timeVars>>

(* shr_id_create: _shr_id_node_create takes a reference to an id that the *)
(* process owns.                                                          *)
Create(t, i) ==
    LET p == PidOf[t]
    IN  /\ CanCall(t)
        /\ created[p][<<p, i>>] < MaxListed
        /\ res[i].pid = p /\ res[i].task = start_time[p] /\ res[i].status = "NORMAL"
        /\ res' = [res EXCEPT ![i] = Entry(@.pid, @.task, @.status, @.ref + 1)]
        /\ Begin(t, "n_add", "create", <<p, i>>, p, "idle")
        /\ UNCHANGED <<nodeVars, procVars, timeVars>>

(* _shr_id_node_init *)
NewNode(n) ==
    /\ nodes' = nodes \cup {n}
    /\ creator' = [creator EXCEPT ![n] = n[1]]
    /\ ref' = [ref EXCEPT ![n] = 1]
    /\ set_time' = [set_time EXCEPT ![n] = [q \in Pids |-> IF q = n[1] THEN clock[q] ELSE NotListed]]
    /\ open_num' = [open_num EXCEPT ![n] = [q \in Pids |-> 0]]

(* Mutant of NodeAdd: a node with the same name is not noticed. *)
NodeAddBlind(t) ==
    LET n == call[t].name
    IN  /\ call[t].pc = "n_add"
        /\ NewNode(n) /\ Goto(t, "list")
        /\ UNCHANGED <<res, procVars, timeVars>>

(* shr_id_node_add; when the name is taken, _shr_id_node_destroy. *)
NodeAdd(t) ==
    LET n == call[t].name
    IN  /\ call[t].pc = "n_add"
        /\ \/ /\ n \notin nodes
              /\ NewNode(n)
              /\ Goto(t, "list")
           \/ /\ n \in nodes
              /\ Goto(t, "res_put")
              /\ UNCHANGED nodeVars
        /\ UNCHANGED <<res, procVars, timeVars>>

(* Mutant of AddToProc: what could not be listed is left as it is. *)
AddToProcKeeps(t) ==
    LET n == call[t].name
        p == call[t].who
    IN  /\ call[t].pc = "list"
        /\ IF call[t].op = "open"
           THEN /\ UNCHANGED created
                /\ \E k \in {opened[p][n], opened[p][n] + 1} : opened' = [opened EXCEPT ![p][n] = k]
           ELSE /\ UNCHANGED opened
                /\ \E k \in {created[p][n], created[p][n] + 1} : created' = [created EXCEPT ![p][n] = k]
        /\ Return(t)
        /\ UNCHANGED <<res, nodeVars, procs, file, proc_ref, start_time, timeVars>>

(* shr_id_add_to_proc: a name that is not on the list yet needs memory; when *)
(* there is none, what was done to the node is undone.                       *)
AddToProc(t) ==
    LET n == call[t].name
        p == call[t].who
        open == call[t].op = "open"
        listed == IF open THEN opened[p][n] ELSE created[p][n]
    IN  /\ call[t].pc = "list"
        /\ \/ /\ opened' = IF open THEN [opened EXCEPT ![p][n] = @ + 1] ELSE opened
              /\ created' = IF open THEN created ELSE [created EXCEPT ![p][n] = @ + 1]
              /\ Return(t)
           \/ /\ listed = 0
              /\ Begin(t, "get", IF open THEN "close" ELSE "destroy", n, p, "idle")
              /\ UNCHANGED <<opened, created>>
        /\ UNCHANGED <<res, nodeVars, procs, file, proc_ref, start_time, timeVars>>

(* shr_id_del_from_proc; the name need not be on the list. *)
DelFromProc(t) ==
    LET n == call[t].name
        p == call[t].who
    IN  /\ call[t].pc = "unlist"
        /\ IF call[t].op = "close"
           THEN /\ opened' = [opened EXCEPT ![p][n] = IF @ = 0 THEN 0 ELSE @ - 1]
                /\ UNCHANGED created
           ELSE /\ created' = [created EXCEPT ![p][n] = IF @ = 0 THEN 0 ELSE @ - 1]
                /\ UNCHANGED opened
        /\ Return(t)
        /\ UNCHANGED <<res, nodeVars, procs, file, proc_ref, start_time, timeVars>>

-----------------------------------------------------------------------------
(* trs_shr_id_node.c: operations on a node by its name *)

(* shr_id_node_get; to a destroy, a node that is not there is as good as *)
(* destroyed.                                                            *)
NodeGet(t) ==
    LET n == call[t].name
        alive == n \in nodes /\ ref[n] > 0
    IN  /\ call[t].pc = "get"
        /\ \/ /\ alive
              /\ ref' = [ref EXCEPT ![n] = @ + 1]
              /\ Goto(t, "do")
           \/ /\ ~alive
              /\ Resume(t, IF call[t].op = "destroy" THEN call[t].back ELSE Failed(t))
              /\ UNCHANGED ref
        /\ UNCHANGED <<res, nodes, creator, set_time, open_num, procVars, timeVars>>

(* The operation was refused: the node is put and nothing else. *)
Refuse(t) == call' = [call EXCEPT ![t].pc = "put", ![t].back = Failed(t)]

(* _shr_id_node_uninit: only the creator destroys, and only once. *)
NodeDestroy(t) ==
    LET n == call[t].name
    IN  /\ call[t].pc = "do" /\ call[t].op = "destroy"
        /\ \/ /\ creator[n] = call[t].who
              /\ creator' = [creator EXCEPT ![n] = NoPid]
              /\ Goto(t, "put2")
           \/ /\ creator[n] # call[t].who
              /\ Refuse(t)
              /\ UNCHANGED creator
        /\ UNCHANGED <<res, nodes, ref, set_time, open_num, procVars, timeVars>>

Listed(n, q) == set_time[n][q] # NotListed

(* Mutant of MayOpen: the start time is not compared. *)
MayOpenAnyTime(n, p) == Listed(n, p) /\ open_num[n][p] < MaxOpen

(* _shr_id_node_open: the pid is on the white list, and was put there for *)
(* the process that runs now.                                             *)
MayOpen(n, p) ==
    /\ Listed(n, p)
    /\ ~(start_time[p] > set_time[n][p])
    /\ open_num[n][p] < MaxOpen

(* A node that is open keeps the reference. *)
NodeOpen(t) ==
    LET n == call[t].name
        p == call[t].who
    IN  /\ call[t].pc = "do" /\ call[t].op = "open"
        /\ \/ /\ MayOpen(n, p)
              /\ open_num' = [open_num EXCEPT ![n][p] = @ + 1]
              /\ Goto(t, "list")
           \/ /\ ~MayOpen(n, p)
              /\ Refuse(t)
              /\ UNCHANGED open_num
        /\ UNCHANGED <<res, nodes, creator, ref, set_time, procVars, timeVars>>

(* Mutant of NodeClose: the reference of the open is not dropped. *)
NodeCloseOnce(t) ==
    LET n == call[t].name
        p == call[t].who
    IN  /\ call[t].pc = "do" /\ call[t].op = "close"
        /\ \/ /\ open_num[n][p] > 0
              /\ open_num' = [open_num EXCEPT ![n][p] = @ - 1]
              /\ Goto(t, "put")
           \/ /\ open_num[n][p] = 0
              /\ Refuse(t)
              /\ UNCHANGED open_num
        /\ UNCHANGED <<res, nodes, creator, ref, set_time, procVars, timeVars>>

(* Mutant of NodeClose: a node that is not open is closed all the same. *)
NodeCloseAny(t) ==
    LET n == call[t].name
        p == call[t].who
    IN  /\ call[t].pc = "do" /\ call[t].op = "close"
        /\ open_num' = [open_num EXCEPT ![n][p] = @ - 1]
        /\ Goto(t, "put2")
        /\ UNCHANGED <<res, nodes, creator, ref, set_time, procVars, timeVars>>

(* _shr_id_node_close *)
NodeClose(t) ==
    LET n == call[t].name
        p == call[t].who
    IN  /\ call[t].pc = "do" /\ call[t].op = "close"
        /\ \/ /\ open_num[n][p] > 0
              /\ open_num' = [open_num EXCEPT ![n][p] = @ - 1]
              /\ Goto(t, "put2")
           \/ /\ open_num[n][p] = 0
              /\ Refuse(t)
              /\ UNCHANGED open_num
        /\ UNCHANGED <<res, nodes, creator, ref, set_time, procVars, timeVars>>

(* _shr_id_node_set_pids with one pid in its array: only the creator, only *)
(* other pids, and only while there is a slot.                             *)
NodeSetPid(t) ==
    LET n == call[t].name
        full == Cardinality({q \in Pids : Listed(n, q)}) >= PidMaxNum
    IN  /\ call[t].pc = "do" /\ call[t].op = "set"
        /\ \/ \E q \in Pids \ {creator[n]} :
                 /\ creator[n] = call[t].who
                 /\ Listed(n, q) \/ ~full
                 /\ set_time' = [set_time EXCEPT ![n][q] = clock[q]]
           \/ UNCHANGED set_time
        /\ Goto(t, "put")
        /\ UNCHANGED <<res, nodes, creator, ref, open_num, procVars, timeVars>>

(* The reference of the creation or of the open; the own one is left. *)
NodePut2(t) ==
    LET n == call[t].name
    IN  /\ call[t].pc = "put2"
        /\ ref' = [ref EXCEPT ![n] = @ - 1]
        /\ Goto(t, "put")
        /\ UNCHANGED <<res, nodes, creator, set_time, open_num, procVars, timeVars>>

(* Mutant of NodePut: the last reference is not noticed. *)
NodePutKeeps(t) ==
    LET n == call[t].name
    IN  /\ call[t].pc = "put"
        /\ ref' = [ref EXCEPT ![n] = @ - 1]
        /\ Resume(t, call[t].back)
        /\ UNCHANGED <<res, nodes, creator, set_time, open_num, procVars, timeVars>>

(* shr_id_node_put: the last one releases the node. *)
NodePut(t) ==
    LET n == call[t].name
    IN  /\ call[t].pc = "put"
        /\ ref' = [ref EXCEPT ![n] = @ - 1]
        /\ \/ ref[n] = 1 /\ Goto(t, "del")
           \/ ref[n] # 1 /\ Resume(t, call[t].back)
        /\ UNCHANGED <<res, nodes, creator, set_time, open_num, procVars, timeVars>>

(* shr_id_node_release: the name is free again; what was in the memory of the *)
(* node does not matter any more ...                                          *)
NodeDel(t) ==
    LET n == call[t].name
    IN  /\ call[t].pc = "del"
        /\ nodes' = nodes \ {n}
        /\ set_time' = [set_time EXCEPT ![n] = [q \in Pids |-> NotListed]]
        /\ Goto(t, "res_put")
        /\ UNCHANGED <<res, creator, ref, open_num, procVars, timeVars>>

(* ... then trs_res_id_put of _shr_id_node_destroy. *)
ResPut(t) ==
    /\ call[t].pc = "res_put"
    /\ res' = [res EXCEPT ![call[t].name[2]] = Dropped(@)]
    /\ Resume(t, call[t].back)
    /\ UNCHANGED <<nodeVars, procVars, timeVars>>

-----------------------------------------------------------------------------
(* shr_id_file_release, shr_id_is_belong_to_proc *)

(* shr_id_proc_put: whoever drops the last reference recycles the context. *)
ProcPut(t, p) ==
    /\ proc_ref' = [proc_ref EXCEPT ![p] = @ - 1]
    /\ IF proc_ref[p] = 1 THEN Begin(t, "recycle", "none", NoName, p, "recycle") ELSE Return(t)

(* A thread inside an ioctl keeps the file open. *)
InUse(p) == \E t \in Threads : call[t].who = p /\ call[t].pc # "belong"

FileRelease(t, p) ==
    /\ call[t] = Idle
    /\ p \in procs /\ file[p] /\ ~InUse(p)
    /\ file' = [file EXCEPT ![p] = FALSE]
    /\ ProcPut(t, p)
    /\ UNCHANGED <<res, nodeVars, procs, start_time, created, opened, timeVars>>

(* Mutant of Belong: a context whose recycling has begun is taken. *)
BelongAny(t, p) ==
    /\ call[t] = Idle
    /\ p \in procs
    /\ proc_ref' = [proc_ref EXCEPT ![p] = @ + 1]
    /\ Begin(t, "belong", "none", NoName, p, "idle")
    /\ UNCHANGED <<res, nodeVars, procs, file, start_time, created, opened, timeVars>>

(* shr_id_proc_get, by a thread of trs_core that asks for the ids of pid p ... *)
Belong(t, p) ==
    /\ call[t] = Idle
    /\ p \in procs /\ proc_ref[p] > 0
    /\ proc_ref' = [proc_ref EXCEPT ![p] = @ + 1]
    /\ Begin(t, "belong", "none", NoName, p, "idle")
    /\ UNCHANGED <<res, nodeVars, procs, file, start_time, created, opened, timeVars>>

(* ... reads its lists and puts the context. *)
BelongPut(t) ==
    /\ call[t].pc = "belong"
    /\ ProcPut(t, call[t].who)
    /\ UNCHANGED <<res, nodeVars, procs, file, start_time, created, opened, timeVars>>

(* Mutant of RecycleOpened: an entry is closed once, whatever its ref. *)
RecycleOpenedOnce(t, n) ==
    LET p == call[t].who
    IN  /\ call[t].pc = "recycle"
        /\ opened[p][n] > 0
        /\ opened' = [opened EXCEPT ![p][n] = 0]
        /\ Begin(t, "get", "close", n, p, "recycle")
        /\ UNCHANGED <<res, nodeVars, procs, file, proc_ref, start_time, created, timeVars>>

(* shr_id_recycle_opened: one close for each reference of an entry ... *)
RecycleOpened(t, n) ==
    LET p == call[t].who
    IN  /\ call[t].pc = "recycle"
        /\ opened[p][n] > 0
        /\ opened' = [opened EXCEPT ![p][n] = @ - 1]
        /\ Begin(t, "get", "close", n, p, "recycle")
        /\ UNCHANGED <<res, nodeVars, procs, file, proc_ref, start_time, created, timeVars>>

(* ... then shr_id_recycle_created, one destroy for each entry ... *)
RecycleCreated(t, n) ==
    LET p == call[t].who
    IN  /\ call[t].pc = "recycle"
        /\ \A m \in Names : opened[p][m] = 0
        /\ created[p][n] > 0
        /\ created' = [created EXCEPT ![p][n] = 0]
        /\ Begin(t, "get", "destroy", n, p, "recycle")
        /\ UNCHANGED <<res, nodeVars, procs, file, proc_ref, start_time, opened, timeVars>>

(* ... and then only _shr_id_proc_del. *)
RecycleDone(t) ==
    LET p == call[t].who
    IN  /\ call[t].pc = "recycle"
        /\ \A m \in Names : opened[p][m] = 0 /\ created[p][m] = 0
        /\ procs' = procs \ {p}
        /\ start_time' = [start_time EXCEPT ![p] = 0]
        /\ Return(t)
        /\ UNCHANGED <<res, nodeVars, file, proc_ref, created, opened, timeVars>>

-----------------------------------------------------------------------------
Init ==
    /\ res = [i \in Ids |-> Unused]
    /\ nodes = {}
    /\ creator = [n \in Names |-> NoPid]
    /\ ref = [n \in Names |-> 0]
    /\ set_time = [n \in Names |-> [q \in Pids |-> NotListed]]
    /\ open_num = [n \in Names |-> [q \in Pids |-> 0]]
    /\ procs = {}
    /\ file = [p \in Pids |-> FALSE]
    /\ proc_ref = [p \in Pids |-> 0]
    /\ start_time = [p \in Pids |-> 0]
    /\ created = [p \in Pids |-> [n \in Names |-> 0]]
    /\ opened = [p \in Pids |-> [n \in Names |-> 0]]
    /\ clock = [p \in Pids |-> 0]
    /\ running = [p \in Pids |-> FALSE]
    /\ call = [t \in Threads |-> Idle]

(* What a thread does by itself once it is inside a call. *)
Step(t) ==
    \/ OpenAdd(t)
    \/ NodeAdd(t) \/ AddToProc(t) \/ DelFromProc(t)
    \/ NodeGet(t) \/ NodeDestroy(t) \/ NodeOpen(t) \/ NodeClose(t) \/ NodeSetPid(t)
    \/ NodePut2(t) \/ NodePut(t) \/ NodeDel(t) \/ ResPut(t)
    \/ BelongPut(t) \/ RecycleDone(t)
    \/ \E n \in Names : RecycleOpened(t, n) \/ RecycleCreated(t, n)

Enter(t) ==
    \/ OpenWait(t)
    \/ \E i \in Ids : Create(t, i)
    \/ \E n \in Names : \/ Ioctl(t, "destroy", n, "unlist") \/ Ioctl(t, "close", n, "unlist")
                        \/ Ioctl(t, "open", n, "list") \/ Ioctl(t, "set", n, "idle")
    \/ \E p \in Pids : FileRelease(t, p) \/ Belong(t, p)

Next ==
    \/ \E p \in Pids : ProcStart(p) \/ ProcExit(p) \/ \E i \in Ids : IdAlloc(p, i)
    \/ \E i \in Ids : IdFree(i)
    \/ \E t \in Threads : Enter(t) \/ Step(t)

Spec == Init /\ [][Next]_vars

(* A thread inside a call runs on; nothing obliges a process to call. *)
FairSpec == Spec /\ \A t \in Threads : WF_vars(Step(t))

-----------------------------------------------------------------------------
(* Properties *)

Pcs == {"idle", "f_add", "n_add", "list", "unlist", "get", "do", "put2", "put", "del",
        "res_put", "belong", "recycle"}
Ops == {"none", "create", "destroy", "open", "close", "set"}

(* The variables have their types: no reference count falls below zero. *)
TypeOK ==
    /\ res \in [Ids -> [pid : Pids \cup {NoPid}, task : Nat,
                        status : {"NORMAL", "DEL"}, ref : Nat]]
    /\ nodes \subseteq Names
    /\ creator \in [Names -> Pids \cup {NoPid}]
    /\ ref \in [Names -> Nat]
    /\ set_time \in [Names -> [Pids -> Nat \cup {NotListed}]]
    /\ open_num \in [Names -> [Pids -> 0 .. MaxOpen]]
    /\ procs \subseteq Pids
    /\ file \in [Pids -> BOOLEAN]
    /\ proc_ref \in [Pids -> Nat]
    /\ start_time \in [Pids -> Nat]
    /\ created \in [Pids -> [Names -> Nat]]
    /\ opened \in [Pids -> [Names -> Nat]]
    /\ clock \in [Pids -> Nat]
    /\ running \in [Pids -> BOOLEAN]
    /\ call \in [Threads -> [pc : Pcs, op : Ops, name : Names \cup {NoName},
                             who : Pids \cup {NoPid}, back : Pcs]]

(* Threads that hold a reference to node n of their own, or are about to drop *)
(* the one of the creation or of an open.                                     *)
Holding(n)  == {t \in Threads : call[t].name = n /\ call[t].pc \in {"do", "put2", "put"}}
Dropping(n) == {t \in Threads : call[t].name = n /\ call[t].pc = "put2"}
Opens(n)    == {o \in Pids \X (1 .. MaxOpen) : o[2] <= open_num[n][o[1]]}
Created(n)  == IF creator[n] = NoPid THEN 0 ELSE 1

(* The references of a node are its creation, its opens and the threads at    *)
(* work on it, so it goes with the last of them: never under an opener, never *)
(* too late (kref of shr_id_node, dropped at five places).                    *)
NodeRefsExact ==
    \A n \in nodes :
        ref[n] = Created(n) + Cardinality(Opens(n)) + Cardinality(Holding(n))
                 + Cardinality(Dropping(n))

(* Threads that hold a reference to id i for a node not entered or not any    *)
(* more.                                                                      *)
Carrying(i) == {t \in Threads : /\ call[t].name # NoName /\ call[t].name[2] = i
                                /\ \/ call[t].pc = "n_add" /\ call[t].op = "create"
                                   \/ call[t].pc = "res_put"}
Sharing(i)  == {n \in nodes : n[2] = i}

(* Every node holds one reference to its id and gives it back once,           *)
(* whoever closes last: the id that an opener was told cannot be allocated to *)
(* somebody else meanwhile, and still belongs to the creator of the node.     *)
IdRefsExact ==
    /\ \A i \in Ids :
          res[i].ref = Cardinality(Sharing(i)) + Cardinality(Carrying(i))
                       + (IF res[i].pid # NoPid /\ res[i].status = "NORMAL" THEN 1 ELSE 0)
    /\ \A n \in nodes : res[n[2]].pid = n[1]

(* The open that a thread is to undo, for want of memory to list it, has been *)
(* closed by another thread of its process.                                   *)
Forestalled ==
    \E t \in Threads :
        /\ call[t].pc \in {"get", "do"} /\ call[t].op = "close" /\ call[t].back = "idle"
        /\ open_num[call[t].name][call[t].who] = 0

(* A thread is to create a node that another thread of its process has just   *)
(* destroyed, or found destroyed, and not taken off the list yet.             *)
Crossed ==
    \E s, t \in Threads :
        /\ call[t].pc = "n_add"
        /\ call[s].name = call[t].name /\ call[s].who = call[t].who
        /\ call[s].op = "destroy" /\ call[s].back = "unlist"
        /\ call[s].pc \in {"put2", "put", "del", "res_put", "unlist"}

(* A context that is gone has nothing open, although its list of opens is     *)
(* brought up to date after the nodes, under another lock, and what could not *)
(* be listed is undone by name.  Unless a thread is Forestalled: the list is  *)
(* one entry short from then on.                                              *)
GoneHasNothingOpen == \A n \in nodes, p \in Pids \ procs : open_num[n][p] = 0

(* Nothing that a context created outlives it but for those who have it open  *)
(* ("After the recovery is complete, delete the process context",             *)
(* trs_shr_id.c:201): otherwise the id could never be given back.             *)
GoneCreatedNothing == \A n \in nodes, p \in Pids \ procs : creator[n] # p

(* Who has a node open was already running when the creator put its pid on    *)
(* the list; a later process with the same pid is not let in ("Prevent        *)
(* scenario described below", trs_shr_id_node.c:370).                         *)
OpenersWereInvited ==
    \A n \in nodes, p \in procs : open_num[n][p] > 0 => start_time[p] <= set_time[n][p]

(* The context that a thread reads or recycles is there, and is recycled by   *)
(* one thread, after the last other one has let go of it.                     *)
ContextHeld ==
    /\ \A t \in Threads : call[t].who # NoPid => call[t].who \in procs
    /\ \A p \in procs :
          proc_ref[p] = (IF file[p] THEN 1 ELSE 0)
                        + Cardinality({t \in Threads : call[t].who = p /\ call[t].pc = "belong"})
    /\ \A s, t \in Threads : call[s].back = "recycle" /\ call[t].who = call[s].who => s = t

(* An id that its owner has freed comes back once nobody has the file open    *)
(* any more through which it was shared.                                      *)
SharedIdComesBack ==
    \A i \in Ids :
        res[i].status = "DEL" /\ (\A p \in procs : proc_ref[p] = 0)
            ~> res[i].pid = NoPid \/ \E p \in procs : proc_ref[p] > 0
=============================================================================
