-------------------------------- MODULE TrsId --------------------------------
(***************************************************************************)
(* The ids of one resource type, shared by a host and its device:          *)
(* id_allocator/trs_id.c on both sides, lba/near/comm/adapt/trs_host_id.c  *)
(* and the agent lba/near/sia/agent/trs_pm_agent.c between them, and       *)
(* id_pool/id_pool.c with lba/local/sia/adapt/trs_device_id.c on the       *)
(* device.                                                                 *)
(*                                                                         *)
(* Each side keeps free ids on a list of its own pool and takes and gives  *)
(* back batches: the device directly from the id_pool, the host by GET and *)
(* PUT messages to the agent, which marks what the host has.  A device     *)
(* that finds the id_pool empty asks the host with a FLUSH message to give *)
(* back what lies on its list.  Messages are sent with the mutex of the    *)
(* sender's pool held.                                                     *)
(*                                                                         *)
(* One step is what happens under one mutex without waiting for a message, *)
(* or one id moved by the agent or the id_pool.                            *)
(***************************************************************************)
EXTENDS Integers, FiniteSets

CONSTANTS HostUsers, DeviceUsers, \* threads that allocate and free
          Flusher,    \* the context on the host that handles FLUSH messages
          Ids,
          Batch,      \* attr.batch_num of a type that is cached
          MaxFaults,  \* bound: messages that fail
          Nobody

Users   == HostUsers \cup DeviceUsers
Threads == Users \cup {Flusher}
Sides   == {"host", "device"}

(* attr.id_num, the same on both sides; trs_id_attr_check refuses 0. *)
IdNum == Cardinality(Ids)

ASSUME IdAssumption ==
    /\ IsFiniteSet(Threads) /\ IsFiniteSet(Ids) /\ Ids # {}
    /\ HostUsers \cap DeviceUsers = {}
    /\ Flusher \notin Users /\ Nobody \notin Threads
    /\ Batch \in Nat \ {0, 1} /\ MaxFaults \in Nat

SideOf(t) == IF t \in DeviceUsers THEN "device" ELSE "host"

VARIABLES
    noncache,   \* sides on which the type is_non_cache_type
    registered, \* g_trs_id_pool of a side holds the pool
    ref,        \* id_pool->ref
    mutex,      \* holder of id_pool->mutex
    cache,      \* the list of free ids of a pool
    alloc_num,  \* id_pool->alloc_num
    held,       \* ids that were given to a thread
    call,       \* where each thread is, and the id it frees
    mail,       \* messages: the one a thread waits for, and one it gave up on
    avail,      \* ids free in the id_pool of the device
    marked,     \* id_recycle->info[type].used
    faults,     \* messages that failed so far
    stranded    \* ids whose holder found no pool to give them to

poolVars == <<registered, ref, mutex, cache, alloc_num>>
vars == <<noncache, poolVars, held, call, mail, avail, marked, faults, stranded>>

At(t, pc) == call[t].pc = pc
Goto(t, pc) == call' = [call EXCEPT ![t] = [pc |-> pc, ids |-> {}]]

-----------------------------------------------------------------------------
(* Messages.  The sender is blocked until its message has a result. *)

Now(t)  == <<t, "now">>
Late(t) == <<t, "late">>
Slots   == Threads \X {"now", "late"}
NoMail  == [cmd |-> "none", ids |-> {}, n |-> 0, res |-> "none"]
Msg(cmd, ids, n) == [cmd |-> cmd, ids |-> ids, n |-> n, res |-> "sent"]

Send(t, msg) == mail' = [mail EXCEPT ![Now(t)] = msg]
Result(t)    == mail[Now(t)].res
Arrived(t)   == Result(t) \in {"ok", "err"}
Pending(m)   == mail[m].res \in {"sent", "busy"}

(* The answer to a message whose sender gave up is thrown away. *)
Answer(m, ids, res) ==
    IF m[2] = "late" THEN NoMail
    ELSE [cmd |-> mail[m].cmd, ids |-> ids, n |-> 0, res |-> res]

(* A message crosses the link unless a device thread calls its own id_pool. *)
OnLink(m) == SideOf(m[1]) = "host" \/ mail[m].cmd = "FLUSH"

(* A message cannot be sent. *)
NotSent(t) ==
    /\ OnLink(Now(t)) /\ Result(t) = "sent"
    /\ faults < MaxFaults /\ faults' = faults + 1
    /\ mail' = [mail EXCEPT ![Now(t)] = Answer(Now(t), {}, "err")]
    /\ UNCHANGED <<noncache, poolVars, held, call, avail, marked, stranded>>

(* The sender sees a timeout; the message is handled nevertheless. *)
GiveUp(t) ==
    /\ OnLink(Now(t)) /\ Pending(Now(t)) /\ mail[Late(t)] = NoMail
    /\ faults < MaxFaults /\ faults' = faults + 1
    /\ mail' = [mail EXCEPT ![Late(t)] = mail[Now(t)],
                            ![Now(t)] = Answer(Now(t), {}, "err")]
    /\ UNCHANGED <<noncache, poolVars, held, call, avail, marked, stranded>>

GetUnmarked(m) ==
    /\ mail[m].cmd = "GET" /\ Pending(m) /\ mail[m].n > 0
    /\ \E i \in avail :
          /\ avail' = avail \ {i}
          /\ mail' = [mail EXCEPT ![m] = [cmd |-> "GET", ids |-> @.ids \cup {i},
                                          n |-> @.n - 1, res |-> "busy"]]
    /\ UNCHANGED <<noncache, poolVars, held, call, marked, faults, stranded>>

(* trs_pm_agent_get_id and, for a device thread, id_pool_alloc: one id. *)
GetOne(m) ==
    /\ mail[m].cmd = "GET" /\ Pending(m) /\ mail[m].n > 0
    /\ \E i \in avail :
          /\ avail' = avail \ {i}
          /\ marked' = IF SideOf(m[1]) = "host" THEN marked \cup {i} ELSE marked
          /\ mail' = [mail EXCEPT ![m] = [cmd |-> "GET", ids |-> @.ids \cup {i},
                                          n |-> @.n - 1, res |-> "busy"]]
    /\ UNCHANGED <<noncache, poolVars, held, call, faults, stranded>>

(* All that was asked for, all there is, or, when idr_alloc finds no memory,  *)
(* less; nothing at all is -ENOSPC.                                           *)
GetEnd(m) ==
    /\ mail[m].cmd = "GET" /\ Pending(m)
    /\ mail' = [mail EXCEPT ![m] =
                  Answer(m, @.ids, IF @.ids = {} THEN "err" ELSE "ok")]
    /\ UNCHANGED <<noncache, poolVars, held, call, avail, marked, faults, stranded>>

(* The agent through the allocator of the device instead of its id_pool. *)
PutOneLocked(m) ==
    /\ mail[m].cmd = "PUT" /\ Pending(m)
    /\ SideOf(m[1]) = "host" => mutex["device"] = Nobody
    /\ \E i \in mail[m].ids :
         LET refused == SideOf(m[1]) = "host" /\ i \notin marked
             rest    == IF refused THEN {} ELSE mail[m].ids \ {i}
         IN /\ avail' = IF refused THEN avail ELSE avail \cup {i}
            /\ marked' = IF SideOf(m[1]) = "host" THEN marked \ {i} ELSE marked
            /\ mail' = [mail EXCEPT ![m] =
                          IF rest = {} THEN Answer(m, {}, "ok")
                          ELSE [@ EXCEPT !.ids = rest, !.res = "busy"]]
    /\ UNCHANGED <<noncache, poolVars, held, call, faults, stranded>>

(* trs_pm_agent_put_id: clear the mark, free the id; an id without a mark     *)
(* ends the loop, and the answer is success all the same.  A device thread    *)
(* calls id_pool_free itself (trs_device_free_id_batch).                      *)
PutOne(m) ==
    /\ mail[m].cmd = "PUT" /\ Pending(m)
    /\ \E i \in mail[m].ids :
         LET refused == SideOf(m[1]) = "host" /\ i \notin marked
             rest    == IF refused THEN {} ELSE mail[m].ids \ {i}
         IN /\ avail' = IF refused THEN avail ELSE avail \cup {i}
            /\ marked' = IF SideOf(m[1]) = "host" THEN marked \ {i} ELSE marked
            /\ mail' = [mail EXCEPT ![m] =
                          IF rest = {} THEN Answer(m, {}, "ok")
                          ELSE [@ EXCEPT !.ids = rest, !.res = "busy"]]
    /\ UNCHANGED <<noncache, poolVars, held, call, faults, stranded>>

-----------------------------------------------------------------------------
(* The pool of a side: reference count and mutex. *)

(* trs_id_pool_get *)
Get(t, pc, ids) ==
    /\ registered[SideOf(t)]
    /\ ref' = [ref EXCEPT ![SideOf(t)] = @ + 1]
    /\ call' = [call EXCEPT ![t] = [pc |-> pc, ids |-> ids]]

Lock(t)   == mutex[SideOf(t)] = Nobody /\ mutex' = [mutex EXCEPT ![SideOf(t)] = t]
Unlock(t) == mutex' = [mutex EXCEPT ![SideOf(t)] = Nobody]

(* Where a thread goes that is done with the pool: the handler of a FLUSH has *)
(* to answer it.                                                              *)
Return(t) == Goto(t, IF t = Flusher THEN "reply" ELSE "idle")

(* trs_id_pool_put: the last reference destroys the pool, without the mutex. *)
Put(t) ==
    /\ At(t, "put")
    /\ ref' = [ref EXCEPT ![SideOf(t)] = @ - 1]
    /\ IF ref[SideOf(t)] = 1 THEN Goto(t, "flush") ELSE Return(t)
    /\ UNCHANGED <<noncache, registered, mutex, cache, alloc_num, held, mail, avail, marked, faults, stranded>>

UnregisterPuts(t) ==
    /\ t \in Users /\ At(t, "idle") /\ registered[SideOf(t)]
    /\ Goto(t, "put")
    /\ UNCHANGED <<noncache, poolVars, held, mail, avail, marked, faults, stranded>>

(* trs_id_unregister, trs_id_pool_del *)
Unregister(t) ==
    /\ t \in Users /\ At(t, "idle") /\ registered[SideOf(t)]
    /\ registered' = [registered EXCEPT ![SideOf(t)] = FALSE]
    /\ Goto(t, "put")
    /\ UNCHANGED <<noncache, ref, mutex, cache, alloc_num, held, mail, avail, marked, faults, stranded>>

-----------------------------------------------------------------------------
(* trs_id_alloc *)

Cached(s) == s \notin noncache

Alloc(t) ==
    /\ t \in Users /\ At(t, "idle")
    /\ Get(t, "alloc", {})
    /\ UNCHANGED <<noncache, registered, mutex, cache, alloc_num, held, mail, avail, marked, faults, stranded>>

(* _trs_id_pool_alloc_one_id from a list that is not empty. *)
TakeOne(t) ==
    \E i \in cache[SideOf(t)] :
        /\ cache' = [cache EXCEPT ![SideOf(t)] = @ \ {i}]
        /\ held' = [held EXCEPT ![t] = @ \cup {i}]
        /\ alloc_num' = [alloc_num EXCEPT ![SideOf(t)] = @ + 1]

AllocCached(t) ==
    /\ At(t, "alloc") /\ mutex[SideOf(t)] = Nobody
    /\ Cached(SideOf(t)) /\ TakeOne(t)
    /\ Goto(t, "put")
    /\ UNCHANGED <<noncache, registered, ref, mutex, mail, avail, marked, faults, stranded>>

(* trs_id_pool_alloc_batch: how many ids are asked for. *)
ReqNum(s) ==
    IF ~Cached(s) THEN 1
    ELSE LET remain == IdNum - alloc_num[s] IN IF remain > Batch THEN Batch ELSE remain

(* As many as there are ids are allocated already. *)
AllocExhausted(t) ==
    LET s == SideOf(t)
    IN /\ At(t, "alloc") /\ mutex[s] = Nobody
       /\ Cached(s) /\ cache[s] = {} /\ ReqNum(s) = 0
       /\ Goto(t, "put")
       /\ UNCHANGED <<noncache, poolVars, held, mail, avail, marked, faults, stranded>>

(* trs_host_alloc_id_batch; the device looks at its id_pool first. *)
AllocBatch(t) ==
    LET s == SideOf(t)
    IN /\ At(t, "alloc") /\ Lock(t)
       /\ cache[s] = {} /\ ReqNum(s) > 0
       /\ IF s = "host"
          THEN Goto(t, "get") /\ Send(t, Msg("GET", {}, ReqNum(s)))
          ELSE Goto(t, "avail") /\ UNCHANGED mail
       /\ UNCHANGED <<noncache, registered, ref, cache, alloc_num, held, avail, marked, faults, stranded>>

(* trs_device_alloc_id_batch: never more than one id. *)
CheckAvail(t) ==
    /\ At(t, "avail")
    /\ IF avail = {}
       THEN Goto(t, "sync") /\ Send(t, Msg("FLUSH", {}, 0))
       ELSE Goto(t, "get") /\ Send(t, Msg("GET", {}, 1))
    /\ UNCHANGED <<noncache, poolVars, held, avail, marked, faults, stranded>>

AllocFails(t) == Unlock(t) /\ Goto(t, "put")

Synced(t) ==
    /\ At(t, "sync") /\ Arrived(t)
    /\ IF Result(t) = "ok"
       THEN Goto(t, "get") /\ Send(t, Msg("GET", {}, 1)) /\ UNCHANGED mutex
       ELSE AllocFails(t) /\ Send(t, NoMail)
    /\ UNCHANGED <<noncache, registered, ref, cache, alloc_num, held, avail, marked, faults, stranded>>

GotOneUncounted(t) ==
    /\ At(t, "get") /\ Result(t) = "ok" /\ ~Cached(SideOf(t))
    /\ held' = [held EXCEPT ![t] = @ \cup mail[Now(t)].ids]
    /\ Unlock(t) /\ Goto(t, "put") /\ Send(t, NoMail)
    /\ UNCHANGED <<noncache, registered, ref, cache, alloc_num, avail, marked, faults, stranded>>

(* trs_id_alloc_non_cache *)
GotOne(t) ==
    /\ At(t, "get") /\ Result(t) = "ok" /\ ~Cached(SideOf(t))
    /\ held' = [held EXCEPT ![t] = @ \cup mail[Now(t)].ids]
    /\ alloc_num' = [alloc_num EXCEPT ![SideOf(t)] = @ + 1]
    /\ Unlock(t) /\ Goto(t, "put") /\ Send(t, NoMail)
    /\ UNCHANGED <<noncache, registered, ref, cache, avail, marked, faults, stranded>>

GotBatchUndoesAll(t) ==
    /\ At(t, "get") /\ Result(t) = "ok" /\ Cached(SideOf(t))
    /\ \E S \in SUBSET mail[Now(t)].ids :
          /\ cache' = [cache EXCEPT ![SideOf(t)] = @ \cup S]
          /\ IF S = mail[Now(t)].ids
             THEN Goto(t, "take") /\ Send(t, NoMail)
             ELSE Goto(t, "undo") /\ Send(t, Msg("PUT", mail[Now(t)].ids, 0))
    /\ UNCHANGED <<noncache, registered, ref, mutex, alloc_num, held, avail, marked, faults, stranded>>

GotBatchDrops(t) ==
    /\ At(t, "get") /\ Result(t) = "ok" /\ Cached(SideOf(t))
    /\ \E S \in SUBSET mail[Now(t)].ids :
          cache' = [cache EXCEPT ![SideOf(t)] = @ \cup S]
    /\ Goto(t, "take") /\ Send(t, NoMail)
    /\ UNCHANGED <<noncache, registered, ref, mutex, alloc_num, held, avail, marked, faults, stranded>>

(* trs_id_pool_alloc_batch: the ids go to the list until there is no memory   *)
(* for a node; the rest is given back.                                        *)
GotBatch(t) ==
    /\ At(t, "get") /\ Result(t) = "ok" /\ Cached(SideOf(t))
    /\ \E S \in SUBSET mail[Now(t)].ids :
          LET rest == mail[Now(t)].ids \ S
          IN /\ cache' = [cache EXCEPT ![SideOf(t)] = @ \cup S]
             /\ IF rest = {} THEN Goto(t, "take") /\ Send(t, NoMail)
                             ELSE Goto(t, "undo") /\ Send(t, Msg("PUT", rest, 0))
    /\ UNCHANGED <<noncache, registered, ref, mutex, alloc_num, held, avail, marked, faults, stranded>>

(* The result of giving back the rest is ignored. *)
Undone(t) ==
    /\ At(t, "undo") /\ Arrived(t)
    /\ Goto(t, "take") /\ Send(t, NoMail)
    /\ UNCHANGED <<noncache, poolVars, held, avail, marked, faults, stranded>>

GotNothing(t) ==
    /\ \/ At(t, "get") /\ Result(t) = "err"
       \/ At(t, "take") /\ cache[SideOf(t)] = {}
    /\ AllocFails(t) /\ Send(t, NoMail)
    /\ UNCHANGED <<noncache, registered, ref, cache, alloc_num, held, avail, marked, faults, stranded>>

Take(t) ==
    /\ At(t, "take") /\ TakeOne(t)
    /\ Unlock(t) /\ Goto(t, "put")
    /\ UNCHANGED <<noncache, registered, ref, mail, avail, marked, faults, stranded>>

-----------------------------------------------------------------------------
(* trs_id_free, called once for an id that was allocated. *)

Free(t) ==
    /\ At(t, "idle")
    /\ \E i \in held[t] : Get(t, "free", {i}) /\ held' = [held EXCEPT ![t] = @ \ {i}]
    /\ UNCHANGED <<noncache, registered, mutex, cache, alloc_num, mail, avail, marked, faults, stranded>>

(* The pool was unregistered: -ENODEV. *)
FreeNoPool(t) ==
    /\ At(t, "idle") /\ ~registered[SideOf(t)]
    /\ \E i \in held[t] : /\ held' = [held EXCEPT ![t] = @ \ {i}]
                          /\ stranded' = stranded \cup {i}
    /\ UNCHANGED <<noncache, poolVars, call, mail, avail, marked, faults>>

(* trs_id_free_cache *)
FreeCached(t) ==
    /\ At(t, "free") /\ mutex[SideOf(t)] = Nobody /\ Cached(SideOf(t))
    /\ cache' = [cache EXCEPT ![SideOf(t)] = @ \cup call[t].ids]
    /\ alloc_num' = [alloc_num EXCEPT ![SideOf(t)] = @ - 1]
    /\ Goto(t, "put")
    /\ UNCHANGED <<noncache, registered, ref, mutex, held, mail, avail, marked, faults, stranded>>

(* trs_id_free_non_cache, also when there is no memory for a node. *)
FreeBatch(t) ==
    /\ At(t, "free") /\ Lock(t)
    /\ Goto(t, "freeing") /\ Send(t, Msg("PUT", call[t].ids, 0))
    /\ UNCHANGED <<noncache, registered, ref, cache, alloc_num, held, avail, marked, faults, stranded>>

FreedUncounted(t) ==
    /\ At(t, "freeing") /\ Arrived(t)
    /\ Unlock(t) /\ Goto(t, "put") /\ Send(t, NoMail)
    /\ UNCHANGED <<noncache, registered, ref, cache, alloc_num, held, avail, marked, faults, stranded>>

(* A failed free that goes back to the list of the pool. *)
FreedKeeps(t) ==
    /\ At(t, "freeing") /\ Arrived(t)
    /\ cache' = [cache EXCEPT ![SideOf(t)] =
                   IF Result(t) = "ok" THEN @ ELSE @ \cup mail[Late(t)].ids]
    /\ alloc_num' = [alloc_num EXCEPT ![SideOf(t)] = @ - 1]
    /\ Unlock(t) /\ Goto(t, "put") /\ Send(t, NoMail)
    /\ UNCHANGED <<noncache, registered, ref, held, avail, marked, faults, stranded>>

(* A failure leaves alloc_num as it is. *)
Freed(t) ==
    /\ At(t, "freeing") /\ Arrived(t)
    /\ alloc_num' = [alloc_num EXCEPT ![SideOf(t)] =
                       IF Result(t) = "ok" THEN @ - 1 ELSE @]
    /\ Unlock(t) /\ Goto(t, "put") /\ Send(t, NoMail)
    /\ UNCHANGED <<noncache, registered, ref, cache, held, avail, marked, faults, stranded>>

-----------------------------------------------------------------------------
(* trs_id_free_batch_specific: by trs_id_flush_to_pool when the last process  *)
(* is gone, and by the handler of a FLUSH.                                    *)

Flush(t) ==
    /\ t \in Users /\ At(t, "idle")
    /\ Get(t, "flushlock", {})
    /\ UNCHANGED <<noncache, registered, mutex, cache, alloc_num, held, mail, avail, marked, faults, stranded>>

(* trs_host_flush_id: without a pool there is nothing to flush. *)
FlushAsked(m) ==
    /\ mail[m].cmd = "FLUSH" /\ mail[m].res = "sent" /\ At(Flusher, "idle")
    /\ IF registered["host"]
       THEN Get(Flusher, "flushlock", {}) /\ mail' = [mail EXCEPT ![m].res = "busy"]
       ELSE mail' = [mail EXCEPT ![m] = Answer(m, {}, "ok")] /\ UNCHANGED <<ref, call>>
    /\ UNCHANGED <<noncache, registered, mutex, cache, alloc_num, held, avail, marked, faults, stranded>>

FlushLock(t) ==
    /\ At(t, "flushlock") /\ Lock(t) /\ Goto(t, "flush")
    /\ UNCHANGED <<noncache, registered, ref, cache, alloc_num, held, mail, avail, marked, faults, stranded>>

(* trs_id_pool_free_batch, one batch. *)
FlushBatch(t) ==
    LET s == SideOf(t)
        n == IF Cardinality(cache[s]) > Batch THEN Batch ELSE Cardinality(cache[s])
    IN /\ At(t, "flush") /\ n > 0
       /\ \E S \in SUBSET cache[s] :
             /\ Cardinality(S) = n
             /\ cache' = [cache EXCEPT ![s] = @ \ S]
             /\ Send(t, Msg("PUT", S, 0))
       /\ Goto(t, "flushing")
       /\ UNCHANGED <<noncache, registered, ref, mutex, alloc_num, held, avail, marked, faults, stranded>>

FlushMore(t) ==
    /\ At(t, "flushing") /\ Result(t) = "ok"
    /\ Goto(t, "flush") /\ Send(t, NoMail)
    /\ UNCHANGED <<noncache, poolVars, held, avail, marked, faults, stranded>>

(* All batches are given back, or one could not be.  A pool that is destroyed *)
(* takes with it what is left on its list.                                    *)
FlushEnd(t) ==
    LET s == SideOf(t)
    IN /\ \/ At(t, "flush") /\ cache[s] = {}
          \/ At(t, "flushing") /\ Result(t) = "err"
       /\ Send(t, NoMail)
       /\ IF ref[s] = 0
          THEN Return(t) /\ cache' = [cache EXCEPT ![s] = {}] /\ UNCHANGED mutex
          ELSE Goto(t, "put") /\ Unlock(t) /\ UNCHANGED cache
       /\ UNCHANGED <<noncache, registered, ref, alloc_num, held, avail, marked, faults, stranded>>

FlushReply(t) ==
    /\ At(t, "reply") /\ Goto(t, "idle")
    /\ mail' = [m \in Slots |-> IF mail[m].cmd = "FLUSH" /\ mail[m].res = "busy"
                                THEN Answer(m, {}, "ok") ELSE mail[m]]
    /\ UNCHANGED <<noncache, poolVars, held, avail, marked, faults, stranded>>

-----------------------------------------------------------------------------
Locking(t) == AllocCached(t) \/ AllocExhausted(t) \/ AllocBatch(t) \/ FreeCached(t)
              \/ FreeBatch(t) \/ FlushLock(t)

Working(t) == CheckAvail(t) \/ Synced(t) \/ GotOne(t) \/ GotBatch(t) \/ Undone(t)
              \/ GotNothing(t) \/ Take(t) \/ Freed(t) \/ FlushBatch(t) \/ FlushMore(t)
              \/ FlushEnd(t) \/ FlushReply(t) \/ Put(t)

Serving(m) == GetOne(m) \/ GetEnd(m) \/ PutOne(m) \/ FlushAsked(m)

Calling(t) == Alloc(t) \/ Free(t) \/ FreeNoPool(t) \/ Flush(t) \/ Unregister(t)

Failing(t) == NotSent(t) \/ GiveUp(t)

(* The id_pool holds all ids, both pools are registered; the type may be      *)
(* cached on both sides, on the host only, or on none.                        *)
Init ==
    /\ noncache \in {{}, {"device"}, Sides}
    /\ registered = [s \in Sides |-> TRUE]
    /\ ref = [s \in Sides |-> 1]
    /\ mutex = [s \in Sides |-> Nobody]
    /\ cache = [s \in Sides |-> {}]
    /\ alloc_num = [s \in Sides |-> 0]
    /\ held = [t \in Threads |-> {}]
    /\ call = [t \in Threads |-> [pc |-> "idle", ids |-> {}]]
    /\ mail = [m \in Slots |-> NoMail]
    /\ avail = Ids
    /\ marked = {}
    /\ faults = 0
    /\ stranded = {}

Next ==
    \/ \E t \in Threads : Locking(t) \/ Working(t) \/ Calling(t) \/ Failing(t)
    \/ \E m \in Slots : Serving(m)

Spec == Init /\ [][Next]_vars

(* Threads in a call run on, mutexes of Linux do not starve a waiter, and     *)
(* a message whose sender waits is handled.                                   *)
Fairness ==
    /\ \A t \in Threads : SF_vars(Locking(t) \/ Working(t))
    /\ \A t \in Threads : WF_vars(Serving(Now(t)))

FairSpec == Spec /\ Fairness

-----------------------------------------------------------------------------
PcValues == {"idle", "alloc", "avail", "sync", "get", "undo", "take", "free",
             "freeing", "flushlock", "flush", "flushing", "put", "reply"}

Message == [cmd : {"none", "GET", "PUT", "FLUSH"}, ids : SUBSET Ids,
            n : 0 .. IdNum, res : {"none", "sent", "busy", "ok", "err"}]

(* Every variable keeps its type; alloc_num does not go below zero, where the *)
(* u32 of the code would wrap, and no message asks for more than there is.    *)
TypeOK ==
    /\ noncache \in SUBSET Sides
    /\ registered \in [Sides -> BOOLEAN]
    /\ ref \in [Sides -> Nat]
    /\ mutex \in [Sides -> Threads \cup {Nobody}]
    /\ cache \in [Sides -> SUBSET Ids]
    /\ alloc_num \in [Sides -> Nat]
    /\ held \in [Threads -> SUBSET Ids]
    /\ call \in [Threads -> [pc : PcValues, ids : SUBSET Ids]]
    /\ mail \in [Slots -> Message]
    /\ avail \in SUBSET Ids /\ marked \in SUBSET Ids /\ stranded \in SUBSET Ids
    /\ faults \in 0 .. MaxFaults

(* Where ids are besides the id_pool and the hands of users that cannot give  *)
(* them back any more.                                                        *)
OnLists == UNION {cache[s] : s \in Sides}
InHands == UNION {held[t] : t \in Threads}
InCalls == UNION {call[t].ids : t \in Threads}
InMail  == UNION {mail[m].ids : m \in Slots}

(* No id is in two places, whatever messages fail or come late and wherever   *)
(* memory runs out: the batches of trs_id_pool_alloc_batch and                *)
(* trs_id_pool_free_batch never give away what somebody else has.             *)
OneHolder ==
    /\ avail \cap (OnLists \cup InHands \cup InCalls \cup InMail \cup stranded) = {}
    /\ OnLists \cap (InHands \cup InCalls \cup InMail \cup stranded) = {}
    /\ InHands \cap (InCalls \cup InMail \cup stranded) = {}
    /\ InCalls \cap (InMail \cup stranded) = {}
    /\ InMail \cap stranded = {}
    /\ cache["host"] \cap cache["device"] = {}
    /\ \A t, u \in Threads : t # u => held[t] \cap held[u] = {} /\ call[t].ids \cap call[u].ids = {}
    /\ \A m, k \in Slots : m # k => mail[m].ids \cap mail[k].ids = {}

(* What the threads of a side have, on their list, in hand or on its way. *)
Has(s) ==
    cache[s] \cup (UNION {held[t] \cup call[t].ids : t \in {t \in Threads : SideOf(t) = s}})
             \cup (UNION {mail[m].ids : m \in {m \in Slots : SideOf(m[1]) = s}})

(* The agent has marked everything the host has and nothing that is free or   *)
(* with the device, so trs_pm_agent_put_id never stops at an id and forgets   *)
(* the rest of the batch.                                                     *)
MarksExact ==
    /\ Has("host") \subseteq marked
    /\ marked \cap (avail \cup Has("device")) = {}

(* Without a failed message every id is somewhere, even if memory for the     *)
(* lists runs out or a pool is unregistered under its users.                  *)
NothingLost ==
    faults = 0 => Ids = avail \cup OnLists \cup InHands \cup InCalls \cup InMail \cup stranded

(* alloc_num counts the ids that users have or are giving back; it is too     *)
(* high only after a failed message, and never so high that remain_num =      *)
(* id_num - alloc_num of trs_id_pool_alloc_batch wraps.                       *)
AllocNumExact ==
    \A s \in Sides :
        LET mine == {t \in Threads : SideOf(t) = s}
            out  == Cardinality(UNION {held[t] : t \in mine})
                    + Cardinality({t \in mine : At(t, "free") \/ At(t, "freeing")})
        IN /\ registered[s] => alloc_num[s] >= out /\ (faults = 0 => alloc_num[s] = out)
           /\ Cached(s) => Cardinality(cache[s]) + alloc_num[s] <= IdNum

(* The reference count of a pool is its place in the table and the calls that *)
(* use it; when it is zero only the thread that destroys the pool is in it.   *)
RefsExact ==
    \A s \in Sides :
        LET inside == {t \in Threads : SideOf(t) = s /\ ~At(t, "idle") /\ ~At(t, "reply")}
        IN IF ref[s] = 0
           THEN /\ ~registered[s] /\ Cardinality(inside) <= 1
                /\ \A t \in inside : At(t, "flush") \/ At(t, "flushing")
           ELSE ref[s] = Cardinality(inside) + (IF registered[s] THEN 1 ELSE 0)

(* Every call returns: host and device each wait for messages with a mutex    *)
(* held, but never in a circle.                                               *)
CallReturns == \A t \in Users : ~At(t, "idle") ~> At(t, "idle")

(* The holder of an id; ids on their way are not in use. *)
Owner(i) ==
    IF \E t \in Threads : i \in held[t] THEN CHOOSE t \in Threads : i \in held[t]
    ELSE IF i \in avail \cup OnLists \cup InCalls \cup InMail THEN "unused" ELSE "lost"

IdSet == INSTANCE TrsIdSet
           WITH Users <- Threads, Unused <- "unused", Lost <- "lost",
                owner <- [i \in Ids |-> Owner(i)]

(* Both pools, the id_pool and the messages between them act as one set of    *)
(* ids: what trs_id_alloc returns was in nobody's hands, and what was lost    *)
(* does not come back.                                                        *)
ImplementsIdSet == IdSet!Spec
=============================================================================
