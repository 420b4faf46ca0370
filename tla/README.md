# Verification of the task resource driver (`trs_drv`)

The repository builds the kernel drivers of an Ascend device. Its own core logic
is in `src/driver/drivers/ai_sdk/arc/linux/kernel_space/src/` (below `KS/`): the
drivers that let user processes queue work on the task scheduler (TS) of the chip
and learn of its completion. This development models that path, checks it with
TLC on small instances and proves its central safety properties with TLAPS. No
test suite accompanies the code; the references are the code and its comments.

## 1. Inventory

| Part | State | Operations | What must hold |
|---|---|---|---|
| logic completion queue, `rms/trs_drv/trs_core/trs_logic_cq.c` | ring, head, tail, `valid`, mutex, spinlock, `wakeup_num`, `wait_thread_num`, wait queue | enque (from dispatchers), recv with timeout, alloc, free, recycle | a bounded FIFO with reserved entries; no copy from freed memory; no lost wakeup; the id is freed once |
| physical CQ dispatch, `rms/trs_drv/chan/chan_rxtx.c` | CQ memory with phase bits, head, loop, lock, tasklet, work item | interrupt, dispatch, reschedule by a fetching thread | every CQE is dispatched once and in order, none is left behind |
| id allocator, `rms/trs_drv/id_allocator/trs_id.c`, on host and device | pool per type: list of free ids, `alloc_num`, mutex, reference count | register, unregister, alloc, free, flush | an id has at most one holder; counts match; no circle of waits |
| id pool and its agent, `id_pool/id_pool.c`, `lba/near/` | free ids of the device, marks of what the host has | get and put of batches by message, flush | nothing is lost or given out twice although messages fail |
| process resources, `trs_core/trs_proc.c`, `trs_res_mng.c` | owner and status of each id, reference counts | add, del, get, put, release and recycle on close | nothing of a dead process stays |
| channels, `chan/chan_init.c`, `chan_rxtx.c` | table of channels, reference counts; SQ ring with `sq_head`, `sq_tail`, semaphore | create, destroy, send, update of the head | no use after destroy; no SQE overwritten before it was executed |
| SQ/CQ pairs, `trs_core/trs_*_sqcq.c` | per pair context, mappings, statistics | alloc, map, send, recv, free | tail and head consistent with the device |
| shared ids, `shr_id/` | node table by name with reference counts and white lists; contexts with lists of what they created and opened | create, open, close, destroy, set pids, recycle | an id lives as long as its users; only invited processes open it |
| cdqm, tsmng, lba | queues, power state, adapters | register access and messages | - |
| xsmem, event_sched, hdcdrv, ipcdrv | pools, event threads, sessions, mailbox channels | candidates for later work | - |
| device management, peripheral, media and network drivers | registers | out of scope | - |
| libc_sec, build, signing | none | out of scope (vendored, scripts) | - |

Interaction: the TS firmware writes completion entries (CQEs) to the physical CQ
of a channel and raises an interrupt; the interrupt schedules a tasklet that
hands each CQE to the logic CQ it names (`trs_logic_phy_cq_recv`) and wakes the
receivers; an overloaded tasklet passes the rest to a work item; a receiver that
drained a full logic CQ schedules the tasklet again. Threads of the process
allocate and free logic CQs through ioctls; ids come from the allocator and are
entered in the process's resource table. The allocator of the host gets its ids
from the device by messages. A process can share its notifies and events with
others by name (shr_id), which takes references in the resource table. Work goes
the other way: a send copies SQEs to the ring of a channel and rings the
doorbell, and the head that the device reports with its CQEs makes room again.

What is hard: the wait and wake protocol with its own counter next to the wait
queue; copying from the ring under the mutex while dispatchers append under the
spinlock; taking runs out of the middle of a wrapped ring; freeing and
reallocating a queue while receivers are on their way to sleep; the handover
between tasklet, work item and fetching thread; retries after timeouts, signals
and faults; messages that are lost or carried out after their sender gave up;
pids that are used again; a head that dispatchers and senders move without a
common lock; channels, pools and contexts that go with whoever drops the last
reference. `PROJECT.json` lists each hazard at its line.

## 2. Modules

```
TrsLogicQueue            abstract queue: what a logic CQ promises its receivers
   ^ implemented by
TrsLogicCq  <---- EXTENDS ---- TrsLogicPath      (device -> physical CQ -> logic CQ)
   |                               |
TrsLogicCqProofs,                TrsLogicPathProofs (extends TrsLogicQueueProofs),
TrsLogicQueueProofs,             MCTrsLogicPath
MCTrsLogicCq

TrsRes  <---- TrsResProofs, MCTrsRes             (who owns the ids of one resource type)

TrsShrId  <---- TrsShrIdProofs, MCTrsShrId       (nodes that share these ids between processes)

TrsIdSet                 abstract set of ids: what an allocator promises its callers
   ^ implemented by
TrsId  <---- TrsIdProofs, MCTrsId                (allocators of host and device, messages, id_pool)

TrsChanSq  <---- TrsChanSqProofs, MCTrsChanSq    (SQ of a channel, and the end of the channel)
```

The modules meet at what each leaves to the other: `pool` of TrsRes is the set
that TrsId implements (`TrsIdSet`); `shares` of TrsRes counts the references that
TrsShrId takes and drops, and TrsShrId keeps of the id table what a node can see
of it; TrsChanSq takes CQEs one at a time that TrsLogicPath takes in rounds.

### TrsLogicCq (`trs_core/trs_logic_cq.c`)

One logic CQ. `valid`, `head`, `tail`, `wakeup_num`, `wait_thread_num` are the
fields of `struct trs_logic_cq`; `mapped` and `ring` are `addr` and the memory
behind it; `owned` and `idPool` are what the process table and the id pool know
of the queue's id; `ts_mutex` is the mutex of the process that the ioctls hold
around allocating and freeing a queue (`trs_fops.c` 210 and 261), so that any number of
threads may do either; `pc[x]` is where a thread or a dispatcher is.

| Action | Code |
|---|---|
| `Enque`; `WakeupRead`, `WakeupSet`, `WakeupWake` | `trs_logic_cq_enque` under the spinlock; `trs_logic_cq_wakeup`, one step per access to shared state |
| `WakeupReordered`, `WakeupLate` | the same with the load of `waitqueue_active` before the store of `wakeup_num` is visible (enabled by `StoreOrdered = FALSE`) |
| `Recv`, `CopyReport`, `CopyCqes`, `CopyDone` | `trs_logic_cq_recv` and `trs_logic_cq_copy_report`; the mutex is held from `CopyReport` to `CopyDone`, and dispatchers run in between |
| `WaitCount` ... `WaitUncount`, `Awakened`, `Expired`, `Interrupted` | `trs_logic_cq_wait_event` |
| `AllocId`, `InitQueue`, `InitFails` | `trs_logic_cq_alloc`, `trs_logic_cq_id_init`, under `ts_mutex` |
| `Free`, `UninitLock`, `UninitDone`, `FreeId` | `_trs_logic_cq_free`, `trs_logic_cq_id_uninit`, under `ts_mutex` |

`MatchCopyRange`, `CopyRange`, `MoveCqes` and `EliminateHoles` are the pure
parts of the copy: which run is taken, and how the CQEs in front of it are moved
up (backwards, so that an overlapping move keeps its source intact). A CQE is a
record of the match flag, the task and a datum; the rest of its layout is left
out.

### TrsLogicQueue

A bounded sequence from which a receive takes one contiguous run that holds
nothing reserved for another task. `ImplementsQueue` is refinement of this
specification under `open <- valid, q <- Queue`, where `Queue` unrolls the ring
from the head (from behind the copied run while a copy is not finished).

### TrsLogicPath (`chan/chan_rxtx.c`, with the physical CQ callbacks of `trs_logic_cq.c`)

Extends TrsLogicCq: the dispatchers are now the tasklet and the work item of a
channel. `Post` is the task scheduler (external): it writes a CQE with the phase
of its lap, leaves one slot free behind the head it was last told, and its
interrupt schedules the tasklet. `Dispatch` is the trylock of
`trs_chan_cq_dispatch_non_block`; `DispatchEmpty`, `DispatchShare`,
`DispatchFull`, `DispatchDrop`, `DispatchEnque`, `DispatchNext` are one round of
`trs_chan_cq_dispatch`; `DispatchEnd` tells the device the head and unlocks.
`PathCopyReport` and `PathCopyDone` add to a receive what it does to the channel
(`full_flag`, `CHAN_CTRL_CMD_CQ_SCHED`). `left` is a history variable: since the last
traversal began, one of the three steps that can leave a CQE behind was taken
(`TooLate`, `FillsUnseen`, `FreedInFront`). No action reads it.

### TrsRes (`trs_core/trs_proc.c`, `trs_res_mng.c`, open and release of `trs_fops.c`)

The ids of one resource type. `ids[i]` is `struct trs_res_ids` (pid, task,
status, ref); `proc_list`, `exit_list`, `exiting` are the contexts of the
processes and their status; `current_id_num` is their counter; `pool` is the free
list of the allocator; `mapped` is what the task scheduler was told; `shares`
counts the references the nodes of `shr_id` hold.

| Action | Code |
|---|---|
| `OpenWait`, `OpenCreate` | `trs_open`: `trs_proc_wait_for_exit`, then `trs_proc_ctx_create` under the semaphore |
| `AllocId`, `MapNotice`, `AddRes`, `AddCount` | `trs_res_id_alloc`: id, notice to the task scheduler, table under the mutex, counter after it |
| `FreeRes`, `DelCount`, `PutRes`, `UnmapNotice`, `FreeId` | `_trs_res_id_free`: `trs_proc_del_res`, `trs_res_put`, notice, id |
| `ShareFind`, `ShareGet` | `trs_res_id_get`: the task id is looked up before the mutex is taken |
| `SharePut`, then `PutRes` ... | `trs_res_id_put`, from a thread of any process |
| `Release`, `ReleaseCheck`, `ReleaseNext`, `ReleaseDone` | `trs_release`: `trs_proc_release`, `trs_proc_release_check_ts`, the loop of `trs_for_each_proc_res_id`, the removal from the list |

What happens under `res_mng->mutex` or the semaphore of the instance is one step.

### TrsShrId (`shr_id/trs_shr_id.c`, `trs_shr_id_node.c`, `trs_shr_id_fops.c`)

A name is the pair of its creator's pid and the id. `nodes`, `creator`, `ref`,
`set_time`, `open_num` are the node table, with the white list split into when a
pid was listed and how often it has the node open; `procs`, `file`, `proc_ref`,
`start_time`, `created`, `opened` are the contexts, with their two lists as the
number of references of each entry; `res` is the id table. `clock[p]` counts the
processes that were started with pid `p`: start times are only compared for one
pid. `call[t]` is the operation a thread is in, the node it names, the context it
works for, and where it goes on.

| Action | Code |
|---|---|
| `OpenWait`, `OpenAdd` | `shr_id_file_open`: wait until no context of the pid is left, then create and add one |
| `Create`, `NodeAdd`, `AddToProc` | `shr_id_create`: reference to the id, node into the table, entry on the list of the context; each may fail and is undone |
| `Ioctl`, `NodeGet`, then `NodeDestroy`, `NodeOpen`, `NodeClose` or `NodeSetPid` | the operations by name: lookup with `kref_get_unless_zero`, the operation under the lock of the node |
| `NodePut2`, `NodePut`, `NodeDel`, `ResPut` | the reference of the creation or of an open, the own one, and the release of the node |
| `AddToProc`, `DelFromProc` | the list of the context, after the node and under another lock |
| `FileRelease`, `Belong`, `BelongPut` | the three ways to drop a context |
| `RecycleOpened`, `RecycleCreated`, `RecycleDone` | `shr_id_proc_release` |
| `ProcStart`, `ProcExit`, `IdAlloc`, `IdFree` | environment: processes, and the owner of the id |

### TrsId (`id_allocator/trs_id.c`, `id_pool/id_pool.c` and the adapters in `lba/`)

The same allocator runs on the host and on the device. A pool has a list of free
ids (`cache`, a set: the order of the list is left out), `alloc_num`, a mutex and
a reference count. A host thread gets and puts batches by messages to the agent
(`trs_pm_agent.c`), which marks what the host has; a device thread calls the
id_pool (`trs_device_id.c`) and, when that is empty, asks the host to flush.
`mail` holds for each thread the message it waits for and one that it gave up on
and that is carried out later; calls of a device thread to its own id_pool take
the same way, but do not fail. `noncache` says on which sides ids are not kept
on the list (`is_non_cache_type`).

| Action | Code |
|---|---|
| `Alloc`, `AllocCached`, `AllocExhausted`, `AllocBatch`, `CheckAvail`, `Synced`, `GotOne`, `GotBatch`, `Undone`, `GotNothing`, `Take` | `trs_id_alloc`: from the list, or through a batch whose ids go to the list while memory lasts, the rest being given back |
| `Free`, `FreeNoPool`, `FreeCached`, `FreeBatch`, `Freed` | `trs_id_free` |
| `Flush`, `FlushAsked`, `FlushLock`, `FlushBatch`, `FlushMore`, `FlushEnd`, `FlushReply` | `trs_id_free_batch_specific`, called by the last process, by the handler of a FLUSH, and when a pool is destroyed |
| `Put`, `Unregister` | the reference count and the table of pools |
| `GetOne`, `GetEnd`, `PutOne` | `trs_pm_agent_get_id`, `trs_pm_agent_put_id`, and id_pool for device threads, id by id; a batch ends early when `idr_alloc` finds no id or no memory |
| `NotSent`, `GiveUp` | `devdrv_sync_msg_send` fails: the message was not sent, or is carried out after its sender saw a timeout |

Users free what they hold, once; that this is so for ids of process resources is
what TrsRes proves, and for the id of a logic CQ what TrsLogicCq proves.

### TrsIdSet

Each id is with a user, unused or lost. `ImplementsIdSet` maps a held id to its
holder, every other id that is somewhere to unused, and the rest to lost: an id
that is handed out was in nobody's hands, and what is lost does not come back.

### TrsChanSq (`chan/chan_rxtx.c`, `chan/chan_init.c`)

One channel. `sq_head`, `sq_tail`, `status`, `sem`, `ref` are its fields; `doorbell`
and `dev_head` are what the device knows and does; `cqes` are the heads that CQEs
report; `lost` records that an SQE was copied to a ring the device had not
emptied. `sched` says whether tasklet and work item are scheduled, `disp` where in a
traversal they are, and `sub` is the send of the semaphore's holder. `overtaken` is a
history variable that no action reads: a dispatcher has stored a head that `sq_head`
had passed.

| Action | Code |
|---|---|
| `Send`, `SemDown`, `SemFails`, `SemUp`, `Put` | `trs_chan_send_ex` |
| `CheckFull`, `QueryHead`, `QueryFails`, `StoreHead`, `SecondLook` | `trs_chan_is_full`: the head of a hardware channel is asked of the device, then stored |
| `Woken`, `WaitExpires`, `WaitSignalled` | `trs_chan_submit_wait` |
| `Write`, `WriteFails`, `Ring`, `RingFails` | `trs_chan_fill_sqe`, and the doorbell of `trs_chan_submit` with its rollback |
| `Dispatch` | `trs_chan_cq_dispatch_non_block`: whoever is scheduled tries the lock once, and is not scheduled any more whether it gets it or not |
| `Take`, `DispatchStore`, `DispatchEmpty`, `DispatchEnd` | `trs_chan_cq_dispatch` as far as it moves `sq_head`: the head is asked for in one step and stored in another |
| `Interrupt`, `DispatchLater` | the tasklet is scheduled for another reason; the tasklet leaves the channel to the work item |
| `Destroy`, `SqUninit`, `DelFromIrqList`, `CancelWork` | `trs_chan_inst_destroy` and the release by the last reference |
| `SetStatus` | `CHAN_CTRL_CMD_SQ_STATUS_SET` |
| `Execute` | the device (external): one SQE, one CQE |

## 3. Runs

Passing runs:

| Run | Shows |
|---|---|
| `LogicCqRing` | ring of five slots, five distinguishable CQEs, both copy routines, failing copies, two threads that allocate and free: the ring implements TrsLogicQueue, the memory is mapped under every copy, and the id of the queue is in one place; with the weak store order, which does not matter here |
| `LogicCqWait` | two dispatchers, waits of every kind, signals, freeing and reallocation, stores seen in order: the receiver does not sleep through its completion, and returns if it sleeps although it could return |
| `PathRing` | across the wrap of the physical CQ, with tasklet, work item, shares, overload and a logic CQ of one usable slot: the phase bits show a FIFO, types hold, a CQE is dispatched unless a step of `left` leaves it behind or the logic CQ fills, and as long as interrupts come no CQE stays behind |
| `PathLive` | tasklet and work item compete for the lock, the tasklet is overloaded, the logic CQ fills and is freed while a receiver sleeps: a CQE that could be dispatched has a dispatcher on its way, and the receiver is served, unless a step of `left` was taken |
| `ResOwners` | two threads of one process and one of another: ids are conserved, references and counters exact, nothing is left by a context that is gone, and a deleted id that is not shared comes back to the free list |
| `ShrNodes` | a creator and an opener whose pid is used again, each with one thread: references of nodes, ids and contexts are exact, nothing is left by a context that is gone, only invited processes have a node open, and the id comes back |
| `IdSides` | a user on each side, two ids, one failing message, cached and uncached types: host, device and messages are one set of ids (TrsIdSet); counts, marks and references are exact; every call returns |
| `SqRing` | two senders, tasklet, work item and a device with two CQEs outstanding on a ring of three, hardware and other channels: until a dispatcher stores a head that was passed, no SQE is overwritten before it was executed and the head is neither ahead of the device nor behind the senders; only hardware channels come to that point; nobody works on a released channel |
| `SqEnd` | one sender, one CQE outstanding, no free retries of the tasklet: a channel that is destroyed while its SQ is enabled is released in the end, if interrupts keep coming and no send fails halfway |

Runs that show a disagreement between the code and what it says of itself
(`findings` of `PROJECT.json` quotes the lines):

| Run | Shows |
|---|---|
| `LogicCqTwo` | two receivers of one queue: `wakeup_num` is set, not added to, and one receiver takes the token meant for another |
| `PathFull` | a logic CQ that fills after the receiver looked is drained without scheduling the dispatcher that stopped for it |
| `ShrRace` | two threads of one process: a destroy of a node that is not there takes the list entry of the creation that comes in between, and the node outlives the process |

The counterexamples are short (tens of steps) and each was followed in the code.

Observations that have no run of their own. Each can be seen by changing a
constant or by reading the action named:

- `StoreOrdered = FALSE` in `LogicCqWait` violates `NoStrandedReceiver` within seconds:
  `smp_wmb` (`trs_logic_cq.c:640`) orders stores, not the store of `wakeup_num` before the
  load of `waitqueue_active`, and a receiver can look for the token and queue itself
  in between (`LooksTooEarly`). The runs about waiting set `StoreOrdered` to TRUE,
  because they ask what else can go wrong; the theorems do not assume it.
- A failed `copy_to_user` (`trs_logic_cq.c:467`) is a positive number, so the loop of
  `trs_logic_cq_recv` starts over (`CopyDone` with a failed copy).
- Two more ways to leave a CQE on the physical CQ until the next interrupt, besides
  that of `PathFull`; the proof of `NoCqeStranded` shows that there are no others. A
  tasklet that comes when the work item has looked at the CQ for the last time but
  still holds the lock gives up (`TooLate`; `trs_chan_cq_dispatch_non_block` tries the
  lock once). A logic CQ that is freed while a traversal has stopped for it takes
  with it the receiver that would have scheduled the dispatcher (`FreedInFront`).
- A hardware channel with two CQEs outstanding can lose SQEs. A dispatcher asks the
  device for its head (`chan_rxtx.c:110`) and stores the answer later (112), without a
  lock that senders take; a sender that found the ring full does the same in
  between, for a newer head. `sq_head` falls back (`overtaken`), and the equality test
  of `trs_chan_sq_is_full` then lets a sender run over SQEs that were not executed.
  `SubmittedIntact` and `HeadIsPast` except what follows this one step: without the
  exception and the constraint TLC violates both in `SqRing` with `CqDepth` 2, and neither with
  `CqDepth` 1. So they say that nothing else in the code has this effect.
- The doorbell rings after the last SQE of a send (`trs_chan_submit`, 195-215), and
  the ioctl asks of `sqe_num` only that it is not zero (`trs_fops.c:357`). A send of as
  many SQEs as the ring has slots fills the ring with SQEs the device was not told of
  and, without a timeout, waits for good: a premise of `ReleasedInTheEnd`.
- The instance of `ShrRace` (two threads of one process) violates `GoneHasNothingOpen`
  too: one thread opens a node and has no memory to list the open; the other closes
  that open and has yet to unlist it; the first undoes by name and finds nothing
  open; a third open is listed and the late unlisting takes its entry, so that the
  context is recycled without closing it. With `MaxClock` 2 for that pid the open is
  then found by a later process, which violates `OpenersWereInvited`. `TypeOK`,
  `NodeRefsExact`, `IdRefsExact` and `ContextHeld` hold there. The two moments at which
  this starts are the state predicates `Forestalled` (this one) and `Crossed` (that of
  `ShrRace`): with states beyond them left out, TLC finds `GoneHasNothingOpen`,
  `GoneCreatedNothing` and `OpenersWereInvited` to hold on this instance, and without
  either exception it finds a violation.
- A send that fails after some of its SQEs were copied leaves `sq_tail` advanced
  (`WriteFails`; only a failed doorbell restores it): the next doorbell publishes
  SQEs of a send that was reported as failed, and until then a sender without a
  timeout can wait for room in a ring the device knows nothing of (`Leftover`, another
  premise of `ReleasedInTheEnd`).
- A channel is in `chan_idr` before its queues are initialised (`chan_init.c:460`);
  senders in softirq use a spinlock and senders in process context a semaphore
  (`chan_rxtx.c:269`), so a channel must have senders of one kind.

Bounds. A ring of five slots is the smallest in which a run is taken from the
middle of a wrapped ring with CQEs left on both sides of the end of the memory;
three slots suffice for the questions of waiting, where only empty, not empty and
full matter. `MaxPosts` bounds the CQEs of the device; in `PathRing` and `PathFull` it
exceeds `PhyDepth`, so that the phase flips, and `DispatchNum = 2` in `PathRing` lets a
dispatch use up its share. In `PathLive` two CQEs meet a logic CQ of one usable slot
(`Depth = 2`) with tasklet and work item (`Overload`): enough for a tasklet to come too
late and for a full logic CQ to be freed. A logic CQ that fills after its receiver
looked needs `Depth = 3`, as in `PathFull`; on that instance, with `Overload`,
`NoStrandedCqe` was checked apart, and `NoCqeStranded` proves it for every depth.
`MaxTask = 2` in TrsRes
lets a pid close and open again next to ids it leaked, while a thread of another
process drops a share; `MaxShare = 2` lets an id outlive its owner and one of two
shares. One id is enough, since nothing relates two ids but the count of a context,
and keeps `ResOwners` small enough to check liveness with safety. Symmetry (of the
senders) is used in `SqRing` only, which checks invariants. In
`ShrNodes` the pid of the opener is used twice (`MaxClock`), so that a process meets
a white list meant for its predecessor, and nodes can be opened twice (`MaxOpen`,
`MaxListed`), so that an entry needs more than one close; two threads of one
process are in `ShrRace`. In `IdSides` two ids and batches of two make both sides
run out while the other has a full list, and one fault (`MaxFaults`) suffices for a
message that is lost or late at any place; three values of `noncache` are initial.
In `SqRing` three slots are full with two SQEs, sends of up to two SQEs cross the
end of the ring, and timeouts are one round or none. Two CQEs outstanding are as many
as a ring of three holds SQEs; `SqRing` does not go on behind a state that is
`overtaken` (the constraint `UpToOvertaking`), where the properties of the ring except
it; those that do not, `TypeOK` and `LiveWhileUsed`, are proved without it. `SqEnd`, which
checks liveness, has one sender and one CQE outstanding: two senders wait for each
other only at the semaphore, and a CQ of one place is full at once.

Fairness. A thread inside an ioctl and a dispatcher inside a traversal run on
(weak fairness per thread of its own steps), and a scheduled tasklet or work item
runs: this is what the Linux scheduler, softirqs and work queues guarantee. No
fairness is assumed of calls, failures, timeouts, signals, the device or the interrupt
line; `InterruptRepairs` names the interrupts it needs as a premise. Mutexes are
modelled without queues; in the liveness runs a thread that waits for the mutex
competes only with holders that release it and do not take it again unasked.
In TrsId the fairness is strong, because calls follow each other without end and a
mutex of Linux does not starve a waiter (it is handed over); a message whose
sender waits is handled, one that was given up need not be.

In TrsChanSq a device whose SQ is enabled executes, and not every query of the head
fails for ever. A tasklet or a work item that is scheduled runs once: it tries the
lock of the channel once, and if another dispatcher holds it, it is gone and nothing
makes it come again (`chan_rxtx.c:645`). Nothing obliges anybody to schedule it
either, so `ReleasedInTheEnd` names what it needs as premises: interrupts that keep
coming, because a CQE that a lost trylock left, and a sender behind a CQ that is full
of such CQEs, wait for the next one; no send that fails halfway; no send as long as
the ring. The fairness of the release steps is strong: the lock of the irq_ctx is a
queued spinlock, and `cancel_work_sync` keeps the work item from being queued again, so
that dispatchers that come back and back do not shut out the release.

Deadlock is checked in every run but five: in `ShrNodes` and `ShrRace` because the number
of processes is bounded, in `IdSides` because both pools may be unregistered, and in
`SqRing` and `SqEnd` because a destroyed channel is at its end.

## 4. Proofs

For every value of the constants (numbers of threads, processes, ids, depth):

`TrsLogicCqProofs`
- `TypeCorrect`: head and tail index the ring, all control variables have their
  types. The step that needs an argument is `CopyDone`: what `CopyRange` returns
  is an integer (`MatchCopyNum`, `CopyNum`), and indices are reduced modulo the
  depth.
- `CopyIsSafe` and `IdIsSafe`. `CopyInMappedRing` is not inductive: a step of the
  teardown must know that the mutex of the queue excludes copies (`MutexInv`: who copies
  holds the mutex of a valid queue, who tears down that of an invalid one), and a step
  of the allocation that nobody else has the id (`OwnerInv`: where the id is at each
  point of allocation and teardown, of which the mutex of the process lets one run at
  a time).

`TrsLogicQueueProofs`
- `RingIsQueue`: the ring implements TrsLogicQueue. Everything is stated in places
  counted from head (`Nth`, `Used`), so that the wrap appears in a few lemmas only:
  `CopyRangeFinds`: the run that `CopyRange` chooses, on either side of the end of the
  memory, is the first one the receive may have, ends behind the CQE reserved for it
  and is no longer than asked for; `HolesClosed`: the backward copies of
  `EliminateHoles` (one, or three if the run is behind the wrap) move the CQEs in
  front of the run by its length and touch no other, whatever the lengths of the parts;
  `EnqueUsed` and `DoneUsed`: what appending and moving head do to the places. The
  induction is over `RefInv`: slots in use hold CQEs (`RingInv`), a receive between the
  halves of its copy has copied no more than is in use and is the only one (`RecvInv`
  with `MutexInv`), which makes `Queue` the content behind what was copied (`QueueIs`).
  Every action is then a step of the queue or none (`StepIsQueueStep`).
- `RingTyped`: `TypeOK`, from the same invariant; a receive is never given more CQEs
  than the ring holds.
- `NoLostWakeup`, for any number of receivers and any order of the stores. The
  strengthening `WaitInv` says what a receiver on its way to sleep relies on: a token is
  there or a waker has yet to leave one. The premise is on steps, not on states or
  constants: `[][NotMissed]_vars`. A step misses a receiver if it uses up the last token
  while another one that could return is on its way to sleep (`TokenUsedUp`; `LogicCqTwo`),
  if it looks at the wait queue before its token is seen (`LooksTooEarly`; the observation on
  `StoreOrdered`), or if `wake_up_nr` stops in front of one that could return
  (`TooFewWoken`). The theorem says that nothing else loses a wakeup: not timeouts,
  signals, freeing, reallocation or the steps between counting, queueing and sleeping.
  It needs `RefInv`: whether a receive can
  return depends on the slots in use only, which hold CQEs.

`TrsLogicPathProofs`
- `PhaseBitsTell`: the phase bits show a FIFO, for every depth and any lag of the
  head the device knows. From `PhyInv`: the head the device was told, the head of the
  driver and the tail of the device follow each other around the ring, the slots in
  front of that tail carry the phase of the device's lap and the others that of the
  lap before, and whether driver and device are on the same lap follows from head and
  tail (`PhaseInv`); what is not dispatched yet is a CQE (`CellInv`).
- `PathIsLogicCq`: every step of the path is a step of TrsLogicCq with tasklet and
  work item as its producers. `PathWakesReceivers` (with the premise of `NoLostWakeup`),
  `PathIsQueue` and `PathTyped` carry over what is proved of the logic CQ.
- `NoCqeStranded`, without premises: the three steps that can leave a CQE behind
  (`TooLate`, `FillsUnseen`, `FreedInFront`) are recorded in `left` until the next traversal
  begins, and while it is FALSE a CQE that could be dispatched has a dispatcher on its
  way. The invariant adds that who stopped for a full logic CQ has been seen by the
  receiver that drains it (`SeenFull`). `PathFull` shows the second of the three.

`TrsResProofs`
- `TableInv` (types and shape of the calls, `RefInv`, `IdConserved`,
  `OwnedIsMapped` with `AddMapped`, `UseNumExact`) is inductive and gives
  `TypeCorrect`, `IdsAreConserved`, `OwnedIdsAreMapped`, `UseNumIsExact`.
  `ContextIsUnique` follows with it.
- `RefsAreExact`: inductive on top of it. A mark turns the owner's reference into
  that of the thread that will put it, and a close turns that of a share; the
  threads about to drop one are counted with the cardinality theorems.
- `NothingIsLeftBehind` needs everything: that a context being released is used
  by its releasing thread only (`HoldInv`), that a task id is given once
  (`TaskInv`), and that the counter, which the release trusts, is behind the table by
  exactly the threads between the mutex and the counter (`CountInv`).

`TrsChanSqProofs`
- `TypeCorrect`: types, with the shape of a send under way (`SendInv`) and of a
  dispatcher (`DispInv`).
- `ChannelLives`, from `LifeInv`: the count of a channel is its registration plus the
  senders between get and put (`RefInv`); tasklet and work item hold no reference, and
  the list of the interrupt and the cancelled work item keep them out of a channel
  that is freed (`IrqInv`).
- `SubmitSafe` and `HeadLags`, for any number of CQEs outstanding. From
  `UntilOvertaken`: as long as no dispatcher has stored a head that was passed,
  `sq_head`, `dev_head`, the doorbell and `sq_tail` follow each other around the ring,
  also seen from the head that a sender has read and has yet to store (`HeadInv`, by
  distances modulo the depth); on a channel that is not asked for its head the CQEs
  carry the positions behind `sq_head` one by one, so that it does not come to that
  (`CqeInv`). What a dispatcher of a hardware channel stores late needs no invariant: it
  has been passed, or is on the way to the device.

`TrsIdProofs`, without premises
- `TypeCorrect`, `RefsCount`, and `CoreInv`: who holds which mutex and reference of a
  pool, and the message each caller waits for.
- `HeldOnce`, `MarksAgree`, `NoIdLost` from `PlaceInv`. An id can be in the pool of the
  device, on a list, in a call, in a message or with a user. The places are disjoint
  (`Apart`), what is on the host's side is marked (`MarkInv`), and without failed
  messages every id is in some place (`Somewhere`). Every action is first shown to be
  one of four movements of ids between places or none (`Effect`); each part of the
  invariant is then proved for the movements rather than for the 30 actions.
- `AllocNumCounts` from `CountInv`: `alloc_num` is what users of the side hold and the
  calls under way have taken.
- `ActsAsIdSet`: TrsId implements TrsIdSet. From `Effect` again: only a step that
  hands out or takes back an id changes an owner (`OwnerInv`).

`TrsShrIdProofs`
- `TypeCorrect`, `NodeRefsCount`, `IdRefsCount`, `ContextIsHeld` without premises. The
  references of a node are its creation, its opens and the threads that carry one;
  of these a thread may carry two, and a reference changes hands between the entry and
  the thread that will drop it (`NodeInv`: `LiveInv`, `DelInv`, `OwnInv`, `ShutInv`,
  `Balance`). `ResInv` does the same for the id, `CtxInv` for contexts (who works for
  one holds it; the last to drop it is alone).
- `NothingLeftOpen`, `OpenersInvited`, `NothingLeftCreated`, for any number of threads in
  a process. `ListedInv` is a balance: the opens of a process, and the closes that are
  still on its list, are no more than its list and the threads that have opened and not
  listed or undone it. The one step that upsets it is to undo an open by name that
  another thread has closed; `[]~Forestalled` leaves that out, and a context that was
  recycled then leaves no open (`GoneInv`). `CreateInv` says of creations that a node
  its creator has not destroyed is on the list or in the hands of a thread, and what a
  destroy is about to take off the list is not there any more; it fails when a creation
  comes between the two halves of a destroy, which `[]~Crossed` leaves out. Both
  exceptions are needed: `ShrRace` and the observation above.

Each inductive invariant was checked by TLC on the instance of a run before it was
proved, those of TrsShrId also on that of `ShrRace` and those of TrsId with three ids.

The assumptions on the constants are those of the `ASSUME`s of the component modules
(finite sets, distinct marks for "none", depths that are positive; the number of CQEs
asked for is a u32, so not negative; TrsId: there is an id, which `trs_id_attr_check`
insists on).

Only model-checked: everything about fairness (`ReceiverReturns`,
`CqeDispatched`, `ReceiverServed`, `InterruptRepairs`, `DeletedComesBack`,
`SharedIdComesBack`, `CallReturns`, `ReleasedInTheEnd`), which is out of the prover's
reach.

## 5. Not modelled, and why

- Logic CQ: the variant with an interrupt bound to the thread (65-224), traces,
  statistics and show routines. A receive is not bound to one incarnation of its
  queue; the model keeps that, so `ReceiverReturns` excepts a queue that was
  replaced in between.
- Channel: creation, the receive by a user and channels in block mode (`chan_rxtx.c`
  380-535), the controls that set or reset the head of the SQ, senders in softirq.
- Shared ids: ids of another device (`TSDRV_FLAG_REMOTE_ID`), which take no reference,
  the counters of nodes per process, several pids in one set-pids call (it sets
  them one by one under the lock), hash tables and the spelling of names.
- Id allocator: registration and registration again, types that are local to one
  side, the check of the range of an id, the order in which ids are taken (with
  split ranges), the ranges of the id_pool, and clear_all of the agent. An
  `id_pool_alloc` and the mark that follows it are one step, and so are the clearing of
  a mark and the free.
- Process resources: the binding of streams, part feature mode, more than one
  task scheduler, and the recycling functions of the SQ/CQ types, whose ids pass
  through the same table. `trs_is_proc_res_limited` only reads.
- Memory of the contexts: `trs_core_get_ssid` reads a context after giving back
  the semaphore; contexts are values here, so this is listed as a hazard only.
- Everything that `PROJECT.json` lists as `not_modelled`, with its reason.

## 6. Plan

In this order, each with its runs and then its proofs:

1. `TrsInst`: instances of trs_core and chan with their reference counts, part
   feature mode, two task schedulers; creation of channels and of the physical CQ
   by two allocations at once.
2. SQ/CQ pairs: the hardware CQ path that drops on a full logic CQ, the binding of
   streams to logic CQs.
3. xsmem, event_sched, hdcdrv sessions, ipcdrv.
