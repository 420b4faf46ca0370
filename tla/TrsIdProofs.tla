----------------------------- MODULE TrsIdProofs -----------------------------
(***************************************************************************)
(* Proofs about TrsId, for any number of threads on both sides, any set of *)
(* ids, any size of a batch and any number of messages that fail.          *)
(***************************************************************************)
EXTENDS TrsId, TLAPS, FiniteSetTheorems

(* The disjuncts of Next. *)
LEMMA NextCases ==
    ASSUME Next
    PROVE  \/ \E t \in Threads : Alloc(t) \/ Free(t) \/ FreeNoPool(t) \/ Flush(t) \/ Unregister(t)
           \/ \E t \in Threads : AllocCached(t) \/ AllocExhausted(t) \/ AllocBatch(t) \/ CheckAvail(t) \/ Synced(t)
           \/ \E t \in Threads : GotOne(t) \/ GotBatch(t) \/ Undone(t) \/ GotNothing(t) \/ Take(t)
           \/ \E t \in Threads : FreeCached(t) \/ FreeBatch(t) \/ Freed(t) \/ Put(t)
           \/ \E t \in Threads : FlushLock(t) \/ FlushBatch(t) \/ FlushMore(t) \/ FlushEnd(t) \/ FlushReply(t)
           \/ \E t \in Threads : NotSent(t) \/ GiveUp(t)
           \/ \E m \in Slots : GetOne(m) \/ GetEnd(m) \/ PutOne(m) \/ FlushAsked(m)
  BY DEF Next, Locking, Working, Calling, Failing, Serving

-----------------------------------------------------------------------------
(* Slots of messages. *)

(* Every thread has a message it waits for and one it gave up on. *)
LEMMA SlotFacts ==
    /\ \A t \in Threads : /\ Now(t) \in Slots /\ Now(t)[1] = t /\ Now(t)[2] = "now"
                          /\ Late(t) \in Slots /\ Late(t)[1] = t /\ Late(t)[2] = "late"
    /\ \A m \in Slots : m[1] \in Threads /\ m[2] \in {"now", "late"}
    /\ \A m \in Slots : m[2] = "now" => m = Now(m[1])
    /\ \A m \in Slots : m[2] = "late" => m = Late(m[1])
  BY DEF Now, Late, Slots

(* Threads belong to one side; the flusher works for the host. *)
LEMMA SideFacts ==
    /\ \A t : SideOf(t) \in Sides
    /\ Flusher \in Threads /\ SideOf(Flusher) = "host"
    /\ \A t \in DeviceUsers : t \in Threads /\ SideOf(t) = "device"
  BY IdAssumption DEF IdAssumption, SideOf, Sides, Threads, Users

-----------------------------------------------------------------------------
(* Types, and what a thread waits for. *)

WeakMessage == [cmd : {"none", "GET", "PUT", "FLUSH"}, ids : SUBSET Ids,
                n : Nat, res : {"none", "sent", "busy", "ok", "err"}]

PoolType ==
    /\ noncache \in SUBSET Sides
    /\ registered \in [Sides -> BOOLEAN]
    /\ ref \in [Sides -> Int]
    /\ mutex \in [Sides -> Threads \cup {Nobody}]
    /\ cache \in [Sides -> SUBSET Ids]
    /\ alloc_num \in [Sides -> Int]

HandType ==
    /\ held \in [Threads -> SUBSET Ids]
    /\ avail \in SUBSET Ids /\ marked \in SUBSET Ids /\ stranded \in SUBSET Ids
    /\ faults \in 0 .. MaxFaults

CallType ==
    /\ call \in [Threads -> [pc : PcValues, ids : SUBSET Ids]]
    /\ mail \in [Slots -> WeakMessage]

(* Only a message that is not answered, and the answer to a GET, carry ids. *)
GoodMsg(msg) ==
    /\ msg.cmd = "none" => msg = NoMail
    /\ msg.cmd # "none" => msg.res # "none"
    /\ msg.res = "err" \/ msg.cmd = "FLUSH" => msg.ids = {}
    /\ msg.cmd = "GET" /\ msg.res = "sent" => msg.ids = {}
    /\ msg.cmd = "PUT" /\ msg.res = "ok" => msg.ids = {}

(* The message of a thread that is at pc. *)
CmdAt(pc) ==
    IF pc = "get" THEN "GET"
    ELSE IF pc \in {"undo", "freeing", "flushing"} THEN "PUT"
    ELSE IF pc = "sync" THEN "FLUSH" ELSE "none"

(* A message is late, and a PUT fails, only after a fault. *)
SlotInv(m) ==
    /\ GoodMsg(mail[m])
    /\ m[2] = "late" => mail[m] = NoMail \/ (Pending(m) /\ faults > 0)
    /\ mail[m].cmd = "PUT" /\ mail[m].res = "err" => faults > 0

CallInv(t) ==
    /\ mail[Now(t)].cmd = CmdAt(call[t].pc)
    /\ call[t].pc # "free" => call[t].ids = {}

MailInv ==
    /\ \A m \in Slots : SlotInv(m)
    /\ \A t \in Threads : CallInv(t)

(* Initially types hold and no message is under way. *)
LEMMA InitType == Init => PoolType /\ HandType /\ CallType /\ MailInv
<1>. SUFFICES ASSUME Init PROVE PoolType /\ HandType /\ CallType /\ MailInv
  OBVIOUS
<1>1. NoMail \in WeakMessage /\ GoodMsg(NoMail) /\ NoMail.cmd = "none"
  BY DEF NoMail, WeakMessage, GoodMsg
<1>2. PoolType
  <2>1. registered \in [Sides -> BOOLEAN]
    BY Zenon DEF Init
  <2>. QED
    BY <2>1 DEF Init, PoolType, Sides
<1>3. HandType
  BY IdAssumption DEF Init, HandType, IdAssumption
<1>4. CallType
  BY <1>1 DEF Init, CallType, PcValues
<1>5. MailInv
  BY <1>1, SlotFacts DEF Init, MailInv, SlotInv, CallInv, CmdAt
<1>. QED
  BY <1>2, <1>3, <1>4, <1>5

(* A thread sends a message, or is done with one, and goes on. *)
LEMMA SendFacts ==
    ASSUME CallType, MailInv, NEW t \in Threads, NEW pc \in PcValues, NEW msg \in WeakMessage,
           Send(t, msg), Goto(t, pc), UNCHANGED faults,
           GoodMsg(msg), msg.res # "err", msg.cmd = CmdAt(pc)
    PROVE  CallType' /\ MailInv'
<1>1. /\ \A m \in Slots : mail'[m] = IF m = Now(t) THEN msg ELSE mail[m]
      /\ \A u \in Threads : call'[u] = IF u = t THEN [pc |-> pc, ids |-> {}] ELSE call[u]
  BY SlotFacts DEF Send, Goto, CallType
<1>2. CallType'
  BY SlotFacts DEF Send, Goto, CallType
<1>3. ASSUME NEW m \in Slots PROVE SlotInv(m)'
  <2>1. CASE m = Now(t)
    BY <1>1, <2>1, SlotFacts DEF SlotInv
  <2>2. CASE m # Now(t)
    BY <1>1, <2>2 DEF MailInv, SlotInv, Pending
  <2>. QED
    BY <2>1, <2>2
<1>4. ASSUME NEW u \in Threads PROVE CallInv(u)'
  <2>1. CASE u = t
    BY <1>1, <2>1, SlotFacts DEF CallInv
  <2>2. CASE u # t
    BY <1>1, <2>2, SlotFacts DEF MailInv, CallInv
  <2>. QED
    BY <2>1, <2>2
<1>. QED
  BY <1>2, <1>3, <1>4 DEF MailInv

(* A thread that waits for no message goes on. *)
LEMMA GotoFacts ==
    ASSUME CallType, MailInv, NEW t \in Threads, NEW pc \in PcValues, NEW I \in SUBSET Ids,
           call' = [call EXCEPT ![t] = [pc |-> pc, ids |-> I]], UNCHANGED <<mail, faults>>,
           CmdAt(pc) = CmdAt(call[t].pc), pc = "free" \/ I = {}
    PROVE  CallType' /\ MailInv'
<1>1. \A u \in Threads : call'[u] = IF u = t THEN [pc |-> pc, ids |-> I] ELSE call[u]
  BY DEF CallType
<1>2. CallType'
  BY DEF CallType
<1>3. ASSUME NEW m \in Slots PROVE SlotInv(m)'
  BY DEF MailInv, SlotInv, Pending
<1>4. ASSUME NEW u \in Threads PROVE CallInv(u)'
  <2>1. CASE u = t
    BY <1>1, <2>1 DEF CallInv, MailInv
  <2>2. CASE u # t
    BY <1>1, <2>2 DEF MailInv, CallInv
  <2>. QED
    BY <2>1, <2>2
<1>. QED
  BY <1>2, <1>3, <1>4 DEF MailInv

Quiet == {"idle", "alloc", "avail", "take", "free", "flushlock", "flush", "put", "reply"}

(* Moving on between points at which no message is awaited. *)
LEMMA QuietGoto ==
    ASSUME CallType, MailInv, NEW t \in Threads, NEW pc \in Quiet \ {"free"}, Goto(t, pc),
           call[t].pc \in Quiet, UNCHANGED <<mail, faults>>
    PROVE  CallType' /\ MailInv'
<1>1. pc \in PcValues /\ CmdAt(pc) = CmdAt(call[t].pc) /\ {} \in SUBSET Ids
  BY DEF Quiet, PcValues, CmdAt
<1>. QED
  BY <1>1, GotoFacts DEF Goto

(* A message is served, and its sender has still to see the answer. *)
LEMMA ServeFacts ==
    ASSUME CallType, MailInv, NEW m \in Slots, NEW msg \in WeakMessage,
           mail' = [mail EXCEPT ![m] = msg], UNCHANGED <<call, faults>>, GoodMsg(msg),
           msg.cmd = "PUT" => msg.res # "err",
           m[2] = "now" => msg.cmd = mail[m].cmd,
           m[2] = "late" => msg = NoMail \/ (msg.res \in {"sent", "busy"} /\ faults > 0)
    PROVE  CallType' /\ MailInv'
<1>1. \A k \in Slots : mail'[k] = IF k = m THEN msg ELSE mail[k]
  BY DEF CallType
<1>2. CallType'
  BY DEF CallType
<1>3. ASSUME NEW k \in Slots PROVE SlotInv(k)'
  <2>1. CASE k = m
    BY <1>1, <2>1, SlotFacts DEF SlotInv, Pending
  <2>2. CASE k # m
    BY <1>1, <2>2 DEF MailInv, SlotInv, Pending
  <2>. QED
    BY <2>1, <2>2
<1>4. ASSUME NEW u \in Threads PROVE CallInv(u)'
  BY <1>1, SlotFacts DEF MailInv, CallInv
<1>. QED
  BY <1>2, <1>3, <1>4 DEF MailInv

(* The messages that are sent are well formed. *)
LEMMA MsgFacts ==
    /\ NoMail \in WeakMessage /\ GoodMsg(NoMail) /\ NoMail.cmd = "none" /\ NoMail.res = "none" /\ NoMail.ids = {}
    /\ \A cmd \in {"GET", "FLUSH"}, n \in Nat :
          /\ Msg(cmd, {}, n) \in WeakMessage /\ GoodMsg(Msg(cmd, {}, n))
          /\ Msg(cmd, {}, n).cmd = cmd /\ Msg(cmd, {}, n).res = "sent" /\ Msg(cmd, {}, n).ids = {}
          /\ Msg(cmd, {}, n).n = n
    /\ \A S \in SUBSET Ids :
          /\ Msg("PUT", S, 0) \in WeakMessage /\ GoodMsg(Msg("PUT", S, 0))
          /\ Msg("PUT", S, 0).cmd = "PUT" /\ Msg("PUT", S, 0).res = "sent" /\ Msg("PUT", S, 0).ids = S
  BY DEF NoMail, Msg, WeakMessage, GoodMsg

(* Starting or refusing a call keeps calls and messages in step. *)
LEMMA MailStepCall ==
    ASSUME PoolType, HandType, CallType, MailInv, NEW t \in Threads,
           Alloc(t) \/ Free(t) \/ FreeNoPool(t) \/ Flush(t) \/ Unregister(t)
    PROVE  CallType' /\ MailInv'
<1>. USE DEF At, Get, Goto, PcValues, CmdAt
<1>1. CASE Alloc(t)
  <2>1. Goto(t, "alloc") /\ call[t].pc = "idle" /\ UNCHANGED <<mail, faults>>
    BY <1>1 DEF Alloc, At, Get, Goto
  <2>. QED
    BY <2>1, QuietGoto DEF Quiet
<1>2. CASE Free(t)
  <2>1. PICK i \in held[t] : Get(t, "free", {i})
    BY <1>2 DEF Free
  <2>2. {i} \in SUBSET Ids
    BY <2>1 DEF HandType
  <2>3. call' = [call EXCEPT ![t] = [pc |-> "free", ids |-> {i}]] /\ call[t].pc = "idle" /\ UNCHANGED <<mail, faults>>
    BY <1>2, <2>1 DEF Free
  <2>4. CmdAt("free") = CmdAt(call[t].pc) /\ "free" \in PcValues
    BY <2>3
  <2>. QED
    BY <2>2, <2>3, <2>4, GotoFacts
<1>3. CASE FreeNoPool(t)
  BY <1>3 DEF FreeNoPool, CallType, MailInv, SlotInv, CallInv, Pending
<1>4. CASE Flush(t)
  <2>1. Goto(t, "flushlock") /\ call[t].pc = "idle" /\ UNCHANGED <<mail, faults>>
    BY <1>4 DEF Flush, At, Get, Goto
  <2>. QED
    BY <2>1, QuietGoto DEF Quiet
<1>5. CASE Unregister(t)
  <2>1. Goto(t, "put") /\ call[t].pc = "idle" /\ UNCHANGED <<mail, faults>>
    BY <1>5 DEF Unregister, At
  <2>. QED
    BY <2>1, QuietGoto DEF Quiet
<1>. QED
  BY <1>1, <1>2, <1>3, <1>4, <1>5

(* The size of a batch is a natural number. *)
LEMMA ReqNumNat == ASSUME PoolType, NEW s \in Sides, ReqNum(s) > 0 PROVE ReqNum(s) \in Nat
<1>1. IdNum \in Nat /\ alloc_num[s] \in Int /\ Batch \in Nat
  BY IdAssumption, FS_CardinalityType DEF IdAssumption, IdNum, PoolType
<1>2. ReqNum(s) \in Int
  BY <1>1 DEF ReqNum
<1>. QED
  BY <1>2

(* So do the steps of an allocation up to its request, *)
LEMMA MailStepAlloc ==
    ASSUME PoolType, HandType, CallType, MailInv, NEW t \in Threads,
           AllocCached(t) \/ AllocExhausted(t) \/ AllocBatch(t) \/ CheckAvail(t) \/ Synced(t)
    PROVE  CallType' /\ MailInv'
<1>. USE DEF PcValues, CmdAt
<1>1. CASE AllocCached(t)
  <2>1. Goto(t, "put") /\ call[t].pc = "alloc" /\ UNCHANGED <<mail, faults>>
    BY <1>1 DEF AllocCached, At
  <2>. QED
    BY <2>1, QuietGoto DEF Quiet
<1>2. CASE AllocExhausted(t)
  <2>1. Goto(t, "put") /\ call[t].pc = "alloc" /\ UNCHANGED <<mail, faults>>
    BY <1>2 DEF AllocExhausted, At
  <2>. QED
    BY <2>1, QuietGoto DEF Quiet
<1>3. CASE AllocBatch(t)
  <2>1. CASE SideOf(t) = "host"
    <3>1. ReqNum(SideOf(t)) \in Nat
      BY <1>3, SideFacts, ReqNumNat DEF AllocBatch
    <3>. DEFINE msg == Msg("GET", {}, ReqNum(SideOf(t)))
    <3>2. Goto(t, "get") /\ Send(t, msg) /\ UNCHANGED faults
      BY <1>3, <2>1 DEF AllocBatch
    <3>3. msg \in WeakMessage /\ GoodMsg(msg) /\ msg.cmd = "GET" /\ msg.res = "sent"
      BY <3>1, MsgFacts
    <3>. HIDE DEF msg
    <3>. QED
      BY <3>2, <3>3, SendFacts
  <2>2. CASE SideOf(t) # "host"
    <3>1. Goto(t, "avail") /\ call[t].pc = "alloc" /\ UNCHANGED <<mail, faults>>
      BY <1>3, <2>2 DEF AllocBatch, At
    <3>. QED
      BY <3>1, QuietGoto DEF Quiet
  <2>. QED
    BY <2>1, <2>2
<1>4. CASE CheckAvail(t)
  <2>1. CASE avail = {}
    BY <1>4, <2>1, MsgFacts, SendFacts DEF CheckAvail
  <2>2. CASE avail # {}
    BY <1>4, <2>2, MsgFacts, SendFacts DEF CheckAvail
  <2>. QED
    BY <2>1, <2>2
<1>5. CASE Synced(t)
  <2>1. CASE Result(t) = "ok"
    BY <1>5, <2>1, MsgFacts, SendFacts DEF Synced
  <2>2. CASE Result(t) # "ok"
    BY <1>5, <2>2, MsgFacts, SendFacts DEF Synced, AllocFails
  <2>. QED
    BY <2>1, <2>2
<1>. QED
  BY <1>1, <1>2, <1>3, <1>4, <1>5

(* those that take its answer, *)
LEMMA MailStepGot ==
    ASSUME PoolType, HandType, CallType, MailInv, NEW t \in Threads,
           GotOne(t) \/ GotBatch(t) \/ Undone(t) \/ GotNothing(t) \/ Take(t)
    PROVE  CallType' /\ MailInv'
<1>. USE DEF PcValues, CmdAt
<1>1. CASE GotOne(t)
  BY <1>1, MsgFacts, SendFacts DEF GotOne
<1>2. CASE GotBatch(t)
  <2>1. PICK S \in SUBSET mail[Now(t)].ids :
           IF mail[Now(t)].ids \ S = {} THEN Goto(t, "take") /\ Send(t, NoMail)
           ELSE Goto(t, "undo") /\ Send(t, Msg("PUT", mail[Now(t)].ids \ S, 0))
    BY <1>2 DEF GotBatch
  <2>2. mail[Now(t)].ids \ S \in SUBSET Ids
    BY SlotFacts DEF CallType, WeakMessage
  <2>3. CASE mail[Now(t)].ids \ S = {}
    BY <1>2, <2>1, <2>3, MsgFacts, SendFacts DEF GotBatch
  <2>4. CASE mail[Now(t)].ids \ S # {}
    <3>. DEFINE msg == Msg("PUT", mail[Now(t)].ids \ S, 0)
    <3>1. Goto(t, "undo") /\ Send(t, msg) /\ UNCHANGED faults
      BY <1>2, <2>1, <2>4 DEF GotBatch
    <3>2. msg \in WeakMessage /\ GoodMsg(msg) /\ msg.cmd = "PUT" /\ msg.res = "sent"
      BY <2>2, MsgFacts
    <3>. HIDE DEF msg
    <3>. QED
      BY <3>1, <3>2, SendFacts
  <2>. QED
    BY <2>3, <2>4
<1>3. CASE Undone(t)
  BY <1>3, MsgFacts, SendFacts DEF Undone
<1>4. CASE GotNothing(t)
  BY <1>4, MsgFacts, SendFacts DEF GotNothing, AllocFails
<1>5. CASE Take(t)
  <2>1. Goto(t, "put") /\ call[t].pc = "take" /\ UNCHANGED <<mail, faults>>
    BY <1>5 DEF Take, At
  <2>. QED
    BY <2>1, QuietGoto DEF Quiet
<1>. QED
  BY <1>1, <1>2, <1>3, <1>4, <1>5

(* those of a free, *)
LEMMA MailStepFree ==
    ASSUME PoolType, HandType, CallType, MailInv, NEW t \in Threads,
           FreeCached(t) \/ FreeBatch(t) \/ Freed(t) \/ Put(t)
    PROVE  CallType' /\ MailInv'
<1>. USE DEF PcValues, CmdAt
<1>1. CASE FreeCached(t)
  <2>1. Goto(t, "put") /\ call[t].pc = "free" /\ UNCHANGED <<mail, faults>>
    BY <1>1 DEF FreeCached, At
  <2>. QED
    BY <2>1, QuietGoto DEF Quiet
<1>2. CASE FreeBatch(t)
  <2>. DEFINE msg == Msg("PUT", call[t].ids, 0)
  <2>1. Goto(t, "freeing") /\ Send(t, msg) /\ UNCHANGED faults
    BY <1>2 DEF FreeBatch
  <2>2. call[t].ids \in SUBSET Ids
    BY DEF CallType
  <2>3. msg \in WeakMessage /\ GoodMsg(msg) /\ msg.cmd = "PUT" /\ msg.res = "sent"
    BY <2>2, MsgFacts
  <2>. HIDE DEF msg
  <2>. QED
    BY <2>1, <2>3, SendFacts
<1>3. CASE Freed(t)
  BY <1>3, MsgFacts, SendFacts DEF Freed
<1>4. CASE Put(t)
  <2>1. PICK l \in {"flush", "reply", "idle"} : Goto(t, l)
    BY <1>4 DEF Put, Return
  <2>2. UNCHANGED <<mail, faults>> /\ call[t].pc = "put"
    BY <1>4 DEF Put, At
  <2>. QED
    BY <2>1, <2>2, QuietGoto DEF Quiet
<1>. QED
  BY <1>1, <1>2, <1>3, <1>4

(* and those of a flush. *)
LEMMA MailStepFlush ==
    ASSUME PoolType, HandType, CallType, MailInv, NEW t \in Threads,
           FlushLock(t) \/ FlushBatch(t) \/ FlushMore(t) \/ FlushEnd(t) \/ FlushReply(t)
    PROVE  CallType' /\ MailInv'
<1>. USE DEF PcValues, CmdAt
<1>1. CASE FlushLock(t)
  <2>1. Goto(t, "flush") /\ call[t].pc = "flushlock" /\ UNCHANGED <<mail, faults>>
    BY <1>1 DEF FlushLock, At
  <2>. QED
    BY <2>1, QuietGoto DEF Quiet
<1>2. CASE FlushBatch(t)
  <2>1. PICK S \in SUBSET cache[SideOf(t)] : Send(t, Msg("PUT", S, 0))
    BY <1>2 DEF FlushBatch
  <2>2. S \in SUBSET Ids
    BY SideFacts DEF PoolType
  <2>. DEFINE msg == Msg("PUT", S, 0)
  <2>3. Goto(t, "flushing") /\ Send(t, msg) /\ UNCHANGED faults
    BY <1>2, <2>1 DEF FlushBatch
  <2>4. msg \in WeakMessage /\ GoodMsg(msg) /\ msg.cmd = "PUT" /\ msg.res = "sent"
    BY <2>2, MsgFacts
  <2>. HIDE DEF msg
  <2>. QED
    BY <2>3, <2>4, SendFacts
<1>3. CASE FlushMore(t)
  BY <1>3, MsgFacts, SendFacts DEF FlushMore
<1>4. CASE FlushEnd(t)
  <2>1. PICK l \in {"put", "reply", "idle"} : Goto(t, l)
    BY <1>4 DEF FlushEnd, Return
  <2>2. Send(t, NoMail) /\ UNCHANGED faults
    BY <1>4 DEF FlushEnd
  <2>. QED
    BY <2>1, <2>2, MsgFacts, SendFacts
<1>5. CASE FlushReply(t)
  <2>1. /\ \A m \in Slots : mail'[m] = IF mail[m].cmd = "FLUSH" /\ mail[m].res = "busy"
                                       THEN Answer(m, {}, "ok") ELSE mail[m]
        /\ mail' = [m \in Slots |-> mail'[m]]
        /\ \A u \in Threads : call'[u] = IF u = t THEN [pc |-> "idle", ids |-> {}] ELSE call[u]
        /\ call[t].pc = "reply" /\ UNCHANGED faults
    BY <1>5 DEF FlushReply, Goto, At, CallType
  <2>2. \A m \in Slots : mail[m].cmd = "FLUSH" =>
             /\ Answer(m, {}, "ok") \in WeakMessage /\ GoodMsg(Answer(m, {}, "ok"))
             /\ m[2] = "late" => Answer(m, {}, "ok") = NoMail
             /\ m[2] = "now" => Answer(m, {}, "ok").cmd = "FLUSH"
             /\ Answer(m, {}, "ok").cmd # "PUT"
    BY MsgFacts, SlotFacts DEF Answer, GoodMsg, WeakMessage
  <2>3. CallType'
    <3>1. \A m \in Slots : mail'[m] \in WeakMessage
      BY <2>1, <2>2 DEF CallType
    <3>2. mail' \in [Slots -> WeakMessage]
      BY <2>1, <3>1
    <3>. QED
      BY <1>5, <3>2 DEF FlushReply, Goto, CallType
  <2>4. ASSUME NEW m \in Slots PROVE SlotInv(m)'
    BY <2>1, <2>2 DEF MailInv, SlotInv, Pending
  <2>5. ASSUME NEW u \in Threads PROVE CallInv(u)'
    <3>1. mail'[Now(u)].cmd = mail[Now(u)].cmd
      BY <2>1, <2>2, SlotFacts
    <3>. QED
      BY <2>1, <3>1 DEF MailInv, CallInv
  <2>. QED
    BY <2>3, <2>4, <2>5 DEF MailInv
<1>. QED
  BY <1>1, <1>2, <1>3, <1>4, <1>5

(* What a handler leaves behind: an answer, or nothing for a late message. *)
LEMMA AnswerFacts ==
    ASSUME CallType, NEW m \in Slots, NEW S \in SUBSET Ids, NEW r \in {"ok", "err"}
    PROVE  /\ Answer(m, S, r) \in WeakMessage
           /\ m[2] = "late" => Answer(m, S, r) = NoMail
           /\ m[2] = "now" => /\ Answer(m, S, r).cmd = mail[m].cmd /\ Answer(m, S, r).ids = S
                              /\ Answer(m, S, r).res = r /\ Answer(m, S, r).n = 0
  BY MsgFacts, SlotFacts DEF Answer, CallType, WeakMessage

(* A message that fails leaves its sender with an error. *)
LEMMA MailStepFail ==
    ASSUME PoolType, HandType, CallType, MailInv, NEW t \in Threads, NotSent(t) \/ GiveUp(t)
    PROVE  CallType' /\ MailInv'
<1>1. /\ faults \in Nat /\ faults' = faults + 1 /\ UNCHANGED call
      /\ mail[Now(t)].res \in {"sent", "busy"}
  BY DEF NotSent, GiveUp, HandType, Result, Pending
<1>. DEFINE ans == Answer(Now(t), {}, "err")
<1>2. ans \in WeakMessage /\ ans.cmd = mail[Now(t)].cmd /\ ans.ids = {} /\ ans.res = "err"
  BY AnswerFacts, SlotFacts
<1>3. mail[Now(t)].cmd # "none" /\ GoodMsg(mail[Now(t)]) /\ mail[Now(t)] \in WeakMessage
  BY <1>1, SlotFacts, MsgFacts DEF MailInv, SlotInv, GoodMsg, CallType
<1>4. GoodMsg(ans)
  BY <1>2, <1>3 DEF GoodMsg
<1>5. \/ mail' = [mail EXCEPT ![Now(t)] = ans]
      \/ mail' = [mail EXCEPT ![Late(t)] = mail[Now(t)], ![Now(t)] = ans]
  BY DEF NotSent, GiveUp
<1>. HIDE DEF ans
<1>6. \A m \in Slots : mail'[m] = IF m = Now(t) THEN ans
                                  ELSE IF m = Late(t) /\ mail'[m] # mail[m] THEN mail[Now(t)] ELSE mail[m]
  BY <1>5, SlotFacts DEF CallType
<1>7. CallType'
  BY <1>1, <1>2, <1>3, <1>5, SlotFacts DEF CallType
<1>8. ASSUME NEW m \in Slots PROVE SlotInv(m)'
  <2>1. CASE m = Now(t)
    BY <1>1, <1>2, <1>4, <1>6, <2>1, SlotFacts DEF SlotInv
  <2>2. CASE m # Now(t) /\ mail'[m] = mail[m]
    BY <1>1, <2>2 DEF MailInv, SlotInv, Pending
  <2>3. CASE m # Now(t) /\ mail'[m] # mail[m]
    <3>1. m = Late(t) /\ mail'[m] = mail[Now(t)]
      BY <1>6, <2>3
    <3>. QED
      BY <1>1, <1>3, <3>1 DEF SlotInv, Pending
  <2>. QED
    BY <2>1, <2>2, <2>3
<1>9. ASSUME NEW u \in Threads PROVE CallInv(u)'
  <2>1. mail'[Now(u)].cmd = mail[Now(u)].cmd
    BY <1>2, <1>6, SlotFacts
  <2>. QED
    BY <1>1, <2>1 DEF MailInv, CallInv
<1>. QED
  BY <1>7, <1>8, <1>9 DEF MailInv

(* The handlers answer what was asked. *)
LEMMA MailStepServe ==
    ASSUME PoolType, HandType, CallType, MailInv, NEW m \in Slots,
           GetOne(m) \/ GetEnd(m) \/ PutOne(m) \/ FlushAsked(m)
    PROVE  CallType' /\ MailInv'
<1>0. /\ mail[m] \in WeakMessage /\ m[2] \in {"now", "late"} /\ GoodMsg(mail[m])
      /\ m[2] = "late" => mail[m] = NoMail \/ (Pending(m) /\ faults > 0)
  BY SlotFacts DEF CallType, MailInv, SlotInv
<1>1. CASE GetOne(m)
  <2>1. PICK i \in avail : mail' = [mail EXCEPT ![m] =
           [cmd |-> "GET", ids |-> mail[m].ids \cup {i}, n |-> mail[m].n - 1, res |-> "busy"]]
    BY <1>1 DEF GetOne, CallType
  <2>. DEFINE msg == [cmd |-> "GET", ids |-> mail[m].ids \cup {i}, n |-> mail[m].n - 1, res |-> "busy"]
  <2>2. mail[m].cmd = "GET" /\ mail[m].n > 0 /\ UNCHANGED <<call, faults>> /\ Pending(m)
    BY <1>1 DEF GetOne
  <2>3. mail[m].ids \cup {i} \in SUBSET Ids /\ mail[m].n - 1 \in Nat
    BY <1>0, <2>2 DEF WeakMessage, HandType
  <2>4. msg \in WeakMessage /\ GoodMsg(msg) /\ msg.cmd = "GET" /\ msg.res = "busy"
    BY <2>3 DEF WeakMessage, GoodMsg
  <2>5. mail[m] # NoMail
    BY <2>2, MsgFacts
  <2>. HIDE DEF msg
  <2>6. mail' = [mail EXCEPT ![m] = msg]
    BY <2>1 DEF msg
  <2>. QED
    BY <1>0, <2>2, <2>4, <2>5, <2>6, ServeFacts
<1>2. CASE GetEnd(m)
  <2>. DEFINE r == IF mail[m].ids = {} THEN "err" ELSE "ok"
              msg == Answer(m, mail[m].ids, r)
  <2>1. mail' = [mail EXCEPT ![m] = msg] /\ mail[m].cmd = "GET" /\ UNCHANGED <<call, faults>>
    BY <1>2 DEF GetEnd, CallType
  <2>2. r \in {"ok", "err"} /\ (r = "err" => mail[m].ids = {}) /\ mail[m].ids \in SUBSET Ids
    BY <1>0 DEF WeakMessage
  <2>. HIDE DEF r
  <2>3. /\ msg \in WeakMessage /\ (m[2] = "late" => msg = NoMail)
        /\ m[2] = "now" => msg.cmd = "GET" /\ msg.ids = mail[m].ids /\ msg.res = r
    BY <2>1, <2>2, AnswerFacts
  <2>. HIDE DEF msg
  <2>4. GoodMsg(msg) /\ msg.cmd # "PUT"
    BY <1>0, <2>2, <2>3, MsgFacts DEF GoodMsg
  <2>. QED
    BY <1>0, <2>1, <2>3, <2>4, ServeFacts
<1>3. CASE PutOne(m)
  <2>1. PICK rest \in SUBSET mail[m].ids : mail' = [mail EXCEPT ![m] =
           IF rest = {} THEN Answer(m, {}, "ok") ELSE [mail[m] EXCEPT !.ids = rest, !.res = "busy"]]
    <3>1. PICK i \in mail[m].ids :
            LET refused == SideOf(m[1]) = "host" /\ i \notin marked
                rest    == IF refused THEN {} ELSE mail[m].ids \ {i}
            IN  mail' = [mail EXCEPT ![m] =
                           IF rest = {} THEN Answer(m, {}, "ok") ELSE [mail[m] EXCEPT !.ids = rest, !.res = "busy"]]
      BY <1>3 DEF PutOne, CallType
    <3>. DEFINE rest == IF SideOf(m[1]) = "host" /\ i \notin marked THEN {} ELSE mail[m].ids \ {i}
    <3>2. rest \in SUBSET mail[m].ids
      OBVIOUS
    <3>. QED
      BY <3>1, <3>2
  <2>2. mail[m].cmd = "PUT" /\ UNCHANGED <<call, faults>> /\ Pending(m)
    BY <1>3 DEF PutOne
  <2>3. CASE rest = {}
    <3>. DEFINE msg == Answer(m, {}, "ok")
    <3>1. /\ msg \in WeakMessage /\ (m[2] = "late" => msg = NoMail)
          /\ m[2] = "now" => msg.cmd = "PUT" /\ msg.ids = {} /\ msg.res = "ok"
      BY <2>2, AnswerFacts
    <3>2. mail' = [mail EXCEPT ![m] = msg]
      BY <2>1, <2>3
    <3>. HIDE DEF msg
    <3>3. GoodMsg(msg) /\ (msg.cmd = "PUT" => msg.res # "err")
      BY <1>0, <3>1, MsgFacts DEF GoodMsg
    <3>. QED
      BY <1>0, <2>2, <3>1, <3>2, <3>3, ServeFacts
  <2>4. CASE rest # {}
    <3>. DEFINE msg == [mail[m] EXCEPT !.ids = rest, !.res = "busy"]
    <3>1. msg \in WeakMessage /\ msg.cmd = "PUT" /\ msg.res = "busy"
      BY <1>0, <2>2 DEF WeakMessage
    <3>2. mail' = [mail EXCEPT ![m] = msg] /\ mail[m] # NoMail
      BY <2>1, <2>2, <2>4, MsgFacts
    <3>. HIDE DEF msg
    <3>3. GoodMsg(msg)
      BY <3>1 DEF GoodMsg
    <3>. QED
      BY <1>0, <2>2, <3>1, <3>2, <3>3, ServeFacts
  <2>. QED
    BY <2>3, <2>4
<1>4. CASE FlushAsked(m)
  <2>1. mail[m].cmd = "FLUSH" /\ mail[m].res = "sent" /\ UNCHANGED faults /\ mail[m].ids = {}
    BY <1>0, <1>4 DEF FlushAsked, GoodMsg
  <2>2. CASE ~registered["host"]
    <3>. DEFINE msg == Answer(m, {}, "ok")
    <3>1. /\ msg \in WeakMessage /\ (m[2] = "late" => msg = NoMail)
          /\ m[2] = "now" => msg.cmd = "FLUSH" /\ msg.ids = {} /\ msg.res = "ok"
      BY <2>1, AnswerFacts
    <3>2. mail' = [mail EXCEPT ![m] = msg] /\ UNCHANGED <<call, faults>>
      BY <1>4, <2>2 DEF FlushAsked
    <3>. HIDE DEF msg
    <3>3. GoodMsg(msg) /\ msg.cmd # "PUT"
      BY <1>0, <3>1, MsgFacts DEF GoodMsg
    <3>. QED
      BY <1>0, <2>1, <3>1, <3>2, <3>3, ServeFacts
  <2>3. CASE registered["host"]
    <3>. DEFINE msg == [mail[m] EXCEPT !.res = "busy"]
    <3>1. mail' = [mail EXCEPT ![m] = msg] /\ mail[m] # NoMail
      BY <1>4, <2>1, <2>3, MsgFacts DEF FlushAsked, CallType
    <3>2. msg \in WeakMessage /\ msg.cmd = "FLUSH" /\ msg.ids = {} /\ msg.res = "busy"
      BY <1>0, <2>1 DEF WeakMessage
    <3>. HIDE DEF msg
    <3>3. GoodMsg(msg)
      BY <3>2 DEF GoodMsg
    <3>4. /\ Flusher \in Threads /\ call[Flusher].pc = "idle"
          /\ call' = [call EXCEPT ![Flusher] = [pc |-> "flushlock", ids |-> {}]]
      BY <1>4, <2>3, SideFacts DEF FlushAsked, At, Get
    <3>5. /\ \A k \in Slots : mail'[k] = IF k = m THEN msg ELSE mail[k]
          /\ \A u \in Threads : call'[u] = IF u = Flusher THEN [pc |-> "flushlock", ids |-> {}] ELSE call[u]
      BY <3>1, <3>4 DEF CallType
    <3>6. CallType'
      BY <3>1, <3>2, <3>4 DEF CallType, PcValues
    <3>7. ASSUME NEW k \in Slots PROVE SlotInv(k)'
      <4>1. CASE k = m
        BY <1>0, <2>1, <3>1, <3>2, <3>3, <3>5, <4>1 DEF SlotInv, Pending
      <4>2. CASE k # m
        BY <2>1, <3>5, <4>2 DEF MailInv, SlotInv, Pending
      <4>. QED
        BY <4>1, <4>2
    <3>8. ASSUME NEW u \in Threads PROVE CallInv(u)'
      <4>1. mail'[Now(u)].cmd = mail[Now(u)].cmd
        BY <2>1, <3>2, <3>5, SlotFacts
      <4>. QED
        BY <3>4, <3>5, <4>1 DEF MailInv, CallInv, CmdAt
    <3>. QED
      BY <3>6, <3>7, <3>8 DEF MailInv
  <2>. QED
    BY <2>2, <2>3
<1>. QED
  BY <1>1, <1>2, <1>3, <1>4

(* Every step keeps calls and messages in step. *)
LEMMA MailStep ==
    ASSUME PoolType, HandType, CallType, MailInv, [Next]_vars
    PROVE  CallType' /\ MailInv'
<1>1. CASE UNCHANGED vars
  BY <1>1 DEF vars, CallType, MailInv, SlotInv, CallInv, Pending
<1>. QED
  BY <1>1, NextCases, MailStepCall, MailStepAlloc, MailStepGot, MailStepFree, MailStepFlush,
     MailStepFail, MailStepServe

(* Every step keeps the types of the pools, *)
LEMMA PoolTypeStep ==
    ASSUME PoolType, HandType, CallType, MailInv, [Next]_vars
    PROVE  PoolType'
<1>. USE SideFacts DEF PoolType, poolVars
<1>0. \A t \in Threads : mail[Now(t)].ids \in SUBSET Ids /\ call[t].ids \in SUBSET Ids
  BY SlotFacts DEF CallType, WeakMessage
<1>1. ASSUME NEW t \in Threads, Alloc(t) \/ Free(t) \/ FreeNoPool(t) \/ Flush(t) PROVE PoolType'
  BY <1>1 DEF Alloc, Free, FreeNoPool, Flush, Get
<1>2. ASSUME NEW t \in Threads, Unregister(t) PROVE PoolType'
  <2>1. registered' \in [Sides -> BOOLEAN]
    BY <1>2, Zenon DEF Unregister
  <2>. QED
    BY <1>2, <2>1 DEF Unregister
<1>3. ASSUME NEW t \in Threads, AllocCached(t) \/ Take(t) PROVE PoolType'
  BY <1>3 DEF AllocCached, Take, TakeOne, Unlock
<1>4. ASSUME NEW t \in Threads, AllocExhausted(t) \/ AllocBatch(t) \/ CheckAvail(t) \/ Synced(t) PROVE PoolType'
  BY <1>4 DEF AllocExhausted, AllocBatch, CheckAvail, Synced, Lock, Unlock, AllocFails
<1>5. ASSUME NEW t \in Threads, GotOne(t) \/ Undone(t) \/ GotNothing(t) PROVE PoolType'
  BY <1>5 DEF GotOne, Undone, GotNothing, Unlock, AllocFails
<1>6. ASSUME NEW t \in Threads, GotBatch(t) PROVE PoolType'
  <2>1. PICK S \in SUBSET mail[Now(t)].ids : cache' = [cache EXCEPT ![SideOf(t)] = @ \cup S]
    BY <1>6 DEF GotBatch
  <2>. QED
    BY <1>0, <1>6, <2>1 DEF GotBatch
<1>7. ASSUME NEW t \in Threads, FreeCached(t) \/ FreeBatch(t) \/ Freed(t) \/ Put(t) PROVE PoolType'
  <2>1. CASE FreeCached(t)
    BY <1>0, <2>1 DEF FreeCached
  <2>2. CASE FreeBatch(t)
    BY <2>2 DEF FreeBatch, Lock
  <2>3. CASE Freed(t)
    BY <2>3 DEF Freed, Unlock
  <2>4. CASE Put(t)
    BY <2>4 DEF Put
  <2>. QED
    BY <1>7, <2>1, <2>2, <2>3, <2>4
<1>8. ASSUME NEW t \in Threads, FlushLock(t) \/ FlushBatch(t) \/ FlushMore(t) \/ FlushReply(t) PROVE PoolType'
  BY <1>8 DEF FlushLock, FlushBatch, FlushMore, FlushReply, Lock
<1>9. ASSUME NEW t \in Threads, FlushEnd(t) PROVE PoolType'
  <2>1. cache' \in [Sides -> SUBSET Ids] /\ mutex' \in [Sides -> Threads \cup {Nobody}]
    BY <1>9 DEF FlushEnd, Unlock
  <2>. QED
    BY <1>9, <2>1 DEF FlushEnd
<1>10. ASSUME NEW t \in Threads, NotSent(t) \/ GiveUp(t) PROVE PoolType'
  BY <1>10 DEF NotSent, GiveUp
<1>11. ASSUME NEW m \in Slots, GetOne(m) \/ GetEnd(m) \/ PutOne(m) \/ FlushAsked(m) PROVE PoolType'
  <2>1. CASE GetOne(m) \/ GetEnd(m) \/ PutOne(m)
    BY <2>1 DEF GetOne, GetEnd, PutOne
  <2>2. CASE FlushAsked(m)
    <3>1. ref' \in [Sides -> Int]
      BY <2>2 DEF FlushAsked, Get
    <3>. QED
      BY <2>2, <3>1 DEF FlushAsked
  <2>. QED
    BY <1>11, <2>1, <2>2
<1>12. CASE UNCHANGED vars
  BY <1>12 DEF vars
<1>. QED
  BY <1>1, <1>2, <1>3, <1>4, <1>5, <1>6, <1>7, <1>8, <1>9, <1>10, <1>11, <1>12, NextCases

(* and those of what is with users and in the pool of the device. *)
LEMMA HandTypeStep ==
    ASSUME PoolType, HandType, CallType, MailInv, [Next]_vars
    PROVE  HandType'
<1>. USE SideFacts DEF HandType
<1>0. /\ \A t \in Threads : mail[Now(t)].ids \in SUBSET Ids /\ call[t].ids \in SUBSET Ids
      /\ \A m \in Slots : mail[m].ids \in SUBSET Ids
      /\ \A s \in Sides : cache[s] \in SUBSET Ids
      /\ MaxFaults \in Nat
  BY SlotFacts, IdAssumption DEF CallType, WeakMessage, PoolType, IdAssumption
<1>1. ASSUME NEW t \in Threads, Alloc(t) \/ Free(t) \/ FreeNoPool(t) \/ Flush(t) \/ Unregister(t) PROVE HandType'
  BY <1>1 DEF Alloc, Free, FreeNoPool, Flush, Unregister
<1>2. ASSUME NEW t \in Threads, AllocCached(t) \/ Take(t) PROVE HandType'
  BY <1>0, <1>2 DEF AllocCached, Take, TakeOne
<1>3. ASSUME NEW t \in Threads, AllocExhausted(t) \/ AllocBatch(t) \/ CheckAvail(t) \/ Synced(t) PROVE HandType'
  BY <1>3 DEF AllocExhausted, AllocBatch, CheckAvail, Synced
<1>4. ASSUME NEW t \in Threads, GotOne(t) \/ GotBatch(t) \/ Undone(t) \/ GotNothing(t) PROVE HandType'
  BY <1>0, <1>4 DEF GotOne, GotBatch, Undone, GotNothing
<1>5. ASSUME NEW t \in Threads, FreeCached(t) \/ FreeBatch(t) \/ Freed(t) \/ Put(t) PROVE HandType'
  BY <1>5 DEF FreeCached, FreeBatch, Freed, Put
<1>6. ASSUME NEW t \in Threads, FlushLock(t) \/ FlushBatch(t) \/ FlushMore(t) \/ FlushEnd(t) \/ FlushReply(t) PROVE HandType'
  BY <1>6 DEF FlushLock, FlushBatch, FlushMore, FlushEnd, FlushReply
<1>7. ASSUME NEW t \in Threads, NotSent(t) \/ GiveUp(t) PROVE HandType'
  <2>1. faults' \in 0 .. MaxFaults
    BY <1>0, <1>7 DEF NotSent, GiveUp
  <2>. QED
    BY <1>7, <2>1 DEF NotSent, GiveUp
<1>8. ASSUME NEW m \in Slots, GetOne(m) \/ GetEnd(m) \/ FlushAsked(m) PROVE HandType'
  BY <1>8 DEF GetOne, GetEnd, FlushAsked
<1>9. ASSUME NEW m \in Slots, PutOne(m) PROVE HandType'
  <2>1. PICK i \in mail[m].ids : avail' \in {avail, avail \cup {i}} /\ marked' \in {marked, marked \ {i}}
    BY <1>9 DEF PutOne
  <2>. QED
    BY <1>0, <1>9, <2>1 DEF PutOne
<1>10. CASE UNCHANGED vars
  BY <1>10 DEF vars
<1>. QED
  BY <1>1, <1>2, <1>3, <1>4, <1>5, <1>6, <1>7, <1>8, <1>9, <1>10, NextCases

BaseInv == PoolType /\ HandType /\ CallType /\ MailInv

(* Types and messages together are inductive. *)
LEMMA BaseStep == BaseInv /\ [Next]_vars => BaseInv'
  BY PoolTypeStep, HandTypeStep, MailStep DEF BaseInv

-----------------------------------------------------------------------------
(* Where ids are.  A place is the id_pool, the list of a side, the hands of a *)
(* thread, a call that frees, a message, or nowhere any more.                 *)

Pool    == <<"pool", "">>
Gone    == <<"gone", "">>
List(s) == <<"list", s>>
Hand(t) == <<"hand", t>>
Desk(t) == <<"desk", t>>
Post(m) == <<"post", m>>

Void    == <<"void", "">>

Place == {Pool, Gone} \cup {List(s) : s \in Sides} \cup {Hand(t) : t \in Threads}
         \cup {Desk(t) : t \in Threads} \cup {Post(m) : m \in Slots}

(* The ids at a place. *)
In(x) ==
    IF x[1] = "pool" THEN avail
    ELSE IF x[1] = "gone" THEN stranded
    ELSE IF x[1] = "list" THEN cache[x[2]]
    ELSE IF x[1] = "hand" THEN held[x[2]]
    ELSE IF x[1] = "desk" THEN call[x[2]].ids
    ELSE mail[x[2]].ids

(* The places and their kinds. *)
LEMMA PlaceFacts ==
    /\ Pool \in Place /\ Pool[1] = "pool" /\ Gone \in Place /\ Gone[1] = "gone"
    /\ \A s \in Sides : List(s) \in Place /\ List(s)[1] = "list" /\ List(s)[2] = s
    /\ \A t \in Threads : /\ Hand(t) \in Place /\ Hand(t)[1] = "hand" /\ Hand(t)[2] = t
                          /\ Desk(t) \in Place /\ Desk(t)[1] = "desk" /\ Desk(t)[2] = t
    /\ \A m \in Slots : Post(m) \in Place /\ Post(m)[1] = "post" /\ Post(m)[2] = m
  BY DEF Place, Pool, Gone, List, Hand, Desk, Post

(* There are no other places. *)
LEMMA PlaceKinds ==
    \A x \in Place : \/ x = Pool \/ x = Gone
                     \/ \E s \in Sides : x = List(s)
                     \/ \E t \in Threads : x = Hand(t) \/ x = Desk(t)
                     \/ \E m \in Slots : x = Post(m)
  BY DEF Place

(* What is in a place, before and after a step. *)
LEMMA InFacts ==
    /\ In(Pool) = avail /\ In(Pool)' = avail' /\ In(Gone) = stranded /\ In(Gone)' = stranded'
    /\ \A s \in Sides : In(List(s)) = cache[s] /\ In(List(s))' = cache'[s]
    /\ \A t \in Threads : In(Hand(t)) = held[t] /\ In(Hand(t))' = held'[t]
    /\ \A t \in Threads : In(Desk(t)) = call[t].ids /\ In(Desk(t))' = call'[t].ids
    /\ \A m \in Slots : In(Post(m)) = mail[m].ids /\ In(Post(m))' = mail'[m].ids
  BY DEF In, Pool, Gone, List, Hand, Desk, Post

(* Places with different names differ. *)
LEMMA PlaceEqual ==
    /\ Pool # Gone /\ Void # Pool /\ Void # Gone
    /\ \A s \in Sides : List(s) \notin {Pool, Gone, Void} /\ \A r \in Sides : List(r) = List(s) <=> r = s
    /\ \A t \in Threads : /\ Hand(t) \notin {Pool, Gone, Void} /\ Desk(t) \notin {Pool, Gone, Void}
                          /\ \A s \in Sides : List(s) # Hand(t) /\ List(s) # Desk(t)
                          /\ \A u \in Threads : /\ Hand(u) = Hand(t) <=> u = t
                                                /\ Desk(u) = Desk(t) <=> u = t
                                                /\ Hand(u) # Desk(t)
    /\ \A m \in Slots : /\ Post(m) \notin {Pool, Gone, Void}
                        /\ \A s \in Sides : Post(m) # List(s)
                        /\ \A t \in Threads : Post(m) # Hand(t) /\ Post(m) # Desk(t)
                        /\ \A k \in Slots : Post(k) = Post(m) <=> k = m
  BY DEF Pool, Gone, Void, List, Hand, Desk, Post

(* The ids S go from p to q; they get lost if q is nowhere. *)
Moves(p, q, S) ==
    /\ p \in Place /\ q \in Place \cup {Void} /\ p # q
    /\ S \subseteq In(p) /\ In(p)' = In(p) \ S
    /\ q \in Place => In(q)' = In(q) \cup S
    /\ \A x \in Place \ {p, q} : In(x)' = In(x)

Still == \A x \in Place : In(x)' = In(x)

(* What is not at p or q stays where it is. *)
LEMMA RestFacts ==
    ASSUME NEW p, NEW q,
           avail' = avail \/ Pool \in {p, q},
           stranded' = stranded \/ Gone \in {p, q},
           \A s \in Sides : cache'[s] = cache[s] \/ List(s) \in {p, q},
           \A t \in Threads : held'[t] = held[t] \/ Hand(t) \in {p, q},
           \A t \in Threads : call'[t].ids = call[t].ids \/ Desk(t) \in {p, q},
           \A m \in Slots : mail'[m].ids = mail[m].ids \/ Post(m) \in {p, q}
    PROVE  \A x \in Place \ {p, q} : In(x)' = In(x)
<1>1. ASSUME NEW x \in Place \ {p, q} PROVE In(x)' = In(x)
  BY PlaceKinds, InFacts
<1>. QED
  BY <1>1

(* Pairs of places that ids move between without a mark of the agent. *)
SideIs(x) ==
    IF x[1] = "list" THEN x[2]
    ELSE IF x[1] \in {"hand", "desk"} THEN SideOf(x[2])
    ELSE IF x[1] = "post" THEN SideOf(x[2][1]) ELSE x[1]

(* The side to which a place belongs. *)
LEMMA SideIsFacts ==
    /\ SideIs(Pool) = "pool" /\ SideIs(Gone) = "gone"
    /\ \A s \in Sides : SideIs(List(s)) = s
    /\ \A t \in Threads : SideIs(Hand(t)) = SideOf(t) /\ SideIs(Desk(t)) = SideOf(t)
    /\ \A m \in Slots : SideIs(Post(m)) = SideOf(m[1])
  BY DEF SideIs, Pool, Gone, List, Hand, Desk, Post

(* A step in which only the control of one thread and its message change. *)
LEMMA StillFacts ==
    ASSUME BaseInv, NEW t \in Threads, UNCHANGED <<avail, stranded, cache, held>>,
           \A u \in Threads : call'[u].ids = call[u].ids,
           \A m \in Slots : mail'[m].ids = mail[m].ids
    PROVE  Still
<1>. SUFFICES ASSUME NEW x \in Place PROVE In(x)' = In(x)
  BY DEF Still
<1>. QED
  BY PlaceKinds, InFacts

(* A request for one id, or what came of it. *)
Single(msg) == (msg.ids = {} /\ msg.n <= 1) \/ (msg.n = 0 /\ \E i : msg.ids = {i})

(* An answer to a GET has ids, and one id where the type is not cached. *)
GetAt(t) ==
    call[t].pc = "get" => /\ Result(t) = "ok" => mail[Now(t)].ids # {}
                          /\ ~Cached(SideOf(t)) => Single(mail[Now(t)])

GetInv == \A t \in Threads : GetAt(t)

(* The effects a step can have on the places of ids. *)
Shifts ==
    \E p, q \in Place, S \in SUBSET Ids :
        /\ Moves(p, q, S) /\ UNCHANGED marked
        /\ SideIs(p) = SideIs(q) \/ q = Gone
        /\ p \notin {Pool, Gone} /\ q # Pool
        /\ p[1] = "hand" => q[1] # "hand" /\ \E i : S = {i}
        /\ q[1] = "hand" => p[1] # "hand" /\ \E i : S = {i}

Forgets ==
    \E p \in Place, S \in SUBSET Ids :
        /\ Moves(p, Void, S) /\ UNCHANGED marked
        /\ p[1] \in {"list", "post"}
        /\ S = {} \/ faults' > 0

FromPool ==
    \E m \in Slots, i \in Ids :
        /\ Moves(Pool, Post(m), {i})
        /\ marked' = IF SideOf(m[1]) = "host" THEN marked \cup {i} ELSE marked

ToPool ==
    \E m \in Slots, i \in Ids :
        /\ Moves(Post(m), Pool, {i})
        /\ marked' = IF SideOf(m[1]) = "host" THEN marked \ {i} ELSE marked

Effect == (Still /\ UNCHANGED marked) \/ Shifts \/ Forgets \/ FromPool \/ ToPool

(* Taking an id off the list hands it to the caller. *)
LEMMA EffectTake ==
    ASSUME BaseInv, NEW t \in Threads, AllocCached(t) \/ Take(t)
    PROVE  Shifts
<1>. DEFINE s == SideOf(t)
<1>0. s \in Sides
  BY SideFacts
<1>1. PICK i \in cache[s] : /\ cache' = [cache EXCEPT ![s] = @ \ {i}]
                            /\ held' = [held EXCEPT ![t] = @ \cup {i}]
  BY DEF AllocCached, Take, TakeOne
<1>2. /\ UNCHANGED <<avail, stranded, mail, marked>> /\ call' = [call EXCEPT ![t] = [pc |-> "put", ids |-> {}]]
      /\ call[t].ids = {} /\ i \in cache[s] /\ {i} \in SUBSET Ids
  BY <1>0, <1>1 DEF AllocCached, Take, Goto, At, BaseInv, MailInv, CallInv, PoolType
<1>. HIDE DEF s
<1>3. /\ cache'[s] = cache[s] \ {i} /\ \A r \in Sides : cache'[r] = cache[r] \/ List(r) = List(s)
      /\ held'[t] = held[t] \cup {i} /\ \A u \in Threads : held'[u] = held[u] \/ Hand(u) = Hand(t)
      /\ \A u \in Threads : call'[u].ids = call[u].ids
      /\ UNCHANGED <<avail, stranded, mail>> /\ {i} \subseteq cache[s]
  BY <1>0, <1>1, <1>2 DEF BaseInv, PoolType, HandType, CallType
<1>4. Moves(List(s), Hand(t), {i})
  <2>1. In(List(s))' = In(List(s)) \ {i} /\ {i} \subseteq In(List(s))
    BY <1>0, <1>3, InFacts
  <2>2. In(Hand(t))' = In(Hand(t)) \cup {i}
    BY <1>0, <1>3, InFacts
  <2>3. \A x \in Place \ {List(s), Hand(t)} : In(x)' = In(x)
    BY <1>0, <1>3, RestFacts
  <2>. QED
    BY <1>0, <1>3, <2>1, <2>2, <2>3, PlaceFacts, PlaceEqual DEF Moves
<1>5. SideIs(List(s)) = SideIs(Hand(t))
  BY <1>0, SideIsFacts DEF s
<1>. QED
  BY <1>0, <1>2, <1>4, <1>5, PlaceFacts DEF Shifts

(* The ids of calls and messages when a thread goes on or sends. *)
LEMMA GotoIds ==
    ASSUME BaseInv, NEW t \in Threads, NEW pc, Goto(t, pc)
    PROVE  /\ call'[t].ids = {} /\ \A u \in Threads : call'[u].ids = call[u].ids \/ Desk(u) = Desk(t)
           /\ call[t].pc # "free" => \A u \in Threads : call'[u].ids = call[u].ids
  BY DEF BaseInv, CallType, MailInv, CallInv, Goto

(* Sending changes the one message only. *)
LEMMA SendIds ==
    ASSUME BaseInv, NEW t \in Threads, NEW msg, Send(t, msg)
    PROVE  /\ mail'[Now(t)] = msg /\ \A k \in Slots : mail'[k].ids = mail[k].ids \/ Post(k) = Post(Now(t))
           /\ \A k \in Slots \ {Now(t)} : mail'[k] = mail[k]
           /\ msg.ids = mail[Now(t)].ids => \A k \in Slots : mail'[k].ids = mail[k].ids
  BY SlotFacts DEF BaseInv, CallType, Send

(* A thread that waits for no message, or has the answer to one that is no    *)
(* GET, has no ids in its message.                                            *)
LEMMA NowEmpty ==
    ASSUME BaseInv, NEW t \in Threads,
           call[t].pc \in Quiet \cup {"sync"} \/ Result(t) = "err" \/ (call[t].pc # "get" /\ Result(t) = "ok")
    PROVE  mail[Now(t)].ids = {}
<1>1. GoodMsg(mail[Now(t)]) /\ mail[Now(t)].cmd = CmdAt(call[t].pc) /\ Now(t) \in Slots
      /\ mail[Now(t)].cmd \in {"none", "GET", "PUT", "FLUSH"} /\ (mail[Now(t)] = NoMail => mail[Now(t)].ids = {})
  BY SlotFacts, MsgFacts DEF BaseInv, MailInv, SlotInv, CallInv, CallType, WeakMessage
<1>. QED
  BY <1>1 DEF GoodMsg, CmdAt, Quiet, Result

(* A step that sends no ids moves none. *)
LEMMA QuietStill ==
    ASSUME BaseInv, NEW t \in Threads, NEW pc, Goto(t, pc), call[t].pc # "free",
           UNCHANGED <<avail, stranded, cache, held>>, mail[Now(t)].ids = {},
           mail' = mail \/ \E msg : Send(t, msg) /\ msg.ids = {}
    PROVE  Still
<1>1. \A u \in Threads : call'[u].ids = call[u].ids
  BY GotoIds
<1>2. \A k \in Slots : mail'[k].ids = mail[k].ids
  BY SendIds
<1>. QED
  BY <1>1, <1>2, StillFacts

(* How the calls move ids when they start, *)
LEMMA EffectCall ==
    ASSUME BaseInv, NEW t \in Threads, Alloc(t) \/ Free(t) \/ FreeNoPool(t) \/ Flush(t) \/ Unregister(t)
    PROVE  Effect
<1>1. CASE Alloc(t) \/ Flush(t) \/ Unregister(t)
  <2>1. PICK pc : Goto(t, pc)
    BY <1>1 DEF Alloc, Flush, Unregister, Get, Goto
  <2>2. call[t].pc = "idle" /\ UNCHANGED <<avail, stranded, cache, held, mail, marked>>
    BY <1>1 DEF Alloc, Flush, Unregister, At, poolVars
  <2>3. mail[Now(t)].ids = {}
    BY <2>2, NowEmpty DEF Quiet
  <2>. QED
    BY <2>1, <2>2, <2>3, QuietStill DEF Effect
<1>2. CASE Free(t)
  <2>1. PICK i \in held[t] : Get(t, "free", {i}) /\ held' = [held EXCEPT ![t] = @ \ {i}]
    BY <1>2 DEF Free
  <2>2. call[t].pc = "idle" /\ UNCHANGED <<avail, stranded, cache, mail, marked>>
    BY <1>2 DEF Free, At
  <2>3. /\ held'[t] = held[t] \ {i} /\ \A u \in Threads : held'[u] = held[u] \/ Hand(u) = Hand(t)
        /\ {i} \subseteq held[t] /\ {i} \in SUBSET Ids
    BY <2>1 DEF BaseInv, HandType
  <2>4. /\ call'[t].ids = call[t].ids \cup {i}
        /\ \A u \in Threads : call'[u].ids = call[u].ids \/ Desk(u) = Desk(t)
    <3>1. call[t].ids = {} /\ call' = [call EXCEPT ![t] = [pc |-> "free", ids |-> {i}]]
      BY <2>1, <2>2 DEF Get, BaseInv, MailInv, CallInv
    <3>. QED
      BY <3>1 DEF BaseInv, CallType
  <2>5. Moves(Hand(t), Desk(t), {i})
    <3>1. In(Hand(t))' = In(Hand(t)) \ {i} /\ {i} \subseteq In(Hand(t))
      BY <2>2, <2>3, <2>4, InFacts
    <3>2. In(Desk(t))' = In(Desk(t)) \cup {i}
      BY <2>2, <2>3, <2>4, InFacts
    <3>3. \A x \in Place \ {Hand(t), Desk(t)} : In(x)' = In(x)
      BY <2>2, <2>3, <2>4, RestFacts
    <3>. QED
      BY <2>2, <2>3, <2>4, <3>1, <3>2, <3>3, PlaceFacts, PlaceEqual DEF Moves
  <2>6. /\ Hand(t) \in Place \ {Pool, Gone} /\ Desk(t) \in Place \ {Pool} /\ SideIs(Hand(t)) = SideIs(Desk(t))
        /\ Desk(t)[1] # "hand"
    BY PlaceFacts, PlaceEqual, SideIsFacts
  <2>. QED
    BY <2>2, <2>3, <2>5, <2>6 DEF Effect, Shifts
<1>3. CASE FreeNoPool(t)
  <2>1. PICK i \in held[t] : stranded' = stranded \cup {i} /\ held' = [held EXCEPT ![t] = @ \ {i}]
    BY <1>3 DEF FreeNoPool
  <2>2. UNCHANGED <<avail, cache, call, mail, marked>>
    BY <1>3 DEF FreeNoPool, poolVars
  <2>3. /\ held'[t] = held[t] \ {i} /\ \A u \in Threads : held'[u] = held[u] \/ Hand(u) = Hand(t)
        /\ {i} \subseteq held[t] /\ {i} \in SUBSET Ids /\ stranded' = stranded \cup {i}
    BY <2>1 DEF BaseInv, HandType
  <2>4. Moves(Hand(t), Gone, {i})
    <3>1. In(Hand(t))' = In(Hand(t)) \ {i} /\ {i} \subseteq In(Hand(t))
      BY <2>2, <2>3, InFacts
    <3>2. In(Gone)' = In(Gone) \cup {i}
      BY <2>2, <2>3, InFacts
    <3>3. \A x \in Place \ {Hand(t), Gone} : In(x)' = In(x)
      BY <2>2, <2>3, RestFacts
    <3>. QED
      BY <2>2, <2>3, <3>1, <3>2, <3>3, PlaceFacts, PlaceEqual DEF Moves
  <2>5. Hand(t) \in Place \ {Pool, Gone} /\ Gone \in Place \ {Pool} /\ Gone[1] # "hand"
    BY PlaceFacts, PlaceEqual
  <2>. QED
    BY <2>2, <2>3, <2>4, <2>5 DEF Effect, Shifts
<1>. QED
  BY <1>1, <1>2, <1>3

(* on the way to a request, *)
LEMMA EffectAlloc ==
    ASSUME BaseInv, NEW t \in Threads, AllocExhausted(t) \/ AllocBatch(t) \/ CheckAvail(t) \/ Synced(t)
    PROVE  Effect
<1>1. UNCHANGED <<avail, stranded, cache, held, marked>> /\ call[t].pc \in {"alloc", "avail", "sync"}
  BY DEF AllocExhausted, AllocBatch, CheckAvail, Synced, At, poolVars
<1>2. mail[Now(t)].ids = {}
  BY <1>1, NowEmpty DEF Quiet
<1>3. \E pc : Goto(t, pc)
  BY DEF AllocExhausted, AllocBatch, CheckAvail, Synced, AllocFails
<1>4. mail' = mail \/ \E msg : Send(t, msg) /\ msg.ids = {}
  <2>1. Msg("GET", {}, ReqNum(SideOf(t))).ids = {} /\ Msg("GET", {}, 1).ids = {} /\ Msg("FLUSH", {}, 0).ids = {}
        /\ NoMail.ids = {}
    BY DEF Msg, NoMail
  <2>. QED
    BY <2>1 DEF AllocExhausted, AllocBatch, CheckAvail, Synced
<1>. QED
  BY <1>1, <1>2, <1>3, <1>4, QuietStill DEF Effect

(* when an answer is taken, *)
LEMMA EffectGot ==
    ASSUME BaseInv, GetInv, NEW t \in Threads, GotOne(t) \/ GotBatch(t) \/ Undone(t) \/ GotNothing(t)
    PROVE  Effect
<1>0. Now(t) \in Slots /\ SideOf(t) \in Sides /\ mail[Now(t)].ids \in SUBSET Ids /\ Now(t)[1] = t
  BY SlotFacts, SideFacts DEF BaseInv, CallType, WeakMessage
<1>1. CASE GotOne(t)
  <2>. DEFINE S == mail[Now(t)].ids
  <2>1. /\ held' = [held EXCEPT ![t] = @ \cup S] /\ Send(t, NoMail) /\ Goto(t, "put")
        /\ call[t].pc = "get" /\ UNCHANGED <<avail, stranded, cache, marked>>
    BY <1>1 DEF GotOne, At
  <2>2. \E i : S = {i}
    BY <1>1, <2>1 DEF GotOne, GetInv, GetAt, Single, At, Result
  <2>3. /\ held'[t] = held[t] \cup S /\ \A u \in Threads : held'[u] = held[u] \/ Hand(u) = Hand(t)
    BY <2>1 DEF BaseInv, HandType
  <2>4. \A u \in Threads : call'[u].ids = call[u].ids
    BY <2>1, GotoIds
  <2>5. /\ mail'[Now(t)].ids = mail[Now(t)].ids \ S /\ S \subseteq mail[Now(t)].ids
        /\ \A k \in Slots : mail'[k].ids = mail[k].ids \/ Post(k) = Post(Now(t))
    BY <2>1, SendIds, MsgFacts
  <2>6. S \in SUBSET Ids
    BY <1>0
  <2>. HIDE DEF S
  <2>7. Moves(Post(Now(t)), Hand(t), S)
    <3>1. In(Post(Now(t)))' = In(Post(Now(t))) \ S /\ S \subseteq In(Post(Now(t)))
      BY <1>0, <2>1, <2>3, <2>4, <2>5, InFacts
    <3>2. In(Hand(t))' = In(Hand(t)) \cup S
      BY <1>0, <2>1, <2>3, <2>4, <2>5, InFacts
    <3>3. \A x \in Place \ {Post(Now(t)), Hand(t)} : In(x)' = In(x)
      BY <1>0, <2>1, <2>3, <2>4, <2>5, RestFacts
    <3>. QED
      BY <1>0, <2>1, <2>3, <2>4, <2>5, <3>1, <3>2, <3>3, PlaceFacts, PlaceEqual DEF Moves
  <2>8. /\ Post(Now(t)) \in Place /\ Hand(t) \in Place /\ Post(Now(t))[1] = "post"
        /\ Post(Now(t)) \notin {Pool, Gone} /\ Hand(t) # Pool
    BY <1>0, PlaceFacts, PlaceEqual
  <2>9. SideIs(Post(Now(t))) = SideIs(Hand(t))
    BY <1>0, SideIsFacts
  <2>10. Shifts
    BY <2>1, <2>2, <2>6, <2>7, <2>8, <2>9 DEF Shifts
  <2>. QED
    BY <2>10 DEF Effect
<1>2. CASE GotBatch(t)
  <2>1. PICK S \in SUBSET mail[Now(t)].ids :
           /\ cache' = [cache EXCEPT ![SideOf(t)] = @ \cup S]
           /\ IF mail[Now(t)].ids \ S = {} THEN Goto(t, "take") /\ Send(t, NoMail)
              ELSE Goto(t, "undo") /\ Send(t, Msg("PUT", mail[Now(t)].ids \ S, 0))
    BY <1>2 DEF GotBatch
  <2>2. UNCHANGED <<avail, stranded, held, marked>> /\ call[t].pc = "get"
    BY <1>2 DEF GotBatch, At
  <2>3. /\ cache'[SideOf(t)] = cache[SideOf(t)] \cup S
        /\ \A r \in Sides : cache'[r] = cache[r] \/ List(r) = List(SideOf(t))
    BY <1>0, <2>1 DEF BaseInv, PoolType
  <2>4. \A u \in Threads : call'[u].ids = call[u].ids
    BY <2>1, <2>2, GotoIds
  <2>5. /\ mail'[Now(t)].ids = mail[Now(t)].ids \ S /\ S \subseteq mail[Now(t)].ids
        /\ \A k \in Slots : mail'[k].ids = mail[k].ids \/ Post(k) = Post(Now(t))
    <3>1. mail[Now(t)].ids \ S \in SUBSET Ids
      BY <1>0
    <3>2. \E msg : Send(t, msg) /\ msg.ids = mail[Now(t)].ids \ S
      BY <2>1, <3>1, MsgFacts
    <3>. QED
      BY <3>2, SendIds
  <2>6. S \in SUBSET Ids
    BY <1>0
  <2>7. Moves(Post(Now(t)), List(SideOf(t)), S)
    <3>1. In(Post(Now(t)))' = In(Post(Now(t))) \ S /\ S \subseteq In(Post(Now(t)))
      BY <1>0, <2>2, <2>3, <2>4, <2>5, InFacts
    <3>2. In(List(SideOf(t)))' = In(List(SideOf(t))) \cup S
      BY <1>0, <2>2, <2>3, <2>4, <2>5, InFacts
    <3>3. \A x \in Place \ {Post(Now(t)), List(SideOf(t))} : In(x)' = In(x)
      BY <1>0, <2>2, <2>3, <2>4, <2>5, RestFacts
    <3>. QED
      BY <1>0, <2>2, <2>3, <2>4, <2>5, <3>1, <3>2, <3>3, PlaceFacts, PlaceEqual DEF Moves
  <2>. QED
    BY <1>0, <2>2, <2>6, <2>7, PlaceFacts, PlaceEqual, SideIsFacts DEF Effect, Shifts
<1>3. CASE Undone(t) \/ GotNothing(t)
  <2>1. /\ UNCHANGED <<avail, stranded, cache, held, marked>> /\ Send(t, NoMail)
        /\ (call[t].pc = "undo" /\ Arrived(t)) \/ (call[t].pc = "get" /\ Result(t) = "err") \/ call[t].pc = "take"
    BY <1>3 DEF Undone, GotNothing, At, poolVars
  <2>2. mail[Now(t)].ids = {} /\ call[t].pc # "free"
    BY <2>1, NowEmpty DEF Quiet, Arrived
  <2>3. PICK pc : Goto(t, pc)
    BY <1>3 DEF Undone, GotNothing, AllocFails
  <2>. QED
    BY <2>1, <2>2, <2>3, QuietStill, MsgFacts DEF Effect
<1>. QED
  BY <1>1, <1>2, <1>3

(* in a free, *)
LEMMA EffectFree ==
    ASSUME BaseInv, NEW t \in Threads, FreeCached(t) \/ FreeBatch(t) \/ Freed(t) \/ Put(t)
    PROVE  Effect
<1>0. Now(t) \in Slots /\ SideOf(t) \in Sides /\ call[t].ids \in SUBSET Ids /\ Now(t)[1] = t
  BY SlotFacts, SideFacts DEF BaseInv, CallType
<1>. DEFINE S == call[t].ids
<1>1. CASE FreeCached(t)
  <2>1. /\ cache' = [cache EXCEPT ![SideOf(t)] = @ \cup S] /\ Goto(t, "put")
        /\ UNCHANGED <<avail, stranded, held, mail, marked>>
    BY <1>1 DEF FreeCached
  <2>2. /\ cache'[SideOf(t)] = cache[SideOf(t)] \cup S
        /\ \A r \in Sides : cache'[r] = cache[r] \/ List(r) = List(SideOf(t))
    BY <1>0, <2>1 DEF BaseInv, PoolType
  <2>3. /\ call'[t].ids = call[t].ids \ S /\ S \subseteq call[t].ids
        /\ \A u \in Threads : call'[u].ids = call[u].ids \/ Desk(u) = Desk(t)
    BY <2>1, GotoIds
  <2>. HIDE DEF S
  <2>4. Moves(Desk(t), List(SideOf(t)), S)
    <3>1. In(Desk(t))' = In(Desk(t)) \ S /\ S \subseteq In(Desk(t))
      BY <1>0, <2>1, <2>2, <2>3, InFacts
    <3>2. In(List(SideOf(t)))' = In(List(SideOf(t))) \cup S
      BY <1>0, <2>1, <2>2, <2>3, InFacts
    <3>3. \A x \in Place \ {Desk(t), List(SideOf(t))} : In(x)' = In(x)
      BY <1>0, <2>1, <2>2, <2>3, RestFacts
    <3>. QED
      BY <1>0, <2>1, <2>2, <2>3, <3>1, <3>2, <3>3, PlaceFacts, PlaceEqual DEF Moves
  <2>5. /\ Desk(t) \in Place \ {Pool, Gone} /\ List(SideOf(t)) \in Place \ {Pool}
        /\ SideIs(Desk(t)) = SideIs(List(SideOf(t))) /\ Desk(t)[1] # "hand" /\ List(SideOf(t))[1] # "hand"
    BY <1>0, PlaceFacts, PlaceEqual, SideIsFacts
  <2>. QED
    BY <1>0, <2>1, <2>4, <2>5 DEF Effect, Shifts, S
<1>2. CASE FreeBatch(t)
  <2>1. /\ Goto(t, "freeing") /\ Send(t, Msg("PUT", S, 0)) /\ call[t].pc = "free"
        /\ UNCHANGED <<avail, stranded, cache, held, marked>>
    BY <1>2 DEF FreeBatch, At
  <2>2. /\ call'[t].ids = call[t].ids \ S /\ S \subseteq call[t].ids
        /\ \A u \in Threads : call'[u].ids = call[u].ids \/ Desk(u) = Desk(t)
    BY <2>1, GotoIds
  <2>3. mail[Now(t)].ids = {}
    BY <2>1, NowEmpty DEF Quiet
  <2>4. /\ mail'[Now(t)].ids = mail[Now(t)].ids \cup S
        /\ \A k \in Slots : mail'[k].ids = mail[k].ids \/ Post(k) = Post(Now(t))
    BY <1>0, <2>1, <2>3, SendIds, MsgFacts
  <2>. HIDE DEF S
  <2>5. Moves(Desk(t), Post(Now(t)), S)
    <3>1. In(Desk(t))' = In(Desk(t)) \ S /\ S \subseteq In(Desk(t))
      BY <1>0, <2>1, <2>2, <2>4, InFacts
    <3>2. In(Post(Now(t)))' = In(Post(Now(t))) \cup S
      BY <1>0, <2>1, <2>2, <2>4, InFacts
    <3>3. \A x \in Place \ {Desk(t), Post(Now(t))} : In(x)' = In(x)
      BY <1>0, <2>1, <2>2, <2>4, RestFacts
    <3>. QED
      BY <1>0, <2>1, <2>2, <2>4, <3>1, <3>2, <3>3, PlaceFacts, PlaceEqual DEF Moves
  <2>6. /\ Desk(t) \in Place \ {Pool, Gone} /\ Post(Now(t)) \in Place \ {Pool}
        /\ SideIs(Desk(t)) = SideIs(Post(Now(t))) /\ Desk(t)[1] # "hand" /\ Post(Now(t))[1] # "hand"
    BY <1>0, PlaceFacts, PlaceEqual, SideIsFacts
  <2>. QED
    BY <1>0, <2>1, <2>5, <2>6 DEF Effect, Shifts, S
<1>3. CASE Freed(t) \/ Put(t)
  <2>1. /\ UNCHANGED <<avail, stranded, cache, held, marked>> /\ (mail' = mail \/ Send(t, NoMail))
        /\ ((call[t].pc = "freeing" /\ Arrived(t)) \/ call[t].pc = "put")
    BY <1>3 DEF Freed, Put, At
  <2>2. mail[Now(t)].ids = {} /\ call[t].pc # "free"
    BY <2>1, NowEmpty DEF Quiet, Arrived
  <2>3. PICK pc : Goto(t, pc)
    BY <1>3 DEF Freed, Put, Return
  <2>. QED
    BY <2>1, <2>2, <2>3, QuietStill, MsgFacts DEF Effect
<1>. QED
  BY <1>1, <1>2, <1>3

(* and in a flush. *)
LEMMA EffectFlush ==
    ASSUME BaseInv, NEW t \in Threads,
           FlushLock(t) \/ FlushBatch(t) \/ FlushMore(t) \/ FlushEnd(t) \/ FlushReply(t)
    PROVE  Effect
<1>0. Now(t) \in Slots /\ SideOf(t) \in Sides /\ Now(t)[1] = t /\ cache[SideOf(t)] \in SUBSET Ids
  BY SlotFacts, SideFacts DEF BaseInv, PoolType
<1>1. CASE FlushLock(t) \/ FlushMore(t)
  <2>1. /\ UNCHANGED <<avail, stranded, cache, held, marked>> /\ (mail' = mail \/ Send(t, NoMail))
        /\ ((call[t].pc = "flushing" /\ Result(t) = "ok") \/ call[t].pc = "flushlock")
    BY <1>1 DEF FlushLock, FlushMore, At, poolVars
  <2>2. mail[Now(t)].ids = {} /\ call[t].pc # "free"
    BY <2>1, NowEmpty DEF Quiet
  <2>3. PICK pc : Goto(t, pc)
    BY <1>1 DEF FlushLock, FlushMore
  <2>. QED
    BY <2>1, <2>2, <2>3, QuietStill, MsgFacts DEF Effect
<1>2. CASE FlushBatch(t)
  <2>1. PICK S \in SUBSET cache[SideOf(t)] : /\ cache' = [cache EXCEPT ![SideOf(t)] = @ \ S]
                                             /\ Send(t, Msg("PUT", S, 0))
    BY <1>2 DEF FlushBatch
  <2>2. Goto(t, "flushing") /\ call[t].pc = "flush" /\ UNCHANGED <<avail, stranded, held, marked>>
    BY <1>2 DEF FlushBatch, At
  <2>3. /\ cache'[SideOf(t)] = cache[SideOf(t)] \ S /\ S \subseteq cache[SideOf(t)] /\ S \in SUBSET Ids
        /\ \A r \in Sides : cache'[r] = cache[r] \/ List(r) = List(SideOf(t))
    BY <1>0, <2>1 DEF BaseInv, PoolType
  <2>4. mail[Now(t)].ids = {} /\ \A u \in Threads : call'[u].ids = call[u].ids
    BY <2>2, NowEmpty, GotoIds DEF Quiet
  <2>5. /\ mail'[Now(t)].ids = mail[Now(t)].ids \cup S
        /\ \A k \in Slots : mail'[k].ids = mail[k].ids \/ Post(k) = Post(Now(t))
    BY <2>1, <2>3, <2>4, SendIds, MsgFacts
  <2>6. Moves(List(SideOf(t)), Post(Now(t)), S)
    <3>1. In(List(SideOf(t)))' = In(List(SideOf(t))) \ S /\ S \subseteq In(List(SideOf(t)))
      BY <1>0, <2>2, <2>3, <2>4, <2>5, InFacts
    <3>2. In(Post(Now(t)))' = In(Post(Now(t))) \cup S
      BY <1>0, <2>2, <2>3, <2>4, <2>5, InFacts
    <3>3. \A x \in Place \ {List(SideOf(t)), Post(Now(t))} : In(x)' = In(x)
      BY <1>0, <2>2, <2>3, <2>4, <2>5, RestFacts
    <3>. QED
      BY <1>0, <2>2, <2>3, <2>4, <2>5, <3>1, <3>2, <3>3, PlaceFacts, PlaceEqual DEF Moves
  <2>7. /\ List(SideOf(t)) \in Place \ {Pool, Gone} /\ Post(Now(t)) \in Place \ {Pool}
        /\ SideIs(List(SideOf(t))) = SideIs(Post(Now(t))) /\ List(SideOf(t))[1] # "hand" /\ Post(Now(t))[1] # "hand"
    BY <1>0, PlaceFacts, PlaceEqual, SideIsFacts
  <2>. QED
    BY <2>2, <2>3, <2>6, <2>7 DEF Effect, Shifts
<1>3. CASE FlushEnd(t)
  <2>1. /\ UNCHANGED <<avail, stranded, held, marked, faults>> /\ Send(t, NoMail)
        /\ (call[t].pc = "flush" /\ cache[SideOf(t)] = {}) \/ (call[t].pc = "flushing" /\ Result(t) = "err")
        /\ cache' = cache \/ cache' = [cache EXCEPT ![SideOf(t)] = {}]
    BY <1>3 DEF FlushEnd, At
  <2>2. mail[Now(t)].ids = {} /\ call[t].pc # "free"
    BY <2>1, NowEmpty DEF Quiet
  <2>3. PICK pc : Goto(t, pc)
    BY <1>3 DEF FlushEnd, Return
  <2>4. CASE cache' = cache
    BY <2>1, <2>2, <2>3, <2>4, QuietStill, MsgFacts DEF Effect
  <2>5. CASE cache' = [cache EXCEPT ![SideOf(t)] = {}]
    <3>. DEFINE S == cache[SideOf(t)]
    <3>1. /\ cache'[SideOf(t)] = cache[SideOf(t)] \ S /\ S \subseteq cache[SideOf(t)] /\ S \in SUBSET Ids
          /\ \A r \in Sides : cache'[r] = cache[r] \/ List(r) = List(SideOf(t))
      BY <1>0, <2>5 DEF BaseInv, PoolType
    <3>2. \A u \in Threads : call'[u].ids = call[u].ids
      BY <2>2, <2>3, GotoIds
    <3>3. \A k \in Slots : mail'[k].ids = mail[k].ids
      <4>1. Send(t, NoMail) /\ NoMail.ids = mail[Now(t)].ids
        BY <2>1, <2>2, MsgFacts
      <4>. QED
        BY <4>1, SendIds
    <3>4. S = {} \/ faults' > 0
      <4>1. CASE call[t].pc = "flushing" /\ Result(t) = "err"
        BY <1>0, <2>1, <4>1 DEF BaseInv, MailInv, SlotInv, CallInv, CmdAt, Result
      <4>. QED
        BY <2>1, <4>1
    <3>. HIDE DEF S
    <3>5. Moves(List(SideOf(t)), Void, S)
      <4>1. In(List(SideOf(t)))' = In(List(SideOf(t))) \ S /\ S \subseteq In(List(SideOf(t)))
        BY <1>0, <2>1, <3>1, <3>2, <3>3, InFacts
      <4>2. Void \notin Place
        BY PlaceEqual, PlaceKinds
      <4>3. \A x \in Place \ {List(SideOf(t)), Void} : In(x)' = In(x)
        <5>1. /\ avail' = avail /\ stranded' = stranded /\ \A u \in Threads : held'[u] = held[u]
              /\ \A r \in Sides : cache'[r] = cache[r] \/ List(r) \in {List(SideOf(t)), Void}
          BY <2>1, <3>1
        <5>. QED
          BY <3>2, <3>3, <5>1, RestFacts
      <4>4. List(SideOf(t)) \in Place
        BY <1>0, PlaceFacts
      <4>. QED
        BY <4>1, <4>2, <4>3, <4>4 DEF Moves
    <3>6. List(SideOf(t)) \in Place /\ List(SideOf(t))[1] = "list"
      BY <1>0, PlaceFacts
    <3>. QED
      BY <2>1, <3>1, <3>4, <3>5, <3>6 DEF Effect, Forgets
  <2>. QED
    BY <2>1, <2>4, <2>5
<1>4. CASE FlushReply(t)
  <2>1. /\ UNCHANGED <<avail, stranded, cache, held, marked>> /\ Goto(t, "idle") /\ call[t].pc = "reply"
        /\ \A m \in Slots : mail'[m] = IF mail[m].cmd = "FLUSH" /\ mail[m].res = "busy"
                                       THEN Answer(m, {}, "ok") ELSE mail[m]
    BY <1>4 DEF FlushReply, At, poolVars
  <2>2. \A m \in Slots : mail[m].cmd = "FLUSH" => mail[m].ids = {} /\ Answer(m, {}, "ok").ids = {}
    BY MsgFacts DEF BaseInv, MailInv, SlotInv, GoodMsg, Answer
  <2>3. \A u \in Threads : call'[u].ids = call[u].ids
    BY <2>1, GotoIds
  <2>4. \A m \in Slots : mail'[m].ids = mail[m].ids
    BY <2>1, <2>2
  <2>. QED
    BY <2>1, <2>3, <2>4, StillFacts DEF Effect
<1>. QED
  BY <1>1, <1>2, <1>3, <1>4

(* A message that fails at once loses its ids; one given up keeps them. *)
LEMMA EffectFail ==
    ASSUME BaseInv, NEW t \in Threads, NotSent(t) \/ GiveUp(t)
    PROVE  Effect
<1>0. /\ Now(t) \in Slots /\ Late(t) \in Slots /\ Now(t)[1] = t /\ Late(t)[1] = t /\ Now(t) # Late(t)
      /\ mail[Now(t)].ids \in SUBSET Ids
  BY SlotFacts DEF BaseInv, CallType, WeakMessage
<1>1. UNCHANGED <<avail, stranded, cache, held, call, marked>> /\ faults' > 0
  BY DEF NotSent, GiveUp, poolVars, BaseInv, HandType
<1>2. Answer(Now(t), {}, "err").ids = {}
  BY AnswerFacts, SlotFacts, <1>0 DEF BaseInv
<1>. DEFINE S == mail[Now(t)].ids
<1>3. CASE NotSent(t)
  <2>1. mail' = [mail EXCEPT ![Now(t)] = Answer(Now(t), {}, "err")]
    BY <1>3 DEF NotSent
  <2>2. /\ mail'[Now(t)].ids = mail[Now(t)].ids \ S /\ S \subseteq mail[Now(t)].ids
        /\ \A k \in Slots : mail'[k].ids = mail[k].ids \/ Post(k) = Post(Now(t))
    BY <1>0, <1>2, <2>1 DEF BaseInv, CallType
  <2>. HIDE DEF S
  <2>3. Moves(Post(Now(t)), Void, S)
    <3>1. In(Post(Now(t)))' = In(Post(Now(t))) \ S /\ S \subseteq In(Post(Now(t)))
      BY <1>0, <1>1, <2>2, InFacts
    <3>2. Void \notin Place
      BY PlaceEqual, PlaceKinds
    <3>3. \A x \in Place \ {Post(Now(t)), Void} : In(x)' = In(x)
      BY <1>0, <1>1, <2>2, RestFacts
    <3>. QED
      BY <1>0, <1>1, <2>2, <3>1, <3>2, <3>3, PlaceFacts, PlaceEqual DEF Moves
  <2>. QED
    BY <1>0, <1>1, <2>3, PlaceFacts DEF Effect, Forgets, S
<1>4. CASE GiveUp(t)
  <2>1. /\ mail' = [mail EXCEPT ![Late(t)] = mail[Now(t)], ![Now(t)] = Answer(Now(t), {}, "err")]
        /\ mail[Late(t)] = NoMail
    BY <1>4 DEF GiveUp
  <2>2. /\ mail'[Now(t)] = Answer(Now(t), {}, "err") /\ mail'[Late(t)] = mail[Now(t)]
        /\ \A k \in Slots : k # Now(t) /\ k # Late(t) => mail'[k] = mail[k]
    BY <1>0, <2>1 DEF BaseInv, CallType
  <2>3. /\ mail'[Now(t)].ids = mail[Now(t)].ids \ S /\ S \subseteq mail[Now(t)].ids
        /\ mail'[Late(t)].ids = mail[Late(t)].ids \cup S
        /\ \A k \in Slots : mail'[k].ids = mail[k].ids \/ Post(k) \in {Post(Now(t)), Post(Late(t))}
    BY <1>2, <2>1, <2>2, MsgFacts
  <2>. HIDE DEF S
  <2>4. Moves(Post(Now(t)), Post(Late(t)), S)
    <3>1. In(Post(Now(t)))' = In(Post(Now(t))) \ S /\ S \subseteq In(Post(Now(t)))
      BY <1>0, <1>1, <2>3, InFacts
    <3>2. In(Post(Late(t)))' = In(Post(Late(t))) \cup S
      BY <1>0, <1>1, <2>3, InFacts
    <3>3. \A x \in Place \ {Post(Now(t)), Post(Late(t))} : In(x)' = In(x)
      BY <1>0, <1>1, <2>3, RestFacts
    <3>. QED
      BY <1>0, <1>1, <2>3, <3>1, <3>2, <3>3, PlaceFacts, PlaceEqual DEF Moves
  <2>5. /\ Post(Now(t)) \in Place \ {Pool, Gone} /\ Post(Late(t)) \in Place \ {Pool}
        /\ SideIs(Post(Now(t))) = SideIs(Post(Late(t))) /\ Post(Now(t))[1] # "hand" /\ Post(Late(t))[1] # "hand"
    BY <1>0, PlaceFacts, PlaceEqual, SideIsFacts
  <2>. QED
    BY <1>0, <1>1, <2>4, <2>5 DEF Effect, Shifts, S
<1>. QED
  BY <1>3, <1>4

(* The handlers move ids between pool and message. *)
LEMMA EffectServe ==
    ASSUME BaseInv, NEW m \in Slots, GetOne(m) \/ GetEnd(m) \/ PutOne(m) \/ FlushAsked(m),
           SideOf(m[1]) = "host" => mail[m].ids \subseteq marked
    PROVE  Effect
<1>0. mail[m] \in WeakMessage /\ mail[m].ids \in SUBSET Ids /\ m[2] \in {"now", "late"}
  BY SlotFacts DEF BaseInv, CallType, WeakMessage
<1>1. CASE GetOne(m)
  <2>1. PICK i \in avail : /\ mail' = [mail EXCEPT ![m] = [cmd |-> "GET", ids |-> mail[m].ids \cup {i},
                                                           n |-> mail[m].n - 1, res |-> "busy"]]
                           /\ avail' = avail \ {i}
                           /\ marked' = IF SideOf(m[1]) = "host" THEN marked \cup {i} ELSE marked
    BY <1>1 DEF GetOne, BaseInv, CallType
  <2>2. UNCHANGED <<stranded, cache, held, call>>
    BY <1>1 DEF GetOne, poolVars
  <2>3. /\ mail'[m].ids = mail[m].ids \cup {i} /\ avail' = avail \ {i} /\ {i} \subseteq avail /\ i \in Ids
        /\ \A k \in Slots : mail'[k].ids = mail[k].ids \/ Post(k) = Post(m)
    BY <2>1 DEF BaseInv, CallType, HandType
  <2>4. Moves(Pool, Post(m), {i})
    <3>1. In(Pool)' = In(Pool) \ {i} /\ {i} \subseteq In(Pool)
      BY <2>2, <2>3, InFacts
    <3>2. In(Post(m))' = In(Post(m)) \cup {i}
      BY <2>2, <2>3, InFacts
    <3>3. \A x \in Place \ {Pool, Post(m)} : In(x)' = In(x)
      BY <2>2, <2>3, RestFacts
    <3>. QED
      BY <2>2, <2>3, <3>1, <3>2, <3>3, PlaceFacts, PlaceEqual DEF Moves
  <2>. QED
    BY <2>1, <2>3, <2>4 DEF Effect, FromPool
<1>2. CASE GetEnd(m)
  <2>. DEFINE r == IF mail[m].ids = {} THEN "err" ELSE "ok"
              S == IF m[2] = "late" THEN mail[m].ids ELSE {}
  <2>1. /\ mail' = [mail EXCEPT ![m] = Answer(m, mail[m].ids, r)] /\ Pending(m)
        /\ UNCHANGED <<avail, stranded, cache, held, call, marked, faults>>
    BY <1>2 DEF GetEnd, poolVars, BaseInv, CallType
  <2>2. Answer(m, mail[m].ids, r).ids = IF m[2] = "late" THEN {} ELSE mail[m].ids
    <3>1. r \in {"ok", "err"}
      OBVIOUS
    <3>. HIDE DEF r
    <3>2. m[2] = "late" => Answer(m, mail[m].ids, r).ids = {}
      BY <1>0, <3>1, AnswerFacts, MsgFacts DEF BaseInv
    <3>3. m[2] = "now" => Answer(m, mail[m].ids, r).ids = mail[m].ids
      BY <1>0, <3>1, AnswerFacts DEF BaseInv
    <3>. QED
      BY <1>0, <3>2, <3>3
  <2>3. /\ mail'[m].ids = mail[m].ids \ S /\ S \subseteq mail[m].ids /\ S \in SUBSET Ids
        /\ \A k \in Slots : mail'[k].ids = mail[k].ids \/ Post(k) = Post(m)
    BY <1>0, <2>1, <2>2 DEF BaseInv, CallType
  <2>4. S = {} \/ faults' > 0
    <3>1. CASE m[2] = "late"
      <4>1. mail[m] = NoMail \/ faults > 0
        BY <3>1 DEF BaseInv, MailInv, SlotInv
      <4>. QED
        BY <2>1, <4>1, MsgFacts
    <3>. QED
      BY <3>1
  <2>. HIDE DEF S
  <2>5. Moves(Post(m), Void, S)
    <3>1. In(Post(m))' = In(Post(m)) \ S /\ S \subseteq In(Post(m))
      BY <2>1, <2>3, InFacts
    <3>2. Void \notin Place
      BY PlaceEqual, PlaceKinds
    <3>3. \A x \in Place \ {Post(m), Void} : In(x)' = In(x)
      BY <2>1, <2>3, RestFacts
    <3>. QED
      BY <2>1, <2>3, <3>1, <3>2, <3>3, PlaceFacts, PlaceEqual DEF Moves
  <2>. QED
    BY <2>1, <2>3, <2>4, <2>5, PlaceFacts DEF Effect, Forgets
<1>3. CASE PutOne(m)
  <2>1. PICK i \in mail[m].ids :
          LET refused == SideOf(m[1]) = "host" /\ i \notin marked
              rest    == IF refused THEN {} ELSE mail[m].ids \ {i}
          IN  /\ avail' = IF refused THEN avail ELSE avail \cup {i}
              /\ marked' = IF SideOf(m[1]) = "host" THEN marked \ {i} ELSE marked
              /\ mail' = [mail EXCEPT ![m] =
                            IF rest = {} THEN Answer(m, {}, "ok") ELSE [mail[m] EXCEPT !.ids = rest, !.res = "busy"]]
    BY <1>3 DEF PutOne, BaseInv, CallType
  <2>. DEFINE rest == mail[m].ids \ {i}
              msg == IF rest = {} THEN Answer(m, {}, "ok") ELSE [mail[m] EXCEPT !.ids = rest, !.res = "busy"]
  <2>2. /\ avail' = avail \cup {i} /\ mail' = [mail EXCEPT ![m] = msg]
        /\ marked' = IF SideOf(m[1]) = "host" THEN marked \ {i} ELSE marked
    BY <2>1
  <2>3. msg.ids = rest
    BY <1>0, AnswerFacts, MsgFacts DEF BaseInv, WeakMessage
  <2>4. UNCHANGED <<stranded, cache, held, call>>
    BY <1>3 DEF PutOne, poolVars
  <2>. HIDE DEF msg
  <2>5. /\ mail'[m].ids = mail[m].ids \ {i} /\ {i} \subseteq mail[m].ids /\ i \in Ids
        /\ \A k \in Slots : mail'[k].ids = mail[k].ids \/ Post(k) = Post(m)
    BY <1>0, <2>2, <2>3 DEF BaseInv, CallType
  <2>6. Moves(Post(m), Pool, {i})
    <3>1. In(Post(m))' = In(Post(m)) \ {i} /\ {i} \subseteq In(Post(m))
      BY <2>2, <2>4, <2>5, InFacts
    <3>2. In(Pool)' = In(Pool) \cup {i}
      BY <2>2, <2>4, <2>5, InFacts
    <3>3. \A x \in Place \ {Post(m), Pool} : In(x)' = In(x)
      BY <2>2, <2>4, <2>5, RestFacts
    <3>. QED
      BY <2>2, <2>4, <2>5, <3>1, <3>2, <3>3, PlaceFacts, PlaceEqual DEF Moves
  <2>. QED
    BY <2>2, <2>5, <2>6 DEF Effect, ToPool
<1>4. CASE FlushAsked(m)
  <2>1. /\ UNCHANGED <<avail, stranded, cache, held, marked>> /\ mail[m].ids = {}
    BY <1>4 DEF FlushAsked, BaseInv, MailInv, SlotInv, GoodMsg
  <2>2. PICK msg : mail' = [mail EXCEPT ![m] = msg] /\ msg.ids = {}
    <3>1. Answer(m, {}, "ok").ids = {} /\ [mail[m] EXCEPT !.res = "busy"].ids = {}
      BY <1>0, <2>1, AnswerFacts, MsgFacts DEF BaseInv, WeakMessage
    <3>2. mail' = [mail EXCEPT ![m] = Answer(m, {}, "ok")] \/ mail' = [mail EXCEPT ![m] = [mail[m] EXCEPT !.res = "busy"]]
      BY <1>4 DEF FlushAsked, BaseInv, CallType
    <3>. QED
      BY <3>1, <3>2
  <2>3. \A k \in Slots : mail'[k].ids = mail[k].ids
    BY <2>1, <2>2 DEF BaseInv, CallType
  <2>4. \A u \in Threads : call'[u].ids = call[u].ids
    <3>1. CASE UNCHANGED call
      BY <3>1
    <3>2. CASE Goto(Flusher, "flushlock") /\ call[Flusher].pc = "idle"
      BY <3>2, GotoIds, SideFacts
    <3>. QED
      BY <1>4, <3>1, <3>2 DEF FlushAsked, Get, Goto, At
  <2>5. Flusher \in Threads
    BY SideFacts
  <2>. QED
    BY <2>1, <2>3, <2>4, <2>5, StillFacts DEF Effect
<1>. QED
  BY <1>1, <1>2, <1>3, <1>4

-----------------------------------------------------------------------------
(* The references and the mutex of a pool. *)

Outside == {"idle", "reply"}
Locked  == {"avail", "sync", "get", "undo", "take", "freeing"}

Inside(s) == {t \in Threads : SideOf(t) = s /\ ~At(t, "idle") /\ ~At(t, "reply")}

(* The conjunct of RefsExact for a side. *)
RefAt(s) ==
    IF ref[s] = 0
    THEN /\ ~registered[s] /\ Cardinality(Inside(s)) <= 1
         /\ \A t \in Inside(s) : At(t, "flush") \/ At(t, "flushing")
    ELSE ref[s] = Cardinality(Inside(s)) + (IF registered[s] THEN 1 ELSE 0)

RefInv == \A s \in Sides : RefAt(s)

(* Threads that wait for a message hold the mutex of their pool, except the   *)
(* one that destroys it, which has it for itself.                             *)
LockInv ==
    \A t \in Threads :
        /\ call[t].pc \in Locked => mutex[SideOf(t)] = t
        /\ call[t].pc \in {"flush", "flushing"} => mutex[SideOf(t)] = t \/ ref[SideOf(t)] = 0

(* The threads inside a pool can be counted. *)
LEMMA InsideFinite == ASSUME NEW s PROVE IsFiniteSet(Inside(s)) /\ Cardinality(Inside(s)) \in Nat
<1>1. Inside(s) \in SUBSET Threads /\ IsFiniteSet(Threads)
  BY IdAssumption DEF Inside, IdAssumption
<1>. QED
  BY <1>1, FS_Subset, FS_CardinalityType

(* Only the thread t goes on, to pc. *)
Pcs(t, pc) == \A u \in Threads : call'[u].pc = IF u = t THEN pc ELSE call[u].pc

(* How that count changes when one thread moves. *)
LEMMA InsideMoves ==
    ASSUME NEW t \in Threads, NEW pc, Pcs(t, pc), NEW s, s = SideOf(t)
    PROVE  /\ call[t].pc \in Outside /\ pc \notin Outside =>
                 Inside(s)' = Inside(s) \cup {t} /\ Cardinality(Inside(s)') = Cardinality(Inside(s)) + 1
           /\ call[t].pc \notin Outside /\ pc \in Outside =>
                 Inside(s)' = Inside(s) \ {t} /\ Cardinality(Inside(s)') = Cardinality(Inside(s)) - 1
           /\ call[t].pc \notin Outside /\ pc \notin Outside => Inside(s)' = Inside(s) /\ t \in Inside(s)
           /\ call[t].pc \in Outside /\ pc \in Outside => Inside(s)' = Inside(s)
           /\ \A r : r # s => Inside(r)' = Inside(r)
<1>. USE DEF Pcs, Outside, Inside, At
<1>1. ASSUME call[t].pc \in Outside, pc \notin Outside
      PROVE  Inside(s)' = Inside(s) \cup {t} /\ Cardinality(Inside(s)') = Cardinality(Inside(s)) + 1
  <2>1. Inside(s)' = Inside(s) \cup {t} /\ t \notin Inside(s)
    BY <1>1
  <2>. HIDE DEF Inside
  <2>. QED
    BY <2>1, InsideFinite, FS_AddElement
<1>2. ASSUME call[t].pc \notin Outside, pc \in Outside
      PROVE  Inside(s)' = Inside(s) \ {t} /\ Cardinality(Inside(s)') = Cardinality(Inside(s)) - 1
  <2>1. Inside(s)' = Inside(s) \ {t} /\ t \in Inside(s)
    BY <1>2
  <2>. HIDE DEF Inside
  <2>. QED
    BY <2>1, InsideFinite, FS_RemoveElement
<1>3. ASSUME call[t].pc \notin Outside, pc \notin Outside PROVE Inside(s)' = Inside(s) /\ t \in Inside(s)
  BY <1>3
<1>4. ASSUME call[t].pc \in Outside, pc \in Outside PROVE Inside(s)' = Inside(s)
  BY <1>4
<1>5. ASSUME NEW r, r # s PROVE Inside(r)' = Inside(r)
  BY <1>5
<1>. QED
  BY <1>1, <1>2, <1>3, <1>4, <1>5

(* A thread takes a reference, works, drops one, drops the last one, is done  *)
(* with destroying the pool, takes over the reference of the table, or works  *)
(* outside.                                                                   *)
RefMoves(t, pc) ==
    LET s == SideOf(t)
        old == call[t].pc
    IN /\ \A r \in Sides \ {s} : ref'[r] = ref[r] /\ registered'[r] = registered[r]
       /\ \/ /\ old \in Outside /\ pc \notin Outside /\ registered[s]
             /\ ref'[s] = ref[s] + 1 /\ registered'[s] = registered[s]
          \/ /\ old \notin Outside /\ pc \notin Outside /\ (ref[s] = 0 => pc \in {"flush", "flushing"})
             /\ ref'[s] = ref[s] /\ registered'[s] = registered[s]
          \/ /\ old = "put" /\ pc \in Outside /\ ref[s] # 1
             /\ ref'[s] = ref[s] - 1 /\ registered'[s] = registered[s]
          \/ /\ old = "put" /\ pc = "flush" /\ ref[s] = 1
             /\ ref'[s] = 0 /\ registered'[s] = registered[s]
          \/ /\ old \in {"flush", "flushing"} /\ pc \in Outside /\ ref[s] = 0
             /\ ref'[s] = ref[s] /\ registered'[s] = registered[s]
          \/ /\ old = "idle" /\ pc = "put" /\ registered[s]
             /\ ref'[s] = ref[s] /\ ~registered'[s]
          \/ /\ old \in Outside /\ pc \in Outside
             /\ ref'[s] = ref[s] /\ registered'[s] = registered[s]

(* A move that takes or drops a reference as it enters or leaves keeps the count exact. *)
LEMMA RefStep ==
    ASSUME BaseInv, RefInv, NEW t \in Threads, NEW pc \in PcValues, Pcs(t, pc), RefMoves(t, pc)
    PROVE  RefInv'
<1>. DEFINE s == SideOf(t)
<1>0. s \in Sides /\ ref[s] \in Int /\ RefAt(s) /\ Cardinality(Inside(s)) \in Nat
  BY SideFacts, InsideFinite DEF BaseInv, PoolType, RefInv
<1>1. ASSUME NEW r \in Sides, r # s PROVE RefAt(r)'
  <2>1. Inside(r)' = Inside(r) /\ ref'[r] = ref[r] /\ registered'[r] = registered[r]
    BY <1>1, InsideMoves DEF RefMoves
  <2>2. \A u \in Inside(r) : call'[u].pc = call[u].pc
    BY <1>1 DEF Pcs, Inside
  <2>3. RefAt(r)
    BY DEF RefInv
  <2>. QED
    BY <2>1, <2>2, <2>3 DEF RefAt, At
<1>2. RefAt(s)'
  <2>. USE DEF Outside
  <2>1. CASE /\ call[t].pc \in Outside /\ pc \notin Outside /\ registered[s]
             /\ ref'[s] = ref[s] + 1 /\ registered'[s] = registered[s]
    <3>1. Cardinality(Inside(s)') = Cardinality(Inside(s)) + 1
      BY <2>1, InsideMoves
    <3>2. ref[s] = Cardinality(Inside(s)) + 1
      BY <1>0, <2>1 DEF RefAt
    <3>. QED
      BY <1>0, <2>1, <3>1, <3>2 DEF RefAt
  <2>2. CASE /\ call[t].pc \notin Outside /\ pc \notin Outside /\ (ref[s] = 0 => pc \in {"flush", "flushing"})
             /\ ref'[s] = ref[s] /\ registered'[s] = registered[s]
    <3>1. Inside(s)' = Inside(s)
      BY <2>2, InsideMoves
    <3>2. ref[s] = 0 => \A u \in Inside(s) : At(u, "flush")' \/ At(u, "flushing")'
      BY <1>0, <2>2 DEF RefAt, Pcs, At, Inside
    <3>. QED
      BY <1>0, <2>2, <3>1, <3>2 DEF RefAt
  <2>3. CASE /\ call[t].pc = "put" /\ pc \in Outside /\ ref[s] # 1
             /\ ref'[s] = ref[s] - 1 /\ registered'[s] = registered[s]
    <3>1. Cardinality(Inside(s)') = Cardinality(Inside(s)) - 1 /\ t \in Inside(s)
      BY <2>3, InsideMoves DEF Inside, At
    <3>2. ref[s] # 0
      BY <1>0, <2>3, <3>1 DEF RefAt, At
    <3>. QED
      BY <1>0, <2>3, <3>1, <3>2 DEF RefAt
  <2>4. CASE /\ call[t].pc = "put" /\ pc = "flush" /\ ref[s] = 1
             /\ ref'[s] = 0 /\ registered'[s] = registered[s]
    <3>1. Inside(s)' = Inside(s) /\ t \in Inside(s)
      BY <2>4, InsideMoves
    <3>2. Cardinality(Inside(s)) # 0
      BY <3>1, InsideFinite, FS_EmptySet
    <3>3. ~registered[s] /\ Cardinality(Inside(s)) = 1
      BY <1>0, <2>4, <3>2 DEF RefAt
    <3>4. \A u \in Inside(s) : u = t
      BY <3>1, <3>3, InsideFinite, FS_Singleton
    <3>5. At(t, "flush")'
      BY <2>4 DEF Pcs, At
    <3>. QED
      BY <1>0, <2>4, <3>1, <3>3, <3>4, <3>5 DEF RefAt
  <2>5. CASE /\ call[t].pc \in {"flush", "flushing"} /\ pc \in Outside /\ ref[s] = 0
             /\ ref'[s] = ref[s] /\ registered'[s] = registered[s]
    <3>1. Inside(s)' = Inside(s) \ {t} /\ Cardinality(Inside(s)') = Cardinality(Inside(s)) - 1
      BY <2>5, InsideMoves
    <3>2. \A u \in Inside(s)' : At(u, "flush")' \/ At(u, "flushing")'
      BY <1>0, <2>5, <3>1 DEF RefAt, Pcs, At, Inside
    <3>. QED
      BY <1>0, <2>5, <3>1, <3>2 DEF RefAt
  <2>6. CASE /\ call[t].pc = "idle" /\ pc = "put" /\ registered[s] /\ ref'[s] = ref[s] /\ ~registered'[s]
    <3>1. Cardinality(Inside(s)') = Cardinality(Inside(s)) + 1
      BY <2>6, InsideMoves
    <3>2. ref[s] = Cardinality(Inside(s)) + 1
      BY <1>0, <2>6 DEF RefAt
    <3>. QED
      BY <1>0, <2>6, <3>1, <3>2 DEF RefAt
  <2>7. CASE /\ call[t].pc \in Outside /\ pc \in Outside /\ ref'[s] = ref[s] /\ registered'[s] = registered[s]
    <3>1. Inside(s)' = Inside(s)
      BY <2>7, InsideMoves
    <3>2. \A u \in Inside(s) : call'[u].pc = call[u].pc
      BY <2>7 DEF Pcs, Inside, At
    <3>. QED
      BY <1>0, <2>7, <3>1, <3>2 DEF RefAt, At
  <2>. QED
    BY <2>1, <2>2, <2>3, <2>4, <2>5, <2>6, <2>7 DEF RefMoves
<1>. QED
  BY <1>0, <1>1, <1>2 DEF RefInv

(* The mutex changes its holder only from and to the thread t and nobody. *)
LockMoves(t, pc) ==
    LET s == SideOf(t)
    IN /\ \A r \in Sides \ {s} : mutex'[r] = mutex[r]
       /\ mutex'[s] = mutex[s] \/ mutex[s] \in {t, Nobody}
       /\ pc \in Locked => mutex'[s] = t
       /\ pc \in {"flush", "flushing"} => mutex'[s] = t \/ ref'[s] = 0

(* A move that takes or gives back the mutex keeps it exclusive. *)
LEMMA LockStep ==
    ASSUME BaseInv, RefInv, LockInv, NEW t \in Threads, NEW pc \in PcValues,
           Pcs(t, pc), RefMoves(t, pc), LockMoves(t, pc)
    PROVE  LockInv'
<1>1. ASSUME NEW r \in Sides PROVE ref[r] = 0 => ref'[r] = 0
  <2>1. RefAt(r) /\ ref[r] \in Int
    BY <1>1 DEF RefInv, BaseInv, PoolType
  <2>2. CASE r = SideOf(t) /\ call[t].pc = "put"
    <3>1. t \in Inside(r)
      BY <2>2 DEF Inside, At
    <3>. QED
      BY <2>1, <2>2, <3>1 DEF RefAt, At
  <2>. QED
    BY <2>1, <2>2 DEF RefMoves, RefAt
<1>2. ASSUME NEW u \in Threads, u # t
      PROVE  /\ call'[u].pc \in Locked => mutex'[SideOf(u)] = u
             /\ call'[u].pc \in {"flush", "flushing"} => mutex'[SideOf(u)] = u \/ ref'[SideOf(u)] = 0
  <2>1. call'[u].pc = call[u].pc /\ SideOf(u) \in Sides /\ u # Nobody
    BY <1>2, SideFacts, IdAssumption DEF Pcs, IdAssumption
  <2>2. mutex[SideOf(u)] = u => mutex'[SideOf(u)] = u
    BY <1>2, <2>1 DEF LockMoves
  <2>. QED
    BY <1>1, <2>1, <2>2 DEF LockInv
<1>3. /\ call'[t].pc \in Locked => mutex'[SideOf(t)] = t
      /\ call'[t].pc \in {"flush", "flushing"} => mutex'[SideOf(t)] = t \/ ref'[SideOf(t)] = 0
  BY DEF LockMoves, Pcs
<1>. QED
  BY <1>2, <1>3 DEF LockInv

Control(t, pc) == Pcs(t, pc) /\ RefMoves(t, pc) /\ LockMoves(t, pc)

SameControl == UNCHANGED <<ref, registered, mutex>> /\ \A u \in Threads : call'[u].pc = call[u].pc

(* A step of a thread leaves the others where they are. *)
LEMMA GotoPcs ==
    ASSUME BaseInv, NEW t \in Threads, NEW pc, NEW I,
           Goto(t, pc) \/ call' = [call EXCEPT ![t] = [pc |-> pc, ids |-> I]]
    PROVE  Pcs(t, pc)
  BY DEF BaseInv, CallType, Goto, Pcs

(* A thread inside the pool goes on, and may take or drop the mutex. *)
LEMMA Works ==
    ASSUME BaseInv, RefInv, LockInv, NEW t \in Threads, NEW pc \in PcValues \ Outside, Goto(t, pc),
           UNCHANGED <<ref, registered>>, call[t].pc \notin Outside,
           call[t].pc \in {"flush", "flushing"} => pc \in {"flush", "flushing"} \/ ref[SideOf(t)] # 0,
           \/ /\ mutex' = mutex /\ (pc \in Locked => call[t].pc \in Locked)
              /\ pc \in {"flush", "flushing"} => call[t].pc \in {"flush", "flushing"}
           \/ Lock(t)
           \/ Unlock(t) /\ pc = "put" /\ call[t].pc \in Locked \cup {"flush", "flushing"}
    PROVE  Control(t, pc)
<1>. DEFINE s == SideOf(t)
<1>0. s \in Sides /\ RefAt(s) /\ mutex \in [Sides -> Threads \cup {Nobody}]
  BY SideFacts DEF RefInv, BaseInv, PoolType
<1>1. Pcs(t, pc)
  BY GotoPcs
<1>2. t \in Inside(s)
  BY DEF Inside, At, Outside
<1>3. ref[s] = 0 => call[t].pc \in {"flush", "flushing"}
  BY <1>0, <1>2 DEF RefAt, At
<1>4. RefMoves(t, pc)
  BY <1>3 DEF RefMoves
<1>5. /\ call[t].pc \in Locked => mutex[s] = t
      /\ call[t].pc \in {"flush", "flushing"} => mutex[s] = t \/ ref[s] = 0
  BY DEF LockInv
<1>6. LockMoves(t, pc)
  <2>1. CASE mutex' = mutex
    BY <1>0, <1>5, <2>1 DEF LockMoves, Lock, Unlock
  <2>2. CASE Lock(t)
    BY <1>0, <2>2 DEF LockMoves, Lock
  <2>3. CASE Unlock(t) /\ pc = "put" /\ call[t].pc \in Locked \cup {"flush", "flushing"}
    BY <1>0, <1>3, <1>5, <2>3 DEF LockMoves, Unlock, Locked
  <2>. QED
    BY <2>1, <2>2, <2>3
<1>. QED
  BY <1>1, <1>4, <1>6 DEF Control

(* What the steps do to references and mutex: at the start of a call, *)
LEMMA ControlCall ==
    ASSUME BaseInv, RefInv, LockInv, NEW t \in Threads,
           Alloc(t) \/ Free(t) \/ FreeNoPool(t) \/ Flush(t) \/ Unregister(t)
    PROVE  SameControl \/ \E pc \in PcValues : Control(t, pc)
<1>0. SideOf(t) \in Sides
  BY SideFacts
<1>1. ASSUME NEW pc \in {"alloc", "free", "flushlock"}, NEW I, Get(t, pc, I), call[t].pc = "idle",
             UNCHANGED <<registered, mutex>>
      PROVE  Control(t, pc)
  <2>1. Pcs(t, pc)
    BY <1>1, GotoPcs DEF Get
  <2>2. RefMoves(t, pc)
    BY <1>0, <1>1 DEF RefMoves, Get, Outside, BaseInv, PoolType
  <2>3. LockMoves(t, pc)
    BY <1>1 DEF LockMoves, Locked
  <2>. QED
    BY <2>1, <2>2, <2>3 DEF Control
<1>2. CASE Alloc(t)
  BY <1>1, <1>2 DEF Alloc, At, PcValues
<1>3. CASE Free(t)
  BY <1>1, <1>3 DEF Free, At, PcValues
<1>4. CASE Flush(t)
  BY <1>1, <1>4 DEF Flush, At, PcValues
<1>5. CASE FreeNoPool(t)
  BY <1>5 DEF FreeNoPool, poolVars, SameControl
<1>6. CASE Unregister(t)
  <2>1. Goto(t, "put") /\ call[t].pc = "idle" /\ registered[SideOf(t)] /\ UNCHANGED <<ref, mutex>>
    BY <1>6 DEF Unregister, At
  <2>2. ~registered'[SideOf(t)] /\ \A r \in Sides \ {SideOf(t)} : registered'[r] = registered[r]
    BY <1>0, <1>6 DEF Unregister, BaseInv, PoolType
  <2>3. Pcs(t, "put")
    BY <2>1, GotoPcs
  <2>4. RefMoves(t, "put")
    BY <2>1, <2>2 DEF RefMoves
  <2>5. LockMoves(t, "put")
    BY <2>1 DEF LockMoves, Locked
  <2>. QED
    BY <2>3, <2>4, <2>5 DEF Control, PcValues
<1>. QED
  BY <1>2, <1>3, <1>4, <1>5, <1>6

(* in an allocation, *)
LEMMA ControlAlloc ==
    ASSUME BaseInv, RefInv, LockInv, NEW t \in Threads,
           \/ AllocCached(t) \/ AllocExhausted(t) \/ AllocBatch(t) \/ CheckAvail(t) \/ Synced(t)
           \/ GotOne(t) \/ GotBatch(t) \/ Undone(t) \/ GotNothing(t) \/ Take(t)
    PROVE  \E pc \in PcValues : Control(t, pc)
<1>. DEFINE P == {"put", "get", "avail", "sync", "take", "undo"}
<1>0. UNCHANGED <<ref, registered>>
  BY DEF AllocCached, AllocExhausted, AllocBatch, CheckAvail, Synced, GotOne, GotBatch, Undone, GotNothing,
         Take, poolVars
<1>1. CASE AllocCached(t) \/ AllocExhausted(t)
  <2>1. Goto(t, "put") /\ call[t].pc = "alloc" /\ mutex' = mutex
    BY <1>1 DEF AllocCached, AllocExhausted, At, poolVars
  <2>. QED
    BY <1>0, <2>1, Works DEF PcValues, Outside, Locked
<1>2. CASE AllocBatch(t)
  <2>1. PICK pc \in P : Goto(t, pc)
    BY <1>2 DEF AllocBatch
  <2>2. Lock(t) /\ call[t].pc = "alloc"
    BY <1>2 DEF AllocBatch, At
  <2>3. pc \in PcValues \ Outside
    BY DEF PcValues, Outside
  <2>. QED
    BY <1>0, <2>1, <2>2, <2>3, Works DEF Outside
<1>3. CASE CheckAvail(t) \/ GotBatch(t) \/ Undone(t) \/ (Synced(t) /\ Result(t) = "ok")
  <2>1. PICK pc \in P \ {"put"} : Goto(t, pc)
    BY <1>3 DEF CheckAvail, GotBatch, Undone, Synced
  <2>2. mutex' = mutex /\ call[t].pc \in {"avail", "sync", "get", "undo"}
    BY <1>3 DEF CheckAvail, GotBatch, Undone, Synced, At, poolVars
  <2>3. pc \in PcValues \ Outside /\ pc \in Locked /\ pc \notin {"flush", "flushing"} /\ call[t].pc \in Locked
        /\ call[t].pc \notin Outside /\ call[t].pc \notin {"flush", "flushing"}
    BY <2>2 DEF PcValues, Outside, Locked
  <2>. QED
    BY <1>0, <2>1, <2>2, <2>3, Works
<1>4. CASE GotOne(t) \/ GotNothing(t) \/ Take(t) \/ (Synced(t) /\ Result(t) # "ok")
  <2>1. Goto(t, "put") /\ Unlock(t) /\ call[t].pc \in {"get", "take", "sync"}
    BY <1>4 DEF GotOne, GotNothing, Take, Synced, AllocFails, At
  <2>2. "put" \in PcValues \ Outside /\ call[t].pc \in Locked
        /\ call[t].pc \notin Outside /\ call[t].pc \notin {"flush", "flushing"}
    BY <2>1 DEF PcValues, Outside, Locked
  <2>. QED
    BY <1>0, <2>1, <2>2, Works
<1>. QED
  BY <1>1, <1>2, <1>3, <1>4

(* in a free, *)
LEMMA ControlFree ==
    ASSUME BaseInv, RefInv, LockInv, NEW t \in Threads, FreeCached(t) \/ FreeBatch(t) \/ Freed(t) \/ Put(t)
    PROVE  \E pc \in PcValues : Control(t, pc)
<1>1. CASE FreeCached(t)
  <2>1. Goto(t, "put") /\ call[t].pc = "free" /\ mutex' = mutex /\ UNCHANGED <<ref, registered>>
    BY <1>1 DEF FreeCached, At
  <2>. QED
    BY <2>1, Works DEF PcValues, Outside, Locked
<1>2. CASE FreeBatch(t)
  <2>1. Goto(t, "freeing") /\ call[t].pc = "free" /\ Lock(t) /\ UNCHANGED <<ref, registered>>
    BY <1>2 DEF FreeBatch, At
  <2>. QED
    BY <2>1, Works DEF PcValues, Outside
<1>3. CASE Freed(t)
  <2>1. Goto(t, "put") /\ call[t].pc = "freeing" /\ Unlock(t) /\ UNCHANGED <<ref, registered>>
    BY <1>3 DEF Freed, At
  <2>. QED
    BY <2>1, Works DEF PcValues, Outside, Locked
<1>4. CASE Put(t)
  <2>. DEFINE s == SideOf(t)
  <2>0. s \in Sides /\ ref[s] \in Int /\ ref' = [ref EXCEPT ![s] = ref[s] - 1] /\ UNCHANGED <<registered, mutex>>
    BY <1>4, SideFacts DEF Put, BaseInv, PoolType
  <2>1. ref'[s] = ref[s] - 1 /\ \A r \in Sides \ {s} : ref'[r] = ref[r]
    BY <2>0 DEF BaseInv, PoolType
  <2>2. PICK pc \in {"flush", "reply", "idle"} : Goto(t, pc) /\ (pc = "flush" <=> ref[s] = 1)
    BY <1>4 DEF Put, Return
  <2>3. Pcs(t, pc)
    BY <2>2, GotoPcs
  <2>4. RefMoves(t, pc)
    BY <1>4, <2>0, <2>1, <2>2 DEF RefMoves, Outside, Put, At
  <2>5. LockMoves(t, pc)
    BY <2>0, <2>1, <2>2 DEF LockMoves, Locked
  <2>. QED
    BY <2>3, <2>4, <2>5 DEF Control, PcValues
<1>. QED
  BY <1>1, <1>2, <1>3, <1>4

(* in a flush, *)
LEMMA ControlFlush ==
    ASSUME BaseInv, RefInv, LockInv, NEW t \in Threads,
           FlushLock(t) \/ FlushBatch(t) \/ FlushMore(t) \/ FlushEnd(t) \/ FlushReply(t)
    PROVE  \E pc \in PcValues : Control(t, pc)
<1>1. CASE FlushLock(t)
  <2>1. Goto(t, "flush") /\ call[t].pc = "flushlock" /\ Lock(t) /\ UNCHANGED <<ref, registered>>
    BY <1>1 DEF FlushLock, At
  <2>. QED
    BY <2>1, Works DEF PcValues, Outside
<1>2. CASE FlushBatch(t) \/ FlushMore(t)
  <2>1. PICK pc \in {"flush", "flushing"} : Goto(t, pc)
    BY <1>2 DEF FlushBatch, FlushMore
  <2>2. call[t].pc \in {"flush", "flushing"} /\ mutex' = mutex /\ UNCHANGED <<ref, registered>>
    BY <1>2 DEF FlushBatch, FlushMore, At, poolVars
  <2>3. pc \in PcValues \ Outside /\ pc \notin Locked /\ call[t].pc \notin Outside
    BY <2>2 DEF PcValues, Outside, Locked
  <2>. QED
    BY <2>1, <2>2, <2>3, Works
<1>3. CASE FlushEnd(t)
  <2>1. call[t].pc \in {"flush", "flushing"} /\ UNCHANGED <<ref, registered>>
    BY <1>3 DEF FlushEnd, At
  <2>2. CASE ref[SideOf(t)] = 0
    <3>1. PICK pc \in {"reply", "idle"} : Goto(t, pc)
      BY <1>3, <2>2 DEF FlushEnd, Return
    <3>2. mutex' = mutex
      BY <1>3, <2>2 DEF FlushEnd
    <3>3. Pcs(t, pc)
      BY <3>1, GotoPcs
    <3>4. RefMoves(t, pc)
      BY <2>1, <2>2, <3>1 DEF RefMoves, Outside
    <3>5. LockMoves(t, pc)
      BY <3>1, <3>2 DEF LockMoves, Locked
    <3>. QED
      BY <3>3, <3>4, <3>5 DEF Control, PcValues
  <2>3. CASE ref[SideOf(t)] # 0
    <3>1. Goto(t, "put") /\ Unlock(t)
      BY <1>3, <2>3 DEF FlushEnd
    <3>. QED
      BY <2>1, <2>3, <3>1, Works DEF PcValues, Outside
  <2>. QED
    BY <2>2, <2>3
<1>4. CASE FlushReply(t)
  <2>1. Goto(t, "idle") /\ call[t].pc = "reply" /\ UNCHANGED <<ref, registered, mutex>>
    BY <1>4 DEF FlushReply, At, poolVars
  <2>2. Pcs(t, "idle")
    BY <2>1, GotoPcs
  <2>3. RefMoves(t, "idle") /\ LockMoves(t, "idle")
    BY <2>1 DEF RefMoves, LockMoves, Outside, Locked
  <2>. QED
    BY <2>2, <2>3 DEF Control, PcValues
<1>. QED
  BY <1>1, <1>2, <1>3, <1>4

(* and in a handler, which starts the flusher or changes nothing. *)
LEMMA ControlServe ==
    ASSUME BaseInv, RefInv, LockInv, NEW m \in Slots, GetOne(m) \/ GetEnd(m) \/ PutOne(m) \/ FlushAsked(m)
    PROVE  SameControl \/ \E pc \in PcValues : Control(Flusher, pc)
<1>1. CASE GetOne(m) \/ GetEnd(m) \/ PutOne(m)
  BY <1>1 DEF GetOne, GetEnd, PutOne, poolVars, SameControl
<1>2. CASE FlushAsked(m) /\ ~registered["host"]
  BY <1>2 DEF FlushAsked, SameControl
<1>3. CASE FlushAsked(m) /\ registered["host"]
  <2>1. /\ Get(Flusher, "flushlock", {}) /\ call[Flusher].pc = "idle" /\ UNCHANGED <<registered, mutex>>
        /\ Flusher \in Threads /\ SideOf(Flusher) = "host" /\ "host" \in Sides
    BY <1>3, SideFacts DEF FlushAsked, At, Sides
  <2>2. Pcs(Flusher, "flushlock")
    BY <2>1, GotoPcs DEF Get
  <2>3. RefMoves(Flusher, "flushlock")
    BY <2>1 DEF RefMoves, Get, Outside, BaseInv, PoolType
  <2>4. LockMoves(Flusher, "flushlock")
    BY <2>1 DEF LockMoves, Locked
  <2>. QED
    BY <2>2, <2>3, <2>4 DEF Control, PcValues
<1>. QED
  BY <1>1, <1>2, <1>3

(* References and mutexes are right after every step. *)
LEMMA ControlStep ==
    ASSUME BaseInv, RefInv, LockInv, [Next]_vars
    PROVE  RefInv' /\ LockInv'
<1>1. CASE SameControl
  <2>1. \A s : Inside(s)' = Inside(s)
    BY <1>1 DEF SameControl, Inside, At
  <2>2. ASSUME NEW s \in Sides PROVE RefAt(s)'
    <3>1. RefAt(s) /\ ref'[s] = ref[s] /\ registered'[s] = registered[s] /\ Inside(s) \subseteq Threads
      BY <1>1 DEF SameControl, RefInv, Inside
    <3>. QED
      BY <1>1, <2>1, <3>1 DEF RefAt, SameControl, At
  <2>. QED
    BY <1>1, <2>2 DEF RefInv, LockInv, SameControl
<1>2. ASSUME NEW t \in Threads, NEW pc \in PcValues, Control(t, pc) PROVE RefInv' /\ LockInv'
  BY <1>2, RefStep, LockStep DEF Control
<1>3. CASE UNCHANGED vars
  BY <1>1, <1>3 DEF vars, poolVars, SameControl
<1>4. ASSUME NEW t \in Threads, NotSent(t) \/ GiveUp(t) PROVE SameControl
  BY <1>4 DEF NotSent, GiveUp, poolVars, SameControl
<1>. QED
  BY <1>1, <1>2, <1>3, <1>4, NextCases, ControlCall, ControlAlloc, ControlFree, ControlFlush, ControlServe, SideFacts

-----------------------------------------------------------------------------
(* What is asked for in a GET, and why it fits. *)

(* A call of trs_id_free has one id. *)
FreeAt(t) == call[t].pc = "free" => \E i : call[t].ids = {i}

(* While a thread asks for ids of a cached type, its list is empty, and what  *)
(* it gets does not bring the pool above the number of ids there are.         *)
RoomAt(t) ==
    LET s == SideOf(t)
    IN Cached(s) =>
         /\ call[t].pc \in {"avail", "sync"} => cache[s] = {} /\ alloc_num[s] < IdNum
         /\ call[t].pc = "get" =>
               cache[s] = {} /\ Cardinality(mail[Now(t)].ids) + mail[Now(t)].n + alloc_num[s] <= IdNum

AskAt(t) == FreeAt(t) /\ GetAt(t) /\ RoomAt(t)
AskInv   == \A t \in Threads : AskAt(t)

CoreInv == BaseInv /\ RefInv /\ LockInv

(* Whether a type is cached does not change. *)
LEMMA NonCacheStays == [Next]_vars => UNCHANGED noncache
<1>. SUFFICES ASSUME [Next]_vars PROVE UNCHANGED noncache
  OBVIOUS
<1>1. ASSUME NEW t \in Threads, Calling(t) \/ Locking(t) \/ Failing(t) PROVE UNCHANGED noncache
  BY <1>1 DEF Calling, Locking, Failing, Alloc, Free, FreeNoPool, Flush, Unregister, AllocCached, AllocExhausted,
              AllocBatch, FreeCached, FreeBatch, FlushLock, NotSent, GiveUp
<1>2. ASSUME NEW t \in Threads, Working(t) PROVE UNCHANGED noncache
  BY <1>2 DEF Working, CheckAvail, Synced, GotOne, GotBatch, Undone, GotNothing, Take, Freed, FlushBatch,
              FlushMore, FlushEnd, FlushReply, Put
<1>3. ASSUME NEW m \in Slots, Serving(m) PROVE UNCHANGED noncache
  BY <1>3 DEF Serving, GetOne, GetEnd, PutOne, FlushAsked
<1>. QED
  BY <1>1, <1>2, <1>3 DEF Next, vars

(* A thread that holds the mutex of a pool is the only one at work in it. *)
LEMMA SoleWorker ==
    ASSUME CoreInv, NEW u \in Threads, call[u].pc \in Locked, NEW t \in Threads, t # u, SideOf(t) = SideOf(u)
    PROVE  mutex[SideOf(u)] # Nobody /\ call[t].pc \notin Locked \cup {"flush", "flushing"}
<1>1. mutex[SideOf(u)] = u /\ u # Nobody
  BY IdAssumption DEF CoreInv, LockInv, IdAssumption
<1>2. u \in Inside(SideOf(u)) /\ RefAt(SideOf(u)) /\ ~At(u, "flush") /\ ~At(u, "flushing")
  BY SideFacts DEF CoreInv, RefInv, Inside, At, Locked
<1>3. ref[SideOf(u)] # 0
  BY <1>2 DEF RefAt
<1>. QED
  BY <1>1, <1>3 DEF CoreInv, LockInv

(* So its list and alloc_num change only by its own steps. *)
LEMMA PoolFrame ==
    ASSUME CoreInv, NEW u \in Threads, call[u].pc \in Locked, NEW t \in Threads, t # u,
           Calling(t) \/ Locking(t) \/ Working(t) \/ Failing(t)
    PROVE  alloc_num'[SideOf(u)] = alloc_num[SideOf(u)] /\ cache'[SideOf(u)] = cache[SideOf(u)]
<1>0. /\ cache \in [Sides -> SUBSET Ids] /\ alloc_num \in [Sides -> Int] /\ SideOf(u) \in Sides /\ SideOf(t) \in Sides
  BY SideFacts DEF CoreInv, BaseInv, PoolType
<1>1. CASE Calling(t) \/ Failing(t) \/ AllocExhausted(t) \/ AllocBatch(t) \/ FreeBatch(t) \/ FlushLock(t)
  BY <1>1 DEF Calling, Failing, Alloc, Free, FreeNoPool, Flush, Unregister, AllocExhausted, AllocBatch, FreeBatch,
              FlushLock, NotSent, GiveUp, poolVars
<1>2. CASE CheckAvail(t) \/ Synced(t) \/ Undone(t) \/ GotNothing(t) \/ FlushMore(t) \/ FlushReply(t) \/ Put(t)
  BY <1>2 DEF CheckAvail, Synced, Undone, GotNothing, FlushMore, FlushReply, Put, poolVars
<1>3. CASE AllocCached(t) \/ FreeCached(t)
  <2>1. mutex[SideOf(t)] = Nobody
    BY <1>3 DEF AllocCached, FreeCached
  <2>2. SideOf(t) # SideOf(u)
    BY <2>1, SoleWorker
  <2>. QED
    BY <1>0, <1>3, <2>2 DEF AllocCached, FreeCached, TakeOne
<1>4. CASE GotOne(t) \/ GotBatch(t) \/ Take(t) \/ Freed(t) \/ FlushBatch(t) \/ FlushEnd(t)
  <2>1. call[t].pc \in Locked \cup {"flush", "flushing"}
    BY <1>4 DEF GotOne, GotBatch, Take, Freed, FlushBatch, FlushEnd, At, Locked
  <2>2. SideOf(t) # SideOf(u)
    BY <2>1, SoleWorker
  <2>3. CASE GotOne(t) \/ GotBatch(t) \/ Take(t)
    BY <1>0, <2>2, <2>3 DEF GotOne, GotBatch, Take, TakeOne
  <2>4. CASE Freed(t) \/ FlushBatch(t) \/ FlushEnd(t)
    BY <1>0, <2>2, <2>4 DEF Freed, FlushBatch, FlushEnd
  <2>. QED
    BY <1>4, <2>3, <2>4
<1>. QED
  BY <1>1, <1>2, <1>3, <1>4 DEF Locking, Working

(* A step of another thread leaves a call and its GET alone. *)
LEMMA CallFrame ==
    ASSUME BaseInv, NEW u \in Threads, NEW t \in Threads, t # u,
           Calling(t) \/ Locking(t) \/ Working(t) \/ Failing(t)
    PROVE  call'[u] = call[u] /\ (call[u].pc = "get" => mail'[Now(u)] = mail[Now(u)])
<1>0. /\ call \in [Threads -> [pc : PcValues, ids : SUBSET Ids]] /\ mail \in [Slots -> WeakMessage]
      /\ Now(u) \in Slots /\ Now(t) \in Slots /\ Late(t) \in Slots /\ Now(u) # Now(t) /\ Now(u) # Late(t)
  BY SlotFacts DEF BaseInv, CallType
<1>1. /\ \A pc, I : call' = [call EXCEPT ![t] = [pc |-> pc, ids |-> I]] => call'[u] = call[u]
      /\ \A pc : Goto(t, pc) => call'[u] = call[u]
      /\ \A msg : Send(t, msg) => mail'[Now(u)] = mail[Now(u)]
  BY <1>0 DEF Goto, Send
<1>2. CASE Calling(t)
  BY <1>1, <1>2 DEF Calling, Alloc, Free, FreeNoPool, Flush, Unregister, Get
<1>3. CASE Locking(t)
  BY <1>1, <1>3 DEF Locking, AllocCached, AllocExhausted, AllocBatch, FreeCached, FreeBatch, FlushLock
<1>4. CASE Failing(t)
  BY <1>0, <1>4 DEF Failing, NotSent, GiveUp
<1>5. CASE CheckAvail(t) \/ Synced(t) \/ GotOne(t) \/ GotBatch(t) \/ Undone(t) \/ GotNothing(t) \/ Take(t)
  BY <1>1, <1>5 DEF CheckAvail, Synced, GotOne, GotBatch, Undone, GotNothing, Take, AllocFails
<1>6. CASE Freed(t) \/ FlushBatch(t) \/ FlushMore(t) \/ FlushEnd(t) \/ Put(t)
  BY <1>1, <1>6 DEF Freed, FlushBatch, FlushMore, FlushEnd, Put, Return
<1>7. CASE FlushReply(t)
  <2>1. call[u].pc = "get" => mail[Now(u)].cmd = "GET"
    BY DEF BaseInv, MailInv, CallInv, CmdAt
  <2>. QED
    BY <1>0, <1>1, <1>7, <2>1 DEF FlushReply
<1>. QED
  BY <1>2, <1>3, <1>4, <1>5, <1>6, <1>7 DEF Working

(* A thread that does not move, in a pool that it has locked, asks for the same. *)
LEMMA AskSame ==
    ASSUME NEW u \in Threads, AskAt(u), UNCHANGED noncache, call'[u] = call[u],
           call[u].pc = "get" => mail'[Now(u)] = mail[Now(u)],
           call[u].pc \in Locked => alloc_num'[SideOf(u)] = alloc_num[SideOf(u)] /\ cache'[SideOf(u)] = cache[SideOf(u)]
    PROVE  AskAt(u)'
<1>1. FreeAt(u)'
  BY DEF AskAt, FreeAt
<1>2. GetAt(u)'
  BY DEF AskAt, GetAt, Result, Cached
<1>3. RoomAt(u)'
  BY DEF AskAt, RoomAt, Cached, Locked
<1>. QED
  BY <1>1, <1>2, <1>3 DEF AskAt

(* A thread that has asked for nothing. *)
LEMMA AskNothing ==
    ASSUME NEW t, call'[t].pc \notin {"free", "avail", "sync", "get"}
    PROVE  AskAt(t)'
  BY DEF AskAt, FreeAt, GetAt, RoomAt

(* A GET as it is sent. *)
LEMMA AskGet ==
    ASSUME CoreInv, NEW t \in Threads, NEW n \in Nat, UNCHANGED <<noncache, cache, alloc_num>>,
           Goto(t, "get"), Send(t, Msg("GET", {}, n)),
           ~Cached(SideOf(t)) => n = 1,
           Cached(SideOf(t)) => cache[SideOf(t)] = {} /\ n + alloc_num[SideOf(t)] <= IdNum
    PROVE  AskAt(t)'
<1>. DEFINE msg == Msg("GET", {}, n)
<1>1. msg.ids = {} /\ msg.n = n /\ msg.res = "sent"
  BY MsgFacts
<1>2. mail'[Now(t)] = msg /\ call'[t] = [pc |-> "get", ids |-> {}]
  BY SendIds, GotoPcs DEF CoreInv, BaseInv, CallType, Goto
<1>3. alloc_num[SideOf(t)] \in Int
  BY SideFacts DEF CoreInv, BaseInv, PoolType
<1>. HIDE DEF msg
<1>4. FreeAt(t)'
  BY <1>2 DEF FreeAt
<1>5. GetAt(t)'
  BY <1>1, <1>2 DEF GetAt, Result, Single, Cached
<1>6. RoomAt(t)'
  <2>1. Cardinality(mail'[Now(t)].ids) = 0 /\ mail'[Now(t)].n = n
    BY <1>1, <1>2, FS_EmptySet
  <2>2. Cardinality(mail'[Now(t)].ids) + mail'[Now(t)].n + alloc_num[SideOf(t)] = n + alloc_num[SideOf(t)]
    BY <1>3, <2>1
  <2>. QED
    BY <1>2, <2>2 DEF RoomAt, Cached
<1>. QED
  BY <1>4, <1>5, <1>6 DEF AskAt

(* Sets of ids are finite and no larger than their total. *)
LEMMA IdNumFacts == IdNum \in Nat /\ IdNum >= 1 /\ \A S \in SUBSET Ids : IsFiniteSet(S) /\ Cardinality(S) \in Nat /\ Cardinality(S) <= IdNum
<1>1. IsFiniteSet(Ids) /\ Ids # {}
  BY IdAssumption DEF IdAssumption
<1>2. IdNum \in Nat /\ IdNum # 0
  BY <1>1, FS_CardinalityType, FS_EmptySet DEF IdNum
<1>3. ASSUME NEW S \in SUBSET Ids PROVE IsFiniteSet(S) /\ Cardinality(S) \in Nat /\ Cardinality(S) <= IdNum
  BY <1>1, FS_Subset, FS_CardinalityType DEF IdNum
<1>. QED
  BY <1>2, <1>3

(* trs_id_pool_alloc_batch never asks for more than remain_num. *)
LEMMA ReqNumFits ==
    ASSUME CoreInv, NEW s \in Sides, ReqNum(s) > 0
    PROVE  /\ ReqNum(s) \in Nat
           /\ ~Cached(s) => ReqNum(s) = 1
           /\ Cached(s) => ReqNum(s) + alloc_num[s] <= IdNum /\ alloc_num[s] < IdNum
<1>1. IdNum \in Nat /\ alloc_num[s] \in Int /\ Batch \in Nat
  BY IdNumFacts, IdAssumption DEF CoreInv, BaseInv, PoolType, IdAssumption
<1>2. ReqNum(s) \in Nat
  BY ReqNumNat DEF CoreInv, BaseInv
<1>. QED
  BY <1>1, <1>2 DEF ReqNum

(* An allocation asks for what its pool may still take. *)
LEMMA AskAlloc ==
    ASSUME CoreInv, AskInv, NEW t \in Threads, AllocBatch(t) \/ CheckAvail(t) \/ Synced(t)
    PROVE  AskAt(t)'
<1>0. /\ SideOf(t) \in Sides /\ AskAt(t) /\ UNCHANGED <<noncache, cache, alloc_num>>
      /\ alloc_num[SideOf(t)] \in Int /\ IdNum \in Nat
  BY SideFacts, IdNumFacts DEF AskInv, AllocBatch, CheckAvail, Synced, poolVars, CoreInv, BaseInv, PoolType
<1>1. CASE AllocBatch(t) /\ SideOf(t) = "host"
  <2>1. /\ Goto(t, "get") /\ Send(t, Msg("GET", {}, ReqNum(SideOf(t)))) /\ ReqNum(SideOf(t)) > 0
        /\ cache[SideOf(t)] = {}
    BY <1>1 DEF AllocBatch
  <2>. QED
    BY <1>0, <2>1, ReqNumFits, AskGet
<1>2. CASE AllocBatch(t) /\ SideOf(t) # "host"
  <2>1. Goto(t, "avail") /\ ReqNum(SideOf(t)) > 0 /\ cache[SideOf(t)] = {}
    BY <1>2 DEF AllocBatch
  <2>2. Cached(SideOf(t)) => alloc_num[SideOf(t)] < IdNum
    BY <1>0, <2>1, ReqNumFits
  <2>3. call'[t].pc = "avail"
    BY <2>1, GotoPcs DEF CoreInv, Pcs
  <2>. QED
    BY <1>0, <2>1, <2>2, <2>3 DEF AskAt, FreeAt, GetAt, RoomAt, Cached
<1>3. CASE CheckAvail(t) /\ avail = {}
  <2>1. Goto(t, "sync") /\ call[t].pc = "avail"
    BY <1>3 DEF CheckAvail, At
  <2>2. call'[t].pc = "sync"
    BY <2>1, GotoPcs DEF CoreInv, Pcs
  <2>. QED
    BY <1>0, <2>1, <2>2 DEF AskAt, FreeAt, GetAt, RoomAt, Cached
<1>4. CASE (CheckAvail(t) /\ avail # {}) \/ (Synced(t) /\ Result(t) = "ok")
  <2>1. Goto(t, "get") /\ Send(t, Msg("GET", {}, 1)) /\ call[t].pc \in {"avail", "sync"}
    BY <1>4 DEF CheckAvail, Synced, At
  <2>2. Cached(SideOf(t)) => cache[SideOf(t)] = {} /\ 1 + alloc_num[SideOf(t)] <= IdNum
    BY <1>0, <2>1 DEF AskAt, RoomAt
  <2>. QED
    BY <1>0, <2>1, <2>2, AskGet
<1>5. CASE Synced(t) /\ Result(t) # "ok"
  <2>1. Goto(t, "put")
    BY <1>5 DEF Synced, AllocFails
  <2>2. call'[t].pc = "put"
    BY <2>1, GotoPcs DEF CoreInv, Pcs
  <2>. QED
    BY <2>2, AskNothing
<1>. QED
  BY <1>1, <1>2, <1>3, <1>4, <1>5

(* A message that failed leaves its sender within its bounds. *)
LEMMA AskFail ==
    ASSUME CoreInv, AskInv, NEW t \in Threads, Failing(t)
    PROVE  AskAt(t)'
<1>0. /\ SideOf(t) \in Sides /\ AskAt(t) /\ UNCHANGED <<noncache, cache, alloc_num, call>>
      /\ alloc_num[SideOf(t)] \in Int
  BY SideFacts DEF AskInv, Failing, NotSent, GiveUp, poolVars, CoreInv, BaseInv, PoolType
<1>1. mail'[Now(t)] = Answer(Now(t), {}, "err")
  BY SlotFacts DEF Failing, NotSent, GiveUp, CoreInv, BaseInv, CallType
<1>2. mail'[Now(t)].ids = {} /\ mail'[Now(t)].n = 0 /\ mail'[Now(t)].res = "err"
  BY <1>1, SlotFacts, AnswerFacts DEF CoreInv, BaseInv
<1>3. FreeAt(t)'
  BY <1>0 DEF AskAt, FreeAt
<1>4. GetAt(t)'
  BY <1>2 DEF GetAt, Single, Result
<1>5. RoomAt(t)'
  <2>1. ASSUME Cached(SideOf(t)), call[t].pc = "get"
        PROVE  Cardinality(mail'[Now(t)].ids) + mail'[Now(t)].n + alloc_num[SideOf(t)] <= IdNum
    <3>1. /\ mail[Now(t)].ids \in SUBSET Ids /\ mail[Now(t)].n \in Nat
          /\ Cardinality(mail[Now(t)].ids) + mail[Now(t)].n + alloc_num[SideOf(t)] <= IdNum
      BY <1>0, <2>1, SlotFacts DEF CoreInv, BaseInv, CallType, WeakMessage, AskAt, RoomAt
    <3>2. Cardinality(mail'[Now(t)].ids) = 0 /\ Cardinality(mail[Now(t)].ids) \in Nat /\ IdNum \in Nat
      BY <1>2, <3>1, FS_EmptySet, IdNumFacts
    <3>. QED
      BY <1>0, <1>2, <3>1, <3>2
  <2>. QED
    BY <1>0, <2>1 DEF AskAt, RoomAt, Cached
<1>. QED
  BY <1>3, <1>4, <1>5 DEF AskAt

(* The agent serves the GET of a thread. *)
LEMMA AskServe ==
    ASSUME CoreInv, AskInv, NEW t \in Threads, GetOne(Now(t)) \/ GetEnd(Now(t))
    PROVE  AskAt(t)'
<1>. DEFINE msg == mail[Now(t)]
<1>0. /\ SideOf(t) \in Sides /\ AskAt(t) /\ UNCHANGED <<noncache, cache, alloc_num, call>>
      /\ alloc_num[SideOf(t)] \in Int /\ msg \in WeakMessage /\ Now(t) \in Slots /\ Now(t)[2] = "now"
  BY SideFacts, SlotFacts DEF AskInv, GetOne, GetEnd, poolVars, CoreInv, BaseInv, PoolType, CallType
<1>1. msg.ids \in SUBSET Ids /\ msg.n \in Nat /\ IsFiniteSet(msg.ids) /\ Cardinality(msg.ids) \in Nat /\ IdNum \in Nat
  BY <1>0, IdNumFacts DEF WeakMessage
<1>2. FreeAt(t)'
  BY <1>0 DEF AskAt, FreeAt
<1>3. CASE GetOne(Now(t))
  <2>1. PICK i \in avail : mail'[Now(t)] = [cmd |-> "GET", ids |-> msg.ids \cup {i}, n |-> msg.n - 1, res |-> "busy"]
    BY <1>0, <1>3 DEF GetOne, CoreInv, BaseInv, CallType
  <2>2. /\ mail'[Now(t)].ids = msg.ids \cup {i} /\ mail'[Now(t)].n = msg.n - 1 /\ mail'[Now(t)].res = "busy"
        /\ msg.n > 0
    BY <1>3, <2>1 DEF GetOne
  <2>. HIDE DEF msg
  <2>3. Single(msg) => Single(mail'[Now(t)])
    <3>1. ASSUME Single(msg) PROVE mail'[Now(t)].ids = {i} /\ mail'[Now(t)].n = 0
      BY <1>1, <2>2, <3>1 DEF Single
    <3>. QED
      BY <3>1 DEF Single
  <2>4. GetAt(t)'
    BY <1>0, <2>2, <2>3 DEF AskAt, GetAt, Result, Cached, msg
  <2>5. Cardinality(mail'[Now(t)].ids) <= Cardinality(msg.ids) + 1 /\ Cardinality(mail'[Now(t)].ids) \in Nat
    <3>1. /\ IsFiniteSet(msg.ids \cup {i})
          /\ Cardinality(msg.ids \cup {i}) \in {Cardinality(msg.ids), Cardinality(msg.ids) + 1}
      BY <1>1, FS_AddElement
    <3>. QED
      BY <1>1, <2>2, <3>1
  <2>6. RoomAt(t)'
    <3>1. ASSUME Cached(SideOf(t)), call[t].pc = "get"
          PROVE  Cardinality(mail'[Now(t)].ids) + mail'[Now(t)].n + alloc_num[SideOf(t)] <= IdNum
      <4>1. Cardinality(msg.ids) + msg.n + alloc_num[SideOf(t)] <= IdNum
        BY <1>0, <3>1 DEF AskAt, RoomAt, msg
      <4>. QED
        BY <1>0, <1>1, <2>2, <2>5, <4>1
    <3>. QED
      BY <1>0, <3>1 DEF AskAt, RoomAt, Cached
  <2>. QED
    BY <1>2, <2>4, <2>6 DEF AskAt
<1>4. CASE GetEnd(Now(t))
  <2>. DEFINE r == IF msg.ids = {} THEN "err" ELSE "ok"
  <2>1. mail'[Now(t)] = Answer(Now(t), msg.ids, r)
    BY <1>0, <1>4 DEF GetEnd, CoreInv, BaseInv, CallType
  <2>2. r \in {"ok", "err"} /\ (r = "ok" => msg.ids # {})
    OBVIOUS
  <2>. HIDE DEF r, msg
  <2>3. mail'[Now(t)].ids = msg.ids /\ mail'[Now(t)].n = 0 /\ mail'[Now(t)].res = r
    BY <1>0, <1>1, <2>1, <2>2, AnswerFacts DEF CoreInv, BaseInv
  <2>4. GetAt(t)'
    BY <1>0, <2>2, <2>3 DEF AskAt, GetAt, Result, Cached, Single, msg
  <2>5. RoomAt(t)'
    <3>1. ASSUME Cached(SideOf(t)), call[t].pc = "get"
          PROVE  Cardinality(mail'[Now(t)].ids) + mail'[Now(t)].n + alloc_num[SideOf(t)] <= IdNum
      <4>1. Cardinality(msg.ids) + msg.n + alloc_num[SideOf(t)] <= IdNum
        BY <1>0, <3>1 DEF AskAt, RoomAt, msg
      <4>2. Cardinality(mail'[Now(t)].ids) = Cardinality(msg.ids)
        BY <2>3
      <4>. QED
        BY <1>0, <1>1, <2>3, <4>1, <4>2
    <3>. QED
      BY <1>0, <3>1 DEF AskAt, RoomAt, Cached
  <2>. QED
    BY <1>2, <2>4, <2>5 DEF AskAt
<1>. QED
  BY <1>3, <1>4

(* Every step keeps that so. *)
LEMMA AskStep ==
    ASSUME CoreInv, AskInv, [Next]_vars
    PROVE  AskInv'
<1>0. UNCHANGED noncache /\ BaseInv /\ \A u \in Threads : AskAt(u) /\ Now(u) \in Slots
  BY NonCacheStays, SlotFacts DEF CoreInv, AskInv
<1>1. CASE UNCHANGED vars
  BY <1>0, <1>1, AskSame DEF vars, poolVars, AskInv
<1>2. ASSUME NEW t \in Threads, Calling(t) \/ Locking(t) \/ Working(t) \/ Failing(t), NEW u \in Threads, u # t
      PROVE  AskAt(u)'
  BY <1>0, <1>2, CallFrame, PoolFrame, AskSame
<1>3. ASSUME NEW t \in Threads, Calling(t) PROVE AskAt(t)'
  <2>1. CASE Free(t)
    <3>1. PICK i \in held[t] : Get(t, "free", {i})
      BY <2>1 DEF Free
    <3>2. call'[t] = [pc |-> "free", ids |-> {i}]
      BY <1>0, <3>1 DEF Get, BaseInv, CallType
    <3>. QED
      BY <3>2 DEF AskAt, FreeAt, GetAt, RoomAt
  <2>2. CASE FreeNoPool(t)
    BY <1>0, <2>2, AskSame DEF FreeNoPool, poolVars
  <2>3. CASE Alloc(t) \/ Flush(t) \/ Unregister(t)
    <3>1. \E pc \in {"alloc", "flushlock", "put"} : Goto(t, pc)
      BY <2>3 DEF Alloc, Flush, Unregister, Get, Goto
    <3>2. call'[t].pc \in {"alloc", "flushlock", "put"}
      BY <1>0, <3>1, GotoPcs DEF Pcs
    <3>. QED
      BY <3>2, AskNothing
  <2>. QED
    BY <1>3, <2>1, <2>2, <2>3 DEF Calling
<1>4. ASSUME NEW t \in Threads, Locking(t) \/ Working(t) PROVE AskAt(t)'
  <2>1. CASE AllocBatch(t) \/ CheckAvail(t) \/ Synced(t)
    BY <2>1, AskAlloc
  <2>2. CASE AllocCached(t) \/ AllocExhausted(t) \/ FreeCached(t) \/ FreeBatch(t) \/ FlushLock(t)
    <3>1. \E pc \in {"put", "freeing", "flush"} : Goto(t, pc)
      BY <2>2 DEF AllocCached, AllocExhausted, FreeCached, FreeBatch, FlushLock
    <3>2. call'[t].pc \in {"put", "freeing", "flush"}
      BY <1>0, <3>1, GotoPcs DEF Pcs
    <3>. QED
      BY <3>2, AskNothing
  <2>3. CASE GotOne(t) \/ GotBatch(t) \/ Undone(t) \/ GotNothing(t) \/ Take(t) \/ Freed(t)
    <3>1. \E pc \in {"put", "take", "undo"} : Goto(t, pc)
      BY <2>3 DEF GotOne, GotBatch, Undone, GotNothing, Take, Freed, AllocFails
    <3>2. call'[t].pc \in {"put", "take", "undo"}
      BY <1>0, <3>1, GotoPcs DEF Pcs
    <3>. QED
      BY <3>2, AskNothing
  <2>4. CASE FlushBatch(t) \/ FlushMore(t) \/ FlushEnd(t) \/ FlushReply(t) \/ Put(t)
    <3>1. \E pc \in {"put", "flush", "flushing", "reply", "idle"} : Goto(t, pc)
      BY <2>4 DEF FlushBatch, FlushMore, FlushEnd, FlushReply, Put, Return
    <3>2. call'[t].pc \in {"put", "flush", "flushing", "reply", "idle"}
      BY <1>0, <3>1, GotoPcs DEF Pcs
    <3>. QED
      BY <3>2, AskNothing
  <2>. QED
    BY <1>4, <2>1, <2>2, <2>3, <2>4 DEF Locking, Working
<1>5. ASSUME NEW m \in Slots, Serving(m), NEW u \in Threads PROVE AskAt(u)'
  <2>1. UNCHANGED <<cache, alloc_num>> /\ \A k \in Slots : k # m => mail'[k] = mail[k]
    BY <1>0, <1>5 DEF Serving, GetOne, GetEnd, PutOne, FlushAsked, poolVars, BaseInv, CallType
  <2>2. CASE GetOne(m) \/ GetEnd(m)
    <3>1. CASE m = Now(u)
      BY <2>2, <3>1, AskServe
    <3>2. CASE m # Now(u)
      <4>1. UNCHANGED call
        BY <2>2 DEF GetOne, GetEnd
      <4>. QED
        BY <1>0, <2>1, <3>2, <4>1, AskSame
    <3>. QED
      BY <3>1, <3>2
  <2>3. CASE PutOne(m) \/ FlushAsked(m)
    <3>1. mail[m].cmd \in {"PUT", "FLUSH"}
      BY <2>3 DEF PutOne, FlushAsked
    <3>2. call[u].pc = "get" => m # Now(u)
      BY <1>0, <3>1 DEF BaseInv, MailInv, CallInv, CmdAt
    <3>3. CASE call'[u] = call[u]
      BY <1>0, <2>1, <3>2, <3>3, AskSame
    <3>4. CASE call'[u] # call[u]
      <4>1. Get(Flusher, "flushlock", {})
        BY <2>3, <3>4 DEF PutOne, FlushAsked
      <4>2. call'[u].pc = "flushlock"
        BY <1>0, <3>4, <4>1 DEF Get, BaseInv, CallType
      <4>. QED
        BY <4>2, AskNothing
    <3>. QED
      BY <3>3, <3>4
  <2>. QED
    BY <1>5, <2>2, <2>3 DEF Serving
<1>6. ASSUME NEW t \in Threads, Calling(t) \/ Locking(t) \/ Working(t) \/ Failing(t) PROVE AskInv'
  BY <1>2, <1>3, <1>4, <1>6, AskFail DEF AskInv
<1>7. ASSUME NEW m \in Slots, Serving(m) PROVE AskInv'
  BY <1>5, <1>7 DEF AskInv
<1>. QED
  BY <1>1, <1>6, <1>7 DEF Next

-----------------------------------------------------------------------------
(* Every id is at one place. *)

Apart == \A x, y \in Place : x # y => In(x) \cap In(y) = {}

(* The agent's marks are on what the host has, and on nothing else in use. *)
MarkInv ==
    \A x \in Place : /\ SideIs(x) = "host" => In(x) \subseteq marked
                     /\ SideIs(x) \in {"pool", "device"} => In(x) \cap marked = {}

Somewhere == faults = 0 => \A i \in Ids : \E x \in Place : i \in In(x)

PlaceInv == Apart /\ MarkInv /\ Somewhere

(* What a movement does to each place. *)
LEMMA MovesWithin ==
    ASSUME NEW p, NEW q, NEW S, Moves(p, q, S), NEW x \in Place
    PROVE  /\ x # q => In(x)' \subseteq In(x)
           /\ x = q => In(x)' = In(x) \cup S
           /\ x = p => In(x)' = In(x) \ S
           /\ x # p => In(x) \subseteq In(x)'
  BY DEF Moves

(* A movement keeps places disjoint. *)
LEMMA MovesApart ==
    ASSUME Apart, NEW p, NEW q, NEW S, Moves(p, q, S)
    PROVE  Apart'
<1>0. p \in Place /\ p # q /\ S \subseteq In(p) /\ In(p)' = In(p) \ S
  BY DEF Moves
<1>1. ASSUME NEW x \in Place, NEW y \in Place, x # y, x # q, y # q PROVE In(x)' \cap In(y)' = {}
  <2>1. In(x)' \subseteq In(x) /\ In(y)' \subseteq In(y) /\ In(x) \cap In(y) = {}
    BY <1>1, MovesWithin DEF Apart
  <2>. QED
    BY <2>1
<1>2. ASSUME NEW y \in Place, q \in Place, y # q PROVE In(q)' \cap In(y)' = {}
  <2>1. In(q)' = In(q) \cup S /\ In(y)' \subseteq In(y) /\ In(q) \cap In(y) = {}
    BY <1>2, MovesWithin DEF Apart
  <2>2. CASE y = p
    BY <1>0, <2>1, <2>2
  <2>3. CASE y # p
    <3>1. In(p) \cap In(y) = {}
      BY <1>0, <2>3 DEF Apart
    <3>. QED
      BY <1>0, <2>1, <3>1
  <2>. QED
    BY <2>2, <2>3
<1>3. ASSUME NEW x \in Place, NEW y \in Place, x # y PROVE In(x)' \cap In(y)' = {}
  <2>1. CASE x = q
    BY <1>2, <1>3, <2>1
  <2>2. CASE y = q
    BY <1>2, <1>3, <2>2
  <2>. QED
    BY <1>1, <1>3, <2>1, <2>2
<1>. QED
  BY <1>3 DEF Apart

(* So does every effect. *)
LEMMA ApartStep ==
    ASSUME Apart, Effect
    PROVE  Apart'
<1>1. CASE Still
  <2>1. ASSUME NEW x \in Place, NEW y \in Place, x # y PROVE In(x)' \cap In(y)' = {}
    BY <1>1, <2>1 DEF Still, Apart
  <2>. QED
    BY <2>1 DEF Apart
<1>2. CASE \E p, q, S : Moves(p, q, S)
  BY <1>2, MovesApart
<1>. QED
  BY <1>1, <1>2 DEF Effect, Shifts, Forgets, FromPool, ToPool

(* What is on the side of the host stays marked. *)
LEMMA MarkStep ==
    ASSUME Apart, MarkInv, Effect
    PROVE  MarkInv'
<1>. SUFFICES ASSUME NEW x \in Place
              PROVE  /\ SideIs(x) = "host" => In(x)' \subseteq marked'
                     /\ SideIs(x) \in {"pool", "device"} => In(x)' \cap marked' = {}
  BY DEF MarkInv
<1>0. /\ SideIs(x) = "host" => In(x) \subseteq marked
      /\ SideIs(x) \in {"pool", "device"} => In(x) \cap marked = {}
  BY DEF MarkInv
<1>1. CASE Still /\ UNCHANGED marked
  BY <1>0, <1>1 DEF Still
<1>2. CASE Shifts
  <2>1. PICK p, q \in Place, S \in SUBSET Ids :
           Moves(p, q, S) /\ UNCHANGED marked /\ (SideIs(p) = SideIs(q) \/ q = Gone)
    BY <1>2 DEF Shifts
  <2>2. CASE x # q
    BY <1>0, <2>1, <2>2, MovesWithin
  <2>3. CASE x = q
    <3>1. In(x)' = In(x) \cup S /\ S \subseteq In(p) /\ SideIs(Gone) = "gone"
      BY <2>1, <2>3, MovesWithin, SideIsFacts DEF Moves
    <3>2. /\ SideIs(p) = "host" => In(p) \subseteq marked
          /\ SideIs(p) \in {"pool", "device"} => In(p) \cap marked = {}
      BY <2>1 DEF MarkInv
    <3>. QED
      BY <1>0, <2>1, <2>3, <3>1, <3>2
  <2>. QED
    BY <2>2, <2>3
<1>3. CASE Forgets
  <2>1. PICK p \in Place, S \in SUBSET Ids : Moves(p, Void, S) /\ UNCHANGED marked
    BY <1>3 DEF Forgets
  <2>2. x # Void
    BY PlaceEqual, PlaceKinds
  <2>. QED
    BY <1>0, <2>1, <2>2, MovesWithin
<1>4. CASE FromPool
  <2>1. PICK m \in Slots, i \in Ids : /\ Moves(Pool, Post(m), {i})
                                      /\ marked' = IF SideOf(m[1]) = "host" THEN marked \cup {i} ELSE marked
    BY <1>4 DEF FromPool
  <2>2. /\ i \in In(Pool) /\ In(Pool)' = In(Pool) \ {i} /\ Pool \in Place /\ SideIs(Pool) = "pool"
        /\ SideIs(Post(m)) = SideOf(m[1]) /\ Post(m) \in Place /\ Pool # Post(m) /\ SideOf(m[1]) \in Sides
    BY <2>1, PlaceFacts, PlaceEqual, SideIsFacts, SideFacts DEF Moves
  <2>3. i \notin marked
    BY <2>2 DEF MarkInv
  <2>4. CASE x = Post(m)
    <3>1. In(x)' = In(x) \cup {i}
      BY <2>1, <2>4, MovesWithin
    <3>. QED
      BY <1>0, <2>1, <2>2, <2>3, <2>4, <3>1 DEF Sides
  <2>5. CASE x # Post(m)
    <3>1. In(x)' \subseteq In(x) /\ i \notin In(x)'
      BY <2>1, <2>2, <2>5, MovesWithin DEF Apart
    <3>. QED
      BY <1>0, <2>1, <3>1
  <2>. QED
    BY <2>4, <2>5
<1>5. CASE ToPool
  <2>1. PICK m \in Slots, i \in Ids : /\ Moves(Post(m), Pool, {i})
                                      /\ marked' = IF SideOf(m[1]) = "host" THEN marked \ {i} ELSE marked
    BY <1>5 DEF ToPool
  <2>2. /\ i \in In(Post(m)) /\ In(Post(m))' = In(Post(m)) \ {i} /\ Pool \in Place /\ SideIs(Pool) = "pool"
        /\ SideIs(Post(m)) = SideOf(m[1]) /\ Post(m) \in Place /\ Pool # Post(m) /\ SideOf(m[1]) \in Sides
    BY <2>1, PlaceFacts, PlaceEqual, SideIsFacts, SideFacts DEF Moves
  <2>3. i \notin marked'
    BY <2>1, <2>2 DEF MarkInv, Sides
  <2>4. CASE x = Pool
    <3>1. In(x)' = In(x) \cup {i}
      BY <2>1, <2>4, MovesWithin
    <3>. QED
      BY <1>0, <2>1, <2>2, <2>3, <2>4, <3>1
  <2>5. CASE x # Pool
    <3>1. In(x)' \subseteq In(x) /\ i \notin In(x)'
      BY <2>1, <2>2, <2>5, MovesWithin DEF Apart
    <3>. QED
      BY <1>0, <2>1, <3>1
  <2>. QED
    BY <2>4, <2>5
<1>. QED
  BY <1>1, <1>2, <1>3, <1>4, <1>5 DEF Effect

(* Faults are counted and not taken back. *)
LEMMA FaultsStay == ASSUME HandType, [Next]_vars PROVE faults' = 0 => faults = 0
<1>1. ASSUME NEW t \in Threads, Failing(t) PROVE faults' # 0
  BY <1>1 DEF Failing, NotSent, GiveUp, HandType
<1>2. ASSUME NEW t \in Threads, Calling(t) \/ Locking(t) PROVE UNCHANGED faults
  BY <1>2 DEF Calling, Locking, Alloc, Free, FreeNoPool, Flush, Unregister, AllocCached, AllocExhausted,
              AllocBatch, FreeCached, FreeBatch, FlushLock
<1>3. ASSUME NEW t \in Threads, Working(t) PROVE UNCHANGED faults
  BY <1>3 DEF Working, CheckAvail, Synced, GotOne, GotBatch, Undone, GotNothing, Take, Freed, FlushBatch,
              FlushMore, FlushEnd, FlushReply, Put
<1>4. ASSUME NEW m \in Slots, Serving(m) PROVE UNCHANGED faults
  BY <1>4 DEF Serving, GetOne, GetEnd, PutOne, FlushAsked
<1>. QED
  BY <1>1, <1>2, <1>3, <1>4 DEF Next, vars

(* Without faults no id disappears. *)
LEMMA SomewhereStep ==
    ASSUME Somewhere, Effect, faults' = 0 => faults = 0
    PROVE  Somewhere'
<1>. SUFFICES ASSUME faults' = 0, NEW i \in Ids PROVE \E x \in Place : i \in In(x)'
  BY DEF Somewhere
<1>0. PICK x \in Place : i \in In(x)
  BY DEF Somewhere
<1>1. CASE Still
  BY <1>0, <1>1 DEF Still
<1>2. ASSUME NEW p \in Place, NEW q, NEW S, Moves(p, q, S), q \in Place \/ S = {} PROVE \E y \in Place : i \in In(y)'
  <2>1. CASE x # p
    BY <1>0, <1>2, <2>1, MovesWithin
  <2>2. CASE x = p /\ i \notin S
    BY <1>0, <1>2, <2>2, MovesWithin
  <2>3. CASE i \in S
    BY <1>2, <2>3, MovesWithin
  <2>. QED
    BY <2>1, <2>2, <2>3
<1>3. CASE Shifts
  BY <1>2, <1>3 DEF Shifts
<1>4. CASE Forgets
  <2>1. PICK p \in Place : Moves(p, Void, {})
    BY <1>4 DEF Forgets
  <2>. QED
    BY <1>2, <2>1
<1>5. CASE FromPool
  <2>1. PICK m \in Slots, j \in Ids : Moves(Pool, Post(m), {j})
    BY <1>5 DEF FromPool
  <2>. QED
    BY <1>2, <2>1, PlaceFacts
<1>6. CASE ToPool
  <2>1. PICK m \in Slots, j \in Ids : Moves(Post(m), Pool, {j})
    BY <1>6 DEF ToPool
  <2>. QED
    BY <1>2, <2>1, PlaceFacts
<1>. QED
  BY <1>1, <1>3, <1>4, <1>5, <1>6 DEF Effect

(* Every step is one of the movements. *)
LEMMA EffectNext ==
    ASSUME BaseInv, GetInv, MarkInv, [Next]_vars
    PROVE  Effect
<1>1. CASE UNCHANGED vars
  BY <1>1, InFacts, PlaceKinds DEF vars, poolVars, Effect, Still
<1>2. ASSUME NEW t \in Threads, AllocCached(t) \/ Take(t) PROVE Effect
  BY <1>2, EffectTake DEF Effect
<1>3. ASSUME NEW m \in Slots PROVE SideOf(m[1]) = "host" => mail[m].ids \subseteq marked
  <2>1. Post(m) \in Place /\ SideIs(Post(m)) = SideOf(m[1]) /\ In(Post(m)) = mail[m].ids
    BY PlaceFacts, SideIsFacts, InFacts
  <2>. QED
    BY <2>1 DEF MarkInv
<1>. QED
  BY <1>1, <1>2, <1>3, NextCases, EffectCall, EffectAlloc, EffectGot, EffectFree, EffectFlush, EffectFail, EffectServe

(* Initially all ids are in the pool of the device. *)
LEMMA InitPlace == Init => PlaceInv
<1>. SUFFICES ASSUME Init PROVE PlaceInv
  OBVIOUS
<1>1. ASSUME NEW x \in Place PROVE x = Pool \/ In(x) = {}
  <2>1. NoMail.ids = {}
    BY MsgFacts
  <2>. QED
    BY <2>1, PlaceKinds, InFacts DEF Init
<1>2. In(Pool) = Ids /\ marked = {} /\ Pool \in Place /\ SideIs(Pool) = "pool"
  BY InFacts, PlaceFacts, SideIsFacts DEF Init
<1>3. Apart
  BY <1>1 DEF Apart
<1>4. MarkInv
  BY <1>1, <1>2 DEF MarkInv
<1>5. Somewhere
  BY <1>2 DEF Somewhere
<1>. QED
  BY <1>3, <1>4, <1>5 DEF PlaceInv

(* Every step keeps the ids in their places. *)
LEMMA PlaceStep ==
    ASSUME BaseInv, GetInv, PlaceInv, [Next]_vars
    PROVE  PlaceInv'
<1>1. Effect
  BY EffectNext DEF PlaceInv
<1>2. faults' = 0 => faults = 0
  BY FaultsStay DEF BaseInv
<1>. QED
  BY <1>1, <1>2, ApartStep, MarkStep, SomewhereStep DEF PlaceInv

(* The places as TrsId writes them. *)
LEMMA UnionFacts ==
    /\ \A i : i \in OnLists <=> \E s \in Sides : i \in In(List(s))
    /\ \A i : i \in InHands <=> \E t \in Threads : i \in In(Hand(t))
    /\ \A i : i \in InCalls <=> \E t \in Threads : i \in In(Desk(t))
    /\ \A i : i \in InMail <=> \E m \in Slots : i \in In(Post(m))
    /\ In(Pool) = avail /\ In(Gone) = stranded
  BY InFacts DEF OnLists, InHands, InCalls, InMail

(* Disjoint places mean one holder. *)
LEMMA ApartHolder == Apart => OneHolder
<1>. SUFFICES ASSUME Apart PROVE OneHolder
  OBVIOUS
<1>1. ASSUME NEW i, NEW x \in Place, NEW y \in Place, i \in In(x), i \in In(y) PROVE x = y
  BY <1>1 DEF Apart
<1>2. avail \cap (OnLists \cup InHands \cup InCalls \cup InMail \cup stranded) = {}
  BY <1>1, UnionFacts, PlaceFacts, PlaceEqual
<1>3. OnLists \cap (InHands \cup InCalls \cup InMail \cup stranded) = {}
  BY <1>1, UnionFacts, PlaceFacts, PlaceEqual
<1>4. InHands \cap (InCalls \cup InMail \cup stranded) = {}
  BY <1>1, UnionFacts, PlaceFacts, PlaceEqual
<1>5. InCalls \cap (InMail \cup stranded) = {} /\ InMail \cap stranded = {}
  BY <1>1, UnionFacts, PlaceFacts, PlaceEqual
<1>6. cache["host"] \cap cache["device"] = {}
  <2>1. "host" \in Sides /\ "device" \in Sides /\ "host" # "device"
    BY DEF Sides
  <2>. QED
    BY <1>1, <2>1, InFacts, PlaceFacts, PlaceEqual
<1>7. \A t, u \in Threads : t # u => held[t] \cap held[u] = {} /\ call[t].ids \cap call[u].ids = {}
  BY <1>1, InFacts, PlaceFacts, PlaceEqual
<1>8. \A m, k \in Slots : m # k => mail[m].ids \cap mail[k].ids = {}
  BY <1>1, InFacts, PlaceFacts, PlaceEqual
<1>. QED
  BY <1>2, <1>3, <1>4, <1>5, <1>6, <1>7, <1>8 DEF OneHolder

(* What a side has is in a place of that side. *)
LEMMA HasPlaces ==
    ASSUME NEW s \in Sides, NEW i \in Has(s)
    PROVE  \E x \in Place : SideIs(x) = s /\ i \in In(x)
<1>1. \/ i \in In(List(s))
      \/ \E t \in Threads : SideOf(t) = s /\ (i \in In(Hand(t)) \/ i \in In(Desk(t)))
      \/ \E m \in Slots : SideOf(m[1]) = s /\ i \in In(Post(m))
  <2>1. \/ i \in cache[s]
        \/ \E t \in Threads : SideOf(t) = s /\ i \in held[t] \cup call[t].ids
        \/ \E m \in Slots : SideOf(m[1]) = s /\ i \in mail[m].ids
    BY DEF Has
  <2>. QED
    BY <2>1, InFacts
<1>. QED
  BY <1>1, PlaceFacts, SideIsFacts

(* Marks on places mean marks on what the host has. *)
LEMMA MarkExact == MarkInv => MarksExact
<1>. SUFFICES ASSUME MarkInv PROVE MarksExact
  OBVIOUS
<1>0. "host" \in Sides /\ "device" \in Sides
  BY DEF Sides
<1>1. Has("host") \subseteq marked
  BY <1>0, HasPlaces DEF MarkInv
<1>2. marked \cap Has("device") = {}
  BY <1>0, HasPlaces DEF MarkInv
<1>3. marked \cap avail = {}
  BY PlaceFacts, SideIsFacts, InFacts DEF MarkInv
<1>. QED
  BY <1>1, <1>2, <1>3 DEF MarksExact

(* An id in some place is not lost. *)
LEMMA SomewhereLost == BaseInv /\ Somewhere => NothingLost
<1>. SUFFICES ASSUME BaseInv, Somewhere, faults = 0
              PROVE  Ids = avail \cup OnLists \cup InHands \cup InCalls \cup InMail \cup stranded
  BY DEF NothingLost
<1>1. ASSUME NEW i \in Ids PROVE i \in avail \cup OnLists \cup InHands \cup InCalls \cup InMail \cup stranded
  <2>1. PICK x \in Place : i \in In(x)
    BY DEF Somewhere
  <2>. QED
    BY <2>1, PlaceKinds, UnionFacts
<1>2. ASSUME NEW i, i \in avail \cup OnLists \cup InHands \cup InCalls \cup InMail \cup stranded PROVE i \in Ids
  <2>1. avail \subseteq Ids /\ stranded \subseteq Ids /\ \A t \in Threads : held[t] \subseteq Ids
    BY DEF BaseInv, HandType
  <2>2. \A s \in Sides : cache[s] \subseteq Ids
    BY DEF BaseInv, PoolType
  <2>3. (\A t \in Threads : call[t].ids \subseteq Ids) /\ (\A m \in Slots : mail[m].ids \subseteq Ids)
    BY DEF BaseInv, CallType, WeakMessage
  <2>. QED
    BY <1>2, <2>1, <2>2, <2>3 DEF OnLists, InHands, InCalls, InMail
<1>. QED
  BY <1>1, <1>2

-----------------------------------------------------------------------------
(* The abstract set of ids. *)

OwnerAt(x) == IF x[1] = "hand" THEN x[2] ELSE IF x[1] = "gone" THEN "lost" ELSE "unused"

OwnerInv ==
    \A i \in Ids : /\ \A x \in Place : i \in In(x) => Owner(i) = OwnerAt(x)
                   /\ (\A x \in Place : i \notin In(x)) => Owner(i) = "lost"

(* In disjoint places an id has at most one owner, *)
LEMMA OwnerPlaces == Apart => OwnerInv
<1>. SUFFICES ASSUME Apart, NEW i \in Ids
              PROVE  /\ \A x \in Place : i \in In(x) => Owner(i) = OwnerAt(x)
                     /\ (\A x \in Place : i \notin In(x)) => Owner(i) = "lost"
  BY DEF OwnerInv
<1>0. ASSUME NEW x \in Place, NEW y \in Place, i \in In(x), i \in In(y) PROVE x = y
  BY <1>0 DEF Apart
<1>1. ASSUME NEW t \in Threads, i \in In(Hand(t)) PROVE Owner(i) = OwnerAt(Hand(t))
  <2>1. \A u \in Threads : i \in held[u] <=> u = t
    BY <1>0, <1>1, InFacts, PlaceFacts, PlaceEqual
  <2>2. (CHOOSE u \in Threads : i \in held[u]) = t
    BY <2>1
  <2>. QED
    BY <2>1, <2>2, PlaceFacts DEF Owner, OwnerAt
<1>2. ASSUME NEW x \in Place, i \in In(x), x[1] # "hand" PROVE Owner(i) = OwnerAt(x)
  <2>1. \A t \in Threads : i \notin held[t]
    BY <1>0, <1>2, InFacts, PlaceFacts
  <2>2. CASE x = Gone
    <3>1. i \notin avail \cup OnLists \cup InCalls \cup InMail
      BY <1>0, <1>2, <2>2, UnionFacts, PlaceFacts, PlaceEqual
    <3>. QED
      BY <2>1, <2>2, <3>1, PlaceFacts DEF Owner, OwnerAt
  <2>3. CASE x # Gone
    <3>1. i \in avail \cup OnLists \cup InCalls \cup InMail /\ x[1] # "gone"
      BY <1>2, <2>3, UnionFacts, PlaceFacts, PlaceKinds
    <3>. QED
      BY <1>2, <2>1, <3>1 DEF Owner, OwnerAt
  <2>. QED
    BY <2>2, <2>3
<1>3. ASSUME \A x \in Place : i \notin In(x) PROVE Owner(i) = "lost"
  BY <1>3, UnionFacts, PlaceFacts, InFacts DEF Owner
<1>4. ASSUME NEW x \in Place, x[1] = "hand" PROVE \E t \in Threads : x = Hand(t)
  BY <1>4, PlaceKinds, PlaceFacts
<1>. QED
  BY <1>1, <1>2, <1>3, <1>4

(* also after a step. *)
LEMMA OwnerPlacesNext == Apart' => OwnerInv'
  BY OwnerPlaces, PTL

(* An id that does not move keeps its owner. *)
LEMMA OwnerStays ==
    ASSUME OwnerInv, OwnerInv', NEW i \in Ids, \A x \in Place : i \in In(x)' <=> i \in In(x)
    PROVE  Owner(i)' = Owner(i)
<1>1. CASE \E x \in Place : i \in In(x)
  <2>1. PICK x \in Place : i \in In(x)
    BY <1>1
  <2>2. Owner(i) = OwnerAt(x) /\ Owner(i)' = OwnerAt(x)
    BY <2>1 DEF OwnerInv
  <2>. QED
    BY <2>2
<1>2. CASE \A x \in Place : i \notin In(x)
  BY <1>2 DEF OwnerInv
<1>. QED
  BY <1>1, <1>2

(* Ids that move change their owner from that of the one place to that of the *)
(* other, and all others keep theirs.                                         *)
LEMMA OwnerMoves ==
    ASSUME Apart, OwnerInv, OwnerInv', NEW p, NEW q, NEW S, Moves(p, q, S)
    PROVE  /\ \A i \in Ids \ S : Owner(i)' = Owner(i)
           /\ \A i \in Ids \cap S : /\ Owner(i) = OwnerAt(p)
                                    /\ q \in Place => Owner(i)' = OwnerAt(q)
                                    /\ q \notin Place => Owner(i)' = "lost"
<1>0. p \in Place /\ S \subseteq In(p) /\ In(p)' = In(p) \ S
  BY DEF Moves
<1>1. ASSUME NEW i \in Ids \ S PROVE Owner(i)' = Owner(i)
  <2>1. \A x \in Place : i \in In(x)' <=> i \in In(x)
    BY <1>1 DEF Moves
  <2>. QED
    BY <2>1, OwnerStays
<1>2. ASSUME NEW i \in Ids \cap S
      PROVE  /\ Owner(i) = OwnerAt(p)
             /\ q \in Place => Owner(i)' = OwnerAt(q)
             /\ q \notin Place => Owner(i)' = "lost"
  <2>1. Owner(i) = OwnerAt(p)
    BY <1>0, <1>2 DEF OwnerInv
  <2>2. ASSUME q \in Place PROVE Owner(i)' = OwnerAt(q)
    <3>1. i \in In(q)'
      BY <1>2, <2>2 DEF Moves
    <3>. QED
      BY <2>2, <3>1 DEF OwnerInv
  <2>3. ASSUME q \notin Place PROVE Owner(i)' = "lost"
    <3>1. \A x \in Place : i \notin In(x)'
      BY <1>0, <1>2, <2>3, MovesWithin DEF Apart
    <3>. QED
      BY <3>1 DEF OwnerInv
  <2>. QED
    BY <2>1, <2>2, <2>3
<1>. QED
  BY <1>1, <1>2

owned == [i \in Ids |-> Owner(i)]

(* Equal owners are the same state of the set. *)
LEMMA OwnedSame == ASSUME \A i \in Ids : Owner(i)' = Owner(i) PROVE UNCHANGED owned
  BY DEF owned

(* Every movement is a step of the set of ids or changes no owner. *)
LEMMA IdSetStep ==
    ASSUME Apart, OwnerInv, OwnerInv', Effect
    PROVE  IdSet!Next \/ UNCHANGED owned
<1>1. CASE Still
  <2>1. \A i \in Ids : Owner(i)' = Owner(i)
    BY <1>1, OwnerStays DEF Still
  <2>. QED
    BY <2>1, OwnedSame
<1>2. ASSUME NEW p, NEW q, NEW S, Moves(p, q, S), q \in Place, OwnerAt(p) = OwnerAt(q) PROVE UNCHANGED owned
  <2>1. \A i \in Ids : Owner(i)' = Owner(i)
    BY <1>2, OwnerMoves
  <2>. QED
    BY <2>1, OwnedSame
<1>3. ASSUME NEW p, NEW q, NEW S \in SUBSET Ids, Moves(p, q, S), OwnerAt(p) = "unused",
             q \in Place => OwnerAt(q) = "lost"
      PROVE  IdSet!Next
  <2>1. \A i \in S : Owner(i) = "unused" /\ Owner(i)' = "lost"
    BY <1>3, OwnerMoves
  <2>2. \A i \in Ids \ S : Owner(i)' = Owner(i)
    BY <1>3, OwnerMoves
  <2>3. IdSet!Lose(S)
    <3>1. \A i \in S : owned[i] = "unused"
      BY <2>1 DEF owned
    <3>2. owned' = [i \in Ids |-> IF i \in S THEN "lost" ELSE owned[i]]
      BY <2>1, <2>2 DEF owned
    <3>. QED
      BY <3>1, <3>2 DEF IdSet!Lose, owned
  <2>. QED
    BY <2>3 DEF IdSet!Next
<1>4. ASSUME NEW i \in Ids, NEW o, Owner(i)' = o, \A j \in Ids \ {i} : Owner(j)' = Owner(j)
      PROVE  owned' = [owned EXCEPT ![i] = o]
  BY <1>4 DEF owned
<1>5. ASSUME NEW t \in Threads, NEW q \in Place, NEW i \in Ids, Moves(Hand(t), q, {i}), q[1] # "hand"
      PROVE  IdSet!Next
  <2>1. Owner(i) = t /\ Owner(i)' = OwnerAt(q) /\ \A j \in Ids \ {i} : Owner(j)' = Owner(j)
    BY <1>5, OwnerMoves, PlaceFacts DEF OwnerAt
  <2>2. OwnerAt(q) \in {"unused", "lost"}
    BY <1>5 DEF OwnerAt
  <2>3. owned[i] = t /\ owned' = [owned EXCEPT ![i] = OwnerAt(q)]
    BY <1>4, <2>1 DEF owned
  <2>4. IdSet!GiveBack(t, i)
    BY <2>2, <2>3 DEF IdSet!GiveBack, owned
  <2>. QED
    BY <2>4 DEF IdSet!Next
<1>6. ASSUME NEW t \in Threads, NEW p \in Place, NEW i \in Ids, Moves(p, Hand(t), {i}), OwnerAt(p) = "unused"
      PROVE  IdSet!Next
  <2>1. Owner(i) = "unused" /\ Owner(i)' = t /\ \A j \in Ids \ {i} : Owner(j)' = Owner(j)
    BY <1>6, OwnerMoves, PlaceFacts DEF OwnerAt
  <2>2. owned[i] = "unused" /\ owned' = [owned EXCEPT ![i] = t]
    BY <1>4, <2>1 DEF owned
  <2>3. IdSet!Take(t, i)
    BY <2>2 DEF IdSet!Take, owned
  <2>. QED
    BY <2>3 DEF IdSet!Next
<1>7. \A x \in Place : /\ x[1] = "hand" => \E t \in Threads : x = Hand(t)
                       /\ x[1] \notin {"hand", "gone"} => OwnerAt(x) = "unused"
                       /\ x[1] = "gone" <=> x = Gone
                       /\ x[1] = "gone" => OwnerAt(x) = "lost"
  BY PlaceKinds, PlaceFacts DEF OwnerAt
<1>8. CASE Shifts
  <2>1. PICK p, q \in Place, S \in SUBSET Ids :
           /\ Moves(p, q, S) /\ p \notin {Pool, Gone} /\ q # Pool
           /\ p[1] = "hand" => q[1] # "hand" /\ \E i : S = {i}
           /\ q[1] = "hand" => p[1] # "hand" /\ \E i : S = {i}
    BY <1>8 DEF Shifts
  <2>2. CASE p[1] = "hand"
    BY <1>5, <1>7, <2>1, <2>2
  <2>3. CASE q[1] = "hand"
    BY <1>6, <1>7, <2>1, <2>3
  <2>4. CASE p[1] # "hand" /\ q[1] \notin {"hand", "gone"}
    BY <1>2, <1>7, <2>1, <2>4
  <2>5. CASE p[1] # "hand" /\ q[1] = "gone"
    BY <1>3, <1>7, <2>1, <2>5
  <2>. QED
    BY <2>2, <2>3, <2>4, <2>5
<1>9. CASE Forgets
  <2>1. PICK p \in Place, S \in SUBSET Ids : Moves(p, Void, S) /\ p[1] \in {"list", "post"}
    BY <1>9 DEF Forgets
  <2>2. Void \notin Place
    BY PlaceEqual, PlaceKinds
  <2>. QED
    BY <1>3, <1>7, <2>1, <2>2
<1>10. CASE FromPool
  <2>1. PICK m \in Slots, i \in Ids : Moves(Pool, Post(m), {i})
    BY <1>10 DEF FromPool
  <2>. QED
    BY <1>2, <2>1, PlaceFacts DEF OwnerAt
<1>11. CASE ToPool
  <2>1. PICK m \in Slots, i \in Ids : Moves(Post(m), Pool, {i})
    BY <1>11 DEF ToPool
  <2>. QED
    BY <1>2, <2>1, PlaceFacts DEF OwnerAt
<1>. QED
  BY <1>1, <1>8, <1>9, <1>10, <1>11 DEF Effect

(* Initially all ids are unused. *)
LEMMA InitIdSet == Init => IdSet!Init
<1>. SUFFICES ASSUME Init PROVE IdSet!Init
  OBVIOUS
<1>1. OwnerInv
  BY InitPlace, OwnerPlaces DEF PlaceInv
<1>2. \A i \in Ids : i \in In(Pool)
  BY InFacts DEF Init
<1>3. \A i \in Ids : Owner(i) = "unused"
  BY <1>1, <1>2, PlaceFacts DEF OwnerInv, OwnerAt
<1>. QED
  BY <1>3 DEF IdSet!Init

-----------------------------------------------------------------------------
(* alloc_num of a pool. *)

Mine(s)   == {t \in Threads : SideOf(t) = s}
Taken(s)  == UNION {held[t] : t \in Mine(s)}
Freers(s) == {t \in Mine(s) : At(t, "free") \/ At(t, "freeing")}
Out(s)    == Cardinality(Taken(s)) + Cardinality(Freers(s))

(* AllocNumExact for a side; that alloc_num is not too low holds also for a   *)
(* pool that is unregistered.                                                 *)
CountAt(s) ==
    /\ alloc_num[s] >= Out(s)
    /\ registered[s] /\ faults = 0 => alloc_num[s] = Out(s)
    /\ Cached(s) => Cardinality(cache[s]) + alloc_num[s] <= IdNum

CountInv == \A s \in Sides : CountAt(s)

(* What is out of a pool can be counted, *)
LEMMA OutFinite ==
    ASSUME HandType, NEW s
    PROVE  /\ IsFiniteSet(Taken(s)) /\ Cardinality(Taken(s)) \in Nat
           /\ IsFiniteSet(Freers(s)) /\ Cardinality(Freers(s)) \in Nat
           /\ Out(s) \in Nat
<1>1. Taken(s) \in SUBSET Ids
  BY DEF Taken, Mine, HandType
<1>2. IsFiniteSet(Taken(s)) /\ Cardinality(Taken(s)) \in Nat
  BY <1>1, IdNumFacts
<1>3. Freers(s) \in SUBSET Threads /\ IsFiniteSet(Threads)
  BY IdAssumption DEF Freers, Mine, IdAssumption
<1>4. IsFiniteSet(Freers(s)) /\ Cardinality(Freers(s)) \in Nat
  BY <1>3, FS_Subset, FS_CardinalityType
<1>. QED
  BY <1>2, <1>4 DEF Out

(* also after a step. *)
LEMMA OutFiniteNext ==
    ASSUME HandType', NEW s
    PROVE  /\ IsFiniteSet(Taken(s)') /\ Cardinality(Taken(s)') \in Nat
           /\ IsFiniteSet(Freers(s)') /\ Cardinality(Freers(s)') \in Nat
           /\ Out(s)' \in Nat
<1>1. Taken(s)' \in SUBSET Ids
  BY DEF Taken, Mine, HandType
<1>2. IsFiniteSet(Taken(s)') /\ Cardinality(Taken(s)') \in Nat
  BY <1>1, IdNumFacts
<1>3. Freers(s)' \in SUBSET Threads /\ IsFiniteSet(Threads)
  BY IdAssumption DEF Freers, Mine, IdAssumption
<1>4. IsFiniteSet(Freers(s)') /\ Cardinality(Freers(s)') \in Nat
  BY <1>3, FS_Subset, FS_CardinalityType
<1>. QED
  BY <1>2, <1>4 DEF Out

(* What a step of t does to the hands of its side. *)
LEMMA TakenMoves ==
    ASSUME HandType, NEW t \in Threads, NEW s, s = SideOf(t), \A u \in Threads \ {t} : held'[u] = held[u]
    PROVE  /\ \A r : r # s => Taken(r)' = Taken(r)
           /\ held'[t] = held[t] => Taken(s)' = Taken(s)
           /\ \A i : held'[t] = held[t] \cup {i} => Taken(s)' = Taken(s) \cup {i}
           /\ \A i : /\ held'[t] = held[t] \ {i} /\ i \in held[t]
                     /\ \A u \in Threads \ {t} : i \notin held[u]
                     => Taken(s)' = Taken(s) \ {i} /\ i \in Taken(s)
<1>0. /\ \A r, j : j \in Taken(r) <=> \E u \in Mine(r) : j \in held[u]
      /\ \A r, j : j \in Taken(r)' <=> \E u \in Mine(r) : j \in held'[u]
  BY DEF Taken, Mine
<1>1. /\ \A r : r # s => t \notin Mine(r)
      /\ t \in Mine(s) /\ \A r : Mine(r) \subseteq Threads
  BY DEF Mine
<1>2. ASSUME NEW r, r # s PROVE Taken(r)' = Taken(r)
  <2>1. \A j : j \in Taken(r)' <=> j \in Taken(r)
    BY <1>0, <1>1, <1>2
  <2>. QED
    BY <2>1
<1>3. ASSUME held'[t] = held[t] PROVE Taken(s)' = Taken(s)
  <2>1. \A j : j \in Taken(s)' <=> j \in Taken(s)
    BY <1>0, <1>1, <1>3
  <2>. QED
    BY <2>1
<1>4. ASSUME NEW i, held'[t] = held[t] \cup {i} PROVE Taken(s)' = Taken(s) \cup {i}
  <2>1. \A j : j \in Taken(s)' <=> j \in Taken(s) \cup {i}
    BY <1>0, <1>1, <1>4
  <2>. QED
    BY <2>1
<1>5. ASSUME NEW i, held'[t] = held[t] \ {i}, i \in held[t], \A u \in Threads \ {t} : i \notin held[u]
      PROVE  Taken(s)' = Taken(s) \ {i} /\ i \in Taken(s)
  <2>1. \A j : j \in Taken(s)' <=> j \in Taken(s) \ {i}
    BY <1>0, <1>1, <1>5
  <2>. QED
    BY <1>0, <1>1, <1>5, <2>1
<1>. QED
  BY <1>2, <1>3, <1>4, <1>5

(* How the number of threads in a free changes when one moves. *)
LEMMA FreersMoves ==
    ASSUME HandType, NEW t \in Threads, NEW s, s = SideOf(t), NEW pc, Pcs(t, pc)
    PROVE  /\ \A r : r # s => Freers(r)' = Freers(r)
           /\ call[t].pc \notin {"free", "freeing"} /\ pc \in {"free", "freeing"} =>
                 Cardinality(Freers(s)') = Cardinality(Freers(s)) + 1
           /\ call[t].pc \in {"free", "freeing"} /\ pc \notin {"free", "freeing"} =>
                 Cardinality(Freers(s)') = Cardinality(Freers(s)) - 1
           /\ (call[t].pc \in {"free", "freeing"} <=> pc \in {"free", "freeing"}) => Freers(s)' = Freers(s)
<1>. USE DEF Freers, Mine, At, Pcs
<1>1. ASSUME NEW r, r # s PROVE Freers(r)' = Freers(r)
  BY <1>1
<1>2. ASSUME call[t].pc \notin {"free", "freeing"}, pc \in {"free", "freeing"}
      PROVE  Cardinality(Freers(s)') = Cardinality(Freers(s)) + 1
  <2>1. Freers(s)' = Freers(s) \cup {t} /\ t \notin Freers(s)
    BY <1>2
  <2>. HIDE DEF Freers
  <2>. QED
    BY <2>1, OutFinite, FS_AddElement
<1>3. ASSUME call[t].pc \in {"free", "freeing"}, pc \notin {"free", "freeing"}
      PROVE  Cardinality(Freers(s)') = Cardinality(Freers(s)) - 1
  <2>1. Freers(s)' = Freers(s) \ {t} /\ t \in Freers(s)
    BY <1>3
  <2>. HIDE DEF Freers
  <2>. QED
    BY <2>1, OutFinite, FS_RemoveElement
<1>4. ASSUME call[t].pc \in {"free", "freeing"} <=> pc \in {"free", "freeing"} PROVE Freers(s)' = Freers(s)
  BY <1>4
<1>. HIDE DEF Freers, Mine, At, Pcs
<1>. QED
  BY <1>1, <1>2, <1>3, <1>4

(* A pool that was unregistered stays so. *)
LEMMA RegStays == ASSUME PoolType, [Next]_vars PROVE \A s \in Sides : registered'[s] => registered[s]
<1>1. ASSUME NEW t \in Threads, Unregister(t) PROVE \A s \in Sides : registered'[s] => registered[s]
  BY <1>1 DEF Unregister, PoolType
<1>2. ASSUME NEW t \in Threads, Alloc(t) \/ Free(t) \/ FreeNoPool(t) \/ Flush(t) \/ Locking(t) \/ Failing(t)
      PROVE  UNCHANGED registered
  BY <1>2 DEF Locking, Failing, Alloc, Free, FreeNoPool, Flush, AllocCached, AllocExhausted,
              AllocBatch, FreeCached, FreeBatch, FlushLock, NotSent, GiveUp, poolVars
<1>3. ASSUME NEW t \in Threads, Working(t) PROVE UNCHANGED registered
  BY <1>3 DEF Working, CheckAvail, Synced, GotOne, GotBatch, Undone, GotNothing, Take, Freed, FlushBatch,
              FlushMore, FlushEnd, FlushReply, Put, poolVars
<1>4. ASSUME NEW m \in Slots, Serving(m) PROVE UNCHANGED registered
  BY <1>4 DEF Serving, GetOne, GetEnd, PutOne, FlushAsked, poolVars
<1>. QED
  BY <1>1, <1>2, <1>3, <1>4 DEF Next, Calling, vars, poolVars

(* What CountAt needs of a step. *)
Counted(s) ==
    /\ Out(s)' - Out(s) <= alloc_num'[s] - alloc_num[s]
    /\ registered[s] /\ faults' = 0 => Out(s)' - Out(s) = alloc_num'[s] - alloc_num[s]
    /\ Cached(s) => Cardinality(cache'[s]) + alloc_num'[s] <= IdNum

(* A step that counts what it takes keeps the count of a pool exact. *)
LEMMA CountedStep ==
    ASSUME BaseInv, BaseInv', NEW s \in Sides, CountAt(s), Counted(s), UNCHANGED noncache,
           registered'[s] => registered[s], faults' = 0 => faults = 0
    PROVE  CountAt(s)'
<1>1. Out(s) \in Nat /\ Out(s)' \in Nat /\ alloc_num[s] \in Int /\ alloc_num'[s] \in Int
  BY OutFinite, OutFiniteNext DEF BaseInv, PoolType
<1>2. alloc_num'[s] >= Out(s)'
  BY <1>1 DEF CountAt, Counted
<1>3. registered'[s] /\ faults' = 0 => alloc_num'[s] = Out(s)'
  BY <1>1 DEF CountAt, Counted
<1>4. Cached(s)' => Cardinality(cache'[s]) + alloc_num'[s] <= IdNum
  BY DEF Counted, Cached
<1>. QED
  BY <1>2, <1>3, <1>4 DEF CountAt

(* A step that touches neither count nor what is counted. *)
LEMMA CountedSame ==
    ASSUME BaseInv, NEW s \in Sides, CountAt(s), Taken(s)' = Taken(s), Freers(s)' = Freers(s),
           cache'[s] = cache[s], alloc_num'[s] = alloc_num[s]
    PROVE  Counted(s)
<1>1. Out(s) \in Nat /\ alloc_num[s] \in Int /\ Out(s)' = Out(s)
  BY OutFinite DEF BaseInv, PoolType, Out
<1>. QED
  BY <1>1 DEF CountAt, Counted

(* A thread counts on its own side only. *)
LEMMA CountOther ==
    ASSUME BaseInv, CountInv, NEW t \in Threads, NEW pc, Pcs(t, pc), \A u \in Threads \ {t} : held'[u] = held[u],
           \A r \in Sides \ {SideOf(t)} : cache'[r] = cache[r] /\ alloc_num'[r] = alloc_num[r],
           Counted(SideOf(t))
    PROVE  \A s \in Sides : Counted(s)
<1>1. ASSUME NEW r \in Sides, r # SideOf(t) PROVE Counted(r)
  <2>1. Taken(r)' = Taken(r) /\ Freers(r)' = Freers(r) /\ CountAt(r)
    BY <1>1, TakenMoves, FreersMoves DEF BaseInv, CountInv
  <2>. QED
    BY <1>1, <2>1, CountedSame
<1>. QED
  BY <1>1

(* What the steps add to the count: taking an id from the list, *)
LEMMA CountTake ==
    ASSUME BaseInv, CountInv, Apart, NEW t \in Threads, AllocCached(t) \/ Take(t)
    PROVE  \A s \in Sides : Counted(s)
<1>. DEFINE s == SideOf(t)
<1>0. /\ s \in Sides /\ CountAt(s) /\ cache[s] \in SUBSET Ids /\ alloc_num[s] \in Int
      /\ held \in [Threads -> SUBSET Ids] /\ HandType
  BY SideFacts DEF CountInv, BaseInv, PoolType, HandType
<1>1. PICK i \in cache[s] : /\ cache' = [cache EXCEPT ![s] = @ \ {i}]
                            /\ held' = [held EXCEPT ![t] = @ \cup {i}]
                            /\ alloc_num' = [alloc_num EXCEPT ![s] = @ + 1]
  BY DEF AllocCached, Take, TakeOne
<1>2. Goto(t, "put") /\ call[t].pc \in {"alloc", "take"}
  BY DEF AllocCached, Take, At
<1>3. Pcs(t, "put")
  BY <1>2, GotoPcs
<1>4. /\ cache'[s] = cache[s] \ {i} /\ alloc_num'[s] = alloc_num[s] + 1 /\ held'[t] = held[t] \cup {i}
      /\ \A r \in Sides \ {s} : cache'[r] = cache[r] /\ alloc_num'[r] = alloc_num[r]
      /\ \A u \in Threads \ {t} : held'[u] = held[u]
  BY <1>0, <1>1 DEF BaseInv, PoolType
<1>5. \A u \in Threads : i \notin held[u]
  BY <1>0, <1>1, PlaceFacts, PlaceEqual, InFacts DEF Apart
<1>6. i \notin Taken(s)
  BY <1>5 DEF Taken, Mine
<1>. HIDE DEF s
<1>7. Taken(s)' = Taken(s) \cup {i} /\ Freers(s)' = Freers(s)
  <2>1. Taken(s)' = Taken(s) \cup {i}
    BY <1>0, <1>4, TakenMoves DEF s
  <2>2. Freers(s)' = Freers(s)
    BY <1>0, <1>2, <1>3, FreersMoves DEF s
  <2>. QED
    BY <2>1, <2>2
<1>8. Cardinality(Taken(s)') = Cardinality(Taken(s)) + 1
  BY <1>0, <1>6, <1>7, OutFinite, FS_AddElement
<1>9. Cardinality(cache'[s]) = Cardinality(cache[s]) - 1 /\ Cardinality(cache[s]) \in Nat
  BY <1>0, <1>1, <1>4, IdNumFacts, FS_RemoveElement
<1>10. Out(s) \in Nat /\ Out(s)' = Out(s) + 1
  BY <1>0, <1>7, <1>8, OutFinite DEF Out
<1>11. Counted(s)
  BY <1>0, <1>4, <1>9, <1>10 DEF Counted, CountAt
<1>. QED
  BY <1>3, <1>4, <1>11, CountOther DEF s

(* taking an answer, *)
LEMMA CountGot ==
    ASSUME BaseInv, CountInv, Apart, AskInv, NEW t \in Threads, GotOne(t) \/ GotBatch(t)
    PROVE  \A s \in Sides : Counted(s)
<1>. DEFINE s == SideOf(t)
<1>0. /\ s \in Sides /\ CountAt(s) /\ cache[s] \in SUBSET Ids /\ alloc_num[s] \in Int
      /\ held \in [Threads -> SUBSET Ids] /\ HandType /\ AskAt(t) /\ Now(t) \in Slots
      /\ mail[Now(t)].ids \in SUBSET Ids /\ mail[Now(t)].n \in Nat
  BY SideFacts, SlotFacts DEF CountInv, BaseInv, PoolType, HandType, AskInv, CallType, WeakMessage
<1>1. CASE GotOne(t)
  <2>1. /\ held' = [held EXCEPT ![t] = @ \cup mail[Now(t)].ids] /\ alloc_num' = [alloc_num EXCEPT ![s] = @ + 1]
        /\ call[t].pc = "get" /\ ~Cached(s) /\ Goto(t, "put") /\ UNCHANGED cache /\ Result(t) = "ok"
    BY <1>1 DEF GotOne, At
  <2>2. PICK i : mail[Now(t)].ids = {i}
    BY <1>0, <2>1 DEF AskAt, GetAt, Single
  <2>3. Pcs(t, "put")
    BY <2>1, GotoPcs
  <2>4. /\ alloc_num'[s] = alloc_num[s] + 1 /\ held'[t] = held[t] \cup {i}
        /\ \A r \in Sides \ {s} : cache'[r] = cache[r] /\ alloc_num'[r] = alloc_num[r]
        /\ \A u \in Threads \ {t} : held'[u] = held[u]
    BY <1>0, <2>1, <2>2 DEF BaseInv, PoolType
  <2>5. \A u \in Threads : i \notin held[u]
    BY <1>0, <2>2, PlaceFacts, PlaceEqual, InFacts DEF Apart
  <2>6. i \notin Taken(s)
    BY <2>5 DEF Taken, Mine
  <2>. HIDE DEF s
  <2>7. Taken(s)' = Taken(s) \cup {i} /\ Freers(s)' = Freers(s)
    BY <1>0, <2>1, <2>3, <2>4, TakenMoves, FreersMoves DEF s
  <2>8. Cardinality(Taken(s)') = Cardinality(Taken(s)) + 1
    BY <1>0, <2>6, <2>7, OutFinite, FS_AddElement
  <2>9. Out(s) \in Nat /\ Out(s)' = Out(s) + 1
    BY <1>0, <2>7, <2>8, OutFinite DEF Out
  <2>10. Counted(s)
    BY <1>0, <2>1, <2>4, <2>9 DEF Counted
  <2>. QED
    BY <2>3, <2>4, <2>10, CountOther DEF s
<1>2. CASE GotBatch(t)
  <2>1. PICK S \in SUBSET mail[Now(t)].ids : cache' = [cache EXCEPT ![s] = @ \cup S]
    BY <1>2 DEF GotBatch
  <2>2. PICK pc \in {"take", "undo"} : Goto(t, pc)
    BY <1>2 DEF GotBatch
  <2>3. call[t].pc = "get" /\ Cached(s) /\ UNCHANGED <<alloc_num, held>>
    BY <1>2 DEF GotBatch, At
  <2>4. Pcs(t, pc)
    BY <2>2, GotoPcs
  <2>5. cache[s] = {} /\ Cardinality(mail[Now(t)].ids) + mail[Now(t)].n + alloc_num[s] <= IdNum
    BY <1>0, <2>3 DEF AskAt, RoomAt
  <2>6. cache'[s] = S /\ \A r \in Sides \ {s} : cache'[r] = cache[r]
    BY <1>0, <2>1, <2>5 DEF BaseInv, PoolType
  <2>7. Cardinality(S) <= Cardinality(mail[Now(t)].ids) /\ Cardinality(S) \in Nat /\ Cardinality(mail[Now(t)].ids) \in Nat
        /\ IdNum \in Nat
    BY <1>0, IdNumFacts, FS_Subset
  <2>. HIDE DEF s
  <2>8. Taken(s)' = Taken(s) /\ Freers(s)' = Freers(s)
    BY <1>0, <2>2, <2>3, <2>4, TakenMoves, FreersMoves DEF s
  <2>9. Out(s)' = Out(s) /\ Out(s) \in Nat
    BY <1>0, <2>8, OutFinite DEF Out
  <2>10. Counted(s)
    BY <1>0, <2>3, <2>5, <2>6, <2>7, <2>9 DEF Counted
  <2>. QED
    BY <2>3, <2>4, <2>6, <2>10, CountOther DEF s
<1>. QED
  BY <1>1, <1>2

(* a free, *)
LEMMA CountFree ==
    ASSUME BaseInv, CountInv, Apart, AskInv, NEW t \in Threads,
           Free(t) \/ FreeNoPool(t) \/ FreeCached(t) \/ Freed(t)
    PROVE  \A s \in Sides : Counted(s)
<1>. DEFINE s == SideOf(t)
<1>0. /\ s \in Sides /\ CountAt(s) /\ cache[s] \in SUBSET Ids /\ alloc_num[s] \in Int
      /\ held \in [Threads -> SUBSET Ids] /\ HandType /\ AskAt(t) /\ Out(s) \in Nat
      /\ Cardinality(Taken(s)) \in Nat /\ Cardinality(Freers(s)) \in Nat /\ IsFiniteSet(Taken(s))
  BY SideFacts, OutFinite DEF CountInv, BaseInv, PoolType, HandType, AskInv
<1>1. ASSUME NEW i \in held[t], held' = [held EXCEPT ![t] = @ \ {i}]
      PROVE  Cardinality(Taken(s)') = Cardinality(Taken(s)) - 1
  <2>1. \A u \in Threads \ {t} : i \notin held[u]
    BY <1>1, PlaceFacts, PlaceEqual, InFacts DEF Apart
  <2>2. held'[t] = held[t] \ {i} /\ \A u \in Threads \ {t} : held'[u] = held[u]
    BY <1>0, <1>1
  <2>3. Taken(s)' = Taken(s) \ {i} /\ i \in Taken(s)
    <3>1. s = SideOf(t) /\ HandType
      BY <1>0
    <3>. HIDE DEF s
    <3>. QED
      BY <3>1, <1>1, <2>1, <2>2, TakenMoves
  <2>4. IsFiniteSet(Taken(s))
    BY <1>0
  <2>. HIDE DEF s
  <2>. QED
    BY <2>3, <2>4, FS_RemoveElement
<1>2. CASE Free(t)
  <2>1. PICK i \in held[t] : Get(t, "free", {i}) /\ held' = [held EXCEPT ![t] = @ \ {i}]
    BY <1>2 DEF Free
  <2>2. call[t].pc = "idle" /\ UNCHANGED <<cache, alloc_num>> /\ \A u \in Threads \ {t} : held'[u] = held[u]
    BY <1>0, <1>2, <2>1 DEF Free, At
  <2>3. Pcs(t, "free")
    BY <2>1, GotoPcs DEF Get
  <2>4. Cardinality(Freers(s)') = Cardinality(Freers(s)) + 1
    BY <1>0, <2>2, <2>3, FreersMoves
  <2>5. Out(s)' = Out(s)
    <3>1. Cardinality(Taken(s)') = Cardinality(Taken(s)) - 1
      BY <1>1, <2>1
    <3>. QED
      BY <1>0, <2>4, <3>1 DEF Out
  <2>6. Counted(s)
    BY <1>0, <2>2, <2>5 DEF Counted, CountAt
  <2>. QED
    BY <2>2, <2>3, <2>6, CountOther
<1>3. CASE FreeNoPool(t)
  <2>1. PICK i \in held[t] : held' = [held EXCEPT ![t] = @ \ {i}]
    BY <1>3 DEF FreeNoPool
  <2>2. ~registered[s] /\ UNCHANGED <<cache, alloc_num, call>> /\ \A u \in Threads \ {t} : held'[u] = held[u]
    BY <1>0, <1>3, <2>1 DEF FreeNoPool, poolVars
  <2>3. Pcs(t, call[t].pc)
    BY <2>2 DEF Pcs
  <2>4. Freers(s)' = Freers(s)
    BY <1>0, <2>3, FreersMoves
  <2>5. Out(s)' = Out(s) - 1
    <3>1. Cardinality(Taken(s)') = Cardinality(Taken(s)) - 1
      BY <1>1, <2>1
    <3>. QED
      BY <1>0, <2>4, <3>1 DEF Out
  <2>6. Counted(s)
    BY <1>0, <2>2, <2>5 DEF Counted, CountAt
  <2>. QED
    BY <2>2, <2>3, <2>6, CountOther
<1>4. CASE FreeCached(t)
  <2>1. /\ cache' = [cache EXCEPT ![s] = @ \cup call[t].ids] /\ alloc_num' = [alloc_num EXCEPT ![s] = @ - 1]
        /\ Goto(t, "put") /\ call[t].pc = "free" /\ UNCHANGED held
    BY <1>4 DEF FreeCached, At
  <2>2. PICK i : call[t].ids = {i}
    BY <1>0, <2>1 DEF AskAt, FreeAt
  <2>3. /\ cache'[s] = cache[s] \cup {i} /\ alloc_num'[s] = alloc_num[s] - 1
        /\ \A r \in Sides \ {s} : cache'[r] = cache[r] /\ alloc_num'[r] = alloc_num[r]
    BY <1>0, <2>1, <2>2 DEF BaseInv, PoolType
  <2>4. Pcs(t, "put")
    BY <2>1, GotoPcs
  <2>5. Taken(s)' = Taken(s) /\ Cardinality(Freers(s)') = Cardinality(Freers(s)) - 1
    BY <1>0, <2>1, <2>4, TakenMoves, FreersMoves
  <2>6. Out(s)' = Out(s) - 1
    BY <1>0, <2>5 DEF Out
  <2>7. Cardinality(cache'[s]) \in {Cardinality(cache[s]), Cardinality(cache[s]) + 1} /\ Cardinality(cache[s]) \in Nat
    <3>1. IsFiniteSet(cache[s]) /\ Cardinality(cache[s]) \in Nat
      BY <1>0, IdNumFacts
    <3>2. Cardinality(cache[s] \cup {i}) \in {Cardinality(cache[s]), Cardinality(cache[s]) + 1}
      BY <3>1, FS_AddElement
    <3>. QED
      BY <2>3, <3>1, <3>2
  <2>8. Counted(s)
    <3>1. IdNum \in Nat
      BY IdNumFacts
    <3>. QED
      BY <1>0, <2>3, <2>6, <2>7, <3>1 DEF Counted, CountAt
  <2>. QED
    BY <2>1, <2>3, <2>4, <2>8, CountOther
<1>5. CASE Freed(t)
  <2>1. /\ alloc_num' = [alloc_num EXCEPT ![s] = IF Result(t) = "ok" THEN @ - 1 ELSE @]
        /\ Goto(t, "put") /\ call[t].pc = "freeing" /\ UNCHANGED <<held, cache, faults>> /\ Arrived(t)
    BY <1>5 DEF Freed, At
  <2>2. /\ alloc_num'[s] = IF Result(t) = "ok" THEN alloc_num[s] - 1 ELSE alloc_num[s]
        /\ \A r \in Sides \ {s} : alloc_num'[r] = alloc_num[r]
    BY <1>0, <2>1 DEF BaseInv, PoolType
  <2>3. Result(t) # "ok" => faults' # 0
    <3>1. mail[Now(t)].cmd = "PUT" /\ SlotInv(Now(t))
      BY <2>1, SlotFacts DEF BaseInv, MailInv, CallInv, CmdAt
    <3>. QED
      BY <2>1, <3>1 DEF SlotInv, Arrived, Result
  <2>4. Pcs(t, "put")
    BY <2>1, GotoPcs
  <2>5. Taken(s)' = Taken(s) /\ Cardinality(Freers(s)') = Cardinality(Freers(s)) - 1
    BY <1>0, <2>1, <2>4, TakenMoves, FreersMoves
  <2>6. Out(s)' = Out(s) - 1
    BY <1>0, <2>5 DEF Out
  <2>7. Counted(s)
    <3>1. IdNum \in Nat /\ Cardinality(cache[s]) \in Nat
      BY <1>0, IdNumFacts
    <3>. QED
      BY <1>0, <2>1, <2>2, <2>3, <2>6, <3>1 DEF Counted, CountAt
  <2>. QED
    BY <2>1, <2>2, <2>4, <2>7, CountOther
<1>. QED
  BY <1>2, <1>3, <1>4, <1>5

(* and a flush, which adds nothing. *)
LEMMA CountFlush ==
    ASSUME BaseInv, CountInv, NEW t \in Threads, FlushBatch(t) \/ FlushEnd(t)
    PROVE  \A s \in Sides : Counted(s)
<1>. DEFINE s == SideOf(t)
<1>0. /\ s \in Sides /\ CountAt(s) /\ cache[s] \in SUBSET Ids /\ alloc_num[s] \in Int /\ HandType
      /\ Out(s) \in Nat /\ IdNum \in Nat /\ Cardinality(cache[s]) \in Nat /\ IsFiniteSet(cache[s])
  BY SideFacts, OutFinite, IdNumFacts DEF CountInv, BaseInv, PoolType
<1>1. PICK pc \in {"flushing", "put", "reply", "idle"} : Goto(t, pc)
  BY DEF FlushBatch, FlushEnd, Return
<1>2. call[t].pc \in {"flush", "flushing"} /\ UNCHANGED <<alloc_num, held>>
  BY DEF FlushBatch, FlushEnd, At
<1>3. cache'[s] \subseteq cache[s] /\ \A r \in Sides \ {s} : cache'[r] = cache[r]
  BY <1>0 DEF FlushBatch, FlushEnd, BaseInv, PoolType
<1>4. Pcs(t, pc)
  BY <1>1, GotoPcs
<1>5. Taken(s)' = Taken(s) /\ Freers(s)' = Freers(s)
  BY <1>0, <1>1, <1>2, <1>4, TakenMoves, FreersMoves
<1>6. Out(s)' = Out(s)
  BY <1>5 DEF Out
<1>7. Cardinality(cache'[s]) <= Cardinality(cache[s]) /\ Cardinality(cache'[s]) \in Nat
  BY <1>0, <1>3, FS_Subset, FS_CardinalityType
<1>8. Counted(s)
  BY <1>0, <1>2, <1>6, <1>7 DEF Counted, CountAt
<1>. QED
  BY <1>2, <1>3, <1>4, <1>8, CountOther

(* A step that hands out nothing and takes nothing back. *)
LEMMA CountQuiet ==
    ASSUME BaseInv, CountInv, UNCHANGED <<cache, alloc_num, held>>,
           \/ UNCHANGED call
           \/ \E t \in Threads : \E pc :
                  /\ Pcs(t, pc)
                  /\ call[t].pc \in {"free", "freeing"} <=> pc \in {"free", "freeing"}
    PROVE  \A s \in Sides : Counted(s)
<1>1. ASSUME NEW s \in Sides PROVE Counted(s)
  <2>1. Taken(s)' = Taken(s) /\ CountAt(s)
    BY DEF Taken, CountInv
  <2>2. Freers(s)' = Freers(s)
    <3>1. CASE UNCHANGED call
      BY <3>1 DEF Freers, At
    <3>2. ASSUME NEW t \in Threads, NEW pc, Pcs(t, pc),
                 call[t].pc \in {"free", "freeing"} <=> pc \in {"free", "freeing"}
          PROVE  Freers(s)' = Freers(s)
      BY <3>2, FreersMoves DEF BaseInv
    <3>. QED
      BY <3>1, <3>2
  <2>. QED
    BY <2>1, <2>2, CountedSame
<1>. QED
  BY <1>1

(* Every step counts what it takes. *)
LEMMA CountNext ==
    ASSUME BaseInv, CountInv, Apart, AskInv, [Next]_vars
    PROVE  \A s \in Sides : Counted(s)
<1>0. \A t \in Threads : \A pc : Goto(t, pc) => Pcs(t, pc)
  BY GotoPcs
<1>1. ASSUME NEW t \in Threads,
             \/ Alloc(t) \/ Flush(t) \/ Unregister(t) \/ AllocExhausted(t) \/ AllocBatch(t) \/ CheckAvail(t)
             \/ Synced(t) \/ Undone(t) \/ GotNothing(t)
      PROVE  \A s \in Sides : Counted(s)
  <2>1. UNCHANGED <<cache, alloc_num, held>> /\ call[t].pc \in {"idle", "alloc", "avail", "sync", "undo", "get", "take"}
    BY <1>1 DEF Alloc, Flush, Unregister, AllocExhausted, AllocBatch, CheckAvail, Synced, Undone, GotNothing, At, poolVars
  <2>2. PICK pc \in {"alloc", "flushlock", "put", "get", "avail", "sync", "take"} : Goto(t, pc)
    BY <1>1 DEF Alloc, Flush, Unregister, AllocExhausted, AllocBatch, CheckAvail, Synced, Undone, GotNothing,
                AllocFails, Get, Goto
  <2>. QED
    BY <1>0, <2>1, <2>2, CountQuiet
<1>2. ASSUME NEW t \in Threads, FlushLock(t) \/ FlushMore(t) \/ FlushReply(t) \/ Put(t)
      PROVE  \A s \in Sides : Counted(s)
  <2>1. UNCHANGED <<cache, alloc_num, held>> /\ call[t].pc \in {"flushlock", "flushing", "reply", "put"}
    BY <1>2 DEF FlushLock, FlushMore, FlushReply, Put, At, poolVars
  <2>2. PICK pc \in {"flush", "idle", "reply"} : Goto(t, pc)
    BY <1>2 DEF FlushLock, FlushMore, FlushReply, Put, Return
  <2>. QED
    BY <1>0, <2>1, <2>2, CountQuiet
<1>3. ASSUME NEW t \in Threads, FreeBatch(t) PROVE \A s \in Sides : Counted(s)
  <2>1. UNCHANGED <<cache, alloc_num, held>> /\ call[t].pc = "free" /\ Goto(t, "freeing")
    BY <1>3 DEF FreeBatch, At
  <2>. QED
    BY <1>0, <2>1, CountQuiet
<1>4. ASSUME NEW t \in Threads, NotSent(t) \/ GiveUp(t) PROVE \A s \in Sides : Counted(s)
  BY <1>4, CountQuiet DEF NotSent, GiveUp, poolVars
<1>5. ASSUME NEW m \in Slots, GetOne(m) \/ GetEnd(m) \/ PutOne(m) PROVE \A s \in Sides : Counted(s)
  BY <1>5, CountQuiet DEF GetOne, GetEnd, PutOne, poolVars
<1>6. ASSUME NEW m \in Slots, FlushAsked(m) PROVE \A s \in Sides : Counted(s)
  <2>1. UNCHANGED <<cache, alloc_num, held>> /\ call[Flusher].pc = "idle" /\ Flusher \in Threads
    BY <1>6, SideFacts DEF FlushAsked, At
  <2>2. UNCHANGED call \/ Goto(Flusher, "flushlock")
    BY <1>6 DEF FlushAsked, Get, Goto
  <2>. QED
    BY <1>0, <2>1, <2>2, CountQuiet
<1>7. CASE UNCHANGED vars
  BY <1>7, CountQuiet DEF vars, poolVars
<1>. QED
  BY <1>1, <1>2, <1>3, <1>4, <1>5, <1>6, <1>7, NextCases, CountTake, CountGot, CountFree, CountFlush

-----------------------------------------------------------------------------
(* No message asks for more than there is. *)

AskedInv == \A m \in Slots : mail[m].n <= IdNum

(* A message that asks for no more than there is. *)
LEMMA AskedSend ==
    ASSUME BaseInv, AskedInv, NEW t \in Threads, NEW msg, Send(t, msg), msg.n <= IdNum
    PROVE  AskedInv'
  BY SlotFacts DEF AskedInv, BaseInv, CallType, Send

(* No message ever asks for more. *)
LEMMA AskedStep ==
    ASSUME CoreInv, CountInv, AskedInv, [Next]_vars
    PROVE  AskedInv'
<1>0. /\ IdNum \in Nat /\ IdNum >= 1 /\ BaseInv /\ mail \in [Slots -> WeakMessage]
      /\ NoMail.n = 0 /\ Msg("GET", {}, 1).n = 1 /\ Msg("FLUSH", {}, 0).n = 0 /\ \A S : Msg("PUT", S, 0).n = 0
  BY IdNumFacts DEF CoreInv, BaseInv, CallType, NoMail, Msg
<1>1. ASSUME UNCHANGED mail PROVE AskedInv'
  BY <1>1 DEF AskedInv
<1>2. ASSUME NEW t \in Threads, Calling(t) \/ AllocCached(t) \/ AllocExhausted(t) \/ FreeCached(t) \/ FlushLock(t)
                                \/ Take(t) \/ Put(t)
      PROVE  AskedInv'
  BY <1>1, <1>2 DEF Calling, Alloc, Free, FreeNoPool, Flush, Unregister, AllocCached, AllocExhausted, FreeCached,
                    FlushLock, Take, Put
<1>3. ASSUME NEW t \in Threads, AllocBatch(t) PROVE AskedInv'
  <2>1. CASE UNCHANGED mail
    BY <1>1, <2>1
  <2>2. CASE Send(t, Msg("GET", {}, ReqNum(SideOf(t))))
    <3>1. SideOf(t) \in Sides /\ ReqNum(SideOf(t)) > 0
      BY <1>3, SideFacts DEF AllocBatch
    <3>2. alloc_num[SideOf(t)] \in Int /\ alloc_num[SideOf(t)] >= 0
      <4>1. alloc_num[SideOf(t)] \in Int /\ Out(SideOf(t)) \in Nat /\ CountAt(SideOf(t))
        BY <3>1, OutFinite DEF CoreInv, BaseInv, PoolType, CountInv
      <4>. QED
        BY <4>1 DEF CountAt
    <3>3. ReqNum(SideOf(t)) <= IdNum
      BY <1>0, <3>1, <3>2, ReqNumFits
    <3>4. Msg("GET", {}, ReqNum(SideOf(t))).n = ReqNum(SideOf(t))
      BY DEF Msg
    <3>. QED
      BY <1>0, <2>2, <3>3, <3>4, AskedSend
  <2>. QED
    BY <1>3, <2>1, <2>2 DEF AllocBatch
<1>4. ASSUME NEW t \in Threads, NEW msg, Send(t, msg), msg.n \in {0, 1} PROVE AskedInv'
  BY <1>0, <1>4, AskedSend
<1>5. ASSUME NEW t \in Threads, CheckAvail(t) \/ Synced(t) \/ GotOne(t) \/ GotBatch(t) \/ Undone(t) \/ GotNothing(t)
      PROVE  AskedInv'
  BY <1>0, <1>4, <1>5 DEF CheckAvail, Synced, GotOne, GotBatch, Undone, GotNothing
<1>6. ASSUME NEW t \in Threads, FreeBatch(t) \/ Freed(t) \/ FlushBatch(t) \/ FlushMore(t) \/ FlushEnd(t) PROVE AskedInv'
  BY <1>0, <1>4, <1>6 DEF FreeBatch, Freed, FlushBatch, FlushMore, FlushEnd
<1>7. \A m \in Slots, S \in SUBSET Ids, r \in {"ok", "err"} : Answer(m, S, r).n = 0
  BY <1>0 DEF Answer
<1>8. ASSUME NEW t \in Threads, FlushReply(t) PROVE AskedInv'
  BY <1>0, <1>7, <1>8 DEF FlushReply, AskedInv
<1>9. ASSUME NEW t \in Threads, NotSent(t) \/ GiveUp(t) PROVE AskedInv'
  <2>1. \A m \in Slots : \/ mail'[m] = mail[m] \/ mail'[m] = Answer(Now(t), {}, "err") \/ mail'[m] = mail[Now(t)]
    BY <1>0, <1>9, SlotFacts DEF NotSent, GiveUp
  <2>. QED
    BY <1>0, <1>7, <2>1, SlotFacts DEF AskedInv
<1>10. ASSUME NEW m \in Slots, NEW msg, mail' = [mail EXCEPT ![m] = msg], msg.n <= IdNum PROVE AskedInv'
  BY <1>0, <1>10 DEF AskedInv
<1>11. ASSUME NEW m \in Slots, GetOne(m) PROVE AskedInv'
  <2>1. PICK i \in avail : mail' = [mail EXCEPT ![m] =
           [cmd |-> "GET", ids |-> mail[m].ids \cup {i}, n |-> mail[m].n - 1, res |-> "busy"]]
    BY <1>0, <1>11 DEF GetOne
  <2>2. mail[m].n \in Nat /\ mail[m].n <= IdNum
    BY <1>0 DEF WeakMessage, AskedInv
  <2>3. [cmd |-> "GET", ids |-> mail[m].ids \cup {i}, n |-> mail[m].n - 1, res |-> "busy"].n <= IdNum
    BY <1>0, <2>2
  <2>. QED
    BY <1>10, <2>1, <2>3
<1>12. ASSUME NEW m \in Slots, GetEnd(m) PROVE AskedInv'
  <2>. DEFINE r == IF mail[m].ids = {} THEN "err" ELSE "ok"
  <2>1. mail' = [mail EXCEPT ![m] = Answer(m, mail[m].ids, r)] /\ mail[m].ids \in SUBSET Ids /\ r \in {"ok", "err"}
    BY <1>0, <1>12 DEF GetEnd, WeakMessage
  <2>. HIDE DEF r
  <2>2. Answer(m, mail[m].ids, r).n = 0
    BY <1>7, <2>1
  <2>. DEFINE msg == Answer(m, mail[m].ids, r)
  <2>3. mail' = [mail EXCEPT ![m] = msg] /\ msg.n <= IdNum
    BY <1>0, <2>1, <2>2
  <2>. HIDE DEF msg
  <2>. QED
    BY <1>10, <2>3
<1>13. ASSUME NEW m \in Slots, PutOne(m) \/ FlushAsked(m) PROVE AskedInv'
  <2>1. PICK S : \/ mail' = [mail EXCEPT ![m] = Answer(m, {}, "ok")]
                 \/ mail' = [mail EXCEPT ![m] = [mail[m] EXCEPT !.ids = S, !.res = "busy"]]
                 \/ mail' = [mail EXCEPT ![m] = [mail[m] EXCEPT !.res = "busy"]]
    BY <1>0, <1>13 DEF PutOne, FlushAsked
  <2>2. Answer(m, {}, "ok").n = 0 /\ mail[m].n <= IdNum /\ mail[m] \in WeakMessage
    BY <1>0, <1>7 DEF AskedInv
  <2>3. /\ [mail[m] EXCEPT !.ids = S, !.res = "busy"].n = mail[m].n
        /\ [mail[m] EXCEPT !.res = "busy"].n = mail[m].n
    BY <2>2 DEF WeakMessage
  <2>4. PICK msg : mail' = [mail EXCEPT ![m] = msg] /\ msg.n <= IdNum
    <3>1. CASE mail' = [mail EXCEPT ![m] = Answer(m, {}, "ok")]
      <4>1. Answer(m, {}, "ok").n <= IdNum
        BY <1>0, <2>2
      <4>. QED
        BY <3>1, <4>1
    <3>2. CASE mail' = [mail EXCEPT ![m] = [mail[m] EXCEPT !.ids = S, !.res = "busy"]]
      BY <2>2, <2>3, <3>2
    <3>3. CASE mail' = [mail EXCEPT ![m] = [mail[m] EXCEPT !.res = "busy"]]
      BY <2>2, <2>3, <3>3
    <3>. QED
      BY <2>1, <3>1, <3>2, <3>3
  <2>. QED
    BY <1>10, <2>4
<1>14. CASE UNCHANGED vars
  BY <1>1, <1>14 DEF vars
<1>. QED
  BY <1>2, <1>3, <1>5, <1>6, <1>8, <1>9, <1>11, <1>12, <1>13, <1>14, NextCases DEF Calling

-----------------------------------------------------------------------------
(* The invariant of TrsId, and what follows from it. *)

IdInv == CoreInv /\ AskInv /\ PlaceInv /\ CountInv /\ AskedInv

(* The invariant holds initially, *)
LEMMA InitIdInv == Init => IdInv
<1>. SUFFICES ASSUME Init PROVE IdInv
  OBVIOUS
<1>1. BaseInv
  BY InitType DEF BaseInv
<1>2. \A t \in Threads : call[t].pc = "idle" /\ held[t] = {}
  BY DEF Init
<1>3. \A s : Inside(s) = {} /\ Taken(s) = {} /\ Freers(s) = {}
  BY <1>2 DEF Inside, Taken, Freers, Mine, At
<1>4. RefInv
  <2>1. \A s \in Sides : ref[s] = 1 /\ registered[s]
    BY DEF Init
  <2>2. \A s \in Sides : Cardinality(Inside(s)) = 0
    BY <1>3, FS_EmptySet
  <2>. QED
    BY <2>1, <2>2 DEF RefInv, RefAt
<1>5. LockInv
  BY <1>2 DEF LockInv, Locked
<1>6. AskInv
  BY <1>2 DEF AskInv, AskAt, FreeAt, GetAt, RoomAt
<1>7. PlaceInv
  BY InitPlace
<1>8. CountInv
  <2>1. \A s \in Sides : alloc_num[s] = 0 /\ cache[s] = {}
    BY DEF Init
  <2>2. \A s \in Sides : Out(s) = 0 /\ Cardinality(cache[s]) = 0
    BY <1>3, <2>1, FS_EmptySet DEF Out
  <2>. QED
    BY <2>1, <2>2, IdNumFacts DEF CountInv, CountAt
<1>9. AskedInv
  BY IdNumFacts DEF Init, AskedInv, NoMail
<1>. QED
  BY <1>1, <1>4, <1>5, <1>6, <1>7, <1>8, <1>9 DEF IdInv, CoreInv

(* is kept by every step, *)
LEMMA StepIdInv == IdInv /\ [Next]_vars => IdInv'
<1>. SUFFICES ASSUME IdInv, [Next]_vars PROVE IdInv'
  OBVIOUS
<1>1. CoreInv' /\ BaseInv'
  BY BaseStep, ControlStep DEF IdInv, CoreInv
<1>2. AskInv'
  BY AskStep DEF IdInv
<1>3. GetInv
  BY DEF IdInv, AskInv, AskAt, GetInv
<1>4. PlaceInv'
  BY <1>3, PlaceStep DEF IdInv, CoreInv
<1>5. CountInv'
  <2>1. \A s \in Sides : Counted(s)
    BY CountNext DEF IdInv, CoreInv, PlaceInv
  <2>2. UNCHANGED noncache /\ (\A s \in Sides : registered'[s] => registered[s]) /\ (faults' = 0 => faults = 0)
    BY NonCacheStays, RegStays, FaultsStay DEF IdInv, CoreInv, BaseInv
  <2>3. ASSUME NEW s \in Sides PROVE CountAt(s)'
    BY <1>1, <2>1, <2>2, CountedStep DEF IdInv, CoreInv, CountInv
  <2>. QED
    BY <2>3 DEF CountInv
<1>6. AskedInv'
  BY AskedStep DEF IdInv
<1>. QED
  BY <1>1, <1>2, <1>4, <1>5, <1>6 DEF IdInv

(* and so always holds. *)
LEMMA IdAlways == Spec => []IdInv
<1>. QED
  BY InitIdInv, StepIdInv, PTL DEF Spec

(* It contains the types. *)
LEMMA TypeSplit == IdInv => TypeOK
<1>. SUFFICES ASSUME IdInv PROVE TypeOK
  OBVIOUS
<1>1. PoolType /\ HandType /\ CallType
  BY DEF IdInv, CoreInv, BaseInv
<1>2. \A s \in Sides : ref[s] \in Nat
  <2>1. ASSUME NEW s \in Sides PROVE ref[s] \in Nat
    <3>1. RefAt(s) /\ Cardinality(Inside(s)) \in Nat
      BY InsideFinite DEF IdInv, CoreInv, RefInv
    <3>. QED
      BY <3>1 DEF RefAt
  <2>. QED
    BY <2>1
<1>3. \A s \in Sides : alloc_num[s] \in Nat
  <2>1. ASSUME NEW s \in Sides PROVE alloc_num[s] \in Nat
    <3>1. CountAt(s) /\ Out(s) \in Nat /\ alloc_num[s] \in Int
      BY <1>1, OutFinite DEF IdInv, CountInv, PoolType
    <3>. QED
      BY <3>1 DEF CountAt
  <2>. QED
    BY <2>1
<1>4. ref \in [Sides -> Nat] /\ alloc_num \in [Sides -> Nat]
  BY <1>1, <1>2, <1>3 DEF PoolType
<1>5. \A m \in Slots : mail[m] \in Message
  <2>1. ASSUME NEW m \in Slots PROVE mail[m] \in Message
    <3>1. mail[m] \in WeakMessage /\ mail[m].n <= IdNum /\ IdNum \in Nat
      BY <1>1, IdNumFacts DEF CallType, IdInv, AskedInv
    <3>. QED
      BY <3>1 DEF WeakMessage, Message
  <2>. QED
    BY <2>1
<1>6. mail \in [Slots -> Message]
  BY <1>1, <1>5 DEF CallType
<1>7. registered \in [Sides -> BOOLEAN] /\ mutex \in [Sides -> Threads \cup {Nobody}] /\ noncache \in SUBSET Sides
  BY <1>1, Zenon DEF PoolType
<1>. QED
  BY <1>1, <1>4, <1>6, <1>7 DEF TypeOK, PoolType, HandType, CallType

(* alloc_num never wraps below zero, the references do not, and no GET asks   *)
(* for more ids than there are.                                               *)
THEOREM TypeCorrect == Spec => []TypeOK
<1>. QED
  BY IdAlways, TypeSplit, PTL

(* No id is ever in two places: the list of a pool, the hands of a user, a    *)
(* call of trs_id_free, a message and the id_pool of the device exclude each  *)
(* other, whatever messages fail or come late.                                *)
THEOREM HeldOnce == Spec => []OneHolder
<1>1. IdInv => OneHolder
  BY ApartHolder DEF IdInv, PlaceInv
<1>. QED
  BY <1>1, IdAlways, PTL

(* The marks of trs_pm_agent are exact, so that trs_pm_agent_put_id never     *)
(* stops at an id of a batch.                                                 *)
THEOREM MarksAgree == Spec => []MarksExact
<1>1. IdInv => MarksExact
  BY MarkExact DEF IdInv, PlaceInv
<1>. QED
  BY <1>1, IdAlways, PTL

(* Unless a message fails, every id is somewhere. *)
THEOREM NoIdLost == Spec => []NothingLost
<1>1. IdInv => NothingLost
  BY SomewhereLost DEF IdInv, PlaceInv, CoreInv
<1>. QED
  BY <1>1, IdAlways, PTL

(* alloc_num of trs_id.c is the number of ids that are allocated, and the ids *)
(* on the list of a cached type never bring it above id_num.                  *)
THEOREM AllocNumCounts == Spec => []AllocNumExact
<1>1. IdInv => AllocNumExact
  <2>. SUFFICES ASSUME IdInv, NEW s \in Sides
                PROVE  /\ registered[s] => alloc_num[s] >= Out(s) /\ (faults = 0 => alloc_num[s] = Out(s))
                       /\ Cached(s) => Cardinality(cache[s]) + alloc_num[s] <= IdNum
    BY DEF AllocNumExact, Out, Taken, Freers, Mine
  <2>. QED
    BY DEF IdInv, CountInv, CountAt
<1>. QED
  BY <1>1, IdAlways, PTL

(* The references of a pool count its users, and nobody but the thread that   *)
(* destroys it is in a pool without references.                               *)
THEOREM RefsCount == Spec => []RefsExact
<1>1. IdInv => RefsExact
  BY DEF IdInv, CoreInv, RefInv, RefAt, RefsExact, Inside
<1>. QED
  BY <1>1, IdAlways, PTL

(* Host, device and the messages between them implement one set of ids.       *)
THEOREM ActsAsIdSet == Spec => ImplementsIdSet
<1>1. IdInv /\ [Next]_vars => [IdSet!Next]_owned
  <2>. SUFFICES ASSUME IdInv, [Next]_vars PROVE IdSet!Next \/ UNCHANGED owned
    OBVIOUS
  <2>1. Apart /\ Apart' /\ MarkInv /\ BaseInv /\ GetInv
    BY StepIdInv DEF IdInv, PlaceInv, CoreInv, AskInv, AskAt, GetInv
  <2>2. OwnerInv /\ OwnerInv'
    BY <2>1, OwnerPlaces, OwnerPlacesNext
  <2>3. Effect
    BY <2>1, EffectNext
  <2>. QED
    BY <2>1, <2>2, <2>3, IdSetStep
<1>. QED
  BY <1>1, InitIdSet, IdAlways, PTL DEF Spec, ImplementsIdSet, IdSet!Spec, owned
=============================================================================
