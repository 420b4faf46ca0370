--------------------------- MODULE TrsShrIdProofs ---------------------------
(***************************************************************************)
(* Proofs about TrsShrId, for any number of processes, threads and ids,    *)
(* any bound on the opens of a node and on the slots of its white list.    *)
(***************************************************************************)
EXTENDS TrsShrId, TLAPS, FiniteSetTheorems

-----------------------------------------------------------------------------
(* Types, and what a call looks like at each place. *)

CallSet == [pc : Pcs, op : Ops, name : Names \cup {NoName},
            who : Pids \cup {NoPid}, back : Pcs]
EntrySet == [pid : Pids \cup {NoPid}, task : Nat, status : {"NORMAL", "DEL"}, ref : Nat]

ResType == res \in [Ids -> EntrySet]

NodeType ==
    /\ nodes \subseteq Names
    /\ creator \in [Names -> Pids \cup {NoPid}]
    /\ ref \in [Names -> Nat]
    /\ set_time \in [Names -> [Pids -> Nat \cup {NotListed}]]
    /\ open_num \in [Names -> [Pids -> 0 .. MaxOpen]]

ProcType ==
    /\ procs \subseteq Pids
    /\ file \in [Pids -> BOOLEAN]
    /\ proc_ref \in [Pids -> Nat]

ListType ==
    /\ start_time \in [Pids -> Nat]
    /\ created \in [Pids -> [Names -> Nat]]
    /\ opened \in [Pids -> [Names -> Nat]]

TimeType == clock \in [Pids -> Nat] /\ running \in [Pids -> BOOLEAN]

CallType == call \in [Threads -> CallSet]

OnNode == {"n_add", "list", "unlist", "get", "do", "put2", "put", "del", "res_put"}
Ends   == {"idle", "unlist", "recycle"}

(* Where a call c is tells what it works for and where it can go on. *)
Shape(c) ==
    /\ c.pc \in {"idle", "f_add"} =>
          c.op = "none" /\ c.name = NoName /\ c.who = NoPid /\ c.back = "idle"
    /\ c.pc = "belong" => c.op = "none" /\ c.name = NoName /\ c.who \in Pids /\ c.back = "idle"
    /\ c.pc = "recycle" => c.who \in Pids /\ c.back = "recycle"
    /\ c.pc \in OnNode => c.name \in Names /\ c.who \in Pids
    /\ c.pc = "n_add" => c.op = "create" /\ c.back = "idle"
    /\ c.op = "create" => c.name \in Names /\ c.name[1] = c.who
    /\ c.pc = "list" => c.op \in {"open", "create"} /\ c.back \in {"idle", "list"}
    /\ c.pc \in {"get", "do"} => /\ c.op \in {"destroy", "open", "close", "set"}
                                 /\ (c.op = "open" => c.back = "list")
                                 /\ (c.op = "set" => c.back = "idle")
                                 /\ (c.op \in {"destroy", "close"} => c.back \in Ends)
    /\ c.pc \in {"put2", "put", "del", "res_put"} =>
          c.back \in Ends /\ (c.back = "unlist" => c.op \in {"destroy", "close"})
    /\ c.pc \in {"put2", "unlist"} => c.op \in {"destroy", "close"}
    /\ c.pc = "unlist" => c.back = "unlist"

ShapeInv == \A t \in Threads : Shape(call[t])

TypeInv == ResType /\ NodeType /\ ProcType /\ ListType /\ TimeType /\ CallType

(* The types, part by part. *)
LEMMA TypeSplit == TypeInv <=> TypeOK
  BY DEF TypeInv, TypeOK, ResType, NodeType, ProcType, ListType, TimeType, CallType, CallSet, EntrySet

(* The parts of a name. *)
LEMMA NameFacts == \A n \in Names : n[1] \in Pids /\ n[2] \in Ids
  BY DEF Names

(* The marks for nobody are no pids and no names. *)
LEMMA NobodyFacts == NoPid \notin Pids /\ NoName \notin Names
  BY ShrAssumption DEF ShrAssumption, Names

-----------------------------------------------------------------------------
(* A step changes the call of one thread. *)

Moves(t, l, o, n, w, b) ==
    /\ call'[t].pc = l /\ call'[t].op = o /\ call'[t].name = n
    /\ call'[t].who = w /\ call'[t].back = b
    /\ \A s \in Threads \ {t} : call'[s] = call[s]

Leaves(t) == Moves(t, "idle", "none", NoName, NoPid, "idle")
Turns(t, l) == Moves(t, l, call[t].op, call[t].name, call[t].who, call[t].back)

(* Where a thread stands after it starts an operation, *)
LEMMA BeginMoves ==
    ASSUME CallType, NEW t \in Threads, NEW l \in Pcs, NEW o \in Ops,
           NEW n \in Names \cup {NoName}, NEW w \in Pids \cup {NoPid}, NEW b \in Pcs,
           Begin(t, l, o, n, w, b)
    PROVE  CallType' /\ Moves(t, l, o, n, w, b)
<1>1. Call(l, o, n, w, b) \in CallSet
  BY DEF Call, CallSet
<1>2. CallType'
  BY <1>1 DEF CallType, Begin
<1>3. call'[t] = Call(l, o, n, w, b) /\ \A s \in Threads \ {t} : call'[s] = call[s]
  BY DEF CallType, Begin
<1>. QED
  BY <1>2, <1>3 DEF Moves, Call

(* returns, *)
LEMMA ReturnMoves ==
    ASSUME CallType, NEW t \in Threads, Return(t)
    PROVE  CallType' /\ Leaves(t)
<1>1. Begin(t, "idle", "none", NoName, NoPid, "idle")
  BY DEF Return, Begin, Idle
<1>. QED
  BY <1>1, BeginMoves DEF Leaves, Pcs, Ops

(* goes on, *)
LEMMA GotoMoves ==
    ASSUME CallType, NEW t \in Threads, NEW l \in Pcs, Goto(t, l)
    PROVE  CallType' /\ Turns(t, l)
<1>1. call[t] \in CallSet
  BY DEF CallType
<1>2. call'[t] = [call[t] EXCEPT !.pc = l] /\ \A s \in Threads \ {t} : call'[s] = call[s]
  BY DEF CallType, Goto
<1>3. CallType'
  BY <1>1 DEF CallType, Goto, CallSet
<1>. QED
  BY <1>1, <1>2, <1>3 DEF Turns, Moves, CallSet

(* goes on or returns, *)
LEMMA ResumeMoves ==
    ASSUME CallType, NEW t \in Threads, NEW l \in Pcs, Resume(t, l)
    PROVE  /\ CallType'
           /\ IF l = "idle" THEN Leaves(t) ELSE Turns(t, l)
  BY ReturnMoves, GotoMoves DEF Resume

(* or is refused and drops its reference. *)
LEMMA RefuseMoves ==
    ASSUME CallType, NEW t \in Threads, Refuse(t)
    PROVE  /\ CallType'
           /\ Moves(t, "put", call[t].op, call[t].name, call[t].who, Failed(t))
<1>1. call[t] \in CallSet /\ Failed(t) \in Pcs
  BY DEF CallType, Failed, Pcs
<1>2. /\ call'[t] = [call[t] EXCEPT !.pc = "put", !.back = Failed(t)]
      /\ \A s \in Threads \ {t} : call'[s] = call[s]
  BY DEF CallType, Refuse
<1>3. CallType'
  BY <1>1 DEF CallType, Refuse, CallSet, Pcs
<1>. QED
  BY <1>1, <1>2, <1>3 DEF Moves, CallSet


-----------------------------------------------------------------------------
(* What each action does to the call of its thread. *)

At(t, l) == call[t].pc = l /\ call[t].name \in Names /\ call[t].who \in Pids
Free(t)  == /\ call[t].pc = "idle" /\ call[t].op = "none" /\ call[t].name = NoName
            /\ call[t].who = NoPid /\ call[t].back = "idle"

(* An idle thread works for nobody. *)
LEMMA IdleIsFree == \A t \in Threads : call[t] = Idle => Free(t)
  BY DEF Idle, Call, Free

(* Where a call turns to after an operation on a node, and with what. *)
GoesOn(t, l) == IF l = "idle" THEN Leaves(t) ELSE Turns(t, l)

(* Where each action puts its thread: entering an operation, *)
LEMMA EnterMoves ==
    ASSUME CallType, NEW t \in Threads
    PROVE  /\ OpenWait(t) => CallType' /\ Free(t) /\ Turns(t, "f_add")
           /\ \A i \in Ids : Create(t, i) =>
                 CallType' /\ Free(t) /\ Moves(t, "n_add", "create", <<PidOf[t], i>>, PidOf[t], "idle")
           /\ \A o \in {"destroy", "open", "close", "set"}, n \in Names, b \in {"idle", "list", "unlist"} :
                 Ioctl(t, o, n, b) => CallType' /\ Free(t) /\ Moves(t, "get", o, n, PidOf[t], b)
           /\ \A p \in Pids : Belong(t, p) =>
                 CallType' /\ Free(t) /\ Moves(t, "belong", "none", NoName, p, "idle")
           /\ \A p \in Pids : FileRelease(t, p) =>
                 /\ CallType' /\ Free(t)
                 /\ IF proc_ref[p] = 1 THEN Moves(t, "recycle", "none", NoName, p, "recycle") ELSE Leaves(t)
<1>0. PidOf[t] \in Pids
  BY ShrAssumption DEF ShrAssumption
<1>1. OpenWait(t) => CallType' /\ Free(t) /\ Turns(t, "f_add")
  BY GotoMoves, IdleIsFree DEF OpenWait, Pcs
<1>2. ASSUME NEW i \in Ids, Create(t, i)
      PROVE  CallType' /\ Free(t) /\ Moves(t, "n_add", "create", <<PidOf[t], i>>, PidOf[t], "idle")
  <2>1. <<PidOf[t], i>> \in Names
    BY <1>0 DEF Names
  <2>2. Begin(t, "n_add", "create", <<PidOf[t], i>>, PidOf[t], "idle") /\ Free(t)
    BY <1>2, IdleIsFree DEF Create, CanCall
  <2>. QED
    BY <2>1, <2>2, <1>0, BeginMoves DEF Pcs, Ops
<1>3. ASSUME NEW o \in {"destroy", "open", "close", "set"}, NEW n \in Names,
             NEW b \in {"idle", "list", "unlist"}, Ioctl(t, o, n, b)
      PROVE  CallType' /\ Free(t) /\ Moves(t, "get", o, n, PidOf[t], b)
  <2>1. Begin(t, "get", o, n, PidOf[t], b) /\ Free(t)
    BY <1>3, IdleIsFree DEF Ioctl, CanCall
  <2>2. "get" \in Pcs /\ o \in Ops /\ b \in Pcs
    BY DEF Pcs, Ops
  <2>. QED
    BY <2>1, <2>2, <1>0, BeginMoves
<1>4. ASSUME NEW p \in Pids, Belong(t, p)
      PROVE  CallType' /\ Free(t) /\ Moves(t, "belong", "none", NoName, p, "idle")
  <2>1. Begin(t, "belong", "none", NoName, p, "idle") /\ Free(t)
    BY <1>4, IdleIsFree DEF Belong
  <2>. QED
    BY <2>1, BeginMoves DEF Pcs, Ops
<1>5. ASSUME NEW p \in Pids, FileRelease(t, p)
      PROVE  /\ CallType' /\ Free(t)
             /\ IF proc_ref[p] = 1 THEN Moves(t, "recycle", "none", NoName, p, "recycle") ELSE Leaves(t)
  <2>1. /\ Free(t)
        /\ IF proc_ref[p] = 1 THEN Begin(t, "recycle", "none", NoName, p, "recycle") ELSE Return(t)
    BY <1>5, IdleIsFree DEF FileRelease, ProcPut
  <2>2. Return(t) => CallType' /\ Leaves(t)
    BY ReturnMoves
  <2>3. Begin(t, "recycle", "none", NoName, p, "recycle")
           => CallType' /\ Moves(t, "recycle", "none", NoName, p, "recycle")
    BY BeginMoves DEF Pcs, Ops
  <2>. QED
    BY <2>1, <2>2, <2>3
<1>. QED
  BY <1>1, <1>2, <1>3, <1>4, <1>5

(* working on tables and lists, *)
LEMMA ListMoves ==
    ASSUME CallType, ShapeInv, NEW t \in Threads
    PROVE  /\ OpenAdd(t) => CallType' /\ call[t].pc = "f_add" /\ call[t].who = NoPid /\ Leaves(t)
           /\ NodeAdd(t) => /\ CallType' /\ At(t, "n_add")
                            /\ IF call[t].name \in nodes THEN Turns(t, "res_put") ELSE Turns(t, "list")
           /\ AddToProc(t) =>
                 /\ CallType' /\ At(t, "list")
                 /\ \/ Leaves(t)
                    \/ Moves(t, "get", IF call[t].op = "open" THEN "close" ELSE "destroy",
                             call[t].name, call[t].who, "idle")
           /\ DelFromProc(t) => CallType' /\ At(t, "unlist") /\ Leaves(t)
<1>. USE DEF ShapeInv, Shape, OnNode, At
<1>1. OpenAdd(t) => CallType' /\ call[t].pc = "f_add" /\ call[t].who = NoPid /\ Leaves(t)
  BY ReturnMoves DEF OpenAdd
<1>2. ASSUME NodeAdd(t)
      PROVE  /\ CallType' /\ At(t, "n_add")
             /\ IF call[t].name \in nodes THEN Turns(t, "res_put") ELSE Turns(t, "list")
  <2>1. At(t, "n_add") /\ IF call[t].name \in nodes THEN Goto(t, "res_put") ELSE Goto(t, "list")
    BY <1>2 DEF NodeAdd
  <2>2. "res_put" \in Pcs /\ "list" \in Pcs
    BY DEF Pcs
  <2>. QED
    BY <2>1, <2>2, GotoMoves
<1>3. ASSUME AddToProc(t)
      PROVE  /\ CallType' /\ At(t, "list")
             /\ \/ Leaves(t)
                \/ Moves(t, "get", IF call[t].op = "open" THEN "close" ELSE "destroy",
                         call[t].name, call[t].who, "idle")
  <2>1. /\ At(t, "list")
        /\ \/ Return(t)
           \/ Begin(t, "get", IF call[t].op = "open" THEN "close" ELSE "destroy",
                    call[t].name, call[t].who, "idle")
    BY <1>3 DEF AddToProc
  <2>2. (IF call[t].op = "open" THEN "close" ELSE "destroy") \in Ops /\ "get" \in Pcs /\ "idle" \in Pcs
    BY DEF Ops, Pcs
  <2>. QED
    BY <2>1, <2>2, ReturnMoves, BeginMoves
<1>4. DelFromProc(t) => CallType' /\ At(t, "unlist") /\ Leaves(t)
  BY ReturnMoves DEF DelFromProc
<1>. QED
  BY <1>1, <1>2, <1>3, <1>4

(* working on a node, *)
LEMMA NodeMoves ==
    ASSUME CallType, ShapeInv, NEW t \in Threads
    PROVE  /\ NodeGet(t) =>
                 /\ CallType' /\ At(t, "get")
                 /\ IF call[t].name \in nodes /\ ref[call[t].name] > 0 THEN Turns(t, "do")
                    ELSE GoesOn(t, IF call[t].op = "destroy" THEN call[t].back ELSE Failed(t))
           /\ NodeDestroy(t) =>
                 /\ CallType' /\ At(t, "do") /\ call[t].op = "destroy"
                 /\ IF creator[call[t].name] = call[t].who THEN Turns(t, "put2")
                    ELSE Moves(t, "put", call[t].op, call[t].name, call[t].who, Failed(t))
           /\ NodeOpen(t) =>
                 /\ CallType' /\ At(t, "do") /\ call[t].op = "open"
                 /\ IF MayOpen(call[t].name, call[t].who) THEN Turns(t, "list")
                    ELSE Moves(t, "put", call[t].op, call[t].name, call[t].who, Failed(t))
           /\ NodeSetPid(t) => CallType' /\ At(t, "do") /\ call[t].op = "set" /\ Turns(t, "put")
<1>. USE DEF ShapeInv, Shape, OnNode, At
<1>0. /\ "do" \in Pcs /\ "put2" \in Pcs /\ "list" \in Pcs /\ "put" \in Pcs
      /\ Failed(t) \in Pcs /\ call[t].back \in Pcs
  BY DEF Pcs, Failed, CallType, CallSet
<1>1. ASSUME NodeGet(t)
      PROVE  /\ CallType' /\ At(t, "get")
             /\ IF call[t].name \in nodes /\ ref[call[t].name] > 0 THEN Turns(t, "do")
                ELSE GoesOn(t, IF call[t].op = "destroy" THEN call[t].back ELSE Failed(t))
  <2>1. /\ At(t, "get")
        /\ IF call[t].name \in nodes /\ ref[call[t].name] > 0 THEN Goto(t, "do")
           ELSE Resume(t, IF call[t].op = "destroy" THEN call[t].back ELSE Failed(t))
    BY <1>1 DEF NodeGet
  <2>2. (IF call[t].op = "destroy" THEN call[t].back ELSE Failed(t)) \in Pcs
    BY <1>0
  <2>. QED
    BY <2>1, <2>2, <1>0, GotoMoves, ResumeMoves DEF GoesOn
<1>2. ASSUME NodeDestroy(t)
      PROVE  /\ CallType' /\ At(t, "do") /\ call[t].op = "destroy"
             /\ IF creator[call[t].name] = call[t].who THEN Turns(t, "put2")
                ELSE Moves(t, "put", call[t].op, call[t].name, call[t].who, Failed(t))
  <2>1. /\ At(t, "do") /\ call[t].op = "destroy"
        /\ IF creator[call[t].name] = call[t].who THEN Goto(t, "put2") ELSE Refuse(t)
    BY <1>2 DEF NodeDestroy
  <2>. QED
    BY <2>1, <1>0, GotoMoves, RefuseMoves
<1>3. ASSUME NodeOpen(t)
      PROVE  /\ CallType' /\ At(t, "do") /\ call[t].op = "open"
             /\ IF MayOpen(call[t].name, call[t].who) THEN Turns(t, "list")
                ELSE Moves(t, "put", call[t].op, call[t].name, call[t].who, Failed(t))
  <2>1. /\ At(t, "do") /\ call[t].op = "open"
        /\ IF MayOpen(call[t].name, call[t].who) THEN Goto(t, "list") ELSE Refuse(t)
    BY <1>3 DEF NodeOpen
  <2>. QED
    BY <2>1, <1>0, GotoMoves, RefuseMoves
<1>4. NodeSetPid(t) => CallType' /\ At(t, "do") /\ call[t].op = "set" /\ Turns(t, "put")
  BY <1>0, GotoMoves DEF NodeSetPid
<1>. QED
  BY <1>1, <1>2, <1>3, <1>4

(* dropping references, *)
LEMMA PutMoves ==
    ASSUME CallType, ShapeInv, NEW t \in Threads
    PROVE  /\ NodeClose(t) =>
                 /\ CallType' /\ At(t, "do") /\ call[t].op = "close"
                 /\ IF open_num[call[t].name][call[t].who] > 0 THEN Turns(t, "put2")
                    ELSE Moves(t, "put", call[t].op, call[t].name, call[t].who, Failed(t))
           /\ NodePut2(t) => CallType' /\ At(t, "put2") /\ Turns(t, "put")
           /\ NodePut(t) => /\ CallType' /\ At(t, "put")
                            /\ IF ref[call[t].name] = 1 THEN Turns(t, "del") ELSE GoesOn(t, call[t].back)
           /\ NodeDel(t) => CallType' /\ At(t, "del") /\ Turns(t, "res_put")
           /\ ResPut(t) => CallType' /\ At(t, "res_put") /\ GoesOn(t, call[t].back)
<1>. USE DEF ShapeInv, Shape, OnNode, At
<1>0. /\ "put2" \in Pcs /\ "put" \in Pcs /\ "del" \in Pcs /\ "res_put" \in Pcs
      /\ call[t].back \in Pcs
  BY DEF Pcs, CallType, CallSet
<1>1. ASSUME NodeClose(t)
      PROVE  /\ CallType' /\ At(t, "do") /\ call[t].op = "close"
             /\ IF open_num[call[t].name][call[t].who] > 0 THEN Turns(t, "put2")
                ELSE Moves(t, "put", call[t].op, call[t].name, call[t].who, Failed(t))
  <2>1. /\ At(t, "do") /\ call[t].op = "close"
        /\ IF open_num[call[t].name][call[t].who] > 0 THEN Goto(t, "put2") ELSE Refuse(t)
    BY <1>1 DEF NodeClose
  <2>. QED
    BY <2>1, <1>0, GotoMoves, RefuseMoves
<1>2. NodePut2(t) => CallType' /\ At(t, "put2") /\ Turns(t, "put")
  BY <1>0, GotoMoves DEF NodePut2
<1>3. ASSUME NodePut(t)
      PROVE  /\ CallType' /\ At(t, "put")
             /\ IF ref[call[t].name] = 1 THEN Turns(t, "del") ELSE GoesOn(t, call[t].back)
  <2>1. /\ At(t, "put")
        /\ IF ref[call[t].name] = 1 THEN Goto(t, "del") ELSE Resume(t, call[t].back)
    BY <1>3 DEF NodePut
  <2>. QED
    BY <2>1, <1>0, GotoMoves, ResumeMoves DEF GoesOn
<1>4. NodeDel(t) => CallType' /\ At(t, "del") /\ Turns(t, "res_put")
  BY <1>0, GotoMoves DEF NodeDel
<1>5. ResPut(t) => CallType' /\ At(t, "res_put") /\ GoesOn(t, call[t].back)
  BY <1>0, ResumeMoves DEF ResPut, GoesOn
<1>. QED
  BY <1>1, <1>2, <1>3, <1>4, <1>5

(* and recycling a context. *)
LEMMA RecycleMoves ==
    ASSUME CallType, ShapeInv, NEW t \in Threads
    PROVE  /\ BelongPut(t) =>
                 /\ CallType' /\ call[t].pc = "belong" /\ call[t].who \in Pids
                 /\ IF proc_ref[call[t].who] = 1
                    THEN Moves(t, "recycle", "none", NoName, call[t].who, "recycle") ELSE Leaves(t)
           /\ \A n \in Names :
                 RecycleOpened(t, n) =>
                    /\ CallType' /\ call[t].pc = "recycle" /\ call[t].who \in Pids
                    /\ Moves(t, "get", "close", n, call[t].who, "recycle")
           /\ \A n \in Names :
                 RecycleCreated(t, n) =>
                    /\ CallType' /\ call[t].pc = "recycle" /\ call[t].who \in Pids
                    /\ Moves(t, "get", "destroy", n, call[t].who, "recycle")
           /\ RecycleDone(t) =>
                 CallType' /\ call[t].pc = "recycle" /\ call[t].who \in Pids /\ Leaves(t)
<1>. USE DEF ShapeInv, Shape
<1>0. /\ "get" \in Pcs /\ "recycle" \in Pcs /\ "none" \in Ops /\ "close" \in Ops /\ "destroy" \in Ops
  BY DEF Pcs, Ops
<1>1. ASSUME BelongPut(t)
      PROVE  /\ CallType' /\ call[t].pc = "belong" /\ call[t].who \in Pids
             /\ IF proc_ref[call[t].who] = 1
                THEN Moves(t, "recycle", "none", NoName, call[t].who, "recycle") ELSE Leaves(t)
  <2>1. /\ call[t].pc = "belong" /\ call[t].who \in Pids
        /\ IF proc_ref[call[t].who] = 1
           THEN Begin(t, "recycle", "none", NoName, call[t].who, "recycle") ELSE Return(t)
    BY <1>1 DEF BelongPut, ProcPut
  <2>2. Return(t) => CallType' /\ Leaves(t)
    BY ReturnMoves
  <2>3. Begin(t, "recycle", "none", NoName, call[t].who, "recycle")
           => CallType' /\ Moves(t, "recycle", "none", NoName, call[t].who, "recycle")
    BY <1>0, <2>1, BeginMoves
  <2>. QED
    BY <2>1, <2>2, <2>3
<1>2. ASSUME NEW n \in Names, RecycleOpened(t, n)
      PROVE  /\ CallType' /\ call[t].pc = "recycle" /\ call[t].who \in Pids
             /\ Moves(t, "get", "close", n, call[t].who, "recycle")
  <2>1. /\ call[t].pc = "recycle" /\ call[t].who \in Pids
        /\ Begin(t, "get", "close", n, call[t].who, "recycle")
    BY <1>2 DEF RecycleOpened
  <2>. QED
    BY <1>0, <2>1, BeginMoves
<1>3. ASSUME NEW n \in Names, RecycleCreated(t, n)
      PROVE  /\ CallType' /\ call[t].pc = "recycle" /\ call[t].who \in Pids
             /\ Moves(t, "get", "destroy", n, call[t].who, "recycle")
  <2>1. /\ call[t].pc = "recycle" /\ call[t].who \in Pids
        /\ Begin(t, "get", "destroy", n, call[t].who, "recycle")
    BY <1>3 DEF RecycleCreated
  <2>. QED
    BY <1>0, <2>1, BeginMoves
<1>4. RecycleDone(t) => CallType' /\ call[t].pc = "recycle" /\ call[t].who \in Pids /\ Leaves(t)
  BY ReturnMoves DEF RecycleDone
<1>. QED
  BY <1>1, <1>2, <1>3, <1>4


-----------------------------------------------------------------------------
(* The disjuncts of Next. *)

(* Processes and their ids: no call moves. *)
Outside ==
    \/ \E p \in Pids : ProcStart(p) \/ ProcExit(p) \/ \E i \in Ids : IdAlloc(p, i)
    \/ \E i \in Ids : IdFree(i)

(* Calls on a node by name. *)
Asking(t) ==
    \E n \in Names : \/ Ioctl(t, "destroy", n, "unlist") \/ Ioctl(t, "close", n, "unlist")
                     \/ Ioctl(t, "open", n, "list") \/ Ioctl(t, "set", n, "idle")

(* The steps, sorted by what they touch. *)
LEMMA NextCases ==
    ASSUME [Next]_vars
    PROVE  \/ Outside \/ UNCHANGED vars
           \/ \E t \in Threads : OpenWait(t) \/ OpenAdd(t) \/ Asking(t)
           \/ \E t \in Threads, i \in Ids : Create(t, i)
           \/ \E t \in Threads, p \in Pids : FileRelease(t, p) \/ Belong(t, p)
           \/ \E t \in Threads : NodeAdd(t) \/ AddToProc(t) \/ DelFromProc(t)
           \/ \E t \in Threads : NodeGet(t) \/ NodeDestroy(t) \/ NodeOpen(t) \/ NodeClose(t) \/ NodeSetPid(t)
           \/ \E t \in Threads : NodePut2(t) \/ NodePut(t) \/ NodeDel(t) \/ ResPut(t)
           \/ \E t \in Threads : BelongPut(t) \/ RecycleDone(t)
           \/ \E t \in Threads, n \in Names : RecycleOpened(t, n) \/ RecycleCreated(t, n)
  BY DEF Next, Enter, Step, Outside, Asking

(* Processes and the owner of the id touch no node and no context. *)
LEMMA OutsideFrame == Outside \/ UNCHANGED vars => UNCHANGED <<nodeVars, procVars, call>>
  BY DEF Outside, ProcStart, ProcExit, IdAlloc, IdFree, vars

(* One thread in a proper state and the others unmoved. *)
LEMMA ShapeMove ==
    ASSUME ShapeInv, NEW t \in Threads, \A s \in Threads \ {t} : call'[s] = call[s], Shape(call'[t])
    PROVE  ShapeInv'
<1>. SUFFICES ASSUME NEW s \in Threads PROVE Shape(call'[s])
  BY DEF ShapeInv, Shape
<1>. QED
  BY DEF ShapeInv

(* A call always looks as its place says. *)
LEMMA ShapeStep == TypeInv /\ ShapeInv /\ [Next]_vars => CallType' /\ ShapeInv'
<1>. SUFFICES ASSUME TypeInv, ShapeInv, [Next]_vars PROVE CallType' /\ ShapeInv'
  OBVIOUS
<1>0. CallType /\ \A t \in Threads : Shape(call[t]) /\ PidOf[t] \in Pids /\ Failed(t) \in {"idle", "recycle"}
  BY ShrAssumption DEF TypeInv, ShapeInv, ShrAssumption, Failed
<1>1. CASE Outside \/ UNCHANGED vars
  <2>1. UNCHANGED call
    BY <1>1, OutsideFrame
  <2>. QED
    BY <2>1, <1>0 DEF CallType, ShapeInv, Shape
<1>2. ASSUME NEW t \in Threads, OpenWait(t) \/ OpenAdd(t)
      PROVE  CallType' /\ ShapeInv'
  <2>1. CallType' /\ (Leaves(t) \/ (Free(t) /\ Turns(t, "f_add")))
    BY <1>0, <1>2, EnterMoves, ListMoves
  <2>2. Shape(call'[t]) /\ \A s \in Threads \ {t} : call'[s] = call[s]
    BY <2>1 DEF Leaves, Free, Turns, Moves, Shape, OnNode
  <2>. QED
    BY <2>1, <2>2, ShapeMove
<1>3. ASSUME NEW t \in Threads, Asking(t)
      PROVE  CallType' /\ ShapeInv'
  <2>1. PICK n \in Names : \/ Ioctl(t, "destroy", n, "unlist") \/ Ioctl(t, "close", n, "unlist")
                           \/ Ioctl(t, "open", n, "list") \/ Ioctl(t, "set", n, "idle")
    BY <1>3 DEF Asking
  <2>2. /\ CallType'
        /\ \/ Moves(t, "get", "destroy", n, PidOf[t], "unlist") \/ Moves(t, "get", "close", n, PidOf[t], "unlist")
           \/ Moves(t, "get", "open", n, PidOf[t], "list") \/ Moves(t, "get", "set", n, PidOf[t], "idle")
    BY <1>0, <2>1, EnterMoves
  <2>3. Shape(call'[t]) /\ \A s \in Threads \ {t} : call'[s] = call[s]
    BY <2>2, <1>0 DEF Moves, Shape, OnNode, Ends
  <2>. QED
    BY <2>2, <2>3, ShapeMove
<1>4. ASSUME NEW t \in Threads, NEW i \in Ids, Create(t, i)
      PROVE  CallType' /\ ShapeInv'
  <2>1. CallType' /\ Moves(t, "n_add", "create", <<PidOf[t], i>>, PidOf[t], "idle")
    BY <1>0, <1>4, EnterMoves
  <2>2. <<PidOf[t], i>> \in Names /\ <<PidOf[t], i>>[1] = PidOf[t]
    BY <1>0 DEF Names
  <2>3. Shape(call'[t]) /\ \A s \in Threads \ {t} : call'[s] = call[s]
    BY <2>1, <2>2, <1>0 DEF Moves, Shape, OnNode, Ends
  <2>. QED
    BY <2>1, <2>3, ShapeMove
<1>5. ASSUME NEW t \in Threads, NEW p \in Pids, FileRelease(t, p) \/ Belong(t, p)
      PROVE  CallType' /\ ShapeInv'
  <2>1. CallType' /\ \/ Moves(t, "recycle", "none", NoName, p, "recycle")
                     \/ Leaves(t)
                     \/ Moves(t, "belong", "none", NoName, p, "idle")
    BY <1>0, <1>5, EnterMoves
  <2>2. Shape(call'[t]) /\ \A s \in Threads \ {t} : call'[s] = call[s]
    BY <2>1 DEF Leaves, Moves, Shape, OnNode, Ends
  <2>. QED
    BY <2>1, <2>2, ShapeMove
<1>6. ASSUME NEW t \in Threads, NodeAdd(t) \/ AddToProc(t) \/ DelFromProc(t)
      PROVE  CallType' /\ ShapeInv'
  <2>1. CallType' /\ \/ At(t, "n_add") /\ (Turns(t, "res_put") \/ Turns(t, "list"))
                     \/ Leaves(t)
                     \/ At(t, "list") /\ Moves(t, "get", IF call[t].op = "open" THEN "close" ELSE "destroy",
                                               call[t].name, call[t].who, "idle")
    BY <1>0, <1>6, ListMoves
  <2>2. Shape(call'[t]) /\ \A s \in Threads \ {t} : call'[s] = call[s]
    BY <2>1, <1>0 DEF Leaves, Turns, At, Moves, Shape, OnNode, Ends
  <2>. QED
    BY <2>1, <2>2, ShapeMove
<1>7. ASSUME NEW t \in Threads, NodeGet(t) \/ NodeDestroy(t) \/ NodeOpen(t) \/ NodeClose(t) \/ NodeSetPid(t)
      PROVE  CallType' /\ ShapeInv'
  <2>1. CallType' /\ \/ /\ At(t, "get")
                        /\ \/ Turns(t, "do")
                           \/ GoesOn(t, IF call[t].op = "destroy" THEN call[t].back ELSE Failed(t))
                     \/ /\ At(t, "do")
                        /\ \/ call[t].op \in {"destroy", "close"} /\ Turns(t, "put2")
                           \/ call[t].op = "open" /\ Turns(t, "list")
                           \/ call[t].op = "set" /\ Turns(t, "put")
                           \/ Moves(t, "put", call[t].op, call[t].name, call[t].who, Failed(t))
    BY <1>0, <1>7, NodeMoves, PutMoves
  <2>2. Shape(call'[t]) /\ \A s \in Threads \ {t} : call'[s] = call[s]
    <3>1. CASE At(t, "get")
      <4>1. \/ Turns(t, "do")
            \/ GoesOn(t, IF call[t].op = "destroy" THEN call[t].back ELSE Failed(t))
        BY <2>1, <3>1 DEF At
      <4>. QED
        BY <4>1, <3>1, <1>0 DEF GoesOn, Leaves, Turns, At, Moves, Shape, OnNode, Ends, Failed
    <3>2. CASE At(t, "do")
      <4>1. \/ call[t].op \in {"destroy", "close"} /\ Turns(t, "put2")
            \/ call[t].op = "open" /\ Turns(t, "list")
            \/ call[t].op = "set" /\ Turns(t, "put")
            \/ Moves(t, "put", call[t].op, call[t].name, call[t].who, Failed(t))
        BY <2>1, <3>2 DEF At
      <4>. QED
        BY <4>1, <3>2, <1>0 DEF Turns, At, Moves, Shape, OnNode, Ends
    <3>. QED
      BY <2>1, <3>1, <3>2
  <2>. QED
    BY <2>1, <2>2, ShapeMove
<1>8. ASSUME NEW t \in Threads, NodePut2(t) \/ NodePut(t) \/ NodeDel(t) \/ ResPut(t)
      PROVE  CallType' /\ ShapeInv'
  <2>1. CallType' /\ \/ At(t, "put2") /\ Turns(t, "put")
                     \/ At(t, "put") /\ (Turns(t, "del") \/ GoesOn(t, call[t].back))
                     \/ At(t, "del") /\ Turns(t, "res_put")
                     \/ At(t, "res_put") /\ GoesOn(t, call[t].back)
    BY <1>0, <1>8, PutMoves
  <2>2. Shape(call'[t]) /\ \A s \in Threads \ {t} : call'[s] = call[s]
    BY <2>1, <1>0 DEF GoesOn, Leaves, Turns, At, Moves, Shape, OnNode, Ends
  <2>. QED
    BY <2>1, <2>2, ShapeMove
<1>9. ASSUME NEW t \in Threads, BelongPut(t) \/ RecycleDone(t)
      PROVE  CallType' /\ ShapeInv'
  <2>1. CallType' /\ (Leaves(t) \/ (call[t].who \in Pids /\ Moves(t, "recycle", "none", NoName, call[t].who, "recycle")))
    BY <1>0, <1>9, RecycleMoves
  <2>2. Shape(call'[t]) /\ \A s \in Threads \ {t} : call'[s] = call[s]
    BY <2>1 DEF Leaves, Moves, Shape, OnNode, Ends
  <2>. QED
    BY <2>1, <2>2, ShapeMove
<1>10. ASSUME NEW t \in Threads, NEW n \in Names, RecycleOpened(t, n) \/ RecycleCreated(t, n)
       PROVE  CallType' /\ ShapeInv'
  <2>1. /\ CallType' /\ call[t].who \in Pids
        /\ Moves(t, "get", "close", n, call[t].who, "recycle") \/ Moves(t, "get", "destroy", n, call[t].who, "recycle")
    BY <1>0, <1>10, RecycleMoves
  <2>2. Shape(call'[t]) /\ \A s \in Threads \ {t} : call'[s] = call[s]
    BY <2>1 DEF Moves, Shape, OnNode, Ends
  <2>. QED
    BY <2>1, <2>2, ShapeMove
<1>. QED
  BY <1>1, <1>2, <1>3, <1>4, <1>5, <1>6, <1>7, <1>8, <1>9, <1>10, NextCases


-----------------------------------------------------------------------------
(* Contexts.  A thread inside an ioctl has the file open and is of the process *)
(* it works for; a thread that recycles a context has taken its references to  *)
(* zero and is the only one at work on it.                                     *)

Asks(t)    == call[t].who # NoPid /\ call[t].pc # "belong" /\ call[t].back # "recycle"
Belongs(p) == {t \in Threads : call[t].who = p /\ call[t].pc = "belong"}

WhoInv  == \A t \in Threads : call[t].who # NoPid => call[t].who \in procs
KrefInv == \A p \in procs : proc_ref[p] = (IF file[p] THEN 1 ELSE 0) + Cardinality(Belongs(p))
SoleInv == \A s, t \in Threads : call[s].back = "recycle" /\ call[t].who = call[s].who => s = t
LastInv == \A t \in Threads : call[t].back = "recycle" => call[t].who \in Pids /\ proc_ref[call[t].who] = 0
AskInv  == \A t \in Threads : Asks(t) => file[call[t].who] /\ call[t].who = PidOf[t]

CtxInv == WhoInv /\ KrefInv /\ SoleInv /\ LastInv /\ AskInv

(* Who works for a context holds it. *)
LEMMA CtxImplies == CtxInv => ContextHeld
  BY DEF CtxInv, ContextHeld, WhoInv, KrefInv, SoleInv, Belongs

(* The threads that hold a context can be counted. *)
LEMMA BelongsFinite == \A p : IsFiniteSet(Belongs(p)) /\ Cardinality(Belongs(p)) \in Nat
<1>. SUFFICES ASSUME NEW p PROVE IsFiniteSet(Belongs(p)) /\ Cardinality(Belongs(p)) \in Nat
  OBVIOUS
<1>1. Belongs(p) \in SUBSET Threads /\ IsFiniteSet(Threads)
  BY ShrAssumption DEF Belongs, ShrAssumption
<1>2. IsFiniteSet(Belongs(p))
  BY <1>1, FS_Subset
<1>. QED
  BY <1>2, FS_CardinalityType

(* A thread that goes on for the same context, or leaves it, without taking   *)
(* or dropping a reference to it.                                             *)
Quiet(t) ==
    /\ call[t].pc # "belong" /\ call'[t].pc # "belong"
    /\ \/ call'[t].who = NoPid /\ call'[t].back # "recycle"
       \/ call'[t].who = call[t].who /\ (call'[t].back = "recycle" <=> call[t].back = "recycle")
    /\ \A s \in Threads \ {t} : call'[s] = call[s]

(* Such a step keeps the contexts in order. *)
LEMMA CtxQuiet ==
    ASSUME CtxInv, NEW t \in Threads, Quiet(t), UNCHANGED <<procs, file, proc_ref>>, procs \subseteq Pids
    PROVE  CtxInv'
<1>1. \A p \in Pids : Belongs(p)' = Belongs(p)
  BY NobodyFacts DEF Belongs, Quiet
<1>2. KrefInv'
  BY <1>1 DEF CtxInv, KrefInv
<1>3. WhoInv' /\ SoleInv' /\ LastInv'
  BY NobodyFacts DEF CtxInv, WhoInv, SoleInv, LastInv, Quiet
<1>4. AskInv'
  BY DEF CtxInv, AskInv, Asks, Quiet
<1>. QED
  BY <1>2, <1>3, <1>4 DEF CtxInv

(* A thread enters an ioctl. *)
LEMMA CtxAsk ==
    ASSUME CtxInv, ShapeInv, NEW t \in Threads, Free(t), CanCall(t), PidOf[t] \in Pids,
           call'[t].who = PidOf[t], call'[t].pc # "belong", call'[t].back # "recycle",
           \A s \in Threads \ {t} : call'[s] = call[s],
           UNCHANGED <<procs, file, proc_ref>>, procs \subseteq Pids
    PROVE  CtxInv'
<1>1. \A p \in Pids : Belongs(p)' = Belongs(p)
  BY NobodyFacts DEF Belongs, Free
<1>2. KrefInv'
  BY <1>1 DEF CtxInv, KrefInv
<1>3. WhoInv'
  BY DEF CtxInv, WhoInv, CanCall
<1>4. LastInv'
  BY DEF CtxInv, LastInv
<1>5. AskInv'
  BY DEF CtxInv, AskInv, Asks, CanCall
<1>6. proc_ref[PidOf[t]] # 0
  BY BelongsFinite DEF CtxInv, KrefInv, CanCall
<1>7. SoleInv'
  BY <1>6 DEF CtxInv, SoleInv, LastInv
<1>. QED
  BY <1>2, <1>3, <1>4, <1>5, <1>7 DEF CtxInv

(* The file of a context is closed by a thread outside of it. *)
LEMMA CtxRelease ==
    ASSUME TypeInv, ShapeInv, CtxInv, NEW t \in Threads, NEW p \in Pids, FileRelease(t, p)
    PROVE  CtxInv' /\ proc_ref' \in [Pids -> Nat] /\ file' \in [Pids -> BOOLEAN]
<1>1. /\ Free(t) /\ p \in procs /\ file[p] /\ ~InUse(p)
      /\ IF proc_ref[p] = 1 THEN Moves(t, "recycle", "none", NoName, p, "recycle") ELSE Leaves(t)
      /\ procs' = procs
  BY EnterMoves DEF TypeInv, FileRelease
<1>2. /\ proc_ref' = [proc_ref EXCEPT ![p] = @ - 1] /\ file' = [file EXCEPT ![p] = FALSE]
      /\ proc_ref \in [Pids -> Nat] /\ file \in [Pids -> BOOLEAN] /\ procs \subseteq Pids
  BY DEF FileRelease, ProcPut, TypeInv, ProcType
<1>3. proc_ref[p] = 1 + Cardinality(Belongs(p)) /\ Cardinality(Belongs(p)) \in Nat
  BY <1>1, BelongsFinite DEF CtxInv, KrefInv
<1>4. /\ proc_ref'[p] = proc_ref[p] - 1 /\ file'[p] = FALSE
      /\ \A q \in Pids \ {p} : proc_ref'[q] = proc_ref[q] /\ file'[q] = file[q]
  BY <1>2
<1>5. \A q \in Pids : Belongs(q)' = Belongs(q)
  BY <1>1 DEF Belongs, Free, Moves, Leaves
<1>6. proc_ref' \in [Pids -> Nat] /\ file' \in [Pids -> BOOLEAN]
  <2>1. proc_ref' \in [Pids -> Nat]
    BY <1>2, <1>3
  <2>2. file' \in [Pids -> BOOLEAN]
    BY <1>2
  <2>. QED
    BY <2>1, <2>2
<1>7. KrefInv'
  <2>. SUFFICES ASSUME NEW q \in procs
                PROVE  proc_ref'[q] = (IF file'[q] THEN 1 ELSE 0) + Cardinality(Belongs(q)')
    BY <1>1 DEF KrefInv
  <2>1. q \in Pids /\ Belongs(q)' = Belongs(q)
    BY <1>2, <1>5
  <2>2. CASE q = p
    BY <2>1, <2>2, <1>3, <1>4
  <2>3. CASE q # p
    BY <2>1, <2>3, <1>4 DEF CtxInv, KrefInv
  <2>. QED
    BY <2>2, <2>3
<1>8. WhoInv'
  BY <1>1 DEF CtxInv, WhoInv, Moves, Leaves
<1>9. \A s \in Threads \ {t} : call'[s] = call[s] /\ (call[s].who = p => call[s].pc = "belong")
  BY <1>1 DEF InUse, Moves, Leaves
<1>10. proc_ref[p] = 1 => \A s \in Threads \ {t} : call[s].who # p
  <2>. SUFFICES ASSUME proc_ref[p] = 1 PROVE \A s \in Threads \ {t} : call[s].who # p
    OBVIOUS
  <2>1. Belongs(p) = {}
    BY <1>3, BelongsFinite, FS_EmptySet
  <2>. QED
    BY <2>1, <1>9 DEF Belongs
<1>11. \A s \in Threads : call[s].back = "recycle" => call[s].who # p
  BY <1>3 DEF CtxInv, LastInv
<1>12. SoleInv'
  <2>1. CASE proc_ref[p] = 1
    BY <2>1, <1>1, <1>9, <1>10 DEF CtxInv, SoleInv, Moves
  <2>2. CASE proc_ref[p] # 1
    BY <2>2, <1>1, <1>9, NobodyFacts DEF CtxInv, SoleInv, LastInv, Moves, Leaves
  <2>. QED
    BY <2>1, <2>2
<1>13. LastInv'
  BY <1>1, <1>4, <1>9, <1>11 DEF CtxInv, LastInv, Moves, Leaves
<1>14. AskInv'
  <2>. SUFFICES ASSUME NEW s \in Threads, Asks(s)' PROVE file'[call'[s].who] /\ call'[s].who = PidOf[s]
    BY DEF AskInv, Asks
  <2>1. s # t
    BY <1>1 DEF Asks, Moves, Leaves
  <2>2. Asks(s) /\ call'[s] = call[s] /\ call[s].who # p
    BY <2>1, <1>9 DEF Asks
  <2>3. call[s].who \in Pids
    BY <2>2, <1>2 DEF CtxInv, WhoInv, Asks
  <2>. QED
    BY <2>2, <2>3, <1>4 DEF CtxInv, AskInv
<1>. QED
  BY <1>6, <1>7, <1>8, <1>12, <1>13, <1>14 DEF CtxInv

(* A thread takes a reference to a context that still has one. *)
LEMMA CtxBelong ==
    ASSUME TypeInv, ShapeInv, CtxInv, NEW t \in Threads, NEW p \in Pids, Belong(t, p)
    PROVE  CtxInv' /\ proc_ref' \in [Pids -> Nat]
<1>1. /\ Free(t) /\ p \in procs /\ proc_ref[p] > 0
      /\ Moves(t, "belong", "none", NoName, p, "idle")
      /\ procs' = procs /\ file' = file
  BY EnterMoves DEF TypeInv, Belong
<1>2. /\ proc_ref' = [proc_ref EXCEPT ![p] = @ + 1]
      /\ proc_ref \in [Pids -> Nat] /\ procs \subseteq Pids
  BY DEF Belong, TypeInv, ProcType
<1>4. /\ proc_ref'[p] = proc_ref[p] + 1 /\ \A q \in Pids \ {p} : proc_ref'[q] = proc_ref[q]
      /\ proc_ref' \in [Pids -> Nat]
  BY <1>2
<1>5. /\ Belongs(p)' = Belongs(p) \cup {t} /\ t \notin Belongs(p)
      /\ \A q \in Pids \ {p} : Belongs(q)' = Belongs(q)
  BY <1>1 DEF Belongs, Free, Moves
<1>6. Cardinality(Belongs(p)') = Cardinality(Belongs(p)) + 1 /\ Cardinality(Belongs(p)) \in Nat
  BY <1>5, BelongsFinite, FS_AddElement
<1>7. KrefInv'
  <2>. SUFFICES ASSUME NEW q \in procs
                PROVE  proc_ref'[q] = (IF file[q] THEN 1 ELSE 0) + Cardinality(Belongs(q)')
    BY <1>1 DEF KrefInv
  <2>0. q \in Pids /\ proc_ref[q] = (IF file[q] THEN 1 ELSE 0) + Cardinality(Belongs(q))
    BY <1>2 DEF CtxInv, KrefInv
  <2>2. CASE q = p
    BY <2>0, <2>2, <1>4, <1>6
  <2>3. CASE q # p
    BY <2>0, <2>3, <1>4, <1>5
  <2>. QED
    BY <2>2, <2>3
<1>8. WhoInv' /\ SoleInv'
  BY <1>1 DEF CtxInv, WhoInv, SoleInv, LastInv, Moves
<1>9. LastInv'
  BY <1>1, <1>4 DEF CtxInv, LastInv, Moves
<1>10. AskInv'
  BY <1>1 DEF CtxInv, AskInv, Asks, Moves
<1>. QED
  BY <1>4, <1>7, <1>8, <1>9, <1>10 DEF CtxInv

(* It drops it again, and recycles the context when it was the last. *)
LEMMA CtxBelongPut ==
    ASSUME TypeInv, ShapeInv, CtxInv, NEW t \in Threads, BelongPut(t)
    PROVE  CtxInv' /\ proc_ref' \in [Pids -> Nat]
<1>0. PICK p \in Pids : p = call[t].who
  BY DEF BelongPut, ShapeInv, Shape
<1>1. /\ p \in Pids /\ call[t].pc = "belong" /\ call[t].back = "idle"
      /\ IF proc_ref[p] = 1 THEN Moves(t, "recycle", "none", NoName, p, "recycle") ELSE Leaves(t)
      /\ procs' = procs /\ file' = file
  <2>1. call[t].back = "idle" /\ procs' = procs /\ file' = file
    BY DEF BelongPut, ShapeInv, Shape
  <2>. QED
    BY <1>0, <2>1, RecycleMoves DEF TypeInv
<1>2. /\ proc_ref' = [proc_ref EXCEPT ![p] = @ - 1]
      /\ proc_ref \in [Pids -> Nat] /\ procs \subseteq Pids /\ p \in procs
  BY <1>0, NobodyFacts DEF BelongPut, ProcPut, TypeInv, ProcType, CtxInv, WhoInv
<1>3. /\ Belongs(p)' = Belongs(p) \ {t} /\ t \in Belongs(p)
      /\ \A q \in Pids \ {p} : Belongs(q)' = Belongs(q)
  <2>1. call'[t].pc # "belong" /\ \A s \in Threads \ {t} : call'[s] = call[s]
    BY <1>1 DEF Moves, Leaves
  <2>. QED
    BY <1>0, <1>1, <2>1 DEF Belongs
<1>4. /\ Cardinality(Belongs(p)') = Cardinality(Belongs(p)) - 1
      /\ Cardinality(Belongs(p)) \in Nat /\ Cardinality(Belongs(p)) # 0
  <2>1. IsFiniteSet(Belongs(p)) /\ Cardinality(Belongs(p)) \in Nat
    BY BelongsFinite
  <2>2. Cardinality(Belongs(p)) # 0
    BY <1>3, <2>1, FS_EmptySet
  <2>3. Cardinality(Belongs(p) \ {t}) = Cardinality(Belongs(p)) - 1
    BY <1>3, <2>1, FS_RemoveElement
  <2>. QED
    BY <1>3, <2>1, <2>2, <2>3
<1>5. proc_ref[p] = (IF file[p] THEN 1 ELSE 0) + Cardinality(Belongs(p))
  BY <1>2 DEF CtxInv, KrefInv
<1>6. /\ proc_ref'[p] = proc_ref[p] - 1 /\ \A q \in Pids \ {p} : proc_ref'[q] = proc_ref[q]
      /\ proc_ref' \in [Pids -> Nat] /\ proc_ref[p] >= 1
  BY <1>1, <1>2, <1>4, <1>5
<1>7. KrefInv'
  <2>. SUFFICES ASSUME NEW q \in procs
                PROVE  proc_ref'[q] = (IF file[q] THEN 1 ELSE 0) + Cardinality(Belongs(q)')
    BY <1>1 DEF KrefInv
  <2>0. q \in Pids /\ proc_ref[q] = (IF file[q] THEN 1 ELSE 0) + Cardinality(Belongs(q))
    BY <1>2 DEF CtxInv, KrefInv
  <2>2. CASE q = p
    BY <2>2, <1>4, <1>5, <1>6
  <2>3. CASE q # p
    BY <2>0, <2>3, <1>3, <1>6
  <2>. QED
    BY <2>2, <2>3
<1>8. \A s \in Threads \ {t} : call'[s] = call[s]
  BY <1>1 DEF Moves, Leaves
<1>9. \A s \in Threads : call[s].back = "recycle" => call[s].who # p
  BY <1>6 DEF CtxInv, LastInv
<1>10. proc_ref[p] = 1 => \A s \in Threads \ {t} : call[s].who # p
  <2>. SUFFICES ASSUME proc_ref[p] = 1, NEW s \in Threads \ {t}, call[s].who = p PROVE FALSE
    OBVIOUS
  <2>1. ~file[p] /\ Cardinality(Belongs(p)') = 0
    BY <1>4, <1>5
  <2>2. IsFiniteSet(Belongs(p)')
    BY <1>3, BelongsFinite, FS_RemoveElement
  <2>3. Belongs(p)' = {}
    BY <2>1, <2>2, FS_EmptySet
  <2>4. call[s].pc # "belong"
    BY <2>3, <1>8 DEF Belongs
  <2>5. Asks(s)
    BY <2>4, <1>1, <1>9, NobodyFacts DEF Asks
  <2>. QED
    BY <2>1, <2>5 DEF CtxInv, AskInv
<1>11. WhoInv'
  BY <1>1, <1>2, <1>8 DEF CtxInv, WhoInv, Moves, Leaves
<1>12. SoleInv'
  <2>1. CASE proc_ref[p] = 1
    BY <2>1, <1>1, <1>8, <1>10 DEF CtxInv, SoleInv, Moves
  <2>2. CASE proc_ref[p] # 1
    BY <2>2, <1>1, <1>8, NobodyFacts DEF CtxInv, SoleInv, LastInv, Moves, Leaves
  <2>. QED
    BY <2>1, <2>2
<1>13. LastInv'
  BY <1>1, <1>6, <1>8, <1>9 DEF CtxInv, LastInv, Moves, Leaves
<1>14. AskInv'
  BY <1>1, <1>8 DEF CtxInv, AskInv, Asks, Moves, Leaves
<1>. QED
  BY <1>6, <1>7, <1>11, <1>12, <1>13, <1>14 DEF CtxInv


(* A context is entered for a pid that has none. *)
LEMMA CtxNew ==
    ASSUME TypeInv, ShapeInv, CtxInv, NEW t \in Threads, OpenAdd(t)
    PROVE  CtxInv' /\ ProcType'
<1>0. PICK p \in Pids : p = PidOf[t]
  BY ShrAssumption DEF ShrAssumption
<1>1. Leaves(t) /\ call[t].pc = "f_add" /\ call[t].who = NoPid
  BY ListMoves DEF TypeInv
<1>2. CASE UNCHANGED procVars
  <2>1. Quiet(t)
    BY <1>1 DEF Quiet, Leaves, Moves
  <2>. QED
    BY <1>2, <2>1, CtxQuiet DEF procVars, TypeInv, ProcType
<1>3. CASE p \notin procs /\ NewProc(p)
  <2>1. /\ procs' = procs \cup {p} /\ procs \subseteq Pids
        /\ file' = [file EXCEPT ![p] = TRUE] /\ file \in [Pids -> BOOLEAN]
        /\ proc_ref' = [proc_ref EXCEPT ![p] = 1] /\ proc_ref \in [Pids -> Nat]
    BY <1>3 DEF NewProc, TypeInv, ProcType
  <2>2. /\ file'[p] = TRUE /\ proc_ref'[p] = 1
        /\ \A q \in Pids \ {p} : file'[q] = file[q] /\ proc_ref'[q] = proc_ref[q]
    BY <2>1
  <2>3. \A q \in Pids : Belongs(q)' = Belongs(q)
    BY <1>1, NobodyFacts DEF Belongs, Leaves, Moves
  <2>4. \A s \in Threads : call[s].who # p
    BY <1>3, NobodyFacts DEF CtxInv, WhoInv
  <2>5. Cardinality(Belongs(p)) = 0
    <3>1. Belongs(p) = {}
      BY <2>4 DEF Belongs
    <3>. QED
      BY <3>1, FS_EmptySet
  <2>6. KrefInv'
    <3>. SUFFICES ASSUME NEW q \in procs \cup {p}
                  PROVE  proc_ref'[q] = (IF file'[q] THEN 1 ELSE 0) + Cardinality(Belongs(q)')
      BY <2>1 DEF KrefInv
    <3>1. CASE q = p
      BY <3>1, <2>2, <2>3, <2>5
    <3>2. CASE q # p
      BY <3>2, <2>1, <2>2, <2>3 DEF CtxInv, KrefInv
    <3>. QED
      BY <3>1, <3>2
  <2>7. WhoInv' /\ SoleInv'
    BY <1>1, <2>1, NobodyFacts DEF CtxInv, WhoInv, SoleInv, LastInv, Leaves, Moves
  <2>8. LastInv'
    BY <1>1, <2>2, <2>4 DEF CtxInv, LastInv, Leaves, Moves
  <2>9. AskInv'
    <3>. SUFFICES ASSUME NEW s \in Threads, Asks(s)' PROVE file'[call'[s].who] /\ call'[s].who = PidOf[s]
      BY DEF AskInv, Asks
    <3>1. Asks(s) /\ call'[s] = call[s] /\ call[s].who # p
      BY <1>1, <2>4 DEF Asks, Leaves, Moves
    <3>2. call[s].who \in Pids
      BY <3>1, <2>1 DEF CtxInv, WhoInv, Asks
    <3>. QED
      BY <3>1, <3>2, <2>2 DEF CtxInv, AskInv
  <2>10. ProcType'
    <3>1. file' \in [Pids -> BOOLEAN]
      BY <2>1
    <3>2. proc_ref' \in [Pids -> Nat] /\ procs' \subseteq Pids
      BY <2>1
    <3>. QED
      BY <3>1, <3>2 DEF ProcType
  <2>. QED
    BY <2>6, <2>7, <2>8, <2>9, <2>10 DEF CtxInv
<1>. QED
  BY <1>0, <1>2, <1>3 DEF OpenAdd

(* A context leaves the table with the thread that has recycled it. *)
LEMMA CtxGone ==
    ASSUME TypeInv, ShapeInv, CtxInv, NEW t \in Threads, RecycleDone(t)
    PROVE  CtxInv' /\ ProcType'
<1>0. PICK p \in Pids : p = call[t].who
  BY RecycleMoves DEF TypeInv
<1>1. /\ Leaves(t) /\ call[t].pc = "recycle" /\ call[t].back = "recycle"
      /\ procs' = procs \ {p} /\ file' = file /\ proc_ref' = proc_ref /\ procs \subseteq Pids
  BY <1>0, RecycleMoves DEF TypeInv, RecycleDone, ShapeInv, Shape, ProcType
<1>2. \A s \in Threads \ {t} : call[s].who # p
  BY <1>0, <1>1 DEF CtxInv, SoleInv
<1>3. \A q \in Pids : Belongs(q)' = Belongs(q)
  BY <1>1, NobodyFacts DEF Belongs, Leaves, Moves
<1>4. KrefInv'
  BY <1>1, <1>3 DEF CtxInv, KrefInv
<1>5. WhoInv'
  BY <1>1, <1>2 DEF CtxInv, WhoInv, Leaves, Moves
<1>6. SoleInv' /\ LastInv'
  BY <1>1, NobodyFacts DEF CtxInv, SoleInv, LastInv, Leaves, Moves
<1>7. AskInv'
  BY <1>1 DEF CtxInv, AskInv, Asks, Leaves, Moves
<1>8. ProcType'
  BY <1>1 DEF TypeInv, ProcType
<1>. QED
  BY <1>4, <1>5, <1>6, <1>7, <1>8 DEF CtxInv

(* Work on nodes and lists leaves the contexts alone. *)
Working(t) ==
    \/ NodeAdd(t) \/ AddToProc(t) \/ DelFromProc(t)
    \/ NodeGet(t) \/ NodeDestroy(t) \/ NodeOpen(t) \/ NodeClose(t) \/ NodeSetPid(t)
    \/ NodePut2(t) \/ NodePut(t) \/ NodeDel(t) \/ ResPut(t)
    \/ \E n \in Names : RecycleOpened(t, n) \/ RecycleCreated(t, n)

(* Work on nodes leaves the contexts alone. *)
LEMMA WorkFrame ==
    ASSUME NEW t \in Threads, Working(t)
    PROVE  UNCHANGED <<procs, file, proc_ref, start_time, clock, running>>
  BY DEF Working, NodeAdd, AddToProc, DelFromProc, NodeGet, NodeDestroy, NodeOpen, NodeClose, NodeSetPid,
         NodePut2, NodePut, NodeDel, ResPut, RecycleOpened, RecycleCreated, procVars, timeVars

(* Work on nodes goes on for the same context. *)
LEMMA WorkQuiet ==
    ASSUME TypeInv, ShapeInv, NEW t \in Threads, Working(t)
    PROVE  Quiet(t)
<1>. USE DEF Quiet, Leaves, Turns, Moves, GoesOn, At
<1>0. CallType /\ Shape(call[t])
  BY DEF TypeInv, ShapeInv
<1>1. CASE NodeAdd(t) \/ AddToProc(t) \/ DelFromProc(t)
  BY <1>0, <1>1, ListMoves DEF Shape
<1>2. CASE NodeGet(t)
  <2>1. /\ At(t, "get") /\ call[t].back \in Ends \cup {"list"}
        /\ \/ Turns(t, "do")
           \/ GoesOn(t, IF call[t].op = "destroy" THEN call[t].back ELSE Failed(t))
    BY <1>0, <1>2, NodeMoves DEF Shape, Ends
  <2>. QED
    BY <2>1 DEF Failed, Ends
<1>3. CASE NodeDestroy(t) \/ NodeOpen(t) \/ NodeClose(t) \/ NodeSetPid(t)
  <2>1. /\ At(t, "do")
        /\ \/ \E l \in {"put2", "list", "put"} : Turns(t, l)
           \/ Moves(t, "put", call[t].op, call[t].name, call[t].who, Failed(t))
    BY <1>0, <1>3, NodeMoves, PutMoves
  <2>. QED
    BY <2>1 DEF Failed
<1>4. CASE NodePut2(t) \/ NodePut(t) \/ NodeDel(t) \/ ResPut(t)
  <2>1. /\ call[t].pc \in {"put2", "put", "del", "res_put"} /\ call[t].back \in Ends
        /\ \/ \E l \in {"put", "del", "res_put"} : Turns(t, l)
           \/ GoesOn(t, call[t].back)
    BY <1>0, <1>4, PutMoves DEF Shape
  <2>. QED
    BY <2>1 DEF Ends
<1>5. ASSUME NEW n \in Names, RecycleOpened(t, n) \/ RecycleCreated(t, n) PROVE Quiet(t)
  <2>1. /\ call[t].pc = "recycle" /\ call[t].back = "recycle"
        /\ \/ Moves(t, "get", "close", n, call[t].who, "recycle")
           \/ Moves(t, "get", "destroy", n, call[t].who, "recycle")
    BY <1>0, <1>5, RecycleMoves DEF Shape
  <2>. QED
    BY <2>1
<1>. QED
  BY <1>1, <1>2, <1>3, <1>4, <1>5 DEF Working

(* The context a thread works for is there, for as long as it works. *)
LEMMA CtxStep == TypeInv /\ ShapeInv /\ CtxInv /\ [Next]_vars => CtxInv' /\ ProcType'
<1>. SUFFICES ASSUME TypeInv, ShapeInv, CtxInv, [Next]_vars PROVE CtxInv' /\ ProcType'
  OBVIOUS
<1>0. procs \subseteq Pids /\ CallType /\ \A t \in Threads : PidOf[t] \in Pids
  BY ShrAssumption DEF TypeInv, ProcType, ShrAssumption
<1>1. CASE Outside \/ UNCHANGED vars
  <2>1. UNCHANGED <<procs, file, proc_ref, call>>
    BY <1>1, OutsideFrame DEF procVars
  <2>2. \A q \in Pids : Belongs(q)' = Belongs(q)
    BY <2>1 DEF Belongs
  <2>3. CtxInv'
    BY <1>0, <2>1, <2>2 DEF CtxInv, WhoInv, KrefInv, SoleInv, LastInv, AskInv, Asks
  <2>. QED
    BY <2>1, <2>3 DEF TypeInv, ProcType
<1>2. ASSUME NEW t \in Threads, OpenWait(t) PROVE CtxInv' /\ ProcType'
  <2>1. Free(t) /\ Turns(t, "f_add") /\ UNCHANGED <<procs, file, proc_ref>>
    BY <1>0, <1>2, EnterMoves DEF OpenWait, procVars
  <2>2. Quiet(t)
    BY <2>1 DEF Quiet, Free, Turns, Moves
  <2>. QED
    BY <1>0, <2>1, <2>2, CtxQuiet DEF TypeInv, ProcType
<1>3. ASSUME NEW t \in Threads, Asking(t) PROVE CtxInv' /\ ProcType'
  <2>1. PICK n \in Names : \/ Ioctl(t, "destroy", n, "unlist") \/ Ioctl(t, "close", n, "unlist")
                           \/ Ioctl(t, "open", n, "list") \/ Ioctl(t, "set", n, "idle")
    BY <1>3 DEF Asking
  <2>2. /\ Free(t)
        /\ \/ Moves(t, "get", "destroy", n, PidOf[t], "unlist") \/ Moves(t, "get", "close", n, PidOf[t], "unlist")
           \/ Moves(t, "get", "open", n, PidOf[t], "list") \/ Moves(t, "get", "set", n, PidOf[t], "idle")
    BY <1>0, <2>1, EnterMoves
  <2>3. CanCall(t) /\ UNCHANGED <<procs, file, proc_ref>>
    BY <2>1 DEF Ioctl, procVars
  <2>4. /\ call'[t].who = PidOf[t] /\ call'[t].pc # "belong" /\ call'[t].back # "recycle"
        /\ \A s \in Threads \ {t} : call'[s] = call[s]
    BY <2>2 DEF Moves
  <2>. QED
    BY <1>0, <2>2, <2>3, <2>4, CtxAsk DEF TypeInv, ProcType
<1>4. ASSUME NEW t \in Threads, NEW i \in Ids, Create(t, i) PROVE CtxInv' /\ ProcType'
  <2>1. Free(t) /\ Moves(t, "n_add", "create", <<PidOf[t], i>>, PidOf[t], "idle")
    BY <1>0, <1>4, EnterMoves
  <2>2. CanCall(t) /\ UNCHANGED <<procs, file, proc_ref>>
    BY <1>4 DEF Create, procVars
  <2>3. /\ call'[t].who = PidOf[t] /\ call'[t].pc # "belong" /\ call'[t].back # "recycle"
        /\ \A s \in Threads \ {t} : call'[s] = call[s]
    BY <2>1 DEF Moves
  <2>. QED
    BY <1>0, <2>1, <2>2, <2>3, CtxAsk DEF TypeInv, ProcType
<1>5. ASSUME NEW t \in Threads, NEW p \in Pids, FileRelease(t, p) \/ Belong(t, p)
      PROVE  CtxInv' /\ ProcType'
  <2>1. CASE FileRelease(t, p)
    BY <2>1, <1>0, CtxRelease DEF ProcType, FileRelease
  <2>2. CASE Belong(t, p)
    BY <2>2, <1>0, CtxBelong DEF TypeInv, ProcType, Belong
  <2>. QED
    BY <1>5, <2>1, <2>2
<1>6. ASSUME NEW t \in Threads, Working(t) PROVE CtxInv' /\ ProcType'
  <2>1. Quiet(t) /\ UNCHANGED <<procs, file, proc_ref>>
    BY <1>6, WorkQuiet, WorkFrame
  <2>. QED
    BY <1>0, <2>1, CtxQuiet DEF TypeInv, ProcType
<1>7. ASSUME NEW t \in Threads, BelongPut(t) PROVE CtxInv' /\ ProcType'
  <2>1. procs' = procs /\ file' = file
    BY <1>7 DEF BelongPut
  <2>. QED
    BY <1>7, <2>1, CtxBelongPut DEF TypeInv, ProcType
<1>. QED
  BY <1>1, <1>2, <1>3, <1>4, <1>5, <1>6, <1>7, CtxNew, CtxGone, NextCases DEF Working


-----------------------------------------------------------------------------
(* Nodes.  A node with a thread at work on it is in the table and has a       *)
(* reference; the one thread that dropped the last reference deletes it.      *)

HoldPcs == {"do", "put2", "put"}

LiveInv == \A t \in Threads : call[t].pc \in HoldPcs => call[t].name \in nodes
DelInv  ==
    /\ \A t \in Threads : call[t].pc = "del" => call[t].name \in nodes /\ ref[call[t].name] = 0
    /\ \A s, t \in Threads :
          call[s].pc = "del" /\ call[t].pc = "del" /\ call[s].name = call[t].name => s = t
OwnInv  == \A n \in Names : creator[n] \in {NoPid, n[1]}
ShutInv == \A n \in Names \ nodes, p \in Pids : open_num[n][p] = 0

Balance(n) == ref[n] = Created(n) + Cardinality(Opens(n)) + Cardinality(Holding(n)) + Cardinality(Dropping(n))

NodeInv == LiveInv /\ DelInv /\ OwnInv /\ ShutInv /\ \A n \in nodes : Balance(n)

(* The invariant of the nodes, part by part. *)
LEMMA NodeImplies == NodeInv <=> LiveInv /\ DelInv /\ OwnInv /\ ShutInv /\ NodeRefsExact
  BY DEF NodeInv, Balance, NodeRefsExact

(* The references that threads carry can be counted, *)
LEMMA HoldingFinite ==
    \A n : /\ IsFiniteSet(Holding(n)) /\ Cardinality(Holding(n)) \in Nat
           /\ IsFiniteSet(Dropping(n)) /\ Cardinality(Dropping(n)) \in Nat
<1>. SUFFICES ASSUME NEW n
              PROVE  /\ IsFiniteSet(Holding(n)) /\ Cardinality(Holding(n)) \in Nat
                     /\ IsFiniteSet(Dropping(n)) /\ Cardinality(Dropping(n)) \in Nat
  OBVIOUS
<1>1. Holding(n) \in SUBSET Threads /\ Dropping(n) \in SUBSET Threads /\ IsFiniteSet(Threads)
  BY ShrAssumption DEF Holding, Dropping, ShrAssumption
<1>2. IsFiniteSet(Holding(n)) /\ IsFiniteSet(Dropping(n))
  BY <1>1, FS_Subset
<1>. QED
  BY <1>2, FS_CardinalityType

(* and so can the processes that have a node open. *)
LEMMA OpensFinite == \A n : IsFiniteSet(Opens(n)) /\ Cardinality(Opens(n)) \in Nat
<1>. SUFFICES ASSUME NEW n PROVE IsFiniteSet(Opens(n)) /\ Cardinality(Opens(n)) \in Nat
  OBVIOUS
<1>1. IsFiniteSet(Pids) /\ IsFiniteSet(1 .. MaxOpen)
  BY ShrAssumption, FS_Interval DEF ShrAssumption
<1>2. IsFiniteSet(Pids \X (1 .. MaxOpen))
  BY <1>1, FS_Product
<1>3. Opens(n) \in SUBSET (Pids \X (1 .. MaxOpen))
  BY DEF Opens
<1>4. IsFiniteSet(Opens(n))
  BY <1>2, <1>3, FS_Subset
<1>. QED
  BY <1>4, FS_CardinalityType

(* What thread t contributes to the references of node n. *)
Holds(t, n) == IF call[t].name = n /\ call[t].pc \in HoldPcs THEN 1 ELSE 0
Drops(t, n) == IF call[t].name = n /\ call[t].pc = "put2" THEN 1 ELSE 0

(* How these counts change when one thread moves. *)
LEMMA CountMove ==
    ASSUME NEW t \in Threads, \A s \in Threads \ {t} : call'[s] = call[s], NEW n
    PROVE  /\ Cardinality(Holding(n)') = Cardinality(Holding(n)) - Holds(t, n) + Holds(t, n)'
           /\ Cardinality(Dropping(n)') = Cardinality(Dropping(n)) - Drops(t, n) + Drops(t, n)'
<1>1. /\ Holding(n)' = IF Holds(t, n)' = 1 THEN Holding(n) \cup {t} ELSE Holding(n) \ {t}
      /\ t \in Holding(n) <=> Holds(t, n) = 1
      /\ Holds(t, n) \in {0, 1} /\ Holds(t, n)' \in {0, 1}
  BY DEF Holding, Holds, HoldPcs
<1>2. /\ Dropping(n)' = IF Drops(t, n)' = 1 THEN Dropping(n) \cup {t} ELSE Dropping(n) \ {t}
      /\ t \in Dropping(n) <=> Drops(t, n) = 1
      /\ Drops(t, n) \in {0, 1} /\ Drops(t, n)' \in {0, 1}
  BY DEF Dropping, Drops
<1>3. /\ Cardinality(Holding(n) \cup {t}) = IF t \in Holding(n) THEN Cardinality(Holding(n)) ELSE Cardinality(Holding(n)) + 1
      /\ Cardinality(Holding(n) \ {t}) = IF t \in Holding(n) THEN Cardinality(Holding(n)) - 1 ELSE Cardinality(Holding(n))
      /\ Cardinality(Dropping(n) \cup {t}) = IF t \in Dropping(n) THEN Cardinality(Dropping(n)) ELSE Cardinality(Dropping(n)) + 1
      /\ Cardinality(Dropping(n) \ {t}) = IF t \in Dropping(n) THEN Cardinality(Dropping(n)) - 1 ELSE Cardinality(Dropping(n))
  BY HoldingFinite, FS_AddElement, FS_RemoveElement
<1>. QED
  BY <1>1, <1>2, <1>3, HoldingFinite

(* The references of a node change as much as what they are made of. *)
LEMMA BalanceMove ==
    ASSUME NEW t \in Threads, \A s \in Threads \ {t} : call'[s] = call[s], NEW n, Balance(n),
           ref'[n] = ref[n] + (Created(n)' - Created(n)) + (Cardinality(Opens(n)') - Cardinality(Opens(n)))
                     + (Holds(t, n)' - Holds(t, n)) + (Drops(t, n)' - Drops(t, n)),
           Cardinality(Opens(n)') \in Nat
    PROVE  Balance(n)'
<1>1. /\ Cardinality(Holding(n)) \in Nat /\ Cardinality(Dropping(n)) \in Nat /\ Cardinality(Opens(n)) \in Nat
      /\ Created(n) \in {0, 1} /\ Created(n)' \in {0, 1}
      /\ Holds(t, n) \in {0, 1} /\ Holds(t, n)' \in {0, 1}
      /\ Drops(t, n) \in {0, 1} /\ Drops(t, n)' \in {0, 1}
  BY HoldingFinite, OpensFinite DEF Created, Holds, Drops
<1>2. /\ Cardinality(Holding(n)') = Cardinality(Holding(n)) - Holds(t, n) + Holds(t, n)'
      /\ Cardinality(Dropping(n)') = Cardinality(Dropping(n)) - Drops(t, n) + Drops(t, n)'
  BY CountMove
<1>3. ref[n] = Created(n) + Cardinality(Opens(n)) + Cardinality(Holding(n)) + Cardinality(Dropping(n))
  BY DEF Balance
<1>4. ref'[n] = Created(n)' + Cardinality(Opens(n)') + Cardinality(Holding(n)') + Cardinality(Dropping(n)')
  BY <1>1, <1>2, <1>3
<1>. QED
  BY <1>4 DEF Balance

(* A step of a thread that does not concern node n. *)
LEMMA BalanceOther ==
    ASSUME NEW t \in Threads, \A s \in Threads \ {t} : call'[s] = call[s], NEW n, Balance(n),
           ref'[n] = ref[n], creator'[n] = creator[n], open_num'[n] = open_num[n], ref[n] \in Nat,
           Holds(t, n)' = Holds(t, n), Drops(t, n)' = Drops(t, n)
    PROVE  Balance(n)'
<1>1. Opens(n)' = Opens(n) /\ Created(n)' = Created(n) /\ Created(n) \in {0, 1}
  BY DEF Opens, Created
<1>2. Holds(t, n) \in {0, 1} /\ Drops(t, n) \in {0, 1}
  BY DEF Holds, Drops
<1>3. Cardinality(Opens(n)') \in Nat
  BY <1>1, OpensFinite
<1>4. ref'[n] = ref[n] + (Created(n)' - Created(n)) + (Cardinality(Opens(n)') - Cardinality(Opens(n)))
                + (Holds(t, n)' - Holds(t, n)) + (Drops(t, n)' - Drops(t, n))
  BY <1>1, <1>2, OpensFinite
<1>. QED
  BY <1>3, <1>4, BalanceMove

(* One open more or less. *)
LEMMA OpensChange ==
    ASSUME NodeType, NEW n \in Names, NEW p \in Pids
    PROVE  /\ open_num' = [open_num EXCEPT ![n][p] = @ + 1] /\ open_num[n][p] < MaxOpen =>
                 /\ Cardinality(Opens(n)') = Cardinality(Opens(n)) + 1 /\ Cardinality(Opens(n)') \in Nat
                 /\ open_num' \in [Names -> [Pids -> 0 .. MaxOpen]]
                 /\ open_num'[n][p] = open_num[n][p] + 1
           /\ open_num' = [open_num EXCEPT ![n][p] = @ - 1] /\ open_num[n][p] > 0 =>
                 /\ Cardinality(Opens(n)') = Cardinality(Opens(n)) - 1 /\ Cardinality(Opens(n)') \in Nat
                 /\ open_num' \in [Names -> [Pids -> 0 .. MaxOpen]]
                 /\ open_num'[n][p] = open_num[n][p] - 1
<1>0. open_num \in [Names -> [Pids -> 0 .. MaxOpen]] /\ MaxOpen \in Nat
  BY ShrAssumption DEF NodeType, ShrAssumption
<1>1. ASSUME open_num' = [open_num EXCEPT ![n][p] = @ + 1], open_num[n][p] < MaxOpen
      PROVE  /\ Cardinality(Opens(n)') = Cardinality(Opens(n)) + 1 /\ Cardinality(Opens(n)') \in Nat
             /\ open_num' \in [Names -> [Pids -> 0 .. MaxOpen]]
             /\ open_num'[n][p] = open_num[n][p] + 1
  <2>. DEFINE x == <<p, open_num[n][p] + 1>>
  <2>1. /\ open_num'[n][p] = open_num[n][p] + 1 /\ open_num' \in [Names -> [Pids -> 0 .. MaxOpen]]
        /\ \A q \in Pids \ {p} : open_num'[n][q] = open_num[n][q]
    BY <1>0, <1>1
  <2>2. Opens(n)' = Opens(n) \cup {x} /\ x \notin Opens(n)
    <3>1. /\ \A o : o \in Opens(n) <=> o \in Pids \X (1 .. MaxOpen) /\ o[2] <= open_num[n][o[1]]
          /\ \A o : o \in Opens(n)' <=> o \in Pids \X (1 .. MaxOpen) /\ o[2] <= open_num'[n][o[1]]
      BY DEF Opens
    <3>2. x \in Pids \X (1 .. MaxOpen) /\ x[1] = p /\ x[2] = open_num[n][p] + 1
      BY <1>0, <1>1
    <3>3. ASSUME NEW o \in Pids \X (1 .. MaxOpen)
          PROVE  /\ o[1] # p => (o \in Opens(n)' <=> o \in Opens(n)) /\ o # x
                 /\ o[1] = p => (o \in Opens(n)' <=> o \in Opens(n) \cup {x})
      <4>1. o = <<o[1], o[2]>> /\ o[1] \in Pids /\ o[2] \in 1 .. MaxOpen
        OBVIOUS
      <4>2. o = x <=> o[1] = p /\ o[2] = open_num[n][p] + 1
        BY <4>1, <3>2
      <4>3. CASE o[1] # p
        BY <4>1, <4>2, <4>3, <3>1, <2>1
      <4>4. CASE o[1] = p
        <5>1. /\ o \in Opens(n) <=> o[2] <= open_num[n][p]
              /\ o \in Opens(n)' <=> o[2] <= open_num'[n][p]
          BY <4>4, <3>1
        <5>2. open_num[n][p] \in Int /\ o[2] \in Int
          BY <1>0, <4>1
        <5>3. o[2] <= open_num'[n][p] <=> (o[2] <= open_num[n][p] \/ o[2] = open_num[n][p] + 1)
          <6>1. \A a, b \in Int : a <= b + 1 <=> (a <= b \/ a = b + 1)
            OBVIOUS
          <6>. QED
            BY <5>2, <2>1, <6>1
        <5>. HIDE DEF x
        <5>4. o \in Opens(n) \cup {x} <=> (o[2] <= open_num[n][p] \/ o[2] = open_num[n][p] + 1)
          BY <5>1, <4>2, <4>4
        <5>. QED
          BY <5>1, <5>3, <5>4, <4>4
      <4>. QED
        BY <4>3, <4>4
    <3>4. x \notin Opens(n)
      BY <3>1, <3>2, <1>0
    <3>. HIDE DEF x
    <3>5. \A o : o \in Opens(n)' <=> o \in Opens(n) \cup {x}
      BY <3>1, <3>2, <3>3, <3>4
    <3>. QED
      BY <3>4, <3>5
  <2>. HIDE DEF x
  <2>. QED
    BY <2>1, <2>2, OpensFinite, FS_AddElement, FS_CardinalityType
<1>2. ASSUME open_num' = [open_num EXCEPT ![n][p] = @ - 1], open_num[n][p] > 0
      PROVE  /\ Cardinality(Opens(n)') = Cardinality(Opens(n)) - 1 /\ Cardinality(Opens(n)') \in Nat
             /\ open_num' \in [Names -> [Pids -> 0 .. MaxOpen]]
             /\ open_num'[n][p] = open_num[n][p] - 1
  <2>. DEFINE x == <<p, open_num[n][p]>>
  <2>1. /\ open_num'[n][p] = open_num[n][p] - 1 /\ open_num' \in [Names -> [Pids -> 0 .. MaxOpen]]
        /\ \A q \in Pids \ {p} : open_num'[n][q] = open_num[n][q]
    BY <1>0, <1>2
  <2>2. Opens(n)' = Opens(n) \ {x} /\ x \in Opens(n)
    <3>1. /\ \A o : o \in Opens(n) <=> o \in Pids \X (1 .. MaxOpen) /\ o[2] <= open_num[n][o[1]]
          /\ \A o : o \in Opens(n)' <=> o \in Pids \X (1 .. MaxOpen) /\ o[2] <= open_num'[n][o[1]]
      BY DEF Opens
    <3>2. x \in Pids \X (1 .. MaxOpen) /\ x[1] = p /\ x[2] = open_num[n][p]
      BY <1>0, <1>2
    <3>3. ASSUME NEW o \in Pids \X (1 .. MaxOpen)
          PROVE  /\ o[1] # p => (o \in Opens(n)' <=> o \in Opens(n)) /\ o # x
                 /\ o[1] = p => (o \in Opens(n)' <=> o \in Opens(n) \ {x})
      <4>1. o = <<o[1], o[2]>> /\ o[1] \in Pids /\ o[2] \in 1 .. MaxOpen
        OBVIOUS
      <4>2. o = x <=> o[1] = p /\ o[2] = open_num[n][p]
        BY <4>1, <3>2
      <4>3. CASE o[1] # p
        BY <4>1, <4>2, <4>3, <3>1, <2>1
      <4>4. CASE o[1] = p
        <5>1. /\ o \in Opens(n) <=> o[2] <= open_num[n][p]
              /\ o \in Opens(n)' <=> o[2] <= open_num'[n][p]
          BY <4>4, <3>1
        <5>2. open_num[n][p] \in Int /\ o[2] \in Int
          BY <1>0, <4>1
        <5>. HIDE DEF x
        <5>. QED
          BY <5>1, <5>2, <4>2, <4>4, <2>1
      <4>. QED
        BY <4>3, <4>4
    <3>4. x \in Opens(n)
      BY <3>1, <3>2, <1>0
    <3>. HIDE DEF x
    <3>5. \A o : o \in Opens(n)' <=> o \in Opens(n) \ {x}
      BY <3>1, <3>2, <3>3, <3>4
    <3>. QED
      BY <3>4, <3>5
  <2>. HIDE DEF x
  <2>. QED
    BY <2>1, <2>2, OpensFinite, FS_RemoveElement, FS_CardinalityType
<1>. QED
  BY <1>1, <1>2

(* A node has a reference while a thread is at work on it ... *)
LEMMA HeldHasRef ==
    ASSUME NodeInv, NEW t \in Threads, call[t].pc \in HoldPcs
    PROVE  /\ ref[call[t].name] >= 1
           /\ call[t].pc = "put2" => ref[call[t].name] >= 2
<1>. DEFINE n == call[t].name
<1>1. Balance(n) /\ t \in Holding(n) /\ (call[t].pc = "put2" => t \in Dropping(n))
  BY DEF NodeInv, LiveInv, Holding, Dropping, HoldPcs
<1>. HIDE DEF n
<1>2. Cardinality(Holding(n)) >= 1 /\ (call[t].pc = "put2" => Cardinality(Dropping(n)) >= 1)
  BY <1>1, HoldingFinite, FS_EmptySet
<1>3. Created(n) \in {0, 1} /\ Cardinality(Opens(n)) \in Nat
  BY OpensFinite DEF Created
<1>4. ref[n] >= 1 /\ (call[t].pc = "put2" => ref[n] >= 2)
  BY <1>1, <1>2, <1>3, HoldingFinite DEF Balance
<1>. QED
  BY <1>4 DEF n

(* ... and nobody left when it has none. *)
LEMMA ZeroIsFree ==
    ASSUME NodeInv, NodeType, NEW n \in nodes, ref[n] = 0
    PROVE  /\ creator[n] = NoPid
           /\ \A p \in Pids : open_num[n][p] = 0
           /\ \A t \in Threads : call[t].name = n => call[t].pc \notin HoldPcs
<1>1. /\ Created(n) = 0 /\ Cardinality(Opens(n)) = 0 /\ Cardinality(Holding(n)) = 0
  <2>1. /\ Created(n) \in {0, 1} /\ Cardinality(Opens(n)) \in Nat /\ Cardinality(Holding(n)) \in Nat
        /\ Cardinality(Dropping(n)) \in Nat
    BY OpensFinite, HoldingFinite DEF Created
  <2>2. ref[n] = Created(n) + Cardinality(Opens(n)) + Cardinality(Holding(n)) + Cardinality(Dropping(n))
    BY DEF NodeInv, Balance
  <2>. QED
    BY <2>1, <2>2
<1>2. Opens(n) = {} /\ Holding(n) = {}
  BY <1>1, OpensFinite, HoldingFinite, FS_EmptySet
<1>3. \A p \in Pids : open_num[n][p] = 0
  <2>. SUFFICES ASSUME NEW p \in Pids, open_num[n][p] # 0 PROVE FALSE
    OBVIOUS
  <2>1. open_num[n][p] >= 1 /\ 1 \in 1 .. MaxOpen
    BY ShrAssumption DEF NodeType, ShrAssumption
  <2>2. <<p, 1>> \in Opens(n)
    BY <2>1 DEF Opens
  <2>. QED
    BY <2>2, <1>2
<1>. QED
  BY <1>1, <1>2, <1>3 DEF Created, Holding, HoldPcs


(* A thread that neither had nor gets a reference of its own to a node. *)
Aside(t) ==
    /\ call[t].pc \notin HoldPcs \cup {"del"} /\ call'[t].pc \notin HoldPcs \cup {"del"}
    /\ \A s \in Threads \ {t} : call'[s] = call[s]

(* Such a step keeps the nodes in order. *)
LEMMA NodeAside ==
    ASSUME TypeInv, NodeInv, NEW t \in Threads, Aside(t), UNCHANGED nodeVars
    PROVE  NodeInv' /\ NodeType'
<1>1. \A n \in nodes : Balance(n)'
  <2>. SUFFICES ASSUME NEW n \in nodes PROVE Balance(n)'
    OBVIOUS
  <2>1. Holds(t, n) = 0 /\ Drops(t, n) = 0 /\ Holds(t, n)' = 0 /\ Drops(t, n)' = 0
    BY DEF Aside, Holds, Drops, HoldPcs
  <2>2. ref[n] \in Nat /\ Balance(n)
    BY DEF NodeInv, TypeInv, NodeType
  <2>. QED
    BY <2>1, <2>2, BalanceOther DEF nodeVars, Aside
<1>2. LiveInv' /\ DelInv'
  BY DEF NodeInv, LiveInv, DelInv, Aside, nodeVars
<1>3. OwnInv' /\ ShutInv' /\ NodeType'
  BY DEF NodeInv, OwnInv, ShutInv, nodeVars, TypeInv, NodeType
<1>. QED
  BY <1>1, <1>2, <1>3 DEF NodeInv, nodeVars

(* What the actions on a node share: n is the node, t the thread. *)
LEMMA BalanceRest ==
    ASSUME TypeInv, NodeInv, NEW t \in Threads, NEW n \in Names,
           \A s \in Threads \ {t} : call'[s] = call[s],
           call[t].name = n, call'[t].name = n \/ call'[t].pc \notin HoldPcs,
           \A m \in Names \ {n} : ref'[m] = ref[m] /\ creator'[m] = creator[m] /\ open_num'[m] = open_num[m],
           nodes' \ {n} = nodes \ {n}
    PROVE  \A m \in nodes' \ {n} : Balance(m)'
<1>. SUFFICES ASSUME NEW m \in nodes \ {n} PROVE Balance(m)'
  OBVIOUS
<1>1. Holds(t, m) = 0 /\ Drops(t, m) = 0 /\ Holds(t, m)' = 0 /\ Drops(t, m)' = 0
  BY DEF Holds, Drops, HoldPcs
<1>2. m \in Names /\ ref[m] \in Nat /\ Balance(m)
  BY DEF NodeInv, TypeInv, NodeType
<1>. QED
  BY <1>1, <1>2, BalanceOther

(* The references of nodes stay exact: adding a node, *)
LEMMA NodeAddStep ==
    ASSUME TypeInv, ShapeInv, NodeInv, NEW t \in Threads, NodeAdd(t)
    PROVE  NodeInv' /\ NodeType'
<1>0. PICK n \in Names : n = call[t].name
  BY ListMoves DEF TypeInv, At
<1>1. /\ call[t].pc = "n_add"
      /\ IF n \in nodes THEN Turns(t, "res_put") ELSE Turns(t, "list")
  BY <1>0, ListMoves DEF TypeInv, At
<1>2. CASE n \in nodes
  <2>1. Aside(t)
    BY <1>1, <1>2 DEF Aside, Turns, Moves, HoldPcs
  <2>2. UNCHANGED nodeVars
    BY <1>0, <1>2 DEF NodeAdd
  <2>. QED
    BY <2>1, <2>2, NodeAside
<1>3. CASE n \notin nodes
  <2>1. NewNode(n) /\ NodeType /\ n[1] \in Pids /\ clock \in [Pids -> Nat]
    BY <1>0, <1>3, NameFacts DEF NodeAdd, TypeInv, TimeType
  <2>2. /\ nodes' = nodes \cup {n}
        /\ creator' = [creator EXCEPT ![n] = n[1]]
        /\ ref' = [ref EXCEPT ![n] = 1]
        /\ open_num' = [open_num EXCEPT ![n] = [q \in Pids |-> 0]]
    BY <2>1 DEF NewNode
  <2>3. NodeType'
    <3>1. [q \in Pids |-> IF q = n[1] THEN clock[q] ELSE NotListed] \in [Pids -> Nat \cup {NotListed}]
      BY <2>1
    <3>2. set_time' \in [Names -> [Pids -> Nat \cup {NotListed}]]
      BY <2>1, <3>1 DEF NewNode, NodeType
    <3>3. open_num' \in [Names -> [Pids -> 0 .. MaxOpen]]
      BY <2>1, <2>2, ShrAssumption DEF NodeType, ShrAssumption
    <3>. QED
      BY <2>1, <2>2, <3>2, <3>3 DEF NodeType
  <2>4. /\ creator'[n] = n[1] /\ ref'[n] = 1 /\ \A q \in Pids : open_num'[n][q] = 0
        /\ \A m \in Names \ {n} : ref'[m] = ref[m] /\ creator'[m] = creator[m] /\ open_num'[m] = open_num[m]
    BY <2>1, <2>2 DEF NodeType
  <2>5. /\ \A s \in Threads \ {t} : call'[s] = call[s]
        /\ call'[t].name = n /\ call'[t].pc = "list"
    BY <1>0, <1>1, <1>3 DEF Turns, Moves
  <2>6. \A s \in Threads : call[s].pc \in HoldPcs \cup {"del"} => call[s].name # n
    BY <1>3 DEF NodeInv, LiveInv, DelInv
  <2>7. LiveInv' /\ DelInv'
    <3>1. LiveInv'
      BY <2>2, <2>5 DEF NodeInv, LiveInv, HoldPcs
    <3>2. \A s \in Threads : call'[s].pc = "del" => call'[s].name \in nodes' /\ ref'[call'[s].name] = 0
      <4>. SUFFICES ASSUME NEW s \in Threads, call'[s].pc = "del"
                    PROVE  call'[s].name \in nodes' /\ ref'[call'[s].name] = 0
        OBVIOUS
      <4>1. s # t /\ call'[s] = call[s] /\ call[s].name \in nodes /\ ref[call[s].name] = 0 /\ call[s].name # n
        BY <2>5, <2>6 DEF NodeInv, DelInv
      <4>. QED
        BY <4>1, <2>1, <2>2, <2>4 DEF NodeType
    <3>3. \A q, r \in Threads :
             call'[q].pc = "del" /\ call'[r].pc = "del" /\ call'[q].name = call'[r].name => q = r
      BY <2>5 DEF NodeInv, DelInv
    <3>. QED
      BY <3>1, <3>2, <3>3 DEF DelInv
  <2>8. OwnInv'
    BY <2>4 DEF NodeInv, OwnInv
  <2>9. ShutInv'
    BY <2>2, <2>4 DEF NodeInv, ShutInv
  <2>10. Balance(n)'
    <3>1. /\ Holding(n)' = {} /\ Dropping(n)' = {}
      BY <2>5, <2>6 DEF Holding, Dropping, HoldPcs
    <3>2. Opens(n)' = {}
      BY <2>4 DEF Opens
    <3>3. Created(n)' = 1
      BY <2>1, <2>4, NobodyFacts DEF Created
    <3>. QED
      BY <2>4, <3>1, <3>2, <3>3, FS_EmptySet DEF Balance
  <2>11. \A m \in nodes' \ {n} : Balance(m)'
    BY <1>0, <2>2, <2>4, <2>5, BalanceRest
  <2>. QED
    BY <2>3, <2>7, <2>8, <2>9, <2>10, <2>11 DEF NodeInv
<1>. QED
  BY <1>2, <1>3

(* finding one, *)
LEMMA NodeGetStep ==
    ASSUME TypeInv, ShapeInv, NodeInv, NEW t \in Threads, NodeGet(t)
    PROVE  NodeInv' /\ NodeType'
<1>0. PICK n \in Names : n = call[t].name
  BY NodeMoves DEF TypeInv, At
<1>1. /\ call[t].pc = "get" /\ NodeType
      /\ IF n \in nodes /\ ref[n] > 0 THEN Turns(t, "do")
         ELSE GoesOn(t, IF call[t].op = "destroy" THEN call[t].back ELSE Failed(t))
  BY <1>0, NodeMoves DEF TypeInv, At
<1>2. CASE ~(n \in nodes /\ ref[n] > 0)
  <2>1. Aside(t)
    <3>1. call[t].op = "destroy" => call[t].back \in Ends
      BY <1>1 DEF ShapeInv, Shape
    <3>. QED
      BY <1>1, <1>2, <3>1 DEF Aside, GoesOn, Leaves, Turns, Moves, HoldPcs, Failed, Ends
  <2>2. UNCHANGED nodeVars
    BY <1>0, <1>2 DEF NodeGet, nodeVars
  <2>. QED
    BY <2>1, <2>2, NodeAside
<1>3. CASE n \in nodes /\ ref[n] > 0
  <2>1. /\ ref' = [ref EXCEPT ![n] = @ + 1] /\ nodes' = nodes /\ creator' = creator
        /\ open_num' = open_num /\ set_time' = set_time
    BY <1>0, <1>3 DEF NodeGet
  <2>2. NodeType' /\ ref'[n] = ref[n] + 1 /\ \A m \in Names \ {n} : ref'[m] = ref[m]
    BY <1>1, <2>1 DEF NodeType
  <2>3. /\ \A s \in Threads \ {t} : call'[s] = call[s]
        /\ call'[t].name = n /\ call'[t].pc = "do"
    BY <1>0, <1>1, <1>3 DEF Turns, Moves
  <2>4. LiveInv'
    BY <1>3, <2>1, <2>3 DEF NodeInv, LiveInv, HoldPcs
  <2>5. DelInv'
    <3>1. \A s \in Threads : call'[s].pc = "del" =>
             s # t /\ call[s].pc = "del" /\ call'[s] = call[s] /\ call[s].name # n
      BY <1>3, <2>3 DEF NodeInv, DelInv
    <3>2. \A s \in Threads : call'[s].pc = "del" => call'[s].name \in nodes' /\ ref'[call'[s].name] = 0
      <4>. SUFFICES ASSUME NEW s \in Threads, call'[s].pc = "del"
                    PROVE  call'[s].name \in nodes' /\ ref'[call'[s].name] = 0
        OBVIOUS
      <4>1. call'[s] = call[s] /\ call[s].name \in nodes /\ ref[call[s].name] = 0 /\ call[s].name # n
        BY <3>1 DEF NodeInv, DelInv
      <4>. QED
        BY <4>1, <1>1, <2>1, <2>2 DEF NodeType
    <3>3. \A q, r \in Threads :
             call'[q].pc = "del" /\ call'[r].pc = "del" /\ call'[q].name = call'[r].name => q = r
      BY <3>1 DEF NodeInv, DelInv
    <3>. QED
      BY <3>2, <3>3 DEF DelInv
  <2>6. OwnInv' /\ ShutInv'
    BY <2>1 DEF NodeInv, OwnInv, ShutInv
  <2>7. Balance(n)'
    <3>1. Holds(t, n) = 0 /\ Holds(t, n)' = 1 /\ Drops(t, n) = 0 /\ Drops(t, n)' = 0
      BY <1>1, <2>3 DEF Holds, Drops, HoldPcs
    <3>2. Opens(n)' = Opens(n) /\ Created(n)' = Created(n) /\ Created(n) \in {0, 1}
      BY <2>1 DEF Opens, Created
    <3>3. Balance(n) /\ Cardinality(Opens(n)) \in Nat /\ ref[n] \in Nat
      BY <1>1, <1>3, OpensFinite DEF NodeInv, NodeType
    <3>. QED
      BY <2>2, <2>3, <3>1, <3>2, <3>3, BalanceMove
  <2>8. \A m \in nodes' \ {n} : Balance(m)'
    BY <1>0, <2>1, <2>2, <2>3, BalanceRest
  <2>. QED
    BY <2>1, <2>2, <2>4, <2>5, <2>6, <2>7, <2>8 DEF NodeInv
<1>. QED
  BY <1>2, <1>3

(* The thread goes on with its reference, and node and table stay. *)
LEMMA NodeKeeps ==
    ASSUME TypeInv, NodeInv, NEW t \in Threads, NEW n \in Names, call[t].name = n,
           call[t].pc \in HoldPcs, call'[t].name = n \/ call'[t].pc \notin HoldPcs \cup {"del"},
           call'[t].pc # "del", \A s \in Threads \ {t} : call'[s] = call[s],
           nodes' = nodes, ref'[n] \in Nat, \A m \in Names \ {n} : ref'[m] = ref[m]
    PROVE  LiveInv' /\ DelInv'
<1>1. n \in nodes /\ ref[n] >= 1
  BY HeldHasRef DEF NodeInv, LiveInv
<1>2. LiveInv'
  BY <1>1 DEF NodeInv, LiveInv, HoldPcs
<1>3. DelInv'
  <2>1. \A s \in Threads : call'[s].pc = "del" => s # t /\ call[s].pc = "del" /\ call'[s] = call[s] /\ call[s].name # n
    BY <1>1 DEF NodeInv, DelInv
  <2>2. \A s \in Threads : call'[s].pc = "del" => call'[s].name \in nodes' /\ ref'[call'[s].name] = 0
    <3>. SUFFICES ASSUME NEW s \in Threads, call'[s].pc = "del"
                  PROVE  call'[s].name \in nodes' /\ ref'[call'[s].name] = 0
      OBVIOUS
    <3>1. call'[s] = call[s] /\ call[s].name \in nodes /\ ref[call[s].name] = 0 /\ call[s].name # n
      BY <2>1 DEF NodeInv, DelInv
    <3>. QED
      BY <3>1 DEF TypeInv, NodeType
  <2>3. \A q, r \in Threads :
           call'[q].pc = "del" /\ call'[r].pc = "del" /\ call'[q].name = call'[r].name => q = r
    BY <2>1 DEF NodeInv, DelInv
  <2>. QED
    BY <2>2, <2>3 DEF DelInv
<1>. QED
  BY <1>2, <1>3

(* destroying, *)
LEMMA NodeDestroyStep ==
    ASSUME TypeInv, ShapeInv, NodeInv, NEW t \in Threads, NodeDestroy(t)
    PROVE  NodeInv' /\ NodeType'
<1>0. PICK n \in Names, w \in Pids : n = call[t].name /\ w = call[t].who
  BY NodeMoves DEF TypeInv, At
<1>1. /\ call[t].pc = "do" /\ NodeType
      /\ IF creator[n] = w THEN Turns(t, "put2")
         ELSE Moves(t, "put", call[t].op, call[t].name, call[t].who, Failed(t))
  BY <1>0, NodeMoves DEF TypeInv, At
<1>2. /\ nodes' = nodes /\ ref' = ref /\ open_num' = open_num /\ set_time' = set_time
      /\ creator' = IF creator[n] = w THEN [creator EXCEPT ![n] = NoPid] ELSE creator
  BY <1>0 DEF NodeDestroy
<1>3. NodeType' /\ \A m \in Names \ {n} : creator'[m] = creator[m]
  BY <1>1, <1>2 DEF NodeType
<1>4. /\ \A s \in Threads \ {t} : call'[s] = call[s]
      /\ call'[t].name = n /\ call'[t].pc = IF creator[n] = w THEN "put2" ELSE "put"
  BY <1>0, <1>1 DEF Turns, Moves
<1>5. LiveInv' /\ DelInv'
  BY <1>0, <1>1, <1>2, <1>4, NodeKeeps DEF HoldPcs, NodeType
<1>6. OwnInv' /\ ShutInv'
  BY <1>1, <1>2 DEF NodeInv, OwnInv, ShutInv, NodeType
<1>7. Balance(n)'
  <2>1. /\ Holds(t, n) = 1 /\ Holds(t, n)' = 1 /\ Drops(t, n) = 0
        /\ Drops(t, n)' = IF creator[n] = w THEN 1 ELSE 0
    BY <1>0, <1>1, <1>4 DEF Holds, Drops, HoldPcs
  <2>2. /\ Opens(n)' = Opens(n)
        /\ Created(n)' - Created(n) = IF creator[n] = w THEN -1 ELSE 0
    <3>1. Opens(n)' = Opens(n)
      BY <1>2 DEF Opens
    <3>2. creator[n] = w => creator'[n] = NoPid
      BY <1>1, <1>2 DEF NodeType
    <3>3. creator[n] # w => creator'[n] = creator[n]
      BY <1>2
    <3>. QED
      BY <3>1, <3>2, <3>3, NobodyFacts DEF Created
  <2>3. Balance(n) /\ Cardinality(Opens(n)) \in Nat /\ ref[n] \in Nat
    BY <1>0, <1>1, OpensFinite DEF NodeInv, LiveInv, NodeType, HoldPcs
  <2>4. Cardinality(Opens(n)') \in Nat
    BY <2>2, <2>3
  <2>5. ref'[n] = ref[n] + (Created(n)' - Created(n)) + (Cardinality(Opens(n)') - Cardinality(Opens(n)))
                  + (Holds(t, n)' - Holds(t, n)) + (Drops(t, n)' - Drops(t, n))
    BY <1>2, <2>1, <2>2, <2>3
  <2>. QED
    BY <1>4, <2>3, <2>4, <2>5, BalanceMove
<1>8. \A m \in nodes' \ {n} : Balance(m)'
  BY <1>0, <1>2, <1>3, <1>4, BalanceRest
<1>. QED
  BY <1>2, <1>3, <1>5, <1>6, <1>7, <1>8 DEF NodeInv


(* opening, *)
LEMMA NodeOpenStep ==
    ASSUME TypeInv, ShapeInv, NodeInv, NEW t \in Threads, NodeOpen(t)
    PROVE  NodeInv' /\ NodeType'
<1>0. PICK n \in Names, w \in Pids : n = call[t].name /\ w = call[t].who
  BY NodeMoves DEF TypeInv, At
<1>1. /\ call[t].pc = "do" /\ NodeType
      /\ IF MayOpen(n, w) THEN Turns(t, "list")
         ELSE Moves(t, "put", call[t].op, call[t].name, call[t].who, Failed(t))
  BY <1>0, NodeMoves DEF TypeInv, At
<1>2. /\ nodes' = nodes /\ ref' = ref /\ creator' = creator /\ set_time' = set_time
      /\ MayOpen(n, w) => open_num' = [open_num EXCEPT ![n][w] = @ + 1] /\ open_num[n][w] < MaxOpen
      /\ ~MayOpen(n, w) => open_num' = open_num
  BY <1>0 DEF NodeOpen, MayOpen
<1>3. /\ open_num' \in [Names -> [Pids -> 0 .. MaxOpen]]
      /\ Cardinality(Opens(n)') = Cardinality(Opens(n)) + (IF MayOpen(n, w) THEN 1 ELSE 0)
  <2>1. CASE MayOpen(n, w)
    BY <1>1, <1>2, <2>1, OpensChange
  <2>2. CASE ~MayOpen(n, w)
    <3>1. Opens(n)' = Opens(n)
      BY <1>2, <2>2 DEF Opens
    <3>. QED
      BY <1>1, <1>2, <2>2, <3>1, OpensFinite DEF NodeType
  <2>. QED
    BY <2>1, <2>2
<1>4. NodeType' /\ \A m \in Names \ {n} : open_num'[m] = open_num[m]
  BY <1>1, <1>2, <1>3 DEF NodeType
<1>5. /\ \A s \in Threads \ {t} : call'[s] = call[s]
      /\ call'[t].name = n /\ call'[t].pc = IF MayOpen(n, w) THEN "list" ELSE "put"
  BY <1>0, <1>1 DEF Turns, Moves
<1>6. LiveInv' /\ DelInv'
  BY <1>0, <1>1, <1>2, <1>5, NodeKeeps DEF HoldPcs, NodeType
<1>7. n \in nodes
  BY <1>0, <1>1 DEF NodeInv, LiveInv, HoldPcs
<1>8. OwnInv' /\ ShutInv'
  BY <1>2, <1>4, <1>7 DEF NodeInv, OwnInv, ShutInv
<1>9. Balance(n)'
  <2>1. /\ Holds(t, n) = 1 /\ Holds(t, n)' = (IF MayOpen(n, w) THEN 0 ELSE 1)
        /\ Drops(t, n) = 0 /\ Drops(t, n)' = 0
    BY <1>0, <1>1, <1>5 DEF Holds, Drops, HoldPcs
  <2>2. Created(n)' = Created(n) /\ Created(n) \in {0, 1}
    BY <1>2 DEF Created
  <2>3. Balance(n) /\ Cardinality(Opens(n)) \in Nat /\ ref[n] \in Nat
    BY <1>1, <1>7, OpensFinite DEF NodeInv, NodeType
  <2>4. Cardinality(Opens(n)') \in Nat
    BY <1>3, <2>3
  <2>5. ref'[n] = ref[n] + (Created(n)' - Created(n)) + (Cardinality(Opens(n)') - Cardinality(Opens(n)))
                  + (Holds(t, n)' - Holds(t, n)) + (Drops(t, n)' - Drops(t, n))
    BY <1>2, <1>3, <2>1, <2>2, <2>3
  <2>. QED
    BY <1>5, <2>3, <2>4, <2>5, BalanceMove
<1>10. \A m \in nodes' \ {n} : Balance(m)'
  BY <1>0, <1>2, <1>4, <1>5, BalanceRest
<1>. QED
  BY <1>2, <1>4, <1>6, <1>8, <1>9, <1>10 DEF NodeInv

(* closing one, *)
LEMMA NodeCloseStep ==
    ASSUME TypeInv, ShapeInv, NodeInv, NEW t \in Threads, NodeClose(t)
    PROVE  NodeInv' /\ NodeType'
<1>0. PICK n \in Names, w \in Pids : n = call[t].name /\ w = call[t].who
  BY PutMoves DEF TypeInv, At
<1>. DEFINE is == open_num[n][w] > 0
<1>1. /\ call[t].pc = "do" /\ NodeType
      /\ IF is THEN Turns(t, "put2")
         ELSE Moves(t, "put", call[t].op, call[t].name, call[t].who, Failed(t))
  BY <1>0, PutMoves DEF TypeInv, At
<1>2. /\ nodes' = nodes /\ ref' = ref /\ creator' = creator /\ set_time' = set_time
      /\ is => open_num' = [open_num EXCEPT ![n][w] = @ - 1]
      /\ ~is => open_num' = open_num
  BY <1>0 DEF NodeClose
<1>3. /\ open_num' \in [Names -> [Pids -> 0 .. MaxOpen]]
      /\ Cardinality(Opens(n)') = Cardinality(Opens(n)) - (IF is THEN 1 ELSE 0)
      /\ Cardinality(Opens(n)') \in Nat
  <2>1. CASE is
    BY <1>1, <1>2, <2>1, OpensChange
  <2>2. CASE ~is
    <3>1. Opens(n)' = Opens(n)
      BY <1>2, <2>2 DEF Opens
    <3>. QED
      BY <1>1, <1>2, <2>2, <3>1, OpensFinite DEF NodeType
  <2>. QED
    BY <2>1, <2>2
<1>4. NodeType' /\ \A m \in Names \ {n} : open_num'[m] = open_num[m]
  BY <1>1, <1>2, <1>3 DEF NodeType
<1>5. /\ \A s \in Threads \ {t} : call'[s] = call[s]
      /\ call'[t].name = n /\ call'[t].pc = IF is THEN "put2" ELSE "put"
  BY <1>0, <1>1 DEF Turns, Moves
<1>. HIDE DEF is
<1>6. LiveInv' /\ DelInv'
  BY <1>0, <1>1, <1>2, <1>5, NodeKeeps DEF HoldPcs, NodeType
<1>7. n \in nodes
  BY <1>0, <1>1 DEF NodeInv, LiveInv, HoldPcs
<1>8. OwnInv' /\ ShutInv'
  BY <1>2, <1>4, <1>7 DEF NodeInv, OwnInv, ShutInv
<1>9. Balance(n)'
  <2>1. /\ Holds(t, n) = 1 /\ Holds(t, n)' = 1
        /\ Drops(t, n) = 0 /\ Drops(t, n)' = (IF is THEN 1 ELSE 0)
    BY <1>0, <1>1, <1>5 DEF Holds, Drops, HoldPcs
  <2>2. Created(n)' = Created(n) /\ Created(n) \in {0, 1}
    BY <1>2 DEF Created
  <2>3. Balance(n) /\ Cardinality(Opens(n)) \in Nat /\ ref[n] \in Nat
    BY <1>1, <1>7, OpensFinite DEF NodeInv, NodeType
  <2>5. ref'[n] = ref[n] + (Created(n)' - Created(n)) + (Cardinality(Opens(n)') - Cardinality(Opens(n)))
                  + (Holds(t, n)' - Holds(t, n)) + (Drops(t, n)' - Drops(t, n))
    BY <1>2, <1>3, <2>1, <2>2, <2>3
  <2>. QED
    BY <1>3, <1>5, <2>3, <2>5, BalanceMove
<1>10. \A m \in nodes' \ {n} : Balance(m)'
  BY <1>0, <1>2, <1>4, <1>5, BalanceRest
<1>. QED
  BY <1>2, <1>4, <1>6, <1>8, <1>9, <1>10 DEF NodeInv

(* and listing a pid. *)
LEMMA NodeSetStep ==
    ASSUME TypeInv, ShapeInv, NodeInv, NEW t \in Threads, NodeSetPid(t)
    PROVE  NodeInv' /\ NodeType'
<1>0. PICK n \in Names : n = call[t].name
  BY NodeMoves DEF TypeInv, At
<1>1. /\ call[t].pc = "do" /\ NodeType /\ clock \in [Pids -> Nat] /\ Turns(t, "put")
  BY <1>0, NodeMoves DEF TypeInv, TimeType, At
<1>2. /\ nodes' = nodes /\ ref' = ref /\ creator' = creator /\ open_num' = open_num
      /\ \/ \E q \in Pids : set_time' = [set_time EXCEPT ![n][q] = clock[q]]
         \/ set_time' = set_time
  BY <1>0 DEF NodeSetPid
<1>3. NodeType'
  <2>1. set_time' \in [Names -> [Pids -> Nat \cup {NotListed}]]
    <3>1. ASSUME NEW q \in Pids, set_time' = [set_time EXCEPT ![n][q] = clock[q]]
          PROVE  set_time' \in [Names -> [Pids -> Nat \cup {NotListed}]]
      <4>1. [set_time[n] EXCEPT ![q] = clock[q]] \in [Pids -> Nat \cup {NotListed}]
        BY <1>1 DEF NodeType
      <4>. QED
        BY <1>1, <3>1, <4>1 DEF NodeType
    <3>. QED
      BY <1>1, <1>2, <3>1 DEF NodeType
  <2>. QED
    BY <1>1, <1>2, <2>1 DEF NodeType
<1>4. /\ \A s \in Threads \ {t} : call'[s] = call[s]
      /\ call'[t].name = n /\ call'[t].pc = "put"
  BY <1>0, <1>1 DEF Turns, Moves
<1>5. LiveInv' /\ DelInv'
  BY <1>0, <1>1, <1>2, <1>4, NodeKeeps DEF HoldPcs, NodeType
<1>6. OwnInv' /\ ShutInv'
  BY <1>2 DEF NodeInv, OwnInv, ShutInv
<1>7. Balance(n)'
  <2>1. Holds(t, n)' = Holds(t, n) /\ Drops(t, n)' = Drops(t, n)
    BY <1>0, <1>1, <1>4 DEF Holds, Drops, HoldPcs
  <2>2. Balance(n) /\ ref[n] \in Nat
    BY <1>0, <1>1 DEF NodeInv, LiveInv, NodeType, HoldPcs
  <2>. QED
    BY <1>2, <1>4, <2>1, <2>2, BalanceOther
<1>8. \A m \in nodes' \ {n} : Balance(m)'
  BY <1>0, <1>2, <1>4, BalanceRest
<1>. QED
  BY <1>2, <1>3, <1>5, <1>6, <1>7, <1>8 DEF NodeInv

(* One reference less: of the creation or of an open ... *)
LEMMA NodePut2Step ==
    ASSUME TypeInv, ShapeInv, NodeInv, NEW t \in Threads, NodePut2(t)
    PROVE  NodeInv' /\ NodeType'
<1>0. PICK n \in Names : n = call[t].name
  BY PutMoves DEF TypeInv, At
<1>1. /\ call[t].pc = "put2" /\ NodeType /\ Turns(t, "put")
  BY <1>0, PutMoves DEF TypeInv, At
<1>2. /\ nodes' = nodes /\ creator' = creator /\ open_num' = open_num /\ set_time' = set_time
      /\ ref' = [ref EXCEPT ![n] = @ - 1]
  BY <1>0 DEF NodePut2
<1>3. ref[n] >= 2 /\ n \in nodes /\ ref[n] \in Nat
  BY <1>0, <1>1, HeldHasRef DEF HoldPcs, NodeInv, LiveInv, NodeType
<1>4. NodeType' /\ ref'[n] = ref[n] - 1 /\ \A m \in Names \ {n} : ref'[m] = ref[m]
  BY <1>1, <1>2, <1>3 DEF NodeType
<1>5. /\ \A s \in Threads \ {t} : call'[s] = call[s]
      /\ call'[t].name = n /\ call'[t].pc = "put"
  BY <1>0, <1>1 DEF Turns, Moves
<1>6. LiveInv' /\ DelInv'
  BY <1>0, <1>1, <1>2, <1>4, <1>5, NodeKeeps DEF HoldPcs, NodeType
<1>7. OwnInv' /\ ShutInv'
  BY <1>2 DEF NodeInv, OwnInv, ShutInv
<1>8. Balance(n)'
  <2>1. Holds(t, n) = 1 /\ Holds(t, n)' = 1 /\ Drops(t, n) = 1 /\ Drops(t, n)' = 0
    BY <1>0, <1>1, <1>5 DEF Holds, Drops, HoldPcs
  <2>2. Opens(n)' = Opens(n) /\ Created(n)' = Created(n) /\ Created(n) \in {0, 1}
    BY <1>2 DEF Opens, Created
  <2>3. Balance(n) /\ Cardinality(Opens(n)) \in Nat
    BY <1>3, OpensFinite DEF NodeInv
  <2>. QED
    BY <1>3, <1>4, <1>5, <2>1, <2>2, <2>3, BalanceMove
<1>9. \A m \in nodes' \ {n} : Balance(m)'
  BY <1>0, <1>2, <1>4, <1>5, BalanceRest
<1>. QED
  BY <1>2, <1>4, <1>6, <1>7, <1>8, <1>9 DEF NodeInv

(* ... or the own one, after which the node may go. *)
LEMMA NodePutStep ==
    ASSUME TypeInv, ShapeInv, NodeInv, NEW t \in Threads, NodePut(t)
    PROVE  NodeInv' /\ NodeType'
<1>0. PICK n \in Names : n = call[t].name
  BY PutMoves DEF TypeInv, At
<1>1. /\ call[t].pc = "put" /\ NodeType /\ call[t].back \in Ends
      /\ IF ref[n] = 1 THEN Turns(t, "del") ELSE GoesOn(t, call[t].back)
  BY <1>0, PutMoves DEF TypeInv, At, ShapeInv, Shape
<1>2. /\ nodes' = nodes /\ creator' = creator /\ open_num' = open_num /\ set_time' = set_time
      /\ ref' = [ref EXCEPT ![n] = @ - 1]
  BY <1>0 DEF NodePut
<1>3. ref[n] >= 1 /\ n \in nodes /\ ref[n] \in Nat
  BY <1>0, <1>1, HeldHasRef DEF HoldPcs, NodeInv, LiveInv, NodeType
<1>4. NodeType' /\ ref'[n] = ref[n] - 1 /\ \A m \in Names \ {n} : ref'[m] = ref[m]
  BY <1>1, <1>2, <1>3 DEF NodeType
<1>5. /\ \A s \in Threads \ {t} : call'[s] = call[s]
      /\ call'[t].pc \notin HoldPcs
      /\ call'[t].pc = "del" => call'[t].name = n /\ ref[n] = 1
  BY <1>0, <1>1 DEF Turns, Moves, GoesOn, Leaves, Ends, HoldPcs
<1>6. LiveInv'
  BY <1>2, <1>5 DEF NodeInv, LiveInv
<1>7. DelInv'
  <2>1. \A s \in Threads : call[s].pc = "del" => call[s].name # n
    BY <1>3 DEF NodeInv, DelInv
  <2>2. \A s \in Threads : call'[s].pc = "del" => call'[s].name \in nodes' /\ ref'[call'[s].name] = 0
    <3>. SUFFICES ASSUME NEW s \in Threads, call'[s].pc = "del"
                  PROVE  call'[s].name \in nodes' /\ ref'[call'[s].name] = 0
      OBVIOUS
    <3>1. CASE s = t
      BY <3>1, <1>2, <1>3, <1>4, <1>5
    <3>2. CASE s # t
      <4>1. call'[s] = call[s] /\ call[s].name \in nodes /\ call[s].name # n /\ ref[call[s].name] = 0
        BY <3>2, <1>5, <2>1 DEF NodeInv, DelInv
      <4>. QED
        BY <4>1, <1>1, <1>2, <1>4 DEF NodeType
    <3>. QED
      BY <3>1, <3>2
  <2>. QED
    BY <1>5, <2>1, <2>2 DEF NodeInv, DelInv
<1>8. OwnInv' /\ ShutInv'
  BY <1>2 DEF NodeInv, OwnInv, ShutInv
<1>9. Balance(n)'
  <2>1. Holds(t, n) = 1 /\ Holds(t, n)' = 0 /\ Drops(t, n) = 0 /\ Drops(t, n)' = 0
    BY <1>0, <1>1, <1>5 DEF Holds, Drops, HoldPcs
  <2>2. Opens(n)' = Opens(n) /\ Created(n)' = Created(n) /\ Created(n) \in {0, 1}
    BY <1>2 DEF Opens, Created
  <2>3. Balance(n) /\ Cardinality(Opens(n)) \in Nat
    BY <1>3, OpensFinite DEF NodeInv
  <2>. QED
    BY <1>3, <1>4, <1>5, <2>1, <2>2, <2>3, BalanceMove
<1>10. \A m \in nodes' \ {n} : Balance(m)'
  BY <1>0, <1>2, <1>4, <1>5, BalanceRest
<1>. QED
  BY <1>2, <1>4, <1>6, <1>7, <1>8, <1>9, <1>10 DEF NodeInv

(* The node leaves the table with nobody at work on it. *)
LEMMA NodeDelStep ==
    ASSUME TypeInv, ShapeInv, NodeInv, NEW t \in Threads, NodeDel(t)
    PROVE  NodeInv' /\ NodeType'
<1>0. PICK n \in Names : n = call[t].name
  BY PutMoves DEF TypeInv, At
<1>1. /\ call[t].pc = "del" /\ NodeType /\ Turns(t, "res_put") /\ n \in nodes /\ ref[n] = 0
  BY <1>0, PutMoves DEF TypeInv, At, NodeInv, DelInv
<1>2. /\ nodes' = nodes \ {n} /\ creator' = creator /\ open_num' = open_num /\ ref' = ref
      /\ set_time' = [set_time EXCEPT ![n] = [q \in Pids |-> NotListed]]
  BY <1>0 DEF NodeDel
<1>3. NodeType'
  <2>1. set_time' \in [Names -> [Pids -> Nat \cup {NotListed}]]
    BY <1>1, <1>2 DEF NodeType
  <2>. QED
    BY <1>1, <1>2, <2>1 DEF NodeType
<1>4. /\ \A s \in Threads \ {t} : call'[s] = call[s]
      /\ call'[t].name = n /\ call'[t].pc = "res_put"
  BY <1>0, <1>1 DEF Turns, Moves
<1>5. /\ \A p \in Pids : open_num[n][p] = 0
      /\ \A s \in Threads : call[s].name = n => call[s].pc \notin HoldPcs
      /\ \A s \in Threads \ {t} : call[s].pc = "del" => call[s].name # n
  BY <1>0, <1>1, ZeroIsFree DEF NodeInv, DelInv
<1>6. LiveInv' /\ DelInv'
  BY <1>2, <1>4, <1>5 DEF NodeInv, LiveInv, DelInv, HoldPcs
<1>7. OwnInv' /\ ShutInv'
  BY <1>2, <1>5 DEF NodeInv, OwnInv, ShutInv
<1>8. \A m \in nodes' \ {n} : Balance(m)'
  BY <1>0, <1>2, <1>4, BalanceRest
<1>. QED
  BY <1>2, <1>3, <1>6, <1>7, <1>8 DEF NodeInv

(* All other actions leave the nodes alone. *)
LEMMA AsideSteps ==
    ASSUME TypeInv, ShapeInv, NEW t \in Threads
    PROVE  /\ OpenWait(t) \/ OpenAdd(t) \/ Asking(t) \/ AddToProc(t) \/ DelFromProc(t)
                 => Aside(t) /\ UNCHANGED nodeVars
           /\ ResPut(t) \/ BelongPut(t) \/ RecycleDone(t) => Aside(t) /\ UNCHANGED nodeVars
           /\ \A i \in Ids : Create(t, i) => Aside(t) /\ UNCHANGED nodeVars
           /\ \A p \in Pids : FileRelease(t, p) \/ Belong(t, p) => Aside(t) /\ UNCHANGED nodeVars
           /\ \A n \in Names : RecycleOpened(t, n) \/ RecycleCreated(t, n) => Aside(t) /\ UNCHANGED nodeVars
<1>0. CallType /\ Shape(call[t])
  BY DEF TypeInv, ShapeInv
<1>. USE DEF Aside, HoldPcs, Leaves, Turns, Moves, Free, At
<1>1. ASSUME OpenWait(t) \/ OpenAdd(t) PROVE Aside(t) /\ UNCHANGED nodeVars
  BY <1>0, <1>1, EnterMoves, ListMoves DEF OpenWait, OpenAdd
<1>2. ASSUME Asking(t) PROVE Aside(t) /\ UNCHANGED nodeVars
  <2>1. PICK n \in Names : \/ Ioctl(t, "destroy", n, "unlist") \/ Ioctl(t, "close", n, "unlist")
                           \/ Ioctl(t, "open", n, "list") \/ Ioctl(t, "set", n, "idle")
    BY <1>2 DEF Asking
  <2>2. /\ Free(t)
        /\ \/ Moves(t, "get", "destroy", n, PidOf[t], "unlist") \/ Moves(t, "get", "close", n, PidOf[t], "unlist")
           \/ Moves(t, "get", "open", n, PidOf[t], "list") \/ Moves(t, "get", "set", n, PidOf[t], "idle")
    BY <1>0, <2>1, EnterMoves
  <2>. QED
    BY <2>1, <2>2 DEF Ioctl
<1>3. ASSUME AddToProc(t) \/ DelFromProc(t) PROVE Aside(t) /\ UNCHANGED nodeVars
  BY <1>0, <1>3, ListMoves DEF AddToProc, DelFromProc
<1>4. ASSUME ResPut(t) PROVE Aside(t) /\ UNCHANGED nodeVars
  <2>1. call[t].pc = "res_put" /\ call[t].back \in Ends /\ GoesOn(t, call[t].back)
    BY <1>0, <1>4, PutMoves DEF Shape
  <2>. QED
    BY <1>4, <2>1 DEF ResPut, GoesOn, Ends
<1>5. ASSUME BelongPut(t) \/ RecycleDone(t) PROVE Aside(t) /\ UNCHANGED nodeVars
  BY <1>0, <1>5, RecycleMoves DEF BelongPut, RecycleDone
<1>6. ASSUME NEW i \in Ids, Create(t, i) PROVE Aside(t) /\ UNCHANGED nodeVars
  BY <1>0, <1>6, EnterMoves DEF Create
<1>7. ASSUME NEW p \in Pids, FileRelease(t, p) \/ Belong(t, p) PROVE Aside(t) /\ UNCHANGED nodeVars
  BY <1>0, <1>7, EnterMoves DEF FileRelease, Belong
<1>8. ASSUME NEW n \in Names, RecycleOpened(t, n) \/ RecycleCreated(t, n) PROVE Aside(t) /\ UNCHANGED nodeVars
  BY <1>0, <1>8, RecycleMoves DEF RecycleOpened, RecycleCreated
<1>. QED
  BY <1>1, <1>2, <1>3, <1>4, <1>5, <1>6, <1>7, <1>8

(* Every step keeps them exact. *)
LEMMA NodeStep == TypeInv /\ ShapeInv /\ NodeInv /\ [Next]_vars => NodeInv' /\ NodeType'
<1>. SUFFICES ASSUME TypeInv, ShapeInv, NodeInv, [Next]_vars PROVE NodeInv' /\ NodeType'
  OBVIOUS
<1>1. CASE Outside \/ UNCHANGED vars
  <2>1. UNCHANGED <<nodeVars, call>>
    BY <1>1, OutsideFrame
  <2>2. \A n : Balance(n)' <=> Balance(n)
    BY <2>1 DEF Balance, Created, Opens, Holding, Dropping, nodeVars
  <2>. QED
    BY <2>1, <2>2 DEF NodeInv, LiveInv, DelInv, OwnInv, ShutInv, nodeVars, TypeInv, NodeType
<1>2. ASSUME NEW t \in Threads, Aside(t) /\ UNCHANGED nodeVars PROVE NodeInv' /\ NodeType'
  BY <1>2, NodeAside
<1>. QED
  BY <1>1, <1>2, AsideSteps, NodeAddStep, NodeGetStep, NodeDestroyStep, NodeOpenStep, NodeCloseStep,
     NodeSetStep, NodePut2Step, NodePutStep, NodeDelStep, NextCases


-----------------------------------------------------------------------------
(* Ids.  A thread that carries the reference of a node that is not in the     *)
(* table knows an id that still belongs to the creator of the node.           *)

CarryPcs == {"n_add", "res_put"}

Owner(i)     == IF res[i].pid # NoPid /\ res[i].status = "NORMAL" THEN 1 ELSE 0
IdBalance(i) == res[i].ref = Cardinality(Sharing(i)) + Cardinality(Carrying(i)) + Owner(i)

NodeIdInv  == \A n \in nodes : res[n[2]].pid = n[1]
CarryIdInv == \A t \in Threads : call[t].pc \in CarryPcs => res[call[t].name[2]].pid = call[t].name[1]

ResInv == (\A i \in Ids : IdBalance(i)) /\ NodeIdInv /\ CarryIdInv

(* The invariant of the id table counts its references. *)
LEMMA ResImplies == ResInv => IdRefsExact
  BY DEF ResInv, IdBalance, Owner, NodeIdInv, IdRefsExact

(* The threads that carry a reference to an id, by where they are. *)
LEMMA CarryingIs ==
    ASSUME ShapeInv, NEW i \in Ids
    PROVE  Carrying(i) = {t \in Threads : call[t].pc \in CarryPcs /\ call[t].name[2] = i}
<1>1. \A t \in Threads : call[t].pc \in CarryPcs =>
         call[t].name # NoName /\ (call[t].pc = "n_add" => call[t].op = "create")
  BY NobodyFacts DEF ShapeInv, Shape, OnNode, CarryPcs
<1>. QED
  BY <1>1 DEF Carrying, CarryPcs

(* The nodes that share an id can be counted, *)
LEMMA SharingFinite ==
    ASSUME NodeType
    PROVE  \A i : IsFiniteSet(Sharing(i)) /\ Cardinality(Sharing(i)) \in Nat
<1>1. IsFiniteSet(Pids) /\ IsFiniteSet(Ids)
  BY ShrAssumption DEF ShrAssumption
<1>2. IsFiniteSet(Names)
  BY <1>1, FS_Product DEF Names
<1>. SUFFICES ASSUME NEW i PROVE IsFiniteSet(Sharing(i)) /\ Cardinality(Sharing(i)) \in Nat
  OBVIOUS
<1>3. Sharing(i) \in SUBSET Names
  BY DEF NodeType, Sharing
<1>4. IsFiniteSet(Sharing(i))
  BY <1>2, <1>3, FS_Subset
<1>. QED
  BY <1>4, FS_CardinalityType

(* and so can the threads that carry a reference to it. *)
LEMMA CarryingFinite == \A i : IsFiniteSet(Carrying(i)) /\ Cardinality(Carrying(i)) \in Nat
<1>. SUFFICES ASSUME NEW i PROVE IsFiniteSet(Carrying(i)) /\ Cardinality(Carrying(i)) \in Nat
  OBVIOUS
<1>1. Carrying(i) \in SUBSET Threads /\ IsFiniteSet(Threads)
  BY ShrAssumption DEF Carrying, ShrAssumption
<1>2. IsFiniteSet(Carrying(i))
  BY <1>1, FS_Subset
<1>. QED
  BY <1>2, FS_CardinalityType

Carries(t, i) == IF call[t].pc \in CarryPcs /\ call[t].name[2] = i THEN 1 ELSE 0

(* How that count changes when one thread moves. *)
LEMMA CarryMove ==
    ASSUME ShapeInv, ShapeInv', NEW t \in Threads, \A s \in Threads \ {t} : call'[s] = call[s], NEW i \in Ids
    PROVE  Cardinality(Carrying(i)') = Cardinality(Carrying(i)) - Carries(t, i) + Carries(t, i)'
<1>1. /\ Carrying(i) = {s \in Threads : call[s].pc \in CarryPcs /\ call[s].name[2] = i}
      /\ Carrying(i)' = {s \in Threads : call'[s].pc \in CarryPcs /\ call'[s].name[2] = i}
  <2>1. Carrying(i) = {s \in Threads : call[s].pc \in CarryPcs /\ call[s].name[2] = i}
    BY CarryingIs
  <2>2. Carrying(i)' = {s \in Threads : call'[s].pc \in CarryPcs /\ call'[s].name[2] = i}
    <3>1. \A s \in Threads : call'[s].pc \in CarryPcs =>
             call'[s].name # NoName /\ (call'[s].pc = "n_add" => call'[s].op = "create")
      BY NobodyFacts DEF ShapeInv, Shape, OnNode, CarryPcs
    <3>. QED
      BY <3>1 DEF Carrying, CarryPcs
  <2>. QED
    BY <2>1, <2>2
<1>2. /\ Carrying(i)' = IF Carries(t, i)' = 1 THEN Carrying(i) \cup {t} ELSE Carrying(i) \ {t}
      /\ t \in Carrying(i) <=> Carries(t, i) = 1
      /\ Carries(t, i) \in {0, 1} /\ Carries(t, i)' \in {0, 1}
  BY <1>1 DEF Carries
<1>3. /\ Cardinality(Carrying(i) \cup {t}) = IF t \in Carrying(i) THEN Cardinality(Carrying(i)) ELSE Cardinality(Carrying(i)) + 1
      /\ Cardinality(Carrying(i) \ {t}) = IF t \in Carrying(i) THEN Cardinality(Carrying(i)) - 1 ELSE Cardinality(Carrying(i))
  BY CarryingFinite, FS_AddElement, FS_RemoveElement
<1>. QED
  BY <1>2, <1>3, CarryingFinite

(* A free id is not shared, and who drops a reference finds one. *)
LEMMA IdFacts ==
    ASSUME TypeInv, ShapeInv, ResInv, NEW i \in Ids
    PROVE  /\ res[i].pid = NoPid => Sharing(i) = {} /\ Carrying(i) = {} /\ res[i].ref = 0
           /\ \A t \in Carrying(i) : res[i].ref >= 1
           /\ res[i].ref <= 1 => Cardinality(Sharing(i)) + Cardinality(Carrying(i)) <= 1
           /\ res[i].ref \in Nat /\ Cardinality(Sharing(i)) \in Nat /\ Cardinality(Carrying(i)) \in Nat
<1>0. /\ res[i].ref \in Nat /\ Cardinality(Sharing(i)) \in Nat /\ Cardinality(Carrying(i)) \in Nat
      /\ Owner(i) \in {0, 1}
      /\ res[i].ref = Cardinality(Sharing(i)) + Cardinality(Carrying(i)) + Owner(i)
  BY SharingFinite, CarryingFinite DEF TypeInv, ResType, EntrySet, Owner, ResInv, IdBalance
<1>1. ASSUME res[i].pid = NoPid PROVE Sharing(i) = {} /\ Carrying(i) = {} /\ res[i].ref = 0
  <2>1. Sharing(i) = {}
    BY <1>1, NameFacts, NobodyFacts DEF ResInv, NodeIdInv, Sharing, TypeInv, NodeType
  <2>2. Carrying(i) = {}
    BY <1>1, NameFacts, NobodyFacts, CarryingIs DEF ResInv, CarryIdInv, ShapeInv, Shape, OnNode, CarryPcs
  <2>. QED
    BY <1>0, <1>1, <2>1, <2>2, FS_EmptySet DEF Owner
<1>2. ASSUME NEW t \in Carrying(i) PROVE res[i].ref >= 1
  <2>1. Cardinality(Carrying(i)) # 0
    BY CarryingFinite, FS_EmptySet
  <2>. QED
    BY <1>0, <2>1
<1>. QED
  BY <1>0, <1>1, <1>2

(* A reference that changes hands keeps the count of an id exact. *)
LEMMA IdBalanceMove ==
    ASSUME NodeType, ShapeInv, ShapeInv', NEW t \in Threads, \A s \in Threads \ {t} : call'[s] = call[s],
           NEW i \in Ids, IdBalance(i), Cardinality(Sharing(i)') \in Nat,
           res'[i].ref = res[i].ref + (Cardinality(Sharing(i)') - Cardinality(Sharing(i)))
                         + (Carries(t, i)' - Carries(t, i)) + (Owner(i)' - Owner(i))
    PROVE  IdBalance(i)'
<1>1. /\ Cardinality(Sharing(i)) \in Nat /\ Cardinality(Carrying(i)) \in Nat
      /\ Owner(i) \in {0, 1} /\ Owner(i)' \in {0, 1}
      /\ Carries(t, i) \in {0, 1} /\ Carries(t, i)' \in {0, 1}
  BY SharingFinite, CarryingFinite DEF Owner, Carries
<1>2. Cardinality(Carrying(i)') = Cardinality(Carrying(i)) - Carries(t, i) + Carries(t, i)'
  BY CarryMove
<1>3. res[i].ref = Cardinality(Sharing(i)) + Cardinality(Carrying(i)) + Owner(i)
  BY DEF IdBalance
<1>4. res'[i].ref = Cardinality(Sharing(i)') + Cardinality(Carrying(i)') + Owner(i)'
  BY <1>1, <1>2, <1>3
<1>. QED
  BY <1>4 DEF IdBalance

(* A step that touches no reference to the id. *)
LEMMA IdBalanceOther ==
    ASSUME TypeInv, ShapeInv, ShapeInv', NEW t \in Threads, \A s \in Threads \ {t} : call'[s] = call[s],
           NEW i \in Ids, IdBalance(i), Sharing(i)' = Sharing(i), res'[i] = res[i],
           Carries(t, i)' = Carries(t, i)
    PROVE  IdBalance(i)'
<1>1. /\ Cardinality(Sharing(i)) \in Nat /\ Cardinality(Sharing(i)') \in Nat /\ res[i].ref \in Nat
      /\ Owner(i)' = Owner(i) /\ Owner(i) \in {0, 1} /\ Carries(t, i) \in {0, 1}
  BY SharingFinite DEF TypeInv, ResType, EntrySet, Owner, Carries
<1>2. res'[i].ref = res[i].ref + (Cardinality(Sharing(i)') - Cardinality(Sharing(i)))
                    + (Carries(t, i)' - Carries(t, i)) + (Owner(i)' - Owner(i))
  BY <1>1
<1>. QED
  BY <1>1, <1>2, IdBalanceMove DEF TypeInv

(* A thread that neither had nor gets the reference of a node to its id. *)
LEMMA ResAside ==
    ASSUME TypeInv, ShapeInv, ShapeInv', ResInv, NEW t \in Threads,
           call[t].pc \notin CarryPcs, call'[t].pc \notin CarryPcs,
           \A s \in Threads \ {t} : call'[s] = call[s], UNCHANGED <<res, nodes>>
    PROVE  ResInv' /\ ResType'
<1>1. ASSUME NEW i \in Ids PROVE IdBalance(i)'
  <2>1. Carries(t, i) = 0 /\ Carries(t, i)' = 0 /\ Sharing(i)' = Sharing(i) /\ res'[i] = res[i] /\ IdBalance(i)
    BY DEF Carries, Sharing, ResInv
  <2>. QED
    BY <2>1, IdBalanceOther
<1>2. NodeIdInv' /\ CarryIdInv' /\ ResType'
  BY DEF ResInv, NodeIdInv, CarryIdInv, TypeInv, ResType
<1>. QED
  BY <1>1, <1>2 DEF ResInv


(* Processes take and free ids. *)
LEMMA ResOutside ==
    ASSUME TypeInv, ShapeInv, ResInv, Outside \/ UNCHANGED vars
    PROVE  ResInv' /\ ResType'
<1>0. /\ nodes' = nodes /\ call' = call /\ res \in [Ids -> EntrySet] /\ nodes \subseteq Names
  BY OutsideFrame DEF nodeVars, TypeInv, ResType, NodeType
<1>1. \A i : Sharing(i)' = Sharing(i) /\ Carrying(i)' = Carrying(i)
  BY <1>0 DEF Sharing, Carrying
<1>2. CASE UNCHANGED res
  <2>1. \A i \in Ids : IdBalance(i)'
    BY <1>1, <1>2 DEF ResInv, IdBalance, Owner
  <2>2. NodeIdInv' /\ CarryIdInv' /\ ResType'
    BY <1>0, <1>2 DEF ResInv, NodeIdInv, CarryIdInv, ResType
  <2>. QED
    BY <2>1, <2>2 DEF ResInv
<1>3. ASSUME NEW p \in Pids, NEW i \in Ids, IdAlloc(p, i) PROVE ResInv' /\ ResType'
  <2>1. res[i].pid = NoPid /\ res' = [res EXCEPT ![i] = Entry(p, clock[p], "NORMAL", 1)]
    BY <1>3 DEF IdAlloc
  <2>2. Entry(p, clock[p], "NORMAL", 1) \in EntrySet
    BY DEF Entry, EntrySet, TypeInv, TimeType
  <2>3. /\ ResType' /\ res'[i].pid = p /\ res'[i].ref = 1 /\ res'[i].status = "NORMAL"
        /\ \A j \in Ids \ {i} : res'[j] = res[j]
    BY <1>0, <2>1, <2>2 DEF ResType, Entry
  <2>4. Sharing(i) = {} /\ Carrying(i) = {}
    BY <2>1, IdFacts
  <2>5. \A j \in Ids : IdBalance(j)'
    <3>. SUFFICES ASSUME NEW j \in Ids PROVE IdBalance(j)'
      OBVIOUS
    <3>1. CASE j = i
      <4>1. Cardinality(Sharing(i)') = 0 /\ Cardinality(Carrying(i)') = 0
        BY <1>1, <2>4, FS_EmptySet
      <4>2. Owner(i)' = 1
        BY <2>3, NobodyFacts DEF Owner
      <4>. QED
        BY <3>1, <4>1, <4>2, <2>3 DEF IdBalance
    <3>2. CASE j # i
      BY <3>2, <1>1, <2>3 DEF ResInv, IdBalance, Owner
    <3>. QED
      BY <3>1, <3>2
  <2>6. NodeIdInv'
    BY <1>0, <2>3, <2>4, NameFacts DEF ResInv, NodeIdInv, Sharing
  <2>7. CarryIdInv'
    <3>1. \A t \in Threads : call[t].pc \in CarryPcs => call[t].name \in Names /\ call[t].name[2] # i
      BY <2>4, CarryingIs DEF ShapeInv, Shape, OnNode, CarryPcs
    <3>. QED
      BY <1>0, <2>3, <3>1, NameFacts DEF ResInv, CarryIdInv
  <2>. QED
    BY <2>3, <2>5, <2>6, <2>7 DEF ResInv
<1>4. ASSUME NEW i \in Ids, IdFree(i) PROVE ResInv' /\ ResType'
  <2>. DEFINE e == Entry(res[i].pid, res[i].task, "DEL", res[i].ref)
  <2>0. /\ res[i] \in EntrySet /\ res[i].pid # NoPid /\ res[i].status = "NORMAL"
        /\ res' = [res EXCEPT ![i] = Dropped(e)]
    BY <1>0, <1>4 DEF IdFree
  <2>1. /\ e.pid = res[i].pid /\ e.status = "DEL" /\ e.ref = res[i].ref /\ e.task = res[i].task
        /\ res[i].ref \in Nat /\ res[i].task \in Nat /\ res[i].pid \in Pids
    BY <2>0 DEF Entry, EntrySet
  <2>. HIDE DEF e
  <2>2. /\ Cardinality(Sharing(i)) \in Nat /\ Cardinality(Carrying(i)) \in Nat
        /\ res[i].ref = Cardinality(Sharing(i)) + Cardinality(Carrying(i)) + 1
    BY <2>0, IdFacts DEF ResInv, IdBalance, Owner
  <2>3. /\ Dropped(e) \in EntrySet
        /\ Dropped(e).ref = res[i].ref - 1
        /\ Dropped(e).pid = NoPid \/ Dropped(e).status = "DEL"
        /\ Dropped(e).ref # 0 => Dropped(e).pid = res[i].pid
    <3>1. CASE e.ref <= 1
      <4>1. Dropped(e) = Unused
        BY <3>1 DEF Dropped
      <4>. QED
        BY <3>1, <4>1, <2>1, <2>2 DEF Unused, Entry, EntrySet
    <3>2. CASE ~(e.ref <= 1)
      <4>1. Dropped(e) = Entry(res[i].pid, res[i].task, "DEL", res[i].ref - 1) /\ res[i].ref - 1 \in Nat
        BY <3>2, <2>1 DEF Dropped
      <4>. QED
        BY <4>1, <2>1 DEF Entry, EntrySet
    <3>. QED
      BY <3>1, <3>2
  <2>4. /\ ResType' /\ res'[i] = Dropped(e) /\ \A j \in Ids \ {i} : res'[j] = res[j]
    BY <1>0, <2>0, <2>3 DEF ResType
  <2>5. \A j \in Ids : IdBalance(j)'
    <3>. SUFFICES ASSUME NEW j \in Ids PROVE IdBalance(j)'
      OBVIOUS
    <3>1. CASE j = i
      <4>1. Owner(i)' = 0
        BY <2>3, <2>4 DEF Owner
      <4>2. res'[i].ref = Cardinality(Sharing(i)') + Cardinality(Carrying(i)')
        BY <1>1, <2>2, <2>3, <2>4
      <4>3. Cardinality(Sharing(i)') \in Nat /\ Cardinality(Carrying(i)') \in Nat
        BY <1>1, <2>2
      <4>. QED
        BY <3>1, <4>1, <4>2, <4>3 DEF IdBalance
    <3>2. CASE j # i
      BY <3>2, <1>1, <2>4 DEF ResInv, IdBalance, Owner
    <3>. QED
      BY <3>1, <3>2
  <2>6. Sharing(i) # {} \/ Carrying(i) # {} => res'[i].pid = res[i].pid
    <3>. SUFFICES ASSUME Sharing(i) # {} \/ Carrying(i) # {} PROVE res'[i].pid = res[i].pid
      OBVIOUS
    <3>1. Cardinality(Sharing(i)) # 0 \/ Cardinality(Carrying(i)) # 0
      BY SharingFinite, CarryingFinite, FS_EmptySet DEF TypeInv
    <3>. QED
      BY <3>1, <2>2, <2>3, <2>4
  <2>7. NodeIdInv'
    <3>. SUFFICES ASSUME NEW n \in nodes PROVE res'[n[2]].pid = n[1]
      BY <1>0 DEF NodeIdInv
    <3>1. n[2] = i => Sharing(i) # {}
      BY DEF Sharing
    <3>. QED
      BY <1>0, <2>4, <2>6, <3>1, NameFacts DEF ResInv, NodeIdInv
  <2>8. CarryIdInv'
    <3>. SUFFICES ASSUME NEW t \in Threads, call[t].pc \in CarryPcs
                  PROVE  res'[call[t].name[2]].pid = call[t].name[1]
      BY <1>0 DEF CarryIdInv
    <3>1. call[t].name \in Names /\ (call[t].name[2] = i => Carrying(i) # {})
      BY CarryingIs DEF ShapeInv, Shape, OnNode, CarryPcs
    <3>. QED
      BY <2>4, <2>6, <3>1, NameFacts DEF ResInv, CarryIdInv
  <2>. QED
    BY <2>4, <2>5, <2>7, <2>8 DEF ResInv
<1>5. \/ UNCHANGED res
      \/ \E p \in Pids, i \in Ids : IdAlloc(p, i)
      \/ \E i \in Ids : IdFree(i)
  BY DEF Outside, ProcStart, ProcExit, vars
<1>. QED
  BY <1>2, <1>3, <1>4, <1>5

(* shr_id_create takes a reference to an id that the process owns. *)
LEMMA ResCreate ==
    ASSUME TypeInv, ShapeInv, ShapeInv', ResInv, NEW t \in Threads, NEW i \in Ids, Create(t, i)
    PROVE  ResInv' /\ ResType'
<1>0. PICK p \in Pids : p = PidOf[t]
  BY ShrAssumption DEF ShrAssumption
<1>1. /\ Free(t) /\ Moves(t, "n_add", "create", <<p, i>>, p, "idle")
      /\ res \in [Ids -> EntrySet] /\ nodes \subseteq Names
  BY <1>0, EnterMoves DEF TypeInv, ResType, NodeType
<1>2. /\ res[i].pid = p /\ nodes' = nodes
      /\ res' = [res EXCEPT ![i] = Entry(@.pid, @.task, @.status, @.ref + 1)]
  BY <1>0 DEF Create, nodeVars
<1>3. Entry(res[i].pid, res[i].task, res[i].status, res[i].ref + 1) \in EntrySet /\ res[i].ref \in Nat
  BY <1>1 DEF Entry, EntrySet
<1>4. /\ ResType' /\ \A j \in Ids \ {i} : res'[j] = res[j]
      /\ res'[i].pid = res[i].pid /\ res'[i].status = res[i].status /\ res'[i].ref = res[i].ref + 1
  BY <1>1, <1>2, <1>3 DEF ResType, Entry
<1>5. /\ \A s \in Threads \ {t} : call'[s] = call[s]
      /\ call[t].pc = "idle" /\ call'[t].pc = "n_add" /\ call'[t].name = <<p, i>>
  BY <1>1 DEF Free, Moves
<1>6. ASSUME NEW j \in Ids PROVE IdBalance(j)'
  <2>1. /\ Carries(t, j) = 0 /\ Carries(t, j)' = (IF j = i THEN 1 ELSE 0)
        /\ Sharing(j)' = Sharing(j) /\ IdBalance(j)
    BY <1>2, <1>5 DEF Carries, CarryPcs, Sharing, ResInv
  <2>2. CASE j = i
    <3>1. Owner(j)' = Owner(j) /\ Owner(j) \in {0, 1}
      BY <2>2, <1>4 DEF Owner
    <3>2. Cardinality(Sharing(j)) \in Nat /\ Cardinality(Sharing(j)') \in Nat
      BY <2>1, SharingFinite DEF TypeInv
    <3>3. res'[j].ref = res[j].ref + (Cardinality(Sharing(j)') - Cardinality(Sharing(j)))
                        + (Carries(t, j)' - Carries(t, j)) + (Owner(j)' - Owner(j))
      BY <2>1, <2>2, <3>1, <3>2, <1>3, <1>4
    <3>. QED
      BY <1>5, <2>1, <3>2, <3>3, IdBalanceMove DEF TypeInv
  <2>3. CASE j # i
    BY <1>4, <1>5, <2>1, <2>3, IdBalanceOther
  <2>. QED
    BY <2>2, <2>3
<1>7. NodeIdInv'
  BY <1>1, <1>2, <1>4, NameFacts DEF ResInv, NodeIdInv
<1>8. CarryIdInv'
  <2>. SUFFICES ASSUME NEW s \in Threads, call'[s].pc \in CarryPcs
                PROVE  res'[call'[s].name[2]].pid = call'[s].name[1]
    BY DEF CarryIdInv
  <2>1. CASE s = t
    BY <2>1, <1>2, <1>4, <1>5
  <2>2. CASE s # t
    <3>1. call'[s] = call[s] /\ call[s].name \in Names
      BY <2>2, <1>5 DEF ShapeInv, Shape, OnNode, CarryPcs
    <3>. QED
      BY <3>1, <1>4, NameFacts DEF ResInv, CarryIdInv
  <2>. QED
    BY <2>1, <2>2
<1>. QED
  BY <1>4, <1>6, <1>7, <1>8 DEF ResInv

(* The reference goes to the node that is entered, or is carried on to be     *)
(* given back.                                                                *)
LEMMA ResNodeAdd ==
    ASSUME TypeInv, ShapeInv, ShapeInv', ResInv, NEW t \in Threads, NodeAdd(t)
    PROVE  ResInv' /\ ResType'
<1>0. PICK n \in Names : n = call[t].name
  BY ListMoves DEF TypeInv, At
<1>1. /\ call[t].pc = "n_add" /\ res' = res /\ n[2] \in Ids
      /\ IF n \in nodes THEN Turns(t, "res_put") ELSE Turns(t, "list")
      /\ nodes' = nodes \cup {n} /\ nodes \subseteq Names
  BY <1>0, NameFacts, ListMoves DEF TypeInv, At, NodeAdd, NewNode, nodeVars, NodeType
<1>2. /\ \A s \in Threads \ {t} : call'[s] = call[s]
      /\ call'[t].name = n /\ call'[t].pc = IF n \in nodes THEN "res_put" ELSE "list"
  BY <1>0, <1>1 DEF Turns, Moves
<1>3. res[n[2]].pid = n[1]
  BY <1>0, <1>1 DEF ResInv, CarryIdInv, CarryPcs
<1>4. NodeIdInv'
  BY <1>1, <1>3 DEF ResInv, NodeIdInv
<1>5. CarryIdInv'
  BY <1>1, <1>2, <1>3 DEF ResInv, CarryIdInv
<1>6. ASSUME NEW j \in Ids PROVE IdBalance(j)'
  <2>1. /\ Carries(t, j) = (IF j = n[2] THEN 1 ELSE 0)
        /\ Carries(t, j)' = (IF j = n[2] /\ n \in nodes THEN 1 ELSE 0)
    BY <1>0, <1>1, <1>2 DEF Carries, CarryPcs
  <2>2. /\ IdBalance(j) /\ Owner(j)' = Owner(j) /\ Owner(j) \in {0, 1} /\ res'[j] = res[j] /\ res[j].ref \in Nat
    BY <1>1 DEF ResInv, Owner, TypeInv, ResType, EntrySet
  <2>3. CASE n \in nodes \/ j # n[2]
    <3>1. Sharing(j)' = Sharing(j) /\ Carries(t, j)' = Carries(t, j)
      BY <1>1, <2>1, <2>3 DEF Sharing
    <3>. QED
      BY <1>2, <2>2, <3>1, IdBalanceOther
  <2>4. CASE n \notin nodes /\ j = n[2]
    <3>1. Sharing(j)' = Sharing(j) \cup {n} /\ n \notin Sharing(j)
      BY <1>1, <2>4 DEF Sharing
    <3>2. Cardinality(Sharing(j)') = Cardinality(Sharing(j)) + 1 /\ Cardinality(Sharing(j)) \in Nat
      BY <3>1, SharingFinite, FS_AddElement DEF TypeInv
    <3>3. Cardinality(Sharing(j)') \in Nat
      BY <3>2
    <3>4. res'[j].ref = res[j].ref + (Cardinality(Sharing(j)') - Cardinality(Sharing(j)))
                        + (Carries(t, j)' - Carries(t, j)) + (Owner(j)' - Owner(j))
      BY <2>1, <2>2, <2>4, <3>2
    <3>. QED
      BY <1>2, <2>2, <3>3, <3>4, IdBalanceMove DEF TypeInv
  <2>. QED
    BY <2>3, <2>4
<1>7. ResType'
  BY <1>1 DEF TypeInv, ResType
<1>. QED
  BY <1>4, <1>5, <1>6, <1>7 DEF ResInv

(* The reference of a node that left the table is the thread's to give back. *)
LEMMA ResNodeDel ==
    ASSUME TypeInv, ShapeInv, ShapeInv', NodeInv, ResInv, NEW t \in Threads, NodeDel(t)
    PROVE  ResInv' /\ ResType'
<1>0. PICK n \in Names : n = call[t].name
  BY PutMoves DEF TypeInv, At
<1>1. /\ call[t].pc = "del" /\ Turns(t, "res_put") /\ n \in nodes /\ nodes' = nodes \ {n}
      /\ res' = res /\ n[2] \in Ids
  BY <1>0, NameFacts, PutMoves DEF TypeInv, At, NodeInv, DelInv, NodeDel
<1>2. /\ \A s \in Threads \ {t} : call'[s] = call[s]
      /\ call'[t].name = n /\ call'[t].pc = "res_put"
  BY <1>0, <1>1 DEF Turns, Moves
<1>3. NodeIdInv' /\ CarryIdInv'
  BY <1>1, <1>2 DEF ResInv, NodeIdInv, CarryIdInv
<1>4. ASSUME NEW j \in Ids PROVE IdBalance(j)'
  <2>1. /\ Carries(t, j) = 0 /\ Carries(t, j)' = (IF j = n[2] THEN 1 ELSE 0)
    BY <1>0, <1>1, <1>2 DEF Carries, CarryPcs
  <2>2. /\ IdBalance(j) /\ Owner(j)' = Owner(j) /\ Owner(j) \in {0, 1} /\ res'[j] = res[j] /\ res[j].ref \in Nat
    BY <1>1 DEF ResInv, Owner, TypeInv, ResType, EntrySet
  <2>3. CASE j # n[2]
    <3>1. Sharing(j)' = Sharing(j) /\ Carries(t, j)' = Carries(t, j)
      BY <1>1, <2>1, <2>3 DEF Sharing
    <3>. QED
      BY <1>2, <2>2, <3>1, IdBalanceOther
  <2>4. CASE j = n[2]
    <3>1. Sharing(j)' = Sharing(j) \ {n} /\ n \in Sharing(j)
      BY <1>1, <2>4 DEF Sharing
    <3>2. /\ Cardinality(Sharing(j)') = Cardinality(Sharing(j)) - 1 /\ Cardinality(Sharing(j)) \in Nat
          /\ Cardinality(Sharing(j)') \in Nat
      BY <3>1, SharingFinite, FS_RemoveElement, FS_CardinalityType DEF TypeInv
    <3>3. res'[j].ref = res[j].ref + (Cardinality(Sharing(j)') - Cardinality(Sharing(j)))
                        + (Carries(t, j)' - Carries(t, j)) + (Owner(j)' - Owner(j))
      BY <2>1, <2>2, <2>4, <3>2
    <3>. QED
      BY <1>2, <2>2, <3>2, <3>3, IdBalanceMove DEF TypeInv
  <2>. QED
    BY <2>3, <2>4
<1>5. ResType'
  BY <1>1 DEF TypeInv, ResType
<1>. QED
  BY <1>3, <1>4, <1>5 DEF ResInv

(* With the last reference the id is free, and nobody knows it any more. *)
LEMMA ResPutStep ==
    ASSUME TypeInv, ShapeInv, ShapeInv', ResInv, NEW t \in Threads, ResPut(t)
    PROVE  ResInv' /\ ResType'
<1>0. PICK n \in Names, i \in Ids : n = call[t].name /\ i = n[2]
  BY NameFacts, PutMoves DEF TypeInv, At
<1>1. /\ call[t].pc = "res_put" /\ GoesOn(t, call[t].back) /\ call[t].back \in Ends
      /\ res' = [res EXCEPT ![i] = Dropped(@)] /\ nodes' = nodes /\ nodes \subseteq Names
      /\ res \in [Ids -> EntrySet]
  BY <1>0, PutMoves DEF TypeInv, At, ResPut, nodeVars, ShapeInv, Shape, NodeType, ResType
<1>2. /\ \A s \in Threads \ {t} : call'[s] = call[s]
      /\ call'[t].pc \notin CarryPcs
  BY <1>1 DEF GoesOn, Leaves, Turns, Moves, Ends, CarryPcs
<1>3. t \in Carrying(i)
  BY <1>0, <1>1, CarryingIs DEF CarryPcs
<1>4. /\ res[i].ref >= 1 /\ res[i].ref \in Nat /\ res[i].pid = n[1] /\ n[1] \in Pids
      /\ Cardinality(Sharing(i)) \in Nat /\ Cardinality(Carrying(i)) \in Nat /\ Owner(i) \in {0, 1}
      /\ res[i].ref = Cardinality(Sharing(i)) + Cardinality(Carrying(i)) + Owner(i)
      /\ Cardinality(Carrying(i)) >= 1
  <2>1. res[i].pid = n[1] /\ n[1] \in Pids /\ Owner(i) \in {0, 1}
    BY <1>0, <1>1, NameFacts DEF ResInv, CarryIdInv, CarryPcs, Owner
  <2>2. Cardinality(Carrying(i)) # 0
    BY <1>3, CarryingFinite, FS_EmptySet
  <2>. QED
    BY <1>3, <2>1, <2>2, IdFacts DEF ResInv, IdBalance
<1>5. /\ Dropped(res[i]) \in EntrySet /\ Dropped(res[i]).ref = res[i].ref - 1
      /\ (IF Dropped(res[i]).pid # NoPid /\ Dropped(res[i]).status = "NORMAL" THEN 1 ELSE 0) = Owner(i)
      /\ res[i].ref # 1 => Dropped(res[i]).pid = res[i].pid
  <2>1. CASE res[i].ref <= 1
    <3>1. Dropped(res[i]) = Unused /\ Owner(i) = 0
      BY <2>1, <1>4 DEF Dropped
    <3>. QED
      BY <2>1, <3>1, <1>4 DEF Unused, Entry, EntrySet
  <2>2. CASE ~(res[i].ref <= 1)
    <3>1. /\ Dropped(res[i]) = Entry(res[i].pid, res[i].task, res[i].status, res[i].ref - 1)
          /\ res[i].ref - 1 \in Nat /\ res[i] \in EntrySet
      BY <2>2, <1>1, <1>4 DEF Dropped
    <3>. QED
      BY <3>1 DEF Entry, EntrySet, Owner
  <2>. QED
    BY <2>1, <2>2
<1>6. ResType' /\ res'[i] = Dropped(res[i]) /\ \A j \in Ids \ {i} : res'[j] = res[j]
  BY <1>1, <1>5 DEF ResType
<1>7. ASSUME NEW j \in Ids PROVE IdBalance(j)'
  <2>1. /\ Carries(t, j) = (IF j = i THEN 1 ELSE 0) /\ Carries(t, j)' = 0
        /\ Sharing(j)' = Sharing(j) /\ IdBalance(j)
    BY <1>0, <1>1, <1>2 DEF Carries, CarryPcs, Sharing, ResInv
  <2>2. CASE j # i
    BY <1>2, <1>6, <2>1, <2>2, IdBalanceOther
  <2>3. CASE j = i
    <3>1. Owner(j)' = Owner(j)
      BY <2>3, <1>5, <1>6 DEF Owner
    <3>2. Cardinality(Sharing(j)') \in Nat
      BY <2>1, <2>3, <1>4
    <3>3. res'[j].ref = res[j].ref + (Cardinality(Sharing(j)') - Cardinality(Sharing(j)))
                        + (Carries(t, j)' - Carries(t, j)) + (Owner(j)' - Owner(j))
      BY <2>1, <2>3, <3>1, <1>4, <1>5, <1>6
    <3>. QED
      BY <1>2, <2>1, <3>2, <3>3, IdBalanceMove DEF TypeInv
  <2>. QED
    BY <2>2, <2>3
<1>8. res[i].ref = 1 => Sharing(i) = {} /\ Carrying(i) = {t}
  <2>. SUFFICES ASSUME res[i].ref = 1 PROVE Sharing(i) = {} /\ Carrying(i) = {t}
    OBVIOUS
  <2>1. Cardinality(Sharing(i)) = 0 /\ Cardinality(Carrying(i)) = 1
    BY <1>4
  <2>2. Sharing(i) = {}
    BY <2>1, SharingFinite, FS_EmptySet DEF TypeInv
  <2>3. Cardinality(Carrying(i) \ {t}) = 0 /\ IsFiniteSet(Carrying(i) \ {t})
    BY <2>1, <1>3, CarryingFinite, FS_RemoveElement
  <2>4. Carrying(i) \ {t} = {}
    BY <2>3, FS_EmptySet
  <2>. QED
    BY <2>2, <2>4, <1>3
<1>9. NodeIdInv'
  <2>. SUFFICES ASSUME NEW m \in nodes PROVE res'[m[2]].pid = m[1]
    BY <1>1 DEF NodeIdInv
  <2>1. m[2] \in Ids /\ res[m[2]].pid = m[1] /\ (m[2] = i => Sharing(i) # {})
    BY <1>1, NameFacts DEF ResInv, NodeIdInv, Sharing
  <2>. QED
    BY <2>1, <1>5, <1>6, <1>8
<1>10. CarryIdInv'
  <2>. SUFFICES ASSUME NEW s \in Threads, call'[s].pc \in CarryPcs
                PROVE  res'[call'[s].name[2]].pid = call'[s].name[1]
    BY DEF CarryIdInv
  <2>1. s # t /\ call'[s] = call[s]
    BY <1>2
  <2>2. call[s].name \in Names /\ (call[s].name[2] = i => s \in Carrying(i))
    BY <2>1, CarryingIs DEF ShapeInv, Shape, OnNode, CarryPcs
  <2>3. call[s].name[2] \in Ids /\ res[call[s].name[2]].pid = call[s].name[1]
    BY <2>1, <2>2, NameFacts DEF ResInv, CarryIdInv
  <2>. QED
    BY <2>1, <2>2, <2>3, <1>5, <1>6, <1>8
<1>. QED
  BY <1>6, <1>7, <1>9, <1>10 DEF ResInv


(* What carries no reference of a node outside the table. *)
LightStep(t) ==
    \/ OpenWait(t) \/ OpenAdd(t) \/ Asking(t) \/ AddToProc(t) \/ DelFromProc(t)
    \/ NodeGet(t) \/ NodeDestroy(t) \/ NodeOpen(t) \/ NodeClose(t) \/ NodeSetPid(t)
    \/ NodePut2(t) \/ NodePut(t) \/ BelongPut(t) \/ RecycleDone(t)
    \/ \E p \in Pids : FileRelease(t, p) \/ Belong(t, p)
    \/ \E n \in Names : RecycleOpened(t, n) \/ RecycleCreated(t, n)

Light(t) ==
    /\ call[t].pc \notin CarryPcs /\ call'[t].pc \notin CarryPcs
    /\ \A s \in Threads \ {t} : call'[s] = call[s]
    /\ UNCHANGED <<res, nodes>>

(* The steps that touch no reference to any id. *)
LEMMA LightSteps ==
    ASSUME TypeInv, ShapeInv, NEW t \in Threads, LightStep(t)
    PROVE  Light(t)
<1>0. CallType /\ Shape(call[t])
  BY DEF TypeInv, ShapeInv
<1>. USE DEF Light, CarryPcs, Leaves, Turns, Moves, Free, At
<1>1. ASSUME OpenWait(t) \/ OpenAdd(t) PROVE Light(t)
  BY <1>0, <1>1, EnterMoves, ListMoves DEF OpenWait, OpenAdd, nodeVars
<1>2. ASSUME Asking(t) PROVE Light(t)
  <2>1. PICK n \in Names : \/ Ioctl(t, "destroy", n, "unlist") \/ Ioctl(t, "close", n, "unlist")
                           \/ Ioctl(t, "open", n, "list") \/ Ioctl(t, "set", n, "idle")
    BY <1>2 DEF Asking
  <2>2. /\ Free(t)
        /\ \/ Moves(t, "get", "destroy", n, PidOf[t], "unlist") \/ Moves(t, "get", "close", n, PidOf[t], "unlist")
           \/ Moves(t, "get", "open", n, PidOf[t], "list") \/ Moves(t, "get", "set", n, PidOf[t], "idle")
    BY <1>0, <2>1, EnterMoves
  <2>. QED
    BY <2>1, <2>2 DEF Ioctl, nodeVars
<1>3. ASSUME AddToProc(t) \/ DelFromProc(t) PROVE Light(t)
  BY <1>0, <1>3, ListMoves DEF AddToProc, DelFromProc, nodeVars
<1>4. ASSUME NodeGet(t) PROVE Light(t)
  <2>1. /\ call[t].pc = "get" /\ (call[t].op = "destroy" => call[t].back \in Ends)
        /\ \/ Turns(t, "do")
           \/ GoesOn(t, IF call[t].op = "destroy" THEN call[t].back ELSE Failed(t))
    BY <1>0, <1>4, NodeMoves DEF Shape
  <2>. QED
    BY <1>4, <2>1 DEF NodeGet, GoesOn, Failed, Ends
<1>5. ASSUME NodeDestroy(t) \/ NodeOpen(t) \/ NodeClose(t) \/ NodeSetPid(t) PROVE Light(t)
  <2>1. /\ At(t, "do")
        /\ \/ \E l \in {"put2", "list", "put"} : Turns(t, l)
           \/ Moves(t, "put", call[t].op, call[t].name, call[t].who, Failed(t))
    BY <1>0, <1>5, NodeMoves, PutMoves
  <2>. QED
    BY <1>5, <2>1 DEF NodeDestroy, NodeOpen, NodeClose, NodeSetPid
<1>6. ASSUME NodePut2(t) \/ NodePut(t) PROVE Light(t)
  <2>1. /\ call[t].pc \in {"put2", "put"} /\ call[t].back \in Ends
        /\ \/ \E l \in {"put", "del"} : Turns(t, l)
           \/ GoesOn(t, call[t].back)
    BY <1>0, <1>6, PutMoves DEF Shape
  <2>. QED
    BY <1>6, <2>1 DEF NodePut2, NodePut, GoesOn, Ends
<1>7. ASSUME BelongPut(t) \/ RecycleDone(t) PROVE Light(t)
  BY <1>0, <1>7, RecycleMoves DEF BelongPut, RecycleDone, nodeVars
<1>8. ASSUME NEW p \in Pids, FileRelease(t, p) \/ Belong(t, p) PROVE Light(t)
  BY <1>0, <1>8, EnterMoves DEF FileRelease, Belong, nodeVars
<1>9. ASSUME NEW n \in Names, RecycleOpened(t, n) \/ RecycleCreated(t, n) PROVE Light(t)
  BY <1>0, <1>9, RecycleMoves DEF RecycleOpened, RecycleCreated, nodeVars
<1>. QED
  BY <1>1, <1>2, <1>3, <1>4, <1>5, <1>6, <1>7, <1>8, <1>9 DEF LightStep

(* Every step keeps the references of ids exact. *)
LEMMA ResStep ==
    TypeInv /\ ShapeInv /\ NodeInv /\ ResInv /\ [Next]_vars => ResInv' /\ ResType'
<1>. SUFFICES ASSUME TypeInv, ShapeInv, NodeInv, ResInv, [Next]_vars PROVE ResInv' /\ ResType'
  OBVIOUS
<1>0. ShapeInv'
  BY ShapeStep
<1>1. ASSUME NEW t \in Threads, LightStep(t) PROVE ResInv' /\ ResType'
  BY <1>0, <1>1, LightSteps, ResAside DEF Light
<1>2. ASSUME NEW t \in Threads, NodeAdd(t) \/ NodeDel(t) \/ ResPut(t) PROVE ResInv' /\ ResType'
  BY <1>0, <1>2, ResNodeAdd, ResNodeDel, ResPutStep
<1>3. ASSUME NEW t \in Threads, NEW i \in Ids, Create(t, i) PROVE ResInv' /\ ResType'
  BY <1>0, <1>3, ResCreate
<1>4. \/ Outside \/ UNCHANGED vars
      \/ \E t \in Threads : NodeAdd(t) \/ NodeDel(t) \/ ResPut(t)
      \/ \E t \in Threads, i \in Ids : Create(t, i)
      \/ \E t \in Threads : LightStep(t)
  BY NextCases DEF LightStep
<1>. QED
  BY <1>1, <1>2, <1>3, <1>4, ResOutside


-----------------------------------------------------------------------------
(* Lists and times. *)

(* One entry of a list changes. *)
LEMMA ListPut ==
    ASSUME NEW f \in [Pids -> [Names -> Nat]], NEW p \in Pids, NEW n \in Names, NEW k \in Nat, NEW g,
           g = [f EXCEPT ![p][n] = k]
    PROVE  /\ g \in [Pids -> [Names -> Nat]] /\ g[p][n] = k
           /\ \A q \in Pids, m \in Names : q # p \/ m # n => g[q][m] = f[q][m]
<1>1. [f[p] EXCEPT ![n] = k] \in [Names -> Nat]
  OBVIOUS
<1>2. g \in [Pids -> [Names -> Nat]]
  BY <1>1
<1>. QED
  BY <1>2

(* The steps that change a list of a context. *)
LEMMA ListChanges ==
    ASSUME TypeInv, ShapeInv, NEW t \in Threads
    PROVE  /\ AddToProc(t) =>
                 LET n == call[t].name
                     p == call[t].who
                 IN  /\ UNCHANGED start_time
                     /\ \/ Leaves(t) /\ call[t].op = "open" /\ opened' = [opened EXCEPT ![p][n] = @ + 1] /\ created' = created
                        \/ Leaves(t) /\ call[t].op = "create" /\ created' = [created EXCEPT ![p][n] = @ + 1] /\ opened' = opened
                        \/ /\ call[t].op = "open" /\ Moves(t, "get", "close", n, p, "idle")
                           /\ UNCHANGED <<opened, created>>
                        \/ /\ call[t].op = "create" /\ Moves(t, "get", "destroy", n, p, "idle")
                           /\ UNCHANGED <<opened, created>>
<1>1. SUFFICES ASSUME AddToProc(t)
      PROVE  LET n == call[t].name
                 p == call[t].who
             IN  /\ UNCHANGED start_time
                 /\ \/ Leaves(t) /\ call[t].op = "open" /\ opened' = [opened EXCEPT ![p][n] = @ + 1] /\ created' = created
                    \/ Leaves(t) /\ call[t].op = "create" /\ created' = [created EXCEPT ![p][n] = @ + 1] /\ opened' = opened
                    \/ /\ call[t].op = "open" /\ Moves(t, "get", "close", n, p, "idle")
                       /\ UNCHANGED <<opened, created>>
                    \/ /\ call[t].op = "create" /\ Moves(t, "get", "destroy", n, p, "idle")
                       /\ UNCHANGED <<opened, created>>
  OBVIOUS
<1>2. PICK n \in Names, p \in Pids : n = call[t].name /\ p = call[t].who
  BY <1>1, ListMoves DEF TypeInv, At
<1>3. call[t].op \in {"open", "create"} /\ UNCHANGED start_time /\ CallType
  BY <1>1 DEF AddToProc, ShapeInv, Shape, TypeInv
<1>4. CASE Return(t) /\ call[t].op = "open"
  <2>1. Leaves(t)
    BY <1>3, <1>4, ReturnMoves
  <2>2. call'[t].pc = "idle"
    BY <2>1 DEF Leaves, Moves
  <2>3. ~Begin(t, "get", "close", n, p, "idle")
    BY <2>2, <1>3 DEF Begin, CallType, Call
  <2>4. opened' = [opened EXCEPT ![p][n] = @ + 1] /\ created' = created
    BY <1>1, <1>2, <1>4, <2>3 DEF AddToProc
  <2>. QED
    BY <1>2, <1>3, <1>4, <2>1, <2>4
<1>5. CASE Return(t) /\ call[t].op = "create"
  <2>1. Leaves(t)
    BY <1>3, <1>5, ReturnMoves
  <2>2. call'[t].pc = "idle"
    BY <2>1 DEF Leaves, Moves
  <2>3. ~Begin(t, "get", "destroy", n, p, "idle")
    BY <2>2, <1>3 DEF Begin, CallType, Call
  <2>4. created' = [created EXCEPT ![p][n] = @ + 1] /\ opened' = opened
    BY <1>1, <1>2, <1>5, <2>3 DEF AddToProc
  <2>. QED
    BY <1>2, <1>3, <1>5, <2>1, <2>4
<1>6. CASE ~Return(t)
  <2>1. /\ Begin(t, "get", IF call[t].op = "open" THEN "close" ELSE "destroy", n, p, "idle")
        /\ UNCHANGED <<opened, created>>
    BY <1>1, <1>2, <1>6 DEF AddToProc
  <2>2. "get" \in Pcs /\ "close" \in Ops /\ "destroy" \in Ops /\ "idle" \in Pcs
    BY DEF Pcs, Ops
  <2>3. CASE call[t].op = "open"
    <3>1. Moves(t, "get", "close", n, p, "idle")
      BY <2>1, <2>2, <2>3, <1>3, BeginMoves
    <3>. QED
      BY <3>1, <2>1, <2>3, <1>2, <1>3
  <2>4. CASE call[t].op = "create"
    <3>1. Moves(t, "get", "destroy", n, p, "idle")
      BY <2>1, <2>2, <2>4, <1>3, BeginMoves
    <3>. QED
      BY <3>1, <2>1, <2>4, <1>2, <1>3
  <2>. QED
    BY <1>3, <2>3, <2>4
<1>. QED
  BY <1>3, <1>4, <1>5, <1>6

(* All other steps of a thread leave the lists alone. *)
NoLists(t) ==
    \/ OpenWait(t) \/ Asking(t) \/ NodeAdd(t)
    \/ NodeGet(t) \/ NodeDestroy(t) \/ NodeOpen(t) \/ NodeClose(t) \/ NodeSetPid(t)
    \/ NodePut2(t) \/ NodePut(t) \/ NodeDel(t) \/ ResPut(t) \/ BelongPut(t)
    \/ \E i \in Ids : Create(t, i)
    \/ \E p \in Pids : FileRelease(t, p) \/ Belong(t, p)

(* Steps that leave lists and start times alone. *)
LEMMA ListFrame ==
    ASSUME NEW t \in Threads, NoLists(t)
    PROVE  UNCHANGED <<procs, start_time, created, opened>>
  BY DEF NoLists, OpenWait, Asking, Ioctl, NodeAdd, NodeGet, NodeDestroy, NodeOpen, NodeClose, NodeSetPid,
         NodePut2, NodePut, NodeDel, ResPut, BelongPut, Create, FileRelease, Belong, procVars

(* The others are few. *)
LEMMA ListCases ==
    ASSUME [Next]_vars
    PROVE  \/ Outside \/ UNCHANGED vars
           \/ \E t \in Threads : NoLists(t) \/ OpenAdd(t) \/ AddToProc(t) \/ DelFromProc(t) \/ RecycleDone(t)
           \/ \E t \in Threads, n \in Names : RecycleOpened(t, n) \/ RecycleCreated(t, n)
  BY NextCases DEF NoLists

(* Every step keeps the types of the lists. *)
LEMMA ListStep == TypeInv /\ ShapeInv /\ [Next]_vars => ListType'
<1>. SUFFICES ASSUME TypeInv, ShapeInv, [Next]_vars PROVE ListType'
  OBVIOUS
<1>0. /\ start_time \in [Pids -> Nat] /\ created \in [Pids -> [Names -> Nat]]
      /\ opened \in [Pids -> [Names -> Nat]] /\ clock \in [Pids -> Nat]
  BY DEF TypeInv, ListType, TimeType
<1>1. CASE UNCHANGED <<start_time, created, opened>>
  BY <1>0, <1>1 DEF ListType
<1>2. ASSUME NEW t \in Threads, OpenAdd(t) PROVE ListType'
  <2>1. PidOf[t] \in Pids
    BY ShrAssumption DEF ShrAssumption
  <2>2. CASE NewProc(PidOf[t])
    BY <2>1, <2>2, <1>0 DEF NewProc, ListType
  <2>. QED
    BY <1>1, <1>2, <2>2 DEF OpenAdd, procVars
<1>3. ASSUME NEW t \in Threads, AddToProc(t) PROVE ListType'
  <2>1. PICK n \in Names, p \in Pids : n = call[t].name /\ p = call[t].who
    BY <1>3, ListMoves DEF TypeInv, At
  <2>2. /\ UNCHANGED start_time
        /\ \/ opened' = [opened EXCEPT ![p][n] = @ + 1] /\ created' = created
           \/ created' = [created EXCEPT ![p][n] = @ + 1] /\ opened' = opened
           \/ UNCHANGED <<opened, created>>
    BY <1>3, <2>1, ListChanges
  <2>3. opened[p][n] + 1 \in Nat /\ created[p][n] + 1 \in Nat
    BY <1>0
  <2>4. opened' = [opened EXCEPT ![p][n] = @ + 1] => opened' \in [Pids -> [Names -> Nat]]
    BY <1>0, <2>3, ListPut
  <2>5. created' = [created EXCEPT ![p][n] = @ + 1] => created' \in [Pids -> [Names -> Nat]]
    BY <1>0, <2>3, ListPut
  <2>. QED
    BY <1>0, <2>2, <2>4, <2>5 DEF ListType
<1>4. ASSUME NEW t \in Threads, DelFromProc(t) PROVE ListType'
  <2>1. PICK n \in Names, p \in Pids : n = call[t].name /\ p = call[t].who
    BY <1>4, ListMoves DEF TypeInv, At
  <2>2. /\ UNCHANGED start_time
        /\ \/ opened' = [opened EXCEPT ![p][n] = IF @ = 0 THEN 0 ELSE @ - 1] /\ created' = created
           \/ created' = [created EXCEPT ![p][n] = IF @ = 0 THEN 0 ELSE @ - 1] /\ opened' = opened
    BY <1>4, <2>1 DEF DelFromProc
  <2>3. /\ (IF opened[p][n] = 0 THEN 0 ELSE opened[p][n] - 1) \in Nat
        /\ (IF created[p][n] = 0 THEN 0 ELSE created[p][n] - 1) \in Nat
    BY <1>0
  <2>4. opened' = [opened EXCEPT ![p][n] = IF @ = 0 THEN 0 ELSE @ - 1] => opened' \in [Pids -> [Names -> Nat]]
    BY <1>0, <2>3, ListPut
  <2>5. created' = [created EXCEPT ![p][n] = IF @ = 0 THEN 0 ELSE @ - 1] => created' \in [Pids -> [Names -> Nat]]
    BY <1>0, <2>3, ListPut
  <2>. QED
    BY <1>0, <2>2, <2>4, <2>5 DEF ListType
<1>5. ASSUME NEW t \in Threads, RecycleDone(t) PROVE ListType'
  BY <1>0, <1>5 DEF RecycleDone, ListType
<1>6. ASSUME NEW t \in Threads, NEW n \in Names, RecycleOpened(t, n) \/ RecycleCreated(t, n) PROVE ListType'
  <2>1. PICK p \in Pids : p = call[t].who
    BY <1>6, RecycleMoves DEF TypeInv
  <2>2. /\ UNCHANGED start_time
        /\ \/ opened' = [opened EXCEPT ![p][n] = @ - 1] /\ opened[p][n] > 0 /\ created' = created
           \/ created' = [created EXCEPT ![p][n] = 0] /\ opened' = opened
    BY <1>6, <2>1 DEF RecycleOpened, RecycleCreated
  <2>3. (opened[p][n] > 0 => opened[p][n] - 1 \in Nat) /\ 0 \in Nat
    BY <1>0
  <2>4. opened' = [opened EXCEPT ![p][n] = @ - 1] /\ opened[p][n] > 0 => opened' \in [Pids -> [Names -> Nat]]
    BY <1>0, <2>3, ListPut
  <2>5. created' = [created EXCEPT ![p][n] = 0] => created' \in [Pids -> [Names -> Nat]]
    BY <1>0, <2>3, ListPut
  <2>. QED
    BY <1>0, <2>2, <2>4, <2>5 DEF ListType
<1>. QED
  BY <1>1, <1>2, <1>3, <1>4, <1>5, <1>6, ListCases, ListFrame, OutsideFrame DEF procVars

(* Every step keeps the types of the times, and clocks do not go back. *)
LEMMA TimeStep == TypeInv /\ [Next]_vars => TimeType' /\ \A p \in Pids : clock[p] <= clock'[p]
<1>. SUFFICES ASSUME TypeInv, [Next]_vars PROVE TimeType' /\ \A p \in Pids : clock[p] <= clock'[p]
  OBVIOUS
<1>0. clock \in [Pids -> Nat] /\ running \in [Pids -> BOOLEAN]
  BY DEF TypeInv, TimeType
<1>1. CASE UNCHANGED <<clock, running>>
  BY <1>0, <1>1 DEF TimeType
<1>2. ASSUME NEW p \in Pids, ProcStart(p) PROVE TimeType' /\ \A q \in Pids : clock[q] <= clock'[q]
  <2>1. clock' = [clock EXCEPT ![p] = @ + 1] /\ running' = [running EXCEPT ![p] = TRUE]
    BY <1>2 DEF ProcStart
  <2>2. clock' \in [Pids -> Nat] /\ \A q \in Pids : clock[q] <= clock'[q]
    BY <1>0, <2>1
  <2>3. running' \in [Pids -> BOOLEAN]
    BY <1>0, <2>1
  <2>. QED
    BY <2>2, <2>3 DEF TimeType
<1>3. ASSUME NEW p \in Pids, ProcExit(p) PROVE TimeType' /\ \A q \in Pids : clock[q] <= clock'[q]
  <2>1. clock' = clock /\ running' = [running EXCEPT ![p] = FALSE]
    BY <1>3 DEF ProcExit
  <2>2. clock' \in [Pids -> Nat] /\ \A q \in Pids : clock[q] <= clock'[q]
    BY <1>0, <2>1
  <2>3. running' \in [Pids -> BOOLEAN]
    BY <1>0, <2>1
  <2>. QED
    BY <2>2, <2>3 DEF TimeType
<1>4. \/ UNCHANGED <<clock, running>>
      \/ \E p \in Pids : ProcStart(p) \/ ProcExit(p)
  <2>1. CASE Outside \/ UNCHANGED vars
    BY <2>1 DEF Outside, IdAlloc, IdFree, vars, timeVars
  <2>2. ASSUME NEW t \in Threads, Working(t) PROVE UNCHANGED <<clock, running>>
    BY <2>2, WorkFrame
  <2>3. ASSUME NEW t \in Threads, OpenWait(t) \/ OpenAdd(t) \/ Asking(t) \/ BelongPut(t) \/ RecycleDone(t)
        PROVE  UNCHANGED <<clock, running>>
    BY <2>3 DEF OpenWait, OpenAdd, Asking, Ioctl, BelongPut, RecycleDone, timeVars
  <2>4. ASSUME NEW t \in Threads, NEW i \in Ids, Create(t, i) PROVE UNCHANGED <<clock, running>>
    BY <2>4 DEF Create, timeVars
  <2>5. ASSUME NEW t \in Threads, NEW p \in Pids, FileRelease(t, p) \/ Belong(t, p)
        PROVE  UNCHANGED <<clock, running>>
    BY <2>5 DEF FileRelease, Belong, timeVars
  <2>. QED
    BY <2>1, <2>2, <2>3, <2>4, <2>5, NextCases DEF Working
<1>. QED
  BY <1>1, <1>2, <1>3, <1>4

-----------------------------------------------------------------------------
(* What holds of any processes. *)

ShrInv == TypeInv /\ ShapeInv /\ CtxInv /\ NodeInv /\ ResInv

(* Initially there is nothing to count. *)
LEMMA InitShr == Init => ShrInv
<1>. SUFFICES ASSUME Init PROVE ShrInv
  OBVIOUS
<1>1. Unused \in EntrySet /\ Unused.ref = 0 /\ Unused.pid = NoPid
  BY DEF Unused, Entry, EntrySet
<1>2. Idle \in CallSet
  BY DEF Idle, Call, CallSet, Pcs, Ops
<1>3. \A t \in Threads : Free(t)
  BY DEF Init, Free, Idle, Call
<1>4. TypeInv
  <2>1. ResType
    BY <1>1 DEF Init, ResType
  <2>2. NodeType
    BY ShrAssumption DEF Init, NodeType, ShrAssumption
  <2>3. ProcType
    BY DEF Init, ProcType
  <2>4. ListType
    BY DEF Init, ListType
  <2>5. TimeType
    BY DEF Init, TimeType
  <2>6. CallType
    BY <1>2 DEF Init, CallType
  <2>. QED
    BY <2>1, <2>2, <2>3, <2>4, <2>5, <2>6 DEF TypeInv
<1>5. ShapeInv
  BY <1>3 DEF ShapeInv, Shape, Free, OnNode
<1>6. CtxInv
  BY <1>3 DEF Init, CtxInv, WhoInv, KrefInv, SoleInv, LastInv, AskInv, Asks, Free
<1>7. NodeInv
  <2>1. LiveInv /\ DelInv
    BY <1>3 DEF LiveInv, DelInv, Free, HoldPcs
  <2>2. OwnInv /\ ShutInv /\ nodes = {}
    BY DEF Init, OwnInv, ShutInv
  <2>. QED
    BY <2>1, <2>2 DEF NodeInv
<1>8. ResInv
  <2>1. \A i \in Ids : Sharing(i) = {} /\ Carrying(i) = {} /\ Owner(i) = 0 /\ res[i].ref = 0
    BY <1>1, <1>3 DEF Init, Sharing, Carrying, Owner, Free
  <2>2. \A i \in Ids : IdBalance(i)
    BY <2>1, FS_EmptySet DEF IdBalance
  <2>3. NodeIdInv /\ CarryIdInv
    BY <1>3 DEF Init, NodeIdInv, CarryIdInv, Free, CarryPcs
  <2>. QED
    BY <2>2, <2>3 DEF ResInv
<1>. QED
  BY <1>4, <1>5, <1>6, <1>7, <1>8 DEF ShrInv

(* The invariant is kept by every step, *)
LEMMA ShrStep == ShrInv /\ [Next]_vars => ShrInv'
<1>. SUFFICES ASSUME ShrInv, [Next]_vars PROVE ShrInv'
  OBVIOUS
<1>1. CallType' /\ ShapeInv'
  BY ShapeStep DEF ShrInv
<1>2. CtxInv' /\ ProcType'
  BY CtxStep DEF ShrInv
<1>3. NodeInv' /\ NodeType'
  BY NodeStep DEF ShrInv
<1>4. ResInv' /\ ResType'
  BY ResStep DEF ShrInv
<1>5. ListType' /\ TimeType'
  BY ListStep, TimeStep DEF ShrInv
<1>. QED
  BY <1>1, <1>2, <1>3, <1>4, <1>5 DEF ShrInv, TypeInv

(* and so always holds. *)
LEMMA ShrAlways == Spec => []ShrInv
  BY InitShr, ShrStep, PTL DEF Spec

(* The variables of shr_id keep their types: no reference count of an id, a   *)
(* node or a context falls below zero, however the calls of any number of     *)
(* threads and the releases of their files interleave.                        *)
THEOREM TypeCorrect == Spec => []TypeOK
<1>1. ShrInv => TypeOK
  BY TypeSplit DEF ShrInv
<1>. QED
  BY <1>1, ShrAlways, PTL

(* kref of a node counts its creation, its opens and the threads at work on   *)
(* it: shr_id_node_release runs under nobody, and as soon as it may.          *)
THEOREM NodeRefsCount == Spec => []NodeRefsExact
<1>1. ShrInv => NodeRefsExact
  BY NodeImplies DEF ShrInv
<1>. QED
  BY <1>1, ShrAlways, PTL

(* Every node holds one reference to its id, from trs_res_id_get of its       *)
(* creation to trs_res_id_put of its release, and the id belongs to the       *)
(* creator of the node all the while.                                         *)
THEOREM IdRefsCount == Spec => []IdRefsExact
<1>1. ShrInv => IdRefsExact
  BY ResImplies DEF ShrInv
<1>. QED
  BY <1>1, ShrAlways, PTL

(* The context that a thread reads, works for or recycles is in the table,    *)
(* and shr_id_node_recycle runs once, alone.                                  *)
THEOREM ContextIsHeld == Spec => []ContextHeld
<1>1. ShrInv => ContextHeld
  BY CtxImplies DEF ShrInv
<1>. QED
  BY <1>1, ShrAlways, PTL


-----------------------------------------------------------------------------
(* Opens and the list of them.  The two are changed under different locks, so *)
(* several threads of a process may be between the one and the other.         *)

(* An open that is not on the list of its context yet, or not any more, and a *)
(* close that is still on it.                                                 *)
Due(t)  == \/ call[t].pc = "list" /\ call[t].op = "open"
           \/ call[t].pc \in {"get", "do"} /\ call[t].op = "close" /\ call[t].back # "unlist"
Paid(t) == /\ call[t].pc \in {"put2", "put", "del", "res_put", "unlist"}
           /\ call[t].op = "close" /\ call[t].back = "unlist"

DueFor(t, n, p)  == call[t].who = p /\ call[t].name = n /\ Due(t)
PaidFor(t, n, p) == call[t].who = p /\ call[t].name = n /\ Paid(t)

Owing(n, p)  == {t \in Threads : DueFor(t, n, p)}
Paying(n, p) == {t \in Threads : PaidFor(t, n, p)}

(* Every open of a process is on its list or in the hands of a thread that    *)
(* has not listed or undone it yet, and beyond that the list holds what       *)
(* threads have closed and not taken off.                                     *)
ListedInv == \A n \in Names, p \in Pids :
    open_num[n][p] + Cardinality(Paying(n, p)) <= opened[p][n] + Cardinality(Owing(n, p))
GoneInv   == \A n \in Names, p \in Pids \ procs : open_num[n][p] = 0

OpenInv == ListedInv /\ GoneInv

(* Of a context that is gone nothing is open. *)
LEMMA OpenImplies == TypeInv /\ OpenInv => GoneHasNothingOpen
  BY DEF TypeInv, NodeType, OpenInv, GoneInv, GoneHasNothingOpen

OpenType ==
    \A n \in Names, p \in Pids : open_num[n][p] \in Nat /\ opened[p][n] \in Nat

(* The types that the argument on opens needs. *)
LEMMA OpenTypes == TypeInv => OpenType
  BY ShrAssumption DEF TypeInv, NodeType, ListType, OpenType, ShrAssumption

(* The same after a step. *)
LEMMA OpenTypesNext == TypeInv' => OpenType'
  BY ShrAssumption DEF TypeInv, NodeType, ListType, OpenType, ShrAssumption

(* What thread t contributes to the two counts. *)
Dues(t, n, p)  == IF DueFor(t, n, p) THEN 1 ELSE 0
Pays(t, n, p)  == IF PaidFor(t, n, p) THEN 1 ELSE 0

(* The threads between a node and the list can be counted. *)
LEMMA OwingFinite ==
    \A n, p : /\ IsFiniteSet(Owing(n, p)) /\ Cardinality(Owing(n, p)) \in Nat
              /\ IsFiniteSet(Paying(n, p)) /\ Cardinality(Paying(n, p)) \in Nat
<1>. SUFFICES ASSUME NEW n, NEW p
              PROVE  /\ IsFiniteSet(Owing(n, p)) /\ Cardinality(Owing(n, p)) \in Nat
                     /\ IsFiniteSet(Paying(n, p)) /\ Cardinality(Paying(n, p)) \in Nat
  OBVIOUS
<1>1. Owing(n, p) \in SUBSET Threads /\ Paying(n, p) \in SUBSET Threads /\ IsFiniteSet(Threads)
  BY ShrAssumption DEF Owing, Paying, ShrAssumption
<1>2. IsFiniteSet(Owing(n, p)) /\ IsFiniteSet(Paying(n, p))
  BY <1>1, FS_Subset
<1>. QED
  BY <1>2, FS_CardinalityType

(* How the two counts change when one thread moves. *)
LEMMA OwingMove ==
    ASSUME NEW t \in Threads, \A s \in Threads \ {t} : call'[s] = call[s], NEW n, NEW p
    PROVE  /\ Cardinality(Owing(n, p)') = Cardinality(Owing(n, p)) - Dues(t, n, p) + Dues(t, n, p)'
           /\ Cardinality(Paying(n, p)') = Cardinality(Paying(n, p)) - Pays(t, n, p) + Pays(t, n, p)'
<1>1. /\ Owing(n, p)' = IF DueFor(t, n, p)' THEN Owing(n, p) \cup {t} ELSE Owing(n, p) \ {t}
      /\ t \in Owing(n, p) <=> DueFor(t, n, p)
  BY DEF Owing, DueFor, Due
<1>2. /\ Paying(n, p)' = IF PaidFor(t, n, p)' THEN Paying(n, p) \cup {t} ELSE Paying(n, p) \ {t}
      /\ t \in Paying(n, p) <=> PaidFor(t, n, p)
  BY DEF Paying, PaidFor, Paid
<1>3. /\ Cardinality(Owing(n, p) \cup {t}) = IF t \in Owing(n, p) THEN Cardinality(Owing(n, p)) ELSE Cardinality(Owing(n, p)) + 1
      /\ Cardinality(Owing(n, p) \ {t}) = IF t \in Owing(n, p) THEN Cardinality(Owing(n, p)) - 1 ELSE Cardinality(Owing(n, p))
      /\ Cardinality(Paying(n, p) \cup {t}) = IF t \in Paying(n, p) THEN Cardinality(Paying(n, p)) ELSE Cardinality(Paying(n, p)) + 1
      /\ Cardinality(Paying(n, p) \ {t}) = IF t \in Paying(n, p) THEN Cardinality(Paying(n, p)) - 1 ELSE Cardinality(Paying(n, p))
  BY OwingFinite, FS_AddElement, FS_RemoveElement
<1>. QED
  BY <1>1, <1>2, <1>3, OwingFinite DEF Dues, Pays

(* A step of one thread keeps the balance of node n and process p when it     *)
(* adds no more to the opens than to the list, or leaves nothing open and     *)
(* nobody about to take a close off the list.                                 *)
Fair(t, n, p) ==
    \/ open_num'[n][p] + Pays(t, n, p)' + opened[p][n] + Dues(t, n, p)
          <= open_num[n][p] + Pays(t, n, p) + opened'[p][n] + Dues(t, n, p)'
    \/ open_num'[n][p] = 0 /\ \A s \in Threads : ~PaidFor(s, n, p)'

(* Such a step keeps opens and list entries in step. *)
LEMMA OpenMove ==
    ASSUME OpenInv, OpenType, OpenType', NEW t \in Threads, \A s \in Threads \ {t} : call'[s] = call[s],
           procs' = procs,
           \A n \in Names, p \in Pids : Fair(t, n, p),
           \A n \in Names, p \in Pids \ procs : open_num'[n][p] <= open_num[n][p]
    PROVE  OpenInv'
<1>1. GoneInv'
  <2>. SUFFICES ASSUME NEW n \in Names, NEW p \in Pids \ procs PROVE open_num'[n][p] = 0
    BY DEF GoneInv
  <2>. QED
    BY DEF OpenInv, GoneInv, OpenType
<1>2. ListedInv'
  <2>. SUFFICES ASSUME NEW n \in Names, NEW p \in Pids
                PROVE  open_num'[n][p] + Cardinality(Paying(n, p)') <= opened'[p][n] + Cardinality(Owing(n, p)')
    BY DEF ListedInv
  <2>1. /\ Cardinality(Owing(n, p)') = Cardinality(Owing(n, p)) - Dues(t, n, p) + Dues(t, n, p)'
        /\ Cardinality(Paying(n, p)') = Cardinality(Paying(n, p)) - Pays(t, n, p) + Pays(t, n, p)'
    BY OwingMove
  <2>2. /\ Cardinality(Owing(n, p)) \in Nat /\ Cardinality(Paying(n, p)) \in Nat
        /\ Dues(t, n, p) \in {0, 1} /\ Dues(t, n, p)' \in {0, 1}
        /\ Pays(t, n, p) \in {0, 1} /\ Pays(t, n, p)' \in {0, 1}
    BY OwingFinite DEF Dues, Pays
  <2>3. /\ open_num[n][p] \in Nat /\ open_num'[n][p] \in Nat /\ opened[p][n] \in Nat /\ opened'[p][n] \in Nat
    BY DEF OpenType
  <2>4. open_num[n][p] + Cardinality(Paying(n, p)) <= opened[p][n] + Cardinality(Owing(n, p))
    BY DEF OpenInv, ListedInv
  <2>5. CASE open_num'[n][p] + Pays(t, n, p)' + opened[p][n] + Dues(t, n, p)
                <= open_num[n][p] + Pays(t, n, p) + opened'[p][n] + Dues(t, n, p)'
    BY <2>1, <2>2, <2>3, <2>4, <2>5
  <2>6. CASE open_num'[n][p] = 0 /\ \A s \in Threads : ~PaidFor(s, n, p)'
    <3>1. Paying(n, p)' = {}
      BY <2>6 DEF Paying
    <3>2. Cardinality(Paying(n, p)') = 0
      BY <3>1, FS_EmptySet
    <3>3. Cardinality(Owing(n, p)') \in Nat
      <4>1. Owing(n, p)' \in SUBSET Threads /\ IsFiniteSet(Threads)
        BY ShrAssumption DEF Owing, ShrAssumption
      <4>2. IsFiniteSet(Owing(n, p)')
        BY <4>1, FS_Subset
      <4>. QED
        BY <4>2, FS_CardinalityType
    <3>. QED
      BY <2>3, <2>6, <3>2, <3>3
  <2>. QED
    BY <2>5, <2>6 DEF Fair
<1>. QED
  BY <1>1, <1>2 DEF OpenInv

(* A step that changes no open and no list, and after which the thread owes   *)
(* what it owed.                                                              *)
LEMMA OpenQuiet ==
    ASSUME OpenInv, OpenType, NEW t \in Threads, \A s \in Threads \ {t} : call'[s] = call[s],
           \A n \in Names, p \in Pids : open_num'[n][p] = open_num[n][p] /\ opened'[p][n] = opened[p][n],
           procs' = procs,
           \A n \in Names, p \in Pids : /\ DueFor(t, n, p) => DueFor(t, n, p)'
                                        /\ PaidFor(t, n, p)' => PaidFor(t, n, p)
    PROVE  OpenInv'
<1>1. OpenType'
  BY DEF OpenType
<1>2. \A n \in Names, p \in Pids : Fair(t, n, p)
  <2>. SUFFICES ASSUME NEW n \in Names, NEW p \in Pids PROVE Fair(t, n, p)
    OBVIOUS
  <2>1. open_num[n][p] \in Nat /\ opened[p][n] \in Nat
    BY DEF OpenType
  <2>2. /\ Dues(t, n, p) \in {0, 1} /\ Dues(t, n, p)' \in {0, 1} /\ Dues(t, n, p) <= Dues(t, n, p)'
        /\ Pays(t, n, p) \in {0, 1} /\ Pays(t, n, p)' \in {0, 1} /\ Pays(t, n, p)' <= Pays(t, n, p)
    BY DEF Dues, Pays
  <2>. QED
    BY <2>1, <2>2 DEF Fair
<1>3. \A n \in Names, p \in Pids \ procs : open_num'[n][p] <= open_num[n][p]
  BY DEF OpenType
<1>. QED
  BY <1>1, <1>2, <1>3, OpenMove

(* The thread that recycles a context is the only one that works for it. *)
LEMMA RecyclesAlone ==
    ASSUME CtxInv, NEW t \in Threads, call[t].back = "recycle", NEW s \in Threads \ {t}
    PROVE  call[s].who # call[t].who
  BY DEF CtxInv, SoleInv

(* A close that finds nothing open and does not go back to an ioctl.  The     *)
(* recycling works alone, and an undo finds what it opened.                   *)
LEMMA OpenInVain ==
    ASSUME ~Forestalled, ShrInv, ShrInv', OpenInv, NEW t \in Threads,
           \A s \in Threads \ {t} : call'[s] = call[s],
           UNCHANGED <<open_num, opened, procs>>,
           NEW n \in Names, NEW p \in Pids, n = call[t].name, p = call[t].who, open_num[n][p] = 0,
           call[t].pc \in {"get", "do"}, ~Paid(t)'
    PROVE  OpenInv'
<1>0. /\ TypeInv /\ ShapeInv /\ CtxInv /\ OpenType
  BY OpenTypes DEF ShrInv
<1>1. \A m \in Names, q \in Pids : ~PaidFor(t, m, q)'
  BY DEF PaidFor
<1>2. CASE ~Due(t)
  <2>1. \A m \in Names, q \in Pids : ~DueFor(t, m, q)
    BY <1>2 DEF DueFor
  <2>. QED
    BY <1>0, <1>1, <2>1, OpenQuiet
<1>3. CASE Due(t)
  <2>1. call[t].op = "close" /\ call[t].back = "recycle"
    <3>1. call[t].op = "close" /\ call[t].back # "unlist"
      BY <1>3 DEF Due
    <3>2. call[t].back \in Ends
      BY <1>0, <3>1 DEF ShapeInv, Shape
    <3>3. call[t].back # "idle"
      BY <3>1 DEF Forestalled
    <3>. QED
      BY <3>1, <3>2, <3>3 DEF Ends
  <2>2. \A s \in Threads : ~PaidFor(s, n, p)'
    <3>. SUFFICES ASSUME NEW s \in Threads \ {t} PROVE ~PaidFor(s, n, p)'
      BY <1>1
    <3>1. call[s].who # p
      BY <1>0, <2>1, RecyclesAlone
    <3>. QED
      BY <3>1 DEF PaidFor
  <2>3. \A m \in Names, q \in Pids : Fair(t, m, q)
    <3>. SUFFICES ASSUME NEW m \in Names, NEW q \in Pids PROVE Fair(t, m, q)
      OBVIOUS
    <3>1. CASE m = n /\ q = p
      BY <2>2, <3>1 DEF Fair
    <3>2. CASE m # n \/ q # p
      <4>1. Dues(t, m, q) = 0 /\ Dues(t, m, q)' \in {0, 1} /\ Pays(t, m, q)' = 0 /\ Pays(t, m, q) \in {0, 1}
        BY <1>1, <3>2 DEF Dues, Pays, DueFor
      <4>2. open_num[m][q] \in Nat /\ opened[q][m] \in Nat
        BY <1>0 DEF OpenType
      <4>. QED
        BY <4>1, <4>2 DEF Fair
    <3>. QED
      BY <3>1, <3>2
  <2>4. OpenType' /\ \A m \in Names, q \in Pids \ procs : open_num'[m][q] <= open_num[m][q]
    BY <1>0 DEF OpenType
  <2>. QED
    BY <1>0, <2>3, <2>4, OpenMove
<1>. QED
  BY <1>2, <1>3

(* A step of a thread of context p that changes the opens of node n by p, or  *)
(* the entry of n, and after which the thread owes nothing else.              *)
LEMMA OpenAt ==
    ASSUME OpenInv, OpenType, OpenType', NEW t \in Threads, \A s \in Threads \ {t} : call'[s] = call[s],
           NEW n \in Names, NEW p \in Pids, procs' = procs, p \in procs,
           \A m \in Names, q \in Pids : (m # n \/ q # p) =>
              open_num'[m][q] = open_num[m][q] /\ opened'[q][m] = opened[q][m],
           \A m \in Names, q \in Pids : DueFor(t, m, q) \/ PaidFor(t, m, q)' => m = n /\ q = p,
           Fair(t, n, p)
    PROVE  OpenInv'
<1>1. \A m \in Names, q \in Pids : Fair(t, m, q)
  <2>. SUFFICES ASSUME NEW m \in Names, NEW q \in Pids, m # n \/ q # p PROVE Fair(t, m, q)
    OBVIOUS
  <2>1. Dues(t, m, q) = 0 /\ Dues(t, m, q)' \in {0, 1} /\ Pays(t, m, q)' = 0 /\ Pays(t, m, q) \in {0, 1}
    BY DEF Dues, Pays
  <2>2. open_num[m][q] \in Nat /\ opened[q][m] \in Nat
    BY DEF OpenType
  <2>. QED
    BY <2>1, <2>2 DEF Fair
<1>2. \A m \in Names, q \in Pids \ procs : open_num'[m][q] <= open_num[m][q]
  BY DEF OpenType
<1>. QED
  BY <1>1, <1>2, OpenMove

(* Listing an open, or undoing it when there is no memory. *)
LEMMA OpenAddToProc ==
    ASSUME ShrInv, ShrInv', OpenInv, NEW t \in Threads, AddToProc(t)
    PROVE  OpenInv'
<1>0. /\ TypeInv /\ ShapeInv /\ CtxInv /\ OpenType /\ OpenType' /\ opened \in [Pids -> [Names -> Nat]]
  BY OpenTypes, OpenTypesNext DEF ShrInv, TypeInv, ListType
<1>1. PICK n \in Names, p \in Pids : n = call[t].name /\ p = call[t].who
  BY <1>0, ListMoves DEF TypeInv, At
<1>2. call[t].pc = "list" /\ UNCHANGED <<procs, open_num>> /\ p \in procs
  BY <1>0, <1>1, NobodyFacts DEF AddToProc, nodeVars, CtxInv, WhoInv
<1>3. \/ Leaves(t) /\ call[t].op = "open" /\ opened' = [opened EXCEPT ![p][n] = @ + 1]
      \/ Leaves(t) /\ call[t].op = "create" /\ opened' = opened
      \/ call[t].op = "open" /\ Moves(t, "get", "close", n, p, "idle") /\ opened' = opened
      \/ call[t].op = "create" /\ Moves(t, "get", "destroy", n, p, "idle") /\ opened' = opened
  BY <1>0, <1>1, ListChanges
<1>4. CASE Leaves(t) /\ call[t].op = "open" /\ opened' = [opened EXCEPT ![p][n] = @ + 1]
  <2>1. /\ opened'[p][n] = opened[p][n] + 1
        /\ \A q \in Pids, m \in Names : q # p \/ m # n => opened'[q][m] = opened[q][m]
    <3>1. opened[p][n] + 1 \in Nat
      BY <1>0
    <3>. QED
      BY <1>0, <1>4, <3>1, ListPut
  <2>2. /\ opened[p][n] \in Nat /\ open_num[n][p] \in Nat
    BY <1>0 DEF OpenType
  <2>3. \A s \in Threads \ {t} : call'[s] = call[s]
    BY <1>4 DEF Leaves, Moves
  <2>4. \A m \in Names, q \in Pids : DueFor(t, m, q) \/ PaidFor(t, m, q)' => m = n /\ q = p
    BY <1>1, <1>4 DEF DueFor, PaidFor, Paid, Leaves, Moves
  <2>5. DueFor(t, n, p) /\ ~DueFor(t, n, p)' /\ ~PaidFor(t, n, p)' /\ ~PaidFor(t, n, p)
    BY <1>1, <1>2, <1>4 DEF DueFor, PaidFor, Due, Paid, Leaves, Moves
  <2>6. Dues(t, n, p) = 1 /\ Dues(t, n, p)' = 0 /\ Pays(t, n, p)' = 0 /\ Pays(t, n, p) = 0
    BY <2>5 DEF Dues, Pays
  <2>7. Fair(t, n, p)
    BY <1>2, <2>1, <2>2, <2>6 DEF Fair
  <2>. QED
    BY <1>0, <1>1, <1>2, <2>1, <2>3, <2>4, <2>7, OpenAt
<1>5. CASE opened' = opened /\ ~(Leaves(t) /\ call[t].op = "open" /\ opened' = [opened EXCEPT ![p][n] = @ + 1])
  <2>1. \A s \in Threads \ {t} : call'[s] = call[s]
    BY <1>3, <1>5 DEF Leaves, Moves
  <2>2. \A m \in Names, q \in Pids : /\ DueFor(t, m, q) => DueFor(t, m, q)'
                                     /\ ~PaidFor(t, m, q)'
    BY <1>1, <1>2, <1>3, <1>5 DEF DueFor, PaidFor, Due, Paid, Leaves, Moves
  <2>. QED
    BY <1>0, <1>2, <1>5, <2>1, <2>2, OpenQuiet
<1>. QED
  BY <1>3, <1>4, <1>5

(* Taking a close off the list. *)
LEMMA OpenDelFromProc ==
    ASSUME ShrInv, ShrInv', OpenInv, NEW t \in Threads, DelFromProc(t)
    PROVE  OpenInv'
<1>0. /\ TypeInv /\ ShapeInv /\ CtxInv /\ OpenType /\ OpenType' /\ opened \in [Pids -> [Names -> Nat]]
  BY OpenTypes, OpenTypesNext DEF ShrInv, TypeInv, ListType
<1>1. PICK n \in Names, p \in Pids : n = call[t].name /\ p = call[t].who
  BY <1>0, ListMoves DEF TypeInv, At
<1>2. /\ call[t].pc = "unlist" /\ call[t].back = "unlist" /\ UNCHANGED <<procs, open_num>>
      /\ p \in procs /\ Leaves(t)
  <2>1. call[t].pc = "unlist" /\ UNCHANGED <<procs, open_num>>
    BY DEF DelFromProc, nodeVars
  <2>2. call[t].back = "unlist"
    BY <1>0, <2>1 DEF ShapeInv, Shape
  <2>3. p \in procs
    BY <1>0, <1>1, NobodyFacts DEF CtxInv, WhoInv
  <2>4. Leaves(t)
    BY <1>0, ListMoves DEF TypeInv
  <2>. QED
    BY <2>1, <2>2, <2>3, <2>4
<1>3. /\ \A s \in Threads \ {t} : call'[s] = call[s]
      /\ \A m \in Names, q \in Pids : ~DueFor(t, m, q) /\ ~PaidFor(t, m, q)'
  BY <1>2 DEF DueFor, PaidFor, Due, Paid, Leaves, Moves
<1>4. CASE call[t].op # "close"
  <2>1. opened' = opened
    BY <1>4 DEF DelFromProc
  <2>. QED
    BY <1>0, <1>2, <1>3, <2>1, OpenQuiet
<1>5. CASE call[t].op = "close"
  <2>1. PaidFor(t, n, p)
    BY <1>1, <1>2, <1>5 DEF PaidFor, Paid
  <2>2. open_num[n][p] \in Nat /\ opened[p][n] \in Nat
    BY <1>0 DEF OpenType
  <2>3. opened' = [opened EXCEPT ![p][n] = IF @ = 0 THEN 0 ELSE @ - 1]
    BY <1>1, <1>5 DEF DelFromProc
  <2>4. (IF opened[p][n] = 0 THEN 0 ELSE opened[p][n] - 1) \in Nat
    BY <2>2
  <2>5. /\ opened'[p][n] = (IF opened[p][n] = 0 THEN 0 ELSE opened[p][n] - 1)
        /\ \A q \in Pids, m \in Names : q # p \/ m # n => opened'[q][m] = opened[q][m]
    BY <1>0, <2>3, <2>4, ListPut
  <2>6. Dues(t, n, p) = 0 /\ Dues(t, n, p)' \in {0, 1} /\ Pays(t, n, p)' = 0 /\ Pays(t, n, p) = 1
    BY <1>3, <2>1 DEF Dues, Pays
  <2>7. Fair(t, n, p)
    BY <1>2, <2>2, <2>5, <2>6 DEF Fair
  <2>. QED
    BY <1>0, <1>1, <1>2, <1>3, <2>5, <2>7, OpenAt
<1>. QED
  BY <1>4, <1>5

(* One close for each reference of an entry. *)
LEMMA OpenRecycle ==
    ASSUME ShrInv, ShrInv', OpenInv, NEW t \in Threads, NEW n \in Names,
           RecycleOpened(t, n) \/ RecycleCreated(t, n)
    PROVE  OpenInv'
<1>0. /\ TypeInv /\ ShapeInv /\ CtxInv /\ OpenType /\ OpenType' /\ opened \in [Pids -> [Names -> Nat]]
  BY OpenTypes, OpenTypesNext DEF ShrInv, TypeInv, ListType
<1>1. PICK p \in Pids : p = call[t].who
  BY <1>0, RecycleMoves DEF TypeInv
<1>2. /\ call[t].pc = "recycle" /\ UNCHANGED <<procs, open_num>> /\ p \in procs
      /\ \/ /\ Moves(t, "get", "close", n, p, "recycle")
            /\ opened[p][n] > 0 /\ opened' = [opened EXCEPT ![p][n] = @ - 1]
         \/ Moves(t, "get", "destroy", n, p, "recycle") /\ opened' = opened
  BY <1>0, <1>1, NobodyFacts, RecycleMoves DEF RecycleOpened, RecycleCreated, nodeVars, CtxInv, WhoInv, TypeInv
<1>3. /\ \A s \in Threads \ {t} : call'[s] = call[s]
      /\ \A m \in Names, q \in Pids : ~DueFor(t, m, q) /\ ~PaidFor(t, m, q)'
  BY <1>2 DEF DueFor, PaidFor, Due, Paid, Moves
<1>4. CASE opened' = opened
  BY <1>0, <1>2, <1>3, <1>4, OpenQuiet
<1>5. CASE /\ Moves(t, "get", "close", n, p, "recycle")
           /\ opened[p][n] > 0 /\ opened' = [opened EXCEPT ![p][n] = @ - 1]
  <2>1. open_num[n][p] \in Nat /\ opened[p][n] \in Nat
    BY <1>0, <1>1 DEF OpenType
  <2>2. opened[p][n] - 1 \in Nat
    BY <1>5, <2>1
  <2>3. /\ opened'[p][n] = opened[p][n] - 1
        /\ \A q \in Pids, m \in Names : q # p \/ m # n => opened'[q][m] = opened[q][m]
    BY <1>0, <1>5, <2>2, ListPut
  <2>4. DueFor(t, n, p)'
    BY <1>5 DEF DueFor, Due, Moves
  <2>5. Fair(t, n, p)
    <3>1. Dues(t, n, p) = 0 /\ Dues(t, n, p)' = 1 /\ Pays(t, n, p)' = 0 /\ Pays(t, n, p) \in {0, 1}
      BY <1>3, <2>4 DEF Dues, Pays
    <3>. QED
      BY <1>2, <2>1, <2>3, <3>1 DEF Fair
  <2>6. procs' = procs /\ p \in procs
    BY <1>2
  <2>7. \A m \in Names, q \in Pids : (m # n \/ q # p) =>
           open_num'[m][q] = open_num[m][q] /\ opened'[q][m] = opened[q][m]
    BY <1>2, <2>3
  <2>. QED
    BY <1>0, <1>1, <1>3, <2>5, <2>6, <2>7, OpenAt
<1>. QED
  BY <1>2, <1>4, <1>5

(* The context goes with an empty list, ... *)
LEMMA OpenGone ==
    ASSUME ShrInv, OpenInv, NEW t \in Threads, RecycleDone(t)
    PROVE  OpenInv'
<1>0. /\ TypeInv /\ ShapeInv /\ CtxInv /\ OpenType
  BY OpenTypes DEF ShrInv
<1>1. PICK p \in Pids : p = call[t].who
  BY <1>0, RecycleMoves DEF TypeInv
<1>2. /\ call[t].pc = "recycle" /\ UNCHANGED <<opened, open_num>> /\ Leaves(t) /\ procs' = procs \ {p}
      /\ \A m \in Names : opened[p][m] = 0
  BY <1>0, <1>1, RecycleMoves DEF RecycleDone, nodeVars, TypeInv
<1>3. /\ \A s \in Threads \ {t} : call'[s] = call[s]
      /\ \A m \in Names, q \in Pids : ~DueFor(t, m, q) /\ ~PaidFor(t, m, q)'
  BY <1>2 DEF DueFor, PaidFor, Due, Paid, Leaves, Moves
<1>4. \A m \in Names : open_num[m][p] = 0
  <2>. SUFFICES ASSUME NEW m \in Names PROVE open_num[m][p] = 0
    OBVIOUS
  <2>1. open_num[m][p] + Cardinality(Paying(m, p)) <= opened[p][m] + Cardinality(Owing(m, p))
    BY DEF OpenInv, ListedInv
  <2>2. Owing(m, p) = {}
    <3>. SUFFICES ASSUME NEW s \in Threads, DueFor(s, m, p) PROVE FALSE
      BY DEF Owing
    <3>1. s # t /\ call[s].who = p
      BY <1>3 DEF DueFor
    <3>2. call[t].back = "recycle"
      BY <1>0, <1>2 DEF ShapeInv, Shape
    <3>. QED
      BY <1>0, <1>1, <3>1, <3>2, RecyclesAlone
  <2>3. Cardinality(Owing(m, p)) = 0 /\ Cardinality(Paying(m, p)) \in Nat
    BY <2>2, FS_EmptySet, OwingFinite
  <2>4. open_num[m][p] \in Nat /\ opened[p][m] = 0
    BY <1>0, <1>2 DEF OpenType
  <2>. QED
    BY <2>1, <2>3, <2>4
<1>5. GoneInv'
  BY <1>2, <1>4 DEF OpenInv, GoneInv
<1>6. ListedInv'
  <2>. SUFFICES ASSUME NEW m \in Names, NEW q \in Pids
                PROVE  open_num[m][q] + Cardinality(Paying(m, q)') <= opened[q][m] + Cardinality(Owing(m, q)')
    BY <1>2 DEF ListedInv
  <2>1. ~PaidFor(t, m, q) /\ ~DueFor(t, m, q)'
    BY <1>2 DEF DueFor, PaidFor, Due, Paid, Leaves, Moves
  <2>2. Owing(m, q)' = Owing(m, q) /\ Paying(m, q)' = Paying(m, q)
    BY <1>3, <2>1 DEF Owing, Paying, DueFor, PaidFor, Due, Paid
  <2>. QED
    BY <2>2 DEF OpenInv, ListedInv
<1>. QED
  BY <1>5, <1>6 DEF OpenInv

(* ... and the next one of the pid begins with one. *)
LEMMA OpenNew ==
    ASSUME ShrInv, OpenInv, NEW t \in Threads, OpenAdd(t)
    PROVE  OpenInv'
<1>0. /\ TypeInv /\ ShapeInv /\ CtxInv /\ OpenType /\ opened \in [Pids -> [Names -> Nat]]
  BY OpenTypes DEF ShrInv, TypeInv, ListType
<1>1. PICK p \in Pids : p = PidOf[t]
  BY ShrAssumption DEF ShrAssumption
<1>2. /\ call[t].pc = "f_add" /\ UNCHANGED open_num /\ Leaves(t)
      /\ \/ p \notin procs /\ NewProc(p)
         \/ UNCHANGED procVars
  BY <1>0, <1>1, ListMoves DEF OpenAdd, nodeVars, TypeInv
<1>3. /\ \A s \in Threads \ {t} : call'[s] = call[s]
      /\ \A m \in Names, q \in Pids : ~DueFor(t, m, q) /\ ~PaidFor(t, m, q)'
  BY <1>2 DEF DueFor, PaidFor, Due, Paid, Leaves, Moves
<1>4. CASE UNCHANGED procVars
  BY <1>0, <1>2, <1>3, <1>4, OpenQuiet DEF procVars
<1>5. CASE p \notin procs /\ NewProc(p)
  <2>1. /\ procs' = procs \cup {p} /\ opened' = [opened EXCEPT ![p] = [n \in Names |-> 0]]
    BY <1>5 DEF NewProc
  <2>2. /\ \A m \in Names : opened'[p][m] = 0 /\ open_num[m][p] = 0
        /\ \A q \in Pids \ {p} : opened'[q] = opened[q]
    BY <1>0, <1>5, <2>1 DEF OpenInv, GoneInv
  <2>3. \A s \in Threads, m \in Names : ~DueFor(s, m, p) /\ ~PaidFor(s, m, p)
    BY <1>0, <1>5, NobodyFacts DEF CtxInv, WhoInv, DueFor, PaidFor
  <2>4. GoneInv'
    BY <1>2, <2>1 DEF OpenInv, GoneInv
  <2>5. ListedInv'
    <3>. SUFFICES ASSUME NEW m \in Names, NEW q \in Pids
                  PROVE  open_num[m][q] + Cardinality(Paying(m, q)') <= opened'[q][m] + Cardinality(Owing(m, q)')
      BY <1>2 DEF ListedInv
    <3>1. ~PaidFor(t, m, q) /\ ~DueFor(t, m, q)'
      BY <1>2 DEF DueFor, PaidFor, Due, Paid, Leaves, Moves
    <3>2. Owing(m, q)' = Owing(m, q) /\ Paying(m, q)' = Paying(m, q)
      BY <1>3, <3>1 DEF Owing, Paying, DueFor, PaidFor, Due, Paid
    <3>3. CASE q # p
      BY <2>2, <3>2, <3>3 DEF OpenInv, ListedInv
    <3>4. CASE q = p
      <4>1. Paying(m, q) = {} /\ Owing(m, q) = {}
        BY <2>3, <3>4 DEF Paying, Owing
      <4>2. Cardinality(Paying(m, q)') = 0 /\ Cardinality(Owing(m, q)') = 0
        BY <3>2, <4>1, FS_EmptySet
      <4>. QED
        BY <2>2, <3>4, <4>2
    <3>. QED
      BY <3>3, <3>4
  <2>. QED
    BY <2>4, <2>5 DEF OpenInv
<1>. QED
  BY <1>2, <1>4, <1>5

(* Opening and closing the node itself. *)
LEMMA OpenNodeOpen ==
    ASSUME ShrInv, ShrInv', OpenInv, NEW t \in Threads, NodeOpen(t)
    PROVE  OpenInv'
<1>0. /\ TypeInv /\ ShapeInv /\ CtxInv /\ OpenType /\ OpenType' /\ NodeType /\ open_num \in [Names -> [Pids -> 0 .. MaxOpen]]
  BY OpenTypes, OpenTypesNext DEF ShrInv, TypeInv, NodeType
<1>1. PICK n \in Names, p \in Pids : n = call[t].name /\ p = call[t].who
  BY <1>0, NodeMoves DEF TypeInv, At
<1>2. /\ call[t].pc = "do" /\ call[t].op = "open" /\ UNCHANGED <<procs, opened>> /\ p \in procs
      /\ IF MayOpen(n, p) THEN Turns(t, "list")
         ELSE Moves(t, "put", call[t].op, call[t].name, call[t].who, Failed(t))
      /\ MayOpen(n, p) => open_num' = [open_num EXCEPT ![n][p] = @ + 1] /\ open_num[n][p] < MaxOpen
      /\ ~MayOpen(n, p) => open_num' = open_num
  BY <1>0, <1>1, NobodyFacts, NodeMoves DEF NodeOpen, MayOpen, procVars, CtxInv, WhoInv, TypeInv
<1>3. /\ \A s \in Threads \ {t} : call'[s] = call[s]
      /\ \A m \in Names, q \in Pids : ~DueFor(t, m, q) /\ ~PaidFor(t, m, q)'
  BY <1>2 DEF DueFor, PaidFor, Due, Paid, Turns, Moves
<1>4. CASE ~MayOpen(n, p)
  BY <1>0, <1>2, <1>3, <1>4, OpenQuiet
<1>5. CASE MayOpen(n, p)
  <2>1. open_num[n][p] \in Nat /\ opened[p][n] \in Nat
    BY <1>0, <1>1 DEF OpenType
  <2>2. /\ open_num'[n][p] = open_num[n][p] + 1
        /\ \A q \in Pids, m \in Names : q # p \/ m # n => open_num'[m][q] = open_num[m][q]
    BY <1>0, <1>2, <1>5
  <2>3. DueFor(t, n, p)'
    BY <1>1, <1>2, <1>5 DEF DueFor, Due, Turns, Moves
  <2>4. Fair(t, n, p)
    <3>1. Dues(t, n, p) = 0 /\ Dues(t, n, p)' = 1 /\ Pays(t, n, p)' = 0 /\ Pays(t, n, p) \in {0, 1}
      BY <1>3, <2>3 DEF Dues, Pays
    <3>. QED
      BY <1>2, <2>1, <2>2, <3>1 DEF Fair
  <2>. QED
    BY <1>0, <1>1, <1>2, <1>3, <2>2, <2>4, OpenAt
<1>. QED
  BY <1>4, <1>5

(* A close finds the open that its list entry promised. *)
LEMMA OpenNodeClose ==
    ASSUME ~Forestalled, ShrInv, ShrInv', OpenInv, NEW t \in Threads, NodeClose(t)
    PROVE  OpenInv'
<1>0. /\ TypeInv /\ ShapeInv /\ CtxInv /\ OpenType /\ OpenType' /\ NodeType /\ open_num \in [Names -> [Pids -> 0 .. MaxOpen]]
  BY OpenTypes, OpenTypesNext DEF ShrInv, TypeInv, NodeType
<1>1. PICK n \in Names, p \in Pids : n = call[t].name /\ p = call[t].who
  BY <1>0, PutMoves DEF TypeInv, At
<1>2. /\ call[t].pc = "do" /\ call[t].op = "close" /\ UNCHANGED <<procs, opened>> /\ p \in procs
      /\ IF open_num[n][p] > 0 THEN Turns(t, "put2")
         ELSE Moves(t, "put", call[t].op, call[t].name, call[t].who, Failed(t))
      /\ open_num[n][p] > 0 => open_num' = [open_num EXCEPT ![n][p] = @ - 1]
      /\ ~(open_num[n][p] > 0) => open_num' = open_num
      /\ open_num[n][p] \in Nat /\ opened[p][n] \in Nat
  <2>1. open_num[n][p] \in Nat /\ opened[p][n] \in Nat
    BY <1>0, <1>1 DEF OpenType
  <2>2. /\ call[t].pc = "do" /\ call[t].op = "close" /\ UNCHANGED <<procs, opened>>
        /\ open_num[n][p] > 0 => open_num' = [open_num EXCEPT ![n][p] = @ - 1]
        /\ ~(open_num[n][p] > 0) => open_num' = open_num
    BY <1>1 DEF NodeClose, procVars, At
  <2>3. p \in procs
    BY <1>0, <1>1, <2>2, NobodyFacts DEF CtxInv, WhoInv
  <2>. QED
    BY <1>0, <1>1, <2>1, <2>2, <2>3, PutMoves DEF TypeInv
<1>3. /\ \A s \in Threads \ {t} : call'[s] = call[s]
      /\ \A m \in Names, q \in Pids : ~DueFor(t, m, q)'
      /\ \A m \in Names, q \in Pids : DueFor(t, m, q) \/ PaidFor(t, m, q)' => m = n /\ q = p
  BY <1>1, <1>2 DEF DueFor, PaidFor, Due, Paid, Turns, Moves
<1>4. CASE ~(open_num[n][p] > 0)
  <2>1. open_num[n][p] = 0
    BY <1>2, <1>4
  <2>2. ~Paid(t)'
    BY <1>2, <1>4 DEF Paid, Moves, Failed
  <2>. QED
    BY <1>1, <1>2, <1>3, <1>4, <2>1, <2>2, OpenInVain
<1>5. CASE open_num[n][p] > 0
  <2>1. /\ open_num'[n][p] = open_num[n][p] - 1
        /\ \A q \in Pids, m \in Names : q # p \/ m # n => open_num'[m][q] = open_num[m][q]
    BY <1>0, <1>2, <1>5
  <2>2. Fair(t, n, p)
    <3>1. call'[t].pc = "put2" /\ call'[t].op = "close" /\ call'[t].back = call[t].back
          /\ call'[t].name = n /\ call'[t].who = p
      BY <1>1, <1>2, <1>5 DEF Turns, Moves
    <3>2. /\ Pays(t, n, p) = 0 /\ Dues(t, n, p)' = 0
          /\ Dues(t, n, p) = (IF call[t].back = "unlist" THEN 0 ELSE 1)
          /\ Pays(t, n, p)' = (IF call[t].back = "unlist" THEN 1 ELSE 0)
      BY <1>1, <1>2, <3>1 DEF Pays, Dues, PaidFor, DueFor, Paid, Due
    <3>. QED
      BY <1>2, <2>1, <3>2 DEF Fair
  <2>3. \A m \in Names, q \in Pids : (m # n \/ q # p) =>
           open_num'[m][q] = open_num[m][q] /\ opened'[q][m] = opened[q][m]
    BY <1>2, <2>1
  <2>. QED
    BY <1>0, <1>2, <1>3, <2>2, <2>3, OpenAt
<1>. QED
  BY <1>4, <1>5


(* The calls that begin, and those of trs_core on a context, have nothing to  *)
(* do with nodes and lists yet.                                               *)
LEMMA EntryMoves ==
    ASSUME TypeInv, ShapeInv, NEW t \in Threads,
           \/ OpenWait(t) \/ Asking(t) \/ BelongPut(t) \/ \E i \in Ids : Create(t, i)
           \/ \E p \in Pids : FileRelease(t, p) \/ Belong(t, p)
    PROVE  /\ call[t].pc \in {"idle", "belong"}
           /\ \/ call'[t].pc \in {"f_add", "n_add", "belong", "recycle", "idle"}
              \/ call'[t].pc = "get" /\ call'[t].back # "recycle"
           /\ \A s \in Threads \ {t} : call'[s] = call[s]
           /\ UNCHANGED <<nodeVars, procs, start_time, created, opened>>
<1>0. CallType
  BY DEF TypeInv
<1>. USE DEF Free, Leaves, Turns, Moves
<1>1. CASE OpenWait(t)
  BY <1>0, <1>1, EnterMoves DEF OpenWait, procVars
<1>2. CASE Asking(t)
  <2>1. PICK n \in Names : \/ Ioctl(t, "destroy", n, "unlist") \/ Ioctl(t, "close", n, "unlist")
                           \/ Ioctl(t, "open", n, "list") \/ Ioctl(t, "set", n, "idle")
    BY <1>2 DEF Asking
  <2>2. /\ Free(t)
        /\ \/ Moves(t, "get", "destroy", n, PidOf[t], "unlist") \/ Moves(t, "get", "close", n, PidOf[t], "unlist")
           \/ Moves(t, "get", "open", n, PidOf[t], "list") \/ Moves(t, "get", "set", n, PidOf[t], "idle")
    BY <1>0, <2>1, EnterMoves
  <2>3. UNCHANGED <<nodeVars, procs, start_time, created, opened>>
    BY <2>1 DEF Ioctl, procVars
  <2>. QED
    BY <2>2, <2>3
<1>3. CASE BelongPut(t)
  BY <1>0, <1>3, RecycleMoves DEF BelongPut
<1>4. ASSUME NEW i \in Ids, Create(t, i)
      PROVE  /\ call[t].pc = "idle" /\ call'[t].pc = "n_add" /\ \A s \in Threads \ {t} : call'[s] = call[s]
             /\ UNCHANGED <<nodeVars, procs, start_time, created, opened>>
  BY <1>0, <1>4, EnterMoves DEF Create, procVars
<1>5. ASSUME NEW p \in Pids, FileRelease(t, p) \/ Belong(t, p)
      PROVE  /\ call[t].pc = "idle" /\ call'[t].pc \in {"belong", "recycle", "idle"}
             /\ \A s \in Threads \ {t} : call'[s] = call[s]
             /\ UNCHANGED <<nodeVars, procs, start_time, created, opened>>
  BY <1>0, <1>5, EnterMoves DEF FileRelease, Belong
<1>. QED
  BY <1>1, <1>2, <1>3, <1>4, <1>5

(* A call that puts the node goes on with the same operation. *)
LEMMA PutsMove ==
    ASSUME TypeInv, ShapeInv, NEW t \in Threads, NodePut2(t) \/ NodePut(t) \/ NodeDel(t) \/ ResPut(t)
    PROVE  /\ call[t].pc \in {"put2", "put", "del", "res_put"}
           /\ call[t].name \in Names /\ call[t].who \in Pids
           /\ \/ /\ call'[t].pc \in {"put", "del", "res_put", "unlist", "recycle"}
                 /\ call'[t].op = call[t].op /\ call'[t].name = call[t].name
                 /\ call'[t].who = call[t].who /\ call'[t].back = call[t].back
              \/ call'[t].pc = "idle"
           /\ \A s \in Threads \ {t} : call'[s] = call[s]
           /\ UNCHANGED <<creator, open_num, procs, start_time, created, opened>>
<1>0. CallType /\ Shape(call[t])
  BY DEF TypeInv, ShapeInv
<1>1. UNCHANGED <<creator, open_num, procs, start_time, created, opened>>
  BY DEF NodePut2, NodePut, NodeDel, ResPut, nodeVars, procVars
<1>2. /\ call[t].pc \in {"put2", "put", "del", "res_put"}
      /\ call[t].name \in Names /\ call[t].who \in Pids
      /\ \/ \E l \in {"put", "del", "res_put"} : Turns(t, l)
         \/ GoesOn(t, call[t].back)
  BY <1>0, PutMoves DEF At
<1>3. call[t].back \in Ends
  BY <1>0, <1>2 DEF Shape
<1>4. CASE \E l \in {"put", "del", "res_put"} : Turns(t, l)
  BY <1>1, <1>2, <1>4 DEF Turns, Moves
<1>5. CASE GoesOn(t, call[t].back)
  BY <1>1, <1>2, <1>3, <1>5 DEF GoesOn, Turns, Leaves, Moves, Ends
<1>. QED
  BY <1>2, <1>4, <1>5

(* Looking a node up. *)
LEMMA GetMoves ==
    ASSUME TypeInv, ShapeInv, NEW t \in Threads, NodeGet(t)
    PROVE  /\ call[t].pc = "get" /\ call[t].name \in Names /\ call[t].who \in Pids
           /\ \/ call'[t].pc = "do"
              \/ /\ ~(call[t].name \in nodes /\ ref[call[t].name] > 0)
                 /\ \/ call'[t].pc \in {"idle", "recycle"}
                    \/ call'[t].pc = "unlist" /\ call[t].op = "destroy"
           /\ call'[t].pc # "idle" => /\ call'[t].op = call[t].op /\ call'[t].name = call[t].name
                                      /\ call'[t].who = call[t].who /\ call'[t].back = call[t].back
           /\ \A s \in Threads \ {t} : call'[s] = call[s]
           /\ UNCHANGED <<nodes, creator, open_num, procs, start_time, created, opened>>
<1>0. CallType /\ Shape(call[t])
  BY DEF TypeInv, ShapeInv
<1>1. UNCHANGED <<nodes, creator, open_num, procs, start_time, created, opened>>
  BY DEF NodeGet, procVars
<1>2. /\ call[t].pc = "get" /\ call[t].name \in Names /\ call[t].who \in Pids
      /\ IF call[t].name \in nodes /\ ref[call[t].name] > 0 THEN Turns(t, "do")
         ELSE GoesOn(t, IF call[t].op = "destroy" THEN call[t].back ELSE Failed(t))
  BY <1>0, NodeMoves DEF At
<1>3. CASE call[t].name \in nodes /\ ref[call[t].name] > 0
  <2>1. Turns(t, "do")
    BY <1>2, <1>3
  <2>. QED
    BY <1>1, <1>2, <2>1 DEF Turns, Moves
<1>4. CASE ~(call[t].name \in nodes /\ ref[call[t].name] > 0) /\ call[t].op # "destroy"
  <2>1. GoesOn(t, "idle") \/ GoesOn(t, "recycle")
    BY <1>2, <1>4 DEF Failed
  <2>. QED
    BY <1>1, <1>2, <1>4, <2>1 DEF GoesOn, Leaves, Turns, Moves
<1>5. CASE ~(call[t].name \in nodes /\ ref[call[t].name] > 0) /\ call[t].op = "destroy"
  <2>1. call[t].back \in Ends
    BY <1>0, <1>2, <1>5 DEF Shape
  <2>2. GoesOn(t, "idle") \/ GoesOn(t, "recycle") \/ GoesOn(t, "unlist")
    BY <1>2, <1>5, <2>1 DEF Ends
  <2>. QED
    BY <1>1, <1>2, <1>5, <2>2 DEF GoesOn, Leaves, Turns, Moves
<1>. QED
  BY <1>3, <1>4, <1>5

(* A node that is not there is not open. *)
LEMMA NoNodeNoOpen ==
    ASSUME ShrInv, NEW n \in Names, ~(n \in nodes /\ ref[n] > 0)
    PROVE  /\ \A p \in Pids : open_num[n][p] = 0
           /\ n \in nodes => creator[n] = NoPid
<1>1. CASE n \notin nodes
  BY <1>1 DEF ShrInv, NodeInv, ShutInv
<1>2. CASE n \in nodes
  <2>1. ref[n] = 0
    BY <1>2 DEF ShrInv, TypeInv, NodeType
  <2>. QED
    BY <1>2, <2>1, ZeroIsFree DEF ShrInv, TypeInv
<1>. QED
  BY <1>1, <1>2

(* Every step keeps opens and list entries in step, *)
LEMMA OpenStep ==
    ~Forestalled /\ ShrInv /\ ShrInv' /\ OpenInv /\ [Next]_vars => OpenInv'
<1>. SUFFICES ASSUME ~Forestalled, ShrInv, ShrInv', OpenInv, [Next]_vars PROVE OpenInv'
  OBVIOUS
<1>0. TypeInv /\ ShapeInv /\ OpenType /\ CallType
  BY OpenTypes DEF ShrInv, TypeInv
<1>1. CASE Outside \/ UNCHANGED vars
  <2>1. UNCHANGED <<open_num, opened, procs, call>>
    BY <1>1, OutsideFrame DEF nodeVars, procVars
  <2>. QED
    BY <2>1 DEF OpenInv, ListedInv, GoneInv, Owing, Paying, DueFor, PaidFor, Due, Paid
<1>2. ASSUME NEW t \in Threads,
             \/ OpenWait(t) \/ Asking(t) \/ BelongPut(t) \/ \E i \in Ids : Create(t, i)
             \/ \E p \in Pids : FileRelease(t, p) \/ Belong(t, p)
      PROVE  OpenInv'
  <2>1. /\ call[t].pc \in {"idle", "belong"}
        /\ call'[t].pc \in {"f_add", "n_add", "belong", "recycle", "idle", "get"}
        /\ \A s \in Threads \ {t} : call'[s] = call[s]
        /\ UNCHANGED <<open_num, opened, procs>>
    BY <1>0, <1>2, EntryMoves DEF nodeVars
  <2>2. \A n \in Names, p \in Pids : ~DueFor(t, n, p) /\ ~PaidFor(t, n, p)'
    BY <2>1 DEF DueFor, PaidFor, Due, Paid
  <2>. QED
    BY <1>0, <2>1, <2>2, OpenQuiet
<1>3. ASSUME NEW t \in Threads, NodeAdd(t) PROVE OpenInv'
  <2>1. /\ call[t].pc = "n_add" /\ call[t].name \in Names /\ call[t].op = "create"
        /\ Turns(t, "res_put") \/ Turns(t, "list")
    BY <1>0, <1>3, ListMoves DEF At, ShapeInv, Shape
  <2>2. \A m \in Names, q \in Pids : ~DueFor(t, m, q) /\ ~PaidFor(t, m, q)'
    BY <2>1 DEF DueFor, PaidFor, Due, Paid, Turns, Moves
  <2>3. /\ \A s \in Threads \ {t} : call'[s] = call[s]
        /\ UNCHANGED <<opened, procs>>
    BY <1>3, <2>1 DEF Turns, Moves, NodeAdd, procVars
  <2>4. \A m \in Names, q \in Pids : open_num'[m][q] = open_num[m][q]
    <3>1. CASE UNCHANGED open_num
      BY <3>1
    <3>2. CASE call[t].name \notin nodes /\ open_num' = [open_num EXCEPT ![call[t].name] = [q \in Pids |-> 0]]
      <4>1. \A q \in Pids : open_num[call[t].name][q] = 0
        BY <2>1, <3>2 DEF ShrInv, NodeInv, ShutInv
      <4>2. open_num \in [Names -> [Pids -> 0 .. MaxOpen]]
        BY <1>0 DEF TypeInv, NodeType
      <4>. QED
        BY <2>1, <3>2, <4>1, <4>2
    <3>. QED
      BY <1>3, <3>1, <3>2 DEF NodeAdd, NewNode, nodeVars
  <2>. QED
    BY <1>0, <2>2, <2>3, <2>4, OpenQuiet
<1>4. ASSUME NEW t \in Threads, NodeGet(t) PROVE OpenInv'
  <2>1. PICK n \in Names, p \in Pids : n = call[t].name /\ p = call[t].who
    BY <1>0, <1>4, GetMoves
  <2>2. /\ call[t].pc = "get" /\ UNCHANGED <<open_num, procs, opened>>
        /\ \/ call'[t].pc = "do"
           \/ /\ ~(n \in nodes /\ ref[n] > 0)
              /\ call'[t].pc \in {"idle", "recycle"} \/ (call'[t].pc = "unlist" /\ call[t].op = "destroy")
        /\ call'[t].pc # "idle" => /\ call'[t].op = call[t].op /\ call'[t].name = call[t].name
                                   /\ call'[t].who = call[t].who /\ call'[t].back = call[t].back
        /\ \A s \in Threads \ {t} : call'[s] = call[s]
    BY <1>0, <1>4, <2>1, GetMoves
  <2>3. CASE call'[t].pc = "do"
    <3>1. \A m \in Names, q \in Pids : (DueFor(t, m, q) => DueFor(t, m, q)') /\ ~PaidFor(t, m, q)'
      BY <2>2, <2>3 DEF DueFor, PaidFor, Due, Paid
    <3>. QED
      BY <1>0, <2>2, <3>1, OpenQuiet
  <2>4. CASE call'[t].pc # "do"
    <3>1. open_num[n][p] = 0
      BY <2>2, <2>4, NoNodeNoOpen
    <3>2. ~Paid(t)'
      BY <2>2, <2>4 DEF Paid
    <3>. QED
      BY <2>1, <2>2, <3>1, <3>2, OpenInVain
  <2>. QED
    BY <2>3, <2>4
<1>5. ASSUME NEW t \in Threads, NodeDestroy(t) \/ NodeSetPid(t) PROVE OpenInv'
  <2>1. /\ call[t].pc = "do" /\ call[t].op \in {"destroy", "set"} /\ call'[t].op = call[t].op
        /\ call'[t].pc \in {"put2", "put"}
        /\ \A s \in Threads \ {t} : call'[s] = call[s]
    BY <1>0, <1>5, NodeMoves DEF At, Turns, Moves
  <2>2. UNCHANGED <<open_num, opened, procs>>
    BY <1>5 DEF NodeDestroy, NodeSetPid, procVars
  <2>3. \A m \in Names, q \in Pids : ~DueFor(t, m, q) /\ ~PaidFor(t, m, q)'
    BY <2>1 DEF DueFor, PaidFor, Due, Paid
  <2>. QED
    BY <1>0, <2>1, <2>2, <2>3, OpenQuiet
<1>6. ASSUME NEW t \in Threads, NodePut2(t) \/ NodePut(t) \/ NodeDel(t) \/ ResPut(t) PROVE OpenInv'
  <2>1. /\ call[t].pc \in {"put2", "put", "del", "res_put"}
        /\ \/ /\ call'[t].op = call[t].op /\ call'[t].name = call[t].name
              /\ call'[t].who = call[t].who /\ call'[t].back = call[t].back
           \/ call'[t].pc = "idle"
        /\ \A s \in Threads \ {t} : call'[s] = call[s]
        /\ UNCHANGED <<open_num, procs, opened>>
    BY <1>0, <1>6, PutsMove
  <2>2. \A m \in Names, q \in Pids : ~DueFor(t, m, q) /\ (PaidFor(t, m, q)' => PaidFor(t, m, q))
    BY <2>1 DEF DueFor, PaidFor, Due, Paid
  <2>. QED
    BY <1>0, <2>1, <2>2, OpenQuiet
<1>. QED
  BY <1>1, <1>2, <1>3, <1>4, <1>5, <1>6, OpenAddToProc, OpenDelFromProc, OpenRecycle, OpenGone, OpenNew,
     OpenNodeOpen, OpenNodeClose, NextCases

(* and so they always are, unless an undo finds its open closed. *)
LEMMA OpenAlways == Spec /\ []~Forestalled => []OpenInv
<1>1. Init => OpenInv
  <2>. SUFFICES ASSUME Init PROVE OpenInv
    OBVIOUS
  <2>1. /\ \A n \in Names, p \in Pids : open_num[n][p] = 0 /\ opened[p][n] = 0
        /\ \A t \in Threads : call[t].pc = "idle"
    BY DEF Init, Idle, Call
  <2>2. \A n \in Names, p \in Pids : Owing(n, p) = {} /\ Paying(n, p) = {}
    BY <2>1 DEF Owing, Paying, DueFor, PaidFor, Due, Paid
  <2>3. \A n \in Names, p \in Pids : Cardinality(Owing(n, p)) = 0 /\ Cardinality(Paying(n, p)) = 0
    BY <2>2, FS_EmptySet
  <2>. QED
    BY <2>1, <2>3 DEF OpenInv, ListedInv, GoneInv
<1>. QED
  BY <1>1, OpenStep, ShrAlways, PTL DEF Spec


-----------------------------------------------------------------------------
(* The white list: who has a node open was invited.  A context is not newer   *)
(* than the clock of its pid, which is what set_pids writes down.             *)

StartInv == \A p \in Pids : start_time[p] <= clock[p]

(* No step makes a context younger than the clock of its pid. *)
LEMMA StartStep == TypeInv /\ ShapeInv /\ StartInv /\ [Next]_vars => StartInv'
<1>. SUFFICES ASSUME TypeInv, ShapeInv, StartInv, [Next]_vars PROVE StartInv'
  OBVIOUS
<1>0. /\ start_time \in [Pids -> Nat] /\ clock \in [Pids -> Nat] /\ clock' \in [Pids -> Nat]
      /\ \A p \in Pids : clock[p] <= clock'[p]
  BY TimeStep DEF TypeInv, ListType, TimeType
<1>1. CASE UNCHANGED start_time
  <2>. SUFFICES ASSUME NEW p \in Pids PROVE start_time[p] <= clock'[p]
    BY <1>1 DEF StartInv
  <2>1. start_time[p] <= clock[p] /\ start_time[p] \in Nat /\ clock[p] \in Nat /\ clock'[p] \in Nat
    BY <1>0 DEF StartInv
  <2>. QED
    BY <1>0, <2>1
<1>2. ASSUME NEW t \in Threads, OpenAdd(t) PROVE StartInv'
  <2>1. PICK p \in Pids : p = PidOf[t]
    BY ShrAssumption DEF ShrAssumption
  <2>2. clock' = clock /\ (start_time' = [start_time EXCEPT ![p] = clock[p]] \/ UNCHANGED start_time)
    BY <1>2, <2>1 DEF OpenAdd, NewProc, procVars, timeVars
  <2>3. CASE start_time' = [start_time EXCEPT ![p] = clock[p]]
    BY <1>0, <2>2, <2>3 DEF StartInv
  <2>. QED
    BY <1>1, <2>2, <2>3
<1>3. ASSUME NEW t \in Threads, RecycleDone(t) PROVE StartInv'
  <2>1. PICK p \in Pids : p = call[t].who
    BY <1>3, RecycleMoves DEF TypeInv
  <2>2. clock' = clock /\ start_time' = [start_time EXCEPT ![p] = 0]
    BY <1>3, <2>1 DEF RecycleDone, timeVars
  <2>. QED
    BY <1>0, <2>2 DEF StartInv
<1>4. ASSUME NEW t \in Threads, NoLists(t) PROVE StartInv'
  BY <1>1, <1>4, ListFrame
<1>5. ASSUME NEW t \in Threads, Working(t) PROVE StartInv'
  BY <1>1, <1>5, WorkFrame
<1>6. CASE Outside \/ UNCHANGED vars
  BY <1>1, <1>6, OutsideFrame DEF procVars
<1>. QED
  BY <1>2, <1>3, <1>4, <1>5, <1>6, ListCases DEF Working

(* A step that invites and opens nothing, and takes back no invitation. *)
LEMMA InviteQuiet ==
    ASSUME OpenersWereInvited, nodes \subseteq Names, nodes' \subseteq nodes, procs \subseteq Pids, procs' \subseteq procs,
           \A p \in procs' : start_time'[p] = start_time[p],
           \A n \in nodes' : set_time'[n] = set_time[n],
           OpenType, \A n \in Names, p \in Pids : open_num'[n][p] \in Nat /\ open_num'[n][p] <= open_num[n][p]
    PROVE  OpenersWereInvited'
<1>. SUFFICES ASSUME NEW n \in nodes', NEW p \in procs', open_num'[n][p] > 0
              PROVE  start_time'[p] <= set_time'[n][p]
  BY DEF OpenersWereInvited
<1>1. open_num[n][p] > 0
  BY DEF OpenType
<1>. QED
  BY <1>1 DEF OpenersWereInvited

(* Who has a node open was invited: after a new context, *)
LEMMA InviteOpenAdd ==
    ASSUME ShrInv, GoneInv, OpenersWereInvited, NEW t \in Threads, OpenAdd(t)
    PROVE  OpenersWereInvited'
<1>0. TypeInv /\ OpenType /\ nodes \subseteq Names /\ procs \subseteq Pids /\ start_time \in [Pids -> Nat]
  BY OpenTypes DEF ShrInv, TypeInv, NodeType, ProcType, ListType
<1>1. PICK p \in Pids : p = PidOf[t]
  BY ShrAssumption DEF ShrAssumption
<1>2. UNCHANGED <<nodes, set_time, open_num>> /\ (UNCHANGED procVars \/ (p \notin procs /\ NewProc(p)))
  BY <1>1 DEF OpenAdd, nodeVars
<1>3. CASE UNCHANGED procVars
  BY <1>2, <1>3 DEF OpenersWereInvited, procVars
<1>4. CASE p \notin procs /\ NewProc(p)
  <2>1. procs' = procs \cup {p} /\ \A q \in Pids \ {p} : start_time'[q] = start_time[q]
    BY <1>0, <1>4 DEF NewProc
  <2>2. \A n \in Names : open_num[n][p] = 0
    BY <1>4 DEF GoneInv
  <2>. SUFFICES ASSUME NEW n \in nodes, NEW q \in procs', open_num[n][q] > 0
                PROVE  start_time'[q] <= set_time[n][q]
    BY <1>2 DEF OpenersWereInvited
  <2>3. q # p /\ q \in procs /\ q \in Pids
    BY <1>0, <2>1, <2>2
  <2>. QED
    BY <2>1, <2>3 DEF OpenersWereInvited
<1>. QED
  BY <1>2, <1>3, <1>4

(* a new node, *)
LEMMA InviteNodeAdd ==
    ASSUME ShrInv, OpenersWereInvited, NEW t \in Threads, NodeAdd(t)
    PROVE  OpenersWereInvited'
<1>0. /\ TypeInv /\ nodes \subseteq Names /\ procs \subseteq Pids
      /\ open_num \in [Names -> [Pids -> 0 .. MaxOpen]] /\ set_time \in [Names -> [Pids -> Nat \cup {NotListed}]]
  BY DEF ShrInv, TypeInv, NodeType, ProcType
<1>1. PICK n \in Names : n = call[t].name
  BY <1>0, ListMoves DEF ShrInv, TypeInv, At
<1>2. UNCHANGED <<procs, start_time>> /\ (UNCHANGED nodeVars \/ NewNode(n))
  BY <1>1 DEF NodeAdd, procVars
<1>3. CASE UNCHANGED nodeVars
  BY <1>2, <1>3 DEF OpenersWereInvited, nodeVars
<1>4. CASE NewNode(n)
  <2>1. nodes' = nodes \cup {n} /\ open_num' = [open_num EXCEPT ![n] = [q \in Pids |-> 0]]
    BY <1>4 DEF NewNode
  <2>2. \A m \in Names \ {n} : set_time'[m] = set_time[m] /\ open_num'[m] = open_num[m]
    BY <1>0, <1>4, <2>1 DEF NewNode
  <2>3. \A q \in Pids : open_num'[n][q] = 0
    BY <1>0, <2>1
  <2>. SUFFICES ASSUME NEW m \in nodes', NEW q \in procs, open_num'[m][q] > 0
                PROVE  start_time[q] <= set_time'[m][q]
    BY <1>2 DEF OpenersWereInvited
  <2>4. m # n /\ m \in nodes /\ m \in Names
    BY <1>0, <2>1, <2>3
  <2>. QED
    BY <2>2, <2>4 DEF OpenersWereInvited
<1>. QED
  BY <1>2, <1>3, <1>4

(* an open, *)
LEMMA InviteNodeOpen ==
    ASSUME ShrInv, OpenersWereInvited, NEW t \in Threads, NodeOpen(t)
    PROVE  OpenersWereInvited'
<1>0. /\ TypeInv /\ nodes \subseteq Names /\ procs \subseteq Pids /\ start_time \in [Pids -> Nat]
      /\ open_num \in [Names -> [Pids -> 0 .. MaxOpen]] /\ set_time \in [Names -> [Pids -> Nat \cup {NotListed}]]
  BY DEF ShrInv, TypeInv, NodeType, ProcType, ListType
<1>1. PICK n \in Names, p \in Pids : n = call[t].name /\ p = call[t].who
  BY <1>0, NodeMoves DEF ShrInv, TypeInv, At
<1>2. /\ UNCHANGED <<procs, start_time, nodes, set_time>>
      /\ \/ open_num' = open_num
         \/ MayOpen(n, p) /\ open_num' = [open_num EXCEPT ![n][p] = @ + 1]
  BY <1>1 DEF NodeOpen, procVars
<1>3. CASE open_num' = open_num
  BY <1>2, <1>3 DEF OpenersWereInvited
<1>4. CASE MayOpen(n, p) /\ open_num' = [open_num EXCEPT ![n][p] = @ + 1]
  <2>1. start_time[p] <= set_time[n][p]
    <3>1. start_time[p] \in Nat /\ set_time[n][p] \in Nat
      BY <1>0, <1>4 DEF MayOpen, Listed
    <3>. QED
      BY <1>4, <3>1 DEF MayOpen
  <2>2. \A m \in Names, q \in Pids : m # n \/ q # p => open_num'[m][q] = open_num[m][q]
    BY <1>0, <1>4
  <2>. SUFFICES ASSUME NEW m \in nodes, NEW q \in procs, open_num'[m][q] > 0
                PROVE  start_time[q] <= set_time[m][q]
    BY <1>2 DEF OpenersWereInvited
  <2>3. CASE m = n /\ q = p
    BY <2>1, <2>3
  <2>4. CASE m # n \/ q # p
    BY <1>0, <2>2, <2>4 DEF OpenersWereInvited
  <2>. QED
    BY <2>3, <2>4
<1>. QED
  BY <1>2, <1>3, <1>4

(* and a new entry on the white list. *)
LEMMA InviteSetPid ==
    ASSUME ShrInv, StartInv, OpenersWereInvited, NEW t \in Threads, NodeSetPid(t)
    PROVE  OpenersWereInvited'
<1>0. /\ TypeInv /\ nodes \subseteq Names /\ procs \subseteq Pids
      /\ set_time \in [Names -> [Pids -> Nat \cup {NotListed}]]
  BY DEF ShrInv, TypeInv, NodeType, ProcType
<1>1. PICK n \in Names : n = call[t].name
  BY <1>0, NodeMoves DEF ShrInv, TypeInv, At
<1>2. /\ UNCHANGED <<procs, start_time, nodes, open_num>>
      /\ \/ set_time' = set_time
         \/ \E q \in Pids : set_time' = [set_time EXCEPT ![n][q] = clock[q]]
  BY <1>1 DEF NodeSetPid, procVars
<1>3. CASE set_time' = set_time
  BY <1>2, <1>3 DEF OpenersWereInvited
<1>4. ASSUME NEW q \in Pids, set_time' = [set_time EXCEPT ![n][q] = clock[q]] PROVE OpenersWereInvited'
  <2>1. /\ set_time'[n][q] = clock[q]
        /\ \A m \in Names, r \in Pids : m # n \/ r # q => set_time'[m][r] = set_time[m][r]
    BY <1>0, <1>4
  <2>. SUFFICES ASSUME NEW m \in nodes, NEW r \in procs, open_num[m][r] > 0
                PROVE  start_time[r] <= set_time'[m][r]
    BY <1>2 DEF OpenersWereInvited
  <2>2. CASE m = n /\ r = q
    BY <2>1, <2>2 DEF StartInv
  <2>3. CASE m # n \/ r # q
    BY <1>0, <2>1, <2>3 DEF OpenersWereInvited
  <2>. QED
    BY <2>2, <2>3
<1>. QED
  BY <1>2, <1>3, <1>4

(* Every step keeps it so. *)
LEMMA InviteStep ==
    ShrInv /\ ShrInv' /\ GoneInv /\ StartInv /\ OpenersWereInvited /\ [Next]_vars => OpenersWereInvited'
<1>. SUFFICES ASSUME ShrInv, ShrInv', GoneInv, StartInv, OpenersWereInvited, [Next]_vars PROVE OpenersWereInvited'
  OBVIOUS
<1>0. /\ TypeInv /\ ShapeInv /\ OpenType /\ OpenType' /\ nodes \subseteq Names /\ procs \subseteq Pids
      /\ start_time \in [Pids -> Nat] /\ set_time \in [Names -> [Pids -> Nat \cup {NotListed}]]
      /\ open_num \in [Names -> [Pids -> 0 .. MaxOpen]]
  BY OpenTypes, ShrAssumption DEF ShrInv, TypeInv, NodeType, ProcType, ListType, OpenType, ShrAssumption
<1>1. CASE UNCHANGED <<nodes, set_time, open_num, procs, start_time>>
  BY <1>1 DEF OpenersWereInvited
<1>2. ASSUME NEW t \in Threads, NodeClose(t) PROVE OpenersWereInvited'
  <2>1. PICK n \in Names, p \in Pids : n = call[t].name /\ p = call[t].who
    BY <1>0, <1>2, PutMoves DEF TypeInv, At
  <2>2. /\ UNCHANGED <<procs, start_time, nodes, set_time>>
        /\ open_num' = open_num \/ open_num' = [open_num EXCEPT ![n][p] = @ - 1]
    BY <1>2, <2>1 DEF NodeClose, procVars
  <2>3. \A m \in Names, q \in Pids : open_num'[m][q] \in Nat /\ open_num'[m][q] <= open_num[m][q]
    <3>. SUFFICES ASSUME NEW m \in Names, NEW q \in Pids PROVE open_num'[m][q] <= open_num[m][q]
      BY <1>0 DEF OpenType
    <3>1. open_num'[m][q] = open_num[m][q] \/ open_num'[m][q] = open_num[m][q] - 1
      BY <1>0, <2>2
    <3>. QED
      BY <1>0, <3>1 DEF OpenType
  <2>. QED
    BY <1>0, <2>2, <2>3, InviteQuiet
<1>3. ASSUME NEW t \in Threads, NodeDel(t) PROVE OpenersWereInvited'
  <2>1. PICK n \in Names : n = call[t].name
    BY <1>0, <1>3, PutMoves DEF TypeInv, At
  <2>2. /\ UNCHANGED <<procs, start_time, open_num>> /\ nodes' = nodes \ {n}
        /\ set_time' = [set_time EXCEPT ![n] = [q \in Pids |-> NotListed]]
    BY <1>3, <2>1 DEF NodeDel, procVars
  <2>3. nodes' \subseteq nodes /\ \A m \in nodes' : set_time'[m] = set_time[m]
    BY <1>0, <2>2
  <2>4. \A m \in Names, q \in Pids : open_num'[m][q] \in Nat /\ open_num'[m][q] <= open_num[m][q]
    BY <1>0, <2>2 DEF OpenType
  <2>. QED
    BY <1>0, <2>2, <2>3, <2>4, InviteQuiet
<1>4. ASSUME NEW t \in Threads, RecycleDone(t) PROVE OpenersWereInvited'
  <2>1. PICK p \in Pids : p = call[t].who
    BY <1>0, <1>4, RecycleMoves DEF TypeInv
  <2>2. /\ UNCHANGED <<nodes, set_time, open_num>> /\ procs' = procs \ {p}
        /\ start_time' = [start_time EXCEPT ![p] = 0]
    BY <1>4, <2>1 DEF RecycleDone, nodeVars
  <2>3. procs' \subseteq procs /\ \A q \in procs' : start_time'[q] = start_time[q]
    BY <1>0, <2>2
  <2>4. \A m \in Names, q \in Pids : open_num'[m][q] \in Nat /\ open_num'[m][q] <= open_num[m][q]
    BY <1>0, <2>2 DEF OpenType
  <2>. QED
    BY <1>0, <2>2, <2>3, <2>4, InviteQuiet
<1>5. ASSUME NEW t \in Threads, AddToProc(t) \/ DelFromProc(t) \/ \E n \in Names : RecycleOpened(t, n) \/ RecycleCreated(t, n)
      PROVE  OpenersWereInvited'
  BY <1>1, <1>5 DEF AddToProc, DelFromProc, RecycleOpened, RecycleCreated, nodeVars
<1>6. ASSUME NEW t \in Threads, NodeGet(t) \/ NodeDestroy(t) \/ NodePut2(t) \/ NodePut(t) \/ ResPut(t)
      PROVE  OpenersWereInvited'
  BY <1>1, <1>6 DEF NodeGet, NodeDestroy, NodePut2, NodePut, ResPut, nodeVars, procVars
<1>7. ASSUME NEW t \in Threads,
             \/ OpenWait(t) \/ Asking(t) \/ BelongPut(t) \/ \E i \in Ids : Create(t, i)
             \/ \E p \in Pids : FileRelease(t, p) \/ Belong(t, p)
      PROVE  OpenersWereInvited'
  BY <1>0, <1>1, <1>7, EntryMoves DEF nodeVars
<1>8. CASE Outside \/ UNCHANGED vars
  BY <1>1, <1>8, OutsideFrame DEF nodeVars, procVars
<1>. QED
  BY <1>2, <1>3, <1>4, <1>5, <1>6, <1>7, <1>8, InviteOpenAdd, InviteNodeAdd, InviteNodeOpen, InviteSetPid, NextCases


-----------------------------------------------------------------------------
(* What a context created.  A node that is not destroyed is on the list of    *)
(* its creator, but for one that a thread of the creator is about to          *)
(* list, or is about to destroy after it has left the list.                   *)

Owes(t)   == \/ call[t].pc = "list" /\ call[t].op = "create"
             \/ call[t].pc \in {"get", "do"} /\ call[t].op = "destroy" /\ call[t].back # "unlist"
Undone(t) == /\ call[t].pc \in {"put2", "put", "del", "res_put", "unlist"}
             /\ call[t].op = "destroy" /\ call[t].back = "unlist"

OwesFor(t, n)      == call[t].who = n[1] /\ call[t].name = n /\ Owes(t)
UndoneFor(t, n, p) == call[t].who = p /\ call[t].name = n /\ Undone(t)

OwedInv   == \A n \in nodes : creator[n] # NoPid /\ created[n[1]][n] = 0 => \E t \in Threads : OwesFor(t, n)
UndoneInv == \A t \in Threads, n \in nodes, p \in Pids : UndoneFor(t, n, p) => creator[n] # p

CreateInv == OwedInv /\ UndoneInv /\ GoneCreatedNothing

(* A step that creates no node, by a thread that afterwards owes the nodes    *)
(* that it has taken off the list.                                            *)
LEMMA CreateMove ==
    ASSUME CreateInv, NEW t \in Threads, \A s \in Threads \ {t} : call'[s] = call[s],
           nodes \subseteq Names, nodes' \subseteq nodes, procs' = procs,
           \A n \in Names : creator'[n] = creator[n] \/ creator'[n] = NoPid,
           \A n \in nodes' : creator'[n] # NoPid /\ created'[n[1]][n] = 0 /\ created[n[1]][n] # 0 => OwesFor(t, n)',
           \A n \in nodes' : creator'[n] # NoPid /\ OwesFor(t, n) => OwesFor(t, n)' \/ created'[n[1]][n] # 0,
           \A n \in nodes', p \in Pids : UndoneFor(t, n, p)' => creator'[n] # p
    PROVE  CreateInv'
<1>1. \A s \in Threads \ {t}, n \in Names, p \in Pids :
         (OwesFor(s, n)' <=> OwesFor(s, n)) /\ (UndoneFor(s, n, p)' <=> UndoneFor(s, n, p))
  BY DEF OwesFor, UndoneFor, Owes, Undone
<1>2. OwedInv'
  <2>. SUFFICES ASSUME NEW n \in nodes', creator'[n] # NoPid, created'[n[1]][n] = 0
                PROVE  \E s \in Threads : OwesFor(s, n)'
    BY DEF OwedInv
  <2>0. n \in nodes /\ n \in Names /\ creator[n] # NoPid /\ n[1] \in Pids
    BY NameFacts
  <2>1. CASE created[n[1]][n] # 0
    BY <2>1
  <2>2. CASE created[n[1]][n] = 0
    <3>1. PICK s \in Threads : OwesFor(s, n)
      BY <2>0, <2>2 DEF CreateInv, OwedInv
    <3>2. CASE s = t
      BY <3>1, <3>2
    <3>3. CASE s # t
      BY <1>1, <2>0, <3>1, <3>3
    <3>. QED
      BY <3>2, <3>3
  <2>. QED
    BY <2>1, <2>2
<1>3. UndoneInv'
  <2>. SUFFICES ASSUME NEW s \in Threads, NEW n \in nodes', NEW p \in Pids, UndoneFor(s, n, p)'
                PROVE  creator'[n] # p
    BY DEF UndoneInv
  <2>1. CASE s = t
    BY <2>1
  <2>2. CASE s # t
    <3>1. UndoneFor(s, n, p) /\ n \in nodes /\ n \in Names
      BY <1>1, <2>2
    <3>. QED
      BY <3>1, NobodyFacts DEF CreateInv, UndoneInv
  <2>. QED
    BY <2>1, <2>2
<1>4. GoneCreatedNothing'
  BY NobodyFacts DEF CreateInv, GoneCreatedNothing
<1>. QED
  BY <1>2, <1>3, <1>4 DEF CreateInv

(* A step that takes nothing off the list of creations. *)
LEMMA CreateQuiet ==
    ASSUME CreateInv, NEW t \in Threads, \A s \in Threads \ {t} : call'[s] = call[s],
           nodes \subseteq Names, nodes' \subseteq nodes, UNCHANGED <<procs, creator, created>>,
           \A n \in Names : OwesFor(t, n) => OwesFor(t, n)' \/ n \notin nodes \/ creator[n] = NoPid,
           \A n \in Names, p \in Pids :
              UndoneFor(t, n, p)' => UndoneFor(t, n, p) \/ n \notin nodes \/ creator[n] = NoPid
    PROVE  CreateInv'
<1>1. \A n \in nodes', p \in Pids : UndoneFor(t, n, p)' => creator'[n] # p
  BY NobodyFacts DEF CreateInv, UndoneInv
<1>2. \A n \in nodes' : creator'[n] # NoPid /\ OwesFor(t, n) => OwesFor(t, n)'
  OBVIOUS
<1>. QED
  BY <1>1, <1>2, CreateMove

(* Creations and list entries stay in step: after a new node, *)
LEMMA CreateNodeAdd ==
    ASSUME ~Crossed, ShrInv, CreateInv, NEW t \in Threads, NodeAdd(t)
    PROVE  CreateInv'
<1>0. /\ TypeInv /\ ShapeInv /\ CtxInv /\ CallType /\ nodes \subseteq Names
      /\ creator \in [Names -> Pids \cup {NoPid}]
  BY DEF ShrInv, TypeInv, NodeType
<1>1. PICK n \in Names : n = call[t].name
  BY <1>0, ListMoves DEF At
<1>2. /\ call[t].pc = "n_add" /\ call[t].op = "create" /\ call[t].who = n[1] /\ call[t].who \in Pids
      /\ UNCHANGED <<procs, created>>
      /\ IF n \in nodes THEN Turns(t, "res_put") ELSE Turns(t, "list")
  <2>1. call[t].pc = "n_add" /\ UNCHANGED <<procs, created>>
    BY DEF NodeAdd, procVars
  <2>2. call[t].op = "create" /\ call[t].who = n[1] /\ call[t].who \in Pids
    BY <1>0, <1>1, <2>1 DEF ShapeInv, Shape, OnNode
  <2>3. IF n \in nodes THEN Turns(t, "res_put") ELSE Turns(t, "list")
    BY <1>0, <1>1, ListMoves
  <2>. QED
    BY <2>1, <2>2, <2>3
<1>3. CASE n \in nodes
  <2>1. UNCHANGED <<nodes, creator>>
    BY <1>1, <1>3 DEF NodeAdd, nodeVars
  <2>2. /\ \A s \in Threads \ {t} : call'[s] = call[s]
        /\ \A m \in Names : ~OwesFor(t, m) /\ \A p \in Pids : ~UndoneFor(t, m, p)'
    BY <1>2, <1>3 DEF OwesFor, UndoneFor, Owes, Undone, Turns, Moves
  <2>. QED
    BY <1>0, <1>2, <2>1, <2>2, CreateQuiet
<1>4. CASE n \notin nodes
  <2>1. /\ nodes' = nodes \cup {n} /\ creator' = [creator EXCEPT ![n] = n[1]]
    BY <1>1, <1>4 DEF NodeAdd, NewNode
  <2>2. /\ \A s \in Threads \ {t} : call'[s] = call[s]
        /\ OwesFor(t, n)' /\ \A m \in Names : ~OwesFor(t, m) /\ \A p \in Pids : ~UndoneFor(t, m, p)'
    BY <1>1, <1>2, <1>4 DEF OwesFor, UndoneFor, Owes, Undone, Turns, Moves
  <2>3. \A s \in Threads \ {t}, m \in Names, p \in Pids :
           (OwesFor(s, m)' <=> OwesFor(s, m)) /\ (UndoneFor(s, m, p)' <=> UndoneFor(s, m, p))
    BY <2>2 DEF OwesFor, UndoneFor, Owes, Undone
  <2>4. creator'[n] = n[1] /\ \A m \in Names \ {n} : creator'[m] = creator[m]
    BY <1>0, <2>1
  <2>5. OwedInv'
    <3>. SUFFICES ASSUME NEW m \in nodes', creator'[m] # NoPid, created[m[1]][m] = 0
                  PROVE  \E s \in Threads : OwesFor(s, m)'
      BY <1>2 DEF OwedInv
    <3>1. CASE m = n
      BY <2>2, <3>1
    <3>2. CASE m # n
      <4>1. m \in nodes /\ m \in Names /\ creator[m] # NoPid
        BY <1>0, <2>1, <2>4, <3>2
      <4>2. PICK s \in Threads : OwesFor(s, m)
        BY <4>1 DEF CreateInv, OwedInv
      <4>3. s # t
        BY <2>2, <4>1, <4>2
      <4>. QED
        BY <2>3, <4>1, <4>2, <4>3, NameFacts
    <3>. QED
      BY <3>1, <3>2
  <2>6. UndoneInv'
    <3>. SUFFICES ASSUME NEW s \in Threads, NEW m \in nodes', NEW p \in Pids, UndoneFor(s, m, p)'
                  PROVE  creator'[m] # p
      BY DEF UndoneInv
    <3>0. m \in Names
      BY <1>0, <2>1
    <3>1. s # t /\ UndoneFor(s, m, p)
      BY <2>2, <2>3, <3>0
    <3>2. CASE m # n
      BY <2>1, <2>4, <3>0, <3>1, <3>2 DEF CreateInv, UndoneInv
    <3>3. CASE m = n
      <4>. SUFFICES ASSUME n[1] = p PROVE FALSE
        BY <2>4, <3>3
      <4>. QED
        BY <1>1, <1>2, <3>1, <3>3 DEF Crossed, UndoneFor, Undone
    <3>. QED
      BY <3>2, <3>3
  <2>7. GoneCreatedNothing'
    <3>1. n[1] \in procs
      BY <1>0, <1>2, NobodyFacts DEF CtxInv, WhoInv
    <3>. SUFFICES ASSUME NEW m \in nodes', NEW p \in Pids \ procs PROVE creator'[m] # p
      BY <1>2 DEF GoneCreatedNothing
    <3>. QED
      BY <1>0, <2>1, <2>4, <3>1 DEF CreateInv, GoneCreatedNothing
  <2>. QED
    BY <2>5, <2>6, <2>7 DEF CreateInv
<1>. QED
  BY <1>3, <1>4

(* Listing a creation, or undoing it when there is no memory. *)
LEMMA CreateAddToProc ==
    ASSUME ShrInv, CreateInv, NEW t \in Threads, AddToProc(t)
    PROVE  CreateInv'
<1>0. /\ TypeInv /\ ShapeInv /\ CallType /\ nodes \subseteq Names /\ created \in [Pids -> [Names -> Nat]]
  BY DEF ShrInv, TypeInv, NodeType, ListType
<1>1. PICK n \in Names, p \in Pids : n = call[t].name /\ p = call[t].who
  BY <1>0, ListMoves DEF At
<1>2. call[t].pc = "list" /\ UNCHANGED <<procs, nodes, creator>>
  BY DEF AddToProc, nodeVars
<1>3. \/ Leaves(t) /\ call[t].op = "open" /\ created' = created
      \/ Leaves(t) /\ call[t].op = "create" /\ created' = [created EXCEPT ![p][n] = @ + 1]
      \/ call[t].op = "open" /\ Moves(t, "get", "close", n, p, "idle") /\ created' = created
      \/ call[t].op = "create" /\ Moves(t, "get", "destroy", n, p, "idle") /\ created' = created
  BY <1>0, <1>1, ListChanges
<1>4. /\ \A s \in Threads \ {t} : call'[s] = call[s]
      /\ \A m \in Names, q \in Pids : ~UndoneFor(t, m, q)'
  BY <1>3 DEF UndoneFor, Undone, Leaves, Moves
<1>5. CASE created' = created /\ (call[t].op = "open" \/ Moves(t, "get", "destroy", n, p, "idle"))
  <2>1. \A m \in Names : OwesFor(t, m) => OwesFor(t, m)'
    BY <1>1, <1>2, <1>5 DEF OwesFor, Owes, Moves
  <2>. QED
    BY <1>0, <1>2, <1>4, <1>5, <2>1, CreateQuiet
<1>6. CASE Leaves(t) /\ call[t].op = "create" /\ created' = [created EXCEPT ![p][n] = @ + 1]
  <2>1. created[p][n] \in Nat /\ created[p][n] + 1 \in Nat
    BY <1>0
  <2>2. /\ created'[p][n] = created[p][n] + 1
        /\ \A q \in Pids, m \in Names : q # p \/ m # n => created'[q][m] = created[q][m]
    BY <1>0, <1>6, <2>1, ListPut
  <2>3. \A m \in Names : created'[m[1]][m] = 0 => created[m[1]][m] = 0
    BY <2>1, <2>2, NameFacts
  <2>4. \A m \in Names : OwesFor(t, m) => created'[m[1]][m] # 0
    <3>. SUFFICES ASSUME NEW m \in Names, OwesFor(t, m) PROVE created'[m[1]][m] # 0
      OBVIOUS
    <3>1. m = n /\ m[1] = p
      BY <1>1 DEF OwesFor
    <3>. QED
      BY <2>1, <2>2, <3>1
  <2>5. /\ \A m \in nodes' : creator'[m] # NoPid /\ created'[m[1]][m] = 0 /\ created[m[1]][m] # 0 => OwesFor(t, m)'
        /\ \A m \in nodes' : creator'[m] # NoPid /\ OwesFor(t, m) => OwesFor(t, m)' \/ created'[m[1]][m] # 0
        /\ \A m \in nodes', q \in Pids : UndoneFor(t, m, q)' => creator'[m] # q
    BY <1>0, <1>2, <1>4, <2>3, <2>4
  <2>6. /\ nodes \subseteq Names /\ nodes' \subseteq nodes /\ procs' = procs
        /\ \A m \in Names : creator'[m] = creator[m] \/ creator'[m] = NoPid
        /\ \A s \in Threads \ {t} : call'[s] = call[s]
    BY <1>0, <1>2, <1>4
  <2>. QED
    BY <2>5, <2>6, CreateMove
<1>. QED
  BY <1>3, <1>5, <1>6

(* Taking a destroyed node off the list. *)
LEMMA CreateDelFromProc ==
    ASSUME ShrInv, CreateInv, NEW t \in Threads, DelFromProc(t)
    PROVE  CreateInv'
<1>0. /\ TypeInv /\ ShapeInv /\ CallType /\ nodes \subseteq Names /\ created \in [Pids -> [Names -> Nat]]
  BY DEF ShrInv, TypeInv, NodeType, ListType
<1>1. PICK n \in Names, p \in Pids : n = call[t].name /\ p = call[t].who
  BY <1>0, ListMoves DEF At
<1>2. call[t].pc = "unlist" /\ UNCHANGED <<procs, nodes, creator>> /\ Leaves(t)
  BY <1>0, ListMoves DEF DelFromProc, nodeVars
<1>3. /\ \A s \in Threads \ {t} : call'[s] = call[s]
      /\ \A m \in Names : ~OwesFor(t, m) /\ \A q \in Pids : ~UndoneFor(t, m, q)'
  BY <1>2 DEF OwesFor, UndoneFor, Owes, Undone, Leaves, Moves
<1>4. CASE call[t].op = "close"
  <2>1. created' = created
    BY <1>4 DEF DelFromProc
  <2>. QED
    BY <1>0, <1>2, <1>3, <2>1, CreateQuiet
<1>5. CASE call[t].op # "close"
  <2>1. call[t].op = "destroy" /\ call[t].back = "unlist"
    BY <1>0, <1>2, <1>5 DEF ShapeInv, Shape
  <2>2. n \in nodes => creator[n] # p
    BY <1>1, <1>2, <2>1 DEF CreateInv, UndoneInv, UndoneFor, Undone
  <2>3. created' = [created EXCEPT ![p][n] = IF @ = 0 THEN 0 ELSE @ - 1]
    BY <1>1, <1>5 DEF DelFromProc
  <2>4. (IF created[p][n] = 0 THEN 0 ELSE created[p][n] - 1) \in Nat
    BY <1>0
  <2>5. \A q \in Pids, m \in Names : q # p \/ m # n => created'[q][m] = created[q][m]
    BY <1>0, <2>3, <2>4, ListPut
  <2>6. \A m \in nodes : creator[m] # NoPid => created'[m[1]][m] = created[m[1]][m]
    <3>. SUFFICES ASSUME NEW m \in nodes, creator[m] # NoPid PROVE m[1] # p \/ m # n
      BY <1>0, <2>5, NameFacts
    <3>1. creator[m] = m[1]
      BY <1>0 DEF ShrInv, NodeInv, OwnInv
    <3>. QED
      BY <2>2, <3>1
  <2>. QED
    BY <1>0, <1>2, <1>3, <2>6, CreateMove
<1>. QED
  BY <1>4, <1>5

(* One destroy for each entry. *)
LEMMA CreateRecycle ==
    ASSUME ShrInv, CreateInv, NEW t \in Threads, NEW n \in Names,
           RecycleOpened(t, n) \/ RecycleCreated(t, n)
    PROVE  CreateInv'
<1>0. /\ TypeInv /\ ShapeInv /\ CallType /\ nodes \subseteq Names /\ created \in [Pids -> [Names -> Nat]]
  BY DEF ShrInv, TypeInv, NodeType, ListType
<1>1. PICK p \in Pids : p = call[t].who
  BY <1>0, RecycleMoves
<1>2. /\ call[t].pc = "recycle" /\ UNCHANGED <<procs, nodes, creator>>
      /\ \/ Moves(t, "get", "close", n, p, "recycle") /\ created' = created
         \/ Moves(t, "get", "destroy", n, p, "recycle") /\ created' = [created EXCEPT ![p][n] = 0]
  BY <1>0, <1>1, RecycleMoves DEF RecycleOpened, RecycleCreated, nodeVars
<1>3. /\ \A s \in Threads \ {t} : call'[s] = call[s]
      /\ \A m \in Names : ~OwesFor(t, m) /\ \A q \in Pids : ~UndoneFor(t, m, q)'
  BY <1>2 DEF OwesFor, UndoneFor, Owes, Undone, Moves
<1>4. CASE created' = created
  BY <1>0, <1>2, <1>3, <1>4, CreateQuiet
<1>5. CASE Moves(t, "get", "destroy", n, p, "recycle") /\ created' = [created EXCEPT ![p][n] = 0]
  <2>1. \A q \in Pids, m \in Names : q # p \/ m # n => created'[q][m] = created[q][m]
    BY <1>0, <1>5, ListPut
  <2>2. \A m \in nodes : created'[m[1]][m] = 0 /\ created[m[1]][m] # 0 => OwesFor(t, m)'
    <3>. SUFFICES ASSUME NEW m \in nodes, created'[m[1]][m] # created[m[1]][m] PROVE OwesFor(t, m)'
      OBVIOUS
    <3>1. m = n /\ m[1] = p
      BY <1>0, <2>1, NameFacts
    <3>. QED
      BY <1>5, <3>1 DEF OwesFor, Owes, Moves
  <2>. QED
    BY <1>0, <1>2, <1>3, <2>2, CreateMove
<1>. QED
  BY <1>2, <1>4, <1>5

(* The context goes when everything it created is destroyed. *)
LEMMA CreateGone ==
    ASSUME ShrInv, CreateInv, NEW t \in Threads, RecycleDone(t)
    PROVE  CreateInv'
<1>0. /\ TypeInv /\ ShapeInv /\ CtxInv /\ CallType /\ nodes \subseteq Names
  BY DEF ShrInv, TypeInv, NodeType
<1>1. PICK p \in Pids : p = call[t].who
  BY <1>0, RecycleMoves
<1>2. /\ call[t].pc = "recycle" /\ UNCHANGED <<nodes, creator, created>> /\ Leaves(t) /\ procs' = procs \ {p}
      /\ \A m \in Names : created[p][m] = 0
  BY <1>0, <1>1, RecycleMoves DEF RecycleDone, nodeVars
<1>3. /\ \A s \in Threads \ {t} : call'[s] = call[s]
      /\ \A m \in Names : ~OwesFor(t, m) /\ \A q \in Pids : ~UndoneFor(t, m, q)'
  BY <1>2 DEF OwesFor, UndoneFor, Owes, Undone, Leaves, Moves
<1>4. \A s \in Threads \ {t}, m \in Names, q \in Pids :
         (OwesFor(s, m)' <=> OwesFor(s, m)) /\ (UndoneFor(s, m, q)' <=> UndoneFor(s, m, q))
  BY <1>3 DEF OwesFor, UndoneFor, Owes, Undone
<1>5. OwedInv'
  <2>. SUFFICES ASSUME NEW m \in nodes, creator[m] # NoPid, created[m[1]][m] = 0
                PROVE  \E s \in Threads : OwesFor(s, m)'
    BY <1>2 DEF OwedInv
  <2>1. PICK s \in Threads : OwesFor(s, m)
    BY DEF CreateInv, OwedInv
  <2>. QED
    BY <1>0, <1>1, <1>3, <1>4, <2>1
<1>6. UndoneInv'
  <2>. SUFFICES ASSUME NEW s \in Threads, NEW m \in nodes, NEW q \in Pids, UndoneFor(s, m, q)'
                PROVE  creator[m] # q
    BY <1>2 DEF UndoneInv
  <2>1. s # t /\ UndoneFor(s, m, q)
    BY <1>0, <1>3, <1>4
  <2>. QED
    BY <2>1 DEF CreateInv, UndoneInv
<1>7. GoneCreatedNothing'
  <2>. SUFFICES ASSUME NEW m \in nodes, creator[m] = p PROVE FALSE
    BY <1>2 DEF CreateInv, GoneCreatedNothing
  <2>1. m \in Names /\ m[1] = p
    BY <1>0, NobodyFacts DEF ShrInv, NodeInv, OwnInv
  <2>2. PICK s \in Threads : OwesFor(s, m)
    BY <1>2, <2>1, NobodyFacts DEF CreateInv, OwedInv
  <2>3. call[s].who = p /\ call[s].pc # "belong" /\ s # t
    BY <1>3, <2>1, <2>2 DEF OwesFor, Owes
  <2>4. call[t].back = "recycle"
    BY <1>0, <1>2 DEF ShapeInv, Shape
  <2>. QED
    BY <1>0, <1>1, <2>3, <2>4, RecyclesAlone
<1>. QED
  BY <1>5, <1>6, <1>7 DEF CreateInv

(* a new context, *)
LEMMA CreateNew ==
    ASSUME ShrInv, CreateInv, NEW t \in Threads, OpenAdd(t)
    PROVE  CreateInv'
<1>0. /\ TypeInv /\ ShapeInv /\ CallType /\ nodes \subseteq Names /\ created \in [Pids -> [Names -> Nat]]
  BY DEF ShrInv, TypeInv, NodeType, ListType
<1>1. PICK p \in Pids : p = PidOf[t]
  BY ShrAssumption DEF ShrAssumption
<1>2. /\ call[t].pc = "f_add" /\ UNCHANGED <<nodes, creator>> /\ Leaves(t)
      /\ (p \notin procs /\ NewProc(p)) \/ UNCHANGED procVars
  BY <1>0, <1>1, ListMoves DEF OpenAdd, nodeVars
<1>3. /\ \A s \in Threads \ {t} : call'[s] = call[s]
      /\ \A m \in Names : ~OwesFor(t, m) /\ \A q \in Pids : ~UndoneFor(t, m, q)'
  BY <1>2 DEF OwesFor, UndoneFor, Owes, Undone, Leaves, Moves
<1>4. CASE UNCHANGED procVars
  BY <1>0, <1>2, <1>3, <1>4, CreateQuiet DEF procVars
<1>5. CASE p \notin procs /\ NewProc(p)
  <2>1. procs' = procs \cup {p} /\ \A q \in Pids \ {p} : created'[q] = created[q]
    BY <1>0, <1>5 DEF NewProc
  <2>2. \A m \in nodes : creator[m] # NoPid => m[1] \in Pids \ {p}
    <3>. SUFFICES ASSUME NEW m \in nodes, creator[m] # NoPid PROVE m[1] \in Pids \ {p}
      OBVIOUS
    <3>1. creator[m] = m[1] /\ m[1] \in Pids
      BY <1>0, NameFacts DEF ShrInv, NodeInv, OwnInv
    <3>. QED
      BY <1>5, <3>1 DEF CreateInv, GoneCreatedNothing
  <2>3. \A s \in Threads \ {t}, m \in Names, q \in Pids :
           (OwesFor(s, m)' <=> OwesFor(s, m)) /\ (UndoneFor(s, m, q)' <=> UndoneFor(s, m, q))
    BY <1>3 DEF OwesFor, UndoneFor, Owes, Undone
  <2>4. OwedInv'
    <3>. SUFFICES ASSUME NEW m \in nodes, creator[m] # NoPid, created'[m[1]][m] = 0
                  PROVE  \E s \in Threads : OwesFor(s, m)'
      BY <1>2 DEF OwedInv
    <3>1. created[m[1]][m] = 0
      BY <2>1, <2>2
    <3>2. PICK s \in Threads : OwesFor(s, m)
      BY <3>1 DEF CreateInv, OwedInv
    <3>. QED
      BY <1>0, <1>1, <1>3, <2>3, <3>2
  <2>5. UndoneInv'
    <3>. SUFFICES ASSUME NEW s \in Threads, NEW m \in nodes, NEW q \in Pids, UndoneFor(s, m, q)'
                  PROVE  creator[m] # q
      BY <1>2 DEF UndoneInv
    <3>1. s # t /\ UndoneFor(s, m, q)
      BY <1>0, <1>3, <2>3
    <3>. QED
      BY <3>1 DEF CreateInv, UndoneInv
  <2>6. GoneCreatedNothing'
    BY <1>2, <2>1 DEF CreateInv, GoneCreatedNothing
  <2>. QED
    BY <2>4, <2>5, <2>6 DEF CreateInv
<1>. QED
  BY <1>2, <1>4, <1>5

(* and a destroy. *)
LEMMA CreateNodeDestroy ==
    ASSUME ShrInv, CreateInv, NEW t \in Threads, NodeDestroy(t)
    PROVE  CreateInv'
<1>0. /\ TypeInv /\ ShapeInv /\ CallType /\ nodes \subseteq Names /\ creator \in [Names -> Pids \cup {NoPid}]
  BY DEF ShrInv, TypeInv, NodeType
<1>1. PICK n \in Names, p \in Pids : n = call[t].name /\ p = call[t].who
  BY <1>0, NodeMoves DEF At
<1>2. /\ call[t].pc = "do" /\ call[t].op = "destroy" /\ UNCHANGED <<procs, nodes, created>>
  BY DEF NodeDestroy, procVars
<1>3. /\ \A s \in Threads \ {t} : call'[s] = call[s]
      /\ call'[t].name = n /\ call'[t].who = p /\ call'[t].pc \in {"put2", "put"}
      /\ creator[n] # p => call'[t].back = Failed(t)
  BY <1>0, <1>1, NodeMoves DEF Turns, Moves
<1>4. CASE creator[n] = p
  <2>1. creator' = [creator EXCEPT ![n] = NoPid]
    BY <1>1, <1>4 DEF NodeDestroy
  <2>2. /\ \A m \in Names : creator'[m] = creator[m] \/ creator'[m] = NoPid
        /\ creator'[n] = NoPid
    BY <1>0, <2>1
  <2>3. /\ \A m \in Names : creator'[m] # NoPid => ~OwesFor(t, m)
        /\ \A m \in Names, q \in Pids : UndoneFor(t, m, q)' => creator'[m] # q
    BY <1>1, <1>3, <2>2, NobodyFacts DEF OwesFor, UndoneFor
  <2>. QED
    BY <1>0, <1>2, <1>3, <2>2, <2>3, CreateMove
<1>5. CASE creator[n] # p
  <2>1. creator' = creator
    BY <1>1, <1>5 DEF NodeDestroy
  <2>2. \A m \in Names : OwesFor(t, m) => creator[m] = NoPid
    BY <1>1, <1>5 DEF OwesFor, ShrInv, NodeInv, OwnInv
  <2>3. \A m \in Names, q \in Pids : ~UndoneFor(t, m, q)'
    BY <1>3, <1>5 DEF UndoneFor, Undone, Failed
  <2>. QED
    BY <1>0, <1>2, <1>3, <2>1, <2>2, <2>3, CreateQuiet
<1>. QED
  BY <1>4, <1>5

(* Every step keeps them in step. *)
LEMMA CreateStep == ~Crossed /\ ShrInv /\ CreateInv /\ [Next]_vars => CreateInv'
<1>. SUFFICES ASSUME ~Crossed, ShrInv, CreateInv, [Next]_vars PROVE CreateInv'
  OBVIOUS
<1>0. TypeInv /\ ShapeInv /\ CallType /\ nodes \subseteq Names
  BY DEF ShrInv, TypeInv, NodeType
<1>1. CASE Outside \/ UNCHANGED vars
  <2>1. UNCHANGED <<nodes, creator, created, procs, call>>
    BY <1>1, OutsideFrame DEF nodeVars, procVars
  <2>. QED
    BY <2>1 DEF CreateInv, OwedInv, UndoneInv, GoneCreatedNothing, OwesFor, UndoneFor, Owes, Undone
<1>2. ASSUME NEW t \in Threads,
             \/ OpenWait(t) \/ Asking(t) \/ BelongPut(t) \/ \E i \in Ids : Create(t, i)
             \/ \E p \in Pids : FileRelease(t, p) \/ Belong(t, p)
      PROVE  CreateInv'
  <2>1. /\ call[t].pc \in {"idle", "belong"}
        /\ call'[t].pc \in {"f_add", "n_add", "belong", "recycle", "idle", "get"}
        /\ \A s \in Threads \ {t} : call'[s] = call[s]
        /\ UNCHANGED <<nodes, creator, created, procs>>
    BY <1>0, <1>2, EntryMoves DEF nodeVars
  <2>2. \A n \in Names : ~OwesFor(t, n) /\ \A p \in Pids : ~UndoneFor(t, n, p)'
    BY <2>1 DEF OwesFor, UndoneFor, Owes, Undone
  <2>. QED
    BY <1>0, <2>1, <2>2, CreateQuiet
<1>3. ASSUME NEW t \in Threads, NodeGet(t) PROVE CreateInv'
  <2>1. PICK n \in Names, p \in Pids : n = call[t].name /\ p = call[t].who
    BY <1>0, <1>3, GetMoves
  <2>2. /\ call[t].pc = "get" /\ UNCHANGED <<nodes, creator, created, procs>>
        /\ \/ call'[t].pc = "do"
           \/ /\ ~(n \in nodes /\ ref[n] > 0)
              /\ call'[t].pc \in {"idle", "recycle", "unlist"}
        /\ call'[t].pc # "idle" => /\ call'[t].op = call[t].op /\ call'[t].name = call[t].name
                                   /\ call'[t].who = call[t].who /\ call'[t].back = call[t].back
        /\ \A s \in Threads \ {t} : call'[s] = call[s]
    BY <1>0, <1>3, <2>1, GetMoves
  <2>3. CASE call'[t].pc = "do"
    <3>1. \A m \in Names : (OwesFor(t, m) => OwesFor(t, m)') /\ \A q \in Pids : ~UndoneFor(t, m, q)'
      BY <2>2, <2>3 DEF OwesFor, UndoneFor, Owes, Undone
    <3>. QED
      BY <1>0, <2>2, <3>1, CreateQuiet
  <2>4. CASE call'[t].pc # "do"
    <3>1. n \notin nodes \/ creator[n] = NoPid
      BY <2>2, <2>4, NoNodeNoOpen
    <3>2. \A m \in Names : OwesFor(t, m) => m = n
      BY <2>1 DEF OwesFor
    <3>3. \A m \in Names, q \in Pids : UndoneFor(t, m, q)' => m = n
      BY <2>1, <2>2 DEF UndoneFor, Undone
    <3>. QED
      BY <1>0, <2>2, <3>1, <3>2, <3>3, CreateQuiet
  <2>. QED
    BY <2>3, <2>4
<1>4. ASSUME NEW t \in Threads, NodeOpen(t) \/ NodeClose(t) \/ NodeSetPid(t) PROVE CreateInv'
  <2>1. /\ call[t].pc = "do" /\ call[t].op \in {"open", "close", "set"} /\ call'[t].op = call[t].op
        /\ \A s \in Threads \ {t} : call'[s] = call[s]
    BY <1>0, <1>4, NodeMoves, PutMoves DEF At, Turns, Moves
  <2>2. UNCHANGED <<nodes, creator, created, procs>>
    BY <1>4 DEF NodeOpen, NodeClose, NodeSetPid, procVars
  <2>3. \A m \in Names : ~OwesFor(t, m) /\ \A q \in Pids : ~UndoneFor(t, m, q)'
    BY <2>1 DEF OwesFor, UndoneFor, Owes, Undone
  <2>. QED
    BY <1>0, <2>1, <2>2, <2>3, CreateQuiet
<1>5. ASSUME NEW t \in Threads, NodePut2(t) \/ NodePut(t) \/ NodeDel(t) \/ ResPut(t) PROVE CreateInv'
  <2>1. /\ call[t].pc \in {"put2", "put", "del", "res_put"}
        /\ \/ /\ call'[t].op = call[t].op /\ call'[t].name = call[t].name
              /\ call'[t].who = call[t].who /\ call'[t].back = call[t].back
           \/ call'[t].pc = "idle"
        /\ \A s \in Threads \ {t} : call'[s] = call[s]
        /\ UNCHANGED <<creator, created, procs>>
    BY <1>0, <1>5, PutsMove
  <2>2. nodes' \subseteq nodes
    BY <1>5 DEF NodePut2, NodePut, NodeDel, ResPut, nodeVars
  <2>3. \A m \in Names, q \in Pids : ~OwesFor(t, m) /\ (UndoneFor(t, m, q)' => UndoneFor(t, m, q))
    BY <2>1 DEF OwesFor, UndoneFor, Owes, Undone
  <2>4. \A m \in Names : ~OwesFor(t, m)
    BY <2>1 DEF OwesFor, Owes
  <2>. QED
    BY <1>0, <2>1, <2>2, <2>3, <2>4, CreateQuiet
<1>. QED
  BY <1>1, <1>2, <1>3, <1>4, <1>5, CreateNodeAdd, CreateAddToProc, CreateDelFromProc, CreateRecycle,
     CreateGone, CreateNew, CreateNodeDestroy, NextCases


-----------------------------------------------------------------------------
(* The promises that a process relies on. *)

(* A context that is gone has nothing open: the recycling finds every open of *)
(* its process on the list, although the list is written after the node,      *)
(* under another lock, by any number of threads, and an open that could not   *)
(* be listed is undone by name.  There is one way out, which []~Forestalled   *)
(* rules out: one thread closes what another has opened and not listed, and   *)
(* the other, for want of memory, sets out to undo it.                        *)
THEOREM NothingLeftOpen == Spec /\ []~Forestalled => []GoneHasNothingOpen
<1>1. ShrInv /\ OpenInv => GoneHasNothingOpen
  BY OpenImplies DEF ShrInv
<1>. QED
  BY <1>1, ShrAlways, OpenAlways, PTL

(* A process that has a node open ran already when the creator of the node    *)
(* put its pid on the white list; a later process with that pid has to be     *)
(* invited again, unless the earlier one has left an open behind.             *)
THEOREM OpenersInvited == Spec /\ []~Forestalled => []OpenersWereInvited
<1>1. Init => StartInv /\ OpenersWereInvited
  <2>. SUFFICES ASSUME Init PROVE StartInv /\ OpenersWereInvited
    OBVIOUS
  <2>1. nodes = {} /\ \A p \in Pids : start_time[p] = 0 /\ clock[p] = 0
    BY DEF Init
  <2>. QED
    BY <2>1 DEF StartInv, OpenersWereInvited
<1>2. ShrInv /\ ShrInv' /\ OpenInv /\ StartInv /\ OpenersWereInvited /\ [Next]_vars
         => StartInv' /\ OpenersWereInvited'
  BY StartStep, InviteStep DEF ShrInv, OpenInv
<1>. QED
  BY <1>1, <1>2, ShrAlways, OpenAlways, PTL DEF Spec

(* A context that is gone has destroyed what it created: its nodes live on    *)
(* for those who have them open, and no longer.  There is one way out, which  *)
(* []~Crossed rules out: one thread creates a node that another has just      *)
(* destroyed and not taken off the list yet.                                  *)
THEOREM NothingLeftCreated == Spec /\ []~Crossed => []GoneCreatedNothing
<1>1. Init => CreateInv
  BY DEF Init, CreateInv, OwedInv, UndoneInv, GoneCreatedNothing
<1>2. CreateInv => GoneCreatedNothing
  BY DEF CreateInv
<1>. QED
  BY <1>1, <1>2, CreateStep, ShrAlways, PTL DEF Spec
=============================================================================
