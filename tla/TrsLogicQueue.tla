---------------------------- MODULE TrsLogicQueue ----------------------------
(***************************************************************************)
(* What a logic completion queue (logic CQ) promises its receivers: a      *)
(* bounded FIFO of completion entries (CQEs) from which a receive takes    *)
(* one contiguous run.  A CQE whose match flag is set belongs to the one   *)
(* receiver that names its task; every other CQE is for anybody.           *)
(*                                                                         *)
(* TrsLogicCq, the model of trs_core/trs_logic_cq.c, implements this.      *)
(***************************************************************************)
EXTENDS Integers, Sequences

CONSTANTS Threads,   \* the threads that call trs_logic_cq_recv
          Depth,     \* cq_depth: number of slots; one is always left free
          Cqes,      \* CQEs, records [match, task, data]
          Requests,  \* receive parameters, records [version, task, num, ...]
          NoReq      \* request of a thread that is not in a receive

VARIABLES open,      \* the queue exists
          q,         \* the CQEs in it, oldest first
          req,       \* req[t]: the receive t is executing, or NoReq
          report     \* report[t]: the CQEs the receive of t has taken

vars == <<open, q, req, report>>

(* The CQE c is reserved for the receiver of another task than r's. *)
Reserved(r, c) == r.version = 1 /\ c.match /\ c.task # r.task

(* The first CQE that the receive r may take. *)
IsFirst(r, i) == /\ i \in 1..Len(q)
                 /\ ~Reserved(r, q[i])
                 /\ \A j \in 1..(i - 1) : Reserved(r, q[j])

(* q[i..k] is a run that r may take: nothing reserved for others, nothing  *)
(* after a CQE that was reserved for r itself, and no more than asked for  *)
(* (a version 0 receive takes no notice of the number asked for).          *)
IsRun(r, i, k) == /\ k \in i..Len(q)
                  /\ \A j \in i..k : ~Reserved(r, q[j])
                  /\ r.version = 1 =>
                        /\ \A j \in i..(k - 1) : ~q[j].match
                        /\ k - i < r.num

Init == /\ open = FALSE
        /\ q = <<>>
        /\ req = [t \in Threads |-> NoReq]
        /\ report = [t \in Threads |-> <<>>]

Open == /\ ~open
        /\ open' = TRUE
        /\ q' = <<>>
        /\ UNCHANGED <<req, report>>

Close == /\ open
         /\ open' = FALSE
         /\ q' = <<>>
         /\ UNCHANGED <<req, report>>

Enque(c) == /\ open
            /\ Len(q) < Depth - 1
            /\ q' = Append(q, c)
            /\ UNCHANGED <<open, req, report>>

Call(t, r) == /\ req[t] = NoReq
              /\ req' = [req EXCEPT ![t] = r]
              /\ UNCHANGED <<open, q, report>>

Take(t) == /\ open
           /\ req[t] # NoReq
           /\ report[t] = <<>>
           /\ \E i, k \in 1..Len(q) :
                 /\ IsFirst(req[t], i)
                 /\ IsRun(req[t], i, k)
                 /\ report' = [report EXCEPT ![t] = SubSeq(q, i, k)]
                 /\ q' = SubSeq(q, 1, i - 1) \o SubSeq(q, k + 1, Len(q))
           /\ UNCHANGED <<open, req>>

Return(t) == /\ req[t] # NoReq
             /\ req' = [req EXCEPT ![t] = NoReq]
             /\ report' = [report EXCEPT ![t] = <<>>]
             /\ UNCHANGED <<open, q>>

Next == \/ Open
        \/ Close
        \/ \E c \in Cqes : Enque(c)
        \/ \E t \in Threads : \/ \E r \in Requests : Call(t, r)
                              \/ Take(t)
                              \/ Return(t)

Spec == Init /\ [][Next]_vars
=============================================================================
