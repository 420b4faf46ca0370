---------------------------- MODULE MCTrsLogicCq ----------------------------
(* Small instances of TrsLogicCq. *)
EXTENDS TrsLogicCq

Plain(d)   == [match |-> FALSE, task |-> 0, data |-> d]
Sync(k)    == [match |-> TRUE, task |-> k, data |-> 0]
Ask(v, k, n, w) == [version |-> v, task |-> k, num |-> n, timeout |-> w, buf |-> "ok"]

(* CQEs that can be told apart: two for anybody, one for task 1 and two for   *)
(* task 2, so that holes are closed over different CQEs.                      *)
MCCqes == {Plain(1), Plain(2), Sync(1), Sync(2), [Sync(2) EXCEPT !.data = 1]}

(* Fewer, for the runs about waiting. *)
MCTaskCqes == {Plain(1), Sync(1), Sync(2)}

(* Both copy routines, batches of one and of two, no waiting, and a receive   *)
(* into memory that cannot be written.                                        *)
MCPolls == {Ask(1, 1, 2, "zero"), Ask(1, 2, 1, "zero"), Ask(0, 1, 1, "zero"),
            [Ask(1, 1, 1, "zero") EXCEPT !.buf = "bad"]}

(* Receives that wait, with every kind of timeout. *)
MCWaits == {Ask(1, 1, 2, "some"), Ask(1, 2, 1, "never"), Ask(0, 1, 1, "zero")}

(* Two receives that wait for a completion of their own. *)
MCTwoTasks == {Ask(1, 1, 1, "never"), Ask(1, 2, 1, "never")}
=============================================================================
