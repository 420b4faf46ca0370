------------------------------ MODULE MCTrsShrId ------------------------------
(* Small instances of TrsShrId: two threads of a process, one of another. *)
EXTENDS TrsShrId, TLC

CONSTANTS t1, t2, t3, p1, p2

MCPids  == {p1, p2}
MCPidOf == [t \in {t1, t2, t3} |-> IF t = t3 THEN p2 ELSE p1]

(* The second pid is used twice. *)
MCMaxClock == (p1 :> 1) @@ (p2 :> 2)
=============================================================================
