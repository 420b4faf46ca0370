------------------------------- MODULE MCTrsRes -------------------------------
(* Small instances of TrsRes: two threads of one process, one of another. *)
EXTENDS TrsRes

CONSTANTS t1, t2, t3, p1, p2, i1

MCThreads == {t1, t2, t3}
MCPids    == {p1, p2}
MCPidOf   == [t \in {t1, t2, t3} |-> IF t = t3 THEN p2 ELSE p1]
=============================================================================
