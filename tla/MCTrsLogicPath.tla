---------------------------- MODULE MCTrsLogicPath ----------------------------
(* Small instances of TrsLogicPath. *)
EXTENDS TrsLogicPath

MCPlain == {[match |-> FALSE, task |-> 0, data |-> 1]}

Ask(n, w) == [version |-> 1, task |-> 1, num |-> n, timeout |-> w, buf |-> "ok"]

MCAsk   == {Ask(1, "never")}
MCPoll  == {Ask(1, "zero")}
=============================================================================
