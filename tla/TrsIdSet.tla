------------------------------- MODULE TrsIdSet -------------------------------
(***************************************************************************)
(* What the id allocator promises its callers: an id that is handed out    *)
(* was in nobody's hands, and an id stays with its holder until the holder *)
(* frees it.  Ids that are not in use can get lost, and then never return. *)
(***************************************************************************)
CONSTANTS Users, Ids, Unused, Lost

VARIABLE owner

Take(u, i) == owner[i] = Unused /\ owner' = [owner EXCEPT ![i] = u]

(* A free that finds no allocator loses the id. *)
GiveBack(u, i) ==
    owner[i] = u /\ \E x \in {Unused, Lost} : owner' = [owner EXCEPT ![i] = x]

Lose(S) ==
    /\ \A i \in S : owner[i] = Unused
    /\ owner' = [i \in Ids |-> IF i \in S THEN Lost ELSE owner[i]]

Init == owner = [i \in Ids |-> Unused]

Next ==
    \/ \E u \in Users, i \in Ids : Take(u, i) \/ GiveBack(u, i)
    \/ \E S \in SUBSET Ids : Lose(S)

Spec == Init /\ [][Next]_owner
=============================================================================
