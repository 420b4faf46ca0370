----------------------------- MODULE MCTrsChanSq -----------------------------
(* Small instances of TrsChanSq. *)
EXTENDS TrsChanSq, TLC

MCSymmetry == Permutations(Senders)

MCTimeouts == {1, -1}

(* What follows the first stale head is not explored: the properties of the   *)
(* ring except it.                                                            *)
UpToOvertaking == ~overtaken
=============================================================================
