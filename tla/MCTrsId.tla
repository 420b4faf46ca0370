-------------------------------- MODULE MCTrsId --------------------------------
(* Small instances of TrsId. *)
EXTENDS TrsId
=============================================================================
