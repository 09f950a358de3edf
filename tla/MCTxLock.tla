------------------------------ MODULE MCTxLock ------------------------------
(* Values for the constants of TxLock.                                     *)
EXTENDS TxLock

(* What happens in one history: the rig comes and goes, the antenna or the *)
(* operator's hand disturbs, the level changes, another guard trips.       *)
OneTrouble ==
    {{"link", "lost", "reset"}, {"link", "restart"}, {"antenna", "band"}, {"byhand"},
     {"drive", "reset"}, {"faults", "lost", "restart"}}
=============================================================================
