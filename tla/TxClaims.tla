------------------------------ MODULE TxClaims ------------------------------
(***************************************************************************)
(* Statements that the comments and docs of the program make of its        *)
(* transmissions and that its code does not keep.  TLC refutes each one on *)
(* the instances of MCTxEngine; what happens instead is told in the        *)
(* README.                                                                 *)
(***************************************************************************)
EXTENDS TxEngine

(* architecture.md: a panic stop switches the PTT off and locks TX.  A call*)
(* decided before it and waiting for the boundary starts after it.         *)
StoppedStartsNoCall ==
    [][\A t \in Tasks : (sm.state = "stopped" /\ pc[t] = "wait" /\ Head(plan[t]) = "first")
                        => pc'[t] # "keying"]_vars

(* _schiebe_tx_auf: this slot is ours, the next one his.  A reply found at *)
(* the end of our slot does not wait for the next slot of ours.            *)
LateReplyAvoidsHisSlot ==
    [][\A t \in Lates : (pc[t] = "wait" /\ Head(plan[t]) \in Aufschiebbar)
                        => pc'[t] # "keying"]_vars
=============================================================================
