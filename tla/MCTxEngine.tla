----------------------------- MODULE MCTxEngine -----------------------------
(* Values for the constants of TxEngine.                                   *)
EXTENDS TxClaims, TLC

(* A handler leaves nothing, a reply, a closing, a call that may follow    *)
(* the STOP_TX of the QSO before it, or the RR73 of a QSO and a CQ.        *)
ReplyPlans == {<<>>, <<"report">>, <<"closing">>, <<"off", "first">>, <<"closing", "first">>}
CallPlans == {<<>>, <<"first">>}
=============================================================================
