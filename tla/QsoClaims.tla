----------------------------- MODULE QsoClaims -----------------------------
(***************************************************************************)
(* Statements that the comments and docs of the program make of the QSO    *)
(* state machine and that its code does not keep.  TLC refutes each one on *)
(* the instances of MCQsoMachine; what happens instead is told in the      *)
(* README.                                                                 *)
(***************************************************************************)
EXTENDS QsoMachine

(* README.md: a panic stop locks TX until reset.  The handler behind it is *)
(* that of an ordinary stop.                                               *)
PanicLocks == stopped = "panic" => OfKind(pending, "TX_MESSAGE") = {}

(* _emit_log_qso: the plausibility lock never refuses a real QSO.  One     *)
(* taken up again has forgotten that its station addressed us.             *)
RealQsoIsLogged ==
    \A x \in OfKind(pending, "QSO_BAIL") :
        x.reason = "ohne_adressierung" => x.call \notin heard

(* set_drain_for_update: while an update waits, no new CQ.  The grace      *)
(* window ends in one if CQ mode is on.                                    *)
DrainSendsNoCq ==
    drain_for_update => \A x \in OfKind(pending, "TX_MESSAGE") : x.kind # "cq"

(* on_decodes, PRIO 1: a station that was given up is not answered at once *)
(* when it repeats its report.  While we call CQ, of ourselves or for want *)
(* of somebody to call, nobody asks for the cooldown.                      *)
NoAnswerInCooldown ==
    [][QsoBegins => \/ qso'.their_call \notin recent_until
                    \/ recent_qso_ctx[qso'.their_call] = "live"]_vars

(* on_decodes: nobody is held not to hear us without two calls of ours on  *)
(* the air.  Repeats are counted when queued, sent or not.                 *)
IgnoredOnlyIfCalled ==
    \A x \in OfKind(pending, "QSO_BAIL") : x.reason = "max_resends" => rufe >= 2
=============================================================================
