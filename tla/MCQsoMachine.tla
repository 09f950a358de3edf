---------------------------- MODULE MCQsoMachine ----------------------------
(* Values for the constants of QsoMachine.  A batch holds the few decodes  *)
(* that matter to the machine: one message of a station, or two.           *)
EXTENDS QsoClaims, TLC

CONSTANTS a, b

Msg(f, t, k) == [from |-> f, to |-> t, kind |-> k]

(* What a station may send: CQ, an answer to us, or to somebody else.      *)
From(c) == {Msg(c, "none", "cq"), Msg(c, "other", "grid")}
           \cup {Msg(c, "us", k) : k \in {"grid", "report", "rreport", "closing"}}

Single(c) == {{}} \cup {{m} : m \in From(c)}
EverySlot(batches) == [p \in Parities |-> batches]
SingleA == EverySlot(Single(a))

(* Station a keeps to the even slots, as one that follows the protocol.    *)
EvenA == [p \in Parities |-> IF p = "even" THEN Single(a) ELSE {{}}]

(* It only ever calls CQ, as one that does not hear us.                    *)
EvenCqA == [p \in Parities |-> IF p = "even" THEN {{}, {Msg(a, "none", "cq")}} ELSE {{}}]

(* The few messages that take a QSO through its states.                    *)
ShortA ==
    [p \in Parities |->
        IF p = "even" THEN {{}, {Msg(a, "none", "cq")}, {Msg(a, "us", "report")},
                            {Msg(a, "us", "rreport")}}
                      ELSE {{}}]

(* Our callsign and that of a are transmitted as hashes.                   *)
HashedA ==
    {{Msg(a, "hash", k)} : k \in {"report", "rreport", "closing"}}
    \cup {{Msg(Hash, "us", k)} : k \in {"report", "closing"}}

(* Two stations heard in one slot: b offers another QSO, alone or while a  *)
(* is about to end its own.  In the other slots either may be heard too.   *)
TwoStations ==
    [p \in Parities |->
        IF p = "even"
        THEN Single(a) \cup HashedA \cup {{Msg(b, "none", "cq")}}
             \cup {{Msg(a, "us", k), m} :
                       k \in {"rreport", "closing"},
                       m \in {Msg(b, "none", "cq"), Msg(b, "us", "grid")}}
        ELSE {{}, {Msg(a, "none", "cq")}, {Msg(a, "us", "rreport")}, {Msg(b, "none", "cq")}}]

HuntMode == {<<FALSE, TRUE>>}
CqMode == {<<TRUE, FALSE>>}
BothModes == {<<TRUE, TRUE>>}
AllModes == BOOLEAN \X BOOLEAN
=============================================================================
