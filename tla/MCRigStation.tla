---------------------------- MODULE MCRigStation ----------------------------
(* Values for the constants of RigStation.                                 *)
EXTENDS RigStation

(* Two bands of which one allows less, two operators of whom one may less. *)
TwoBands == {"20m", "40m"}
Caps == [full  |-> [b \in TwoBands |-> IF b = "20m" THEN 2 ELSE 1],
         entry |-> [b \in TwoBands |-> IF b = "20m" THEN 1 ELSE 0]]
Defaults == [full |-> 2, entry |-> 1]
OneBand == {"20m"}
NoFt4 == {[b \in TwoBands |-> "dead"]}

(* What happens in one history.                                            *)
OneStory ==
    {{"mode", "dial"}, {"data", "restore", "start", "traffic"},
     {"band", "restore_button", "start"}, {"band", "restore_button", "faults"},
     {"slider", "power"}, {"slider", "faults"}, {"slider", "band"},
     {"operator", "config"}, {"autopilot"}}

(* Only what the history is about starts with more than one value.         *)
StationInit ==
    /\ Init
    /\ operator = "full"
    /\ dial.at # "off"
    /\ "autopilot" \notin events => dial.band = "20m"
    /\ events \cap {"autopilot", "mode"} = {} => mode = "FT8"
    /\ events \cap {"slider", "operator"} = {} => watts = 1 /\ tx_power = 1 /\ ~from_state
    /\ "power" \notin events => watts = tx_power
    /\ "slider" \in events => dial.at = mode
    /\ "start" \notin events => hunting

StationSpec == StationInit /\ [][Next]_vars /\ Fairness
=============================================================================
