------------------------------- MODULE TxPower -------------------------------
(***************************************************************************)
(* The transmit power: the one the station shows and persists, the one the *)
(* rig has, and the safety floor that lowers it when the band or the       *)
(* operator changes.  The power lies on the rig; the station learns of it  *)
(* by the poll, which takes any difference that is not the echo of its own *)
(* command for a turn of the knob.                                         *)
(***************************************************************************)
EXTENDS RigKeeper

CONSTANTS
    Operators,
    Cap,                     \* what licence and rig allow: operator -> band -> watts
    DefaultPower             \* operator -> default_power_w of the configuration

ASSUME PowerAssumption ==
    /\ Cap \in [Operators -> [Bands -> 0..RigMax]]
    /\ DefaultPower \in [Operators -> Watts]

VARIABLES
    operator,
    tx_power,                \* _tx_power_w
    from_state,              \* _tx_power_from_state
    active_band,             \* _last_active_band
    echo, echo_young,        \* last command in _recent_app_commands, its age
    power_alert              \* _last_power_alert_w

power == <<operator, tx_power, from_state, active_band, echo, echo_young, power_alert>>

Larger(x, y) == IF x > y THEN x ELSE y
AtMost(x, y) == IF x < y THEN x ELSE y

(* _legal_max_power_w, _compute_band_max_power_w; without a band the rig's *)
LegalMax(op, b) == IF b \in Bands /\ Cap[op][b] > 0 THEN Cap[op][b] ELSE RigMax
Half(w) == Larger(1, w \div 2)

(* _apply_tx_power_safety_floor for power w: what it is lowered to, if.    *)
(* Power kept over a restart is lowered to the limit only.                 *)
Floor(op, b, w, kept) ==
    IF b \in Bands /\ Cap[op][b] = 0 THEN None
    ELSE LET most == IF kept THEN LegalMax(op, b) ELSE Half(LegalMax(op, b))
         IN  IF w > most THEN most ELSE None

(* The floor of the start lowers the value; it may or may not find the rig. *)
InitPower ==
    /\ operator \in Operators
    /\ from_state \in BOOLEAN
    /\ tx_power \in IF from_state THEN Watts ELSE {AtMost(DefaultPower[operator], Half(RigMax))}
    /\ active_band = None
    /\ echo = None /\ echo_young = "no" /\ power_alert = None

-----------------------------------------------------------------------------
(* handle_tx_power: clamped to the limit of the band seen last.            *)
Slider ==
    /\ "slider" \in events /\ want["slider"] = None
    /\ \E w \in Watts : Asks("slider", Power(AtMost(w, LegalMax(operator, active_band))))
    /\ UNCHANGED <<events, rig, doing, mode, polled, recent, ready, alerts, power>>

(* status(), which anybody may ask for, notices another band.              *)
NoticeBand ==
    LET b == last_rig.dial.band
    IN  /\ last_rig.dial # None /\ b \in Bands \ {active_band}
        /\ want["floor"] = None
        /\ active_band' = b
        /\ from_state' = (from_state /\ Cap[operator][b] = 0)
        /\ LET w == Floor(operator, b, tx_power, from_state)
           IN  IF w = None THEN UNCHANGED want ELSE Asks("floor", Power(w))
        /\ UNCHANGED <<events, rig, doing, mode, polled, recent, ready, alerts,
                       operator, tx_power, echo, echo_young, power_alert>>

(* switch_operator: the QSO ends; the value is the new operator's own, and *)
(* the rig hears of it only if that is above the floor.                    *)
SwitchOperator ==
    /\ "operator" \in events /\ want["floor"] = None
    /\ activity' = "idle"
    /\ operator' \in Operators \ {operator}
    /\ tx_power' = DefaultPower[operator']
    /\ LET w == Floor(operator', active_band, tx_power', FALSE)
       IN  IF w = None THEN UNCHANGED want ELSE Asks("floor", Power(w))
    /\ UNCHANGED <<events, rig, hunting, mode, polled, recent, ready, alerts,
                   from_state, active_band, echo, echo_young, power_alert>>

(* on_config_changed: another default_power_w becomes the value.           *)
ChangeDefaultPower ==
    /\ "config" \in events
    /\ tx_power' \in Watts \ {tx_power}
    /\ UNCHANGED <<keeper, operator, from_state, active_band, echo, echo_young, power_alert>>

(* The value is taken over whether the rig obeyed or not.                  *)
SetPower(a, o) ==
    \E w \in Watts :
        /\ want[a] = Power(w)
        /\ IF o = "refused"
           THEN UNCHANGED <<watts, hands>>
           ELSE watts' = w /\ hands' = hands \ {"power"}
        /\ IF o = "done"
           THEN echo' = w /\ echo_young' = "set"
           ELSE UNCHANGED <<echo, echo_young>>
        /\ tx_power' = w
        /\ Asks(a, None)
        /\ UNCHANGED <<events, dial, data, doing, mode, polled, recent, ready, alerts,
                       operator, from_state, active_band, power_alert>>

(* The part of the poll: the rig is right, an echo is no reason to push.   *)
Apart(x, y) ==
    LET slack == Larger(1, RigMax \div 20)
    IN  x >= y + slack \/ y >= x + slack

IsEcho(w) == echo = w /\ echo_young # "no"

ComparePowerOnce ==                                                \* mutant
    IF reading.watts # None /\ power_alert = reading.watts
    THEN UNCHANGED <<tx_power, power_alert>>
    ELSE IF reading.watts = None \/ ~Apart(reading.watts, tx_power)
    THEN power_alert' = None /\ UNCHANGED tx_power
    ELSE tx_power' = reading.watts /\ power_alert' = reading.watts

ComparePower ==
    IF reading.watts = None
    THEN UNCHANGED <<tx_power, power_alert>>
    ELSE IF ~Apart(reading.watts, tx_power)
    THEN power_alert' = None /\ UNCHANGED tx_power
    ELSE /\ tx_power' = reading.watts
         /\ IF ~IsEcho(reading.watts) /\ armed /\ StationAktiv
            THEN power_alert' = reading.watts
            ELSE UNCHANGED power_alert

ReadPowerPart ==
    /\ echo_young' = Read(echo_young)
    /\ UNCHANGED <<operator, tx_power, from_state, active_band, echo, power_alert>>

ComparePowerPart ==
    /\ ComparePower
    /\ echo_young' = Seen(echo_young)
    /\ UNCHANGED <<operator, from_state, active_band, echo>>

EchoGrowsOld ==
    /\ echo_young = "seen" /\ echo_young' = "no"
    /\ UNCHANGED <<keeper, operator, tx_power, from_state, active_band, echo, power_alert>>

TypeOKPower ==
    /\ operator \in Operators /\ tx_power \in Watts /\ from_state \in BOOLEAN
    /\ active_band \in Bands \cup {None}
    /\ echo \in Watts \cup {None} /\ echo_young \in {"no", "set", "read", "seen"}
    /\ power_alert \in Watts \cup {None}
=============================================================================
