------------------------------ MODULE RigKeeper ------------------------------
(***************************************************************************)
(* The rig's dial and data mode, and what the station does about them:     *)
(* the poll that compares them with what they should be, the pushes to the *)
(* operator, the restoring of the data mode, the change between FT8 and    *)
(* FT4 with its sub-bands, and the buttons.                                *)
(*                                                                         *)
(* A command is decided in one step and reaches the rig in a later one:    *)
(* between the two its task waits for the lock of the rig's connection.    *)
(* The lock is fair, so it reaches the rig before the next poll begins.    *)
(* A poll reads first and compares later.  Left out: the filter width,     *)
(* which is watched as the data mode is, and the receiver's settings.      *)
(***************************************************************************)
EXTENDS Naturals, FiniteSets

CONSTANTS
    None,
    Bands,                   \* bands of the configuration
    RigMax,                  \* power of the rig
    Scenarios                \* what may happen in one history: sets of events

ASSUME KeeperAssumption == None \notin Bands /\ RigMax \in Nat \ {0}

Modes == {"FT8", "FT4"}
Dials == [band : Bands, at : Modes \cup {"off"}]
Away == [band |-> None, at |-> "off"]      \* on no band of the configuration
Watts == 1..RigMax

(* A command: a dial, the data mode, or a power.                           *)
Digital == [mode |-> "PKTUSB"]
Power(w) == [watts |-> w]

(* Tasks that send commands; each waits for one at a time.                 *)
Askers == {"config", "button", "restore", "reconcile", "autopilot", "slider", "floor"}

VARIABLES
    events,
    dial, data, watts,       \* the rig: dial, in data mode, power
    hands,                   \* history: what was moved at the rig by hand
    hunting, activity,       \* auto_answer; idle, qso or burst
    mode,                    \* operating.mode, the decoder's and the clock's
    reading, last_rig,       \* snapshot under way, _last_rig
    want,                    \* command each task waits to send
    dial_young,              \* _dial_set_at: set, read, seen by a poll, or no more
    restore_young,           \* _rig_restore_last_at less than 15 s ago
    armed, reconciled, drift_ready,
    mode_alert, drift,       \* _last_mode_alert, _last_logged_drift_hz
    false_alarm              \* history: pushed when the dial was right, untouched

rig     == <<dial, data, watts, hands>>
doing   == <<hunting, activity>>
polled  == <<reading, last_rig>>
recent  == <<dial_young, restore_young>>
ready   == <<armed, reconciled, drift_ready>>
alerts  == <<mode_alert, drift, false_alarm>>
keeper  == <<events, rig, doing, mode, polled, want, recent, ready, alerts>>

NoAnswer == [dial |-> None, data |-> TRUE, watts |-> None]

InitKeeper ==
    /\ events \in Scenarios
    /\ dial \in Dials /\ data = TRUE /\ watts \in Watts
    /\ hunting \in BOOLEAN /\ activity = "idle"
    /\ mode \in Modes /\ hands = {h \in {"dial"} : dial.at # mode}
    /\ reading = None /\ last_rig = NoAnswer
    /\ want = [a \in Askers |-> None]
    /\ dial_young = "no" /\ restore_young = FALSE
    /\ armed = FALSE /\ reconciled = FALSE /\ drift_ready = FALSE
    /\ mode_alert = FALSE /\ drift = FALSE /\ false_alarm = FALSE

(* _station_aktiv                                                          *)
StationAktiv == hunting \/ activity # "idle"

(* A command succeeds, is refused, or is carried out and its answer lost.  *)
Outcomes == {"done"} \cup {o \in {"refused", "unanswered"} : "faults" \in events}

Asks(a, c) == want' = [want EXCEPT ![a] = c]

-----------------------------------------------------------------------------
(* _ensure_dial_matches_mode: the dial of the mode on the band where the   *)
(* last snapshot saw the rig; nothing if it saw it there, or nowhere.      *)
DialFor(m) ==
    IF last_rig.dial \in Dials /\ last_rig.dial.at # m
    THEN [last_rig.dial EXCEPT !.at = m]
    ELSE None

(* on_config_changed: decoder and slot clock at once, then the dial.       *)
ChangeMode ==
    /\ "mode" \in events /\ want["config"] = None
    /\ mode' \in Modes \ {mode}
    /\ Asks("config", DialFor(mode'))
    /\ UNCHANGED <<events, rig, doing, polled, recent, ready, alerts>>

(* switch_band: to the FT8 dial of the band, then data mode.               *)
BandButton ==
    /\ "band" \in events /\ want["button"] = None
    /\ \E b \in Bands : Asks("button", [band |-> b, at |-> "FT8"])
    /\ UNCHANGED <<events, rig, doing, mode, polled, recent, ready, alerts>>

(* handle_restore_rig_settings: data mode, then the dial.                  *)
RestoreButton ==
    /\ "restore_button" \in events /\ want["restore"] = None /\ activity # "burst"
    /\ Asks("restore", Digital)
    /\ restore_young' = TRUE
    /\ UNCHANGED <<events, rig, doing, mode, polled, dial_young, ready, alerts>>

StartStop ==
    /\ "start" \in events
    /\ hunting' = ~hunting
    /\ activity' = "idle"
    /\ UNCHANGED <<events, rig, mode, polled, want, recent, ready, alerts>>

(* QSOs and bursts come and go.                                            *)
Operate ==
    /\ "traffic" \in events /\ hunting
    /\ \/ activity = "idle" /\ activity' = "qso"
       \/ activity = "qso" /\ activity' \in {"idle", "burst"}
       \/ activity = "burst" /\ activity' = "qso"
    /\ UNCHANGED <<events, rig, hunting, mode, polled, want, recent, ready, alerts>>

(* Somebody turns a knob of the rig.                                       *)
Hand ==
    /\ \/ /\ "dial" \in events
          /\ dial' \in (Dials \cup {Away}) \ {dial}
          /\ hands' = hands \cup {"dial"}
          /\ UNCHANGED <<data, watts>>
       \/ /\ "data" \in events
          /\ data' = ~data
          /\ UNCHANGED <<dial, watts, hands>>
       \/ /\ "power" \in events
          /\ watts' \in Watts \ {watts}
          /\ hands' = hands \cup {"power"}
          /\ UNCHANGED <<dial, data>>
    /\ UNCHANGED <<events, doing, mode, polled, want, recent, ready, alerts>>

-----------------------------------------------------------------------------
(* handle_set_freq, handle_set_mode: a command of task a reaches the rig.  *)
(* What follows in the task follows at once.                               *)

TurnDial(a, o) ==
    /\ want[a] \in Dials
    /\ IF o = "refused"
       THEN UNCHANGED <<dial, hands>>
       ELSE dial' = want[a] /\ hands' = hands \ {"dial"}
    /\ dial_young' = IF o = "done" THEN "set" ELSE dial_young
    /\ mode_alert' = (mode_alert /\ a # "restore")
    /\ Asks(a, IF a = "button" /\ o = "done" THEN Digital ELSE None)
    /\ UNCHANGED <<events, data, watts, doing, mode, polled, restore_young, ready, drift, false_alarm>>

SetDataMode(a, o) ==
    /\ want[a] = Digital
    /\ data' = (data \/ o # "refused")
    /\ Asks(a, IF a = "restore" /\ o = "done" THEN DialFor(mode) ELSE None)
    /\ mode_alert' = (mode_alert /\ ~(a = "restore" /\ o = "done" /\ DialFor(mode) = None))
    /\ UNCHANGED <<events, dial, watts, hands, doing, mode, polled, recent, ready, drift, false_alarm>>

-----------------------------------------------------------------------------
(* The poll: read, reconcile the dial once after the start, compare.       *)

(* A command of ours ages with the polls: set, read, compared.             *)
Read(young) == IF young = "set" /\ reading' # NoAnswer THEN "read" ELSE young
Seen(young) == IF young = "read" THEN "seen" ELSE young

ReadRig ==
    /\ reading = None /\ \A a \in Askers : want[a] = None
    /\ reading' \in {[dial |-> dial, data |-> data, watts |-> watts]}
                    \cup {r \in {NoAnswer} : "faults" \in events}
    /\ dial_young' = Read(dial_young)
    /\ UNCHANGED <<events, rig, doing, mode, last_rig, want, restore_young, ready, alerts>>

(* _reconcile_dial_once_after_rig_ready                                    *)
Reconcile ==
    /\ reading # None /\ reading.dial # None /\ ~reconciled
    /\ last_rig' = reading
    /\ reconciled' = TRUE
    /\ Asks("reconcile",
            IF reading.dial \in Dials /\ reading.dial.at # mode
            THEN [reading.dial EXCEPT !.at = mode] ELSE None)
    /\ UNCHANGED <<events, rig, doing, mode, reading, recent, armed, drift_ready, alerts>>

MayCompare ==
    /\ reading # None
    /\ reading.dial # None => reconciled
    /\ want["reconcile"] = None

CompareBeforeArming ==                                             \* mutant
    IF reading.dial # None /\ reading.data
    THEN mode_alert' = FALSE /\ UNCHANGED <<want, restore_young>>
    ELSE UNCHANGED <<mode_alert, want, restore_young>>

(* Not in data mode: push, and restore unless that was done just now.      *)
CompareDataMode ==
    IF reading.dial = None
    THEN UNCHANGED <<mode_alert, want, restore_young>>
    ELSE IF reading.data
    THEN mode_alert' = FALSE /\ UNCHANGED <<want, restore_young>>
    ELSE IF armed /\ StationAktiv /\ ~mode_alert
    THEN /\ mode_alert' = TRUE
         /\ IF "restore" \in events /\ ~restore_young /\ want["restore"] = None
            THEN /\ restore_young' = TRUE
                 /\ IF activity = "burst" THEN UNCHANGED want ELSE Asks("restore", Digital)
            ELSE UNCHANGED <<want, restore_young>>
    ELSE UNCHANGED <<mode_alert, want, restore_young>>

(* A dial of ours set in the last seconds is no reason for a push.         *)
RecentlySelfSet == dial_young # "no"

(* Off the dial of the mode: noted, and pushed the first time.  After the  *)
(* start not before the dial was right once or the grace is over.          *)
CompareDial ==
    LET off == reading.dial.at # mode
    IN  IF reading.dial = None \/ reading.dial = Away
        THEN UNCHANGED <<drift_ready, drift, false_alarm>>
        ELSE /\ drift_ready' \in {~off \/ drift_ready, TRUE}
             /\ IF ~drift_ready' \/ ~StationAktiv
                THEN UNCHANGED <<drift, false_alarm>>
                ELSE /\ drift' = off
                     /\ false_alarm' =
                            (false_alarm
                             \/ (/\ off /\ ~drift /\ ~RecentlySelfSet
                                 /\ "dial" \notin hands /\ dial.at = mode))

Compare ==
    /\ MayCompare
    /\ last_rig' = reading /\ reading' = None
    /\ CompareDataMode
    /\ armed' = (armed \/ reading.dial # None)
    /\ CompareDial
    /\ dial_young' = Seen(dial_young)
    /\ UNCHANGED <<events, rig, doing, mode, reconciled>>

(* Five and fifteen seconds: a rig that answers is polled before.         *)
DialGrowsOld ==
    /\ dial_young = "seen" /\ dial_young' = "no"
    /\ UNCHANGED <<events, rig, doing, mode, polled, want, restore_young, ready, alerts>>
RestoreGrowsOld ==
    /\ restore_young /\ restore_young' = FALSE
    /\ UNCHANGED <<events, rig, doing, mode, polled, want, dial_young, ready, alerts>>

TypeOKKeeper ==
    /\ events \in Scenarios
    /\ dial \in Dials \cup {Away} /\ data \in BOOLEAN /\ watts \in Watts
    /\ hands \subseteq {"dial", "power"}
    /\ hunting \in BOOLEAN /\ activity \in {"idle", "qso", "burst"} /\ mode \in Modes
    /\ LET Answers == [dial : Dials \cup {Away}, data : BOOLEAN, watts : Watts] \cup {NoAnswer}
       IN  reading \in Answers \cup {None} /\ last_rig \in Answers
    /\ want \in [Askers -> Dials \cup {Power(w) : w \in Watts} \cup {Digital, None}]
    /\ dial_young \in {"no", "set", "read", "seen"} /\ restore_young \in BOOLEAN
    /\ armed \in BOOLEAN /\ reconciled \in BOOLEAN /\ drift_ready \in BOOLEAN
    /\ mode_alert \in BOOLEAN /\ drift \in BOOLEAN /\ false_alarm \in BOOLEAN
=============================================================================
