------------------------------ MODULE Autopilot ------------------------------
(***************************************************************************)
(* The hunt autopilot: every minute it may choose another band and mode    *)
(* from what was decoded in the last minutes.  It decides in two steps:    *)
(* the station is looked at before the statistics are fetched, band and    *)
(* mode are changed after.  Counts of decodes are levels, scores a free    *)
(* choice among the bands; rates of completed QSOs are left out.           *)
(***************************************************************************)
EXTENDS RigKeeper

CONSTANTS
    AutopilotBands,          \* autopilot_allowed_bands
    NullProbeThreshold,      \* autopilot_ft4_null_probe_threshold
    Ft4Levels                \* per band, how much FT4 is on the air: functions

ASSUME PilotAssumption ==
    /\ AutopilotBands \subseteq Bands
    /\ NullProbeThreshold \in Nat \ {0}
    /\ Ft4Levels \subseteq [Bands -> {"dead", "weak", "dense"}]

VARIABLES
    ft4,                     \* what is on the air, for the whole history
    ft8_heard,               \* bands with many FT8 decodes in the last minutes
    looked,                  \* evaluation that waits for its statistics
    last_switch,             \* _autopilot_last_switch_at: never, young, probed
                             \* (probe dwell over), old (cooldown over)
    null_probes, blocked     \* bands where FT4 is paused

pilot == <<ft4, ft8_heard, looked, last_switch, null_probes, blocked>>

InitPilot ==
    /\ ft4 \in Ft4Levels
    /\ ft8_heard = {}
    /\ looked = None
    /\ last_switch = "never"
    /\ null_probes = [b \in Bands |-> 0] /\ blocked = {}

-----------------------------------------------------------------------------
CountAnyAsSwitch(known) ==                                         \* mutant
    last_switch' = IF known /\ mode = "FT4" THEN "young" ELSE last_switch

(* _maybe_run_autopilot up to the statistics.  The first FT4 it meets      *)
(* counts as a switch; in the cooldown only an overdue FT4 probe is looked *)
(* at.                                                                     *)
CountAsSwitch(known) ==
    last_switch' = IF known /\ mode = "FT4" /\ last_switch = "never"
                   THEN "young" ELSE last_switch

Look ==
    LET b == last_rig.dial.band
        cooling == last_switch' \in {"young", "probed"}
    IN  /\ "autopilot" \in events
        /\ looked = None /\ want["autopilot"] = None
        /\ hunting /\ activity = "idle" /\ last_rig.dial # None
        /\ CountAsSwitch(b # None)
        /\ looked' = IF cooling /\ ~(b # None /\ mode = "FT4" /\ last_switch' = "probed")
                     THEN None
                     ELSE [band |-> b, mode |-> mode, cooling |-> cooling]
        /\ UNCHANGED <<keeper, ft4, ft8_heard, null_probes, blocked>>

(* _autopilot_mode_for_band                                                *)
Crowded(b) == b \in ft8_heard \/ ft4[b] = "dense"
ModeFor(b) == IF b \notin blocked /\ Crowded(b) THEN "FT4" ELSE "FT8"
Targets == {[band |-> b, at |-> ModeFor(b)] : b \in AutopilotBands}

(* _autopilot_ft4_probe_escape, _autopilot_decision                        *)
Decisions ==
    LET here == looked.band
    IN  IF looked.cooling
        THEN {IF ft4[here] = "dense" THEN None ELSE [band |-> here, at |-> "FT8"]}
        ELSE Targets \cup {n \in {None} : /\ {here} \subseteq AutopilotBands
                                          /\ AutopilotBands # {here}
                                          /\ Crowded(here) \/ ft4[here] # "dead"}

Changes(d) == d # None /\ d # [band |-> looked.band, at |-> looked.mode]

(* _autopilot_record_ft4_probe_result                                      *)
RecordProbe(d) ==
    LET b == looked.band
        count == null_probes[b] + 1
    IN  IF looked.mode # "FT4" \/ d # [band |-> b, at |-> "FT8"]
        THEN UNCHANGED <<null_probes, blocked>>
        ELSE IF ft4[b] # "dead"
        THEN null_probes' = [null_probes EXCEPT ![b] = 0] /\ UNCHANGED blocked
        ELSE IF count < NullProbeThreshold
        THEN null_probes' = [null_probes EXCEPT ![b] = count] /\ UNCHANGED blocked
        ELSE null_probes' = [null_probes EXCEPT ![b] = 0] /\ blocked' = blocked \cup {b}

(* The rest, and _apply_autopilot_target: the mode at once, then the dial, *)
(* if the last snapshot saw it elsewhere.                                  *)
Decide ==
    /\ looked # None /\ looked' = None
    /\ \E d \in Decisions :
        IF ~Changes(d)
        THEN /\ null_probes' = IF looked.cooling THEN [null_probes EXCEPT ![looked.band] = 0]
                               ELSE null_probes
             /\ UNCHANGED <<mode, want, last_switch, blocked>>
        ELSE /\ RecordProbe(d)
             /\ mode' = d.at
             /\ IF last_rig.dial = d
                THEN last_switch' = "young" /\ UNCHANGED want
                ELSE Asks("autopilot", d) /\ UNCHANGED last_switch
    /\ UNCHANGED <<events, rig, doing, polled, recent, ready, alerts, ft4, ft8_heard>>

(* A rig that does not obey ends the evaluation without a switch.          *)
TurnPilotDial(o) ==
    /\ TurnDial("autopilot", o)
    /\ last_switch' = IF o = "done" THEN "young" ELSE last_switch
    /\ UNCHANGED <<ft4, ft8_heard, looked, null_probes, blocked>>

SwitchGrowsOld ==
    /\ \/ last_switch = "young" /\ last_switch' = "probed"
       \/ last_switch = "probed" /\ last_switch' = "old"
    /\ UNCHANGED <<keeper, ft4, ft8_heard, looked, null_probes, blocked>>

PauseEnds ==
    /\ \E b \in blocked : blocked' = blocked \ {b}
    /\ UNCHANGED <<keeper, ft4, ft8_heard, looked, last_switch, null_probes>>

Hearing(b) == mode = "FT8" /\ dial = [band |-> b, at |-> "FT8"]
HearFt8 ==
    /\ "autopilot" \in events
    /\ \E b \in AutopilotBands \ ft8_heard : Hearing(b) /\ ft8_heard' = ft8_heard \cup {b}
    /\ UNCHANGED <<keeper, ft4, looked, last_switch, null_probes, blocked>>
Ft8LeavesWindow ==
    /\ \E b \in ft8_heard : ~Hearing(b) /\ ft8_heard' = ft8_heard \ {b}
    /\ UNCHANGED <<keeper, ft4, looked, last_switch, null_probes, blocked>>

TypeOKPilot ==
    /\ ft4 \in Ft4Levels /\ ft8_heard \subseteq Bands
    /\ looked \in [band : Bands \cup {None}, mode : Modes, cooling : BOOLEAN] \cup {None}
    /\ last_switch \in {"never", "young", "probed", "old"}
    /\ null_probes \in [Bands -> 0..(NullProbeThreshold - 1)] /\ blocked \subseteq Bands
=============================================================================
