----------------------------- MODULE RigStation -----------------------------
(***************************************************************************)
(* Keeper, power and autopilot together: one rig, one poll, one lock.      *)
(***************************************************************************)
EXTENDS TxPower, Autopilot

vars == <<keeper, power, pilot>>

Init == InitKeeper /\ InitPower /\ InitPilot

Snapshot == ReadRig /\ ReadPowerPart /\ UNCHANGED pilot
Poll == Compare /\ ComparePowerPart /\ UNCHANGED pilot

Commands ==
    \/ \E a \in Askers \ {"autopilot"}, o \in Outcomes :
          (TurnDial(a, o) \/ SetDataMode(a, o)) /\ UNCHANGED <<power, pilot>>
    \/ \E a \in {"slider", "floor"}, o \in Outcomes : SetPower(a, o) /\ UNCHANGED pilot
    \/ \E o \in Outcomes : TurnPilotDial(o) /\ UNCHANGED power

Others ==
    \/ (Reconcile \/ DialGrowsOld \/ RestoreGrowsOld) /\ UNCHANGED <<power, pilot>>
    \/ (NoticeBand \/ EchoGrowsOld) /\ UNCHANGED pilot
    \/ (Look \/ Decide \/ SwitchGrowsOld \/ PauseEnds \/ HearFt8 \/ Ft8LeavesWindow)
       /\ UNCHANGED power

Internal == Snapshot \/ Poll \/ Commands \/ Others

Outside ==
    \/ /\ ChangeMode \/ BandButton \/ RestoreButton \/ StartStop \/ Operate \/ Hand
       /\ UNCHANGED <<power, pilot>>
    \/ /\ Slider \/ SwitchOperator \/ ChangeDefaultPower
       /\ UNCHANGED pilot

Next == Internal \/ Outside
Spec == Init /\ [][Next]_vars

(* Tasks go on, time passes, and a rig that fails answers now and then.    *)
Fairness ==
    /\ SF_vars(Snapshot /\ reading' # NoAnswer)
    /\ WF_vars(Poll \/ (Reconcile /\ UNCHANGED <<power, pilot>>))
    /\ WF_vars(Commands)
    /\ WF_vars((Look \/ Decide) /\ UNCHANGED power)
    /\ WF_vars(SwitchGrowsOld /\ UNCHANGED power)
    /\ WF_vars(Ft8LeavesWindow /\ UNCHANGED power)

FairSpec == Spec /\ Fairness

-----------------------------------------------------------------------------
(* Every variable stays in its range.                                      *)
TypeOK == TypeOKKeeper /\ TypeOKPower /\ TypeOKPilot

(* A dial that the station itself has just set right is not reported as    *)
(* tampered with, as long as the rig answers (_rig_poll_loop: the poll     *)
(* often still sees the old dial, so the seconds after a command of our    *)
(* own do not count; the dial of the mode is the one expected).            *)
OwnTurnIsNoAlarm == false_alarm => "faults" \in events

LeftAlone == <>[][Internal]_vars

(* A rig knocked out of data mode while the station operates is noticed    *)
(* and told, or back in data mode, once nobody touches anything.           *)
LostModeIsTold ==
    LeftAlone /\ <>[]StationAktiv => <>[](data \/ mode_alert)

(* The power shown and persisted is in the end the power of the rig, to    *)
(* the slack of the comparison: commands that fail, are lost or overtake a *)
(* poll, restarts and turned knobs leave no lasting difference.            *)
PowerShownIsReal == LeftAlone => <>[]~Apart(watts, tx_power)

(* The autopilot does not stay in FT4 on bands where none is heard, while  *)
(* the station has nothing else to do.                                     *)
DeadFt4IsLeft ==
    "autopilot" \in events /\ (\A b \in Bands : ft4[b] = "dead")
        /\ LeftAlone /\ <>[](hunting /\ activity = "idle")
    => []<>(mode = "FT8")

-----------------------------------------------------------------------------
(* After the operator was changed the rig is not left with more power than *)
(* half of what the new licence allows (docs/tx_power_safety.md: "Bei      *)
(* jedem Reset-Event wird die TX-Leistung auf einen sicheren Default-Wert  *)
(* zurueckgeschoben").  The code keeps the power; TLC refutes this.        *)
SwitchLowersPower ==
    [][SwitchOperator /\ active_band \in Bands
       => watts <= Half(LegalMax(operator', active_band)) \/ want'["floor"] # None]_vars
=============================================================================
