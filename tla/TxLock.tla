------------------------------- MODULE TxLock -------------------------------
(***************************************************************************)
(* Who locks the transmitter and who frees it: the guards on the hardware  *)
(* state of a slot, the SWR monitor and the ALC sampler of the rig poll,    *)
(* the lock watchdog, the start lock and the operator, and what they tell   *)
(* him.  Each sees the rig through a copy of its own age: the snapshot of   *)
(* the poll, the hardware state of the slot, the ALC of the last burst.     *)
(*                                                                         *)
(* Times are phases: a snapshot is young up to rig_link_max_age_s, a lock   *)
(* old from _LOCK_GEDULD_S on, and an hour makes a push due and lets one    *)
(* heal expire.  Left out: the warnings before the limits, frequency and    *)
(* other statistics, the integral part of the gain loop.                    *)
(***************************************************************************)
EXTENDS Naturals, Sequences, FiniteSets

CONSTANTS
    None,
    Faults,                  \* guards that fail for a reason of their own
    Scenarios,               \* what may happen in one history: sets of events
    MaxGain, MaxDrive,       \* bounds: audio gain, sensitivity of rig and band
    Target, Safety, AlcMax,  \* ALC: setpoint, alc_safety_threshold, alc_max
    MaxHeals,                \* _LOCK_HEILUNG_MAX_PRO_H
    MaxRestarts              \* bound

VARIABLES
    events,
    link,                    \* up, mute (no answer) or gone (not on the USB)
    antenna, faults, drive, byhand,
    burst, ptt,
    snap, age,               \* _last_rig, time since _last_rig_at
    hw, first,               \* guards the hardware state fails, none measured
    gain, samples, last_alc, ptt_was_on,
    sm, reason,              \* ready or locked, last_lock_reason
    runaway, cutting,        \* _swr_runaway_active, task of the cut
    lock_seit, heilungen, push_due,
    rig_weg_seit,
    restarts,
    told,                    \* history: somebody knows of the standing lock
    absences,                \* history: reports of one absence of the rig
    seen,                    \* history: what high SWR in this burst led to
    cause                    \* history: what locked

Guards == <<"time", "audio_drift", "rig_link", "dial", "license", "antenna",
            "swr", "alc", "battery", "temp">>
OfTheRig == {"dial", "license", "antenna", "battery"}

ASSUME LockAssumption ==
    /\ Faults \subseteq OfTheRig \cup {"time", "temp"}
    /\ {MaxGain, MaxDrive, Target, Safety, AlcMax, MaxHeals, MaxRestarts} \subseteq Nat
    /\ 0 < Target /\ Target <= Safety /\ MaxHeals > 0
    /\ None \notin {Guards[i] : i \in DOMAIN Guards} \cup {"low", "high", "young", "old"} \cup Nat

outside == <<events, link, antenna, faults, drive, byhand>>
engine  == <<burst, ptt>>
rig     == <<snap, age>>
levels  == <<gain, samples, last_alc, ptt_was_on>>
lock    == <<sm, reason, told, cause>>
watch   == <<lock_seit, heilungen, push_due>>
gone    == <<rig_weg_seit, absences>>
cut     == <<runaway, cutting, seen>>
vars    == <<outside, engine, rig, hw, first, levels, lock, watch, gone, cut, restarts>>

-----------------------------------------------------------------------------
NoAnswer == [freq |-> FALSE, ptt |-> "unknown", swr |-> None]

(* A new process knows nothing: the hardware state it starts from fails.   *)
BootFailures ==
    {"time", "audio_drift", "swr", "temp"} \cup {g \in {"alc"} : AlcMax > 0}
    \cup (Faults \cap {"battery"})

Init ==
    /\ events \in Scenarios
    /\ link = "up" /\ antenna = "good" /\ faults = {} /\ drive = 0 /\ byhand = FALSE
    /\ burst = "off" /\ ptt = FALSE
    /\ snap = NoAnswer /\ age = "young"
    /\ hw = BootFailures /\ first = TRUE
    /\ gain = MaxGain /\ samples = None /\ last_alc = 0 /\ ptt_was_on = FALSE
    /\ sm = "ready" /\ reason = None /\ told = FALSE /\ cause = None
    /\ runaway = FALSE /\ cutting = FALSE /\ seen = "none"
    /\ lock_seit = None /\ heilungen = 0 /\ push_due \in BOOLEAN
    /\ rig_weg_seit = FALSE /\ absences = 0
    /\ restarts = 0

(* The gain and the absence of the rig are kept in runtime_state.json.     *)
Restart ==
    /\ "restart" \in events /\ restarts < MaxRestarts
    /\ burst' = "off" /\ ptt' = FALSE
    /\ snap' = NoAnswer /\ age' = "young"
    /\ hw' = BootFailures /\ first' = TRUE
    /\ samples' = None /\ last_alc' = 0 /\ ptt_was_on' = FALSE
    /\ sm' = "ready" /\ reason' = None /\ told' = FALSE /\ cause' = None
    /\ runaway' = FALSE /\ cutting' = FALSE /\ seen' = "none"
    /\ lock_seit' = None /\ heilungen' = 0 /\ push_due' \in BOOLEAN
    /\ restarts' = restarts + 1
    /\ UNCHANGED <<outside, gain, gone>>

(* The world changes.                                                      *)
Outside ==
    /\ \/ /\ "link" \in events
          /\ link' \in {"up", "mute", "gone"} \ {link}
          /\ UNCHANGED <<antenna, faults, drive, byhand>>
       \/ /\ "antenna" \in events
          /\ antenna' \in {"good", "bad"} \ {antenna}
          /\ UNCHANGED <<link, faults, drive, byhand>>
       \/ /\ "faults" \in events
          /\ \E g \in Faults : faults' = IF g \in faults THEN faults \ {g} ELSE faults \cup {g}
          /\ UNCHANGED <<link, antenna, drive, byhand>>
       \/ /\ "drive" \in events
          /\ drive' \in (0..MaxDrive) \ {drive}
          /\ UNCHANGED <<link, antenna, faults, byhand>>
       \/ /\ "byhand" \in events
          /\ byhand' = ~byhand
          /\ UNCHANGED <<link, antenna, faults, drive>>
    /\ UNCHANGED <<events, engine, rig, hw, first, levels, lock, watch, gone, cut, restarts>>

-----------------------------------------------------------------------------
(* The poll of the rig: one snapshot a second, and all that hangs on it.   *)

Keyed == ptt \/ byhand

(* The meter reads 1.0 in reception; just keyed it may show the last peak. *)
Meter ==
    IF ~Keyed THEN {"low"}
    ELSE IF burst = "settling" /\ "antenna" \in events THEN {"low", "high"}
    ELSE {IF antenna = "bad" THEN "high" ELSE "low"}

(* The fields are read one by one: a PTT that falls meanwhile is still on. *)
Snapshots ==
    IF link # "up" THEN {NoAnswer}
    ELSE [freq : {TRUE}, swr : Meter,
          ptt : IF Keyed THEN {"on"} ELSE {"off"} \cup {p \in {"on"} : ptt_was_on}]

StampAny(s) == age' = "young"                                      \* mutant

(* Only a snapshot with a frequency is a sign of life.                     *)
Stamp(s) == age' = IF s.freq THEN "young" ELSE age

(* The rig left the USB more than a minute ago, or is back.                *)
NoticeAbsence(s) ==
    IF s.freq THEN rig_weg_seit' = FALSE /\ absences' = 0
    ELSE IF ~rig_weg_seit /\ link = "gone" /\ age = "old"
    THEN rig_weg_seit' = TRUE /\ absences' = absences + 1
    ELSE UNCHANGED gone

CheckSwrWarn(s) ==
    IF s.ptt # "on" \/ s.swr = None \/ burst = "settling"
    THEN UNCHANGED <<lock, cut>>
    ELSE IF s.swr = "low"
    THEN runaway' = FALSE /\ UNCHANGED <<lock, cutting, seen>>
    ELSE IF burst = "off"
    THEN UNCHANGED <<lock, cut>>
    ELSE IF runaway
    THEN /\ seen' = IF seen = "none" THEN "ignored" ELSE seen
         /\ UNCHANGED <<lock, runaway, cutting>>
    ELSE /\ runaway' = TRUE /\ cutting' = TRUE /\ seen' = "cut"
         /\ sm' = "locked" /\ reason' = "swr" /\ told' = FALSE /\ cause' = "runaway"

Smaller(x, y) == IF x < y THEN x ELSE y
Less(g, n) == IF g < n THEN 0 ELSE g - n
More(g) == IF g < MaxGain THEN g + 1 ELSE g
Peak == gain + drive

(* _apply_burst_loop_update: cut above the threshold, otherwise a step of  *)
(* the loop towards the setpoint, which need not move the gain.  Without   *)
(* ALC, or below the setpoint, up only if the power is short of its own.   *)
NextGain(peak, power, known) ==
    IF peak = None THEN {gain}
    ELSE IF peak > Safety THEN {Less(gain, 2)}
    ELSE IF ~known \/ (peak = 0 /\ power = "none") THEN {gain}
    ELSE IF peak > Target THEN {gain, Less(gain, 1)}
    ELSE IF peak < Target /\ power # "full" THEN {gain, More(gain)}
    ELSE {gain}

(* _apply_alc_closed_loop: own bursts only, judged when the PTT falls.     *)
SampleAlc(s) ==
    LET on == s.ptt = "on" /\ burst # "off"
    IN  /\ ptt_was_on' = on
        /\ CASE on /\ ~ptt_was_on ->
                  samples' = None /\ UNCHANGED <<gain, last_alc>>
             [] on /\ ptt_was_on ->
                  /\ samples' = IF samples = None \/ Peak > samples THEN Peak ELSE samples
                  /\ last_alc' = Peak
                  /\ UNCHANGED gain
             [] ~on /\ ptt_was_on ->
                  /\ \E power \in {"none", "short", "full"} :
                        gain' \in NextGain(samples, power, s.freq)
                  /\ last_alc' = IF samples = None THEN last_alc ELSE samples
                  /\ samples' = None
             [] OTHER -> UNCHANGED <<gain, samples, last_alc>>

Poll ==
    \E s \in Snapshots :
        /\ snap' = s
        /\ Stamp(s)
        /\ NoticeAbsence(s)
        /\ CheckSwrWarn(s)
        /\ SampleAlc(s)
        /\ UNCHANGED <<outside, engine, hw, first, watch, restarts>>

AgeGrows ==
    /\ link # "up" /\ age = "young"
    /\ age' = "old"
    /\ UNCHANGED <<outside, engine, snap, hw, first, levels, lock, watch, gone, cut, restarts>>

-----------------------------------------------------------------------------
(* The slot: measure, judge, transmit.                                     *)

Failing ==
    (faults \cap {"time", "temp"})
    \cup (IF snap.freq THEN faults \cap OfTheRig ELSE {})
    \cup {g \in {"rig_link"} : age = "old"}
    \cup {g \in {"swr"} : snap.swr = "high"}
    \cup {g \in {"alc"} : AlcMax > 0 /\ last_alc > AlcMax}

(* _refresh_hardware_state; the first measurement frees a lock that the    *)
(* impossible values of the start have caused.                             *)
Refresh ==
    /\ hw' = Failing
    /\ first' = FALSE
    /\ IF first /\ sm = "locked" /\ Failing = {}
       THEN sm' = "ready" /\ reason' = None /\ UNCHANGED <<told, cause>>
       ELSE UNCHANGED lock
    /\ UNCHANGED <<outside, engine, rig, levels, watch, gone, cut, restarts>>

FirstFailure == SelectSeq(Guards, LAMBDA g : g \in hw)[1]

(* A push may be lost.                                                     *)
Delivered == {TRUE} \cup {d \in {FALSE} : "lost" \in events}

(* _do_tx_locked: a rig that was switched off is reported once.            *)
DoTxLocked(g) ==
    IF g = "rig_link" /\ link = "gone"
    THEN /\ told' = FALSE
         /\ rig_weg_seit' = TRUE
         /\ absences' = IF rig_weg_seit THEN absences ELSE absences + 1
    ELSE told' \in Delivered /\ UNCHANGED gone

(* A handler of the machine is about to transmit.                          *)
CheckGuards ==
    /\ sm = "ready" /\ burst = "off"
    /\ \/ /\ hw = {}
          /\ reason' = None /\ burst' = "keying"
          /\ UNCHANGED <<sm, told, cause, gone>>
       \/ /\ hw # {}
          /\ sm' = "locked" /\ reason' = FirstFailure /\ cause' = "guard"
          /\ DoTxLocked(FirstFailure)
          /\ UNCHANGED burst
    /\ UNCHANGED <<outside, ptt, rig, hw, first, levels, watch, cut, restarts>>

(* _do_tx_message from the PTT on.                                         *)
KeyPtt ==
    /\ burst = "keying"
    /\ burst' = IF link = "up" THEN "settling" ELSE "off"
    /\ ptt' = (link = "up")
    /\ seen' = "none"
    /\ UNCHANGED <<outside, rig, hw, first, levels, lock, watch, gone, runaway, cutting, restarts>>

Settled ==
    /\ burst = "settling" /\ burst' = "on"
    /\ UNCHANGED <<outside, ptt, rig, hw, first, levels, lock, watch, gone, cut, restarts>>

BurstEnds ==
    /\ burst = "on"
    /\ burst' = "off" /\ ptt' = FALSE
    /\ UNCHANGED <<outside, rig, hw, first, levels, lock, watch, gone, cut, restarts>>

(* _handle_swr_runaway: PTT off, then the push.                            *)
HandleSwrRunaway ==
    /\ cutting /\ cutting' = FALSE
    /\ ptt' = (ptt /\ link # "up")
    /\ told' \in (IF sm = "locked" THEN Delivered ELSE {told})
    /\ UNCHANGED <<outside, burst, rig, hw, first, levels, sm, reason, cause, watch, gone, runaway, seen, restarts>>

(* handle_set_freq: the SWR of the other band is forgotten.                *)
HandleSetFreq ==
    /\ "band" \in events /\ link = "up"
    /\ snap' = [snap EXCEPT !.swr = None]
    /\ runaway' = FALSE
    /\ UNCHANGED <<outside, engine, age, hw, first, levels, lock, watch, gone, cutting, seen, restarts>>

(* The operator frees the lock.                                            *)
ResetLock ==
    /\ "reset" \in events /\ sm = "locked"
    /\ sm' = "ready" /\ reason' = None
    /\ UNCHANGED <<outside, engine, rig, hw, first, levels, told, cause, watch, gone, cut, restarts>>

-----------------------------------------------------------------------------
(* The lock watchdog looks every minute.                                   *)

MeldeHaengendeSperre ==
    IF (reason = "rig_link" /\ link = "gone") \/ ~push_due
    THEN UNCHANGED <<push_due, told>>
    ELSE push_due' = FALSE /\ (told' = TRUE \/ ("lost" \in events /\ UNCHANGED told))

MayHeal == hw = {} /\ heilungen < MaxHeals

SperrWaechter ==
    /\ IF sm # "locked"
       THEN lock_seit' = None /\ UNCHANGED <<heilungen, push_due, lock>>
       ELSE IF lock_seit = None
       THEN lock_seit' = "young" /\ UNCHANGED <<heilungen, push_due, lock>>
       ELSE IF lock_seit = "young"
       THEN UNCHANGED <<watch, lock>>
       ELSE IF MayHeal
       THEN /\ heilungen' = heilungen + 1 /\ lock_seit' = None
            /\ sm' = "ready" /\ reason' = None
            /\ UNCHANGED <<push_due, told, cause>>
       ELSE MeldeHaengendeSperre /\ UNCHANGED <<lock_seit, heilungen, sm, reason, cause>>
    /\ UNCHANGED <<outside, engine, rig, hw, first, levels, gone, cut, restarts>>

PatienceEnds ==
    /\ lock_seit = "young" /\ lock_seit' = "old"
    /\ UNCHANGED <<outside, engine, rig, hw, first, levels, lock, heilungen, push_due, gone, cut, restarts>>

ExpireNever(n) == n                                                \* mutant

Expire(n) == Less(n, 1)

HourPasses ==
    /\ heilungen' = Expire(heilungen) /\ push_due' = TRUE
    /\ UNCHANGED <<outside, engine, rig, hw, first, levels, lock, lock_seit, gone, cut, restarts>>

Station ==
    Poll \/ Refresh \/ CheckGuards \/ KeyPtt \/ Settled \/ BurstEnds
    \/ HandleSwrRunaway \/ SperrWaechter
Time == AgeGrows \/ PatienceEnds \/ HourPasses
Operator == HandleSetFreq \/ ResetLock
Next == Outside \/ Restart \/ Station \/ Time \/ Operator

Spec == Init /\ [][Next]_vars

(* The loops go on and time passes; of the pushes not all are lost.        *)
Fairness ==
    /\ WF_vars(Poll) /\ WF_vars(Refresh)
    /\ WF_vars(KeyPtt) /\ WF_vars(Settled) /\ WF_vars(BurstEnds)
    /\ WF_vars(HandleSwrRunaway) /\ WF_vars(SperrWaechter)
    /\ WF_vars(AgeGrows) /\ WF_vars(PatienceEnds) /\ WF_vars(HourPasses)
    /\ SF_vars(SperrWaechter /\ told' /\ push_due)

FairSpec == Spec /\ Fairness

-----------------------------------------------------------------------------
Levels == 0..(MaxGain + MaxDrive)

(* Every variable stays in its range; no more heals an hour than allowed.  *)
TypeOK ==
    /\ events \in Scenarios
    /\ link \in {"up", "mute", "gone"} /\ antenna \in {"good", "bad"}
    /\ faults \subseteq Faults /\ drive \in 0..MaxDrive /\ byhand \in BOOLEAN
    /\ burst \in {"off", "keying", "settling", "on"} /\ ptt \in BOOLEAN
    /\ snap \in [freq : BOOLEAN, ptt : {"on", "off", "unknown"}, swr : {None, "low", "high"}]
    /\ age \in {"young", "old"}
    /\ hw \subseteq {Guards[i] : i \in DOMAIN Guards} /\ first \in BOOLEAN
    /\ gain \in 0..MaxGain /\ samples \in Levels \cup {None} /\ last_alc \in Levels
    /\ ptt_was_on \in BOOLEAN
    /\ sm \in {"ready", "locked"}
    /\ reason \in {Guards[i] : i \in DOMAIN Guards} \cup {None}
    /\ runaway \in BOOLEAN /\ cutting \in BOOLEAN
    /\ lock_seit \in {None, "young", "old"} /\ heilungen \in 0..MaxHeals
    /\ push_due \in BOOLEAN /\ rig_weg_seit \in BOOLEAN /\ restarts \in 0..MaxRestarts
    /\ told \in BOOLEAN /\ absences \in Nat /\ seen \in {"none", "cut", "ignored"}
    /\ cause \in {None, "guard", "runaway"}

(* The absence of a rig is reported once, across restarts, whether the     *)
(* poll or a refused transmission notices it (_melde_rig_weg).             *)
AbsenceIsToldOnce == absences <= 1

(* A station whose rig does not answer any more stops trying to transmit   *)
(* (rig_link_guard: it once called CQ for hours without a PTT).            *)
DeadRigLocks == <>[](link # "up") => <>[](burst = "off")

WellOff == link = "up" /\ antenna = "good" /\ faults = {} /\ ~byhand /\ ~(last_alc > AlcMax)

(* Once nothing is wrong any more the station does not stay locked, even   *)
(* if nobody frees it (_sperr_waechter_loop).                              *)
FalseLockEnds == <>[]WellOff => []<>(sm = "ready")

(* A standstill does not go unnoticed: somebody is told, the lock ends or  *)
(* the rig is known to be away (_melde_haengende_sperre).                  *)
StandstillIsTold ==
    (sm = "locked" /\ ~told) ~> (sm = "ready" \/ told \/ rig_weg_seit)

-----------------------------------------------------------------------------
(* What comments promise and the code does not keep.                       *)

(* _check_swr_warn: high SWR in a burst cuts it.  The mark that a cut was  *)
(* ordered is cleared by a low reading in transmission or by a change of   *)
(* frequency, not by the end of the burst, and the next one is not cut.    *)
EveryRunawayIsCut == seen = "ignored" => cutting

(* _sperr_waechter_loop: after an SWR runaway a human looks first.         *)
HumanLooksAtSwr ==
    [][(SperrWaechter /\ sm = "locked" /\ sm' = "ready") => cause # "runaway"]_vars
=============================================================================
