----------------------------- MODULE ModeWatch -----------------------------
(***************************************************************************)
(* The mode watchdog: once a minute it looks whether the station does what *)
(* its boot_mode says, whether it still hears anything, and whether its CQ *)
(* is answered, and pushes a message if not; after a push it rests for a   *)
(* while.  Ages count minutes and stand still where they no longer matter. *)
(* Left out: the calibration of DT, which only shifts the decoder.         *)
(***************************************************************************)
EXTENDS Naturals

CONSTANTS
    Nobody,               \* no push in this minute
    mode_watchdog_min,
    alert_cooldown,       \* the rest after a push
    cq_idle_timeout_min,  \* 0: off
    Stories               \* what may change in one history: sets of events

ASSUME ModeWatchAssumption ==
    /\ {mode_watchdog_min, alert_cooldown, cq_idle_timeout_min} \subseteq Nat
    /\ mode_watchdog_min > 0

VARIABLES
    story,
    wanted,        \* boot_mode is not "off"
    active,        \* auto_answer or auto_cq
    calling,       \* CQ_CALLING, and not as fallback of the hunter
    uncounted,     \* cq_count = 0
    rig_known,     \* the rig tells its frequency
    hearing,       \* who decodes: the first stage, only the later ones, nobody
    audio,         \* the receive chain gives noise
    grace,         \* minutes left of the grace after a panic
    since_active, since_decode, since_audio, since_alert, since_zero,
    funkstille,    \* _funkstille_push_active
    cq_idle_sent,  \* _cq_idle_alert_sent
    late_slots,    \* the decoder missed its time, and nobody was told for an hour
    pushed         \* history: what was pushed in this minute

world == <<story, wanted, active, calling, rig_known, hearing, audio, grace, late_slots>>
ages == <<since_active, since_decode, since_audio, since_alert, since_zero>>
modeVars == <<world, uncounted, ages, funkstille, cq_idle_sent, pushed>>

Limits == {mode_watchdog_min, alert_cooldown, cq_idle_timeout_min}
Highest == 1 + CHOOSE limit \in Limits : \A other \in Limits : other <= limit
Older(age) == IF age < Highest THEN age + 1 ELSE age

ModeInit ==
    /\ story \in Stories
    /\ wanted = TRUE /\ active = TRUE /\ calling = FALSE /\ uncounted = TRUE
    /\ rig_known = TRUE /\ hearing = "slot" /\ audio = TRUE /\ grace = 0
    /\ since_active = 0 /\ since_decode = 0 /\ since_audio = 0
    /\ since_alert = Highest /\ since_zero = Highest
    /\ funkstille = FALSE /\ cq_idle_sent = FALSE /\ late_slots = FALSE /\ pushed = Nobody

-----------------------------------------------------------------------------
(* Between two looks. *)

\* Start and stop rewrite boot_mode; switching hunting off does not, nor a panic.
ChangeStationMode ==
    /\ "mode" \in story
    /\ \/ active' = TRUE /\ wanted' = TRUE /\ UNCHANGED grace
       \/ active' = FALSE /\ wanted' \in {FALSE, wanted} /\ UNCHANGED grace
       \/ active' = FALSE /\ grace' = 2 /\ UNCHANGED wanted
    /\ UNCHANGED <<story, calling, uncounted, rig_known, hearing, audio, late_slots,
                   ages, funkstille, cq_idle_sent, pushed>>

ChangeRadio ==
    /\ "radio" \in story
    /\ hearing' \in {"slot", "late", "none"} /\ audio' \in BOOLEAN
    /\ hearing' # "none" => audio'
    /\ UNCHANGED <<story, wanted, active, calling, uncounted, rig_known, grace, late_slots,
                   ages, funkstille, cq_idle_sent, pushed>>

ChangeRigOrLoad ==
    /\ "rig" \in story
    /\ rig_known' \in BOOLEAN /\ late_slots' \in BOOLEAN
    /\ UNCHANGED <<story, wanted, active, calling, uncounted, hearing, audio, grace,
                   ages, funkstille, cq_idle_sent, pushed>>

\* CQ begins, gives way to a QSO, or is taken up after one: cq_count starts anew.
ChangeCalling ==
    /\ "cq" \in story /\ active
    /\ calling' = ~calling /\ uncounted' = TRUE
    /\ UNCHANGED <<story, wanted, active, rig_known, hearing, audio, grace, late_slots,
                   ages, funkstille, cq_idle_sent, pushed>>

-----------------------------------------------------------------------------
(* The look. *)

\* What the slots of the minute have left, when the watchdog wakes up.
Heard ==
    /\ since_decode' = IF hearing = "none" THEN Older(since_decode) ELSE 0
    /\ since_audio' = IF audio THEN 0 ELSE Older(since_audio)
    /\ grace' = IF grace > 0 THEN grace - 1 ELSE 0
    \* CQ goes out every other slot: after a minute of calling it has counted.
    /\ uncounted' \in {FALSE, uncounted}
    /\ UNCHANGED <<story, wanted, active, calling, rig_known, hearing, audio>>

\* A decode of the first stage ends the silence.
Quiet == funkstille /\ hearing # "slot"

Resting == ~rig_known \/ Older(since_alert) < alert_cooldown \/ grace' > 0

\* Cases 1 and 2: somebody stopped the station, or it has stood for long.
StandsIdle == ~active /\ (wanted \/ Older(since_active) > mode_watchdog_min)

\* Case 3: nothing decoded for long, looked at once until it is over.
FallsSilent == active /\ since_decode' > mode_watchdog_min /\ ~Quiet

AudioDead == since_audio' > mode_watchdog_min

\* Case 4: the clock starts where a look finds that nothing was counted yet.
CqClock == IF calling /\ cq_idle_timeout_min > 0
           THEN IF uncounted' THEN 0 ELSE Older(since_zero)
           ELSE Highest
CqTold == calling /\ cq_idle_timeout_min > 0 /\ cq_idle_sent /\ ~uncounted'
CqIsIdle == /\ calling /\ cq_idle_timeout_min > 0
            /\ CqClock >= cq_idle_timeout_min /\ ~CqTold

Push(what) == pushed' = what /\ since_alert' = 0
NoPushRestarts == pushed' = Nobody /\ since_alert' = 0              \* mutant

NoPush == pushed' = Nobody /\ since_alert' = Older(since_alert)

Look ==
    IF Resting
    THEN /\ NoPush /\ since_active' = Older(since_active)
         /\ funkstille' = Quiet
         /\ since_zero' = Older(since_zero) /\ UNCHANGED <<cq_idle_sent, late_slots>>
    ELSE IF StandsIdle
    THEN /\ Push("idle")
         /\ since_active' = IF wanted THEN Older(since_active) ELSE 0
         /\ funkstille' = Quiet
         /\ since_zero' = Older(since_zero) /\ UNCHANGED <<cq_idle_sent, late_slots>>
    ELSE /\ since_active' = IF active THEN 0 ELSE Older(since_active)
         /\ IF FallsSilent
            THEN /\ funkstille' = TRUE
                 /\ IF AudioDead THEN Push("silence") ELSE NoPush
                 /\ since_zero' = Older(since_zero) /\ UNCHANGED <<cq_idle_sent, late_slots>>
            ELSE /\ funkstille' = Quiet
                 /\ since_zero' = CqClock
                 /\ cq_idle_sent' = (CqTold \/ CqIsIdle)
                 /\ late_slots' = FALSE
                 /\ IF late_slots THEN Push("late")
                    ELSE IF CqIsIdle THEN Push("cq") ELSE NoPush

Minute == Heard /\ Look

ModeNext ==
    \/ ChangeStationMode \/ ChangeRadio \/ ChangeRigOrLoad \/ ChangeCalling
    \/ Minute

-----------------------------------------------------------------------------
\* Whoever stops the station and leaves it so is told, and told again, in
\* whatever mode it was to start (_mode_watchdog_loop, cases 1 and 2).
StandstillIsPushed ==
    <>[](rig_known /\ ~active) /\ <>[][Minute]_modeVars => []<>(pushed = "idle")

\* A receive chain that dies while the station hears is told once, unless a look
\* had found the band dead before, which silences the report (case 3).
DeadChainIsPushed ==
    [](funkstille => since_audio > mode_watchdog_min)
        /\ <>[](rig_known /\ active /\ ~audio) /\ <>[][Minute]_modeVars
    => <>[]funkstille
=============================================================================
