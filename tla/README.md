# Verification of the FT8 appliance

An appliance that runs an amateur radio station in the digital modes FT8 and
FT4 by itself: it decodes what is heard in slots of 15 (7.5) seconds, picks a
station to call, carries the contact (QSO) through its exchange of messages,
logs it and uploads the log.  The program is Python on one asyncio event loop
(`src/backend/ft8_appliance`), with a C decoder behind it and a web UI in
front.  Paths below are relative to that directory.

This directory models the parts whose correctness depends on order: who may
send what after which sequence of decodes, clock ticks, operator commands and
failures.  TLC checks the models on small instances; TLAPS proves what matters
most for all values of the constants.

## 1. Inventory

For each part: the state it keeps, its operations, its partners, what is hard
in it, and what makes it correct.

**FT8 messages and parsers** (`statemachine/machine.py`, 33-500 and
3147-3370).  No state.  Eight parsers look for a message of a given step of
the exchange in a batch of decodes.  Hard: callsigns the decoder knows only as
a hash appear as `<...>`, as sender or addressee, so a parser has to decide
whether a message is meant for us.  Correct: a hashed field is taken for a
callsign only if that callsign can be hashed; a placeholder is never called.

**QSO state machine** (`statemachine/machine.py`, `states.py`).  State: seven
states, the context of the running QSO, and a station-wide context: modes
(`auto_cq`, `auto_answer`, `drain_for_update`), the CQ fallback and its
counters, cooldowns, unfinished QSOs remembered for a late continuation,
logged partners that may still miss our RR73.  Operations: `on_decodes`,
`on_slot_tick`, nine `on_user_*` handlers, `on_tx_ausgefallen`,
`drain_actions`.  Handlers are synchronous and queue their outputs; the
orchestrator carries them out.  Hard: up to four decode batches per slot
through one handler, operator commands between any two of them, guards turning
red in the middle of a QSO, bursts that were queued and never sent, and memory
of earlier QSOs that competes with the running one.  Correct: state and context
agree; nothing is sent on red guards; nothing is logged without an answer;
cooldowns are kept; every QSO ends; a stop and an announced update are obeyed.

**TX guards** (`statemachine/guards.py`).  Pure functions of one snapshot of the
hardware; the first that fails locks the machine.

**Hunt picker** (`machine.py`, `_pick_hunt_target`).  State: cooldowns, failure
counts, a soft blacklist, tables of worked calls, and what it knows of stations
that have just closed a QSO.  Picks one of the callers heard.  Hard: several
starters (picker, direct answers, resumed QSOs) have to respect the
same memory, which an answer to our own CQ does not ask; a tail-end call, to a station that called nobody, must stay rare.

**Restart memory** (`_restore_...` in `orchestrator.py`, `db/repository.py`).  The
cooldowns, their escalation and unfinished QSOs live in the process; rows of the
tables `qso` and `pick_attempt`, written by tasks after the event, bring back what
a start can bring back; a row of `qso` that is refused waits in a file.  Hard: the
process may end between the two, and a table or the file may not be readable.

**Orchestrator: slot loop and decode stages** (`runtime/orchestrator.py`).  State:
the current slot, decodes already processed before the boundary, whether a tick
or a late ingest is running.  Tasks: the slot loop, a loop that decodes 1.3 s
before the boundary, callbacks for the second stage and for jt9.  Hard: all of
them call `on_decodes` for the same slot.

**Orchestrator: TX engine.**  State: `_tx_burst_active`, the number of the
postponed transmission, the PTT of the rig.  `_do_tx_message` waits for the
boundary, synthesises, switches the PTT on, plays, switches it off; a reply that
came too late is postponed by two slots.  Hard: three awaits between the
decision and the burst; stop, panic and the SWR cut fall into them; a rig that
does not answer may have switched.  Correct: never two bursts at once, the PTT
is off when nothing plays, a stale reply is not sent.

**Orchestrator: locks and watchdogs.**  TX_LOCKED after a red guard or an SWR
runaway; a watchdog that lifts a lock whose reason is gone, at most three times
an hour; `_loese_startsperre`, which lifts the lock of the start phase.  **Mode watchdog**
(`_mode_watchdog_loop`): tells the operator of a station that does nothing, hears
nothing or calls in vain.  Hard: each looks at a copy of the rig of its own age.

**QSO log** (`_do_log_qso`, `db/`).  SQLite; a QSO that cannot be written goes to
an append-only spill file, drained later.  Hard: failure and crash between the
write and the removal of the spill line.

**Upload queues** (QRZ, ClubLog, eQSL, LoTW).  Per QSO: uploaded flag, attempts,
last attempt.  Hard: rejects that look alike, give-up after a ceiling, a queue
blocked by rows that can never be sent.

**Decode pipeline** (`decode/pipeline.py`).  Two stages and a mode that falls back
when the decoder is too slow.  **Native decoder**: signal processing in C.
**Slot clock** (`runtime/slot_clock.py`), **audio** (`audio/`): ring buffer and
ALSA.  **Rig** (`rig/`): one request at a time to rigctld.

Hard in the pipeline: a pass before the boundary, the pass of the slot, a second
stage and jt9 find the same messages; hard at the rig: a command, the poll that
looks at its effect and the hand at the knob overtake each other.

**Database** (`db/session.py`): at each start `create_all` brings the tables of any
release to the new schema in fourteen steps; a loop deletes old telemetry and makes
a backup once a day.  Hard: cuts and failing statements between steps of which the
driver commits some at once and others with the rest; an updater that goes back to
the old release; a memory of the last run that a restart may lose.

**Configuration** (`config/`, `util/atomicfile.py`): validated models, a
read-modify-write lock, an atomic write with a backup.  **Operators and accounts**
(`switch_operator`, `web/routes/operators.py`, `_qrz_logbook_sync_loop`): profiles
with credentials, mirrored in a block for QRZ; a daily fetch of the active
operator's logbook.  Hard: memory, file and the page in a browser hold copies of
the keys, each written after an await; the key may change hands during a fetch.

**QSL inbox** (`_qsl_inbox_loop`, `integrations/eqsl_inbox.py`): lists of cards, asked
for from the newest card known on, and their pictures, one at a time.  Hard: a gap
behind a list that failed; pictures without a row and rows without a picture.
**Watchlist and DXpeditions** (`_fire_watchlist_alert`, `_dxpedition_schedule_loop`):
calls whose sighting is pushed to the operator, wished for or planned, kept in
tables and in memory.  Hard: a task per sighting, and a loop that works on rows it
read before an await.

**AP fallback** (`_ap_fallback_tick`, `deploy/scripts`): opens a hotspot when there is
no network and looks for one from time to time.  Hard: the unit of the hotspot
stays active when the hotspot is gone.  **Self-update** (`scripts/self-update.sh`,
outside this directory): checkout, installation, restart, probe, rollback.  Hard:
it may be killed anywhere, and the station is in use meanwhile.

**Autopilot** (band choice from statistics), **data integrations** (PSK Reporter
in both directions, DX cluster, solar data, ntfy), **web API** and frontend,
**analysis**, the vendored **ft8_lib**.

How they interact: the orchestrator owns the state machine and calls it from
the slot loop, from the decode callbacks and from the handlers of the web API.
Every call is followed by `_drain_actions`, which carries out the queued
actions one after another: transmit, log, report a given-up QSO, raise an alarm.
The hardware snapshot is refreshed by polling loops; the SWR watchdog writes the
state of the machine directly.

## 2. Plan

Done, in this order: the QSO machine, the TX engine, log and upload queues, the
locks, rig with power and autopilot, the picker, the memory across a restart, the
decode passes, PSK Reporter, the mode watchdog, the hotspot, the self-update, the
database, operators and their accounts, the QSL inbox, the watchlist; then the
proofs of every safety property that a run checks.

Left: the other direction of the boundary between `QsoMachine` and `TxEngine`
(each sees the other as a free choice; that the choices agree is not shown); the
start of the process as a whole (`start()`, `_hydrate_from_db`) and a change of
the configuration in all its parts; backup and restore of the whole appliance.
`HuntPicker` needs no refinement proof against `QsoMachine`: the machine lets the
picker choose any caller it may call, and the picker chooses one or none.

Runs are few on purpose: one configuration asks as many questions as it can, and
parts that share no state share a run, each history being about one of them.
## 3. The models

### The QSO machine

`Ft8Messages` defines the messages: sender, addressee and step of the exchange.
Texts, grid squares, reports in dB and audio frequencies are left out, since no
property depends on their value; whether a report was sent at all is kept
(`their_snr`).

`QsoMachine` has one action per handler.

| code | model |
| --- | --- |
| `StateMachine.state`, `.qso`, `._grace_partner_call` | `state`, `qso`, `grace` |
| `StationContext` | `auto_cq`, `auto_answer`, `drain_for_update`, `cq_fallback_active`, `idle_slots`, `cq_count`, `cq_fallback_paused`, `recent_until`, `recent_qso_ctx`, `resume_zaehler`, `recent_logged`, `last_lock_reason` |
| `_pending` | `pending` |
| the guards' verdict on the hardware snapshot | `hw` |
| `on_decodes`, one branch per state | `OnDecodes` with `Hunting`, `Calling`, `Respond`, `Report`, `Grace` |
| `on_slot_tick` | `OnSlotTick` |
| `_drain_actions` | `DrainActions` |
| `on_tx_ausgefallen`, the B4 rule, the SWR cut | `TxDropped`, `TxLate`, `SwrRunaway` |
| `on_user_*`, `set_auto_answer`, `set_drain_for_update`, operator switch | `User...`, `Set...`, `SwitchOperator` |
| the clock | `CooldownEnds`, `ContextExpires`, `LoggedExpires`, `PauseEnds` |

Handlers run to completion; `turn` says which step of a round comes next, so
that a slot boundary is always decodes, tick, drain.  Between rounds everything
else may happen.  A batch of decodes is a set of messages: the parsers take the
first match, which is any match here.  `heard`, `heard_now`, `rufe` and `stopped`
are history variables that no action of the program reads.

Deadlines are events without a clock: a cooldown, a remembered QSO or the
after-care of a logged partner may end at any moment between two rounds.
The number of red guards is irrelevant to the machine, so one Boolean stands for
them.  The picker chooses any caller of CQ it may call, or a station that has just
closed a QSO with somebody else (`TailEnders`): the ranking is not modelled.

### The TX engine

`TxEngine` models what becomes of the queued actions.  The event loop runs one
task at a time and switches only at an `await`, so a step is what a task does
from one `await` to the next.

| code | model |
| --- | --- |
| the slot loop, `_vorab_decode_loop`, the ingests of the later stages, operator handlers, `_sende_aufgeschoben` | the tasks `"slot"`, `"pre"`, `Lates`, `Users`, `"deferred"` |
| where a task awaits | `pc` |
| the actions its `_drain_actions` has still to carry out | `plan` |
| `_tx_burst_active`, `_in_late_ingest` | the same |
| `_tx_aufgeschoben_nr` with the reply waiting for it | `aufgeschoben` |
| wall-clock time within the slot | `phase`: `start` up to `tx_latency_max_s`, `end` from `max_warten` before the boundary, `middle` |
| `_last_tx_message_at` as the pre-decode uses it | `sent` |
| `RigctldClient._lock` and the requests waiting for it | `queue` |
| the rig's transmitter | `ptt` |
| `ptt_on_since` of the watchdog, `_boot_ptt_checked` | the same; `new` and `old` for a time below and above `max_ptt_s` + 2 s, which is longer than a slot |
| the state machine | `sm.state`: stopped, idle, locked or in a QSO; `sm.qso`: `their_call`, which a lock leaves in place; `Decisions` is what a handler may do with them |

A decision brings what one drain finds in the queue (`Plans`): a burst may follow the
STOP_TX of the QSO given up before it, a CQ the RR73 and the LOG_QSO of the one
completed.  The insert that LOG_QSO awaits is the time a task takes from one action
to the next, in which the other tasks go on.

`Transmit`, `BoundaryReached` and `SendeAufgeschoben` are the three ways into
the decision of `_do_tx_message` (`Attempt`): flag taken or slot too old, so
postponed or dropped; synthesis failed; or flag set and PTT asked for.
`RigAnswers(done, ok)` serves the first request: `done` says whether the rig
switched, `ok` whether the client heard so.  `Keyed` and `Unkeyed` are what the
task does with it.  `Crash` loses everything but the PTT.

A reply postponed earlier is forgotten when the number rises, although its task
sleeps on and finds out only when it wakes.  Transmissions begin after the first
look at the rig, because its guard locks the machine before (`Running`).  A
request that timed out is carried out before the next one or not at all: a
rigctld that executes it later still is not modelled.  `ueberholt` and `unheard`
are history variables.

`QsoMachine` sees a burst as `TxSent`, `TxDropped` or `TxLate`; `TxEngine` says
when each of these happens and sees the machine as `sm`.  The refinement between
the two views is not stated.


### The locks

`TxLock` models who locks the transmitter and who frees it.

| code | model |
| --- | --- |
| `evaluate_guards` over the hardware state of the slot | `hw`, `first`, `Guards` in the order of the code |
| the rig poll and the age of `_last_rig` | `snap`, `age` |
| the ALC sampler, the audio gain | `samples`, `last_alc`, `gain`, on few levels |
| the SWR monitor | `runaway`, `cutting` |
| `TX_LOCKED`, `last_lock_reason` | `sm`, `reason` |
| `_sperr_waechter_loop`, `_melde_haengende_sperre` | `lock_seit`, `heilungen`, `push_due`; `SperrWaechter` |
| `_loese_startsperre` | in `Refresh`, at the first measurement |
| a restart, what `runtime_state.json` keeps | `Restart` (at most `MaxRestarts`) |

Times are phases, `young` and `old`: a snapshot is old from `rig_link_max_age_s`, a
lock from `_LOCK_GEDULD_S`.  An hour is a step of its own.  `told`, `absences`, `seen`
and `cause` are history variables.

### The rig

Four modules share one rig.  `RigKeeper` holds dial and data mode, the poll that
compares them, the restoring and the buttons; `TxPower` the power and its safety
floor; `Autopilot` the change of band and mode; `RigStation` composes them.  A
command is decided in one step (`Asks`) and reaches the rig in another (`TurnDial`,
`SetDataMode`, `SetPower`), because its task waits for the lock of the connection in
between; a poll reads (`ReadRig`) and compares later (`Compare`).  A command may be
refused, or carried out with its answer lost.  `hands` and `false_alarm` are history
variables.

### The log and the uploads

`QsoLedger` is the abstract specification: a QSO is new, kept, settled or lost, and
becomes settled or lost once, for ever, with a receipt or a known reason.

`QsoLog` goes from `_do_log_qso` to the table: insert, `_spill_qso`,
`_drain_spilled_qsos`, the drain of a start, `_worked_calls`.  A task switches at an
await only, so a step is what it does between two of them: the spill file is read,
appended to and replaced without one, every insert awaits.  The process may end
anywhere.  `made`, `died`, `unsaved`, `overlapped`, `drained` and `torn` are history
variables, which name the QSOs that were lost and the reason.

`UploadQueue` is any of the four loops, `service` says which: a sweep takes rows not
yet uploaded, one by one or as a file, and its marks and counters reach the table
when it ends (`Commit`) or never (`RolledBack`), while what the service stored stays
stored.  `_UPLOAD_MAX_ATTEMPTS`, the back-off, duplicates, refusals, callsigns
without a log, the manual export and the report of a jam are in it; formats and
signatures are not.

Both implement `QsoLedger` by the mappings `Ledger` at their ends.

### The hunter

`HuntPicker` picks a target from the decodes of a slot: filters, gates with their
three arms (rules, control, expected value), the tiers of `hunt_priority`, the
profile, and the memory of tail-end candidates.  A decode carries the facts the
rules ask for (`new_dxcc`, `far`, `psk_heard_us`, ...); how a fact is computed is data.
`target` stands for the QSO: what `QsoMachine` does with any caller it may call, the
picker does with the one it chooses.

`Memory` is what survives a restart.  `attempts` and `qsos` are the tables,
`spilled` the file, `pending` the rows that tasks are about to write, the other
variables what the process knows.  An attempt is written, refused, or refused with
its correction written (`_stemple_versuch_nach`).  A QSO that is refused goes to the
file, if that can be written; the next insert that succeeds, or the next start, tries
the lines of the file, and sets no cooldown for them.  `End` forgets everything that
is not in tables or file.  `Start` drains the file and restores what
`_restore_qso_cooldowns`, `_restore_fehlversuche` and `_restore_offene_qsos` bring
back, or nothing where one of them cannot read.  `worked_at`, `missed` (rows the last
start could not see) and `db_faults` are history variables.

### The decode passes

`DecodePipeline` follows one slot through the pass before the boundary (vorab), the
one at it, the second stage and jt9: what each finds, which of it is handed to the
machine, which mode of the decoder is left when a computer is too slow (`Cpus`).
`MCForeground` sets it beside the QSO machine and the data, `MCBackground` beside the
rest.

### Watchdogs and services

`ModeWatch` is `_mode_watchdog_loop` with its ages in minutes.  `Hotspot` is
`_ap_fallback_tick` with the unit of the hotspot (a oneshot that stays active), its
scripts, NetworkManager and the buttons; a beat is one poll, and `up_for` and
`disturbed` are history variables.  `PskReports` is the client of PSK Reporter in both
directions: `Query`, `Answered` and the loop that asks; `Uplink`, flush and the
replaced client.

`SelfUpdate` is `scripts/self-update.sh`: `step` is the line the script is at, `env`
the release the Python environment was built for, `running` the code of the
controller, `work`, `burst`, `hold` and `halted` the station as `/api/status` shows it.
A release may lack a signature, a checkout, a build, a start, an answer or a way
back, and may bring new dependencies (`facts`).  systemd or a reboot may kill a run
anywhere.  The rigctld environment file, the units and sudoers, which the script
brings up to date on the way, are left out.

### Data

`Database` takes `create_all` statement by statement.  `disk` is what the database
has kept, `db` what statements see; `Define` is an ALTER, CREATE or DROP, kept at
once unless a transaction is open, `Change` an INSERT or UPDATE, which opens one.
`Order` is the order of the steps, `History` the order in which the releases brought
them.  `code` may go back to the old release, which knows of no operators.  `FillOwner` is
under an `if` in the code (session.py 512) whose condition always holds: a callsign
of the operator is never empty (config/models.py 244).  The
maintenance (`Wake`, `Prune`, `Backup`, `Note`) goes by `maintenance_at`, which
`saved_at` keeps for the next start.  `written` is a history variable.

`Operators` has the running configuration (`config`), the file, the page in the
browser and the write that holds `_config_rmw_lock` (`writing`).  `Validated` and
`Mirrored` move credentials between a profile and the block for QRZ as the validator
and `_sync_global_integrations_from_operator` do.  The fetch of the logbook reads its
key (`Fetch`), and adds the answer (`Merge`) or drops it (`Discard`).  `strayed`, a
history variable, holds the operators whose page was saved while another was active.

`QslInbox` follows the loop: orphans, lists of each account, pictures in the order of
`JobList`, one row at a time; any of these may fail.  `Watchlist` keeps the two tables,
their copies in the program, the plans' loop between reading (`CareReads`) and writing
(`CareWrites`), and the tasks of the sightings.  `loads`, `pushed` and `wished` are
history variables.

| code | model |
| --- | --- |
| `PRAGMA table_info`, `ALTER TABLE`, backfills | `ColumnsThere`, `AddColumn`, `FillOwner`, `FillOnce`, `Rename` to `DropAside` |
| `AppConfig.operators`, `.active_callsign`, `.integrations.qrz` | `config.profiles`, `.active`, `.qrz` |
| `_worked_calls`, `_qrz_sync_at` | `worked`, `sync_at` |
| `QslKarte.datei`, `.versuche`, `.fehler`; the directory of pictures | `karten`, `files` |
| `_watchlist_calls`, `_watchlist_sources`, `_watchlist_last_alert` | `shown`, `sources`, `last_alert` |
## 4. Runs

| run | what it varies | what it shows |
| --- | --- | --- |
| `MCHunt` | all four decode stages, hardware, time, dropped and late bursts, SWR cut | `ContextMatchesState`: no state is ever left without the QSO it is about; `TransmissionsAreGuarded` |
| `MCEnds` | fair clock, bursts dropped or late, update announced and withdrawn, CQ fallback | `QsoEnds`: no QSO lasts for ever; `DrainCompletes`: an update finds the station at rest |
| `MCOperator` | every command in every state, hardware, fallback | `StoppedStaysOff`: after stop or panic nothing is called until somebody asks for it, and all that is sent is an RR73 to a partner just logged who repeats his R-report; `CooldownIsKept`: nobody but the operator calls a station in its cooldown, in IDLE or out of the fallback |
| `MCForeground` | five parts, one per history: two stations in a slot, hashed callsigns, cooldowns ending; the passes over one slot; operators and accounts; the QSL inbox; the watchlist | `CallsBelongToTheQso`, `LoggedWereHeard`; `HeardOnce`: the machine gets a message once; `FetchedIsOwn`; `CardsWithoutGaps`; `AlertsAreSpaced` |
| `MCTxEngine` | five tasks at any of their awaits: slot loop, pre-decode, jt9, operator, postponed reply; two transmissions in one drain | `OneBurst`; `DeferredIsCurrent`: a reply overruled, or stopped, is not sent |
| `MCTxPtt` | rig requests lost or unanswered, crashes, SWR cut, watchdog | `PttIsAccountedFor`; `BurstsAreCutOnPurpose`; `PttComesOff`: no carrier stays |
| `MCUploadQueue` | two rows, four services, lost answers, refusals, missing logs, profile, export | `MarkedIsAccountedFor`; `KeepsTheLedger`; `EveryRowGoesOut` |
| `MCTxLock` | rig gone or mute, antenna, drive, the gain by hand, guards of their own | `DeadRigLocks`; `FalseLockEnds`: a lock on a sound station is lifted |
| `MCRigStation` | hand at the rig, buttons, power, operator, autopilot, lost commands | `LostModeIsTold`; `PowerShownIsReal`; `DeadFt4IsLeft` |
| `MCBackground` | seven parts, one per history | the log: `PickerMissesOnlyDrained`, `KeepsTheLedger`; the picker: `TailEndOncePerDay`; the memory: `WorkedStaysBlocked`, `BackoffSurvives`; the mode watchdog: `DeadChainIsPushed`; the hotspot: `StaysReachable`, `ComesBackToTheNet`, `HotspotLasts`; PSK Reporter: `SpotsAreAccountedFor`, `PickerLearnsWhoHears`; the decoder's mode adds its steps only |
| `MCSelfUpdate` | two parts, one per history: three releases with seven sets of flaws, a killed run; a database of two releases, cut or failing at any statement | `UpdateEndsWell`; `ReleaseArrives`: a sound release is installed in the end; `StartedIsMigrated`; `BackupsAreDaily` |
| `ClaimRunaway` | the instance of `MCTxLock` without fairness | violates `EveryRunawayIsCut`, see section 5 |

Invariants that a theorem states for all constants are not repeated by a run unless
the run asks its question anyway: the `TypeOK` of each module, `DrainedStaysIdle`,
`ControlArmCalls` and the strengthenings of section 6 stand as definitions.
`AbsenceIsToldOnce`, `OwnTurnIsNoAlarm` and `StandstillIsPushed` are definitions that
TLC confirms on the instances of `MCTxLock`, `MCRigStation` and `MCBackground`, as it
does `StandstillIsTold` (`MCTxLock`), `BurstEnds` (`MCTxPtt`), `JamIsReported`
(`MCUploadQueue`), `RowsOnce` and `OverloadEnds` (`MCBackground`): to repeat one, add it
to the configuration.  `PicturesAreKept` is a theorem.

Bounds of the QSO machine.  One or two stations: the machine holds one QSO, so the
second is there to interrupt it.  Six stale slots (`qso_max_stale_slots`, 2 to 20
allowed) become two, or one with two stations: the counter is compared with its
limit only, and both sides of the comparison occur.  Resends are 1 or 0 (0 to 10
allowed), one repeat of a report per QSO (the code computes 1 to 3), one RR73 sent
again and one QSO taken up again (3 and 2 in the code), the fallback after one slot
with at most two CQs.  The cooldown is asked for in `MCOperator`, whose machine calls
CQ, falls back to CQ, is stopped and started and meets tail ends.  Each limit is a constant of the model and the proofs hold for
all.  `MaxCalls` caps the history counter `rufe` above anything the limits allow.

Bounds of the TX engine.  At most two tasks drain at once (`MaxDrains`), besides the
postponed reply: two are enough to meet in the flag, at the boundary and at the
rig, and the proofs hold for any number.  One partner: what matters is whether the
QSO is still the one the reply was for, and it may have ended.  A drain holds one
burst, or a closing and the CQ behind it, or a STOP_TX with a call behind it;
a plan may be of any length in the theorems.  One late stage
stands for both; the second would differ by its name only, except for the shared
flag `_in_late_ingest` (section 5).  Failures of the rig and interleavings of
five tasks are explored in separate runs (`Events`), since together they exceed
what TLC can enumerate; the safety theorems cover both together.  `Crash` comes
after the first look at the rig only: before it nothing has been sent.

Bounds of the others.  Three QSOs and two writers: one QSO in the file, one being
drained and one appended meanwhile.  Two rows in the upload queue, of two callsigns,
two attempts, one row per sweep.  One station in the memory and four ticks, in which
it is called, given up and forgotten twice, with two failures of the database: a row
refused and the file not drained by the start, or a table not read.  The pauses of the
run are short, the theorems hold for all.  Two stations before the picker, one that closes a QSO and one
that calls CQ.  Two levels of SWR, gain and drive.  Two bands and two watts at the
rig.  Two stations and two callsigns at PSK Reporter, three troubles.  The deadlines
of hotspot and watchdogs are one or two beats, or one apart where their order
matters (`AP_RUECKKEHR_MAX` is the fourfold of the first step, not the 32-fold).
`Scenarios`, `Stories`, `Days` and `Events` say what may go wrong in one history:
what cannot meet in the code is explored in turns.  One run of the update is killed
(`MaxKills`, which bounds the releases of which a run was killed); `UpdateEndsWell`
speaks of histories without a kill, `ReleaseArrives` of those with one too.

Bounds of the services.  One QSO and one noise reading show every way in which a row
can be lost or left without an owner; the database has none of the steps of
`History` behind it, or all but the last (13 of 14), so that the steps are taken
from the beginning and the last ones from a schema that holds most.  A day is two
hours, two backups are kept, two cuts: an older release may write between them.  Two operators with one account each, one of
which may lack its key; one station; a fetch each hour, four requests: a page is
loaded, the operator switched, the page saved, the program restarted.  Two cards
of one station, four days (a list asks from the day before the newest card known,
so once a card of the third day is known it is less than the inbox), one failure of the database and three runs of
the loop.  One call for two persons, one schedule, distances of two and three minutes.
The theorems hold for all values.  A database, an inbox and the requests end at their
bounds, so these runs do not check for deadlock.

### Fairness

*QSO machine* (`MCEnds`).  The slot clock ticks whatever happens: strong fairness of
the slot's decodes (commands and later stages may take turns with them, but not for
ever) and weak fairness of the tick and the drain, which follow in the same task.  A
burst is settled one way or another, and a call is sent again and again rather than
always meeting another burst: strong fairness of `TxSent`.  In `MCEnds` the partner
keeps to the even slots, as the protocol demands.  A station that is decoded late
with the same CQ in slots of both parities resets the timer of the QSO for ever; the
property does not hold then, and the code has no remedy for it.  Users and hardware
are not fair.

*TX engine* (`MCTxPtt`).  Each task goes on when what it awaits is there: asyncio
schedules it, playback returns, the client gives up on a request after two seconds.
The poll loop and the clock run.  Strong fairness of `PttGoesOff`: a PTT-off that is
asked for again and again is carried out in the end.  Without it no program could
switch off a rig that never listens.  Decoders, users, crashes and the SWR are not
fair; a crash may come again and again.

*Uploads* (`MCUploadQueue`).  The loop and the clock run (weak); a service that is
asked again and again takes a row in the end, and a sweep reaches its end again and
again (strong, `Taken` and `Commit`; so does a file that is answered as holding a
duplicate).  `EveryRowGoesOut` supposes that from some time on
no sweep is broken off after it has sent something: a sweep that is always rolled
back sends the same row for ever.

*Locks* (`MCTxLock`).  Loops, bursts and time go on (weak); a push of the watchdog that is
tried again and again is delivered once (strong), so that "told" does not hang on
the service of the messages.

*Rig* (`MCRigStation`).  The poll, the commands and the autopilot go on (weak); a
poll is answered again and again (strong).  The liveness properties suppose
`LeftAlone`: from some time on nobody touches anything.

*Background* (`MCBackground`).  One weak fairness of the minute of the mode watchdog,
the network's joining and the loops of PSK Reporter: of the three only that of the
part a history is about can ever be taken.  Strong fairness of the beat of the
hotspot's watchdog, and of a start of the hotspot that works: it does not fail for
ever.  `OverloadEnds` needs none.  Log, picker and memory have safety only.

*Self-update* (`MCSelfUpdate`).  The script goes on (weak); pip, the restart and a
green answer come in the end if they are tried again and again with a release that
allows them (strong, per attempt).  `AnyInit` lets the last release be sound, as
`ReleaseArrives` supposes.  Histories of the database stand outside this fairness
and are looked at for invariants only.

## 5. Where the code differs from what it says

Sentences of docs, comments and docstrings that the code does not keep.  One is a
run; the others of the table are definitions which TLC refutes on the instance
named there (make the definition the only INVARIANT or PROPERTY).  `or` is
`runtime/orchestrator.py`, `sm` is `statemachine/machine.py`.

| definition | sentence | what happens | instance |
| --- | --- | --- | --- |
| `EveryRunawayIsCut` | high SWR in a burst cuts it | the mark that a cut was ordered outlives the burst, the next one is not cut | run `ClaimRunaway` |
| `PanicLocks` | a panic stop locks TX until reset (README.md) | it does what stop does; a logged partner's repeated R-report is answered | `MCQsoMachine`, one station, panic as the only command |
| `DrainSendsNoCq` | no new CQs while an update waits (`set_drain_for_update`) | the grace window ends in a CQ in CQ mode | `MCQsoMachine`, booted into CQ, drain as the only command |
| `RealQsoIsLogged` | the plausibility lock costs no real QSO (`_emit_log_qso`) | a QSO that was taken up again has forgotten that its station addressed us | `MCQsoMachine`, two stations of which one is compound |
| `IgnoredOnlyIfCalled` | nobody is given up without a second call (`on_decodes`) | dropped repeats count | `MCQsoMachine`, with the event `burst_active` |
| `NoAnswerInCooldown` | who was given up is not answered at once when he repeats his report (comment in `on_decodes`, sm 855-863) | while we call CQ, in CQ mode or in the fallback, he is (sm 954) | `MCOperator` |
| `StoppedStartsNoCall` | panic: immediate PTT off and TX lock (architecture.md) | a call that waits for the boundary is not cancelled; it starts after the stop | `MCTxEngine`, `CallPlans`, no late stage |
| `LateReplyAvoidsHisSlot` | a reply found too late goes out two slots later, the next slot is the partner's (`_schiebe_tx_auf`) | found in the last 2.5 s of our slot it waits for the boundary and goes out in his | `MCTxEngine` without a user |
| `NothingLost` | a completed QSO is never lost silently (comment in `_do_log_qso`) | a line appended while another task drains is overwritten | `MCBackground` |
| `LoggedStaysBlocked` | the cooldowns of the log are back after a start (or 3428) | a row that the drain of the start could not insert comes into the log by a later one, which sets no cooldown (or 10889); a log that cannot be read blocks nobody (or 3479) | `MCBackground` |
| `HumanLooksAtSwr` | after an SWR runaway a human looks first (or 5694) | the lock watchdog frees this lock too | `MCTxLock` |
| `SwitchLowersPower` | every reset event, a switch of operators too, brings the power down to the safe default (docs/tx_power_safety.md:7, 45) | the rig keeps the power of the old operator | `MCRigStation` |
| `HeldForAnUpdate` | the hold ends if the update does not come (sm 2943) | nobody posts `enabled=false`; a failed checkout, an unanswered probe or a kill leaves the station held | `MCSelfUpdate` |
| `RemovedStaysRemoved` | an empty string deletes a credential (routes/operators.py 346; tests/test_operator_credentials.py:102) | the file is written while the block for QRZ still holds it, the next start fills the profile from there | `MCForeground` |
| `NoForeignLogbook` | a logbook fetched for one operator does not reach the next (or 7048, 1472) | a configuration page loaded for one and saved under another saves his user with the other's key, and the validation gives it to his profile if that lacks one (routes/config.py 174, config/models.py 1344): his fetches bring the other's logbook | `MCForeground` |
| `LifetimeIsKnown` | after the fetch of the logbook the filter is accurate (or 7003) | a restart within the day, or a switch, forgets what was fetched, and the next fetch waits for its day | `MCForeground` |
| `ManualStaysManual` | a manual entry stays manual (or 3538) | a DXpedition of the same call marks it automatic, and its end deletes it | `MCForeground` |
| `TailEndOncePerDay` | one tail-end call a day | in the arm of the expected value the pick is not remembered (sm 2883) | `MCBackground`, `Blocks <- ExpectedValue` |

The following were met while modelling; no definition states them.

*QSO machine.*
* TX_LOCKED is "no TX until manual reset" (states.py:26); an RR73 still goes to a
  logged partner who repeats his R-report once the guards are green (842).
* Placeholders must not become TX targets (sm 33); the parsers of direct answers do
  not ask (3147).
* A first call that could not be sent is made up for (or 9959); not if it was too
  late rather than dropped (9868), for nobody tells the machine.
* A repeat waits for a slot of its parity (states.py:116); the decode before the
  boundary compares with the parity of the slot that ends (sm 1063).
* A closing accepted in QSO_RESPOND is logged without a report of ours (1021 against
  the remark at 1806).  A QSO left in the context by a lock hides a logged partner's
  R-report (2036 against 838).  CQ mode started during a fallback keeps the
  fallback's limit (589 against 2953).  Every batch that is not late counts as a
  slot, so a CQ of the slot in which we called is held against the station (823
  against states.py:121).

*TX engine.*
* An RR73 that was put off is overruled by the CQ queued behind it in the same drain,
  which raises `_tx_aufgeschoben_nr`: the partner does not get it.
* The second stage and jt9 share `_in_late_ingest`: the first to end clears it for
  the other, whose reply is then taken for the slot loop's and may start in the
  middle of a slot (or 5187, 10043).
* A click of the operator while the slot loop is at work counts as the slot loop's
  transmission, against the docstring (10029): it is not held to
  `tx_latency_max_s`, and it counts against the decoder.  A skipped QSO leaves its
  postponed closing in place (sm 2946), where stop and panic withdraw it.

*Locks.*  The ALC guard judges the level of the last burst, however old (or 9484).
The clock of a lock is reset only if a look of the watchdog meets the time between
two locks (5724).  Within an hour of the computer's boot "an hour ago" is in the
computer's negative past and the first report waits (5776).  The push that the rig is
away is tried once (11557).

*Rig.*  A restore that fails is not tried again (or 3855); a failed command of the
power floor is undone by the next poll (4330), and the floor may raise a power that
was lowered by hand.  The slider clamps with the band of the last poll (4167).  The
doc has the echo registered before the command, the code does it after (4331).  A
power read before a move of the slider is compared after it (8120).  A band
button tunes the FT8 dial in FT4 (web/routes/control.py 446).  The autopilot looks,
awaits and then switches, whatever began meanwhile (5660); if the dial fails the mode is
switched all the same (3709).  A change of `default_power_w` is taken for a hand at
the rig (4477).

*Log and memory.*  The file of rows not written is taken to be readable: a failed
read of it, after which the drain gives up, is not modelled.  Spill file and configuration of operators are read, changed and
written without a lock (routes/operators.py 265); a stop loses a QSO in flight.
Blocks restored at a start are keyed by the base call while the picker asks by the
call it heard (or 3383, sm 2745), and count from the beginning of the QSO.  A row of
a completed QSO that the database refuses lets the next pauses start anew: an earlier
version of `BackoffSurvives` did not say so and held only because the bounds of the
run were small; the proof found it.

*Picker.*  The filter for weak stations runs before those that cannot be waived
(sm 2660); the shadow log of the control arm differs from what the rules would have
done (2531); the soft blacklist asks by the raw call (2769 against 364); the
watchlist is not exempt from four gates (2785); a pick is charged for a day even if
the guards turn red before it is sent, and is forgotten by a restart; a rare new DXCC
is marked as a pile-up (or 9030) and removed by the gate (2790) although
`_tier_not_in_pileup` and tests/test_v019_features.py:51 say otherwise; synthetic
tail-end decodes carry no tables of the slot; `last_decodes` is the last batch only (820).

*Decoding.*  A message that the regular pass misses after the early pass found it
reaches the machine twice, as does everything when the early pass ends last: the two
exceptions of `HeardOnce`.  The early pass counts as a late slot, against its
docstring.  Exceptions of the second stage never count as overruns; an in-time burst of
any path resets the count of late ones; saving the configuration brings a mode
back that was given up.

*PSK Reporter.*  `who_heard_me` swallows its exceptions, so the loop's `except`,
its back-off and `_psk_last_refresh_ok = False` are never reached.  A failed query
after a restart or a new client empties what the hunter knows, against
docs/hunt_priority.md:218 and the docstring at or 6445.  Old answers never expire and
are stored with a new timestamp; after a switch of mode the set of the other mode
stays until the next answer (:216).  A failed flush loses its spots although
psk_reporter.py:168 says they are tried again; a saved configuration drops those
that wait.  `runtime/psk_reciprocity.py` is used by tests only.

*Watchdogs.*  `_funkstille_push_active` is set without a push when the band is dead but
the sound alive, which silences the later report of a dead chain (or 5913): the
hypothesis of `DeadChainIsPushed`.  Decodes of late stages refresh the
timestamp and not the flag (5144).  A CQ count of zero is timed from 0.0 (5957).

*Self-update.*  A run killed after its checkout leaves old code running, and the next
run finds nothing to do (`UpdateEndsWell` speaks of runs that were not killed, and is
content with an older report in red as long as no green or yellow one follows it;
`ReleaseArrives` is content with a release that runs for a moment); one killed in pip leaves an environment that the
next release with the same dependencies does not repair.  The rollback does not
probe (docs/self_update.md, step 15).  A broken release is tried every ten minutes.  No
hold is announced if the station is at rest, so a QSO may begin during pip and be
cut.  A panic before a restart that fails leaves the station stopped.  The backup
removes old archives even if the new one failed, and a truncated copy counts as
good.

*Data.*  A switch of the operator is not written to the configuration file (or 1888),
so a restart returns to the one before.  Two switches at a time may hydrate in the
other order; a switch or a change of a profile during the write of a saved page is
overwritten by the page's copy (routes/config.py 255).  The key of a card is unique in
the whole table and compared within one operator (or 1633, models.py 680): one card
known to another profile refuses the list.  Errors that may pass count as attempts
for a picture.  A file that a power cut left torn is taken for the picture (or 1824).
The watchlist has one row per call: the wish of a second operator is not kept, and his
removal deletes the other's (models.py 418).  The time of the last push is not kept
across restarts, although a column for it exists (`last_alert_at`).

## 6. Proofs

Eight modules.  Nothing is assumed but the ASSUMEs of the modules, which say that
names differ, that limits are naturals (some positive), and what the type of a
parameter is; one theorem has a hypothesis of its own, named below.  Every safety
property of the passing runs is a theorem for all values of the constants.

`QsoMachineProofs` proves `TypeOK` for every set of stations, every batch function
and every limit: one lemma per operator that ends or starts a QSO, one per state of
`on_decodes`, one step per action.

`QsoSafetyProofs` proves `ContextMatchesState`, `TransmissionsAreGuarded` and
`LoggedWereHeard`.  None is inductive.  The inductive invariant `SafetyInv`
adds three facts:

* `CalledUsIsTrue`: the flag `partner_hat_uns_gerufen` implies that the station
  is in `heard`; needed because the flag, not the batch, decides about the log
  entry;
* `LogEndsQso`: while a log entry is queued the QSO is gone, so that clearing
  `heard` at the drain does not invalidate the flag;
* `QueueEmptyBetweenRounds`: `pending` is empty when a round begins, which ties
  the guards that were green when an action was queued to the ones seen now.

The argument runs over the helpers first (`Emit` appends, `Lock`, `Bail`,
`EmitLogQso`, `ExitGrace` each keep `Safe`), then over the states of
`on_decodes`, then over the actions.  Four more follow on top.
`CallsAlwaysBelongToTheQso` needs `Paired`: whatever is called in a round is called
for the QSO the round leaves behind.  `StoppedAlwaysStaysOff` needs `Off`, a
station that was stopped is in no mode, and `OnlyFarewells`, all it has queued for
transmission are RR73s to partners in `recent_logged`, whose count is at most
`RR73_NACHKLANG_MAX`.  `CooldownIsAlwaysKept` and `DrainedAlwaysStaysIdle` are
properties of steps: each way by which a handler leaves IDLE asks the memory, or the
drain, first, and so does the tick that ends the CQ fallback; what CQ_CALLING answers
without asking is excepted in the statement.

`TxEngineProofs` proves every safety property of the TX engine, for any set of
stages, users and partners, plans of any length, any number of tasks at once and all
failures of the rig together.  `TypeOK` needs `DueAtStart`: a reply whose boundary has come is
dealt with before the slot goes on, so its countdown never falls below zero.
`OneBurst`, `PttIsAccountedFor` and `BurstsAreCutOnPurpose` share the invariant
`BurstInv`, which adds

* `RequestsMatch`: a task in the middle of a request has exactly one in the
  queue, and only the task about to begin its burst has asked for PTT-on;
* `AbortsFirst`: the PTT-off by which a task aborts its burst stands in front of
  any PTT-on, and is gone when a burst plays.  This is why it cannot cut the burst
  of another task that took the flag in the meantime (the flag is cleared before
  the PTT-off is asked for, or 9937): it depends on the order in which the lock of
  the rig client serves its waiters.

The actions are sorted by how they move tasks, flag and queue (`Rests`,
`AsksOff`, `AsksOn`, `OtherAsks`, an answer of the rig); one lemma shows for each
of these that `BurstInv` survives, another that each action is one of them.
`DeferredIsCurrent` follows from `PutOffIsCurrent`: a reply is kept only while
nothing has overtaken it, and only `SendeAufgeschoben` starts it.

`QsoLogProofs` proves that the log implements `QsoLedger` (`LogImplementsLedger`), that
no QSO gets two rows (`NoSecondRow`), and what the picker may miss.  The invariant
`Base` says what tasks have in hand; its heart is `SameLines`: the lines that
draining tasks hold and the file are the same but for QSOs that have their row or a
known reason, so a task that replaces the file, or dies, loses nothing unknown.
`NoSecondRow` adds `Once`: a line is tried by one task while its QSO has no row.

`UploadProofs` proves `MarkedIsAccountedFor` and the refinement, for all four
services.  `QueueInv` adds what a sweep holds in its session: rows of the log only
(`OfTheLog`) and no mark without a receipt or a reason (`MarksAccounted`), so commit,
rollback and a confirmation in between may come in any order.

`DecodeProofs` proves `HeardOnce` for any messages, computers and faults: `HandoverInv`
accounts, per message, for the mark `verarbeitet` and for which pass still owns it.

`ServiceProofs` treats five parts.

* Self-update: `UpdateEndsWell` for any releases and flaws.  The invariant says for
  each line of the script what is checked out, what the environment fits and what
  runs; the release to go back to answers, or is one that cannot be left.
* Database: `SchemaInv` says what is kept at every moment (no table is ever left
  aside, no reading missing), and `Moving` what a migration has done by the step it
  has come to.  The heart is that from the third step on a transaction is open: the
  table of the noise is rebuilt last, so a cut undoes the whole of it.
  `BackupsInv` ties the newest backup whose time was kept to that time, through
  starts and ends.
* Operators: `KeysInUse`, profiles, file and QRZ block hold keys of their own operator
  only, in memory and in what is being written, except those of an operator in
  `strayed`.
* Inbox: `GapsInv`, an answer under way joins what is known without a gap;
  `PicturesInv`, who still waits for a picture has cost no more fetches than failures.
* Watchlist: `PushesNoted`, the memory of the throttle is the last push.

`BackgroundProofs` treats four parts, each with an invariant of its own.

* Picker: `PickerInv`, no pick is older than the last tail end the history knows.
  `TailEndAtMostOncePerDay` supposes that no arm is that of the expected value, where
  the code forgets the pick (section 5).  `ControlArmAlwaysCalls` is a lemma over the
  gates, for every batch.
* Memory: `MemoryInv` (nothing lies in the future; a row written, due or in the file
  is no later than what the process knows, unless it is `missed`) gives
  `WorkedAlwaysStaysBlocked`.  `BackoffInv` adds
  `CallsInOrder` and `BackoffKept`: for each station the failures that are remembered
  or due cover those that happened since its last QSO, and the pause in force is the
  one they ask for.  The pause grows with powers of `repeat_factor`, a recursive
  function; that they grow is proved from a least counterexample, as induction over
  data is out of reach.  `BackoffAlwaysSurvives` holds for any number of restarts.
* PSK Reporter: `AllAccounted`, every decoded spot waits, is on its way, out or lost.
* Hotspot: `ClockIsItsOwn`, the clock of the hotspot is no older than the hotspot
  unless something `disturbed` it.

What the prover does not reach stays with TLC, on the instances of section 4: all
liveness, `QsoEnds`, `DrainCompletes`, `PttComesOff`, `EveryRowGoesOut`, `DeadRigLocks`,
`FalseLockEnds`, `LostModeIsTold`, `PowerShownIsReal`, `DeadFt4IsLeft`,
`DeadChainIsPushed`, `StaysReachable`, `ComesBackToTheNet`, `PickerLearnsWhoHears`,
`ReleaseArrives`, and those of the definitions named in section 4 that are liveness.  Locks and
rig have liveness only, hence no theorem; nor is shown that the compositions of
`MCForeground`, `MCBackground` and `MCSelfUpdate` keep what their parts do, which share no
variable.

## 7. Not modelled

Reasons are in `PROJECT.json`, component by component.  In short: signal
processing and device I/O; HTTP clients with a cache each; statistics and their
formulas (autopilot, reputation); presentation; vendored code; the start of the
process beyond what `Memory`, `QsoLog`, `Database` and `Operators` restore.
