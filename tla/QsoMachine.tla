----------------------------- MODULE QsoMachine -----------------------------
(***************************************************************************)
(* The QSO state machine of the appliance: statemachine/machine.py with    *)
(* the context of statemachine/states.py.                                  *)
(*                                                                         *)
(* Each handler of StateMachine is one action.  Handlers run to completion *)
(* on the event loop and queue their outputs in pending; the orchestrator  *)
(* always calls them in one of the rounds that variable turn enforces:     *)
(*    slot boundary    on_decodes, on_slot_tick, drain_actions             *)
(*    other decodes    on_decodes, drain_actions                           *)
(*    operator         on_user_*, drain_actions                            *)
(* Between two rounds anything may happen: hardware readings change, time  *)
(* passes, an emitted transmission is dropped.                             *)
(*                                                                         *)
(* Left out: reports in dB, audio frequencies, telemetry, cooldown lengths *)
(* and the preferences by which the picker chooses among eligible callers. *)
(***************************************************************************)
EXTENDS Ft8Messages, Naturals, Sequences

CONSTANTS
    qso_max_stale_slots, qso_max_cq_resends,
    ReportLimits,                 \* values of _effective_report_resend_limit
    RR73_NACHKLANG_MAX, RESUME_MAX,
    hunt_cq_fallback, hunt_cq_fallback_after_slots, hunt_cq_fallback_max_cqs,
    cq_tx_slot_parity,
    BatchKinds,                   \* ways in which decodes reach the machine
    Batches,                      \* decode batches of a slot, by its parity
    TailEnders,                   \* stations that may have just closed a QSO
    Commands,                     \* operator commands that may be given
    Events,                       \* what else may happen to the station
    BootModes                     \* settings <<auto_cq, auto_answer>> at boot

VARIABLES
    state, qso,
    grace,                        \* _grace_partner_call
    auto_cq, auto_answer, drain_for_update,
    cq_fallback_active, idle_slots, cq_count, cq_fallback_paused,
    recent_until,                 \* calls in a cooldown that is still running
    recent_qso_ctx,               \* per call: no, a live or an expired entry
    resume_zaehler,
    recent_logged,                \* per call: None or RR73s sent again
    last_lock_reason,             \* TRUE iff a reason is displayed
    pending,
    hw,                           \* all guards are green
    parity,                       \* current_slot_parity
    turn,                         \* which step of a round comes next
    owed,                         \* a call whose burst is still to be sent
    on_air,                       \* own bursts may be on the air in this slot
    heard,                        \* history: who addressed us since the last
                                  \* log entry of that station
    rufe,                         \* history: calls of this QSO that were sent
    heard_now,                    \* history: who addressed us in this batch
    stopped                       \* history: stopped, or stopped by panic and
                                  \* not reset, with nothing started since

cqVars  == <<cq_fallback_active, idle_slots, cq_count, cq_fallback_paused>>
modes   == <<auto_cq, auto_answer, drain_for_update>>
memory  == <<recent_until, recent_qso_ctx, resume_zaehler, recent_logged>>
output  == <<pending, heard, heard_now>>
history == <<rufe, stopped>>
vars    == <<state, qso, grace, modes, cqVars, memory, last_lock_reason,
             output, hw, parity, turn, owed, on_air, history>>

States == {"IDLE", "CQ_CALLING", "QSO_RESPOND", "QSO_REPORT", "QSO_GRACE", "TX_LOCKED"}
Parities == {"even", "odd"}
Flip(p) == IF p = "even" THEN "odd" ELSE "even"

QsoContext ==
    [their_call : Partners,
     partner_hat_uns_gerufen : BOOLEAN,
     their_snr : BOOLEAN,                    \* a report has been sent
     stale_slots : 0..qso_max_stale_slots,
     cq_resends : 0..qso_max_cq_resends,
     freq_hopped_once : BOOLEAN,
     resend_vorgemerkt : Parities \cup {None},
     gesendet_bei_charge : BOOLEAN,          \* called since the last regular batch
     ruf_ausgefallen : BOOLEAN,
     report_resends : 0..3]

ASSUME MachineAssumption ==
    /\ qso_max_stale_slots \in Nat \ {0}
    /\ qso_max_cq_resends \in Nat
    /\ ReportLimits \subseteq 0..3
    /\ RR73_NACHKLANG_MAX \in Nat
    /\ RESUME_MAX \in Nat
    /\ hunt_cq_fallback \in BOOLEAN
    /\ hunt_cq_fallback_after_slots \in Nat
    /\ hunt_cq_fallback_max_cqs \in Nat
    /\ cq_tx_slot_parity \in Parities
    /\ BatchKinds \subseteq {"slot", "pre", "second", "late"}
    /\ Batches \in [Parities -> SUBSET SUBSET Message]
    /\ TailEnders \subseteq Calls
    /\ Commands \subseteq {"start_cq", "stop", "panic", "skip_qso", "switch_operator",
                           "reset_lock", "reply_to", "auto_answer", "drain"}
    /\ Events \subseteq {"hardware", "cooldown", "time", "burst_active", "too_late", "swr"}
    /\ BootModes \subseteq BOOLEAN \X BOOLEAN
    /\ None \notin QsoContext
    /\ None \notin Parities
    /\ None \notin 0..RR73_NACHKLANG_MAX

\* Bound: more calls of one QSO than these are not counted.
MaxCalls == qso_max_cq_resends + 3

NewQso(c) ==
    [their_call |-> c, partner_hat_uns_gerufen |-> FALSE, their_snr |-> FALSE,
     stale_slots |-> 0, cq_resends |-> 0, freq_hopped_once |-> FALSE,
     resend_vorgemerkt |-> None, gesendet_bei_charge |-> FALSE,
     ruf_ausgefallen |-> FALSE, report_resends |-> 0]

-----------------------------------------------------------------------------
(* Outputs.                                                                *)

TxKinds == {"cq", "respond_grid", "respond_report", "r_report", "rr73", "ack73"}

Tx(k, c)     == [act |-> "TX_MESSAGE", kind |-> k, call |-> c]
LogEntry(q)  == [act |-> "LOG_QSO", call |-> q.their_call, rst_sent |-> q.their_snr]
Bailed(c, r) == [act |-> "QSO_BAIL", call |-> c, reason |-> r]
StopTx       == [act |-> "STOP_TX"]
TxLocked     == [act |-> "TX_LOCKED"]

BailReasons == {"picked_another", "max_resends", "went_silent",
                "report_never_closed", "ohne_adressierung"}

Action ==
         [act : {"TX_MESSAGE"}, kind : TxKinds, call : Partners \cup {None}]
    \cup [act : {"LOG_QSO"}, call : Partners, rst_sent : BOOLEAN]
    \cup [act : {"QSO_BAIL"}, call : Partners, reason : BailReasons]
    \cup [act : {"STOP_TX", "TX_LOCKED"}]

Elements(s) == {s[i] : i \in DOMAIN s}
OfKind(s, a) == {x \in Elements(s) : x.act = a}
LoggedIn(s) == {x.call : x \in OfKind(s, "LOG_QSO")}
CalledIn(s) == {x.call : x \in {y \in OfKind(s, "TX_MESSAGE") :
                    y.kind \in {"respond_grid", "respond_report", "r_report"}}}

Called(s) == \E i \in DOMAIN s : s[i].act = "TX_MESSAGE" /\ s[i].kind = "respond_grid"

(* Queue the outputs of a handler that was given batch.                    *)
Emit(acts, batch) ==
    /\ pending' = pending \o acts
    /\ LET now == {m.from : m \in {x \in batch : AddressesUs(x)}}
       IN  /\ heard' = heard \cup now
           /\ heard_now' = heard_now \cup now

Silent(batch) == Emit(<<>>, batch)

(* _check_guards on red guards: q is the QSO as the handler left it.       *)
Lock(q, batch) ==
    /\ state' = "TX_LOCKED"
    /\ qso' = q
    /\ last_lock_reason' = TRUE
    /\ Emit(<<TxLocked, StopTx>>, batch)

GuardsUnchecked == last_lock_reason' = FALSE          \* mutant
GuardsPass == hw /\ last_lock_reason' = FALSE

-----------------------------------------------------------------------------
Init ==
    /\ state = "IDLE"
    /\ qso = None
    /\ grace = None
    /\ \E mode \in BootModes : auto_cq = mode[1] /\ auto_answer = mode[2]
    /\ drain_for_update = FALSE
    /\ cq_fallback_active = FALSE
    /\ idle_slots = 0
    /\ cq_count = 0
    /\ cq_fallback_paused = FALSE
    /\ recent_until = {}
    /\ recent_qso_ctx = [c \in Partners |-> "none"]
    /\ resume_zaehler = [c \in Partners |-> 0]
    /\ recent_logged = [c \in Partners |-> None]
    /\ last_lock_reason = FALSE
    /\ pending = <<>>
    /\ hw \in BOOLEAN
    /\ parity = "even"
    /\ turn = "any"
    /\ owed = "none"
    /\ on_air = FALSE
    /\ heard = {}
    /\ heard_now = {}
    /\ rufe = 0
    /\ stopped = "no"

-----------------------------------------------------------------------------
(* Ends of a QSO.                                                          *)

(* _bail_qso_with_cooldown; a QSO in which we have sent a report is kept   *)
(* for a late continuation (_remember_unfinished_qso).                     *)
Bail(q, reason, batch, ctx, zaehler) ==
    /\ recent_qso_ctx' = IF q.their_snr THEN [ctx EXCEPT ![q.their_call] = "live"]
                                        ELSE ctx
    /\ resume_zaehler' = zaehler
    /\ recent_until' = recent_until \cup {q.their_call}
    /\ qso' = None
    /\ state' = "IDLE"
    /\ Emit(<<StopTx, Bailed(q.their_call, reason)>>, batch)
    /\ UNCHANGED <<grace, cqVars, recent_logged, last_lock_reason>>

(* The plausibility lock: the station has addressed us in this QSO.        *)
AnyClosingCounts(q, batch) == TRUE                    \* mutant
Plausible(q, batch) == q.partner_hat_uns_gerufen \/ PartnerAddressesUs(batch, q.their_call)

(* _emit_log_qso.  Red guards cost the RR73 and the grace window, never    *)
(* the log entry.                                                          *)
EmitLogQso(q, batch, ctx, zaehler) ==
    LET c == q.their_call IN
    IF Plausible(q, batch)
    THEN /\ recent_logged' = [recent_logged EXCEPT ![c] = 0]
         /\ resume_zaehler' = [zaehler EXCEPT ![c] = 0]
         /\ recent_qso_ctx' = ctx
         /\ qso' = None
         /\ UNCHANGED <<cqVars, recent_until>>
         /\ \/ /\ GuardsPass
               /\ grace' = c
               /\ state' = "QSO_GRACE"
               /\ Emit(<<Tx("rr73", c), LogEntry(q)>>, batch)
            \/ /\ ~hw
               /\ last_lock_reason' = TRUE
               /\ state' = "TX_LOCKED"
               /\ grace' = grace
               /\ Emit(<<TxLocked, StopTx, LogEntry(q)>>, batch)
    ELSE Bail(q, "ohne_adressierung", batch, ctx, zaehler)

(* _exit_grace, after the outputs before.                                  *)
ExitGrace(before, batch) ==
    /\ grace' = None
    /\ qso' = qso
    /\ UNCHANGED <<memory, cq_fallback_active, idle_slots, cq_fallback_paused>>
    /\ \/ /\ ~auto_cq
          /\ state' = "IDLE"
          /\ Emit(before, batch)
          /\ last_lock_reason' = IF before = <<>> THEN last_lock_reason ELSE FALSE
          /\ cq_count' = cq_count
       \/ /\ auto_cq /\ GuardsPass
          /\ state' = "CQ_CALLING"
          /\ Emit(before \o <<Tx("cq", None)>>, batch)
          /\ cq_count' = 0
       \/ /\ auto_cq /\ ~hw
          /\ state' = "TX_LOCKED"
          /\ last_lock_reason' = TRUE
          /\ Emit(before \o <<TxLocked, StopTx>>, batch)
          /\ cq_count' = cq_count

-----------------------------------------------------------------------------
(* on_decodes, one operator per state it handles.  q is the QSO after the  *)
(* preamble.                                                               *)

Preamble(batch, late) ==
    IF qso = None THEN None
    ELSE [qso EXCEPT
            !.gesendet_bei_charge = @ /\ late,
            !.partner_hat_uns_gerufen =
                @ \/ PartnerAddressesUs(batch, qso.their_call)]

(* _antworte_auf_spaeten_r_report: logged partners still waiting.          *)
Waiting(batch) ==
    {c \in Partners : /\ recent_logged[c] \in 0..(RR73_NACHKLANG_MAX - 1)
                      /\ HasRReport(batch, c)}

AnswerLateRReport(batch) ==
    /\ UNCHANGED <<grace, cqVars, recent_until, recent_qso_ctx, resume_zaehler>>
    /\ \/ /\ GuardsPass
          /\ \E c \in Waiting(batch) :
                /\ recent_logged' = [recent_logged EXCEPT ![c] = @ + 1]
                /\ Emit(<<Tx("rr73", c)>>, batch)
          /\ UNCHANGED <<state, qso>>
       \/ /\ ~hw
          /\ Lock(qso, batch)
          /\ recent_logged' = recent_logged

(* _try_resume_recent_qso: unfinished QSOs that the partner now closes,    *)
(* or whose report he repeats.                                             *)
Live == {c \in Partners : recent_qso_ctx[c] = "live"}
Expired == {c \in Partners : recent_qso_ctx[c] = "expired"}
Closers(batch) == {c \in Live : HasRReport(batch, c) \/ HasClosing(batch, c)}
Repeaters(batch) ==
    {c \in Live \ Closers(batch) : /\ HasReport(batch, c)
                                   /\ resume_zaehler[c] < RESUME_MAX}
Resumable(batch) == Closers(batch) \cup Repeaters(batch)

(* The scan drops the expired entries it meets; a hit ends it early, and so *)
(* does a closing under red guards.                                        *)
Dropped(batch) ==
    IF Closers(batch) = {} /\ (~hw \/ Repeaters(batch) = {}) THEN {Expired}
                                                            ELSE SUBSET Expired
CtxWithout(S) == [c \in Partners |-> IF c \in S THEN "none" ELSE recent_qso_ctx[c]]
ZaehlerWithout(S) == [c \in Partners |-> IF c \in S THEN 0 ELSE resume_zaehler[c]]

Resume(batch) ==
    /\ GuardsPass
    /\ \E c \in Resumable(batch), gone \in Dropped(batch) :
        LET q == [NewQso(c) EXCEPT !.their_snr = TRUE]
            ctx == CtxWithout(gone \cup {c})
            zaehler == ZaehlerWithout(gone)
        IN  \/ /\ c \in Closers(batch)
               /\ EmitLogQso(q, batch, ctx, zaehler)
            \/ /\ c \in Repeaters(batch)
               /\ state' = "QSO_REPORT"
               /\ qso' = q
               /\ recent_qso_ctx' = ctx
               /\ resume_zaehler' = [zaehler EXCEPT ![c] = @ + 1]
               /\ Emit(<<Tx("r_report", c)>>, batch)
               /\ UNCHANGED <<grace, cqVars, recent_until, recent_logged>>

(* A new QSO with c; how it starts depends on what was heard.              *)
StartReportUnset(c, batch) ==                         \* mutant
    /\ c \in ReportCallers(batch) \cup GridCallers(batch)
    /\ state' = IF c \in ReportCallers(batch) THEN "QSO_REPORT" ELSE "QSO_RESPOND"
    /\ qso' = NewQso(c)
    /\ Emit(<<Tx("r_report", c)>>, batch)
Start(c, batch) ==
    \/ /\ c \in ReportCallers(batch)
       /\ state' = "QSO_REPORT"
       /\ qso' = [NewQso(c) EXCEPT !.their_snr = TRUE]
       /\ Emit(<<Tx("r_report", c)>>, batch)
    \/ /\ c \in GridCallers(batch)
       /\ state' = "QSO_RESPOND"
       /\ qso' = [NewQso(c) EXCEPT !.their_snr = TRUE]
       /\ Emit(<<Tx("respond_report", c)>>, batch)

Call(c, batch) ==
    /\ state' = "QSO_RESPOND"
    /\ qso' = [NewQso(c) EXCEPT !.gesendet_bei_charge = TRUE]
    /\ Emit(<<Tx("respond_grid", c)>>, batch)

(* The parsers take the first caller of a batch: any, as batches are sets. *)
(* In IDLE one in a cooldown is passed over; the rest of his kind is then  *)
(* not looked at.                                                          *)
PassedOver(S) == S = {} \/ S \cap recent_until # {}
DirectCallers(batch) ==
    (ReportCallers(batch) \ recent_until)
    \cup (IF PassedOver(ReportCallers(batch)) THEN GridCallers(batch) \ recent_until
                                              ELSE {})
NoDirectCaller(batch) ==
    PassedOver(ReportCallers(batch)) /\ PassedOver(GridCallers(batch))

(* _pick_hunt_target: the callers of CQ, and the tail ends remembered from  *)
(* this slot or one before (HuntPicker keeps that table; here any of them). *)
EligibleAtOnce(batch) == CqCallers(batch) \cup TailEnders          \* mutant
Eligible(batch) == (CqCallers(batch) \cup TailEnders) \ recent_until

AfterScan(gone) ==
    /\ recent_qso_ctx' = CtxWithout(gone)
    /\ resume_zaehler' = ZaehlerWithout(gone)
    /\ UNCHANGED <<grace, recent_until, recent_logged>>

OneMoreIdleSlot ==
    /\ idle_slots' = IF idle_slots < hunt_cq_fallback_after_slots THEN idle_slots + 1
                                                                  ELSE idle_slots
    /\ UNCHANGED <<cq_fallback_active, cq_count, cq_fallback_paused>>

Hunting(q, batch) ==
    \/ Resume(batch)
    \/ /\ ~hw \/ Resumable(batch) = {}
       /\ \E gone \in Dropped(batch) : AfterScan(gone)
       /\ \/ /\ GuardsPass
             /\ \E c \in DirectCallers(batch) : Start(c, batch)
             /\ UNCHANGED cqVars
          \/ /\ GuardsPass
             /\ NoDirectCaller(batch)
             /\ \E c \in Eligible(batch) : Call(c, batch)
             /\ idle_slots' = 0
             /\ UNCHANGED <<cq_fallback_active, cq_count, cq_fallback_paused>>
          \/ /\ ~hw
             /\ DirectCallers(batch) # {}
             /\ Lock(q, batch)
             /\ UNCHANGED cqVars
          \/ /\ ~hw
             /\ NoDirectCaller(batch)
             /\ Eligible(batch) # {} \/ Resumable(batch) # {}
             /\ Lock(q, batch)
             /\ OneMoreIdleSlot
          \/ /\ NoDirectCaller(batch)            \* the picker takes nobody
             /\ hw \/ Resumable(batch) = {}
             /\ Silent(batch)
             /\ UNCHANGED <<state, last_lock_reason>>
             /\ qso' = q
             /\ OneMoreIdleSlot

Calling(q, batch) ==
    LET callers == IF ReportCallers(batch) # {} THEN ReportCallers(batch)
                                                ELSE GridCallers(batch)
        mayPick == cq_fallback_active /\ auto_answer
    IN
    \/ Resume(batch)
    \/ /\ ~hw \/ Resumable(batch) = {}
       /\ \E gone \in Dropped(batch) : AfterScan(gone)
       /\ \/ /\ GuardsPass
             /\ \E c \in callers : Start(c, batch)
             /\ cq_fallback_active' = FALSE
             /\ UNCHANGED <<idle_slots, cq_count, cq_fallback_paused>>
          \/ /\ GuardsPass
             /\ callers = {}
             /\ mayPick
             /\ \E c \in Eligible(batch) : Call(c, batch)
             /\ cq_fallback_active' = FALSE
             /\ idle_slots' = 0
             /\ UNCHANGED <<cq_count, cq_fallback_paused>>
          \/ /\ ~hw
             /\ \/ callers # {}
                \/ Resumable(batch) # {}
                \/ mayPick /\ Eligible(batch) # {}
             /\ Lock(q, batch)
             /\ UNCHANGED cqVars
          \/ /\ callers = {}
             /\ hw \/ Resumable(batch) = {}
             /\ Silent(batch)
             /\ UNCHANGED <<state, last_lock_reason, cqVars>>
             /\ qso' = q

(* One step within a QSO that goes on: send k, or lock.                    *)
Continue(q, next, k, new, batch) ==
    /\ UNCHANGED <<grace, cqVars, memory>>
    /\ \/ /\ GuardsPass
          /\ state' = next
          /\ qso' = new
          /\ Emit(<<Tx(k, q.their_call)>>, batch)
       \/ ~hw /\ Lock(q, batch)

Wait(q, batch) ==
    /\ qso' = q
    /\ Silent(batch)
    /\ UNCHANGED <<state, grace, cqVars, memory, last_lock_reason>>

NoProgress(q) == q                                    \* mutant
Progress(q) == [q EXCEPT !.stale_slots = 0]
GiveUp(q, reason, batch) == Bail(q, reason, batch, recent_qso_ctx, resume_zaehler)
Complete(q, batch) == EmitLogQso(Progress(q), batch, recent_qso_ctx, resume_zaehler)

Respond(q, batch, late, p) ==
    LET c == q.their_call
        due == ~late /\ q.resend_vorgemerkt = p
        again == (HeardCq(batch, c) /\ ~late) \/ due
        q1 == [q EXCEPT !.resend_vorgemerkt = None]
        call == [q1 EXCEPT !.stale_slots = 0, !.gesendet_bei_charge = TRUE]
        answered == HasRReport(batch, c) \/ HasClosing(batch, c)
        reported == ~answered /\ HasReport(batch, c)
        ignored == ~answered /\ ~reported /\ ~HeardWithOther(batch, c)
        exhausted == q.cq_resends >= qso_max_cq_resends
    IN
    \/ answered /\ Complete(q, batch)
    \/ reported /\ Continue(q, "QSO_REPORT", "r_report",
                            [Progress(q) EXCEPT !.their_snr = TRUE], batch)
    \/ /\ ~answered /\ ~reported /\ HeardWithOther(batch, c)
       /\ GiveUp(q, "picked_another", batch)
    \/ /\ ignored /\ HeardCq(batch, c) /\ late      \* too late in the slot
       /\ Wait(IF q.gesendet_bei_charge THEN q
               ELSE [q EXCEPT !.resend_vorgemerkt = p, !.stale_slots = 0], batch)
    \/ /\ ignored /\ again /\ q.ruf_ausgefallen
       /\ Continue(q, state, "respond_grid",
                   [call EXCEPT !.ruf_ausgefallen = FALSE], batch)
    \/ /\ ignored /\ again /\ ~q.ruf_ausgefallen
       /\ \/ /\ ~exhausted
             /\ Continue(q1, state, "respond_grid",
                         [call EXCEPT !.cq_resends = @ + 1], batch)
          \/ /\ exhausted /\ ~q.freq_hopped_once
             /\ Continue(q1, state, "respond_grid",
                         [call EXCEPT !.freq_hopped_once = TRUE], batch)
          \/ /\ exhausted /\ q.freq_hopped_once
             /\ GiveUp(q1, "max_resends", batch)
    \/ /\ ignored /\ ~again /\ ~(HeardCq(batch, c) /\ late)
       /\ Wait(q, batch)

(* One more R-report: the partner is there, so the QSO is not stale.       *)
RepeatUncounted(q) == [Progress(q) EXCEPT !.their_snr = TRUE]     \* mutant
RepeatReport(q) == [Progress(q) EXCEPT !.report_resends = @ + 1, !.their_snr = TRUE]

Report(q, batch) ==
    LET c == q.their_call
        answered == HasRReport(batch, c) \/ HasClosing(batch, c)
        stays == ~answered /\ ~HeardWithOther(batch, c)
        repeated == HasReport(batch, c) \/ HeardCq(batch, c)
    IN
    \/ answered /\ Complete(q, batch)
    \/ /\ ~answered /\ HeardWithOther(batch, c)
       /\ GiveUp(q, "picked_another", batch)
    \/ /\ stays /\ repeated
       /\ \E limit \in ReportLimits :
            \/ q.report_resends >= limit /\ Wait(q, batch)
            \/ /\ q.report_resends < limit
               /\ Continue(q, state, "r_report", RepeatReport(q), batch)
    \/ stays /\ ~repeated /\ Wait(q, batch)

Grace(q, batch) ==
    \/ /\ grace # None /\ HasClosing(batch, grace)
       /\ \/ hw /\ ExitGrace(<<Tx("ack73", grace)>>, batch)
          \/ /\ ~hw
             /\ Lock(q, batch)
             /\ UNCHANGED <<grace, cqVars, memory>>
    \/ /\ grace = None \/ ~HasClosing(batch, grace)
       /\ Wait(q, batch)

Hunts == state = "IDLE" /\ auto_answer /\ ~drain_for_update

(* A waiting partner comes first, in every state; then the state decides.  *)
Decode(batch, late, p) ==
    LET q == Preamble(batch, late) IN
    IF qso = None /\ Waiting(batch) # {} THEN AnswerLateRReport(batch)
    ELSE \/ Hunts /\ Hunting(q, batch)
         \/ state = "CQ_CALLING" /\ Calling(q, batch)
         \/ state = "QSO_RESPOND" /\ q # None /\ Respond(q, batch, late, p)
         \/ state = "QSO_REPORT" /\ q # None /\ Report(q, batch)
         \/ state = "QSO_GRACE" /\ Grace(q, batch)
         \/ /\ \/ state = "IDLE" /\ ~Hunts
               \/ state = "TX_LOCKED"
               \/ state \in {"QSO_RESPOND", "QSO_REPORT"} /\ q = None
            /\ Wait(q, batch)

(* The decodes of the slot that has ended (slot), those decoded before its *)
(* end (pre), and those of the later stages, in time to send (second) or   *)
(* not (late).  A call has left, or failed to, before the next decodes.    *)
(* current_slot_parity is that of the slot that begins.                    *)
HeardSlot(kind) == IF kind \in {"slot", "pre"} THEN parity ELSE Flip(parity)

OnDecodes(batch, kind) ==
    /\ turn = "any"
    /\ owed = "none" \/ kind = "pre"
    /\ parity' = IF kind = "slot" THEN Flip(parity) ELSE parity
    /\ turn' = IF kind = "slot" THEN "tick" ELSE kind
    /\ Decode(batch, kind = "late", parity')
    /\ rufe' = IF state \in {"QSO_RESPOND", "QSO_REPORT"} THEN rufe ELSE 0
    /\ on_air' = (kind # "slot" /\ on_air)
    /\ UNCHANGED <<modes, hw, owed, stopped>>

-----------------------------------------------------------------------------
(* on_slot_tick: everything that the passing of a slot does by itself.     *)

(* CQ_CALLING, entered with the fallback flag and counters given.          *)
CqSlot(fallback, count, idle) ==
    LET off == /\ state' = "IDLE"
               /\ cq_fallback_active' = FALSE
               /\ Silent({})
    IN
    \/ /\ drain_for_update
       /\ off
       /\ idle_slots' = idle /\ cq_count' = count
       /\ last_lock_reason' = (state = "CQ_CALLING" /\ last_lock_reason)
       /\ UNCHANGED <<qso, cq_fallback_paused>>
    \/ /\ ~drain_for_update /\ ~hw
       /\ Lock(qso, {})
       /\ cq_fallback_active' = fallback
       /\ idle_slots' = idle /\ cq_count' = count
       /\ UNCHANGED cq_fallback_paused
    \/ /\ ~drain_for_update /\ GuardsPass
       /\ fallback /\ count >= hunt_cq_fallback_max_cqs
       /\ off
       /\ cq_fallback_paused' = TRUE
       /\ idle_slots' = 0 /\ cq_count' = 0
       /\ UNCHANGED qso
    \/ /\ ~drain_for_update /\ GuardsPass
       /\ ~(fallback /\ count >= hunt_cq_fallback_max_cqs)
       /\ state' = "CQ_CALLING"
       /\ cq_fallback_active' = fallback
       /\ idle_slots' = idle
       /\ UNCHANGED <<qso, cq_fallback_paused>>
       /\ \/ /\ parity = cq_tx_slot_parity
             /\ cq_count' = IF count < hunt_cq_fallback_max_cqs THEN count + 1 ELSE count
             /\ Emit(<<Tx("cq", None)>>, {})
          \/ /\ parity # cq_tx_slot_parity
             /\ cq_count' = count
             /\ Silent({})

StartsFallback ==
    /\ auto_answer /\ hunt_cq_fallback
    /\ ~cq_fallback_paused /\ ~drain_for_update
    /\ idle_slots >= hunt_cq_fallback_after_slots

IdleTick ==
    \/ /\ ~auto_cq /\ ~StartsFallback
       /\ cq_fallback_active' = FALSE
       /\ Silent({})
       /\ UNCHANGED <<state, qso, last_lock_reason, idle_slots, cq_count,
                      cq_fallback_paused>>
    \/ /\ auto_cq \/ StartsFallback
       /\ ~hw
       /\ Lock(qso, {})
       /\ cq_fallback_active' = FALSE
       /\ UNCHANGED <<idle_slots, cq_count, cq_fallback_paused>>
    \/ hw /\ auto_cq /\ CqSlot(FALSE, cq_count, idle_slots)
    \/ hw /\ ~auto_cq /\ StartsFallback /\ CqSlot(TRUE, 0, 0)

(* A QSO that made no progress for too many slots is given up.             *)
StaleForEver(reason) ==                               \* mutant
    /\ Silent({})
    /\ UNCHANGED <<state, qso, grace, cqVars, memory, last_lock_reason>>
StaleTick(reason) ==
    \/ /\ qso.stale_slots < qso_max_stale_slots
       /\ qso' = [qso EXCEPT !.stale_slots = @ + 1]
       /\ Silent({})
       /\ UNCHANGED <<state, grace, cqVars, memory, last_lock_reason>>
    \/ /\ qso.stale_slots >= qso_max_stale_slots
       /\ GiveUp(qso, reason, {})

OnSlotTick ==
    /\ turn = "tick"
    /\ turn' = "slot"
    /\ \/ state = "IDLE" /\ IdleTick /\ UNCHANGED <<grace, memory>>
       \/ /\ state = "CQ_CALLING"
          /\ CqSlot(cq_fallback_active, cq_count, idle_slots)
          /\ UNCHANGED <<grace, memory>>
       \/ state = "QSO_RESPOND" /\ qso # None /\ StaleTick("went_silent")
       \/ state = "QSO_REPORT" /\ qso # None /\ StaleTick("report_never_closed")
       \/ state = "QSO_GRACE" /\ ExitGrace(<<>>, {})
       \/ /\ \/ state = "TX_LOCKED"
             \/ state \in {"QSO_RESPOND", "QSO_REPORT"} /\ qso = None
          /\ Silent({})
          /\ UNCHANGED <<state, qso, grace, cqVars, memory, last_lock_reason>>
    /\ UNCHANGED <<modes, hw, parity, owed, on_air, history>>

(* The orchestrator carries the queued outputs out.  A contact logged puts *)
(* its station in a cooldown too (worked_until), and a call is now owed.   *)
DrainActions ==
    /\ turn \notin {"any", "tick"}
    /\ turn' = "any"
    /\ pending' = <<>>
    /\ owed' = IF Called(pending) THEN (IF turn = "slot" THEN "slot" ELSE "other") ELSE owed
    /\ on_air' = (on_air \/ OfKind(pending, "TX_MESSAGE") # {})
    /\ recent_until' = recent_until \cup LoggedIn(pending)
    /\ heard' = heard \ LoggedIn(pending)
    /\ heard_now' = {}
    /\ UNCHANGED <<state, qso, grace, modes, cqVars, recent_qso_ctx, resume_zaehler,
                   recent_logged, last_lock_reason, hw, parity, history>>

-----------------------------------------------------------------------------
(* What becomes of the burst of a call (_do_tx_message).                   *)

outside == <<state, grace, modes, cqVars, memory, last_lock_reason, output,
             hw, parity, turn, on_air, stopped>>

TxSent ==
    /\ turn = "any" /\ owed # "none"
    /\ owed' = "none"
    /\ rufe' = IF qso # None /\ rufe < MaxCalls THEN rufe + 1 ELSE rufe
    /\ UNCHANGED <<outside, qso>>

(* Another burst was on the air; on_tx_ausgefallen tells the machine.      *)
TxDropped ==
    /\ "burst_active" \in Events
    /\ turn = "any" /\ owed # "none"
    /\ owed' = "none"
    /\ qso' = IF state = "QSO_RESPOND" /\ qso # None
              THEN [qso EXCEPT !.ruf_ausgefallen =
                                   @ \/ (qso.cq_resends = 0 /\ ~qso.freq_hopped_once),
                               !.resend_vorgemerkt = parity,
                               !.gesendet_bei_charge = FALSE]
              ELSE qso
    /\ UNCHANGED <<outside, rufe>>

(* Too late in the slot (B4): the burst is left out and nobody is told.    *)
TxLate ==
    /\ "too_late" \in Events
    /\ turn = "any" /\ owed = "other"
    /\ owed' = "none"
    /\ UNCHANGED <<outside, qso, rufe>>

(* Excessive SWR during a burst: the orchestrator itself sets the lock.    *)
SwrRunaway ==
    /\ "swr" \in Events
    /\ turn = "any" /\ on_air
    /\ on_air' = FALSE
    /\ state' = "TX_LOCKED"
    /\ last_lock_reason' = TRUE
    /\ UNCHANGED <<qso, grace, modes, cqVars, memory, output, hw, parity, turn,
                   owed, history>>

-----------------------------------------------------------------------------
(* Operator commands, and what else uses the same handlers.                *)

Command(name, next) == turn = "any" /\ name \in Commands /\ turn' = next

settings == <<memory, hw, parity, owed, on_air>>

UserStartCq ==
    /\ Command("start_cq", "user")
    /\ \/ /\ GuardsPass
          /\ state' = "CQ_CALLING"
          /\ qso' = None
          /\ cq_count' = 0
          /\ auto_cq' = TRUE
          /\ Emit(<<Tx("cq", None)>>, {})
          /\ stopped' = "no"
       \/ /\ ~hw
          /\ Lock(qso, {})
          /\ UNCHANGED <<cq_count, auto_cq, stopped>>
    /\ UNCHANGED <<grace, auto_answer, drain_for_update, cq_fallback_active,
                   idle_slots, cq_fallback_paused, settings, rufe>>

(* Stop, and what panic, shutdown and reboot do to the machine.            *)
StopAnsweringOnly ==                                  \* mutant
    /\ state' = "IDLE"
    /\ qso' = None
    /\ auto_answer' = FALSE
    /\ Emit(<<StopTx>>, {})
    /\ UNCHANGED <<grace, auto_cq, drain_for_update, cqVars, last_lock_reason, settings, rufe>>
Stop ==
    /\ state' = "IDLE"
    /\ qso' = None
    /\ auto_cq' = FALSE
    /\ auto_answer' = FALSE
    /\ cq_fallback_active' = FALSE
    /\ idle_slots' = 0
    /\ Emit(<<StopTx>>, {})
    /\ UNCHANGED <<grace, drain_for_update, cq_count, cq_fallback_paused,
                   last_lock_reason, settings, rufe>>

UserStop ==
    /\ Command("stop", "user")
    /\ Stop
    /\ stopped' = IF stopped = "panic" THEN "panic" ELSE "stop"

UserPanic == Command("panic", "user") /\ Stop /\ stopped' = "panic"

UserSkipQso ==
    /\ Command("skip_qso", "user")
    /\ state' = "IDLE"
    /\ qso' = None
    /\ Emit(<<StopTx>>, {})
    /\ UNCHANGED <<grace, modes, cqVars, last_lock_reason, settings, rufe, stopped>>

SwitchOperator ==
    /\ Command("switch_operator", "any")
    /\ qso # None
    /\ state' = "IDLE"
    /\ qso' = None
    /\ Emit(<<StopTx>>, {})
    /\ UNCHANGED <<grace, modes, cqVars, last_lock_reason, settings, rufe, stopped>>

UserResetLock ==
    /\ Command("reset_lock", "any")
    /\ last_lock_reason' = FALSE
    /\ stopped' = IF stopped = "panic" THEN "stop" ELSE stopped
    /\ state' = IF state = "TX_LOCKED" THEN "IDLE" ELSE state
    /\ UNCHANGED <<qso, grace, modes, cqVars, output, settings, rufe>>

(* on_user_reply_to and on_user_tail_end start the same way.               *)
UserReplyTo ==
    /\ Command("reply_to", "user")
    /\ \E c \in Calls :
         \/ GuardsPass /\ Call(c, {})
         \/ ~hw /\ Lock(qso, {})
    /\ rufe' = IF hw THEN 0 ELSE rufe
    /\ stopped' = IF hw THEN "no" ELSE stopped
    /\ UNCHANGED <<grace, modes, cqVars, memory, hw, parity, owed, on_air>>

SetAutoAnswer ==
    /\ Command("auto_answer", "any")
    /\ auto_answer' = ~auto_answer
    /\ stopped' = IF auto_answer THEN stopped ELSE "no"
    /\ \/ /\ auto_answer /\ cq_fallback_active /\ state = "CQ_CALLING"
          /\ cq_fallback_active' = FALSE
          /\ idle_slots' = 0
          /\ cq_count' = 0
          /\ state' = "IDLE"
          /\ Emit(<<StopTx>>, {})
          /\ UNCHANGED cq_fallback_paused
       \/ /\ ~(auto_answer /\ cq_fallback_active /\ state = "CQ_CALLING")
          /\ UNCHANGED <<state, cqVars, output>>
    /\ UNCHANGED <<qso, grace, auto_cq, drain_for_update, last_lock_reason,
                   settings, rufe>>

SetDrainForUpdate ==
    /\ Command("drain", IF drain_for_update THEN "any" ELSE "user")
    /\ drain_for_update' = ~drain_for_update
    /\ UNCHANGED <<state, qso, grace, auto_cq, auto_answer, cqVars, output,
                   last_lock_reason, settings, rufe, stopped>>

-----------------------------------------------------------------------------
(* Time and hardware.                                                      *)

internal == <<state, qso, grace, modes, idle_slots, cq_count, cq_fallback_active,
              last_lock_reason, output, parity, turn, owed, on_air, history>>

HardwareChanges ==
    /\ "hardware" \in Events
    /\ turn = "any"
    /\ hw' = ~hw
    /\ UNCHANGED <<internal, memory, cq_fallback_paused>>

CooldownEnds ==
    /\ "cooldown" \in Events
    /\ turn = "any"
    /\ \E c \in recent_until : recent_until' = recent_until \ {c}
    /\ UNCHANGED <<internal, recent_qso_ctx, resume_zaehler, recent_logged, hw,
                   cq_fallback_paused>>

(* Within RECENT_QSO_TTL_S; the entry is dropped at the next scan.         *)
ContextExpires ==
    /\ "time" \in Events
    /\ turn = "any"
    /\ \E c \in Live : recent_qso_ctx' = [recent_qso_ctx EXCEPT ![c] = "expired"]
    /\ UNCHANGED <<internal, recent_until, resume_zaehler, recent_logged, hw,
                   cq_fallback_paused>>

(* Within RR73_NACHKLANG_S.                                                *)
LoggedExpires ==
    /\ "time" \in Events
    /\ turn = "any"
    /\ \E c \in Partners :
         /\ recent_logged[c] # None
         /\ recent_logged' = [recent_logged EXCEPT ![c] = None]
    /\ UNCHANGED <<internal, recent_until, recent_qso_ctx, resume_zaehler, hw,
                   cq_fallback_paused>>

PauseEnds ==
    /\ "cooldown" \in Events
    /\ turn = "any" /\ cq_fallback_paused
    /\ cq_fallback_paused' = FALSE
    /\ UNCHANGED <<internal, memory, hw>>

-----------------------------------------------------------------------------
Next ==
    \/ \E kind \in BatchKinds : \E batch \in Batches[HeardSlot(kind)] : OnDecodes(batch, kind)
    \/ OnSlotTick
    \/ DrainActions
    \/ TxSent \/ TxDropped \/ TxLate \/ SwrRunaway
    \/ UserStartCq \/ UserStop \/ UserPanic \/ UserSkipQso \/ SwitchOperator
    \/ UserResetLock \/ UserReplyTo \/ SetAutoAnswer \/ SetDrainForUpdate
    \/ HardwareChanges \/ CooldownEnds \/ ContextExpires \/ LoggedExpires
    \/ PauseEnds

Spec == Init /\ [][Next]_vars

(* The slot clock ticks whatever users do, a round once begun is finished, *)
(* and a burst is settled; not every call meets another burst of ours.     *)
Fairness ==
    /\ SF_vars(\E batch \in Batches[parity] : OnDecodes(batch, "slot"))
    /\ WF_vars(OnSlotTick)
    /\ WF_vars(DrainActions)
    /\ WF_vars(TxSent \/ TxDropped \/ TxLate)
    /\ SF_vars(TxSent)

FairSpec == Spec /\ Fairness

-----------------------------------------------------------------------------
(* Properties.                                                             *)

(* Every counter stays within its cap: resends, stale slots, RR73s sent    *)
(* again, QSOs taken up again.                                             *)
TypeOK ==
    /\ state \in States
    /\ qso \in QsoContext \cup {None}
    /\ grace \in Partners \cup {None}
    /\ auto_cq \in BOOLEAN /\ auto_answer \in BOOLEAN /\ drain_for_update \in BOOLEAN
    /\ cq_fallback_active \in BOOLEAN /\ cq_fallback_paused \in BOOLEAN
    /\ idle_slots \in 0..hunt_cq_fallback_after_slots
    /\ cq_count \in 0..hunt_cq_fallback_max_cqs
    /\ recent_until \subseteq Partners
    /\ recent_qso_ctx \in [Partners -> {"none", "live", "expired"}]
    /\ resume_zaehler \in [Partners -> 0..RESUME_MAX]
    /\ recent_logged \in [Partners -> 0..RR73_NACHKLANG_MAX \cup {None}]
    /\ last_lock_reason \in BOOLEAN
    /\ pending \in Seq(Action)
    /\ hw \in BOOLEAN
    /\ parity \in Parities
    /\ turn \in {"any", "tick", "slot", "pre", "second", "late", "user"}
    /\ owed \in {"none", "slot", "other"}
    /\ on_air \in BOOLEAN
    /\ heard \subseteq Partners /\ heard_now \subseteq Partners
    /\ rufe \in 0..MaxCalls
    /\ stopped \in {"no", "stop", "panic"}

(* The state and the QSO it is about agree: the handlers of a QSO state    *)
(* find a QSO, a grace window has a partner and no QSO, and a QSO waiting  *)
(* for the closing has sent its report.                                    *)
ContextMatchesState ==
    /\ state \in {"QSO_RESPOND", "QSO_REPORT"} => qso # None
    /\ state = "QSO_REPORT" => qso.their_snr
    /\ state = "QSO_GRACE" => qso = None /\ grace # None

(* No handler queues a transmission on red guards, not even the RR73 that  *)
(* closes a QSO or the CQ after it; and a lock is queued only when set.    *)
TransmissionsAreGuarded ==
    /\ OfKind(pending, "TX_MESSAGE") # {} => hw
    /\ OfKind(pending, "TX_LOCKED") # {} => ~hw /\ state = "TX_LOCKED"

(* A QSO is logged only if its station has addressed us since its last log *)
(* entry, whatever was read into a hashed closing (_emit_log_qso).         *)
LoggedWereHeard == LoggedIn(pending) \subseteq heard

(* A QSO for which something is sent in a slot is not given up in it: what *)
(* is queued for a partner, other than the farewell, belongs to the QSO.   *)
CallsBelongToTheQso ==
    \A c \in CalledIn(pending) : qso # None /\ qso.their_call = c

(* A QSO that the station begins by itself, in IDLE or while it calls CQ.  *)
QsoBegins ==
    /\ state \in {"IDLE", "CQ_CALLING"} /\ turn = "any" /\ turn' # "user"
    /\ state' \in {"QSO_RESPOND", "QSO_REPORT"}

(* A call of ours starts with a grid, an answer with the report.           *)
AnswersOurCq == state = "CQ_CALLING" /\ qso'.their_snr

(* A station in its cooldown is called by nobody but the operator: not by  *)
(* the hunter, as a caller of CQ or a tail end, in IDLE or out of the CQ   *)
(* fallback.  In IDLE it is not answered either (on_decodes, PRIO 1).      *)
(* Excepted are an unfinished QSO that is taken up again and an answer to  *)
(* our CQ, for which CQ_CALLING asks no cooldown.                          *)
CooldownIsKept ==
    [][QsoBegins => \/ qso'.their_call \notin recent_until
                    \/ recent_qso_ctx[qso'.their_call] = "live"
                    \/ AnswersOurCq]_vars

(* After a stop the station stays off, whatever is heard, ticks or locks,  *)
(* until the operator starts something: stop ends every mode that would    *)
(* bring a QSO or a CQ back (on_user_stop).  All it may still send is an   *)
(* RR73 to a partner of a logged QSO who repeats his R-report, a few times *)
(* at most (_antworte_auf_spaeten_r_report asks for no mode).              *)
StoppedStaysOff ==
    stopped # "no" =>
        /\ state \in {"IDLE", "TX_LOCKED"}
        /\ \A x \in OfKind(pending, "TX_MESSAGE") :
               x.kind = "rr73" /\ recent_logged[x.call] \in 1..RR73_NACHKLANG_MAX

(* Once idle while an update waits, the station starts nothing by itself.  *)
DrainedStaysIdle ==
    [][(state = "IDLE" /\ drain_for_update /\ turn' # "user")
       => state' \in {"IDLE", "TX_LOCKED"}]_vars

(* No QSO lasts for ever: its partner answers, or it is given up.          *)
QsoEnds ==
    state \in {"QSO_RESPOND", "QSO_REPORT", "QSO_GRACE"}
        ~> state \in {"IDLE", "CQ_CALLING", "TX_LOCKED"}

(* An announced update finds the station without a QSO and not calling CQ. *)
DrainCompletes ==
    drain_for_update ~> (~drain_for_update \/ state \in {"IDLE", "TX_LOCKED"})
=============================================================================
