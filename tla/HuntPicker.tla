----------------------------- MODULE HuntPicker -----------------------------
(***************************************************************************)
(* Whom the hunter calls.  A slot brings decodes; stations that have just  *)
(* closed a QSO are added as if they called CQ; filters and gates thin the *)
(* callers out, and the best by hunt_priority wins.  In the control arm    *)
(* the gates that ask "is it worth it" only take notes, in the arm "ew" an *)
(* expected value replaces them.  Of a station's figures a decode carries  *)
(* the facts the rules ask for.                                            *)
(***************************************************************************)
EXTENDS Integers, Sequences, FiniteSets

CONSTANTS
    NoTarget,
    Callers,
    Says,                \* the decodes that may be heard
    Blocks,              \* arms and strict mode of a block of time
    hunt_priority,       \* names of tiers, the first decides
    hunt_profile,        \* "balanced", "rate" or "dx"
    hunt_snr_floor_db, hunt_weak_snr_db, SCHWACH_BONUS_DB,
    hunt_sole_min_snr_db, hunt_strict_min_snr_db,
    TAIL_END_EXPIRY,     \* in slots, as all times
    TAIL_END_RECENT_CQ,
    TAIL_END_COOLDOWN

ASSUME PickerAssumption ==
    /\ {TAIL_END_EXPIRY, TAIL_END_RECENT_CQ, TAIL_END_COOLDOWN} \subseteq Nat \ {0}
    /\ hunt_profile \in {"balanced", "rate", "dx"}
    /\ Says \subseteq [call : Callers, kind : {"cq", "r_report", "closing"},
                       snr : Int, facts : SUBSET STRING]

VARIABLES
    target,              \* the QSO: whom we call, and as what it was picked
    blocked,             \* recent_until, worked_until: who is in a cooldown
    block,               \* its arm: rule, control, ew; schwach_arm; sole_dx_arm; strict
    tail_end_candidates, \* per caller: slots left, and the decode of its closing
    recent_cq,           \* tail_end_recent_cq: slots since its last CQ
    pre_staged,          \* pre_staged_tail_ends: slots left
    last_pick,           \* tail_end_last_pick: slots since
    since_tail           \* history: slots since it was called without a CQ of its own

pickerVars == <<target, blocked, block,
                tail_end_candidates, recent_cq, pre_staged, last_pick, since_tail>>

Grown(age, limit) == IF age < limit THEN age + 1 ELSE age
NoClosing == [left |-> 0, closing |-> NoTarget]
ForNobody(value) == [c \in Callers |-> value]

PickerInit ==
    /\ target = NoTarget /\ blocked = {}
    /\ block \in Blocks
    /\ tail_end_candidates = ForNobody(NoClosing)
    /\ recent_cq = ForNobody(TAIL_END_RECENT_CQ) /\ pre_staged = ForNobody(0)
    /\ last_pick = ForNobody(TAIL_END_COOLDOWN) /\ since_tail = ForNobody(TAIL_END_COOLDOWN)

-----------------------------------------------------------------------------
(* Ranking.  A tier is 1 if it has all facts it wants and none it refuses. *)

Wants ==
    [marine_psk |-> {"marine", "psk_heard_us"}, marine |-> {"marine"},
     new_dxcc_psk |-> {"new_dxcc", "psk_heard_us"}, new_dxcc |-> {"new_dxcc"},
     psk_heard_us |-> {"psk_heard_us"}, psk_snr |-> {"psk_strong"},
     new_dxcc_band |-> {"new_dxcc_band"}, new_grid |-> {"new_grid"},
     new_grid_band |-> {"new_grid_band"}, dxcc_rarity |-> {"rare"},
     grayline |-> {"grayline"}, band_open |-> {"band_open"},
     lonely_cq |-> {"lonely_cq"}, tail_end_target |-> {"tail_end"}, buddy_seen |-> {"worked"},
     active_hour |-> {"active_hour"}, not_worked |-> {}, continent_prior |-> {},
     not_bad_reputation |-> {}, not_his_tx_slot |-> {}, not_in_pileup |-> {}]

Refuses(d) ==
    [not_worked |-> {"worked"}, continent_prior |-> {"poor_continent"},
     buddy_seen |-> {"worked_here"}, not_bad_reputation |-> {"soft_blacklist"},
     not_his_tx_slot |-> {"sends_with_us"},
     not_in_pileup |-> IF "new_dxcc" \in d.facts THEN {} ELSE {"pile_up"}]

Tier(name, d) ==
    LET refused == IF name \in DOMAIN Refuses(d) THEN Refuses(d)[name] ELSE {} IN
    IF name = "snr" THEN d.snr
    ELSE IF Wants[name] \subseteq d.facts /\ refused \cap d.facts = {} THEN 1 ELSE 0

\* _compute_tier_score: signal strength breaks ties.
Priority == IF \E i \in DOMAIN hunt_priority : hunt_priority[i] = "snr"
            THEN hunt_priority ELSE Append(hunt_priority, "snr")

Beats(d, e) ==
    \E i \in DOMAIN Priority :
        /\ Tier(Priority[i], d) > Tier(Priority[i], e)
        /\ \A j \in 1 .. i - 1 : Tier(Priority[j], d) = Tier(Priority[j], e)

-----------------------------------------------------------------------------
(* Filters and gates *)

Watched(d) == "watched" \in d.facts
HeardUs(d) == "psk_heard_us" \in d.facts

\* _is_award_or_context_pick.
Award(d) == \E name \in {"new_dxcc", "marine", "new_dxcc_band", "new_grid", "new_grid_band",
                         "buddy_seen", "active_hour", "grayline"} : Tier(name, d) = 1

HighConfidence(d, strictly) ==
    \/ Award(d)
    \/ d.snr >= IF strictly THEN hunt_strict_min_snr_db ELSE hunt_sole_min_snr_db
    \/ "psk_strong" \in d.facts
    \/ HeardUs(d) /\ ~strictly

\* _ist_aussichtsloses_fernziel.
HopelesslyFar(d) ==
    block.sole_dx_arm /\ "far" \in d.facts /\ d.facts \cap {"new_dxcc", "marine", "watched"} = {}

\* _schwach_schwelle.
WeakLimit(d) == IF d.facts \cap {"new_dxcc", "rare"} # {}
                THEN hunt_weak_snr_db - SCHWACH_BONUS_DB ELSE hunt_weak_snr_db

\* _gate: only the arm of the rules lets a gate decide.
Gate(D, kept, a) == IF a = "rule" THEN kept ELSE D

FloorGate(D, a) == Gate(D, {d \in D : d.snr >= hunt_snr_floor_db \/ Watched(d)}, a)

ContinentGate(D, a) ==
    Gate(D, {d \in D : "poor_continent" \notin d.facts \/ Watched(d) \/ HeardUs(d)}, a)

\* Taken back if nobody is left, unless its own A/B test wants it.
WeakGate(D, a) ==
    LET strong == {d \in D : d.snr >= WeakLimit(d) \/ Watched(d) \/ HeardUs(d)} IN
    IF strong = {} /\ ~block.schwach_arm THEN D ELSE Gate(D, strong, a)

\* What is impossible or forbidden, in every arm.
MayCallNow(d) ==
    /\ d.facts \cap {"dt_outside", "edge", "worked_forbidden", "soft_blacklist"} = {}
    /\ "late_find" \in d.facts => Watched(d)
    /\ d.call \notin blocked

CrowdGate(D, a) == Gate(D, {d \in D : "pile_up" \notin d.facts \/ Watched(d)}, a)

SoleGate(D, a) ==
    IF a = "rule" /\ Cardinality(D) = 1
       /\ \E d \in D : ~HighConfidence(d, FALSE) \/ HopelesslyFar(d)
    THEN {} ELSE D

StrictGate(D, a) ==
    IF block.strict THEN Gate(D, {d \in D : HighConfidence(d, TRUE)}, a) ELSE D

ProfileWants(d) ==
    \/ Award(d)
    \/ /\ hunt_profile = "rate"
       /\ d.snr >= -12 \/ (d.snr >= -16 /\ "near" \in d.facts)
    \/ hunt_profile = "dx" /\ "distant" \in d.facts /\ d.snr >= -18

\* _apply_hunt_profile: a preference, given up if it leaves nobody.
Profile(D) ==
    LET kept == {d \in D : ProfileWants(d)} IN
    IF hunt_profile = "balanced" \/ Cardinality(D) <= 1 \/ kept = {} THEN D ELSE kept

-----------------------------------------------------------------------------
(* _pick_hunt_target.  T is the table of tail ends the batch has left.     *)

Awake(T, c) == T[c].left > 0 /\ last_pick[c] >= TAIL_END_COOLDOWN

AsleepOrAwake(T, c) == T[c].left > 0                               \* mutant

\* What the tables of a slot say of its CQ callers is not known of the others.
OfCqOnly == {"new_dxcc", "new_dxcc_band", "new_grid", "new_grid_band", "rare", "grayline",
             "active_hour", "poor_continent", "pile_up", "lonely_cq", "far", "near",
             "distant", "dt_outside", "late_find", "contest", "directed"}

CqIn(batch, c) == \E d \in batch : d.call = c /\ d.kind = "cq"

TailEndsUnrested(batch, T) ==                                      \* mutant
    {[T[c].closing EXCEPT !.kind = "tail", !.facts = @ \ OfCqOnly] :
        c \in {x \in Callers : AsleepOrAwake(T, x) /\ ~CqIn(batch, x)}}

\* _build_synthetic_tail_end_decodes.
TailEnds(batch, T) ==
    {[T[c].closing EXCEPT !.kind = "tail", !.facts = @ \ OfCqOnly] :
        c \in {x \in Callers : Awake(T, x) /\ ~CqIn(batch, x)}}

CallingCq(batch, T) ==
    {[d EXCEPT !.facts = @ \cup {f \in {"tail_end"} : Awake(T, d.call)}] :
        d \in {e \in batch \cup TailEnds(batch, T) :
                 /\ e.kind \in {"cq", "tail"}
                 /\ e.facts \cap {"blacklisted", "contest", "directed"} = {}}}

Survivors(batch, T, a) ==
    LET worth == WeakGate(ContinentGate(FloorGate(CallingCq(batch, T), a), a), a)
        open == CrowdGate({d \in worth : MayCallNow(d)}, a)
        hearing == {d \in open : "sends_with_us" \notin d.facts} IN
    Profile(StrictGate(SoleGate(hearing, a), a))

\* The expected value decides alone; only its side of the threshold is kept.
Winners(batch, T, a) ==
    LET D == Survivors(batch, T, a) IN
    IF a = "ew" THEN {d \in D : "worthwhile" \in d.facts}
    ELSE {d \in D : ~\E e \in D : Beats(e, d)}

-----------------------------------------------------------------------------
(* A batch of decodes: _update_tail_end_state, then the pick if we hunt.   *)

Closed(batch) ==
    {d \in batch : /\ d.kind = "closing"
                   /\ recent_cq[d.call] >= TAIL_END_RECENT_CQ \/ pre_staged[d.call] > 0}

Note(batch) ==
    /\ recent_cq' = [c \in Callers |-> IF CqIn(batch, c) THEN 0 ELSE recent_cq[c]]
    /\ pre_staged' = [c \in Callers |->
         IF \E d \in batch : d.call = c /\ d.kind = "r_report" THEN TAIL_END_EXPIRY
         ELSE pre_staged[c]]
    /\ tail_end_candidates' = [c \in Callers |->
         IF \E d \in Closed(batch) : d.call = c
         THEN [left |-> TAIL_END_EXPIRY, closing |-> CHOOSE d \in Closed(batch) : d.call = c]
         ELSE tail_end_candidates[c]]

Picked(c, kind) ==
    /\ target' = [call |-> c, kind |-> kind]
    /\ since_tail' = IF kind = "cq" THEN since_tail ELSE [since_tail EXCEPT ![c] = 0]

\* A winner among the tail ends rests for a day even if the guards forbid the
\* call; in the arm "ew" the function returns before it comes to that.
HuntRespondToBest(batch) ==
    \E d \in Winners(batch, tail_end_candidates', block.arm), green \in BOOLEAN :
        /\ last_pick' = IF block.arm # "ew" /\ tail_end_candidates'[d.call].left > 0
                        THEN [last_pick EXCEPT ![d.call] = 0] ELSE last_pick
        /\ IF green THEN Picked(d.call, d.kind) ELSE UNCHANGED <<target, since_tail>>

Decodes(batch) ==
    /\ Note(batch)
    /\ IF target = NoTarget /\ Winners(batch, tail_end_candidates', block.arm) # {}
       THEN HuntRespondToBest(batch)
       ELSE UNCHANGED <<target, last_pick, since_tail>>
    /\ UNCHANGED <<blocked, block>>

\* on_user_tail_end: a click overrides both memories and is remembered.
UserTailEnd(c) ==
    /\ \E d \in Says : d.call = c /\ d.kind = "closing"
    /\ Picked(c, "click")
    /\ last_pick' = [last_pick EXCEPT ![c] = 0]
    /\ UNCHANGED <<blocked, block,
                   tail_end_candidates, recent_cq, pre_staged>>

-----------------------------------------------------------------------------
(* The rest of a slot *)

Prune(left) == IF left > 0 THEN left - 1 ELSE 0

\* on_slot_tick: _prune_tail_end_state.
SlotTick ==
    /\ tail_end_candidates' =
         [c \in Callers |-> IF Prune(tail_end_candidates[c].left) = 0 THEN NoClosing
                            ELSE [tail_end_candidates[c] EXCEPT !.left = Prune(@)]]
    /\ pre_staged' = [c \in Callers |-> Prune(pre_staged[c])]
    /\ recent_cq' = [c \in Callers |-> Grown(recent_cq[c], TAIL_END_RECENT_CQ)]
    /\ last_pick' = [c \in Callers |-> Grown(last_pick[c], TAIL_END_COOLDOWN)]
    /\ since_tail' = [c \in Callers |-> Grown(since_tail[c], TAIL_END_COOLDOWN)]
    /\ UNCHANGED <<target, blocked, block>>

\* A QSO ends in a cooldown, unless the operator stops it.
TargetEnds ==
    /\ target # NoTarget
    /\ target' = NoTarget
    /\ blocked' \in {blocked, blocked \cup {target.call}}
    /\ UNCHANGED <<block, tail_end_candidates, recent_cq,
                   pre_staged, last_pick, since_tail>>

CooldownEnds ==
    /\ \E c \in blocked : blocked' = blocked \ {c}
    /\ UNCHANGED <<target, block, tail_end_candidates,
                   recent_cq, pre_staged, last_pick, since_tail>>

\* The arms change with the block of time (_setze_..._arm), strict mode with
\* the outcome of the last calls.
NewBlock ==
    /\ block' \in Blocks
    /\ UNCHANGED <<target, blocked, tail_end_candidates, recent_cq, pre_staged,
                   last_pick, since_tail>>

\* A station sends one message in a slot.
Batches == {batch \in SUBSET Says : \A d, e \in batch : d.call = e.call => d = e}

PickerNext ==
    \/ \E batch \in Batches : Decodes(batch)
    \/ \E c \in Callers : UserTailEnd(c)
    \/ SlotTick \/ TargetEnds \/ CooldownEnds \/ NewBlock

PickerSpec == PickerInit /\ [][PickerNext]_pickerVars

-----------------------------------------------------------------------------
(* Properties *)

\* A station that does not call CQ is called by the hunter once a day at most,
\* and not after the operator did so (_pick_hunt_target: 24 hours per station).
TailEndOncePerDay ==
    [][target = NoTarget /\ target' # NoTarget /\ target'.kind = "tail"
         => since_tail[target'.call] >= TAIL_END_COOLDOWN]_pickerVars

\* The control arm, the yardstick of the gates, has somebody left to call
\* whenever the rules have: no preference turns into a refusal there (_gate,
\* _apply_hunt_profile).
ControlArmCalls ==
    \A batch \in Batches :
        Survivors(batch, tail_end_candidates, "rule") # {}
            => Survivors(batch, tail_end_candidates, "control") # {}
=============================================================================
