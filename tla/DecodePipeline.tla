---------------------------- MODULE DecodePipeline ----------------------------
(* The passes over the audio of a slot and how they share the work: the     *)
(* pass before the boundary (vorab), the one at it (stage 1, the only one   *)
(* the slot loop waits for), stage 2 in the chosen decoder_mode and jt9     *)
(* beside the next slot.  Two questions are asked of them.  Does a message  *)
(* reach the state machine once, whichever passes find it?  And does a CPU  *)
(* that is too slow for the chosen mode get out of it by itself?            *)
(* One slot is followed through all its passes (watch); slots before and    *)
(* after it only take up the tasks.                                         *)
EXTENDS Integers, FiniteSets

CONSTANTS
    Texts,        \* messages that may be on the air in the slot that is followed
    Cpus,         \* [one, two]: how long stage 1 and stage 2 take in each mode
    Configs,      \* what can be saved: [decoder_mode, decoder_late_pass]
    MaxSaves,     \* bound: saves of the configuration in a history
    MaxFaults     \* bound: passes of the decoder that end in an exception

Modes == {"standard", "deep", "multi", "extreme"}
Deeper == Modes \ {"standard"}
Off == "off"

ASSUME CpusAreMeasured ==
    \A cpu \in Cpus : /\ cpu.one \in [Modes -> SUBSET {"prompt", "slow", "late"} \ {{}}]
                      /\ cpu.two \in [Deeper -> SUBSET {"within", "over"} \ {{}}]

VARIABLES
    cpu, texts,          \* fixed in a history
    decoder_mode, two_stage,
    late_overruns,       \* _late_overruns
    slots_late,          \* _consecutive_late_slots, capped at 3
    tx_late,             \* _consecutive_late_tx
    slot_loop,           \* "between" slots, "decoding", "giving" (publish, then on_decodes)
    now,                 \* of the pass at the boundary: [takes, later]
    vorab,               \* of the pass before it: [runs, tried, takes, mine]
    verarbeitet,         \* _vorab_verarbeitet: [mine, texts]
    late, jt9,           \* running tasks; mine: of the slot that is followed
    watch,               \* the slot that is followed
    saves, faults

decodeVars == <<cpu, texts, decoder_mode, two_stage, late_overruns, slots_late, tx_late, slot_loop,
                now, vorab, verarbeitet, late, jt9, watch, saves, faults>>
load == <<decoder_mode, two_stage, late_overruns, slots_late, tx_late>>

(* age -1: the slot that has not ended yet; seen: _slot_seen, given: how    *)
(* often on_decodes got it; overtaken: vorab ended after the pass at the    *)
(* boundary had handed over.                                                *)
Unheard == [age |-> -1, early |-> {}, regular |-> {}, seen |-> {},
            given |-> [m \in Texts |-> 0], overtaken |-> FALSE]
Idle2 == [runs |-> FALSE, mode |-> Off, takes |-> Off, mine |-> FALSE]
IdleJt9 == [runs |-> FALSE, mine |-> FALSE]
NoVorab == [runs |-> FALSE, tried |-> FALSE, takes |-> Off, mine |-> FALSE]
NothingDone == [mine |-> FALSE, texts |-> {}]

DecodeInit ==
    /\ cpu \in Cpus /\ texts \in {{}, Texts}
    /\ \E c \in Configs : decoder_mode = c.decoder_mode /\ two_stage = c.decoder_late_pass
    /\ late_overruns = 0 /\ slots_late = 0 /\ tx_late = 0
    /\ slot_loop = "between" /\ now = [takes |-> Off, later |-> Off]
    /\ vorab = NoVorab /\ verarbeitet = NothingDone
    /\ late = Idle2 /\ jt9 = IdleJt9
    /\ watch = Unheard /\ saves \in 0..MaxSaves /\ faults \in 0..MaxFaults

(* ---------------------------------------------------------------- helpers *)
Stage1 == IF two_stage THEN "standard" ELSE decoder_mode
Stage2 == IF two_stage /\ decoder_mode \in Deeper THEN decoder_mode ELSE Off

(* _downgrade_mode: one mode cheaper.                                       *)
Cheaper == [extreme |-> "multi", multi |-> "deep", deep |-> "standard", standard |-> "standard"]

Hand(w, found) == [w EXCEPT !.given = [m \in Texts |-> @[m] + IF m \in found THEN 1 ELSE 0]]

(* The rule of 80 %: after three slots in a row the mode is standard.       *)
SlotsLate(takes) == IF takes = "late" THEN IF slots_late = 3 THEN 3 ELSE slots_late + 1 ELSE 0
ModeAfter(takes) == IF SlotsLate(takes) = 3 THEN "standard" ELSE decoder_mode

(* Three overruns of stage 2 cost one mode.                                 *)
Overrun(mode) ==
    IF late_overruns + 1 >= 3
    THEN late_overruns' = 0 /\ decoder_mode' = Cheaper[mode]
    ELSE late_overruns' = late_overruns + 1 /\ decoder_mode' = mode

(* ------------------------------------------------ before the boundary     *)
(* _vorab_decode_loop: once per slot, not while the slot loop is at work.   *)
VorabStarts ==
    /\ slot_loop = "between" /\ ~vorab.runs /\ ~vorab.tried
    /\ \E t \in cpu.one[Stage1] :
         vorab' = [runs |-> TRUE, tried |-> TRUE, takes |-> t, mine |-> watch.age = -1]
    /\ UNCHANGED <<cpu, texts, load, slot_loop, now, verarbeitet, late, jt9, watch, saves, faults>>

(* What it found is marked and given to the machine in one go; the mark is  *)
(* set whether or not the pass at the boundary has already handed over.     *)
VorabEnds(found) ==
    /\ vorab.runs /\ vorab' = [vorab EXCEPT !.runs = FALSE]
    /\ slots_late' = SlotsLate(vorab.takes) /\ decoder_mode' = ModeAfter(vorab.takes)
    /\ IF vorab.mine
       THEN /\ watch' = [Hand(watch, found) EXCEPT
                          !.early = found,
                          !.overtaken = watch.age > 0 \/ (watch.age = 0 /\ slot_loop = "between")]
            /\ verarbeitet' = IF found = {} THEN verarbeitet ELSE [mine |-> TRUE, texts |-> found]
       ELSE /\ watch' = watch
            /\ verarbeitet' = IF found = {} THEN verarbeitet ELSE [mine |-> FALSE, texts |-> found]
    /\ UNCHANGED <<cpu, texts, two_stage, late_overruns, tx_late, slot_loop, now, late, jt9, saves,
                   faults>>

VorabFails ==
    /\ vorab.runs /\ faults < MaxFaults /\ faults' = faults + 1
    /\ vorab' = [vorab EXCEPT !.runs = FALSE]
    /\ UNCHANGED <<cpu, texts, load, slot_loop, now, verarbeitet, late, jt9, watch, saves>>

(* ------------------------------------------------ at the boundary         *)
(* The clock ticks; the slot that is followed gets older, or the next one   *)
(* is followed in its place.                                                *)
Boundary ==
    /\ slot_loop = "between" /\ slot_loop' = "decoding"
    /\ \E t \in cpu.one[Stage1] : now' = [takes |-> t, later |-> Stage2]
    /\ late.takes # "within"
    /\ \/ /\ texts # {} /\ watch.age < 3 /\ watch' = [watch EXCEPT !.age = @ + 1]
          /\ vorab' = [vorab EXCEPT !.tried = FALSE] /\ UNCHANGED <<late, jt9, verarbeitet>>
       \/ /\ texts = {} \/ watch.age = 3 \/ (watch = Unheard /\ ~(vorab.runs /\ vorab.mine))
          /\ watch' = Unheard
          /\ late' = [late EXCEPT !.mine = FALSE] /\ jt9' = [jt9 EXCEPT !.mine = FALSE]
          /\ verarbeitet' = [verarbeitet EXCEPT !.mine = FALSE]
          /\ vorab' = [vorab EXCEPT !.tried = FALSE, !.mine = FALSE]
    /\ UNCHANGED <<cpu, texts, load, saves, faults>>

(* _schedule_late_pass: a stage 2 that still runs is an overrun.            *)
Skipped == now.later # Off /\ late.runs
LateScheduled(mine) ==
    IF now.later # Off /\ ~late.runs
    THEN \E t \in cpu.two[now.later] :
            late' = [runs |-> TRUE, mode |-> now.later, takes |-> t, mine |-> mine]
    ELSE late' = late

Jt9Scheduled(mine) == jt9' = IF jt9.runs THEN jt9 ELSE [runs |-> TRUE, mine |-> mine]

(* The end of DecodePipeline._decode at the boundary.                       *)
SlotDecodes(found) ==
    /\ slot_loop = "decoding" /\ slot_loop' = "giving"
    /\ watch' = IF watch.age = 0 THEN [watch EXCEPT !.seen = found, !.regular = found] ELSE watch
    /\ slots_late' = SlotsLate(now.takes)
    /\ IF Skipped THEN Overrun(ModeAfter(now.takes))
       ELSE decoder_mode' = ModeAfter(now.takes) /\ UNCHANGED late_overruns
    /\ LateScheduled(watch.age = 0)
    /\ Jt9Scheduled(watch.age = 0)
    /\ UNCHANGED <<cpu, texts, two_stage, tx_late, now, vorab, verarbeitet, saves, faults>>

SlotDecodeFails ==
    /\ slot_loop = "decoding" /\ slot_loop' = "giving"
    /\ faults < MaxFaults /\ faults' = faults + 1
    /\ UNCHANGED <<cpu, texts, load, now, vorab, verarbeitet, late, jt9, watch, saves>>

(* _vorab_neue_decodes: what the earlier pass has not handed over.          *)
NewHere == IF watch.age = 0 /\ verarbeitet.mine THEN watch.regular \ verarbeitet.texts
           ELSE watch.regular

(* _record_tx_start_offset of a burst of the slot loop: the third late one  *)
(* in a row moves the mode to stage 2, or gives it up.                      *)
LateBurst ==
    IF tx_late < 2 THEN tx_late' = tx_late + 1 /\ UNCHANGED <<decoder_mode, two_stage, slots_late>>
    ELSE /\ tx_late' = 0
         /\ IF decoder_mode = "standard" THEN UNCHANGED <<decoder_mode, two_stage, slots_late>>
            ELSE /\ slots_late' = 0
                 /\ IF two_stage THEN decoder_mode' = "standard" /\ UNCHANGED two_stage
                    ELSE two_stage' = TRUE /\ UNCHANGED decoder_mode

SlotGives ==
    /\ slot_loop = "giving" /\ slot_loop' = "between"
    /\ watch' = IF watch.age = 0 THEN Hand(watch, NewHere) ELSE watch
    /\ verarbeitet' = IF watch.age = 0 /\ verarbeitet.mine THEN NothingDone ELSE verarbeitet
    /\ \/ UNCHANGED <<decoder_mode, two_stage, slots_late, tx_late>>
       \/ now.takes # "prompt" /\ LateBurst
       \/ now.takes = "prompt" /\ tx_late' = 0 /\ UNCHANGED <<decoder_mode, two_stage, slots_late>>
    /\ UNCHANGED <<cpu, texts, late_overruns, now, vorab, late, jt9, saves, faults>>

(* A burst after an operator's click or of another stage, in time.          *)
OtherBurst ==
    /\ tx_late > 0 /\ tx_late' = 0
    /\ UNCHANGED <<cpu, texts, decoder_mode, two_stage, late_overruns, slots_late, slot_loop, now,
                   vorab, verarbeitet, late, jt9, watch, saves, faults>>

(* ------------------------------------------------ beside the next slot    *)
NewLateToRegular(found) == found \ watch.regular                    \* mutant

(* Only what no pass had is new; the table is that of the pass's own slot.  *)
NewLate(found) == found \ (watch.regular \cup watch.seen)
TakeLate(mine, found) ==
    watch' = IF mine THEN [Hand(watch, NewLate(found)) EXCEPT !.seen = @ \cup NewLate(found)]
             ELSE watch

LateEnds(found) ==
    /\ late.runs /\ late' = Idle2
    /\ TakeLate(late.mine, found)
    /\ IF late.takes = "over" THEN Overrun(decoder_mode)
       ELSE late_overruns' = 0 /\ UNCHANGED decoder_mode
    /\ UNCHANGED <<cpu, texts, two_stage, slots_late, tx_late, slot_loop, now, vorab, verarbeitet,
                   jt9, saves, faults>>

LateFails ==
    /\ late.runs /\ faults < MaxFaults /\ faults' = faults + 1
    /\ late' = Idle2
    /\ UNCHANGED <<cpu, texts, load, slot_loop, now, vorab, verarbeitet, jt9, watch, saves>>

(* _run_jt9; its timeout is an end that found nothing.                      *)
Jt9Ends(found) ==
    /\ jt9.runs /\ jt9' = IdleJt9
    /\ TakeLate(jt9.mine, found)
    /\ UNCHANGED <<cpu, texts, load, slot_loop, now, vorab, verarbeitet, late, saves, faults>>

(* on_config_changed: the saved mode is put back, whatever was taken back.  *)
ConfigSaved ==
    /\ saves < MaxSaves /\ saves' = saves + 1
    /\ \E c \in Configs :
         /\ decoder_mode' = c.decoder_mode /\ two_stage' = c.decoder_late_pass
         /\ slots_late' = IF decoder_mode' = decoder_mode THEN slots_late ELSE 0
    /\ UNCHANGED <<cpu, texts, late_overruns, tx_late, slot_loop, now, vorab, verarbeitet, late,
                   jt9, watch, faults>>

DecodeNext ==
    \/ VorabStarts \/ VorabFails \/ Boundary \/ SlotDecodeFails \/ SlotGives \/ OtherBurst
    \/ LateFails \/ ConfigSaved
    \/ \E found \in SUBSET texts :
          VorabEnds(found) \/ SlotDecodes(found) \/ LateEnds(found) \/ Jt9Ends(found)

DecodeSpec == DecodeInit /\ [][DecodeNext]_decodeVars

-----------------------------------------------------------------------------
(* Once the slot loop is done with a slot, the machine has had each message *)
(* it found, and no message twice, however the passes overlapped - except   *)
(* for one that only the pass before the boundary had found until then, and *)
(* a slot whose pass before the boundary ended last.                        *)
HeardOnce ==
    watch.age >= 0 =>
        \A m \in texts :
            /\ watch.given[m] > 1 => m \in watch.early \ watch.regular \/ watch.overtaken
            /\ m \in watch.regular /\ (watch.age > 0 \/ slot_loop = "between") => watch.given[m] > 0

(* A mode the CPU cannot keep up with is given up: from some time on no     *)
(* stage 2 starts that never fits a slot, and no stage 1 that always takes  *)
(* more than 80 % of one.                                                   *)
HopelessStage2Starts == ~late.runs /\ late'.runs /\ cpu.two[late'.mode] = {"over"}
HopelessStage1Starts ==
    slot_loop = "between" /\ slot_loop' = "decoding" /\ cpu.one[Stage1] = {"late"}
OverloadEnds == <>[][~HopelessStage2Starts /\ ~HopelessStage1Starts]_decodeVars
=============================================================================
