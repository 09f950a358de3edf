------------------------------ MODULE TxEngine ------------------------------
(***************************************************************************)
(* How the orchestrator puts the transmissions of the QSO state machine on *)
(* the air: _do_tx_message with everything that may happen between its     *)
(* awaits (runtime/orchestrator.py).                                       *)
(*                                                                         *)
(* Several asyncio tasks drain actions of the state machine, each one      *)
(* after another: the slot loop, the loop that decodes before the slot     *)
(* boundary, the ingests of the later decoder stages, the requests of the  *)
(* operator.  A step of the model is what a task does between two awaits.  *)
(* They share a flag for the running burst, one postponed reply, and a rig *)
(* that serves one request at a time and need not answer.                  *)
(*                                                                         *)
(* The slot is divided into the start, in which a burst is still in time   *)
(* (tx_latency_max_s), the middle, and the end, from which the boundary is *)
(* waited for (max_warten).  The state machine is reduced to what the      *)
(* engine reads of it, sm, and may decide whatever its handlers may.       *)
(* Left out: audio, frequency statistics and what a late start tells the   *)
(* decoder (_consecutive_late_tx).                                         *)
(***************************************************************************)
EXTENDS Naturals, Sequences, FiniteSets

CONSTANTS
    None,
    Partners,                     \* stations a QSO may be with
    Lates,                        \* later decoder stages: second, jt9
    Users,                        \* requests of the operator
    Plans,                        \* what a handler may leave to be carried out
    Events,                       \* what else may happen
    MaxDrains                     \* bound: tasks draining actions at once

VARIABLES
    phase,                        \* part of the slot
    sm,                           \* state of the machine, and its QSO (their_call)
    pc,                           \* where each task is
    plan,                         \* actions a task has still to begin
    tx_burst_active, in_late_ingest,
    aufgeschoben,                 \* the reply put off last, or None
    sent,                         \* _sent_message_at falls into this slot
    queue,                        \* requests at the lock of the rig client
    ptt,                          \* what the rig really does
    ptt_on_since,                 \* timer of the PTT watchdog
    boot_ptt_checked,
    ueberholt,                    \* history: the reply put off is overruled
    unheard                       \* history: a PTT-off was lost on the rig

Kinds == {"first", "report", "closing"}
Aufschiebbar == {"report", "closing"}
Tasks == {"slot", "pre", "deferred"} \cup Lates \cup Users
Others == {"boot", "poll", "watchdog", "swr"}
Phases == {"start", "middle", "end"}
Places == {"idle", "decode", "busy", "wait", "keying", "playing", "unkeying", "forcing", "off"}
InBurst == {"keying", "playing", "unkeying"}

\* A QSO outlives the lock: _check_guards changes the state only.
Stations == [state : {"stopped", "idle", "locked"}, qso : Partners \cup {None}]
            \cup [state : {"qso"}, qso : Partners]
NoQso(state) == [state |-> state, qso |-> None]

Request == [by : Tasks \cup Others, on : BOOLEAN]
Deferred == [kind : {"report"}, partner : Partners, due : 0..2]
            \cup [kind : {"closing"}, partner : {None}, due : 0..2]

ASSUME EngineAssumption ==
    /\ Lates \cap ({"slot", "pre", "deferred"} \cup Users \cup Others) = {}
    /\ Users \cap ({"slot", "pre", "deferred"} \cup Others) = {}
    /\ Plans \subseteq Seq({"off"} \cup Kinds)
    /\ Events \subseteq {"crash", "lost", "unanswered", "swr", "polls"}
    /\ MaxDrains \in Nat
    /\ None \notin Deferred

rig     == <<queue, ptt, unheard>>
tasks   == <<pc, plan>>
flags   == <<tx_burst_active, in_late_ingest>>
reply   == <<aufgeschoben, ueberholt>>
polling == <<ptt_on_since, boot_ptt_checked>>
vars    == <<phase, sm, tasks, flags, reply, sent, rig, polling>>

-----------------------------------------------------------------------------
(* A process starts: nothing runs, the rig may still be keyed by one that  *)
(* died, and the PTT is switched off if the rig can be reached.            *)

BootOff == <<[by |-> "boot", on |-> FALSE]>>

Init ==
    /\ phase = "start"
    /\ sm \in {NoQso("stopped"), NoQso("idle")}
    /\ pc = [t \in Tasks |-> "idle"]
    /\ plan = [t \in Tasks |-> <<>>]
    /\ tx_burst_active = FALSE /\ in_late_ingest = FALSE
    /\ aufgeschoben = None
    /\ sent = FALSE
    /\ ptt \in BOOLEAN
    /\ queue \in {<<>>, BootOff}
    /\ ptt_on_since = "off"
    /\ boot_ptt_checked = FALSE
    /\ ueberholt = FALSE
    /\ unheard = (ptt /\ queue = <<>>)

(* The process dies at any moment and is started again; a request under    *)
(* way is carried out or not.  Bound: not before the first look at the rig.*)
Crash ==
    /\ "crash" \in Events
    /\ boot_ptt_checked
    /\ sm' \in {NoQso("stopped"), NoQso("idle")}
    /\ pc' = [t \in Tasks |-> "idle"]
    /\ plan' = [t \in Tasks |-> <<>>]
    /\ tx_burst_active' = FALSE /\ in_late_ingest' = FALSE
    /\ aufgeschoben' = None
    /\ sent' = FALSE
    /\ ptt' \in {ptt} \cup {queue[i].on : i \in DOMAIN queue \cap {1}}
    /\ queue' \in {<<>>, BootOff}
    /\ ptt_on_since' = "off"
    /\ boot_ptt_checked' = FALSE
    /\ ueberholt' = FALSE
    /\ unheard' = (ptt' /\ queue' = <<>>)
    /\ UNCHANGED phase

Asked(by) == \E i \in DOMAIN queue : queue[i].by = by
Booted == ~Asked("boot")

(* Before the first look at the rig its guard locks the machine.           *)
Running == Booted /\ boot_ptt_checked

-----------------------------------------------------------------------------
(* What the tasks are given to carry out.                                  *)

Elements(p) == {p[i] : i \in DOMAIN p}

(* What the handlers of the state machine may decide in state s, all that  *)
(* is queued until the next drain: a burst may follow the STOP_TX of the   *)
(* QSO given up before it, a CQ the RR73 and the LOG_QSO of the one        *)
(* completed.  LOG_QSO is the time a task takes to begin what is next.     *)
(* A repeated RR73 is sent in any state.                                   *)
Decisions(s) ==
    IF s.state \in {"stopped", "locked"}
    THEN {s} \X {p \in Plans : Elements(p) \subseteq {"closing"}}
    ELSE LET left == IF s.state = "qso" THEN None ELSE s.qso IN
         {d \in Stations \X Plans :
              /\ d[1].state # "locked"
              /\ d[1].state # "qso" => d[1].qso \in {None, left}
              /\ "first" \in Elements(d[2]) => d[1].state # "stopped"
              /\ "report" \in Elements(d[2]) => d[1].state = "qso"}
         \cup {[state |-> "locked", qso |-> q] : q \in {None, s.qso}}
              \X {p \in {<<"off">>} \cup Plans : Elements(p) = {"off"}}

Draining == {t \in Tasks \ {"deferred"} : pc[t] \notin {"idle", "decode"}}

Decide(t, s) ==
    /\ Cardinality(Draining) < MaxDrains
    /\ \E d \in Decisions(s) :
         /\ sm' = d[1]
         /\ plan' = [plan EXCEPT ![t] = d[2]]
         /\ pc' = [pc EXCEPT ![t] = IF d[2] = <<>> THEN "idle" ELSE "busy"]

(* _on_slot once stage one has decoded.                                    *)
SlotDecides ==
    /\ pc["slot"] = "decode"
    /\ Decide("slot", sm)
    /\ UNCHANGED <<phase, flags, reply, sent, rig, polling>>

(* _vorab_decode_loop once it has decoded.                                 *)
PreDecides ==
    /\ pc["pre"] = "decode"
    /\ Decide("pre", sm)
    /\ UNCHANGED <<phase, flags, reply, sent, rig, polling>>

(* _ingest_late_decodes: the flag is set, and cleared at once if there is  *)
(* nothing to drain.                                                       *)
LateDecides(t) ==
    /\ Running
    /\ pc[t] = "idle"
    /\ Decide(t, sm)
    /\ in_late_ingest' = (plan'[t] # <<>>)
    /\ UNCHANGED <<phase, tx_burst_active, reply, sent, rig, polling>>

(* handle_start_cq, handle_auto_answer, handle_reply_to and the like.      *)
UserStarts(t) ==
    /\ Running
    /\ pc[t] = "idle"
    /\ Decide(t, IF sm.state = "qso" THEN sm ELSE [sm EXCEPT !.state = "idle"])
    /\ UNCHANGED <<phase, flags, reply, sent, rig, polling>>

UserResetsLock ==
    /\ sm.state = "locked"
    /\ sm' \in {[sm EXCEPT !.state = s] : s \in {"stopped", "idle"}}
    /\ UNCHANGED <<phase, tasks, flags, reply, sent, rig, polling>>

(* A reply is put off that the present step overtakes.                     *)
Overtaken == ueberholt \/ aufgeschoben # None

Requests(t, states, acts) ==
    /\ Running
    /\ pc[t] = "idle"
    /\ Cardinality(Draining) < MaxDrains
    /\ sm' \in {NoQso(s) : s \in states}
    /\ plan' \in {[plan EXCEPT ![t] = p] : p \in acts}
    /\ pc' = [pc EXCEPT ![t] = "busy"]
    /\ UNCHANGED <<phase, flags, sent, rig, polling>>

(* handle_stop, and handle_panic, which asks for PTT-off twice.            *)
StopKeepsReply(t) ==                                  \* mutant
    /\ Requests(t, {"stopped"}, {<<"off">>, <<"off", "off">>})
    /\ aufgeschoben' = aufgeschoben
    /\ ueberholt' = Overtaken
UserStops(t) ==
    /\ Requests(t, {"stopped"}, {<<"off">>, <<"off", "off">>})
    /\ aufgeschoben' = None
    /\ ueberholt' = Overtaken

(* handle_skip_qso drops the QSO; a reply put off for it stays.            *)
UserSkipsQso(t) ==
    /\ Requests(t, {"stopped", "idle"}, {<<"off", "off">>})
    /\ UNCHANGED reply

-----------------------------------------------------------------------------
(* Carrying out a plan.                                                    *)

AskFirst(by, on) == <<[by |-> by, on |-> on]>> \o queue  \* mutant
Ask(by, on) == Append(queue, [by |-> by, on |-> on])

(* Task t has carried out an action and rest is left; at the end of its    *)
(* drain a late ingest clears the flag, whoever else is in one.            *)
Finish(t, rest) ==
    /\ plan' = [plan EXCEPT ![t] = rest]
    /\ pc' = [pc EXCEPT ![t] = IF rest = <<>> THEN "idle" ELSE "busy"]
    /\ in_late_ingest' = (in_late_ingest /\ (t \notin Lates \/ rest # <<>>))

Await(t, place, rest) ==
    /\ plan' = [plan EXCEPT ![t] = rest]
    /\ pc' = [pc EXCEPT ![t] = place]
    /\ UNCHANGED in_late_ingest

(* _do_stop_tx, and the second request of panic and skip.                  *)
StopTx(t) ==
    /\ pc[t] = "busy" /\ Head(plan[t]) = "off"
    /\ Await(t, "off", Tail(plan[t]))
    /\ queue' = Ask(t, FALSE)
    /\ UNCHANGED <<phase, sm, tx_burst_active, reply, sent, ptt, unheard, polling>>

(* _do_tx_message meets the decision to send up to three times: at the     *)
(* entry, after the wait for the boundary, and when the rig answers.       *)

(* _schiebe_tx_auf: only a reply, and only once, to be sent after two      *)
(* boundaries.  A report for no QSO will never be wanted.                  *)
PutOff(t, kind, current, overruled) ==
    IF kind \in Aufschiebbar /\ t # "deferred"
    THEN /\ aufgeschoben' = IF kind = "closing" THEN [kind |-> kind, partner |-> None, due |-> 2]
                            ELSE IF sm.qso # None THEN [kind |-> kind, partner |-> sm.qso, due |-> 2]
                            ELSE None
         /\ ueberholt' = FALSE
    ELSE /\ aufgeschoben' = current
         /\ ueberholt' = overruled

(* _record_tx_start_offset: only what the slot loop is thought to have     *)
(* decided may start in the middle of a slot.                              *)
InTime == phase = "start" \/ (pc["slot"] # "idle" /\ ~in_late_ingest)

FlagUnasked(t, p, current, overruled) ==              \* mutant
    /\ InTime
    /\ aufgeschoben' = current /\ ueberholt' = overruled
    /\ sent' = TRUE
    /\ tx_burst_active' = TRUE
    /\ queue' = Ask(t, TRUE)
    /\ Await(t, "keying", Tail(p))
Attempt(t, p, current, overruled) ==
    \/ /\ tx_burst_active \/ ~InTime
       /\ PutOff(t, Head(p), current, overruled)
       /\ Finish(t, Tail(p))
       /\ UNCHANGED <<tx_burst_active, sent, queue>>
    \/ /\ ~tx_burst_active /\ InTime
       /\ aufgeschoben' = current /\ ueberholt' = overruled
       /\ sent' = TRUE
       /\ \/ /\ Finish(t, Tail(p))                    \* the synthesis fails
             /\ UNCHANGED <<tx_burst_active, queue>>
          \/ /\ tx_burst_active' = TRUE
             /\ queue' = Ask(t, TRUE)
             /\ Await(t, "keying", Tail(p))

(* _tx_aufgeschoben_nr is raised: a reply put off before has another number*)
(* and will not be sent when its task wakes; the model forgets it at once. *)
Transmit(t) ==
    /\ pc[t] = "busy" /\ Head(plan[t]) \in Kinds
    /\ \/ /\ phase = "end"
          /\ Await(t, "wait", plan[t])
          /\ aufgeschoben' = None
          /\ ueberholt' = Overtaken
          /\ UNCHANGED <<tx_burst_active, sent, queue>>
       \/ /\ phase # "end"
          /\ Attempt(t, plan[t], None, Overtaken)
    /\ UNCHANGED <<phase, sm, ptt, unheard, polling>>

BoundaryReached(t) ==
    /\ pc[t] = "wait" /\ phase # "end"
    /\ Attempt(t, plan[t], aufgeschoben, ueberholt)
    /\ UNCHANGED <<phase, sm, ptt, unheard, polling>>

(* _sende_aufgeschoben at its boundary.                                    *)
Due == aufgeschoben # None /\ aufgeschoben.due = 0

StillWanted ==
    /\ sm.state \notin {"stopped", "locked"}
    /\ aufgeschoben.kind = "report" => sm.qso = aufgeschoben.partner

SendeAufgeschoben ==
    /\ Due
    /\ \/ /\ ~StillWanted \/ (pc["deferred"] # "idle" /\ tx_burst_active)
          /\ aufgeschoben' = None
          /\ UNCHANGED <<tasks, flags, sent, queue, ueberholt>>
       \/ /\ StillWanted /\ pc["deferred"] = "idle"
          /\ Attempt("deferred", <<aufgeschoben.kind>>, None, ueberholt)
    /\ UNCHANGED <<phase, sm, ptt, unheard, polling>>

(* playback.play has returned or raised.                                   *)
PlayEnds(t) ==
    /\ pc[t] = "playing"
    /\ Await(t, "unkeying", plan[t])
    /\ queue' = Ask(t, FALSE)
    /\ UNCHANGED <<phase, sm, tx_burst_active, reply, sent, ptt, unheard, polling>>

-----------------------------------------------------------------------------
(* RigctldClient.set_ptt: the lock serves the requests in their order; one *)
(* that is not answered in time may have been carried out.                 *)

KeyedForgets(t, ok) ==                                \* mutant
    /\ pc[t] = "keying" /\ Head(queue) = [by |-> t, on |-> TRUE]
    /\ queue' = Tail(queue)
    /\ IF ok THEN Await(t, "playing", plan[t]) ELSE Finish(t, plan[t])
    /\ tx_burst_active' = ok
    /\ UNCHANGED ptt_on_since
(* set_ptt(True) has returned or raised.  After an error the PTT may be on.*)
Keyed(t, ok) ==
    /\ pc[t] = "keying" /\ Head(queue) = [by |-> t, on |-> TRUE]
    /\ \/ /\ ok
          /\ Await(t, "playing", plan[t])
          /\ queue' = Tail(queue)
          /\ UNCHANGED tx_burst_active
       \/ /\ ~ok
          /\ Await(t, "forcing", plan[t])
          /\ tx_burst_active' = FALSE
          /\ queue' = Append(Tail(queue), [by |-> t, on |-> FALSE])
    /\ UNCHANGED ptt_on_since

Unkeyed(t) ==
    /\ pc[t] \in {"unkeying", "forcing", "off"} /\ Head(queue) = [by |-> t, on |-> FALSE]
    /\ tx_burst_active' = (tx_burst_active /\ pc[t] # "unkeying")
    /\ queue' = Tail(queue)
    /\ Finish(t, plan[t])
    /\ UNCHANGED ptt_on_since

OtherOff ==
    /\ Head(queue).by \in Others
    /\ ptt_on_since' = IF Head(queue).by = "watchdog" THEN "off" ELSE ptt_on_since
    /\ queue' = Tail(queue)
    /\ UNCHANGED <<tasks, flags>>

RigAnswers(done, ok) ==
    /\ queue # <<>>
    /\ done \/ "lost" \in Events
    /\ IF done THEN ok \/ "unanswered" \in Events ELSE ~ok
    /\ ptt' = IF done THEN Head(queue).on ELSE ptt
    /\ unheard' = (ptt' /\ (unheard \/ ~Head(queue).on))
    /\ \/ \E t \in Tasks : Keyed(t, ok) \/ Unkeyed(t)
       \/ OtherOff
    /\ UNCHANGED <<phase, sm, reply, sent, boot_ptt_checked>>

-----------------------------------------------------------------------------
(* The loop that polls the rig, and the clock.                             *)

Polling == Booted /\ ~Asked("poll") /\ ~Asked("watchdog")

(* The first look may find a PTT this process has never switched on; the   *)
(* timer of the watchdog runs while the PTT is seen to be on.  A reading   *)
(* that fails changes nothing.                                             *)
PollTakesUnknownForOff ==                             \* mutant
    /\ Polling
    /\ boot_ptt_checked' = TRUE
    /\ ptt_on_since' \in {"off", IF ptt_on_since = "off" /\ ptt THEN "new" ELSE ptt_on_since}
    /\ queue' = IF ~boot_ptt_checked /\ ptt THEN Ask("poll", FALSE) ELSE queue
    /\ UNCHANGED <<phase, sm, tasks, flags, reply, sent, ptt, unheard>>
Poll ==
    /\ Polling
    /\ boot_ptt_checked' = TRUE
    /\ ptt_on_since' = IF ~ptt \/ "polls" \notin Events THEN "off" ELSE IF ptt_on_since = "off" THEN "new" ELSE ptt_on_since
    /\ queue' = IF ~boot_ptt_checked /\ ptt THEN Ask("poll", FALSE) ELSE queue
    /\ UNCHANGED <<phase, sm, tasks, flags, reply, sent, ptt, unheard>>

(* max_ptt_s + 2 s are longer than a slot.                                 *)
WatchdogFires ==
    /\ Polling
    /\ ptt /\ ptt_on_since = "old"
    /\ queue' = Ask("watchdog", FALSE)
    /\ UNCHANGED <<phase, sm, tasks, flags, reply, sent, ptt, unheard, polling>>

(* _check_swr_warn: cuts only a burst of our own.                          *)
SwrRunaway ==
    /\ Polling
    /\ "swr" \in Events
    /\ tx_burst_active /\ ptt /\ ~Asked("swr")
    /\ sm' = [sm EXCEPT !.state = "locked"]
    /\ queue' = Ask("swr", FALSE)
    /\ UNCHANGED <<phase, tasks, flags, reply, sent, ptt, unheard, polling>>

(* _vorab_decode_loop: not while the slot loop is at work, nor in a slot   *)
(* with a burst of our own.                                                *)
PreDecodes ==
    /\ Running /\ pc["pre"] = "idle"
    /\ pc["slot"] = "idle" /\ ~sent
    /\ pc' = [pc EXCEPT !["pre"] = "decode"]

PhasePasses ==
    /\ ~Due /\ \A t \in Tasks : pc[t] # "wait"
    /\ \/ phase = "start" /\ phase' = "middle" /\ UNCHANGED pc
       \/ /\ phase = "middle" /\ phase' = "end"
          /\ \/ PreDecodes \/ UNCHANGED pc
    /\ UNCHANGED <<sm, plan, flags, reply, sent, rig, polling>>

(* The slot clock ticks for a loop that is waiting for it.                 *)
SlotBoundary ==
    /\ phase = "end" /\ phase' = "start"
    /\ pc' = IF Running /\ pc["slot"] = "idle" THEN [pc EXCEPT !["slot"] = "decode"] ELSE pc
    /\ sent' = FALSE
    /\ ptt_on_since' = IF ptt_on_since = "new" THEN "old" ELSE ptt_on_since
    /\ aufgeschoben' = IF aufgeschoben = None THEN None ELSE [aufgeschoben EXCEPT !.due = @ - 1]
    /\ UNCHANGED <<sm, plan, flags, ueberholt, rig, boot_ptt_checked>>

Next ==
    \/ Crash
    \/ SlotDecides \/ PreDecides
    \/ \E t \in Lates : LateDecides(t)
    \/ \E t \in Users : UserStarts(t) \/ UserStops(t) \/ UserSkipsQso(t)
    \/ UserResetsLock
    \/ \E t \in Tasks : StopTx(t) \/ Transmit(t) \/ BoundaryReached(t) \/ PlayEnds(t)
    \/ SendeAufgeschoben
    \/ \E done, ok \in BOOLEAN : RigAnswers(done, ok)
    \/ Poll \/ WatchdogFires \/ SwrRunaway
    \/ PhasePasses \/ SlotBoundary

Spec == Init /\ [][Next]_vars

PttGoesOff == queue # <<>> /\ ~Head(queue).on /\ RigAnswers(TRUE, TRUE)

(* Every task goes on when what it awaits is there; the client gives up on *)
(* a request after its timeout; a PTT-off asked for again and again is     *)
(* carried out in the end; the clock and the poll loop run.                *)
Fairness ==
    /\ WF_vars(\E done, ok \in BOOLEAN : RigAnswers(done, ok))
    /\ SF_vars(PttGoesOff)
    /\ WF_vars(SendeAufgeschoben)
    /\ \A t \in Tasks :
          WF_vars(StopTx(t) \/ Transmit(t) \/ BoundaryReached(t) \/ PlayEnds(t))
    /\ WF_vars(Poll) /\ WF_vars(WatchdogFires)
    /\ WF_vars(PhasePasses \/ SlotBoundary)

FairSpec == Spec /\ Fairness

-----------------------------------------------------------------------------
(* Properties.                                                             *)

(* Requests, plans and places are what they should be; a plan waits only   *)
(* where an action can still begin.                                        *)
TypeOK ==
    /\ phase \in Phases
    /\ sm \in Stations
    /\ pc \in [Tasks -> Places]
    /\ plan \in [Tasks -> Seq({"off"} \cup Kinds)]
    /\ \A t \in Tasks : pc[t] \in {"busy", "wait"} => plan[t] # <<>>
    /\ tx_burst_active \in BOOLEAN /\ in_late_ingest \in BOOLEAN
    /\ aufgeschoben \in Deferred \cup {None}
    /\ sent \in BOOLEAN
    /\ queue \in Seq(Request)
    /\ ptt \in BOOLEAN /\ unheard \in BOOLEAN
    /\ ptt_on_since \in {"off", "new", "old"}
    /\ boot_ptt_checked \in BOOLEAN
    /\ ueberholt \in BOOLEAN

(* Never two bursts at once, and the flag is set exactly while one is.     *)
OneBurst ==
    /\ \A t, u \in Tasks : pc[t] \in InBurst /\ pc[u] \in InBurst => t = u
    /\ tx_burst_active <=> \E t \in Tasks : pc[t] \in InBurst

(* A keyed rig has somebody who will switch it off: the burst, or a        *)
(* request for PTT-off on its way; but for a rig that did not hear it.     *)
PttIsAccountedFor ==
    ptt => tx_burst_active \/ unheard \/ \E i \in DOMAIN queue : ~queue[i].on

(* A reply put off goes out only if nothing was decided and the station    *)
(* was not stopped since (_tx_aufgeschoben_nr).                            *)
DeferredIsCurrent ==
    [][pc["deferred"] # "keying" /\ pc'["deferred"] = "keying" => ~ueberholt]_vars

(* A burst is cut by a stop, a lock or a watchdog only, never by the       *)
(* PTT-off with which another task ends or aborts its own (set_ptt of the  *)
(* rig client, and the order of flag and request in _do_tx_message).       *)
BurstsAreCutOnPurpose ==
    [][(ptt /\ ~ptt' /\ \E t \in Tasks : pc[t] = "playing" /\ pc'[t] = "playing")
       => \A t \in Tasks : Head(queue).by = t => pc[t] = "off"]_vars

(* However the rig fails: no carrier stays on.                             *)
PttComesOff == ptt ~> ~ptt

(* The flag that keeps further bursts off the air is always cleared.       *)
BurstEnds == tx_burst_active ~> ~tx_burst_active
=============================================================================
