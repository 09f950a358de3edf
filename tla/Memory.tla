------------------------------- MODULE Memory -------------------------------
(***************************************************************************)
(* What the hunter remembers of a station across a restart.  Cooldowns,    *)
(* their escalation and unfinished QSOs live in the process; what start()  *)
(* can bring back it reads from the tables qso and pick_attempt, which     *)
(* tasks of their own write after the event.  The process may end at any   *)
(* point between the two.  A QSO the database refuses goes to a file, from *)
(* which it gets to the log at a later start or write; what can happen to  *)
(* the file itself is the subject of QsoLog.                               *)
(***************************************************************************)
EXTENDS Integers, FiniteSets

CONSTANTS
  Names,                      \* callsigns as heard
  BaseCall,                   \* the licensed call of each: base_call
  Idle,                       \* no QSO, no entry
  qso_failed_cooldown,        \* all times are in ticks
  went_silent_factor,
  picked_another_cooldown,    \* capped by qso_failed_cooldown
  repeat_factor,
  qso_failed_cooldown_max,
  watchlist_calls,
  WATCHLIST_COOLDOWN_MIN,
  qso_cooldown,
  RECENT_QSO_TTL,
  AttemptWindow,              \* how far back fehlversuche_je_call looks
  NACHSTEMPEL_FENSTER,        \* how far back a row is corrected
  MemoryEnd, MaxDbFaults      \* bounds of the model: the last tick, failures of the database

ASSUME MemoryAssumption ==
  /\ BaseCall \in [Names -> Names]
  /\ \A n \in Names : BaseCall[BaseCall[n]] = BaseCall[n]
  /\ Idle \notin [call : Names, since : Nat, reports : BOOLEAN]
  /\ picked_another_cooldown <= qso_failed_cooldown
  /\ WATCHLIST_COOLDOWN_MIN \in Nat
  /\ {qso_failed_cooldown, qso_failed_cooldown_max, picked_another_cooldown, qso_cooldown,
      RECENT_QSO_TTL, AttemptWindow} \subseteq Nat
  /\ {went_silent_factor, repeat_factor} \subseteq Nat \ {0} /\ MaxDbFaults \in Nat

VARIABLES
  tick,
  alive,         \* the process runs
  partner,       \* the QSO: its station, when it was called, whether reports went out
  attempt_meta,  \* hunt_attempt_meta: when a station was called, and how
  failures,      \* failed_attempt_counts
  recent_until,
  worked_until,
  recent_qso,    \* recent_qso_ctx: until when an unfinished QSO may be taken up, and its start
  pending,       \* rows tasks are about to write
  attempts,      \* table pick_attempt
  qsos,          \* table qso
  spilled,       \* unlogged_qsos.jsonl
  worked_at,     \* history: when a QSO with a station was last completed
  missed,        \* history: rows the last start could not see
  db_faults      \* rows refused and tables not read so far

memoryVars == <<tick, alive, partner, attempt_meta, failures, recent_until,
                worked_until, recent_qso, pending, attempts, qsos, spilled, worked_at,
                missed, db_faults>>
logVars == <<qsos, spilled, missed, db_faults>>

Never == [n \in Names |-> 0]
NoMeta == [n \in Names |-> Idle]
NoneOpen == [n \in Names |-> [until |-> 0, since |-> 0]]

MemoryInit ==
  /\ tick = 1 /\ alive = TRUE /\ partner = Idle
  /\ attempt_meta = NoMeta /\ failures = Never
  /\ recent_until = Never /\ worked_until = Never /\ recent_qso = NoneOpen
  /\ pending = {} /\ attempts = {} /\ qsos = {} /\ spilled = {}
  /\ worked_at = Never /\ missed = {} /\ db_faults = 0

-----------------------------------------------------------------------------
(* The hunter at work *)

\* The cooldown filter of _pick_hunt_target.
MayCall(n) == recent_until[n] <= tick /\ worked_until[n] <= tick

Call(n) ==
  /\ alive /\ partner = Idle /\ MayCall(n)
  /\ partner' = [call |-> n, since |-> tick, reports |-> FALSE]
  /\ attempt_meta' = [attempt_meta EXCEPT ![BaseCall[n]] = [ts |-> tick, kind |-> "cq"]]
  /\ UNCHANGED <<tick, alive, failures, recent_until, worked_until, recent_qso,
                 pending, attempts, logVars, worked_at>>

\* The partner gives us a report and gets his.
Answered ==
  /\ alive /\ partner # Idle /\ ~partner.reports /\ tick > partner.since
  /\ partner' = [partner EXCEPT !.reports = TRUE]
  /\ UNCHANGED <<tick, alive, attempt_meta, failures, recent_until, worked_until,
                 recent_qso, pending, attempts, logVars, worked_at>>

Reasons == {"went_silent", "picked_another", "max_resends"}

\* _cooldown_fuer_grund.
CooldownFor(reason) ==
  CASE reason = "went_silent"    -> qso_failed_cooldown * went_silent_factor
    [] reason = "picked_another" -> picked_another_cooldown
    [] OTHER                     -> qso_failed_cooldown

\* repeat_factor ** k.
Power[k \in Nat] == IF k = 0 THEN 1 ELSE repeat_factor * Power[k - 1]

Escalated(cooldown, repeats) ==
  LET grown == cooldown * Power[repeats - 1] IN
  IF grown < qso_failed_cooldown_max THEN grown ELSE qso_failed_cooldown_max

\* _cooldown_mit_wunschliste: a quarter, but no less than the minimum.
Shortened(n, cooldown) ==
  LET quarter == cooldown \div 4
      shorter == IF quarter > WATCHLIST_COOLDOWN_MIN THEN quarter ELSE WATCHLIST_COOLDOWN_MIN IN
  IF n \in watchlist_calls /\ shorter < cooldown THEN shorter ELSE cooldown

\* _log_pick_attempt: the meta of a call is used up by the row it becomes.
AttemptRow(n, outcome) ==
  LET key == BaseCall[n] IN
  IF attempt_meta[key] = Idle THEN {}
  ELSE {[table |-> "attempt", call |-> key, ts |-> attempt_meta[key].ts,
         kind |-> attempt_meta[key].kind, outcome |-> outcome,
         reports |-> partner # Idle /\ partner.reports]}

\* _bail_qso_with_cooldown and _do_qso_bail.
Bail(reason) ==
  LET n == partner.call
      key == BaseCall[n]
      repeats == failures[key] + 1 IN
  /\ alive /\ partner # Idle /\ tick > partner.since
  /\ failures' = [failures EXCEPT ![key] = repeats]
  /\ recent_until' = [recent_until EXCEPT
       ![n] = tick + Shortened(n, Escalated(CooldownFor(reason), repeats))]
  /\ recent_qso' = IF partner.reports THEN
       [recent_qso EXCEPT ![n] = [until |-> tick + RECENT_QSO_TTL, since |-> partner.since]]
       ELSE recent_qso
  /\ pending' = pending \cup AttemptRow(n, "bailed")
  /\ attempt_meta' = [attempt_meta EXCEPT ![key] = Idle]
  /\ partner' = Idle
  /\ UNCHANGED <<tick, alive, worked_until, attempts, logVars, worked_at>>

\* _do_log_qso: the cooldown at once, the rows by tasks.
Logs(n, since, rows) ==
  /\ worked_until' = [worked_until EXCEPT ![n] = tick + qso_cooldown]
  /\ pending' = pending \cup rows \cup {[table |-> "qso", call |-> n, ts |-> since]}
  /\ failures' = IF rows = {} THEN failures ELSE [failures EXCEPT ![BaseCall[n]] = 0]
  /\ attempt_meta' = [attempt_meta EXCEPT ![BaseCall[n]] = Idle]
  /\ worked_at' = [worked_at EXCEPT ![BaseCall[n]] = tick]
  /\ partner' = Idle

Complete ==
  /\ alive /\ partner # Idle /\ partner.reports
  /\ Logs(partner.call, partner.since, AttemptRow(partner.call, "completed"))
  /\ UNCHANGED <<tick, alive, recent_until, recent_qso, attempts, logVars>>

\* _try_resume_recent_qso: the closing comes after the bail.  The row it leaves
\* is that of an inbound call.
CloseLate(n) ==
  /\ alive /\ partner = Idle /\ recent_qso[n].until >= tick
  /\ Logs(n, recent_qso[n].since, {[table |-> "attempt", call |-> BaseCall[n], ts |-> tick,
                     kind |-> "inbound_resume", outcome |-> "completed", reports |-> TRUE]})
  /\ recent_qso' = [recent_qso EXCEPT ![n] = NoneOpen[n]]
  /\ UNCHANGED <<tick, alive, recent_until, attempts, logVars>>

Latest(rows) == CHOOSE r \in rows : \A s \in rows : s.ts <= r.ts

\* _stemple_versuch_nach: a success without a row of its own is noted on the last
\* call in vain.  Next to a row of its own it changes nothing.
Corrected(row) ==
  LET near == {a \in attempts : a.call = row.call /\ a.ts >= tick - NACHSTEMPEL_FENSTER} IN
  IF row.outcome # "completed" \/ near = {} \/ \E a \in near : a.outcome = "completed"
  THEN attempts
  ELSE (attempts \ {Latest(near)}) \cup {[Latest(near) EXCEPT !.outcome = "completed"]}

\* Bound: so many failures of the database.
Fails(number) == db_faults + number <= MaxDbFaults /\ db_faults' = db_faults + number

WriteAttempt(row) ==
  /\ alive /\ row \in pending /\ row.table = "attempt"
  /\ pending' = pending \ {row}
  \* The database takes the row, refuses it, or refuses it and takes the correction.
  /\ \/ attempts' = attempts \cup {row} /\ Fails(0)
     \/ attempts' \in {attempts, Corrected(row)} /\ Fails(1)
  /\ UNCHANGED <<tick, alive, partner, attempt_meta, failures, recent_until,
                 worked_until, recent_qso, qsos, spilled, worked_at, missed>>

\* A write that succeeds tries the lines of the file too, each on its own; a row
\* refused is appended to it, if that can be done.  No cooldown is set for a line.
WriteQso(row) ==
  /\ alive /\ row \in pending /\ row.table = "qso"
  /\ pending' = pending \ {row}
  /\ \/ \E late \in SUBSET spilled :
           /\ qsos' = qsos \cup {row} \cup late /\ spilled' = spilled \ late
           /\ Fails(Cardinality(spilled'))
     \/ qsos' = qsos /\ spilled' \in {spilled, spilled \cup {row}} /\ Fails(1)
  /\ UNCHANGED <<tick, alive, partner, attempt_meta, failures, recent_until,
                 worked_until, recent_qso, attempts, worked_at, missed>>

-----------------------------------------------------------------------------
(* Restart *)

End ==
  /\ alive
  /\ alive' = FALSE /\ partner' = Idle /\ pending' = {}
  /\ attempt_meta' = NoMeta /\ failures' = Never
  /\ recent_until' = Never /\ worked_until' = Never /\ recent_qso' = NoneOpen
  /\ UNCHANGED <<tick, attempts, logVars, worked_at>>

\* fehlversuche_je_call: calls of our own since the last that was completed.
Failed(n) ==
  LET own == {a \in attempts : a.call = n /\ a.kind = "cq" /\ a.ts >= tick - AttemptWindow} IN
  {a \in own : \A b \in own : b.outcome = "completed" => b.ts < a.ts}

\* offene_qsos: broken off with a report received.
Open(n) == {a \in attempts : /\ a.call = n /\ a.kind = "cq" /\ a.outcome # "completed"
                             /\ a.reports /\ a.ts + RECENT_QSO_TTL > tick}

FailedUntil(n) ==
  IF Failed(n) = {} THEN 0
  ELSE Latest(Failed(n)).ts + Escalated(qso_failed_cooldown, Cardinality(Failed(n)))

StillAhead(until) == IF until > tick THEN until ELSE 0

NothingWorked(log) == Never                                        \* mutant

\* _restore_qso_cooldowns, _restore_fehlversuche, _restore_offene_qsos.
RestoredWorked(log) ==
  [n \in Names |-> LET own == {q \in log : q.call = n} IN
    IF own = {} THEN 0 ELSE StillAhead(Latest(own).ts + qso_cooldown)]

RestoredUnescalated ==                                             \* mutant
  [n \in Names |-> IF Failed(n) = {} THEN 0
                   ELSE StillAhead(Latest(Failed(n)).ts + picked_another_cooldown)]

RestoredRecent == [n \in Names |-> StillAhead(FailedUntil(n))]

RestoredOpen ==
  [n \in Names |->
    IF Open(n) = {} THEN NoneOpen[n]
    ELSE [until |-> Latest(Open(n)).ts + RECENT_QSO_TTL, since |-> Latest(Open(n)).ts]]

\* First the lines of the file, each on its own; then each of the three is read, or
\* the error is noted and the program goes on without.
Start ==
  /\ ~alive
  /\ alive' = TRUE
  /\ \E late \in SUBSET spilled : qsos' = qsos \cup late /\ spilled' = spilled \ late
  /\ \E unread \in SUBSET {"worked", "failed", "open"} :
       /\ worked_until' = IF "worked" \in unread THEN Never ELSE RestoredWorked(qsos')
       /\ failures' = [n \in Names |-> IF "failed" \in unread THEN 0 ELSE Cardinality(Failed(n))]
       /\ recent_until' = IF "failed" \in unread THEN Never ELSE RestoredRecent
       /\ recent_qso' = IF "open" \in unread THEN NoneOpen ELSE RestoredOpen
       /\ missed' = spilled' \cup (IF "worked" \in unread THEN qsos' ELSE {})
                              \cup (IF "failed" \in unread THEN attempts ELSE {})
       /\ Fails(Cardinality(spilled') + Cardinality(unread))
  /\ UNCHANGED <<tick, partner, attempt_meta, pending, attempts, worked_at>>

Tick ==
  /\ tick < MemoryEnd
  /\ tick' = tick + 1
  /\ UNCHANGED <<alive, partner, attempt_meta, failures, recent_until, worked_until,
                 recent_qso, pending, attempts, logVars, worked_at>>

MemoryNext ==
  \/ \E n \in Names : Call(n) \/ CloseLate(n)
  \/ Answered \/ Complete
  \/ \E reason \in Reasons : Bail(reason)
  \/ \E row \in pending : WriteAttempt(row) \/ WriteQso(row)
  \/ End \/ Start
  \/ Tick

MemorySpec == MemoryInit /\ [][MemoryNext]_memoryVars

-----------------------------------------------------------------------------
(* Properties *)

Called(n) == partner = Idle /\ partner' # Idle /\ partner'.call = n

\* A station in the log is not called again before its cooldown is over, however
\* often the process restarted since, and whether the row was written at once or
\* from the file (_do_log_qso, _drain_spilled_qsos, _restore_qso_cooldowns).
\* Excepted are rows the last start could not see: still in the file then, or in a
\* table that could not be read.
WorkedStaysBlocked ==
  [][\A n \in Names : Called(n) =>
       \A q \in qsos \ missed : q.call = n => tick >= q.ts + qso_cooldown]_memoryVars

\* What the restoration is there for: no station in the log is called again within
\* its cooldown (orchestrator.py 3428-3441).
LoggedStaysBlocked ==
  [][\A n \in Names : Called(n) =>
       \A q \in qsos : q.call = n => tick >= q.ts + qso_cooldown]_memoryVars

FailedSince(n) == {a \in Failed(n) \ missed : a.ts >= worked_at[n]}

HeardPlainly(n) == \A m \in Names : BaseCall[m] = n <=> m = n

\* The pause after the k-th call in vain since the last QSO grows with k across
\* restarts, for a station not on the watchlist and heard under its licensed call
\* alone (_bail_qso_with_cooldown, _restore_fehlversuche).  Calls whose rows the last
\* start could not read do not count.
BackoffSurvives ==
  [][\A n \in Names :
       Called(n) /\ n \notin watchlist_calls /\ HeardPlainly(n) /\ FailedSince(n) # {}
       => tick >= Latest(FailedSince(n)).ts
                  + Escalated(picked_another_cooldown, Cardinality(FailedSince(n)))]_memoryVars

=============================================================================
