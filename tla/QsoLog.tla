------------------------------- MODULE QsoLog -------------------------------
(***************************************************************************)
(* From LOG_QSO to the database.  A completed QSO is written to SQLite; if  *)
(* that fails it goes to an append-only spill file, which the next          *)
(* successful write and the next start try to drain into the database.     *)
(*                                                                         *)
(* A task switches at an await only, so a step is what a task does between *)
(* two awaits: the file is read, appended to and replaced without one,     *)
(* every insert awaits.                                                    *)
(***************************************************************************)
EXTENDS Naturals, FiniteSets

CONSTANTS
  Qsos,      \* the QSOs completed in a run
  Loggers,   \* tasks that carry out queued actions
  Boot,      \* start(), which drains the spill file before any of them
  NoQso,     \* a task that has nothing to write
  MaxRows    \* bound of the model: rows of one QSO that are counted

ASSUME LogAssumption ==
  /\ Boot \notin Loggers
  /\ NoQso \notin Qsos
  /\ MaxRows \in Nat \ {0}

Tasks == Loggers \cup {Boot}

VARIABLES
  rows,      \* the table qso: how many rows a QSO has
  spill,     \* unlogged_qsos.jsonl: its lines
  pc,        \* where a task awaits
  holds,     \* the QSO whose insert a task awaits
  lines,     \* the lines a draining task has still to try
  remaining, \* the lines it tried in vain
  worked,    \* _worked_calls and the sets that go with it
  made,      \* history: every QSO handed over for logging
  died,      \* history: QSOs held by a task when the process ended
  unsaved,   \* history: QSOs that could not even be appended to the file
  overlapped,\* history: QSOs appended while another task was draining
  drained,   \* history: QSOs that got their row from the file
  torn       \* history: a drain was interrupted, overlapped or not recorded

vars == <<rows, spill, pc, holds, lines, remaining, worked,
          made, died, unsaved, overlapped, drained, torn>>

Init ==
  /\ rows = [q \in Qsos |-> 0]
  /\ spill = {}
  /\ pc = [t \in Tasks |-> IF t = Boot THEN "hydrate" ELSE "down"]
  /\ holds = [t \in Tasks |-> NoQso]
  /\ lines = [t \in Tasks |-> {}]
  /\ remaining = [t \in Tasks |-> {}]
  /\ worked = {}
  /\ made = {} /\ died = {} /\ unsaved = {} /\ overlapped = {}
  /\ drained = {} /\ torn = FALSE

Logged == {q \in Qsos : rows[q] > 0}

Draining == {t \in Tasks : pc[t] = "drain"}

OneMoreRow(q) == [rows EXCEPT ![q] = IF @ < MaxRows THEN @ + 1 ELSE @]

\* The tasks that run once start() has got past the spill file.
Started == [t \in Tasks |-> IF t = Boot THEN "down" ELSE "idle"]

ResumedNot(t) ==  \* mutant
  IF t = Boot THEN Started ELSE IF t \in Draining THEN pc ELSE [pc EXCEPT ![t] = "idle"]
\* A task that is done with the spill file: start() then lets the others begin.
Resumed(t) == IF t = Boot THEN Started ELSE [pc EXCEPT ![t] = "idle"]

-----------------------------------------------------------------------------
(* Logging *)

LogQsoUnknown(t, q) ==  \* mutant
  /\ pc[t] = "idle"
  /\ q \notin made
  /\ made' = made \cup {q}
  /\ holds' = [holds EXCEPT ![t] = q]
  /\ pc' = [pc EXCEPT ![t] = "insert"]
  /\ UNCHANGED <<worked, rows, spill, lines, remaining, died, unsaved, overlapped, drained, torn>>
\* _do_log_qso up to the insert: the sets the picker asks are updated first.
LogQso(t, q) ==
  /\ pc[t] = "idle"
  /\ q \notin made
  /\ made' = made \cup {q}
  /\ worked' = worked \cup {q}
  /\ holds' = [holds EXCEPT ![t] = q]
  /\ pc' = [pc EXCEPT ![t] = "insert"]
  /\ UNCHANGED <<rows, spill, lines, remaining, died, unsaved, overlapped, drained, torn>>

\* _spill_qso: one line is appended, or not even that works and it is only said.
SpillQso(q) ==
  \/ /\ spill' = spill \cup {q}
     /\ overlapped' = IF Draining # {} THEN overlapped \cup {q} ELSE overlapped
     /\ UNCHANGED unsaved
  \/ /\ unsaved' = unsaved \cup {q}
     /\ UNCHANGED <<spill, overlapped>>

\* The head of _drain_spilled_qsos: read the file; nothing there, nothing to do.
ReadSpill(t) ==
  /\ lines' = [lines EXCEPT ![t] = spill]
  /\ remaining' = [remaining EXCEPT ![t] = {}]
  /\ pc' = IF spill = {} THEN Resumed(t) ELSE [pc EXCEPT ![t] = "drain"]
  /\ torn' = (torn \/ (spill # {} /\ Draining # {}))

\* The insert of a new QSO is committed, and earlier ones are given another try.
InsertQso(t) ==
  /\ pc[t] = "insert"
  /\ rows' = OneMoreRow(holds[t])
  /\ ReadSpill(t)
  /\ UNCHANGED <<spill, holds, worked, made, died, unsaved, overlapped, drained>>

\* The insert fails (disk full, locked, corrupt).
InsertFails(t) ==
  /\ pc[t] = "insert"
  /\ SpillQso(holds[t])
  /\ pc' = [pc EXCEPT ![t] = "idle"]
  /\ UNCHANGED <<rows, holds, lines, remaining, worked, made, died, drained, torn>>

-----------------------------------------------------------------------------
(* Draining *)

\* After the last line: the lines left over replace the file, an empty rest
\* removes it.  The file system may refuse; of a logger's own QSO this is taken
\* for a failed insert, and it is spilled although its row is there.
CloseSpill(t, left) ==
  \/ /\ spill' = left
     /\ UNCHANGED <<unsaved, overlapped, torn>>
  \/ /\ left = {}
     /\ torn' = TRUE
     /\ UNCHANGED <<spill, unsaved, overlapped>>
  \/ /\ left # {}
     /\ torn' = TRUE
     /\ IF t = Boot THEN UNCHANGED <<spill, unsaved, overlapped>>
                    ELSE SpillQso(holds[t])

DrainLineForgets(t, q, ok) ==  \* mutant
  LET left == remaining[t]
      rest == lines[t] \ {q} IN
  /\ pc[t] = "drain"
  /\ q \in lines[t]
  /\ rows' = IF ok THEN OneMoreRow(q) ELSE rows
  /\ lines' = [lines EXCEPT ![t] = rest]
  /\ remaining' = [remaining EXCEPT ![t] = left]
  /\ IF rest = {}
     THEN CloseSpill(t, left) /\ pc' = Resumed(t)
     ELSE UNCHANGED <<spill, unsaved, overlapped, torn, pc>>
  /\ drained' = IF ok THEN drained \cup {q} ELSE drained
  /\ UNCHANGED <<holds, worked, made, died>>
\* One line: inserted and dropped, or kept for the next time.
DrainLine(t, q, ok) ==
  LET left == IF ok THEN remaining[t] ELSE remaining[t] \cup {q}
      rest == lines[t] \ {q} IN
  /\ pc[t] = "drain"
  /\ q \in lines[t]
  /\ rows' = IF ok THEN OneMoreRow(q) ELSE rows
  /\ lines' = [lines EXCEPT ![t] = rest]
  /\ remaining' = [remaining EXCEPT ![t] = left]
  /\ IF rest = {}
     THEN CloseSpill(t, left) /\ pc' = Resumed(t)
     ELSE UNCHANGED <<spill, unsaved, overlapped, torn, pc>>
  /\ drained' = IF ok THEN drained \cup {q} ELSE drained
  /\ UNCHANGED <<holds, worked, made, died>>

-----------------------------------------------------------------------------
(* Start and end of the process *)

\* start(): the worked sets are read from the log before the spill is drained.
Hydrate ==
  /\ pc[Boot] = "hydrate"
  /\ worked' = Logged
  /\ ReadSpill(Boot)
  /\ UNCHANGED <<rows, spill, holds, made, died, unsaved, overlapped, drained>>

\* A crash, or stop(), whose CancelledError no handler turns into a spill.
ProcessEnds ==
  /\ pc[Boot] # "hydrate"
  /\ pc' = [t \in Tasks |-> IF t = Boot THEN "hydrate" ELSE "down"]
  /\ died' = died \cup {holds[t] : t \in {u \in Tasks : pc[u] = "insert"}}
  /\ torn' = (torn \/ Draining # {})
  /\ holds' = [t \in Tasks |-> NoQso]
  /\ lines' = [t \in Tasks |-> {}]
  /\ remaining' = [t \in Tasks |-> {}]
  /\ worked' = {}
  /\ UNCHANGED <<rows, spill, made, unsaved, overlapped, drained>>

Next ==
  \/ \E t \in Loggers, q \in Qsos : LogQso(t, q)
  \/ \E t \in Loggers : InsertQso(t) \/ InsertFails(t)
  \/ \E t \in Tasks, q \in Qsos, ok \in BOOLEAN : DrainLine(t, q, ok)
  \/ Hydrate
  \/ ProcessEnds

Spec == Init /\ [][Next]_vars

-----------------------------------------------------------------------------
(* Properties *)

TypeOK ==
  /\ rows \in [Qsos -> 0 .. MaxRows]
  /\ spill \subseteq Qsos
  /\ pc \in [Tasks -> {"down", "hydrate", "idle", "insert", "drain"}]
  /\ holds \in [Tasks -> Qsos \cup {NoQso}]
  /\ lines \in [Tasks -> SUBSET Qsos]
  /\ \A t \in Tasks : t \in Draining <=> lines[t] # {}
  /\ remaining \in [Tasks -> SUBSET Qsos]
  /\ worked \subseteq Qsos
  /\ made \subseteq Qsos /\ died \subseteq Qsos
  /\ unsaved \subseteq Qsos /\ overlapped \subseteq Qsos /\ drained \subseteq Qsos
  /\ torn \in BOOLEAN

\* A QSO whose insert some task still awaits.
InFlight(q) == \E t \in Loggers : pc[t] = "insert" /\ holds[t] = q

\* A line a task has read from the file and will insert or write back.
InDrain(q) == \E t \in Draining : q \in lines[t] \cup remaining[t]

\* The QSO can still be found: in the table, in the file or in a task's hands.
Kept(q) == q \in Logged \/ q \in spill \/ InFlight(q) \/ InDrain(q)

\* A completed QSO is lost in three ways only: the process ended during its
\* insert, neither database nor file could be written, or it was appended to the
\* spill file while another task was draining it (_do_log_qso, _spill_qso,
\* _drain_spilled_qsos).
LossesAreKnown ==
  \A q \in made : Kept(q) \/ q \in died \cup unsaved \cup overlapped

\* Unless a drain was interrupted, overlapped by another or could not record
\* what it did, no QSO gets a second row, whatever fails in between.
RowsOnce == ~torn => \A q \in Qsos : rows[q] <= 1

\* Of the logged QSOs the picker misses only such as came through the file: the
\* worked sets are read before start() drains it, and a drain does not add to them.
PickerMissesOnlyDrained ==
  pc[Boot] # "hydrate" => Logged \subseteq worked \cup drained

Known == died \cup unsaved \cup overlapped

\* The log keeps the promise of the ledger up to the upload.
Ledger == INSTANCE QsoLedger WITH
  book <- [q \in Qsos |-> IF q \notin made THEN "new"
                          ELSE IF Kept(q) THEN "kept" ELSE "lost"],
  delivered <- {},
  excused <- Known

\* _do_log_qso, _spill_qso and _drain_spilled_qsos together implement the ledger:
\* no step loses a QSO it has not named, and none brings a lost one back.
KeepsTheLedger == Ledger!Spec

\* What a comment in _do_log_qso says: a completed QSO is never lost silently,
\* which leaves the process's death and the failure of both writes.  TLC refutes
\* it: two writers of the spill file lose a row of each other.
NothingLost ==
  \A q \in made : Kept(q) \/ q \in died \/ q \in unsaved

=============================================================================
