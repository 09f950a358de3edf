---------------------------- MODULE UploadQueue ----------------------------
(***************************************************************************)
(* One of the four upload loops (QRZ, ClubLog, eQSL, LoTW): the rows not    *)
(* yet uploaded are sent in sweeps.  A sweep works on one database session, *)
(* so its marks and counters reach the table when it ends, or never; what   *)
(* the service has stored by then stays stored.                            *)
(*                                                                         *)
(* A QSO belongs to the log of the callsign it was made with.  A callsign   *)
(* without a log at the service is left alone and reported once.           *)
(***************************************************************************)
EXTENDS Integers, FiniteSets

CONSTANTS
  Rows,      \* the QSOs of one operator, numbered in the order of their time
  OnAir,     \* per service, the callsign each QSO was made with
  Home,      \* the operator's own callsign, without prefix or suffix
  Services,  \* which of the four loops this is
  MaxTries,  \* _UPLOAD_MAX_ATTEMPTS
  Charge,    \* rows (QRZ) or rows per log (eQSL, LoTW) of one sweep
  BulkMin,   \* from so many open rows ClubLog is sent a file
  Recheck,   \* _BULK_DUPE_NACHFAHREN_MAX
  Whims      \* what the operator does with a service: "setup", "profile", "export"

ASSUME UploadAssumption ==
  /\ Rows \subseteq Nat /\ IsFiniteSet(Rows)
  /\ \A s \in Services : DOMAIN OnAir[s] = Rows
  /\ Services \subseteq {"QRZ", "ClubLog", "eQSL", "LoTW"}
  /\ {MaxTries, Charge, BulkMin, Recheck} \subseteq Nat \ {0}

VARIABLES
  service,   \* the service of this loop
  logged,    \* rows in the table qso
  up,        \* ..._uploaded
  tries,     \* ..._upload_attempts, counted up to MaxTries
  resting,   \* rows whose last attempt is more recent than their back-off
  profile,   \* the operator has a profile with credentials
  logs,      \* callsigns that have a log there
  told,      \* callsigns reported as not set up (kept across restarts)
  sweeping,  \* a sweep is under way
  due,       \* rows it has still to look at
  singles,   \* rows of a refused file it sends one by one
  marks,     \* rows it takes for uploaded
  counted,   \* rows whose attempt it has counted
  batch,     \* the manual export a row is in (0: none)
  remote,    \* what the service has stored
  written,   \* history: rows written off (refused for good, given up with an
             \* alarm, or in a file whose answer was not read)
  stauTold   \* the operator was alarmed of a jam within the last day

CallOf(r) == OnAir[service][r]

Calls == {CallOf(r) : r \in Rows} \cup {Home}

config == <<profile, logs>>
sweep == <<sweeping, due, singles, marks, counted>>
table == <<logged, up, tries, resting, batch>>
past == <<remote, written>>
vars == <<service, table, config, told, sweep, past, stauTold>>

Init ==
  /\ service \in Services
  /\ logged = {} /\ up = {} /\ resting = {}
  /\ tries = [r \in Rows |-> 0]
  /\ batch = [r \in Rows |-> 0]
  /\ profile = TRUE /\ logs \in SUBSET Calls
  /\ told = {}
  /\ sweeping = FALSE /\ due = {} /\ singles = {} /\ marks = {} /\ counted = {}
  /\ remote = {} /\ written = {}
  /\ stauTold = FALSE

-----------------------------------------------------------------------------
(* What a sweep sends *)

\* The operator takes part: for ClubLog and LoTW the log of the own callsign is
\* asked for first, for eQSL any account will do.
Served ==
  /\ profile
  /\ service \in {"ClubLog", "LoTW"} => Home \in logs
  /\ service = "eQSL" => logs # {}

Of(R, c) == {r \in R : CallOf(r) = c}

HasLog(r) == CallOf(r) \in logs

FirstOf(R, n) == {r \in R : Cardinality({x \in R : x <= r}) <= n}

\* The row whose turn it is.
Earliest(R) == {r \in R : \A x \in R : r <= x}

DueCutFirst ==  \* mutant
  LET open == FirstOf((logged \ up) \ resting, Charge) IN
  IF ~Served THEN {} ELSE IF service = "QRZ" THEN open ELSE {r \in open : HasLog(r)}
\* An operator's rows are looked up once; eQSL and LoTW cut each log's share to
\* a charge, and only rows that can be sent count.
Due ==
  LET open == (logged \ up) \ resting
      able == {r \in open : HasLog(r)} IN
  CASE ~Served -> {}
    [] service = "QRZ" -> open
    [] service = "ClubLog" -> able
    [] OTHER -> UNION {FirstOf(Of(able, c), Charge) : c \in Calls}

\* Other callsigns with an open row and no log: each is reported once.
NotSetUp ==
  IF Served /\ (service = "QRZ" => Home \in logs)
  THEN {CallOf(r) : r \in {x \in logged \ up : ~HasLog(x)}} \ {Home}
  ELSE {}

\* Attempts the sweep has made; QRZ stops after a charge of them.
Spent == service = "QRZ" /\ Cardinality(counted) >= Charge

\* The rows sent next, each set one request.  QRZ reads key and profile when the
\* row's turn comes and skips what has none.
Requests ==
  LET able == {r \in due : profile /\ HasLog(r)} IN
  CASE singles # {} -> {Earliest(singles)}
    [] singles = {} /\ service = "QRZ" ->
         IF able = {} \/ Spent THEN {} ELSE {Earliest(able)}
    [] singles = {} /\ service = "ClubLog" ->
         {IF Cardinality(Of(due, c)) >= BulkMin THEN Of(due, c) ELSE Earliest(Of(due, c))
            : c \in {CallOf(r) : r \in due}}
    [] OTHER -> {Of(due, c) : c \in {CallOf(r) : r \in due}}

\* What is still due after a request for R.
Left(R) ==
  IF singles # {} THEN due
  ELSE IF service = "QRZ" THEN {r \in due : \A x \in R : r > x}
  ELSE due \ R

-----------------------------------------------------------------------------
(* A sweep *)

SweepStarts ==
  /\ ~sweeping
  /\ sweeping' = TRUE
  /\ due' = Due
  /\ told' = told \cup NotSetUp
  /\ UNCHANGED <<service, table, config, singles, marks, counted, past, stauTold>>

IsFile(R) == service = "ClubLog" /\ singles = {} /\ R \in {Of(due, c) : c \in Calls}
             /\ Cardinality(R) >= BulkMin

\* Rows one by one, or all at once without being told which is which.
IsCharge == service \in {"eQSL", "LoTW"}

\* tries with the attempts of this sweep; a row sent again is not counted again.
Tried(R) ==
  [r \in Rows |-> IF r \in R /\ tries[r] < MaxTries THEN tries[r] + 1 ELSE tries[r]]

Counted(R) == IF singles # {} THEN counted ELSE counted \cup R

GivenUp(R) == {r \in R : Tried(Counted(R))[r] >= MaxTries}

\* The request is over; the next one, or the end of the sweep, follows.
Sent(R) ==
  /\ sweeping
  /\ R \in Requests
  /\ due' = Left(R)
  /\ counted' = Counted(R)
  /\ UNCHANGED <<sweeping, service, table, config, told, stauTold>>

Sending(R) == /\ Sent(R)
              /\ singles' = singles \ R

\* Stored, or already there: duplicates count as uploaded row by row.  eQSL
\* reports how many records it did not take, not which: all are done, and said.
Accepted(R, taken) ==
  /\ Sending(R)
  /\ taken \subseteq R
  /\ (service = "eQSL" \/ taken = R)
  /\ remote' = remote \cup taken
  /\ marks' = marks \cup R
  /\ written' = written \cup (R \ taken)

\* putlogs.php: any page with status 200 is taken for an accepted file.
PageTrusted(R) ==
  /\ Sending(R)
  /\ IsFile(R)
  /\ marks' = marks \cup R
  /\ written' = written \cup R
  /\ UNCHANGED remote

FileDuplicateMarksAll(R) ==  \* mutant
  /\ Sent(R)
  /\ IsFile(R)
  /\ R \cap remote # {}
  /\ marks' = marks \cup R
  /\ UNCHANGED <<singles, past>>
\* One duplicate refuses a whole file: its first rows are sent one by one.
FileHasDuplicate(R) ==
  /\ Sent(R)
  /\ IsFile(R)
  /\ R \cap remote # {}
  /\ singles' = FirstOf(R, Recheck)
  /\ UNCHANGED <<marks, past>>

\* Wrong credentials, bad record: QRZ and ClubLog rows are done, the charges of
\* eQSL and LoTW stay open until somebody repairs the account.
HardRefusal(R) ==
  /\ Sending(R)
  /\ IF IsCharge THEN UNCHANGED <<marks, written>>
                 ELSE marks' = marks \cup R /\ written' = written \cup R
  /\ UNCHANGED remote

\* Rate limit, maintenance: later again, up to a number of attempts; giving up
\* raises an alarm.
SoftRefusal(R) ==
  /\ Sending(R)
  /\ marks' = marks \cup GivenUp(R)
  /\ written' = written \cup GivenUp(R)
  /\ UNCHANGED remote

\* No answer.  The service may have stored the rows all the same.  QRZ and
\* ClubLog try for ever; for eQSL and LoTW this is a soft refusal.
NoAnswer(R, stored) ==
  /\ Sending(R)
  /\ remote' = IF stored THEN remote \cup R ELSE remote
  /\ IF IsCharge THEN /\ marks' = marks \cup GivenUp(R)
                      /\ written' = written \cup GivenUp(R)
                 ELSE UNCHANGED <<marks, written>>

SweepOver == sweeping' = FALSE /\ due' = {} /\ singles' = {} /\ marks' = {} /\ counted' = {}

CommitStale ==  \* mutant
  /\ sweeping
  /\ Requests = {}
  /\ SweepOver
  /\ up' = (up \ counted) \cup marks
  /\ tries' = Tried(counted)
  /\ resting' = resting \cup counted
  /\ UNCHANGED <<service, logged, batch, config, told, past, stauTold>>
\* The session is committed when nothing is left to send.
Commit ==
  /\ sweeping
  /\ Requests = {}
  /\ SweepOver
  /\ up' = up \cup marks
  /\ tries' = Tried(counted)
  /\ resting' = resting \cup counted
  /\ UNCHANGED <<service, logged, batch, config, told, past, stauTold>>

\* The commit fails, an exception leaves the sweep, the process ends: the
\* session is rolled back.
RolledBack ==
  /\ sweeping
  /\ SweepOver
  /\ UNCHANGED <<service, table, config, told, past, stauTold>>

BackoffEnds(r) ==
  /\ r \in resting
  /\ resting' = resting \ {r}
  /\ UNCHANGED <<service, logged, up, tries, batch, config, told, sweep, past, stauTold>>

-----------------------------------------------------------------------------
(* The log and the operator *)

\* A QSO is logged; QSOs are not removed.
Arrives(r) ==
  /\ r \notin logged
  /\ logged' = logged \cup {r}
  /\ UNCHANGED <<service, up, tries, resting, batch, config, told, sweep, past, stauTold>>

\* A log is entered for a callsign, which may then be reported again; or taken out.
SetsUp(c) ==
  /\ "setup" \in Whims[service]
  /\ logs' = logs \cup {c}
  /\ told' = told \ {c}
  /\ UNCHANGED <<service, table, profile, sweep, past, stauTold>>

Removes(c) ==
  /\ "setup" \in Whims[service]
  /\ logs' = logs \ {c}
  /\ UNCHANGED <<service, table, profile, told, sweep, past, stauTold>>

\* The operator's profile is deleted, or made again.
ProfileChanges ==
  /\ "profile" \in Whims[service]
  /\ profile' = ~profile
  /\ UNCHANGED <<service, table, logs, told, sweep, past, stauTold>>

\* Batches of the manual ClubLog export that still have open rows.
OpenBatches == {batch[r] : r \in {x \in logged \ up : batch[x] # 0}}

\* create_clublog_manual_export: an open batch is offered again, else all open
\* rows that are in none become the next one.
Exports ==
  /\ "export" \in Whims[service]
  /\ service = "ClubLog"
  /\ OpenBatches = {}
  /\ \E b \in 1 .. Cardinality(Rows) :
       /\ \A r \in Rows : batch[r] < b
       /\ \A c \in 1 .. b - 1 : \E r \in Rows : batch[r] = c
       /\ batch' = [r \in Rows |-> IF r \in logged \ up /\ batch[r] = 0 THEN b ELSE batch[r]]
  /\ UNCHANGED <<service, logged, up, tries, resting, config, told, sweep, past, stauTold>>

\* confirm_clublog_manual_batch: the rows of that file are uploaded.
Confirms(b) ==
  /\ b # 0 /\ \E r \in Rows : batch[r] = b
  /\ up' = up \cup {r \in Rows : batch[r] = b}
  /\ UNCHANGED <<service, logged, tries, resting, batch, config, told, sweep, past, stauTold>>

\* Rows that should have gone out: not those left on purpose.
Jammed == {r \in logged \ up : Served /\ HasLog(r)}

\* _pruefe_upload_stau looks at QRZ and ClubLog, alarms once a day and writes that
\* down before it pushes, so that a failed push is not repeated before tomorrow.
StauAlarm ==
  /\ service \in {"QRZ", "ClubLog"}
  /\ Jammed # {}
  /\ ~stauTold
  /\ stauTold' = TRUE
  /\ UNCHANGED <<service, table, config, told, sweep, past>>

DayPasses ==
  /\ stauTold
  /\ stauTold' = FALSE
  /\ UNCHANGED <<service, table, config, told, sweep, past>>

Sends ==
  \E R \in Requests :
    \/ \E taken \in SUBSET R : Accepted(R, taken)
    \/ PageTrusted(R) \/ FileHasDuplicate(R) \/ HardRefusal(R) \/ SoftRefusal(R)
    \/ \E stored \in BOOLEAN : NoAnswer(R, stored)

\* The operator's own doings.
Operator ==
  \/ \E c \in Calls : SetsUp(c) \/ Removes(c)
  \/ ProfileChanges \/ Exports
  \/ \E b \in {batch[r] : r \in Rows} : Confirms(b)

\* What the process does by itself.
Works ==
  \/ SweepStarts \/ Sends \/ Commit \/ RolledBack
  \/ StauAlarm \/ DayPasses
  \/ \E r \in Rows : BackoffEnds(r)

Next == Works \/ Operator \/ (\E r \in Rows : Arrives(r))

Spec == Init /\ [][Next]_vars

\* Row r is sent and taken; a file with a duplicate in it need not be.
Taken(r) ==
  \E R \in Requests : r \in R /\ (IsFile(R) => R \cap remote = {}) /\ Accepted(R, R)

\* The loop runs for ever and its sleeps and back-offs end.  A service that is
\* asked again and again for a row takes it some day, and so does the database.
FairSpec ==
  /\ Spec
  /\ WF_vars(SweepStarts) /\ WF_vars(Sends) /\ SF_vars(Commit)
  /\ \A r \in Rows : WF_vars(BackoffEnds(r)) /\ SF_vars(Taken(r))
  /\ SF_vars(\E R \in Requests : FileHasDuplicate(R))
  /\ WF_vars(StauAlarm) /\ WF_vars(DayPasses)

-----------------------------------------------------------------------------
(* Properties *)

TypeOK ==
  /\ service \in Services
  /\ up \subseteq logged /\ logged \subseteq Rows
  /\ resting \subseteq Rows
  /\ tries \in [Rows -> 0 .. MaxTries]
  /\ batch \in [Rows -> 0 .. Cardinality(Rows)]
  /\ {profile, sweeping, stauTold} \subseteq BOOLEAN
  /\ logs \subseteq Calls /\ told \subseteq Calls
  /\ UNION {due, singles, marks, counted} \subseteq IF sweeping THEN Rows ELSE {}
  /\ remote \cup written \subseteq Rows

\* A row counted as uploaded is stored at the service, or was written off for a
\* reason, or handed to the operator in a file.
MarkedIsAccountedFor ==
  up \subseteq remote \cup written \cup {r \in Rows : batch[r] # 0}

\* A row that can be sent is dealt with in the end, whatever lies before it in the
\* queue: rows without a log, with a long back-off or refused again and again -
\* provided that some day no sweep is broken off after it has sent something.
EveryRowGoesOut ==
  (<>[][~(RolledBack /\ counted # {})]_vars) =>
    \A r \in Rows : <>(r \in logged) /\ <>[](Served /\ HasLog(r)) => <>(r \in up)

\* Rows of QRZ and ClubLog that could go out and never do are reported every day.
JamIsReported ==
  (service \in {"QRZ", "ClubLog"}
     /\ <>[](\E r \in logged \ up : Served /\ HasLog(r))) => []<>stauTold

\* An upload loop keeps the promise of the ledger from the log on.
Ledger == INSTANCE QsoLedger WITH
  Qsos <- Rows,
  book <- [r \in Rows |-> IF r \in up THEN "settled"
                          ELSE IF r \in logged THEN "kept" ELSE "new"],
  delivered <- remote,
  excused <- written \cup {r \in Rows : batch[r] # 0}

\* The sweeps, the manual export and the changes of the setup implement the
\* ledger: a row is settled once, for ever, and only with a receipt or a reason.
KeepsTheLedger == Ledger!Spec

=============================================================================
