------------------------------ MODULE Database ------------------------------
(* The database from start to start (db/session.py): the tables a release  *)
(* finds are brought to its schema, statement by statement, on a computer  *)
(* that loses power and under an updater that goes back to the release     *)
(* before; and the daily maintenance, whose backups are to reach back a    *)
(* week although the program starts many times a day.                      *)
(*                                                                         *)
(* The driver (sqlite3 of Python) opens a transaction at the first INSERT  *)
(* or UPDATE and not at an ALTER or a CREATE: until then every statement   *)
(* is kept at once, and from then on all of them are, or none is.          *)
EXTENDS Naturals, Sequences, FiniteSets, SequencesExt

CONSTANTS
    Rows,                 \* QSOs that can be logged
    Members,              \* those of them with a Marinefunker
    Readings,             \* noise readings that can be taken
    Versions,             \* how many steps of History a database may have behind it
    MAINTENANCE_INTERVAL, \* a day
    DB_BACKUP_KEEP,
    UpkeepEnd, MaxCuts

ASSUME DatabaseAssumption ==
    /\ Members \subseteq Rows
    /\ MAINTENANCE_INTERVAL \in Nat /\ DB_BACKUP_KEEP \in Nat \ {0}
    /\ UpkeepEnd \in Nat /\ MaxCuts \in Nat

OrderNoiseFirst ==                                    \* mutant
    <<"qrz", "noise", "user_qso", "user_blacklist", "user_heard", "mf", "dxped", "watchlist",
      "clublog", "eqsl", "pick", "station", "decode", "attempt">>

(* The steps in the order create_all takes them, and in the order the      *)
(* releases brought them.  Of several columns the first and the last stand *)
(* for all.                                                                *)
Order == <<"qrz", "user_qso", "user_blacklist", "user_heard", "mf", "dxped", "watchlist",
           "clublog", "eqsl", "pick", "station", "decode", "attempt", "noise">>
History == <<"qrz", "user_qso", "user_blacklist", "user_heard", "mf", "dxped", "watchlist",
             "clublog", "station", "attempt", "decode", "noise", "pick", "eqsl">>
ASSUME VersionsAssumption == Versions \subseteq 0..Len(History)
Migrations == {Order[i] : i \in 1..Len(Order)}
OfUsers == {"user_qso", "user_blacklist", "user_heard"}
\* Rows are filled in only by the start that adds the column.
FilledOnce == {"mf", "dxped", "watchlist"}

ColumnsOf(s) ==
    IF s \in OfUsers \cup FilledOnce \cup {"station", "noise"} THEN {<<s, "only">>}
    ELSE {<<s, "first">>, <<s, "last">>}
AllColumns == UNION {ColumnsOf(s) : s \in Migrations}

VARIABLES
    program,      \* "off", "migrating", "up", "web": without an orchestrator
    code,         \* "new", or the "old" one an update went back to
    disk, db,     \* the database as it was kept last, and as statements see it
    open,         \* a transaction is open
    stage, at,    \* the step create_all has come to, and where it is in it
    written,      \* every reading ever kept
    hour, maintenance_at, saved_at, task, due, backups,
    cuts

schemaVars == <<disk, db, open, stage, at, written>>
upkeepVars == <<maintenance_at, saved_at, task, due, backups>>
databaseVars == <<program, code, schemaVars, hour, upkeepVars, cuts>>

NoTable == {"no_table"}

DatabaseInit ==
    /\ \E v \in Versions, form \in {"old", "new"}, some \in SUBSET Rows, heard \in SUBSET Readings :
         /\ disk = [cols |-> UNION {ColumnsOf(History[i]) : i \in 1..v}, form |-> form,
                    noise |-> heard, aside |-> NoTable,
                    rows |-> some, owned |-> IF v < 2 THEN {} ELSE some, marked |-> {}]
         /\ written = heard
    /\ db = disk /\ open = FALSE /\ stage = 1 /\ at = "columns"
    /\ program = "off" /\ code = "new" /\ cuts = 0
    /\ hour = 1 /\ maintenance_at = 0 /\ saved_at = 0
    /\ task = "asleep" /\ due = 0 /\ backups = <<>>

-----------------------------------------------------------------------------
(* Statements.  A definition is kept at once unless a transaction is open; *)
(* a change of rows opens one.                                             *)
Define(new) == db' = new /\ disk' = (IF open THEN disk ELSE new) /\ UNCHANGED open
Change(new) == db' = new /\ open' = TRUE /\ UNCHANGED disk

NextStage == stage' = stage + 1 /\ at' = "columns"
Migrating(where) == program = "migrating" /\ stage <= Len(Order) /\ at = where
Done == open' = FALSE /\ stage' = 1 /\ at' = "columns"
During == UNCHANGED <<program, code, written, hour, upkeepVars, cuts>>

ProgramStartsAfresh ==                                \* mutant
    /\ program = "off"
    /\ program' = IF code = "new" THEN "migrating" ELSE "up"
    /\ due' = hour
    /\ UNCHANGED <<maintenance_at, code, schemaVars, hour, saved_at, task, backups, cuts>>

(* metadata.create_all: tables that are missing come in their newest form. *)
ProgramStarts ==
    /\ program = "off"
    /\ program' = IF code = "new" THEN "migrating" ELSE "up"
    /\ maintenance_at' = saved_at /\ due' = hour
    /\ UNCHANGED <<code, schemaVars, hour, saved_at, task, backups, cuts>>

AddColumn ==
    /\ Migrating("columns") /\ During
    /\ \E c \in ColumnsOf(Order[stage]) \ db.cols :
         Define([db EXCEPT !.cols = @ \cup {c}])
    /\ at' = IF Order[stage] \in FilledOnce THEN "fill" ELSE at
    /\ UNCHANGED stage

(* Nothing is missing, or nothing any more.  Rows without an operator are  *)
(* looked for at every start.                                              *)
ColumnsThere ==
    /\ Migrating("columns") /\ During /\ ColumnsOf(Order[stage]) \subseteq db.cols
    /\ CASE Order[stage] \in OfUsers -> at' = "fill" /\ UNCHANGED stage
         [] Order[stage] = "noise" /\ db.form = "old" -> at' = "rename" /\ UNCHANGED stage
         [] OTHER -> NextStage
    /\ UNCHANGED <<disk, db, open>>

OwnerOf(d) == [d EXCEPT !.owned = IF Order[stage] = "user_qso" THEN d.rows ELSE @]

(* The callsign of the operator is never empty (OperatorConfig.callsign).  *)
FillOwner ==
    /\ Migrating("fill") /\ During /\ Order[stage] \in OfUsers
    /\ Change(OwnerOf(db)) /\ NextStage

(* The list of members may be empty.  The other two only spell out the     *)
(* default their column has.                                               *)
FillOnce ==
    /\ Migrating("fill") /\ During /\ Order[stage] \in FilledOnce
    /\ \/ Order[stage] = "mf" /\ Change([db EXCEPT !.marked = db.rows \cap Members])
       \/ Order[stage] = "mf" /\ UNCHANGED <<disk, db, open>>
       \/ Order[stage] # "mf" /\ Change(db)
    /\ NextStage

(* A column that must not be NULL is made one that may: SQLite needs a new *)
(* table for it.                                                           *)
Rename ==
    /\ Migrating("rename") /\ During
    /\ Define([db EXCEPT !.aside = db.noise, !.noise = {}])
    /\ at' = "create" /\ UNCHANGED stage

Create ==
    /\ Migrating("create") /\ During
    /\ Define([db EXCEPT !.form = "new"])
    /\ at' = "copy" /\ UNCHANGED stage

Copy ==
    /\ Migrating("copy") /\ During
    /\ Change([db EXCEPT !.noise = db.aside])
    /\ at' = "drop" /\ UNCHANGED stage

DropAside ==
    /\ Migrating("drop") /\ During
    /\ Define([db EXCEPT !.aside = NoTable])
    /\ NextStage

(* The end of engine.begin().                                              *)
Commit ==
    /\ program = "migrating" /\ stage > Len(Order)
    /\ program' = "up" /\ disk' = db /\ Done
    /\ UNCHANGED <<code, db, written, hour, upkeepVars, cuts>>

(* A statement fails: a full disk, a lock held for more than 30 seconds.   *)
(* The web pages come up without an orchestrator.                          *)
StatementFails ==
    /\ program = "migrating"
    /\ program' = "web" /\ db' = disk /\ Done
    /\ UNCHANGED <<code, disk, written, hour, upkeepVars, cuts>>

(* A restart, a power cut, an update or its way back.                      *)
ProgramStops ==
    /\ program # "off" /\ cuts < MaxCuts /\ cuts' = cuts + 1
    /\ program' = "off" /\ db' = disk /\ Done
    /\ code' \in {"old", "new"}
    /\ maintenance_at' = 0 /\ task' = "asleep" /\ due' = 0
    /\ UNCHANGED <<disk, written, hour, saved_at, backups>>

-----------------------------------------------------------------------------
(* The program at work.  The old release knows of no operators.            *)
Write(new) ==
    /\ program = "up" /\ db' = new /\ disk' = new
    /\ UNCHANGED <<program, code, open, stage, at, hour, upkeepVars, cuts>>

LogRow ==
    \E r \in Rows \ db.rows :
       /\ Write([db EXCEPT !.rows = @ \cup {r},
                           !.owned = IF code = "new" THEN @ \cup {r} ELSE @,
                           !.marked = IF code = "new" THEN @ \cup ({r} \cap Members) ELSE @])
       /\ UNCHANGED written

TakeReading ==
    \E n \in Readings \ written :
       /\ Write([db EXCEPT !.noise = @ \cup {n}]) /\ written' = written \cup {n}

-----------------------------------------------------------------------------
(* The maintenance loop.                                                   *)
Loop(t) == program = "up" /\ code = "new" /\ task = t
Upkeep == UNCHANGED <<program, code, schemaVars, hour, cuts>>
Sleep(until) == task' = "asleep" /\ due' = until

NotYet == maintenance_at > 0 /\ hour < maintenance_at + MAINTENANCE_INTERVAL

Wake ==
    /\ Loop("asleep") /\ Upkeep /\ hour >= due
    /\ IF NotYet THEN Sleep(maintenance_at + MAINTENANCE_INTERVAL)
                 ELSE task' = "prune" /\ UNCHANGED due
    /\ UNCHANGED <<maintenance_at, saved_at, backups>>

(* Old telemetry is deleted first.                                         *)
Prune ==
    /\ Loop("prune") /\ Upkeep
    /\ \/ task' = "backup" /\ UNCHANGED due
       \/ Sleep(hour + MAINTENANCE_INTERVAL)
    /\ UNCHANGED <<maintenance_at, saved_at, backups>>

Rotated(files) == SubSeq(files, IF Len(files) > DB_BACKUP_KEEP THEN Len(files) - DB_BACKUP_KEEP + 1
                                ELSE 1, Len(files))

(* backup_database: VACUUM INTO, and the oldest files go.                  *)
Backup ==
    /\ Loop("backup") /\ Upkeep
    /\ \/ backups' = Rotated(Append(backups, [time |-> hour, kept |-> FALSE]))
          /\ task' = "note" /\ UNCHANGED due
       \/ Sleep(hour + MAINTENANCE_INTERVAL) /\ UNCHANGED backups
    /\ UNCHANGED <<maintenance_at, saved_at>>

(* The time of the run goes to runtime_state.json, if it can be written.   *)
Note ==
    /\ Loop("note") /\ Upkeep
    /\ maintenance_at' = hour /\ Sleep(hour + MAINTENANCE_INTERVAL)
    /\ \/ saved_at' = hour /\ backups' = [backups EXCEPT ![Len(backups)].kept = TRUE]
       \/ UNCHANGED <<saved_at, backups>>

(* Other changes are saved with it.                                        *)
SaveState ==
    /\ program = "up" /\ code = "new" /\ Upkeep /\ saved_at # maintenance_at
    /\ saved_at' = maintenance_at /\ UNCHANGED <<maintenance_at, task, due, backups>>

HourPasses ==
    /\ hour < UpkeepEnd /\ hour' = hour + 1
    /\ UNCHANGED <<program, code, schemaVars, upkeepVars, cuts>>

DatabaseNext ==
    \/ ProgramStarts \/ AddColumn \/ ColumnsThere \/ FillOwner \/ FillOnce
    \/ Rename \/ Create \/ Copy \/ DropAside \/ Commit \/ StatementFails \/ ProgramStops
    \/ LogRow \/ TakeReading
    \/ Wake \/ Prune \/ Backup \/ Note \/ SaveState \/ HourPasses

DatabaseSpec == DatabaseInit /\ [][DatabaseNext]_databaseVars

-----------------------------------------------------------------------------
DatabaseTypeOK ==
    /\ program \in {"off", "migrating", "up", "web"} /\ code \in {"old", "new"}
    /\ disk \in [cols : SUBSET AllColumns, form : {"old", "new"}, noise : SUBSET Readings,
                 aside : (SUBSET Readings) \cup {NoTable}, rows : SUBSET Rows,
                 owned : SUBSET Rows, marked : SUBSET Members]
    /\ DOMAIN db = DOMAIN disk /\ open \in BOOLEAN
    /\ stage \in 1..(Len(Order) + 1)
    /\ at \in {"columns", "fill", "rename", "create", "copy", "drop"}
    /\ written \subseteq Readings
    /\ hour \in Nat /\ maintenance_at \in Nat /\ saved_at \in Nat /\ due \in Nat
    /\ task \in {"asleep", "prune", "backup", "note"}
    /\ backups \in Seq([time : Nat, kept : BOOLEAN]) /\ cuts \in Nat

(* Once the new release is at work its columns are all there, every QSO    *)
(* has an operator, and no reading was lost or left aside: whatever        *)
(* release the database is of, wherever earlier starts were cut off, and   *)
(* also when an older release wrote to it in between.                      *)
StartedIsMigrated ==
    program = "up" /\ code = "new" =>
        /\ AllColumns \subseteq disk.cols
        /\ disk.rows \subseteq disk.owned
        /\ disk.form = "new" /\ disk.aside = NoTable /\ disk.noise = written

(* Backups reach back as many days as files are kept: after a backup whose *)
(* time was saved the next one is a day later, however often the program   *)
(* starts in between.                                                      *)
BackupsAreDaily ==
    \A i \in 1..(Len(backups) - 1) :
       backups[i].kept => backups[i + 1].time >= backups[i].time + MAINTENANCE_INTERVAL
=============================================================================
