---------------------------- MODULE ServiceProofs ---------------------------
(* The services beside the radio: updates of the program, its database,    *)
(* the operators and their keys, the inbox of eQSL and the watchlist.      *)
EXTENDS SelfUpdate, Database, Operators, QslInbox, Watchlist, TLAPS

(* Updates: that runs end well while none is killed, for any number of     *)
(* releases and any combination of what may be wrong with them.            *)

(* Before the checkout a run has changed nothing that a crash or a restart *)
(* would bring to light.                                                   *)
Untouched == {"off", "fetched", "signed", "waiting", "ptt_wait", "checkout"}

UpdateTypeOK ==
    /\ facts \in [Releases -> SUBSET {"new_deps", "unsigned", "no_checkout", "no_build",
                                     "no_start", "mute", "no_return"}]
    /\ origin \in Releases /\ head \in Releases /\ env \in Releases \cup {Mixed}
    /\ running \in Releases \cup {Down}
    /\ hold \in BOOLEAN /\ halted \in BOOLEAN /\ burst \in BOOLEAN
    /\ work \in {"rest", "qso", "cq"}
    /\ step \in Steps /\ target \in Releases /\ rollback_ref \in Releases
    /\ needs_pip \in BOOLEAN /\ label \in {"forward", "rollback"}
    /\ notice \in {"nothing", "red", "yellow", "green"}
    /\ kills \in SUBSET Releases

(* What is left behind as the release to go back to answers, or is one that*)
(* cannot be left.                                                         *)
Tame(r) == "mute" \notin facts[r] \/ "no_return" \in facts[r]

Sane ==
    /\ step \in Untouched => Tame(head)
    /\ step \notin Untouched => Tame(rollback_ref)
    /\ step \notin Untouched /\ label = "rollback" => head = rollback_ref
    /\ step \in {"probe", "back"} => label = "forward"

(* The code that is checked out runs, and would come up again.             *)
Up == running = head /\ Starts(head)

Honest ==
    /\ step \in Untouched /\ notice # "red" => Up
    /\ step = "probe" => Up

UpdateInv == kills = {} => Sane /\ Honest

LEMMA SoundAtFirst == UpdateInit => UpdateTypeOK /\ UpdateInv
<1> SUFFICES ASSUME UpdateInit PROVE UpdateTypeOK /\ UpdateInv
  OBVIOUS
<1> USE UpdateAssumption DEF UpdateInit
<1>1. UpdateTypeOK
  BY DEF UpdateTypeOK, Steps
<1>2. "mute" \notin facts[1] /\ "no_start" \notin facts[1]
  OBVIOUS
<1>3. Sane
  BY <1>2 DEF Sane, Untouched, Tame
<1>4. Starts(1)
  BY <1>2 DEF Starts, Fits, Mixed
<1>5. Honest
  BY <1>4 DEF Honest, Up
<1>. QED BY <1>1, <1>3, <1>5 DEF UpdateInv

LEMMA UpdateTypeStep == UpdateTypeOK /\ [UpdateNext]_updateVars => UpdateTypeOK'
<1> SUFFICES ASSUME UpdateTypeOK, [UpdateNext]_updateVars PROVE UpdateTypeOK'
  OBVIOUS
<1> USE UpdateAssumption DEF UpdateTypeOK, release, station, script, Steps
<1>1. CASE UNCHANGED updateVars
  BY <1>1 DEF updateVars
<1>2. CASE StationNext
  <2>1. burst' \in BOOLEAN /\ work' \in {"rest", "qso", "cq"}
    BY <1>2, Zenon DEF StationNext, WorkBegins, WorkEnds, Burst
  <2>. QED BY <1>2, <2>1 DEF StationNext, WorkBegins, WorkEnds, Burst
<1>3. CASE Released
  BY <1>3 DEF Released
<1>4. CASE Killed
  BY <1>4 DEF Killed, Go, Restarted
<1>5. CASE ControllerEnds
  BY <1>5 DEF ControllerEnds, Restarted
<1>6. CASE Fetches \/ Verifies \/ LooksAtStation
  <2>1. CASE Fetches BY <2>1 DEF Fetches
  <2>2. CASE Verifies BY <2>2 DEF Verifies, Go, Ends
  <2>3. CASE LooksAtStation
    <3>1. hold' \in BOOLEAN
      BY <2>3, Zenon DEF LooksAtStation
    <3>. QED BY <2>3, <3>1 DEF LooksAtStation, Go
  <2>. QED BY <1>6, <2>1, <2>2, <2>3
<1>7. CASE SeesRest \/ WaitedLong \/ BurstIsOver
  <2>1. CASE SeesRest BY <2>1 DEF SeesRest, Go
  <2>2. CASE WaitedLong BY <2>2 DEF WaitedLong, Go
  <2>3. CASE BurstIsOver BY <2>3 DEF BurstIsOver, Go, Ends
  <2>. QED BY <1>7, <2>1, <2>2, <2>3
<1>8. CASE ChecksOut
  <2>1. needs_pip' \in BOOLEAN
    BY <1>8, Zenon DEF ChecksOut, Go, Ends
  <2>. QED BY <1>8, <2>1 DEF ChecksOut, Go, Ends
<1>9. CASE Installs
  BY <1>9 DEF Installs, Fails, Go
<1>10. CASE Panics \/ Restarts \/ Probes \/ Back
  <2>1. CASE Panics BY <2>1 DEF Panics, Go
  <2>2. CASE Restarts BY <2>2 DEF Restarts, Restarted, Fails, Go
  <2>3. CASE Probes BY <2>3 DEF Probes, Go
  <2>4. CASE Back BY <2>4 DEF Back, Ends, Go
  <2>. QED BY <1>10, <2>1, <2>2, <2>3, <2>4
<1>. QED BY <1>1, <1>2, <1>3, <1>4, <1>5, <1>6, <1>7, <1>8, <1>9, <1>10 DEF UpdateNext, Script

(* Only the checkout and the way back change what is checked out, only pip *)
(* changes the environment.                                                *)
LEMMA UpdateInvStep ==
    UpdateTypeOK /\ UpdateInv /\ [UpdateNext]_updateVars => UpdateInv'
<1> SUFFICES ASSUME UpdateTypeOK, UpdateInv, [UpdateNext]_updateVars, kills' = {}
             PROVE (Sane /\ Honest)'
  BY DEF UpdateInv
<1>1. kills = {} /\ ~Killed /\ facts' = facts
  BY DEF UpdateNext, Script, StationNext, Released, Killed, ControllerEnds, Fetches, Verifies,
         LooksAtStation, SeesRest, WaitedLong, BurstIsOver, ChecksOut, Installs, Panics, Restarts,
         Probes, Back, Ends, updateVars, release
<1>2. Sane /\ Honest
  BY <1>1 DEF UpdateInv
<1>3. head # Down /\ \A r : Tame(r)' = Tame(r)
  BY <1>1, UpdateAssumption DEF Tame, UpdateTypeOK, Down
<1>4. ASSUME env' = env, head' = head PROVE Starts(head)' = Starts(head)
  BY <1>1, <1>4 DEF Starts, Fits, Pinned
<1>5. CASE UNCHANGED <<script, head, env, running, notice>>
  BY <1>2, <1>3, <1>4, <1>5 DEF Sane, Honest, Up, Untouched, script
<1>6. CASE ControllerEnds
  <2>1. UNCHANGED <<script, head, env, notice>>
    BY <1>6 DEF ControllerEnds
  <2>2. Starts(head) => running' = head
    BY <1>6 DEF ControllerEnds, Restarted
  <2>. QED BY <1>2, <1>3, <1>4, <2>1, <2>2 DEF Sane, Honest, Up, Untouched, script
<1>7. ASSUME UNCHANGED <<head, env, running, notice>>, step \in Untouched, step' \in Untouched
      PROVE (Sane /\ Honest)'
  BY <1>2, <1>3, <1>4, <1>7 DEF Sane, Honest, Up, Untouched
<1>8. ASSUME UNCHANGED <<head, env, running>>, notice' = "red", step \in Untouched,
             step' = "off"
      PROVE (Sane /\ Honest)'
  BY <1>2, <1>3, <1>8 DEF Sane, Honest, Up, Untouched
<1>9. CASE Fetches \/ Verifies \/ LooksAtStation \/ SeesRest \/ WaitedLong \/ BurstIsOver
  BY <1>7, <1>8, <1>9 DEF Fetches, Verifies, LooksAtStation, SeesRest, WaitedLong, BurstIsOver, Go,
                          Ends, Untouched, station
<1>10. CASE ChecksOut
  <2>1. CASE "no_checkout" \in facts[target]
    BY <1>8, <1>10, <2>1 DEF ChecksOut, Ends, Go, Untouched, station
  <2>2. CASE "no_checkout" \notin facts[target]
    <3>1. step \in Untouched /\ step' = "install" /\ label' = "forward" /\ rollback_ref' = head
      BY <1>10, <2>2 DEF ChecksOut, Untouched
    <3>. QED BY <1>2, <1>3, <3>1 DEF Sane, Honest, Untouched
  <2>. QED BY <2>1, <2>2
<1>11. ASSUME Fails, head' = head, step \notin Untouched PROVE (Sane /\ Honest)'
  BY <1>2, <1>3, <1>11, UpdateAssumption DEF Fails, Go, Sane, Honest, Untouched, UpdateTypeOK
<1>12. CASE Installs
  <2>1. CASE Go("panic") /\ UNCHANGED notice
    BY <1>2, <1>3, <1>12, <2>1 DEF Installs, Go, Sane, Honest, Untouched
  <2>2. CASE Fails
    BY <1>11, <1>12, <2>2 DEF Installs, Untouched
  <2>. QED BY <1>12, <2>1, <2>2 DEF Installs
<1>13. CASE Panics
  BY <1>2, <1>3, <1>13 DEF Panics, Go, Sane, Honest, Untouched
<1>14. CASE Restarts
  <2>1. CASE Fails
    BY <1>11, <1>14, <2>1 DEF Restarts, Untouched
  <2>2. CASE Restarted /\ running' # Down
    <3>1. running' = head /\ Starts(head) /\ head' = head /\ env' = env
      BY <2>2, <1>14 DEF Restarted, Restarts
    <3>2. CASE label = "forward"
      BY <1>2, <1>3, <1>4, <1>14, <2>2, <3>1, <3>2 DEF Restarts, Go, Sane, Honest, Up, Untouched, Fails
    <3>3. CASE label # "forward"
      BY <1>2, <1>3, <1>4, <1>14, <2>2, <3>1, <3>3 DEF Restarts, Go, Sane, Honest, Up, Untouched, Fails, UpdateTypeOK
    <3>. QED BY <3>2, <3>3
  <2>. QED BY <1>14, <2>1, <2>2 DEF Restarts
<1>15. CASE Probes
  <2>1. step = "probe" /\ Up /\ UNCHANGED <<head, env, running, rollback_ref, label>>
    BY <1>2, <1>15 DEF Probes, Ends, Go, Honest, station
  <2>2. CASE Go("back") /\ UNCHANGED notice
    <3>1. label = "forward"
      BY <1>2, <2>1 DEF Sane
    <3>. QED BY <1>2, <1>3, <2>1, <2>2, <3>1 DEF Go, Sane, Honest, Untouched
  <2>3. CASE Answers /\ Go("off") /\ notice' = "green"
    BY <1>2, <1>3, <1>4, <2>1, <2>3 DEF Go, Sane, Honest, Untouched, Up, Answers, Tame
  <2>. QED BY <1>15, <2>2, <2>3 DEF Probes
<1>16. CASE Back
  <2>1. CASE "no_return" \in facts[head]
    <3>1. step' = "off" /\ notice' = "red" /\ head' = head /\ Tame(head)
      BY <1>16, <2>1 DEF Back, Ends, Go, Tame
    <3>. QED BY <1>3, <3>1 DEF Sane, Honest, Untouched
  <2>2. CASE "no_return" \notin facts[head]
    <3>1. /\ step \notin Untouched /\ step' = "install" /\ label' = "rollback"
          /\ head' = rollback_ref /\ rollback_ref' = rollback_ref
      BY <1>16, <2>2 DEF Back, Untouched
    <3>. QED BY <1>2, <1>3, <3>1 DEF Sane, Honest, Untouched
  <2>. QED BY <2>1, <2>2
<1>17. CASE StationNext \/ Released
  BY <1>5, <1>17 DEF StationNext, WorkBegins, WorkEnds, Burst, Released, station
<1>18. CASE UNCHANGED updateVars
  BY <1>5, <1>18 DEF updateVars, station
<1>. QED BY <1>1, <1>6, <1>9, <1>10, <1>12, <1>13, <1>14, <1>15, <1>16, <1>17, <1>18
         DEF UpdateNext, Script

LEMMA EndsWell == UpdateTypeOK /\ UpdateInv => UpdateEndsWell
<1> SUFFICES ASSUME UpdateTypeOK, UpdateInv, step = "off", kills = {}, notice # "red"
             PROVE running = head /\ (Answers \/ Stuck(head))
  BY DEF UpdateEndsWell
<1>1. running = head /\ Tame(head)
  BY DEF UpdateInv, Sane, Honest, Untouched, Up
<1>2. head # Down
  BY UpdateAssumption DEF UpdateTypeOK, Down
<1>. QED BY <1>1, <1>2 DEF Tame, Answers, Stuck

(* Type correctness, for every set of releases and of what may be wrong    *)
(* with them.                                                              *)
THEOREM UpdateTypeCorrect == UpdateSpec => []UpdateTypeOK
<1>1. UpdateTypeOK /\ [UpdateNext]_updateVars => UpdateTypeOK'
  BY UpdateTypeStep
<1>. QED BY <1>1, SoundAtFirst, PTL DEF UpdateSpec

(* A run that was not killed leaves the controller on the code that is     *)
(* checked out, or tells the operator in red.                              *)
THEOREM UpdateAlwaysEndsWell == UpdateSpec => []UpdateEndsWell
<1>1. UpdateTypeOK /\ UpdateInv /\ [UpdateNext]_updateVars => (UpdateTypeOK /\ UpdateInv)'
  BY UpdateTypeStep, UpdateInvStep
<1>. QED BY <1>1, SoundAtFirst, EndsWell, PTL DEF UpdateSpec

-----------------------------------------------------------------------------
(* The migrations of the database.                                         *)
Schema == [cols : SUBSET AllColumns, form : {"old", "new"}, noise : SUBSET Readings,
           aside : (SUBSET Readings) \cup {NoTable}, rows : SUBSET Rows,
           owned : SUBSET Rows, marked : SUBSET Members]

(* Which steps come where.                                                 *)
LEMMA OrderFacts ==
    /\ Len(Order) = 14 /\ DOMAIN Order = 1..14 /\ Order[14] = "noise"
    /\ \A i \in 1..14 : /\ Order[i] \in OfUsers => i \in 2..4
                        /\ Order[i] \in FilledOnce => i > 4
                        /\ Order[i] = "noise" => i = 14
                        /\ i = 2 => Order[i] = "user_qso" /\ Order[i] \in OfUsers
                        /\ i # 2 => Order[i] # "user_qso"
BY DEF Order, OfUsers, FilledOnce

LEMMA HistoryFacts == Len(History) = 14 /\ \A i \in 1..14 : History[i] \in Migrations
<1>1. Len(History) = 14
  BY DEF History
<1>2. /\ \A i \in 1..8 : History[i] = Order[i]
      /\ History[9] = Order[11] /\ History[10] = Order[13] /\ History[11] = Order[12]
      /\ History[12] = Order[14] /\ History[13] = Order[10] /\ History[14] = Order[9]
  BY DEF History, Order
<1>3. \A k \in 1..14 : Order[k] \in Migrations
  BY OrderFacts DEF Migrations
<1>. QED BY <1>1, <1>2, <1>3

LEMMA ColumnsFacts ==
    /\ \A i \in 1..14 : ColumnsOf(Order[i]) \subseteq AllColumns
    /\ \A cols : (\A i \in 1..14 : ColumnsOf(Order[i]) \subseteq cols) => AllColumns \subseteq cols
    /\ \A i \in 1..14 : Order[i] \in FilledOnce => \E x : ColumnsOf(Order[i]) = {x}
<1>1. Migrations = {Order[i] : i \in 1..14}
  BY OrderFacts DEF Migrations
<1>2. \A s \in FilledOnce : ColumnsOf(s) = {<<s, "only">>}
  BY DEF ColumnsOf
<1>3. \A i \in 1..14 : ColumnsOf(Order[i]) \subseteq AllColumns
  BY <1>1 DEF AllColumns
<1>4. ASSUME NEW cols, \A i \in 1..14 : ColumnsOf(Order[i]) \subseteq cols PROVE AllColumns \subseteq cols
  <2>1. \A s \in Migrations : ColumnsOf(s) \subseteq cols
    BY <1>1, <1>4
  <2>. QED BY <2>1 DEF AllColumns
<1>5. \A i \in 1..14 : Order[i] \in FilledOnce => \E x : ColumnsOf(Order[i]) = {x}
  BY <1>2
<1>. QED BY <1>3, <1>4, <1>5

(* In the middle of create_all: what is there, what was put aside, and     *)
(* from where on nothing is kept before the end.                           *)
Moving ==
    /\ \A i \in 1..14 : i < stage => ColumnsOf(Order[i]) \subseteq db.cols
    /\ at # "columns" => stage <= 14 /\ ColumnsOf(Order[stage]) \subseteq db.cols
    /\ stage > 2 => open /\ db.rows \subseteq db.owned
    /\ at \in {"rename", "create", "copy", "drop"} => stage = 14
    /\ stage > 14 \/ at \in {"copy", "drop"} => db.form = "new"
    /\ db.aside = IF at \in {"create", "copy", "drop"} THEN written ELSE NoTable
    /\ at \notin {"create", "copy"} => db.noise = written

SchemaTyped ==
    /\ program \in {"off", "migrating", "up", "web"} /\ code \in {"old", "new"}
    /\ stage \in 1..15 /\ at \in {"columns", "fill", "rename", "create", "copy", "drop"}
    /\ open \in BOOLEAN /\ disk \in Schema /\ db \in Schema /\ written \in SUBSET Readings

SchemaInv ==
    /\ SchemaTyped
    /\ disk.aside = NoTable /\ disk.noise = written
    /\ ~open => db = disk
    /\ program # "migrating" => ~open /\ stage = 1 /\ at = "columns"
    /\ program = "migrating" => Moving
    /\ StartedIsMigrated

LEMMA SchemaStart == DatabaseInit => SchemaInv
<1>. SUFFICES ASSUME DatabaseInit PROVE SchemaInv
  OBVIOUS
<1>1. PICK v \in Versions, form \in {"old", "new"}, some \in SUBSET Rows, heard \in SUBSET Readings :
         /\ disk = [cols |-> UNION {ColumnsOf(History[i]) : i \in 1..v}, form |-> form,
                    noise |-> heard, aside |-> NoTable,
                    rows |-> some, owned |-> IF v < 2 THEN {} ELSE some, marked |-> {}]
         /\ written = heard
  BY DEF DatabaseInit
<1>2. UNION {ColumnsOf(History[i]) : i \in 1..v} \subseteq AllColumns
  <2>1. \A i \in 1..v : History[i] \in Migrations
    BY HistoryFacts, VersionsAssumption
  <2>. QED BY <2>1 DEF AllColumns
<1>. DEFINE cols == UNION {ColumnsOf(History[i]) : i \in 1..v}
<1>. HIDE DEF cols
<1>3. disk \in Schema
  BY <1>1, <1>2 DEF Schema, cols
<1>4. /\ program = "off" /\ code = "new" /\ stage = 1 /\ at = "columns" /\ open = FALSE /\ db = disk
  BY DEF DatabaseInit
<1>5. disk.aside = NoTable /\ disk.noise = written /\ written \in SUBSET Readings
  BY <1>1
<1>6. SchemaTyped
  <2>1. open \in BOOLEAN
    BY <1>4, Zenon
  <2>2. stage \in 1..15 /\ db \in Schema
    BY <1>3, <1>4
  <2>. QED BY <1>3, <1>4, <1>5, <2>1, <2>2, Zenon DEF SchemaTyped
<1>7. program # "migrating" /\ program # "up" /\ ~open
  BY <1>4
<1>. QED BY <1>4, <1>5, <1>6, <1>7, Zenon DEF SchemaInv, StartedIsMigrated

(* One statement of a migration.                                           *)
LEMMA MovingStep ==
    ASSUME SchemaInv, SchemaTyped',
           UNCHANGED <<program, code, written>>, program = "migrating", Moving',
           \/ UNCHANGED <<db, disk, open>>
           \/ db' = db /\ open' = TRUE /\ disk' = disk
           \/ open' = TRUE /\ disk' = disk
           \/ open' = open /\ disk' = (IF open THEN disk ELSE db') /\ (~open => db'.aside = NoTable /\ db'.noise = written)
    PROVE  SchemaInv'
BY DEF SchemaInv, StartedIsMigrated

LEMMA SchemaStep == SchemaInv /\ [DatabaseNext]_databaseVars => SchemaInv'
<1>. SUFFICES ASSUME SchemaInv, [DatabaseNext]_databaseVars PROVE SchemaInv'
  OBVIOUS
<1>0. SchemaTyped
  BY DEF SchemaInv
<1>1. CASE AddColumn
  <2>. USE <1>1
  <2>1. PICK c \in ColumnsOf(Order[stage]) \ db.cols :
           Define([db EXCEPT !.cols = @ \cup {c}])
    BY DEF AddColumn
  <2>2. /\ UNCHANGED <<program, code, written, stage, open>> /\ program = "migrating" /\ at = "columns"
        /\ stage \in 1..14 /\ at' = IF Order[stage] \in FilledOnce THEN "fill" ELSE at
    BY <1>0, <2>1, OrderFacts DEF AddColumn, Migrating, During, Define, SchemaTyped
  <2>. DEFINE more == db.cols \cup {c}
  <2>3. more \in SUBSET AllColumns
    BY <1>0, <2>2, ColumnsFacts DEF SchemaTyped, Schema
  <2>. HIDE DEF more
  <2>4. db' = [db EXCEPT !.cols = more] /\ disk' = (IF open THEN disk ELSE db')
    BY <2>1 DEF Define, more
  <2>5. /\ db' \in Schema /\ db'.cols = more /\ db'.form = db.form /\ db'.noise = db.noise
        /\ db'.aside = db.aside /\ db'.rows = db.rows /\ db'.owned = db.owned
    BY <1>0, <2>3, <2>4 DEF SchemaTyped, Schema
  <2>6. SchemaTyped'
    BY <1>0, <2>2, <2>4, <2>5 DEF SchemaTyped
  <2>7. Moving /\ db.aside = NoTable /\ db.noise = written
    BY <2>2 DEF SchemaInv, Moving
  <2>8. at' # "columns" => ColumnsOf(Order[stage]) \subseteq more
    BY <2>2, ColumnsFacts DEF more
  <2>9. Moving'
    BY <2>2, <2>5, <2>7, <2>8 DEF Moving, more
  <2>. QED BY <2>2, <2>4, <2>5, <2>6, <2>7, <2>9, MovingStep
<1>2. CASE ColumnsThere
  <2>. USE <1>2
  <2>1. /\ UNCHANGED <<program, code, written, disk, db, open>> /\ program = "migrating" /\ at = "columns"
        /\ stage \in 1..14 /\ ColumnsOf(Order[stage]) \subseteq db.cols
    BY <1>0, OrderFacts DEF ColumnsThere, Migrating, During, SchemaTyped
  <2>2. Moving
    BY <2>1 DEF SchemaInv
  <2>3. CASE at' = "fill" /\ UNCHANGED stage
    <3>1. Moving'
      BY <2>1, <2>2, <2>3 DEF Moving
    <3>. QED BY <1>0, <2>1, <2>3, <3>1, MovingStep DEF SchemaTyped
  <2>4. CASE Order[stage] = "noise" /\ db.form = "old" /\ at' = "rename" /\ UNCHANGED stage
    <3>1. Moving'
      BY <2>1, <2>2, <2>4, OrderFacts DEF Moving
    <3>. QED BY <1>0, <2>1, <2>4, <3>1, MovingStep DEF SchemaTyped
  <2>5. CASE Order[stage] \notin OfUsers /\ (Order[stage] = "noise" => db.form # "old") /\ NextStage
    <3>1. stage' = stage + 1 /\ at' = "columns" /\ stage # 2
      BY <2>1, <2>5, OrderFacts DEF NextStage
    <3>2. stage = 14 => db.form = "new"
      BY <1>0, <2>5, OrderFacts DEF SchemaTyped, Schema
    <3>3. Moving'
      BY <2>1, <2>2, <3>1, <3>2 DEF Moving
    <3>. QED BY <1>0, <2>1, <3>1, <3>3, MovingStep DEF SchemaTyped
  <2>. QED BY <2>3, <2>4, <2>5 DEF ColumnsThere
<1>3. CASE FillOwner
  <2>. USE <1>3
  <2>1. /\ UNCHANGED <<program, code, written, disk>> /\ program = "migrating" /\ at = "fill" /\ open'
        /\ stage \in 2..4 /\ stage' = stage + 1 /\ at' = "columns" /\ db' = OwnerOf(db)
    BY <1>0, OrderFacts DEF FillOwner, Migrating, During, Change, NextStage, SchemaTyped
  <2>. DEFINE all == IF Order[stage] = "user_qso" THEN db.rows ELSE db.owned
  <2>2. db' = [db EXCEPT !.owned = all]
    BY <2>1 DEF OwnerOf
  <2>3. all \in SUBSET Rows
    BY <1>0 DEF SchemaTyped, Schema
  <2>4. (stage = 2 => all = db.rows) /\ (stage # 2 => all = db.owned)
    BY <2>1, OrderFacts
  <2>. HIDE DEF all
  <2>5. /\ db' \in Schema /\ db'.cols = db.cols /\ db'.form = db.form /\ db'.noise = db.noise
        /\ db'.aside = db.aside /\ db'.rows = db.rows /\ db'.owned = all
    BY <1>0, <2>2, <2>3 DEF SchemaTyped, Schema
  <2>6. SchemaTyped' /\ open' = TRUE
    BY <1>0, <2>1, <2>5 DEF SchemaTyped, FillOwner, Change
  <2>7. Moving'
    <3>1. Moving
      BY <2>1 DEF SchemaInv
    <3>. QED BY <2>1, <2>4, <2>5, <2>6, <3>1 DEF Moving
  <2>. QED BY <2>1, <2>6, <2>7, MovingStep
<1>4. CASE FillOnce
  <2>. USE <1>4
  <2>1. /\ UNCHANGED <<program, code, written, disk>> /\ program = "migrating" /\ at = "fill"
        /\ stage \in 5..13 /\ stage' = stage + 1 /\ at' = "columns"
    <3>1. stage \in 1..14 /\ Order[stage] \in FilledOnce /\ Order[14] \notin FilledOnce
      BY <1>0, OrderFacts DEF FillOnce, Migrating, SchemaTyped, FilledOnce
    <3>. QED BY <3>1, OrderFacts DEF FillOnce, Migrating, During, Change, NextStage
  <2>2. Moving /\ open = TRUE
    BY <1>0, <2>1 DEF SchemaInv, Moving, SchemaTyped
  <2>3. open' = TRUE /\ db' \in {db, [db EXCEPT !.marked = db.rows \cap Members]}
    BY <2>2 DEF FillOnce, Change
  <2>4. /\ db' \in Schema /\ db'.cols = db.cols /\ db'.form = db.form /\ db'.noise = db.noise
        /\ db'.aside = db.aside /\ db'.rows = db.rows /\ db'.owned = db.owned
    BY <1>0, <2>3 DEF SchemaTyped, Schema
  <2>5. SchemaTyped'
    BY <1>0, <2>1, <2>3, <2>4 DEF SchemaTyped
  <2>6. Moving'
    BY <2>1, <2>2, <2>3, <2>4 DEF Moving
  <2>. QED BY <2>1, <2>3, <2>5, <2>6, MovingStep
<1>5. CASE Rename \/ Create \/ Copy \/ DropAside
  <2>. USE <1>5
  <2>0. /\ UNCHANGED <<program, code, written>> /\ program = "migrating" /\ Moving /\ at \in {"rename", "create", "copy", "drop"}
    BY DEF Rename, Create, Copy, DropAside, Migrating, During, SchemaInv
  <2>1. stage = 14 /\ open = TRUE
    BY <1>0, <2>0 DEF Moving, SchemaTyped
  <2>2. open' = TRUE /\ disk' = disk
    BY <2>1 DEF Rename, Create, Copy, DropAside, Define, Change
  <2>3. db.noise \in SUBSET Readings /\ written \in SUBSET Readings
    BY <1>0 DEF SchemaTyped, Schema
  <2>4. CASE Rename
    <3>1. db' = [db EXCEPT !.aside = db.noise, !.noise = {}] /\ at = "rename" /\ at' = "create" /\ stage' = stage
      BY <2>4 DEF Rename, Define, Migrating
    <3>2. /\ db' \in Schema /\ db'.cols = db.cols /\ db'.form = db.form
          /\ db'.aside = db.noise /\ db'.rows = db.rows /\ db'.owned = db.owned
      BY <1>0, <2>3, <3>1 DEF SchemaTyped, Schema
    <3>3. Moving' /\ SchemaTyped'
      BY <1>0, <2>0, <2>1, <2>2, <3>1, <3>2 DEF Moving, SchemaTyped
    <3>. QED BY <2>0, <2>2, <3>3, MovingStep
  <2>5. CASE Create
    <3>1. db' = [db EXCEPT !.form = "new"] /\ at = "create" /\ at' = "copy" /\ stage' = stage
      BY <2>5 DEF Create, Define, Migrating
    <3>2. /\ db' \in Schema /\ db'.cols = db.cols /\ db'.form = "new" /\ db'.noise = db.noise
          /\ db'.aside = db.aside /\ db'.rows = db.rows /\ db'.owned = db.owned
      BY <1>0, <3>1 DEF SchemaTyped, Schema
    <3>3. Moving' /\ SchemaTyped'
      BY <1>0, <2>0, <2>1, <2>2, <3>1, <3>2 DEF Moving, SchemaTyped
    <3>. QED BY <2>0, <2>2, <3>3, MovingStep
  <2>6. CASE Copy
    <3>1. db' = [db EXCEPT !.noise = db.aside] /\ at = "copy" /\ at' = "drop" /\ stage' = stage /\ db.aside = written
      BY <2>0, <2>6 DEF Copy, Change, Migrating, Moving
    <3>2. /\ db' \in Schema /\ db'.cols = db.cols /\ db'.form = db.form /\ db'.noise = written
          /\ db'.aside = db.aside /\ db'.rows = db.rows /\ db'.owned = db.owned
      BY <1>0, <2>3, <3>1 DEF SchemaTyped, Schema
    <3>3. Moving' /\ SchemaTyped'
      BY <1>0, <2>0, <2>1, <2>2, <3>1, <3>2 DEF Moving, SchemaTyped
    <3>. QED BY <2>0, <2>2, <3>3, MovingStep
  <2>7. CASE DropAside
    <3>1. db' = [db EXCEPT !.aside = NoTable] /\ at = "drop" /\ at' = "columns" /\ stage' = 15
      BY <2>1, <2>7 DEF DropAside, Define, Migrating, NextStage
    <3>2. /\ db' \in Schema /\ db'.cols = db.cols /\ db'.form = db.form /\ db'.noise = db.noise
          /\ db'.aside = NoTable /\ db'.rows = db.rows /\ db'.owned = db.owned
      BY <1>0, <3>1 DEF SchemaTyped, Schema
    <3>3. Moving' /\ SchemaTyped'
      BY <1>0, <2>0, <2>1, <2>2, <3>1, <3>2 DEF Moving, SchemaTyped
    <3>. QED BY <2>0, <2>2, <3>3, MovingStep
  <2>. QED BY <2>4, <2>5, <2>6, <2>7
<1>6. CASE Commit
  <2>1. /\ program = "migrating" /\ stage > 14 /\ program' = "up" /\ disk' = db /\ db' = db /\ Done
        /\ UNCHANGED <<code, written>>
    BY <1>6, OrderFacts DEF Commit
  <2>2. Moving /\ at = "columns" /\ AllColumns \subseteq db.cols
    BY <1>0, <2>1, ColumnsFacts DEF SchemaInv, Moving, SchemaTyped
  <2>3. db.form = "new" /\ db.aside = NoTable /\ db.noise = written /\ db.rows \subseteq db.owned
    BY <1>0, <2>1, <2>2 DEF Moving, SchemaTyped
  <2>4. open' = FALSE /\ stage' = 1 /\ at' = "columns"
    BY <2>1 DEF Done
  <2>5. SchemaTyped'
    <3>1. open' \in BOOLEAN
      BY <2>4, Zenon
    <3>2. stage' \in 1..15 /\ disk' \in Schema /\ db' \in Schema
      BY <1>0, <2>1, <2>4 DEF SchemaTyped
    <3>. QED BY <1>0, <2>1, <2>4, <3>1, <3>2, Zenon DEF SchemaTyped
  <2>6. StartedIsMigrated'
    BY <2>1, <2>2, <2>3 DEF StartedIsMigrated
  <2>7. disk'.aside = NoTable /\ disk'.noise = written' /\ db' = disk'
    BY <2>1, <2>3
  <2>8. program' # "migrating" /\ ~open'
    BY <2>1, <2>4
  <2>. QED BY <2>4, <2>5, <2>6, <2>7, <2>8, Zenon DEF SchemaInv
<1>7. CASE ProgramStarts
  <2>1. /\ UNCHANGED <<code, disk, db, open, stage, at, written>> /\ program = "off"
        /\ program' \in {"migrating", "up"} /\ (code = "new" => program' = "migrating")
    BY <1>7 DEF ProgramStarts, schemaVars
  <2>2. open = FALSE /\ db = disk /\ stage = 1 /\ at = "columns"
    BY <1>0, <2>1 DEF SchemaInv, SchemaTyped
  <2>. QED BY <1>0, <2>1, <2>2 DEF SchemaInv, SchemaTyped, Moving, StartedIsMigrated
<1>8. CASE StatementFails \/ ProgramStops
  <2>1. /\ program' \in {"off", "web"} /\ code' \in {"old", "new"} /\ db' = disk /\ UNCHANGED <<disk, written>>
        /\ open' = FALSE /\ stage' = 1 /\ at' = "columns"
    BY <1>0, <1>8 DEF StatementFails, ProgramStops, Done, SchemaTyped
  <2>2. SchemaTyped'
    <3>1. open' \in BOOLEAN
      BY <2>1, Zenon
    <3>3. stage' \in 1..15 /\ disk' \in Schema /\ db' \in Schema
      BY <1>0, <2>1 DEF SchemaTyped
    <3>2. /\ program' \in {"off", "migrating", "up", "web"} /\ written' \in SUBSET Readings
          /\ at' \in {"columns", "fill", "rename", "create", "copy", "drop"}
      BY <1>0, <2>1 DEF SchemaTyped
    <3>. QED BY <2>1, <3>1, <3>2, <3>3, Zenon DEF SchemaTyped
  <2>3. disk'.aside = NoTable /\ disk'.noise = written' /\ db' = disk'
    BY <2>1 DEF SchemaInv
  <2>4. program' # "migrating" /\ program' # "up" /\ ~open'
    BY <2>1
  <2>. QED BY <2>1, <2>2, <2>3, <2>4, Zenon DEF SchemaInv, StartedIsMigrated
<1>10. CASE LogRow
  <2>1. PICK r \in Rows \ db.rows :
           Write([db EXCEPT !.rows = @ \cup {r},
                            !.owned = IF code = "new" THEN @ \cup {r} ELSE @,
                            !.marked = IF code = "new" THEN @ \cup ({r} \cap Members) ELSE @])
    BY <1>10 DEF LogRow
  <2>. DEFINE rr == db.rows \cup {r}
              oo == IF code = "new" THEN db.owned \cup {r} ELSE db.owned
              mm == IF code = "new" THEN db.marked \cup ({r} \cap Members) ELSE db.marked
  <2>2. rr \in SUBSET Rows /\ oo \in SUBSET Rows /\ mm \in SUBSET Members
    BY <1>0 DEF SchemaTyped, Schema
  <2>3. db' = [db EXCEPT !.rows = rr, !.owned = oo, !.marked = mm] /\ disk' = db'
    BY <2>1 DEF Write
  <2>. HIDE DEF rr, oo, mm
  <2>4. /\ db' \in Schema /\ db'.cols = db.cols /\ db'.form = db.form /\ db'.noise = db.noise
        /\ db'.aside = db.aside /\ db'.rows = rr /\ db'.owned = oo
    BY <1>0, <2>2, <2>3 DEF SchemaTyped, Schema
  <2>5. /\ UNCHANGED <<program, code, open, stage, at, written>> /\ program = "up"
    BY <1>10, <2>1 DEF LogRow, Write
  <2>6. db = disk /\ open = FALSE
    BY <1>0, <2>5 DEF SchemaInv, SchemaTyped
  <2>. QED BY <1>0, <2>3, <2>4, <2>5, <2>6 DEF SchemaInv, SchemaTyped, StartedIsMigrated, rr, oo
<1>11. CASE TakeReading
  <2>1. PICK n \in Readings \ written : Write([db EXCEPT !.noise = @ \cup {n}]) /\ written' = written \cup {n}
    BY <1>11 DEF TakeReading
  <2>2. db' = [db EXCEPT !.noise = db.noise \cup {n}] /\ disk' = db'
    BY <2>1 DEF Write
  <2>3. /\ db' \in Schema /\ db'.cols = db.cols /\ db'.form = db.form /\ db'.noise = db.noise \cup {n}
        /\ db'.aside = db.aside /\ db'.rows = db.rows /\ db'.owned = db.owned
    BY <1>0, <2>2 DEF SchemaTyped, Schema
  <2>4. UNCHANGED <<program, code, open, stage, at>> /\ program = "up"
    BY <2>1 DEF Write
  <2>5. db = disk /\ open = FALSE
    BY <1>0, <2>4 DEF SchemaInv, SchemaTyped
  <2>. QED BY <1>0, <2>1, <2>2, <2>3, <2>4, <2>5 DEF SchemaInv, SchemaTyped, StartedIsMigrated
<1>12. CASE Wake \/ Prune \/ Backup \/ Note \/ SaveState \/ HourPasses \/ UNCHANGED databaseVars
  <2>1. UNCHANGED <<program, code, disk, db, open, stage, at, written>>
    BY <1>12 DEF Wake, Prune, Backup, Note, SaveState, HourPasses, Upkeep, databaseVars, schemaVars
  <2>. QED BY <1>0, <2>1 DEF SchemaInv, SchemaTyped, Moving, StartedIsMigrated
<1>. QED BY <1>1, <1>2, <1>3, <1>4, <1>5, <1>6, <1>7, <1>8, <1>10, <1>11, <1>12 DEF DatabaseNext

(* Wherever a migration was cut off, and also when an older release wrote  *)
(* in between: what the new one works with has all of its columns, every   *)
(* QSO an operator and every reading (create_all), for any QSOs, readings  *)
(* and releases a database comes from.                                     *)
THEOREM StartedIsAlwaysMigrated == DatabaseSpec => []StartedIsMigrated
<1>1. SchemaInv => StartedIsMigrated
  BY DEF SchemaInv
<1>. QED BY <1>1, SchemaStart, SchemaStep, PTL DEF DatabaseSpec

-----------------------------------------------------------------------------
(* Its backups.                                                            *)
(* What rotation leaves: the last files, in their order.                   *)
LEMMA RotatedEnd ==
    ASSUME NEW S, NEW fs \in Seq(S), fs # <<>>
    PROVE  /\ Rotated(fs) \in Seq(S) /\ Len(Rotated(fs)) \in 1..Len(fs)
           /\ \A i \in 1..Len(Rotated(fs)) :
                 Rotated(fs)[i] = fs[i + Len(fs) - Len(Rotated(fs))]
<1>. DEFINE m == IF Len(fs) > DB_BACKUP_KEEP THEN Len(fs) - DB_BACKUP_KEEP + 1 ELSE 1
            n == Len(fs)
<1>1. n \in Nat /\ n >= 1 /\ m \in 1..n
  BY DatabaseAssumption
<1>2. Rotated(fs) = SubSeq(fs, m, n)
  BY DEF Rotated
<1>. HIDE DEF m
<1>3. SubSeq(fs, m, n) \in Seq(S) /\ Len(SubSeq(fs, m, n)) = n - m + 1
  BY <1>1
<1>4. \A i \in 1..(n - m + 1) : SubSeq(fs, m, n)[i] = fs[i + m - 1]
  BY <1>1
<1>. QED BY <1>1, <1>2, <1>3, <1>4

(* The backup that was made last, once its time is saved.                  *)
File == [time : Nat, kept : BOOLEAN]
Newest == backups[Len(backups)]
NewestKept == backups # <<>> /\ Newest.kept

LEMMA FileTyped ==
    ASSUME NEW fs \in Seq(File), NEW i \in 1..Len(fs)
    PROVE  fs[i] \in File /\ fs[i].time \in Nat
<1>1. fs[i] \in File
  OBVIOUS
<1>. QED BY <1>1 DEF File

LEMMA FileKept ==
    ASSUME NEW f \in File
    PROVE  [f EXCEPT !.kept = TRUE] \in File /\ [f EXCEPT !.kept = TRUE].time = f.time
BY DEF File

LEMMA NewestTyped ==
    ASSUME backups \in Seq(File), backups # <<>>
    PROVE  Len(backups) \in 1..Len(backups) /\ Newest \in File /\ Newest.time \in Nat
<1>1. Len(backups) \in 1..Len(backups)
  OBVIOUS
<1>. QED BY <1>1, FileTyped DEF Newest

(* Whatever the loop goes by is not older than the last backup whose time  *)
(* was saved: what it remembers, and the file it read it from.             *)
BackupsInv ==
    /\ hour \in Nat /\ maintenance_at \in Nat /\ saved_at \in Nat /\ due \in Nat /\ cuts \in Nat
    /\ program \in {"off", "migrating", "up", "web"} /\ code \in {"old", "new"}
    /\ task \in {"asleep", "prune", "backup", "note"} /\ backups \in Seq(File)
    /\ task # "asleep" => program # "off"
    /\ \A i \in 1..Len(backups) : 1 <= backups[i].time /\ backups[i].time <= hour
    /\ hour >= 1
    /\ NewestKept => saved_at >= Newest.time
    /\ NewestKept /\ program # "off" => maintenance_at >= Newest.time
    /\ NewestKept /\ task \in {"prune", "backup"} => hour >= Newest.time + MAINTENANCE_INTERVAL
    /\ task = "note" => backups # <<>> /\ ~Newest.kept
    /\ BackupsAreDaily

LEMMA BackupsStart == DatabaseInit => BackupsInv
BY DEF DatabaseInit, BackupsInv, NewestKept, BackupsAreDaily, File

(* A step that makes no backup and notes none.                             *)
LEMMA BackupsStay ==
    ASSUME BackupsInv, backups' = backups, code' \in {"old", "new"}, cuts' \in Nat,
           program' \in {"off", "migrating", "up", "web"}, hour' \in {hour, hour + 1}, due' \in Nat,
           saved_at' = saved_at \/ (saved_at' = maintenance_at /\ program # "off"),
           \/ program' = "off" /\ maintenance_at' = 0
           \/ program # "off" /\ program' # "off" /\ maintenance_at' = maintenance_at
           \/ program = "off" /\ maintenance_at' = saved_at
           \/ UNCHANGED <<program, maintenance_at>>,
           task' = "asleep" \/ (program' # "off" /\ task' \in {"prune", "backup"} /\ task \in {"prune", "backup"})
             \/ (UNCHANGED task /\ program' # "off")
    PROVE  BackupsInv'
<1>1. BackupsAreDaily' /\ (NewestKept' <=> NewestKept) /\ Newest' = Newest
  BY DEF BackupsInv, BackupsAreDaily, NewestKept, Newest
<1>2. NewestKept => Newest.time \in Nat
  BY NewestTyped DEF BackupsInv, NewestKept
<1>3. \A i \in 1..Len(backups) : backups[i].time \in Nat
  BY FileTyped DEF BackupsInv
<1>4. /\ hour' \in Nat /\ maintenance_at' \in Nat /\ saved_at' \in Nat
      /\ task' \in {"asleep", "prune", "backup", "note"}
  BY DEF BackupsInv
<1>5. \A i \in 1..Len(backups') : 1 <= backups'[i].time /\ backups'[i].time <= hour'
  BY <1>3 DEF BackupsInv
<1>6. NewestKept => /\ saved_at' >= Newest.time
                    /\ program' # "off" => maintenance_at' >= Newest.time
                    /\ task' \in {"prune", "backup"} => hour' >= Newest.time + MAINTENANCE_INTERVAL
  BY <1>2, DatabaseAssumption DEF BackupsInv
<1>7. (task # "asleep" => program # "off")' /\ (task = "note" => backups # <<>> /\ ~Newest.kept)'
  BY <1>1 DEF BackupsInv
<1>8. backups' \in Seq(File) /\ hour' >= 1
  BY DEF BackupsInv
<1>. QED BY <1>1, <1>4, <1>5, <1>6, <1>7, <1>8 DEF BackupsInv

LEMMA BackupsStep == BackupsInv /\ [DatabaseNext]_databaseVars => BackupsInv'
<1>. SUFFICES ASSUME BackupsInv, [DatabaseNext]_databaseVars PROVE BackupsInv'
  OBVIOUS
<1>0. /\ hour \in Nat /\ maintenance_at \in Nat /\ saved_at \in Nat /\ due \in Nat /\ cuts \in Nat
      /\ code \in {"old", "new"} /\ task \in {"asleep", "prune", "backup", "note"} /\ backups \in Seq(File)
      /\ program \in {"off", "migrating", "up", "web"} /\ (task # "asleep" => program # "off")
  BY DEF BackupsInv
<1>1. CASE UNCHANGED <<program, code, hour, upkeepVars, cuts>>
  BY <1>0, <1>1, BackupsStay DEF upkeepVars
<1>2. CASE AddColumn \/ ColumnsThere \/ FillOwner \/ FillOnce \/ Rename \/ Create \/ Copy \/ DropAside
  BY <1>1, <1>2 DEF AddColumn, ColumnsThere, FillOwner, FillOnce, Rename, Create, Copy, DropAside, During
<1>3. CASE LogRow \/ TakeReading \/ UNCHANGED databaseVars
  BY <1>1, <1>3 DEF LogRow, TakeReading, Write, databaseVars
<1>4. CASE ProgramStarts
  BY <1>0, <1>4, BackupsStay DEF ProgramStarts
<1>5. CASE Commit \/ StatementFails
  BY <1>0, <1>5, BackupsStay DEF Commit, StatementFails, upkeepVars
<1>6. CASE ProgramStops
  BY <1>0, <1>6, BackupsStay DEF ProgramStops
<1>7. CASE HourPasses
  BY <1>0, <1>7, BackupsStay DEF HourPasses, upkeepVars
<1>8. CASE SaveState
  BY <1>0, <1>8, BackupsStay DEF SaveState, Upkeep
<1>9. CASE Wake
  <2>. UNCHANGED <<program, code, hour, cuts, maintenance_at, saved_at, backups>> /\ program = "up"
    BY <1>9 DEF Wake, Upkeep, Loop
  <2>1. CASE NotYet
    <3>1. task' = "asleep" /\ due' \in Nat
      BY <1>0, <1>9, <2>1, DatabaseAssumption DEF Wake, Sleep
    <3>. QED BY <1>0, <3>1, BackupsStay
  <2>2. CASE ~NotYet
    <3>1. task' = "prune" /\ due' = due
      BY <1>9, <2>2 DEF Wake
    <3>2. NewestKept => Newest.time \in Nat /\ Newest.time >= 1
      BY NewestTyped DEF BackupsInv, NewestKept, Newest
    <3>3. NewestKept => hour >= Newest.time + MAINTENANCE_INTERVAL
      BY <1>0, <2>2, <3>2, DatabaseAssumption DEF BackupsInv, NotYet
    <3>. QED BY <3>1, <3>3 DEF BackupsInv, NewestKept, Newest, BackupsAreDaily
  <2>. QED BY <2>1, <2>2
<1>10. CASE Prune
  <2>1. UNCHANGED <<program, code, hour, cuts, maintenance_at, saved_at, backups>> /\ program = "up" /\ task = "prune"
    BY <1>10 DEF Prune, Upkeep, Loop
  <2>2. task' \in {"asleep", "backup"} /\ due' \in Nat
    BY <1>0, <1>10, DatabaseAssumption DEF Prune, Sleep
  <2>. QED BY <1>0, <2>1, <2>2, BackupsStay
<1>11. CASE Backup
  <2>1. UNCHANGED <<program, code, hour, cuts, maintenance_at, saved_at>> /\ program = "up" /\ task = "backup"
    BY <1>11 DEF Backup, Upkeep, Loop
  <2>2. CASE Sleep(hour + MAINTENANCE_INTERVAL) /\ UNCHANGED backups
    <3>1. task' = "asleep" /\ due' \in Nat
      BY <1>0, <2>2, DatabaseAssumption DEF Sleep
    <3>. QED BY <1>0, <2>1, <2>2, <3>1, BackupsStay
  <2>3. CASE backups' = Rotated(Append(backups, [time |-> hour, kept |-> FALSE])) /\ task' = "note" /\ UNCHANGED due
    <3>. DEFINE made == [time |-> hour, kept |-> FALSE]
                longer == Append(backups, made)
                gone == Len(longer) - Len(backups')
    <3>1. longer \in Seq(File) /\ longer # <<>> /\ Len(longer) = Len(backups) + 1
      BY <1>0 DEF File
    <3>2. \A i \in 1..Len(longer) : longer[i] = IF i <= Len(backups) THEN backups[i] ELSE made
      BY <1>0
    <3>. HIDE DEF longer, made
    <3>3. /\ backups' \in Seq(File) /\ Len(backups') \in 1..Len(longer)
          /\ \A i \in 1..Len(backups') : backups'[i] = longer[i + Len(longer) - Len(backups')]
      BY <2>3, <3>1, RotatedEnd DEF longer, made
    <3>4. gone \in Nat /\ \A i \in 1..Len(backups') : i + gone \in 1..Len(longer) /\ backups'[i] = longer[i + gone]
      BY <3>1, <3>3
    <3>. HIDE DEF gone
    <3>5. \A i \in 1..Len(longer) : 1 <= longer[i].time /\ longer[i].time <= hour
      BY <1>0, <3>1, <3>2 DEF BackupsInv, made
    <3>6. \A i \in 1..(Len(longer) - 1) :
             longer[i].kept => longer[i + 1].time >= longer[i].time + MAINTENANCE_INTERVAL
      <4>. SUFFICES ASSUME NEW i \in 1..(Len(longer) - 1), longer[i].kept
                    PROVE  longer[i + 1].time >= longer[i].time + MAINTENANCE_INTERVAL
        OBVIOUS
      <4>1. i \in 1..Len(backups) /\ longer[i] = backups[i]
        BY <1>0, <3>1, <3>2
      <4>2. CASE i < Len(backups)
        BY <1>0, <3>1, <3>2, <4>1, <4>2 DEF BackupsInv, BackupsAreDaily
      <4>3. CASE i = Len(backups)
        <5>1. longer[i + 1].time = hour /\ NewestKept /\ Newest = longer[i]
          BY <1>0, <3>1, <3>2, <4>1, <4>3 DEF NewestKept, Newest, made
        <5>. QED BY <2>1, <5>1 DEF BackupsInv
      <4>. QED BY <1>0, <4>1, <4>2, <4>3
    <3>7. BackupsAreDaily'
      <4>. SUFFICES ASSUME NEW i \in 1..(Len(backups') - 1), backups'[i].kept
                    PROVE  backups'[i + 1].time >= backups'[i].time + MAINTENANCE_INTERVAL
        BY DEF BackupsAreDaily
      <4>1. i + gone \in 1..(Len(longer) - 1) /\ (i + 1) + gone = (i + gone) + 1
        BY <3>1, <3>3, <3>4 DEF gone
      <4>2. backups'[i] = longer[i + gone] /\ backups'[i + 1] = longer[(i + gone) + 1]
        BY <3>3, <3>4, <4>1
      <4>. QED BY <3>6, <4>1, <4>2
    <3>8. Newest' = made
      <4>1. Len(backups') + gone = Len(longer) /\ Len(backups') \in 1..Len(backups')
        BY <3>1, <3>3 DEF gone
      <4>2. longer[Len(longer)] = made
        BY <1>0, <3>1, <3>2
      <4>. QED BY <3>4, <4>1, <4>2 DEF Newest
    <3>9. backups' # <<>> /\ ~Newest'.kept /\ ~NewestKept'
      BY <3>3, <3>8 DEF NewestKept, made
    <3>10. \A i \in 1..Len(backups') : 1 <= backups'[i].time /\ backups'[i].time <= hour'
      BY <2>1, <3>4, <3>5
    <3>. QED BY <2>1, <2>3, <3>3, <3>7, <3>9, <3>10 DEF BackupsInv
  <2>. QED BY <1>11, <2>2, <2>3 DEF Backup
<1>12. CASE Note
  <2>1. /\ UNCHANGED <<program, code, hour, cuts>> /\ program = "up"
        /\ maintenance_at' = hour /\ task' = "asleep" /\ due' \in Nat
    BY <1>0, <1>12, DatabaseAssumption DEF Note, Upkeep, Loop, Sleep
  <2>2. backups # <<>> /\ ~Newest.kept /\ Len(backups) \in 1..Len(backups)
    BY <1>0, <1>12 DEF Note, Loop, BackupsInv
  <2>3. CASE UNCHANGED <<saved_at, backups>>
    BY <1>0, <2>1, <2>2, <2>3 DEF BackupsInv, NewestKept, Newest, BackupsAreDaily
  <2>4. CASE saved_at' = hour /\ backups' = [backups EXCEPT ![Len(backups)].kept = TRUE]
    <3>1. /\ backups' \in Seq(File) /\ Len(backups') = Len(backups)
          /\ \A i \in 1..Len(backups) : /\ backups'[i].time = backups[i].time
                                        /\ i # Len(backups) => backups'[i] = backups[i]
      <4>. DEFINE noted == [backups[Len(backups)] EXCEPT !.kept = TRUE]
      <4>1. backups' = [backups EXCEPT ![Len(backups)] = noted]
        BY <2>4
      <4>2. \A i \in 1..Len(backups) : backups[i] \in File
        BY <1>0, FileTyped
      <4>3. noted \in File /\ noted.time = backups[Len(backups)].time
        BY <2>2, <4>2, FileKept
      <4>. HIDE DEF noted
      <4>4. backups' \in Seq(File) /\ Len(backups') = Len(backups)
        BY <1>0, <2>2, <4>1, <4>3
      <4>5. \A i \in 1..Len(backups) : backups'[i] = IF i = Len(backups) THEN noted ELSE backups[i]
        BY <1>0, <2>2, <4>1
      <4>. QED BY <4>3, <4>4, <4>5
    <3>2. \A i \in 1..Len(backups') : 1 <= backups'[i].time /\ backups'[i].time <= hour'
      BY <2>1, <3>1 DEF BackupsInv
    <3>3. BackupsAreDaily'
      <4>. SUFFICES ASSUME NEW i \in 1..(Len(backups') - 1), backups'[i].kept
                    PROVE  backups'[i + 1].time >= backups'[i].time + MAINTENANCE_INTERVAL
        BY DEF BackupsAreDaily
      <4>1. /\ i \in 1..(Len(backups) - 1) /\ i \in 1..Len(backups) /\ i + 1 \in 1..Len(backups)
            /\ i # Len(backups)
        BY <1>0, <3>1
      <4>. QED BY <3>1, <4>1 DEF BackupsInv, BackupsAreDaily
    <3>4. Newest'.time <= hour
      BY <2>1, <2>2, <3>1, <3>2 DEF Newest
    <3>5. Newest'.time \in Nat
      BY <2>2, <3>1, FileTyped DEF Newest
    <3>. QED BY <1>0, <2>1, <2>4, <3>1, <3>2, <3>3, <3>4, <3>5 DEF BackupsInv
  <2>. QED BY <1>12, <2>3, <2>4 DEF Note
<1>. QED BY <1>2, <1>3, <1>4, <1>5, <1>6, <1>7, <1>8, <1>9, <1>10, <1>11, <1>12 DEF DatabaseNext

(* However often the program starts, and whether or not the time of a run  *)
(* could be saved: backups whose time was saved are a day apart from the   *)
(* next (backup_database, _maintenance_loop), for any interval and any     *)
(* number of files that are kept.                                          *)
THEOREM BackupsAreAlwaysDaily == DatabaseSpec => []BackupsAreDaily
<1>1. BackupsInv => BackupsAreDaily
  BY DEF BackupsInv
<1>. QED BY <1>1, BackupsStart, BackupsStep, PTL DEF DatabaseSpec

(* The tables, the transaction and the maintenance, for any bounds.        *)
THEOREM DatabaseTypeCorrect == DatabaseSpec => []DatabaseTypeOK
<1>1. ASSUME SchemaInv, BackupsInv PROVE DatabaseTypeOK
  <2>1. DOMAIN db = DOMAIN disk
    BY <1>1 DEF SchemaInv, SchemaTyped, Schema
  <2>2. stage \in 1..(Len(Order) + 1)
    BY <1>1, OrderFacts DEF SchemaInv, SchemaTyped
  <2>. QED BY <1>1, <2>1, <2>2, Zenon DEF SchemaInv, SchemaTyped, Schema, BackupsInv, File, DatabaseTypeOK
<1>. QED BY <1>1, SchemaStart, SchemaStep, BackupsStart, BackupsStep, PTL DEF DatabaseSpec

-----------------------------------------------------------------------------
(* The operators, and whose key is in use.                                 *)
(* In a configuration every profile holds credentials of its own account   *)
(* and the block those of the active one, except where a page has strayed. *)
ProfilesOwn(c, s) ==
    \A o \in Operators : /\ c.profiles[o].user \in {o, NoKey}
                         /\ c.profiles[o].key \in {o, NoKey} \/ o \in s
BlockOwn(c, s) ==
    /\ c.qrz.user \in {c.active, NoKey} \cup s
    /\ c.qrz.key \in {c.active, NoKey} \/ c.active \in s
OwnBy(c, s) == ProfilesOwn(c, s) /\ BlockOwn(c, s)

KeysInUse ==
    /\ OwnBy(config, strayed) /\ OwnBy(file, strayed)
    /\ writing # NoWrite => OwnBy(writing.content, strayed)
    /\ ~up => sync.at = "none"
    /\ sync.at = "fetching" => sync.key # NoKey
OperatorsInv == OperatorsTypeOK /\ KeysInUse

(* What the conversions of a configuration keep.                           *)
LEMMA FilledType ==
    ASSUME NEW own \in Credentials, NEW from \in Credentials
    PROVE  /\ Filled(own, from) \in Credentials
           /\ Filled(own, from).user \in {own.user, from.user}
           /\ Filled(own, from).key \in {own.key, from.key}
BY DEF Filled, Credentials

LEMMA MirroredOwn ==
    ASSUME NEW c \in Configuration, NEW s, ProfilesOwn(c, s),
           Operators = {c.active} => BlockOwn(c, s)
    PROVE  Mirrored(c) \in Configuration /\ Mirrored(c).active = c.active /\ OwnBy(Mirrored(c), s)
<1>. DEFINE own == c.profiles[c.active]
<1>1. c.active \in Operators /\ own \in Credentials /\ c.qrz \in Credentials
  BY DEF Configuration
<1>2. own.user \in {c.active, NoKey} /\ (own.key \in {c.active, NoKey} \/ c.active \in s)
  BY <1>1 DEF ProfilesOwn
<1>3. ASSUME NEW block \in Credentials, block.user \in {c.active, NoKey} \cup s,
             block.key \in {c.active, NoKey} \/ c.active \in s,
             Mirrored(c) = [c EXCEPT !.qrz = block]
      PROVE  Mirrored(c) \in Configuration /\ Mirrored(c).active = c.active /\ OwnBy(Mirrored(c), s)
  BY <1>3 DEF Configuration, OwnBy, ProfilesOwn, BlockOwn
<1>4. CASE Operators # {c.active}
  <2>1. Mirrored(c) = [c EXCEPT !.qrz = own]
    BY <1>4 DEF Mirrored
  <2>. QED BY <1>1, <1>2, <1>3, <2>1
<1>5. CASE Operators = {c.active}
  <2>. DEFINE block == Filled(own, c.qrz)
  <2>1. Mirrored(c) = [c EXCEPT !.qrz = block]
    BY <1>5 DEF Mirrored
  <2>2. block \in Credentials /\ block.user \in {own.user, c.qrz.user} /\ block.key \in {own.key, c.qrz.key}
    BY <1>1, FilledType
  <2>3. c.qrz.user \in {c.active, NoKey} \cup s /\ (c.qrz.key \in {c.active, NoKey} \/ c.active \in s)
    BY <1>5 DEF BlockOwn
  <2>. HIDE DEF block, own
  <2>. QED BY <1>2, <1>3, <2>1, <2>2, <2>3
<1>. QED BY <1>4, <1>5

LEMMA ValidatedOwn ==
    ASSUME NEW c \in Configuration, NEW s, OwnBy(c, s)
    PROVE  Validated(c) \in Configuration /\ OwnBy(Validated(c), s)
<1>1. CASE c.qrz.user \notin Operators
  BY <1>1 DEF Validated
<1>2. CASE c.qrz.user \in Operators
  <2>. DEFINE u == c.qrz.user
              new == Filled(c.profiles[u], c.qrz)
  <2>1. c.profiles[u] \in Credentials /\ c.qrz \in Credentials
    BY <1>2 DEF Configuration
  <2>2. new \in Credentials /\ new.user \in {c.profiles[u].user, u} /\ new.key \in {c.profiles[u].key, c.qrz.key}
    BY <2>1, FilledType
  <2>3. new.user \in {u, NoKey} /\ (new.key \in {u, NoKey} \/ u \in s)
    BY <1>2, <2>2, OperatorsAssumption DEF OwnBy, ProfilesOwn, BlockOwn
  <2>4. Validated(c) = [c EXCEPT !.profiles = [@ EXCEPT ![u] = new]]
    BY <1>2 DEF Validated
  <2>. HIDE DEF new
  <2>. QED BY <1>2, <2>2, <2>3, <2>4 DEF Configuration, OwnBy, ProfilesOwn, BlockOwn
<1>. QED BY <1>1, <1>2

LEMMA MergedOwn ==
    ASSUME NEW c \in Configuration, NEW s, OwnBy(c, s), NEW user \in Operators \cup {NoKey}
    PROVE  /\ Merged(user, c) \in Configuration
           /\ OwnBy(Merged(user, c), s \cup ({user} \cap (Operators \ {c.active})))
BY DEF Merged, Configuration, Credentials, OwnBy, ProfilesOwn, BlockOwn

LEMMA OwnByMore ==
    ASSUME NEW c, NEW s, NEW t, s \subseteq t, OwnBy(c, s)
    PROVE  OwnBy(c, t)
BY DEF OwnBy, ProfilesOwn, BlockOwn

LEMMA OperatorsStart == OperatorsInit => OperatorsInv
<1>. SUFFICES ASSUME OperatorsInit PROVE OperatorsInv
  OBVIOUS
<1>. USE OperatorsAssumption
<1>1. PICK a \in Operators, p \in [Operators -> Given] :
         /\ \A o \in Operators : p[o] \in Profiles[o]
         /\ file = Validated([active |-> a, profiles |-> p, qrz |-> p[a]])
  BY DEF OperatorsInit
<1>2. \A o \in Operators : p[o] \in Credentials /\ {p[o].user, p[o].key} \subseteq {o, NoKey}
  BY <1>1
<1>. DEFINE first == [active |-> a, profiles |-> p, qrz |-> p[a]]
<1>3. first \in Configuration
  BY <1>1, <1>2 DEF Configuration
<1>4. OwnBy(first, {})
  BY <1>2 DEF OwnBy, ProfilesOwn, BlockOwn
<1>5. file \in Configuration /\ OwnBy(file, {})
  BY <1>1, <1>3, <1>4, ValidatedOwn
<1>. QED BY <1>5 DEF OperatorsInit, OperatorsInv, OperatorsTypeOK, KeysInUse, NoWrite, NoPatch, Nobody

LEMMA BootKeeps == OperatorsInv /\ Boot => OperatorsInv'
<1>. SUFFICES ASSUME OperatorsInv, Boot PROVE OperatorsInv'
  OBVIOUS
<1>. USE OperatorsAssumption
<1>1. Validated(file) \in Configuration /\ OwnBy(Validated(file), strayed)
  BY ValidatedOwn DEF OperatorsInv, OperatorsTypeOK, KeysInUse
<1>2. config' \in Configuration /\ OwnBy(config', strayed)
  BY <1>1, MirroredOwn DEF Boot, OwnBy
<1>3. sync' \in [at : {"none", "asleep", "fetching"}, key : Operators \cup {NoKey}, due : Nat]
  BY DEF Boot, OperatorsInv, OperatorsTypeOK
<1>4. worked' \subseteq Heard
  BY <1>2 DEF Boot, OperatorsInv, OperatorsTypeOK, Configuration
<1>5. up' /\ sync'.at # "fetching" /\ sync_at' \in Nat
      /\ UNCHANGED <<file, page, writing, patch, strayed, rows, loading, saved_sync, clock, deeds>>
  BY DEF Boot, OperatorsInv, OperatorsTypeOK
<1>6. KeysInUse'
  BY <1>2, <1>5 DEF OperatorsInv, KeysInUse, OwnBy, ProfilesOwn, BlockOwn
<1>. QED BY <1>2, <1>3, <1>4, <1>5, <1>6 DEF OperatorsInv, OperatorsTypeOK

LEMMA RestartKeeps == OperatorsInv /\ Restart => OperatorsInv'
<1>. SUFFICES ASSUME OperatorsInv, Restart PROVE OperatorsInv'
  OBVIOUS
<1>1. /\ sync' \in [at : {"none", "asleep", "fetching"}, key : Operators \cup {NoKey}, due : Nat]
      /\ sync'.at = "none" /\ loading' \in [Clicks -> Operators \cup {Nobody}]
  BY DEF Restart, Nobody
<1>2. writing' = NoWrite /\ patch' = NoPatch /\ config' = file
      /\ UNCHANGED <<file, strayed, rows, saved_sync, clock>>
  BY DEF Restart
<1>3. KeysInUse'
  BY <1>1, <1>2 DEF OperatorsInv, KeysInUse, OwnBy, ProfilesOwn, BlockOwn
<1>4. OperatorsTypeOK'
  <2>1. worked' \subseteq Heard /\ sync_at' \in Nat /\ up' \in BOOLEAN
    BY DEF Restart
  <2>2. page' \in Operators \cup {NoKey, NoPage} /\ deeds' \in Nat
    BY DEF Restart, Deed, OperatorsInv, OperatorsTypeOK
  <2>. QED BY <1>1, <1>2, <2>1, <2>2 DEF OperatorsInv, OperatorsTypeOK
<1>. QED BY <1>3, <1>4 DEF OperatorsInv

LEMMA SwitchKeeps ==
    ASSUME OperatorsInv, NEW k \in Clicks, Switch(k)
    PROVE  OperatorsInv'
<1>1. PICK o \in Operators \ {config.active} :
         /\ config' = Mirrored([config EXCEPT !.active = o])
         /\ loading' = [loading EXCEPT ![k] = o]
  BY DEF Switch
<1>. DEFINE c == [config EXCEPT !.active = o]
<1>2. config \in Configuration /\ ProfilesOwn(config, strayed)
  BY DEF OperatorsInv, OperatorsTypeOK, KeysInUse, OwnBy
<1>3. c \in Configuration /\ ProfilesOwn(c, strayed) /\ Operators # {c.active}
  BY <1>1, <1>2 DEF Configuration, ProfilesOwn
<1>4. config' \in Configuration /\ OwnBy(config', strayed)
  BY <1>1, <1>3, MirroredOwn
<1>5. KeysInUse'
  BY <1>4 DEF Switch, syncVars, OperatorsInv, KeysInUse, OwnBy, ProfilesOwn, BlockOwn
<1>. QED BY <1>1, <1>4, <1>5 DEF Switch, Deed, syncVars, OperatorsInv, OperatorsTypeOK

(* A profile is given credentials of its own account, or loses them.       *)
LEMMA PatchKeeps == OperatorsInv /\ Patch => OperatorsInv'
<1>. SUFFICES ASSUME OperatorsInv, Patch PROVE OperatorsInv'
  OBVIOUS
<1>. USE OperatorsAssumption
<1>1. PICK o \in Operators, new \in Given :
         /\ new \in Profiles[o] \cup {Nothing}
         /\ config' = [config EXCEPT !.profiles[o] = new]
         /\ patch' = [of |-> o, new |-> new, at |-> "waits"]
  BY DEF Patch
<1>2. new \in Credentials /\ {new.user, new.key} \subseteq {o, NoKey}
  BY <1>1 DEF Nothing, Credentials
<1>3. config' = [config EXCEPT !.profiles = [@ EXCEPT ![o] = new]]
  BY <1>1
<1>4. config' \in Configuration
  BY <1>2, <1>3 DEF OperatorsInv, OperatorsTypeOK, Configuration
<1>5. patch' \in [of : Operators, new : Credentials, at : {"waits", "writes"}]
  BY <1>1, <1>2
<1>6. OwnBy(config, strayed)'
  BY <1>2, <1>3 DEF Patch, OperatorsInv, OperatorsTypeOK, KeysInUse, Configuration, OwnBy,
     ProfilesOwn, BlockOwn
<1>7. KeysInUse'
  BY <1>6 DEF Patch, ConfigOnly, syncVars, OperatorsInv, KeysInUse, OwnBy, ProfilesOwn, BlockOwn
<1>. QED BY <1>4, <1>5, <1>7 DEF Patch, Deed, ConfigOnly, syncVars, OperatorsInv, OperatorsTypeOK

LEMMA PersistKeeps == OperatorsInv /\ Persist => OperatorsInv'
<1>. SUFFICES ASSUME OperatorsInv, Persist PROVE OperatorsInv'
  OBVIOUS
<1>1. writing' \in [by : {"page", "patch", "other"}, content : Configuration]
      /\ writing'.content = config
  BY DEF Persist, OperatorsInv, OperatorsTypeOK
<1>2. patch' \in {NoPatch} \cup [of : Operators, new : Credentials, at : {"waits", "writes"}]
  BY DEF Persist, OperatorsInv, OperatorsTypeOK
<1>3. deeds' \in Nat
  BY DEF Persist, Deed, OperatorsInv, OperatorsTypeOK
<1>4. KeysInUse'
  BY <1>1 DEF Persist, ConfigOnly, syncVars, OperatorsInv, KeysInUse, OwnBy, ProfilesOwn, BlockOwn
<1>. QED BY <1>1, <1>2, <1>3, <1>4 DEF Persist, ConfigOnly, syncVars, OperatorsInv, OperatorsTypeOK

LEMMA PageKeeps == OperatorsInv /\ (LoadPage \/ SavePage) => OperatorsInv'
<1>1. ASSUME OperatorsInv, LoadPage PROVE OperatorsInv'
  <2>1. page' \in Operators \cup {NoKey, NoPage}
    BY <1>1 DEF LoadPage, OperatorsInv, OperatorsTypeOK, Configuration, Credentials
  <2>2. KeysInUse'
    BY <1>1 DEF LoadPage, ConfigOnly, syncVars, OperatorsInv, KeysInUse, OwnBy, ProfilesOwn, BlockOwn
  <2>. QED BY <1>1, <2>1, <2>2 DEF LoadPage, ConfigOnly, syncVars, OperatorsInv, OperatorsTypeOK
<1>2. ASSUME OperatorsInv, SavePage PROVE OperatorsInv'
  <2>1. /\ config \in Configuration /\ OwnBy(config, strayed) /\ page \in Operators \cup {NoKey}
        /\ strayed \subseteq strayed' /\ strayed' \subseteq Operators
        /\ strayed' = strayed \cup ({page} \cap (Operators \ {config.active}))
    BY <1>2 DEF SavePage, OperatorsInv, OperatorsTypeOK, KeysInUse
  <2>. DEFINE content == Validated(Merged(page, config))
  <2>2. content \in Configuration /\ OwnBy(content, strayed')
    <3>1. Merged(page, config) \in Configuration /\ OwnBy(Merged(page, config), strayed')
      BY <2>1, MergedOwn
    <3>. QED BY <3>1, ValidatedOwn
  <2>. HIDE DEF content
  <2>3. writing' = [by |-> "page", content |-> content]
    BY <1>2 DEF SavePage, content
  <2>4. OwnBy(config, strayed') /\ OwnBy(file, strayed')
    BY <1>2, <2>1, OwnByMore DEF OperatorsInv, KeysInUse
  <2>5. KeysInUse'
    BY <1>2, <2>2, <2>3, <2>4 DEF SavePage, ConfigOnly, syncVars, OperatorsInv, KeysInUse, OwnBy,
       ProfilesOwn, BlockOwn
  <2>. QED BY <1>2, <2>1, <2>2, <2>3, <2>5 DEF SavePage, Deed, ConfigOnly, syncVars, OperatorsInv,
             OperatorsTypeOK
<1>. QED BY <1>1, <1>2

LEMMA WriteEndsKeeps == OperatorsInv /\ WriteEnds => OperatorsInv'
<1>. SUFFICES ASSUME OperatorsInv, WriteEnds PROVE OperatorsInv'
  OBVIOUS
<1>1. PICK done \in BOOLEAN :
         /\ file' = IF done THEN writing.content ELSE file
         /\ config' = CASE writing.by = "page" /\ done -> writing.content
                        [] writing.by = "patch" /\ patch.of = config.active -> Mirrored(config)
                        [] OTHER -> config
  BY DEF WriteEnds
<1>2. /\ writing \in [by : {"page", "patch", "other"}, content : Configuration]
      /\ OwnBy(writing.content, strayed) /\ OwnBy(config, strayed) /\ OwnBy(file, strayed)
      /\ config \in Configuration /\ file \in Configuration
  BY DEF WriteEnds, OperatorsInv, OperatorsTypeOK, KeysInUse
<1>3. Mirrored(config) \in Configuration /\ OwnBy(Mirrored(config), strayed)
  BY <1>2, MirroredOwn DEF OwnBy
<1>4. config' \in {writing.content, Mirrored(config), config} /\ file' \in {writing.content, file}
  BY <1>1
<1>5. config' \in Configuration /\ OwnBy(config', strayed) /\ file' \in Configuration /\ OwnBy(file', strayed)
  BY <1>2, <1>3, <1>4
<1>6. writing' = NoWrite /\ patch' \in {NoPatch, patch} /\ UNCHANGED <<page, strayed, deeds>> /\ ConfigOnly
  BY DEF WriteEnds
<1>7. KeysInUse'
  BY <1>5, <1>6 DEF ConfigOnly, syncVars, OperatorsInv, KeysInUse, OwnBy, ProfilesOwn, BlockOwn
<1>. QED BY <1>5, <1>6, <1>7 DEF ConfigOnly, syncVars, OperatorsInv, OperatorsTypeOK

(* The rest leaves the configuration alone.                                *)
LEMMA RestKeeps ==
    ASSUME OperatorsInv,
           \/ \E k \in Clicks : Hydrate(k)
           \/ LogQso \/ Fetch \/ Merge \/ Discard \/ SaveRuntimeState \/ TimeGoesOn
           \/ UNCHANGED operatorVars
    PROVE  OperatorsInv'
<1>1. UNCHANGED <<up, configVars>>
  BY DEF Hydrate, LogQso, Fetch, Merge, Discard, SaveRuntimeState, TimeGoesOn, SyncOnly, operatorVars
<1>2. KeysInUse'
  <2>1. ~up => sync' = sync
    BY DEF Hydrate, LogQso, Fetch, Merge, Discard, SaveRuntimeState, TimeGoesOn, SyncOnly, operatorVars,
       syncVars
  <2>2. sync'.at = "fetching" => sync'.key # NoKey
    BY DEF Hydrate, LogQso, Fetch, Merge, Discard, SaveRuntimeState, TimeGoesOn, SyncOnly, Asleep,
       operatorVars, syncVars, OperatorsInv, KeysInUse
  <2>. QED BY <1>1, <2>1, <2>2 DEF configVars, KeysInUse, OperatorsInv, OwnBy, ProfilesOwn, BlockOwn
<1>3. /\ worked' \subseteq Heard /\ rows' \in [Operators -> SUBSET Heard]
      /\ loading' \in [Clicks -> Operators \cup {Nobody}]
  <2>1. config.active \in Operators /\ \A o \in Operators : rows[o] \subseteq Heard
    BY DEF OperatorsInv, OperatorsTypeOK, Configuration
  <2>2. CASE \E k \in Clicks : Hydrate(k)
    BY <2>1, <2>2 DEF Hydrate, OperatorsInv, OperatorsTypeOK, Nobody
  <2>3. CASE LogQso
    BY <2>1, <2>3 DEF LogQso, OperatorsInv, OperatorsTypeOK
  <2>4. CASE Merge
    <3>1. sync.key \in Operators
      BY <2>4 DEF Merge, OperatorsInv, OperatorsTypeOK, KeysInUse
    <3>. QED BY <2>4, <3>1, OperatorsAssumption DEF Merge, SyncOnly, OperatorsInv, OperatorsTypeOK
  <2>. QED BY <2>2, <2>3, <2>4 DEF Fetch, Discard, SaveRuntimeState, TimeGoesOn, SyncOnly, operatorVars,
             OperatorsInv, OperatorsTypeOK
<1>4. /\ sync' \in [at : {"none", "asleep", "fetching"}, key : Operators \cup {NoKey}, due : Nat]
      /\ sync_at' \in Nat /\ saved_sync' \in Nat /\ clock' \in Nat /\ deeds' \in Nat
  BY OperatorsAssumption DEF Hydrate, LogQso, Deed, Fetch, Merge, Discard, SaveRuntimeState, TimeGoesOn,
     SyncOnly, Asleep, operatorVars, syncVars, OperatorsInv, OperatorsTypeOK, Configuration, Credentials
<1>. QED BY <1>1, <1>2, <1>3, <1>4 DEF configVars, OperatorsInv, OperatorsTypeOK

LEMMA OperatorsStep == OperatorsInv /\ [OperatorsNext]_operatorVars => OperatorsInv'
BY BootKeeps, RestartKeeps, SwitchKeeps, PatchKeeps, PersistKeeps, PageKeeps, WriteEndsKeeps, RestKeeps
   DEF OperatorsNext

LEMMA FetchIsOwn ==
    ASSUME OperatorsInv, [OperatorsNext]_operatorVars,
           sync.at = "fetching", sync'.at = "asleep", worked' # worked
    PROVE  sync.key = config.active \/ config.active \in strayed
<1>1. CASE Merge
  BY <1>1 DEF Merge, OperatorsInv, KeysInUse, OwnBy, BlockOwn
<1>2. CASE ~Merge
  <2>1. up
    BY DEF OperatorsInv, KeysInUse
  <2>2. ~Restart
    BY DEF Restart
  <2>3. ASSUME NEW k \in Clicks, Switch(k) \/ Hydrate(k) PROVE sync' = sync
    BY <2>3 DEF Switch, Hydrate, syncVars
  <2>4. CASE LogQso \/ Patch \/ Persist \/ LoadPage \/ SavePage \/ WriteEnds \/ TimeGoesOn
             \/ UNCHANGED operatorVars
    BY <2>4 DEF LogQso, Patch, Persist, LoadPage, SavePage, WriteEnds, TimeGoesOn, ConfigOnly, syncVars,
       operatorVars
  <2>5. CASE Fetch \/ Discard \/ SaveRuntimeState
    BY <2>5 DEF Fetch, Discard, SaveRuntimeState
  <2>. QED BY <1>2, <2>1, <2>2, <2>3, <2>4, <2>5 DEF OperatorsNext, Boot
<1>. QED BY <1>1, <1>2

(* Types, and the key in use, of any number of operators with any          *)
(* credentials, switched, changed and saved in any order.                  *)
THEOREM OperatorsTypeCorrect == OperatorsSpec => []OperatorsTypeOK
<1>1. OperatorsInv => OperatorsTypeOK
  BY DEF OperatorsInv
<1>. QED BY <1>1, OperatorsStart, OperatorsStep, PTL DEF OperatorsSpec

(* What comes from QRZ is added to the stations worked only if it is the   *)
(* logbook of the account of whoever is active then (the key is compared   *)
(* once more after the fetch, _qrz_logbook_sync_loop), unless a page of    *)
(* his was saved while another was active.                                 *)
THEOREM FetchedIsAlwaysOwn == OperatorsSpec => FetchedIsOwn
<1>1. OperatorsInv /\ [OperatorsNext]_operatorVars =>
        [sync.at = "fetching" /\ sync'.at = "asleep" /\ worked' # worked =>
            sync.key = config.active \/ config.active \in strayed]_operatorVars
  BY FetchIsOwn
<1>. QED BY <1>1, OperatorsStart, OperatorsStep, PTL DEF OperatorsSpec, FetchedIsOwn

-----------------------------------------------------------------------------
(* The inbox of eQSL.                                                      *)
Row == [known : BOOLEAN, datei : BOOLEAN, versuche : Nat, fehler : BOOLEAN]
(* What the changes of a row keep.                                         *)
LEMMA RowFiled ==
    ASSUME NEW r \in Row
    PROVE  [r EXCEPT !.datei = TRUE] \in Row /\ [r EXCEPT !.datei = TRUE].known = r.known
           /\ [r EXCEPT !.datei = TRUE].datei
BY DEF Row

LEMMA RowAdded ==
    /\ [Unknown EXCEPT !.known = TRUE] \in Row /\ [Unknown EXCEPT !.known = TRUE].known
    /\ ~[Unknown EXCEPT !.known = TRUE].datei
BY DEF Row, Unknown

LEMMA RowNoted ==
    ASSUME NEW r \in Row
    PROVE  /\ Noted(r) \in Row /\ Noted(r).known = r.known
           /\ Noted(r).datei <=> r.datei \/ got = "picture"
<1>. DEFINE d == r.datei \/ got = "picture"
            f == got = "refusal"
<1>1. d \in BOOLEAN /\ f \in BOOLEAN
  OBVIOUS
<1>2. Noted(r) = [r EXCEPT !.versuche = r.versuche + 1, !.datei = d, !.fehler = f]
  BY Zenon DEF Noted
<1>. HIDE DEF d, f
<1>3. Noted(r) = [known |-> r.known, datei |-> d, versuche |-> r.versuche + 1, fehler |-> f]
  BY <1>2 DEF Row
<1>4. r.versuche + 1 \in Nat
  BY DEF Row
<1>5. Noted(r) \in Row /\ Noted(r).known = r.known
  BY <1>1, <1>3, <1>4 DEF Row
<1>6. Noted(r).datei = d
  BY <1>3
<1>. QED BY <1>5, <1>6 DEF d

(* With the types: a row is only waited for with a picture to note.        *)
InboxTyped == InboxTypeOK /\ (round = "row" => jobs # <<>>)

LEMMA InboxTypeStart == InboxInit => InboxTyped
BY DEF InboxInit, InboxTyped, InboxTypeOK, Unknown

LEMMA JobsRemain == InboxTyped /\ [InboxNext]_inboxVars => (round = "row" => jobs # <<>>)'
<1>. SUFFICES ASSUME InboxTyped, [InboxNext]_inboxVars, round' = "row" PROVE jobs' # <<>>
  OBVIOUS
<1>1. CASE CardArrives \/ DayPasses \/ UNCHANGED inboxVars
  BY <1>1 DEF CardArrives, DayPasses, inboxVars, loopVars, InboxTyped
<1>2. CASE LoopBegins \/ LoopIsCut \/ GatherOrphans \/ BeginRound \/ AskForList \/ MergeAnswer
  BY <1>2 DEF LoopBegins, LoopIsCut, GatherOrphans, BeginRound, AskForList, MergeAnswer, Goes, RoundOver,
     InboxTyped
<1>3. CASE PickJobs \/ AllFetched \/ FetchPicture \/ NoteJob
  BY <1>3 DEF PickJobs, AllFetched, FetchPicture, NoteJob, Goes, RoundOver
<1>. QED BY <1>1, <1>2, <1>3 DEF InboxNext

LEMMA InboxTypeStep == InboxTyped /\ [InboxNext]_inboxVars => InboxTyped'
<1>. SUFFICES ASSUME InboxTyped, [InboxNext]_inboxVars PROVE InboxTypeOK'
  BY JobsRemain DEF InboxTyped
<1>. InboxTypeOK
  BY DEF InboxTyped
<1>. karten \in [Inbox -> Row] /\ <<>> \in Seq(Inbox)
  BY DEF InboxTypeOK, Row
<1>1. CASE CardArrives \/ DayPasses
  <2>1. CASE CardArrives
    BY <2>1 DEF CardArrives, InboxTypeOK, loopVars
  <2>2. CASE DayPasses
    BY <2>2 DEF DayPasses, InboxTypeOK, loopVars
  <2>. QED BY <1>1, <2>1, <2>2
<1>2. CASE LoopBegins \/ LoopIsCut \/ BeginRound \/ AllFetched
  <2>1. round' \in {"off", "orphans", "pause", "lists"} /\ got' \in {got, "nothing"}
    BY <1>2 DEF LoopBegins, LoopIsCut, BeginRound, AllFetched, RoundOver, Goes
  <2>2. todo' \in {todo, {}, Accounts} /\ answer' \in {answer, {}} /\ jobs' \in {jobs, <<>>}
    BY <1>2 DEF LoopBegins, LoopIsCut, BeginRound, AllFetched, RoundOver
  <2>3. UNCHANGED <<today, booked, karten, files, loads, failures>> /\ (runs' = runs + 1 \/ runs' = runs)
    BY <1>2 DEF LoopBegins, LoopIsCut, BeginRound, AllFetched, Outside
  <2>4. todo' \subseteq Accounts /\ answer' \subseteq Inbox /\ jobs' \in Seq(Inbox)
    BY <2>2 DEF InboxTypeOK
  <2>5. /\ round' \in {"off", "orphans", "pause", "lists", "merge", "pictures", "row"}
        /\ got' \in {"nothing", "picture", "refusal", "no_answer"} /\ runs' \in Nat
    BY <2>1, <2>3 DEF InboxTypeOK
  <2>. QED BY <2>3, <2>4, <2>5 DEF InboxTypeOK
<1>3. CASE GatherOrphans
  <2>1. karten' \in [Inbox -> Row]
    BY <1>3, RowFiled DEF GatherOrphans
  <2>2. failures' \in Nat
    BY <1>3 DEF GatherOrphans, DatabaseFails, InboxTypeOK
  <2>. QED BY <1>3, <2>1, <2>2 DEF GatherOrphans, RoundOver, Outside, InboxTypeOK, Row
<1>4. CASE AskForList
  BY <1>4 DEF AskForList, Goes, Outside, InboxTypeOK
<1>5. CASE MergeAnswer
  <2>1. karten' \in [Inbox -> Row]
    BY <1>5, RowAdded DEF MergeAnswer
  <2>2. failures' \in Nat
    BY <1>5 DEF MergeAnswer, DatabaseFails, InboxTypeOK
  <2>3. /\ round' \in {"pause", "lists"} /\ todo' \in {todo, {}} /\ answer' = {}
        /\ jobs' \in {jobs, <<>>} /\ got' \in {got, "nothing"}
    BY <1>5 DEF MergeAnswer, RoundOver, Goes
  <2>. QED BY <1>5, <2>1, <2>2, <2>3 DEF MergeAnswer, Outside, InboxTypeOK, Row
<1>6. CASE PickJobs
  <2>1. PICK n \in 0..QSL_JE_RUNDE : jobs' \in [1..n -> OneEach]
    BY <1>6 DEF PickJobs
  <2>2. jobs' \in Seq(Inbox)
    BY <2>1, InboxAssumption DEF OneEach
  <2>. QED BY <1>6, <2>2 DEF PickJobs, Goes, Outside, InboxTypeOK
<1>7. CASE FetchPicture
  <2>1. jobs # <<>> => Head(jobs) \in Inbox
    BY DEF InboxTypeOK
  <2>2. files' \subseteq STRING \X Nat /\ loads' \in [Inbox -> Nat]
    <3>1. CASE files' = files /\ loads' = loads
      BY <3>1 DEF InboxTypeOK
    <3>2. CASE /\ files' = files \cup {Schluessel(Head(jobs))} /\ jobs # <<>>
               /\ loads' = [loads EXCEPT ![Head(jobs)] = @ + 1]
      <4>1. Schluessel(Head(jobs)) \in STRING \X Nat
        BY <2>1, <3>2, InboxAssumption DEF Schluessel
      <4>. QED BY <2>1, <3>2, <4>1 DEF InboxTypeOK
    <3>. QED BY <1>7, <3>1, <3>2 DEF FetchPicture
  <2>3. /\ round' \in {"pause", "row"} /\ todo' \in {todo, {}} /\ answer' \in {answer, {}}
        /\ jobs' \in {jobs, <<>>} /\ got' \in {"nothing", "picture", "refusal", "no_answer"}
    BY <1>7 DEF FetchPicture, RoundOver, Goes
  <2>. QED BY <1>7, <2>2, <2>3 DEF FetchPicture, Outside, InboxTypeOK
<1>8. CASE NoteJob
  <2>1. karten' \in [Inbox -> Row]
    BY <1>8, RowNoted DEF NoteJob
  <2>2. failures' \in Nat
    BY <1>8 DEF NoteJob, DatabaseFails, InboxTypeOK
  <2>3. jobs' \in Seq(Inbox)
    <3>1. jobs \in Seq(Inbox) /\ jobs # <<>>
      BY <1>8 DEF NoteJob, InboxTyped, InboxTypeOK
    <3>2. Tail(jobs) \in Seq(Inbox)
      BY <3>1
    <3>. QED BY <1>8, <3>2 DEF NoteJob, RoundOver
  <2>4. /\ round' \in {"pause", "pictures"} /\ todo' \in {todo, {}} /\ answer' \in {answer, {}}
        /\ got' = "nothing"
    BY <1>8 DEF NoteJob, RoundOver, Goes
  <2>. QED BY <1>8, <2>1, <2>2, <2>3, <2>4 DEF NoteJob, Outside, InboxTypeOK, Row
<1>9. CASE UNCHANGED inboxVars
  BY <1>9 DEF inboxVars, loopVars, InboxTypeOK
<1>. QED BY <1>1, <1>2, <1>3, <1>4, <1>5, <1>6, <1>7, <1>8, <1>9 DEF InboxNext

NoGaps(cards) ==
    \A c, d \in Inbox : c.to = d.to /\ d \in cards /\ booked[c] > 0 /\ booked[c] < booked[d] => c \in cards

(* Also what is known and what a list brings, together, have no gaps.      *)
GapsInv ==
    /\ InboxTyped
    /\ \A c \in Inbox : booked[c] <= today
    /\ \A c \in Known \cup answer : booked[c] > 0
    /\ NoGaps(Known)
    /\ round = "merge" => NoGaps(Known \cup answer)

LEMMA GapsStart == InboxInit => GapsInv
BY InboxTypeStart DEF InboxInit, GapsInv, InboxTyped, InboxTypeOK, NoGaps, Known, Unknown

(* A change that leaves the calendar alone.                                *)
LEMMA GapsStay ==
    ASSUME GapsInv, InboxTyped', UNCHANGED <<today, booked>>, Known' = Known,
           answer' = {} \/ answer' = answer,
           round' = "merge" => round = "merge" /\ answer' = answer
    PROVE  GapsInv'
BY DEF GapsInv, InboxTyped, InboxTypeOK, NoGaps

LEMMA ListHasNoGaps ==
    ASSUME GapsInv, NEW o, NEW day \in Nat, Since(o, day),
           NEW list, list = {c \in Inbox : c.to = o /\ booked[c] > 0 /\ booked[c] >= day}
    PROVE  NoGaps(Known \cup list)
<1>. SUFFICES ASSUME NEW c \in Inbox, NEW d \in Inbox, c.to = d.to, d \in Known \cup list,
                     booked[c] > 0, booked[c] < booked[d]
              PROVE  c \in Known \cup list
  BY DEF NoGaps
<1>1. CASE d \in Known
  BY <1>1 DEF GapsInv, InboxTyped, InboxTypeOK, NoGaps
<1>2. CASE d \in list /\ booked[c] >= day
  BY <1>2
<1>3. CASE d \in list /\ booked[c] < day
  <2>1. PICK k \in Known : k.to = o /\ booked[k] = day + 1
    <3>1. booked[c] \in Nat /\ day # 0
      BY <1>3 DEF GapsInv, InboxTyped, InboxTypeOK
    <3>. QED BY <3>1 DEF Since
  <2>2. k \in Inbox /\ booked[c] < booked[k]
    BY <1>3, <2>1 DEF Known, GapsInv, InboxTyped, InboxTypeOK
  <2>. QED BY <1>3, <2>1, <2>2 DEF GapsInv, InboxTyped, InboxTypeOK, NoGaps
<1>. QED BY <1>1, <1>2, <1>3 DEF GapsInv, InboxTyped, InboxTypeOK

LEMMA GapsStep == GapsInv /\ [InboxNext]_inboxVars => GapsInv'
<1>. SUFFICES ASSUME GapsInv, [InboxNext]_inboxVars PROVE GapsInv'
  OBVIOUS
<1>. InboxTyped'
  BY InboxTypeStep DEF GapsInv
<1>1. CASE CardArrives
  <2>1. PICK c \in Inbox : booked[c] = 0 /\ booked' = [booked EXCEPT ![c] = today]
    BY <1>1 DEF CardArrives
  <2>2. Known' = Known /\ answer' = answer /\ round' = round /\ today' = today /\ c \notin Known \cup answer
    BY <1>1, <2>1 DEF CardArrives, loopVars, Known, GapsInv, InboxTyped, InboxTypeOK
  <2>3. today \in Nat /\ booked \in [Inbox -> Nat] /\ Known \cup answer \subseteq Inbox
    BY DEF GapsInv, InboxTyped, InboxTypeOK, Known
  <2>4. \A d \in Inbox : booked'[d] = IF d = c THEN today ELSE booked[d]
    BY <2>1, <2>3
  <2>5. \A d \in Inbox : booked'[d] <= today'
    BY <2>2, <2>3, <2>4 DEF GapsInv
  <2>6. \A d \in Known \cup answer : booked'[d] > 0
    BY <2>2, <2>3, <2>4 DEF GapsInv
  <2>7. ASSUME NEW cards \in SUBSET (Known \cup answer), NoGaps(cards) PROVE NoGaps(cards)'
    BY <2>2, <2>3, <2>4, <2>7 DEF GapsInv, NoGaps
  <2>. QED BY <2>2, <2>5, <2>6, <2>7 DEF GapsInv, NoGaps
<1>2. CASE DayPasses
  BY <1>2 DEF DayPasses, loopVars, Known, GapsInv, InboxTyped, InboxTypeOK, NoGaps
<1>3. CASE LoopBegins \/ LoopIsCut \/ BeginRound \/ PickJobs \/ AllFetched \/ FetchPicture
           \/ UNCHANGED inboxVars
  <2>1. UNCHANGED <<today, booked, karten>>
    BY <1>3 DEF LoopBegins, LoopIsCut, BeginRound, PickJobs, AllFetched, FetchPicture, Outside, inboxVars
  <2>2. /\ answer' = {} \/ answer' = answer
        /\ round' = "merge" => round = "merge" /\ answer' = answer
    BY <1>3 DEF LoopBegins, LoopIsCut, BeginRound, PickJobs, AllFetched, FetchPicture, Goes, RoundOver,
       inboxVars, loopVars
  <2>. QED BY <2>1, <2>2, GapsStay DEF Known
<1>4. CASE GatherOrphans
  <2>1. UNCHANGED <<today, booked>> /\ round' = "pause" /\ answer' = {}
    BY <1>4 DEF GatherOrphans, RoundOver, Outside
  <2>2. ASSUME NEW c \in Inbox PROVE karten'[c].known = karten[c].known
    <3>1. karten[c] \in Row
      BY DEF GapsInv, InboxTyped, InboxTypeOK, Row
    <3>2. karten'[c] \in {karten[c], [karten[c] EXCEPT !.datei = TRUE]}
      BY <1>4 DEF GatherOrphans
    <3>. QED BY <3>1, <3>2, RowFiled
  <2>3. Known' = Known
    BY <2>2 DEF Known
  <2>. QED BY <2>1, <2>3, GapsStay
<1>5. CASE AskForList
  <2>1. PICK o \in todo :
         \/ \E day \in 0..today :
              /\ Since(o, day)
              /\ answer' = {c \in Inbox : c.to = o /\ booked[c] > 0 /\ booked[c] >= day}
         \/ UNCHANGED <<answer, round>>
    BY <1>5 DEF AskForList, Goes
  <2>2. UNCHANGED <<today, booked>> /\ Known' = Known
    BY <1>5 DEF AskForList, Outside, Known
  <2>3. CASE UNCHANGED <<answer, round>>
    BY <2>2, <2>3, GapsStay
  <2>4. ASSUME NEW day \in 0..today, Since(o, day),
               answer' = {c \in Inbox : c.to = o /\ booked[c] > 0 /\ booked[c] >= day}
        PROVE  GapsInv'
    <3>1. day \in Nat
      BY DEF GapsInv, InboxTyped, InboxTypeOK
    <3>2. NoGaps(Known \cup answer')
      BY <2>4, <3>1, ListHasNoGaps
    <3>. QED BY <2>2, <2>4, <3>2 DEF GapsInv, InboxTyped, InboxTypeOK, NoGaps
  <2>. QED BY <2>1, <2>3, <2>4
<1>6. CASE MergeAnswer
  <2>. DEFINE new == answer \ Known
  <2>1. UNCHANGED <<today, booked>>
    BY <1>6 DEF MergeAnswer, Outside
  <2>2. CASE karten' = karten /\ answer' = {} /\ round' = "pause"
    BY <2>1, <2>2, GapsStay DEF Known
  <2>3. CASE /\ karten' = [c \in Inbox |-> IF c \in new THEN [Unknown EXCEPT !.known = TRUE]
                                           ELSE karten[c]]
             /\ answer' = {} /\ round' = "lists"
    <3>1. Known' = Known \cup answer
      BY <2>3 DEF Known, GapsInv, InboxTyped, InboxTypeOK, Unknown
    <3>. QED BY <1>6, <2>1, <2>3, <3>1 DEF MergeAnswer, GapsInv, InboxTyped, InboxTypeOK, NoGaps
  <2>. QED BY <1>6, <2>2, <2>3 DEF MergeAnswer, RoundOver, Goes
<1>7. CASE NoteJob
  <2>1. UNCHANGED <<today, booked>> /\ round' # "merge" /\ (answer' = {} \/ answer' = answer)
    BY <1>7 DEF NoteJob, Outside, RoundOver, Goes
  <2>2. ASSUME NEW c \in Inbox PROVE karten'[c].known = karten[c].known
    <3>1. karten \in [Inbox -> Row]
      BY DEF GapsInv, InboxTyped, InboxTypeOK, Row
    <3>2. karten' = karten \/ karten' = [karten EXCEPT ![Head(jobs)] = Noted(karten[Head(jobs)])]
      BY <1>7 DEF NoteJob
    <3>3. karten'[c] \in {karten[c], Noted(karten[c])}
      BY <3>1, <3>2
    <3>. QED BY <3>1, <3>3, RowNoted
  <2>3. Known' = Known
    BY <2>2 DEF Known
  <2>. QED BY <2>1, <2>3, GapsStay
<1>. QED BY <1>1, <1>2, <1>3, <1>4, <1>5, <1>6, <1>7 DEF InboxNext

(* However the lists fail: each begins a day before the newest card known, *)
(* and nothing between two of them is lost (_qsl_liste_abgleichen), for    *)
(* any cards and accounts.                                                 *)
THEOREM CardsAlwaysWithoutGaps == InboxSpec => []CardsWithoutGaps
<1>1. GapsInv => CardsWithoutGaps
  BY DEF GapsInv, InboxTyped, InboxTypeOK, NoGaps, CardsWithoutGaps
<1>. QED BY <1>1, GapsStart, GapsStep, PTL DEF InboxSpec

(* The types of the tables and of the queue, for any bounds.               *)
THEOREM InboxTypeCorrect == InboxSpec => []InboxTypeOK
<1>1. InboxTyped => InboxTypeOK
  BY DEF InboxTyped
<1>. QED BY <1>1, InboxTypeStart, InboxTypeStep, PTL DEF InboxSpec

(* A card whose picture is in its file, and whose row does not say so yet, *)
(* is the first of the queue: or else something has failed since.          *)
Waits(c) == karten[c].known /\ ~karten[c].datei
InHand(c) == round = "row" /\ got = "picture" /\ c = Head(jobs)
PicturesInv ==
    /\ InboxTyped /\ PicturesAreKept
    /\ \A c \in Inbox : loads[c] > 0 => karten[c].known /\ Schluessel(c) \in files
    /\ \A c \in Inbox : round \notin {"off", "orphans"} /\ Waits(c) /\ ~InHand(c) => loads[c] <= failures
    /\ round \in {"pictures", "row"} =>
         /\ \A i \in DOMAIN jobs : Waits(jobs[i])
         /\ \A i, k \in DOMAIN jobs : jobs[i] = jobs[k] => i = k
    /\ round = "row" /\ got = "picture" => Schluessel(Head(jobs)) \in files

LEMMA PicturesStart == InboxInit => PicturesInv
BY InboxTypeStart DEF InboxInit, PicturesInv, PicturesAreKept, Unknown, Waits

(* A step that touches neither the tables nor the queue of pictures.       *)
LEMMA PicturesStay ==
    ASSUME PicturesInv, InboxTyped', UNCHANGED <<karten, files, loads>>,
           failures' \in {failures, failures + 1},
           \/ round' \in {"off", "orphans"}
           \/ round' = round /\ UNCHANGED <<jobs, got>>
           \/ round' \in {"pause", "lists", "merge"} /\ failures' = failures + 1
           \/ /\ round' \in {"pause", "lists", "merge"}
              /\ round \in {"pause", "lists", "merge", "pictures"}
    PROVE  PicturesInv'
<1>. loads \in [Inbox -> Nat] /\ failures \in Nat
  BY DEF PicturesInv, InboxTyped, InboxTypeOK
<1>0. \A c \in Inbox : loads[c] <= 1 + failures /\ (karten[c].datei => Schluessel(c) \in files)
  BY DEF PicturesInv, PicturesAreKept
<1>1. PicturesAreKept'
  <2>. SUFFICES ASSUME NEW c \in Inbox
                PROVE  (karten[c].datei => Schluessel(c) \in files) /\ loads[c] <= 1 + failures'
    BY DEF PicturesAreKept, Schluessel
  <2>. QED BY <1>0
<1>2. \A c \in Inbox : (loads[c] > 0 => karten[c].known /\ Schluessel(c) \in files)'
  BY DEF PicturesInv, Schluessel
<1>3. \A c \in Inbox : (round \notin {"off", "orphans"} /\ Waits(c) /\ ~InHand(c) => loads[c] <= failures)'
  <2>1. CASE round' \in {"off", "orphans"} \/ (round' = round /\ UNCHANGED <<jobs, got>>)
    BY <2>1 DEF PicturesInv, Waits, InHand
  <2>2. CASE failures' = failures + 1
    BY <1>0, <2>2
  <2>3. CASE round \in {"pause", "lists", "merge", "pictures"}
    BY <2>3 DEF PicturesInv, Waits, InHand
  <2>. QED BY <2>1, <2>2, <2>3
<1>4. round' \in {"pictures", "row"} => round \in {"pictures", "row"} /\ jobs' = jobs
  OBVIOUS
<1>5. (round \in {"pictures", "row"} =>
         /\ \A i \in DOMAIN jobs : Waits(jobs[i])
         /\ \A i, k \in DOMAIN jobs : jobs[i] = jobs[k] => i = k)'
  BY <1>4 DEF PicturesInv, Waits
<1>6. (round = "row" /\ got = "picture" => Schluessel(Head(jobs)) \in files)'
  BY DEF PicturesInv, Schluessel
<1>. QED BY <1>1, <1>2, <1>3, <1>5, <1>6 DEF PicturesInv

LEMMA PicturesStep == PicturesInv /\ [InboxNext]_inboxVars => PicturesInv'
<1>. SUFFICES ASSUME PicturesInv, [InboxNext]_inboxVars PROVE PicturesInv'
  OBVIOUS
<1>. InboxTyped /\ InboxTyped'
  BY InboxTypeStep DEF PicturesInv
<1>0. /\ karten \in [Inbox -> Row] /\ loads \in [Inbox -> Nat] /\ failures \in Nat /\ jobs \in Seq(Inbox)
      /\ answer \subseteq Inbox
  BY DEF InboxTyped, InboxTypeOK, Row
<1>1. CASE CardArrives \/ DayPasses \/ LoopBegins \/ LoopIsCut \/ BeginRound \/ AskForList \/ AllFetched
           \/ UNCHANGED inboxVars
  <2>1. UNCHANGED <<karten, files, loads, failures>>
    BY <1>1 DEF CardArrives, DayPasses, LoopBegins, LoopIsCut, BeginRound, AskForList, AllFetched, inboxVars
  <2>2. CASE CardArrives \/ DayPasses \/ UNCHANGED inboxVars
    BY <2>1, <2>2, PicturesStay DEF CardArrives, DayPasses, inboxVars, loopVars
  <2>3. CASE LoopBegins \/ LoopIsCut
    <3>1. round' \in {"off", "orphans"}
      BY <2>3 DEF LoopBegins, LoopIsCut, Goes
    <3>. QED BY <2>1, <3>1, PicturesStay
  <2>4. CASE BeginRound \/ AskForList \/ AllFetched
    <3>1. round' \in {"pause", "lists", "merge"} /\ round \in {"pause", "lists", "merge", "pictures"}
      BY <2>4 DEF BeginRound, AskForList, AllFetched, RoundOver, Goes
    <3>. QED BY <2>1, <3>1, PicturesStay
  <2>. QED BY <1>1, <2>2, <2>3, <2>4
<1>2. CASE GatherOrphans
  <2>1. CASE DatabaseFails /\ UNCHANGED karten
    BY <1>2, <2>1, PicturesStay DEF GatherOrphans, RoundOver, DatabaseFails
  <2>2. CASE /\ karten' = [c \in Inbox |-> IF karten[c].known /\ Schluessel(c) \in files
                                           THEN [karten[c] EXCEPT !.datei = TRUE] ELSE karten[c]]
             /\ UNCHANGED failures
    <3>1. /\ UNCHANGED <<files, loads, failures>> /\ round' = "pause"
      BY <1>2, <2>2 DEF GatherOrphans, RoundOver
    <3>2. ASSUME NEW c \in Inbox
          PROVE  /\ karten'[c].known = karten[c].known
                 /\ karten'[c].datei => Schluessel(c) \in files
                 /\ karten[c].known /\ Schluessel(c) \in files => karten'[c].datei
      <4>1. karten[c] \in Row
        BY <1>0
      <4>2. CASE karten[c].known /\ Schluessel(c) \in files
        BY <2>2, <4>1, <4>2, RowFiled
      <4>3. CASE ~(karten[c].known /\ Schluessel(c) \in files)
        BY <2>2, <4>3 DEF PicturesInv, PicturesAreKept
      <4>. QED BY <4>2, <4>3
    <3>3. PicturesAreKept'
      BY <3>1, <3>2 DEF PicturesInv, PicturesAreKept, Schluessel
    <3>4. \A c \in Inbox : (loads[c] > 0 => karten[c].known /\ Schluessel(c) \in files)'
      BY <3>1, <3>2 DEF PicturesInv, Schluessel
    <3>5. \A c \in Inbox : (Waits(c) => loads[c] <= failures)'
      BY <1>0, <3>1, <3>2 DEF PicturesInv, Waits
    <3>. QED BY <3>1, <3>3, <3>4, <3>5 DEF PicturesInv
  <2>. QED BY <1>2, <2>1, <2>2 DEF GatherOrphans
<1>3. CASE MergeAnswer
  <2>. DEFINE new == answer \ Known
  <2>1. CASE UNCHANGED karten /\ RoundOver /\ failures' \in {failures, failures + 1}
    <3>1. UNCHANGED <<files, loads>> /\ round = "merge" /\ round' = "pause"
      BY <1>3, <2>1 DEF MergeAnswer, RoundOver
    <3>. QED BY <2>1, <3>1, PicturesStay
  <2>2. CASE /\ karten' = [c \in Inbox |-> IF c \in new THEN [Unknown EXCEPT !.known = TRUE]
                                           ELSE karten[c]]
             /\ UNCHANGED failures /\ round' = "lists"
    <3>1. UNCHANGED <<files, loads>> /\ round = "merge"
      BY <1>3 DEF MergeAnswer
    <3>2. ASSUME NEW c \in Inbox
          PROVE  \/ karten'[c] = karten[c]
                 \/ ~karten[c].known /\ karten'[c].known /\ ~karten'[c].datei
      BY <2>2, RowAdded DEF Known
    <3>3. PicturesAreKept'
      BY <2>2, <3>1, <3>2 DEF PicturesInv, PicturesAreKept, Schluessel
    <3>4. \A c \in Inbox : (loads[c] > 0 => karten[c].known /\ Schluessel(c) \in files)'
      BY <3>1, <3>2 DEF PicturesInv, Schluessel
    <3>5. \A c \in Inbox : (Waits(c) => loads[c] <= failures)'
      <4>. SUFFICES ASSUME NEW c \in Inbox, Waits(c)' PROVE loads[c] <= failures
        BY <2>2, <3>1
      <4>1. CASE karten'[c] = karten[c]
        BY <3>1, <4>1 DEF PicturesInv, Waits, InHand
      <4>2. CASE ~karten[c].known
        BY <1>0, <4>2 DEF PicturesInv
      <4>. QED BY <3>2, <4>1, <4>2
    <3>. QED BY <2>2, <3>3, <3>4, <3>5 DEF PicturesInv
  <2>. QED BY <1>3, <2>1, <2>2 DEF MergeAnswer, Goes, DatabaseFails
<1>4. CASE PickJobs
  <2>1. UNCHANGED <<karten, files, loads, failures>> /\ round = "lists" /\ round' = "pictures"
    BY <1>4 DEF PickJobs, Goes
  <2>2. PICK n \in 0..QSL_JE_RUNDE : jobs' \in [1..n -> OneEach] /\ JobList(jobs')
    BY <1>4 DEF PickJobs
  <2>3. \A i \in DOMAIN jobs' : jobs'[i] \in OneEach
    BY <2>2
  <2>4. \A i \in DOMAIN jobs' : Waits(jobs'[i])
    BY <2>3 DEF OneEach, Open, Known, Waits
  <2>5. \A i, k \in DOMAIN jobs' : jobs'[i] = jobs'[k] => i = k
    BY <2>2 DEF JobList, IsInjective
  <2>6. PicturesAreKept'
    BY <2>1 DEF PicturesInv, PicturesAreKept, Schluessel
  <2>. QED BY <2>1, <2>4, <2>5, <2>6 DEF PicturesInv, Waits, InHand, Schluessel
<1>5. CASE FetchPicture
  <2>0. UNCHANGED <<karten, failures>> /\ round = "pictures" /\ jobs # <<>>
    BY <1>5 DEF FetchPicture
  <2>1. CASE UNCHANGED <<files, loads>> /\ RoundOver
    BY <2>0, <2>1, PicturesStay DEF RoundOver
  <2>2. CASE UNCHANGED <<files, loads, jobs>> /\ round' = "row" /\ got' # "picture"
    <3>1. PicturesAreKept'
      BY <2>0, <2>2 DEF PicturesInv, PicturesAreKept, Schluessel
    <3>. QED BY <2>0, <2>2, <3>1 DEF PicturesInv, Waits, InHand, Schluessel
  <2>3. CASE /\ files' = files \cup {Schluessel(Head(jobs))} /\ loads' = [loads EXCEPT ![Head(jobs)] = @ + 1]
             /\ got' = "picture" /\ round' = "row" /\ jobs' = jobs
    <3>. DEFINE h == Head(jobs)
    <3>1. h \in Inbox /\ h = jobs[1] /\ 1 \in DOMAIN jobs
      BY <1>0, <2>0
    <3>2. Waits(h) /\ loads[h] <= failures
      BY <2>0, <3>1 DEF PicturesInv, InHand
    <3>3. ASSUME NEW c \in Inbox PROVE loads'[c] = (IF c = h THEN loads[c] + 1 ELSE loads[c])
      BY <1>0, <2>3, <3>1
    <3>4. PicturesAreKept'
      <4>. SUFFICES ASSUME NEW c \in Inbox
                    PROVE  (karten[c].datei => Schluessel(c) \in files') /\ loads'[c] <= 1 + failures
        BY <2>0 DEF PicturesAreKept, Schluessel
      <4>1. karten[c].datei => Schluessel(c) \in files'
        BY <2>3 DEF PicturesInv, PicturesAreKept
      <4>2. loads[c] <= 1 + failures
        BY DEF PicturesInv, PicturesAreKept
      <4>. QED BY <1>0, <3>2, <3>3, <4>1, <4>2
    <3>5. \A c \in Inbox : (loads[c] > 0 => karten[c].known /\ Schluessel(c) \in files)'
      BY <2>0, <2>3, <3>2, <3>3 DEF PicturesInv, Waits, Schluessel
    <3>6. \A c \in Inbox : (Waits(c) /\ ~InHand(c) => loads[c] <= failures)'
      BY <2>0, <2>3, <3>3 DEF PicturesInv, Waits, InHand
    <3>7. /\ \A i \in DOMAIN jobs' : (Waits(jobs[i]))'
          /\ \A i, k \in DOMAIN jobs' : jobs'[i] = jobs'[k] => i = k
          /\ Schluessel(Head(jobs')) \in files'
      BY <2>0, <2>3 DEF PicturesInv, Waits
    <3>. QED BY <2>3, <3>4, <3>5, <3>6, <3>7 DEF PicturesInv, Schluessel
  <2>. QED BY <1>5, <2>0, <2>1, <2>2, <2>3 DEF FetchPicture, Goes
<1>6. CASE NoteJob
  <2>0. UNCHANGED <<files, loads>> /\ round = "row" /\ jobs # <<>>
    BY <1>6 DEF NoteJob, InboxTyped
  <2>1. CASE UNCHANGED karten /\ DatabaseFails /\ RoundOver
    BY <2>0, <2>1, PicturesStay DEF RoundOver, DatabaseFails
  <2>2. CASE /\ karten' = [karten EXCEPT ![Head(jobs)] = Noted(karten[Head(jobs)])]
             /\ round' = "pictures" /\ jobs' = Tail(jobs) /\ UNCHANGED failures
    <3>. DEFINE h == Head(jobs)
    <3>1. h \in Inbox /\ h = jobs[1] /\ 1 \in DOMAIN jobs
      BY <1>0, <2>0
    <3>2. ASSUME NEW c \in Inbox
          PROVE  /\ karten'[c].known = karten[c].known
                 /\ karten'[c].datei <=> karten[c].datei \/ InHand(c)
      <4>1. CASE c = h
        <5>1. karten'[c] = Noted(karten[c]) /\ karten[c] \in Row
          BY <1>0, <2>2, <4>1
        <5>2. InHand(c) <=> got = "picture"
          BY <2>0, <4>1 DEF InHand
        <5>. QED BY <5>1, <5>2, RowNoted
      <4>2. CASE c # h
        BY <1>0, <2>2, <4>2 DEF InHand
      <4>. QED BY <4>1, <4>2
    <3>3. PicturesAreKept'
      <4>. SUFFICES ASSUME NEW c \in Inbox
                    PROVE  (karten'[c].datei => Schluessel(c) \in files) /\ loads[c] <= 1 + failures
        BY <2>0, <2>2 DEF PicturesAreKept, Schluessel
      <4>1. InHand(c) => Schluessel(c) \in files
        BY DEF PicturesInv, InHand
      <4>. QED BY <3>2, <4>1 DEF PicturesInv, PicturesAreKept
    <3>4. \A c \in Inbox : (loads[c] > 0 => karten[c].known /\ Schluessel(c) \in files)'
      BY <2>0, <3>2 DEF PicturesInv, Schluessel
    <3>5. \A c \in Inbox : (Waits(c) => loads[c] <= failures)'
      BY <2>0, <2>2, <3>2 DEF PicturesInv, Waits
    <3>6. Len(jobs') = Len(jobs) - 1 /\ \A i \in DOMAIN jobs' : i + 1 \in DOMAIN jobs /\ i + 1 # 1 /\ jobs'[i] = jobs[i + 1]
      BY <1>0, <2>0, <2>2
    <3>7. ASSUME NEW i \in DOMAIN jobs' PROVE (Waits(jobs[i]))'
      <4>1. jobs'[i] \in Inbox /\ jobs'[i] # h /\ Waits(jobs'[i])
        BY <1>0, <2>0, <3>1, <3>6 DEF PicturesInv
      <4>. QED BY <3>2, <4>1 DEF Waits, InHand
    <3>8. \A i, k \in DOMAIN jobs' : jobs'[i] = jobs'[k] => i = k
      BY <1>0, <2>0, <2>2, <3>6 DEF PicturesInv
    <3>. QED BY <2>2, <3>3, <3>4, <3>5, <3>7, <3>8 DEF PicturesInv, Waits
  <2>. QED BY <1>6, <2>1, <2>2 DEF NoteJob, Goes
<1>. QED BY <1>1, <1>2, <1>3, <1>4, <1>5, <1>6 DEF InboxNext

(* Through restarts, cuts between a file and its row, refusals and errors: *)
(* what a row names is there, and nothing is fetched again but after a     *)
(* failure of the database (_qsl_waisen_einsammeln), for any cards.        *)
THEOREM PicturesAlwaysKept == InboxSpec => []PicturesAreKept
<1>1. PicturesInv => PicturesAreKept
  BY DEF PicturesInv
<1>. QED BY <1>1, PicturesStart, PicturesStep, PTL DEF InboxSpec

-----------------------------------------------------------------------------
(* The watchlist.                                                          *)
(* What the program remembers of the last push of a call is what a reader  *)
(* of its history sees, unless it was forgotten with the call.             *)
PushesNoted ==
    /\ minute \in Nat /\ last_alert \in [Wanted -> Nat] /\ pushed \in [Wanted -> Nat]
    /\ \A c \in Wanted : pushed[c] > 0 => last_alert[c] = pushed[c]

LEMMA WatchStart == WatchInit => PushesNoted
BY DEF WatchInit, PushesNoted

LEMMA WatchStep ==
    ASSUME PushesNoted, [WatchNext]_watchVars
    PROVE  /\ PushesNoted'
           /\ \A c \in Wanted : pushed[c] > 0 /\ pushed'[c] # pushed[c] /\ pushed'[c] > 0
                                => pushed'[c] - pushed[c] >= Abstand(c)
<1>. DEFINE Spaced == \A c \in Wanted : pushed[c] > 0 /\ pushed'[c] # pushed[c] /\ pushed'[c] > 0
                                        => pushed'[c] - pushed[c] >= Abstand(c)
<1>1. ASSUME UNCHANGED <<minute, last_alert, pushed>>
      PROVE  PushesNoted' /\ Spaced
  BY <1>1 DEF PushesNoted
<1>2. ASSUME NEW c \in Wanted, PushAlert(c)
      PROVE  PushesNoted' /\ Spaced
  <2>1. /\ pushed' = [pushed EXCEPT ![c] = minute] /\ last_alert' = [last_alert EXCEPT ![c] = minute]
        /\ minute' = minute
    BY <1>2 DEF PushAlert
  <2>2. pushed[c] > 0 => minute - pushed[c] >= Abstand(c)
    BY <1>2 DEF PushAlert, MayPush, PushesNoted
  <2>. QED BY <2>1, <2>2 DEF PushesNoted
<1>3. ASSUME NEW c \in Wanted, Unwish(c)
      PROVE  PushesNoted' /\ Spaced
  BY <1>3 DEF Unwish, PushesNoted
<1>4. CASE StartAgain
  BY <1>4 DEF StartAgain, PushesNoted
<1>5. CASE MinutePasses
  BY <1>5 DEF MinutePasses, PushesNoted, listVars, pushVars
<1>6. ASSUME NEW c \in Wanted, Wish(c) \/ Plan(c) \/ UnplanReads(c) \/ Sight(c) \/ KeepQuiet(c)
      PROVE  UNCHANGED <<minute, last_alert, pushed>>
  BY <1>6 DEF Wish, Plan, UnplanReads, Sight, KeepQuiet, listVars, pushVars
<1>7. CASE SwitchPerson \/ Reload \/ UnplanWrites \/ CareReads \/ CareWrites \/ UNCHANGED watchVars
  <2>1. UNCHANGED <<minute, last_alert, pushed>>
    BY <1>7 DEF SwitchPerson, Reload, UnplanWrites, CareReads, CareWrites, listVars, pushVars, watchVars
  <2>. QED BY <2>1, <1>1
<1>. QED BY <1>1, <1>2, <1>3, <1>4, <1>5, <1>6, <1>7 DEF WatchNext

(* However many tasks decide at once whether to push: between two pushes   *)
(* of a call lies its pause (_fire_watchlist_alert notes a push before it  *)
(* awaits it), for any calls, operators and plans.                         *)
THEOREM AlertsAreAlwaysSpaced == WatchSpec => AlertsAreSpaced
<1>1. PushesNoted /\ [WatchNext]_watchVars => PushesNoted'
  BY WatchStep
<1>2. PushesNoted /\ [WatchNext]_watchVars =>
        [\A c \in Wanted : pushed[c] > 0 /\ pushed'[c] # pushed[c] /\ pushed'[c] > 0
                           => pushed'[c] - pushed[c] >= Abstand(c)]_watchVars
  BY WatchStep
<1>. QED BY <1>1, <1>2, WatchStart, PTL DEF WatchSpec, AlertsAreSpaced
=============================================================================
