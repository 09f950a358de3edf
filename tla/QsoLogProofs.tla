---------------------------- MODULE QsoLogProofs ----------------------------
(***************************************************************************)
(* The log keeps its promises for every number of QSOs and of tasks.       *)
(*                                                                         *)
(* The refinement hangs on SameLines: whatever the tasks that drain have   *)
(* in hand and whatever the file holds is the same but for QSOs that have  *)
(* their row or a known reason.  So a task that replaces the file by what  *)
(* it has left, and a process that ends with the lines in its hands, lose  *)
(* nothing that is not known.                                              *)
(***************************************************************************)
EXTENDS QsoLog, TLAPS

View(t) == lines[t] \cup remaining[t]
Settled == Logged \cup Known

(* start() drains before any other task runs.                              *)
BootFirst ==
  /\ pc[Boot] \in {"hydrate", "drain", "down"}
  /\ \A t \in Loggers : pc[t] # "hydrate"
  /\ pc[Boot] # "down" => \A t \in Loggers : pc[t] = "down"

(* A QSO in a task's hands is known to the picker, and has its row once    *)
(* the task drains.                                                        *)
HandsKnown ==
  \A t \in Loggers : /\ pc[t] = "insert" => holds[t] \in made \cap worked
                     /\ pc[t] = "drain" => holds[t] \in Logged

(* Only completed QSOs are anywhere.                                       *)
OnlyMade ==
  /\ Logged \subseteq made /\ spill \subseteq made
  /\ \A t \in Draining : View(t) \subseteq made

SameLines ==
  \A t \in Draining : /\ View(t) \subseteq spill \cup Settled
                      /\ spill \subseteq View(t) \cup Settled

Base == TypeOK /\ BootFirst /\ HandsKnown /\ OnlyMade /\ SameLines

-----------------------------------------------------------------------------
(* Steps of the tasks that log.                                            *)

LEMMA RowsGrow ==
  ASSUME TypeOK, NEW q \in Qsos, rows' = OneMoreRow(q)
  PROVE  rows' \in [Qsos -> 0 .. MaxRows] /\ Logged' = Logged \cup {q}
BY LogAssumption DEF TypeOK, OneMoreRow, Logged

LEMMA BaseInit == Init => Base
<1> SUFFICES ASSUME Init PROVE Base
  OBVIOUS
<1>1. Logged = {} /\ Draining = {}
  BY DEF Init, Logged, Draining
<1>2. TypeOK
  <2>1. rows \in [Qsos -> 0 .. MaxRows] /\ lines \in [Tasks -> SUBSET Qsos]
        /\ holds \in [Tasks -> Qsos \cup {NoQso}] /\ remaining \in [Tasks -> SUBSET Qsos]
    BY LogAssumption DEF Init
  <2>2. pc \in [Tasks -> {"down", "hydrate", "idle", "insert", "drain"}]
    BY DEF Init
  <2>3. \A t \in Tasks : t \in Draining <=> lines[t] # {}
    BY <1>1 DEF Init
  <2> QED BY <2>1, <2>2, <2>3 DEF Init, TypeOK
<1>3. BootFirst /\ HandsKnown
  BY LogAssumption DEF Init, BootFirst, HandsKnown, Tasks
<1>4. OnlyMade /\ SameLines
  BY <1>1 DEF Init, OnlyMade, SameLines
<1> QED BY <1>2, <1>3, <1>4 DEF Base

LEMMA LogQsoBase ==
  ASSUME Base, NEW t \in Loggers, NEW q \in Qsos, LogQso(t, q)
  PROVE  Base'
<1>1. t # Boot /\ t \in Tasks
  BY LogAssumption DEF Tasks
<1>2. Logged' = Logged /\ Known' = Known /\ Draining' = Draining
  BY <1>1 DEF Base, TypeOK, LogQso, Logged, Known, Draining
<1>3. TypeOK'
  BY <1>1, <1>2 DEF Base, TypeOK, LogQso
<1>4. BootFirst'
  BY <1>1 DEF Base, BootFirst, LogQso, TypeOK, Tasks
<1>5. HandsKnown'
  BY <1>1, <1>2 DEF Base, HandsKnown, LogQso, TypeOK, Tasks
<1>6. OnlyMade' /\ SameLines'
  BY <1>2 DEF Base, OnlyMade, SameLines, LogQso, View, Settled
<1> QED BY <1>3, <1>4, <1>5, <1>6 DEF Base

LEMMA InsertQsoBase ==
  ASSUME Base, NEW t \in Loggers, InsertQso(t)
  PROVE  Base'
<1>1. t # Boot /\ t \in Tasks /\ pc[t] = "insert" /\ t \notin Draining
  BY LogAssumption DEF Tasks, InsertQso, Draining
<1>2. holds[t] \in Qsos /\ holds[t] \in made \cap worked
  BY <1>1 DEF Base, HandsKnown, TypeOK
<1>3. rows' \in [Qsos -> 0 .. MaxRows] /\ Logged' = Logged \cup {holds[t]}
  BY <1>2, RowsGrow DEF Base, InsertQso
<1>4. pc' = [pc EXCEPT ![t] = IF spill = {} THEN "idle" ELSE "drain"]
  BY <1>1 DEF InsertQso, ReadSpill, Resumed
<1>5. Known' = Known /\ spill' = spill /\ holds' = holds /\ made' = made /\ worked' = worked
  BY DEF InsertQso, Known
<1>6. lines' = [lines EXCEPT ![t] = spill] /\ remaining' = [remaining EXCEPT ![t] = {}]
  BY DEF InsertQso, ReadSpill
<1>7. Draining' = IF spill = {} THEN Draining ELSE Draining \cup {t}
  BY <1>1, <1>4 DEF Draining, Base, TypeOK
<1>8. TypeOK'
  BY <1>1, <1>3, <1>4, <1>5, <1>6, <1>7 DEF Base, TypeOK, InsertQso, ReadSpill
<1>9. BootFirst'
  BY <1>1, <1>4 DEF Base, BootFirst, TypeOK, Tasks
<1>10. HandsKnown'
  BY <1>1, <1>3, <1>4, <1>5 DEF Base, HandsKnown, TypeOK, Tasks
<1>11. ASSUME NEW u \in Draining' PROVE View(u)' = IF u = t THEN spill ELSE View(u)
  BY <1>1, <1>6, <1>7 DEF View, Base, TypeOK, Draining
<1>12. OnlyMade'
  BY <1>2, <1>3, <1>5, <1>7, <1>11 DEF Base, OnlyMade
<1>13. SameLines'
  BY <1>3, <1>5, <1>7, <1>11 DEF Base, SameLines, Settled
<1> QED BY <1>8, <1>9, <1>10, <1>12, <1>13 DEF Base

LEMMA InsertFailsBase ==
  ASSUME Base, NEW t \in Loggers, InsertFails(t)
  PROVE  Base'
<1>1. t # Boot /\ t \in Tasks /\ pc[t] = "insert"
  BY LogAssumption DEF Tasks, InsertFails
<1>2. holds[t] \in Qsos /\ holds[t] \in made
  BY <1>1 DEF Base, HandsKnown, TypeOK
<1>3. Draining' = Draining /\ Logged' = Logged
  BY <1>1 DEF InsertFails, Draining, Logged, Base, TypeOK
<1>4. TypeOK'
  BY <1>1, <1>2, <1>3 DEF Base, TypeOK, InsertFails, SpillQso
<1>5. BootFirst'
  BY <1>1 DEF Base, BootFirst, InsertFails, TypeOK, Tasks
<1>6. HandsKnown'
  BY <1>1, <1>3 DEF Base, HandsKnown, InsertFails, TypeOK, Tasks
<1>7. OnlyMade'
  BY <1>2, <1>3 DEF Base, OnlyMade, InsertFails, SpillQso, View
<1>8. SameLines'
  BY <1>3 DEF Base, SameLines, InsertFails, SpillQso, View, Settled, Known
<1> QED BY <1>4, <1>5, <1>6, <1>7, <1>8 DEF Base
-----------------------------------------------------------------------------
(* Steps of the tasks that drain, of start() and of the end.               *)

(* What a task leaves of its lines: left in hand or in the table.          *)
LEMMA LeftOver ==
  ASSUME Base, NEW t \in Tasks, NEW q \in Qsos, NEW ok \in BOOLEAN, DrainLine(t, q, ok)
  PROVE  /\ t \in Draining /\ q \in made
         /\ rows' \in [Qsos -> 0 .. MaxRows]
         /\ Logged' = IF ok THEN Logged \cup {q} ELSE Logged
         /\ remaining'[t] \subseteq View(t)
         /\ View(t) \subseteq View(t)' \cup Logged'
         /\ View(t)' \subseteq View(t)
<1>1. t \in Draining /\ q \in View(t) /\ q \in made
  BY DEF DrainLine, Draining, View, Base, OnlyMade
<1>2. CASE ok
  <2>1. rows' = OneMoreRow(q)
    BY <1>2 DEF DrainLine
  <2>2. rows' \in [Qsos -> 0 .. MaxRows] /\ Logged' = Logged \cup {q}
    BY <2>1, RowsGrow DEF Base
  <2>3. remaining'[t] = remaining[t] /\ lines'[t] = lines[t] \ {q}
    BY <1>2 DEF DrainLine, Base, TypeOK
  <2> QED BY <1>1, <1>2, <2>2, <2>3 DEF View
<1>3. CASE ~ok
  <2>1. rows' = rows
    BY <1>3 DEF DrainLine
  <2>2. rows' \in [Qsos -> 0 .. MaxRows] /\ Logged' = Logged
    BY <2>1 DEF Base, TypeOK, Logged
  <2>3. remaining'[t] = remaining[t] \cup {q} /\ lines'[t] = lines[t] \ {q}
    BY <1>3 DEF DrainLine, Base, TypeOK
  <2> QED BY <1>1, <1>3, <2>2, <2>3 DEF View
<1> QED BY <1>2, <1>3

(* With the last line its task is done, and nobody but it and, after       *)
(* start(), the tasks that wait for that change place.                     *)
LEMMA DoneDraining ==
  ASSUME Base, NEW t \in Draining, pc' = Resumed(t)
  PROVE  /\ pc' \in [Tasks -> {"down", "hydrate", "idle", "insert", "drain"}]
         /\ Draining' = Draining \ {t}
         /\ BootFirst'
         /\ \A u \in Loggers : pc'[u] \in {"insert", "drain"} => pc'[u] = pc[u]
<1>0. t \in Tasks /\ pc[t] = "drain"
  BY DEF Draining
<1>1. CASE t = Boot
  <2>1. \A u \in Loggers : pc[u] = "down"
    BY <1>0, <1>1 DEF Base, BootFirst
  <2>2. pc' = Started
    BY <1>1 DEF Resumed
  <2> QED BY <1>0, <1>1, <2>1, <2>2, LogAssumption DEF Started, Draining, BootFirst, Tasks
<1>2. CASE t # Boot
  <2>1. pc' = [pc EXCEPT ![t] = "idle"]
    BY <1>2 DEF Resumed
  <2>2. t \in Loggers
    BY <1>0, <1>2 DEF Tasks
  <2> QED BY <1>0, <1>2, <2>1, <2>2, LogAssumption DEF Draining, BootFirst, Tasks, Base, TypeOK
<1> QED BY <1>1, <1>2

LEMMA DrainLineBase ==
  ASSUME Base, NEW t \in Tasks, NEW q \in Qsos, NEW ok \in BOOLEAN, DrainLine(t, q, ok)
  PROVE  Base'
<1> DEFINE left == IF ok THEN remaining[t] ELSE remaining[t] \cup {q}
           rest == lines[t] \ {q}
<1>0. t \in Draining /\ pc[t] = "drain" /\ q \in lines[t]
  BY DEF DrainLine, Draining
<1>1. /\ q \in made /\ rows' \in [Qsos -> 0 .. MaxRows]
      /\ Logged' = IF ok THEN Logged \cup {q} ELSE Logged
      /\ View(t) \subseteq View(t)' \cup Logged' /\ View(t)' \subseteq View(t)
  BY LeftOver
<1>2. lines' = [lines EXCEPT ![t] = rest] /\ remaining' = [remaining EXCEPT ![t] = left]
  BY DEF DrainLine
<1>3. left \subseteq Qsos /\ rest \subseteq Qsos
  BY <1>0 DEF Base, TypeOK
<1>4. View(t)' = rest \cup left
  BY <1>2, <1>0 DEF View, Base, TypeOK
<1>5. \A u \in Tasks : u # t => View(u)' = View(u) /\ lines'[u] = lines[u]
  BY <1>2, <1>0 DEF View, Base, TypeOK
<1>6. holds' = holds /\ worked' = worked /\ made' = made /\ died' = died
  BY DEF DrainLine
<1>7. drained' \subseteq Qsos
  BY DEF DrainLine, Base, TypeOK
<1>8. CASE rest # {}
  <2>1. pc' = pc /\ spill' = spill /\ unsaved' = unsaved /\ overlapped' = overlapped /\ torn' = torn
    BY <1>8 DEF DrainLine
  <2>2. Draining' = Draining /\ Known' = Known
    BY <2>1, <1>6 DEF Draining, Known
  <2>3. TypeOK'
    BY <1>0, <1>1, <1>2, <1>3, <1>6, <1>7, <1>8, <2>1, <2>2 DEF Base, TypeOK
  <2>4. BootFirst' /\ HandsKnown'
    BY <1>1, <1>6, <2>1 DEF Base, BootFirst, HandsKnown
  <2>5. OnlyMade'
    BY <1>1, <1>5, <1>6, <2>1, <2>2 DEF Base, OnlyMade, Draining
  <2>6. SameLines'
    BY <1>1, <1>5, <2>1, <2>2 DEF Base, SameLines, Settled, Draining
  <2> QED BY <2>3, <2>4, <2>5, <2>6 DEF Base
<1>9. CASE rest = {}
  <2>1. pc' = Resumed(t) /\ CloseSpill(t, left)
    BY <1>9 DEF DrainLine
  <2>2. /\ pc' \in [Tasks -> {"down", "hydrate", "idle", "insert", "drain"}]
        /\ Draining' = Draining \ {t}
        /\ BootFirst'
        /\ \A u \in Loggers : pc'[u] \in {"insert", "drain"} => pc'[u] = pc[u]
    BY <1>0, <2>1, DoneDraining
  <2>3. t # Boot => holds[t] \in Logged /\ holds[t] \in Qsos /\ holds[t] \in made
    BY <1>0 DEF Base, HandsKnown, OnlyMade, Tasks, Logged
  <2>4. /\ spill' \subseteq Qsos /\ unsaved' \subseteq Qsos /\ overlapped' \subseteq Qsos
        /\ torn' \in BOOLEAN
    BY <1>3, <2>1, <2>3 DEF CloseSpill, SpillQso, Base, TypeOK
  <2>5. Known \subseteq Known' /\ (spill' = left \/ (spill \subseteq spill' /\ spill' \subseteq spill \cup Logged))
    BY <1>6, <2>1, <2>3 DEF CloseSpill, SpillQso, Known
  <2>6. \A u \in Tasks : u \in Draining' <=> lines'[u] # {}
    BY <1>0, <1>2, <1>9, <2>2 DEF Base, TypeOK
  <2>7. TypeOK'
    BY <1>0, <1>1, <1>2, <1>3, <1>6, <1>7, <2>2, <2>4, <2>6 DEF Base, TypeOK
  <2>8. HandsKnown'
    BY <1>1, <1>6, <2>2 DEF Base, HandsKnown
  <2>9. left \subseteq View(t) /\ View(t) \subseteq left \cup Logged'
    BY <1>1, <1>4, <1>9
  <2>10. Logged' \subseteq made /\ spill' \subseteq made
    BY <1>0, <1>1, <2>5, <2>9 DEF Base, OnlyMade
  <2>11. OnlyMade'
    BY <1>0, <1>5, <1>6, <2>2, <2>10 DEF Base, OnlyMade, Draining
  <2>12. ASSUME NEW u \in Draining'
         PROVE  View(u)' \subseteq spill' \cup Settled' /\ spill' \subseteq View(u)' \cup Settled'
    <3>1. u \in Draining /\ View(u)' = View(u) /\ Logged \subseteq Logged'
      BY <1>1, <1>5, <2>2 DEF Draining
    <3>2. /\ View(u) \subseteq spill \cup Settled /\ spill \subseteq View(u) \cup Settled
          /\ View(t) \subseteq spill \cup Settled /\ spill \subseteq View(t) \cup Settled
      BY <1>0, <3>1 DEF Base, SameLines
    <3>3. Settled \subseteq Settled' /\ Logged' \subseteq Settled'
      BY <2>5, <3>1 DEF Settled
    <3> QED BY <2>5, <2>9, <3>1, <3>2, <3>3 DEF Settled
  <2>13. SameLines'
    BY <2>12 DEF SameLines
  <2> QED BY <2>2, <2>7, <2>8, <2>11, <2>13 DEF Base
<1> QED BY <1>8, <1>9

LEMMA HydrateBase ==
  ASSUME Base, Hydrate
  PROVE  Base'
<1>1. pc[Boot] = "hydrate" /\ Boot \in Tasks /\ Draining = {} /\ (\A u \in Loggers : pc[u] = "down")
  BY DEF Hydrate, Base, BootFirst, Draining, Tasks
<1>2. /\ Logged' = Logged /\ Known' = Known /\ spill' = spill /\ made' = made /\ holds' = holds
      /\ lines' = [lines EXCEPT ![Boot] = spill] /\ remaining' = [remaining EXCEPT ![Boot] = {}]
      /\ worked' = Logged
  BY DEF Hydrate, ReadSpill, Logged, Known
<1>3. CASE spill = {}
  <2>1. pc' = Started
    BY <1>3 DEF Hydrate, ReadSpill, Resumed
  <2>2. Draining' = {}
    BY <2>1 DEF Draining, Started
  <2>3. TypeOK'
    BY <1>1, <1>2, <1>3, <2>1, <2>2 DEF Base, TypeOK, Hydrate, ReadSpill, Started, Logged
  <2>4. BootFirst' /\ HandsKnown'
    BY <1>1, <2>1, LogAssumption DEF BootFirst, HandsKnown, Started, Tasks
  <2> QED BY <1>2, <2>2, <2>3, <2>4 DEF Base, OnlyMade, SameLines
<1>4. CASE spill # {}
  <2>1. pc' = [pc EXCEPT ![Boot] = "drain"]
    BY <1>4 DEF Hydrate, ReadSpill
  <2>2. Draining' = {Boot}
    BY <1>1, <2>1 DEF Draining, Base, TypeOK
  <2>3. TypeOK'
    BY <1>1, <1>2, <1>4, <2>1, <2>2 DEF Base, TypeOK, Hydrate, ReadSpill, Logged
  <2>4. BootFirst' /\ HandsKnown'
    BY <1>1, <2>1, LogAssumption DEF BootFirst, HandsKnown, Tasks, Base, TypeOK
  <2>5. View(Boot)' = spill
    BY <1>1, <1>2 DEF View, Base, TypeOK
  <2>6. OnlyMade' /\ SameLines'
    BY <1>2, <2>2, <2>5 DEF Base, OnlyMade, SameLines
  <2> QED BY <2>3, <2>4, <2>6 DEF Base
<1> QED BY <1>3, <1>4

LEMMA ProcessEndsBase ==
  ASSUME Base, ProcessEnds
  PROVE  Base'
<1>1. Draining' = {} /\ Logged' = Logged
  BY DEF ProcessEnds, Draining, Logged
<1>2. ASSUME NEW t \in Tasks, pc[t] = "insert" PROVE holds[t] \in Qsos
  <2>1. t \in Loggers
    BY <1>2 DEF Base, BootFirst, Tasks
  <2> QED BY <1>2, <2>1 DEF Base, HandsKnown, TypeOK
<1>3. died' \subseteq Qsos
  BY <1>2 DEF Base, TypeOK, ProcessEnds
<1>4. TypeOK'
  BY <1>1, <1>3 DEF Base, TypeOK, ProcessEnds
<1>5. BootFirst' /\ HandsKnown'
  BY LogAssumption DEF ProcessEnds, BootFirst, HandsKnown, Tasks
<1>6. OnlyMade' /\ SameLines'
  BY <1>1 DEF Base, OnlyMade, SameLines, ProcessEnds
<1> QED BY <1>4, <1>5, <1>6 DEF Base

LEMMA BaseStep == Base /\ [Next]_vars => Base'
<1> SUFFICES ASSUME Base, [Next]_vars PROVE Base'
  OBVIOUS
<1>1. CASE UNCHANGED vars
  BY <1>1 DEF vars, Base, TypeOK, BootFirst, HandsKnown, OnlyMade, SameLines, View, Settled,
     Known, Logged, Draining
<1> QED BY <1>1, LogQsoBase, InsertQsoBase, InsertFailsBase, DrainLineBase, HydrateBase,
        ProcessEndsBase DEF Next

(* The type invariant, for every number of QSOs and tasks.                 *)
THEOREM LogTypeCorrect == Spec => []TypeOK
<1>1. Base => TypeOK
  BY DEF Base
<1> QED BY <1>1, BaseInit, BaseStep, PTL DEF Spec
-----------------------------------------------------------------------------
(* What the picker misses.                                                 *)

LEMMA PickerStep ==
  Base /\ PickerMissesOnlyDrained /\ [Next]_vars => PickerMissesOnlyDrained'
<1> SUFFICES ASSUME Base, PickerMissesOnlyDrained, [Next]_vars PROVE PickerMissesOnlyDrained'
  OBVIOUS
<1>1. CASE UNCHANGED vars
  BY <1>1 DEF vars, PickerMissesOnlyDrained, Logged
<1>2. ASSUME NEW t \in Loggers, NEW q \in Qsos, LogQso(t, q) PROVE PickerMissesOnlyDrained'
  <2>1. t # Boot /\ Logged' = Logged /\ pc'[Boot] = pc[Boot] /\ Boot \in Tasks
    BY <1>2, LogAssumption DEF LogQso, Logged, Base, TypeOK, Tasks
  <2> QED BY <1>2, <2>1 DEF PickerMissesOnlyDrained, LogQso
<1>3. ASSUME NEW t \in Loggers, InsertQso(t) PROVE PickerMissesOnlyDrained'
  <2>1. t # Boot /\ t \in Tasks /\ pc[t] = "insert" /\ holds[t] \in Qsos /\ holds[t] \in worked
    BY <1>3, LogAssumption DEF InsertQso, Base, HandsKnown, TypeOK, Tasks
  <2>2. Logged' = Logged \cup {holds[t]}
    BY <1>3, <2>1, RowsGrow DEF InsertQso, Base
  <2>3. pc[Boot] # "hydrate"
    BY <2>1 DEF Base, BootFirst, Tasks, TypeOK
  <2> QED BY <1>3, <2>1, <2>2, <2>3 DEF PickerMissesOnlyDrained, InsertQso
<1>4. ASSUME NEW t \in Loggers, InsertFails(t) PROVE PickerMissesOnlyDrained'
  <2>1. t # Boot /\ Logged' = Logged /\ pc'[Boot] = pc[Boot]
    BY <1>4, LogAssumption DEF InsertFails, Logged, Base, TypeOK, Tasks
  <2> QED BY <1>4, <2>1 DEF PickerMissesOnlyDrained, InsertFails
<1>5. ASSUME NEW t \in Tasks, NEW q \in Qsos, NEW ok \in BOOLEAN, DrainLine(t, q, ok)
      PROVE  PickerMissesOnlyDrained'
  <2>1. Logged' = IF ok THEN Logged \cup {q} ELSE Logged
    BY <1>5, LeftOver
  <2>2. drained' = (IF ok THEN drained \cup {q} ELSE drained) /\ worked' = worked /\ pc[t] = "drain"
    BY <1>5 DEF DrainLine
  <2>3. pc[Boot] # "hydrate"
    BY <2>2 DEF Base, BootFirst, Tasks, TypeOK
  <2> QED BY <2>1, <2>2, <2>3 DEF PickerMissesOnlyDrained
<1>6. CASE Hydrate
  <2>1. Logged' = Logged /\ worked' = Logged
    BY <1>6 DEF Hydrate, Logged
  <2> QED BY <2>1 DEF PickerMissesOnlyDrained
<1>7. CASE ProcessEnds
  <2>1. pc'[Boot] = "hydrate"
    BY <1>7 DEF ProcessEnds, Tasks
  <2> QED BY <2>1 DEF PickerMissesOnlyDrained
<1> QED BY <1>1, <1>2, <1>3, <1>4, <1>5, <1>6, <1>7 DEF Next

(* Of the logged QSOs the picker misses only such as came through the     *)
(* file, for every number of QSOs and tasks.                               *)
THEOREM PickerMissesFew == Spec => []PickerMissesOnlyDrained
<1>1. Init => PickerMissesOnlyDrained
  BY DEF Init, PickerMissesOnlyDrained, Tasks
<1> QED BY <1>1, BaseInit, BaseStep, PickerStep, PTL DEF Spec
-----------------------------------------------------------------------------
(* The refinement.                                                         *)

(* A step brings no lost QSO back and loses one for a known reason only.   *)
Accounts(q) ==
  /\ Known \subseteq Known'
  /\ Kept(q)' => Kept(q)
  /\ Kept(q) => Kept(q)' \/ q \in Known'

LEMMA InsertQsoAccounts ==
  ASSUME Base, NEW t \in Loggers, InsertQso(t), NEW q \in Qsos
  PROVE  Accounts(q)
<1>1. t \in Tasks /\ pc[t] = "insert" /\ holds[t] \in Qsos /\ t # Boot /\ t \notin Draining
  BY LogAssumption DEF Tasks, InsertQso, Base, HandsKnown, TypeOK, Draining
<1>2. Logged' = Logged \cup {holds[t]} /\ spill' = spill /\ Known' = Known /\ holds' = holds
  BY <1>1, RowsGrow DEF InsertQso, Base, Known
<1>3. /\ pc' = [pc EXCEPT ![t] = IF spill = {} THEN "idle" ELSE "drain"]
      /\ lines' = [lines EXCEPT ![t] = spill] /\ remaining' = [remaining EXCEPT ![t] = {}]
  BY <1>1 DEF InsertQso, ReadSpill, Resumed
<1>4. InFlight(q)' <=> \E u \in Loggers : u # t /\ pc[u] = "insert" /\ holds[u] = q
  BY <1>1, <1>2, <1>3 DEF InFlight, Base, TypeOK
<1>5. InDrain(q)' => InDrain(q) \/ q \in spill
  BY <1>1, <1>3 DEF InDrain, Draining, Base, TypeOK
<1>6. InDrain(q) => InDrain(q)'
  BY <1>1, <1>3 DEF InDrain, Draining, Base, TypeOK
<1>7. InFlight(q) => InFlight(q)' \/ q = holds[t]
  BY <1>4 DEF InFlight
<1>8. InFlight(q)' \/ q = holds[t] => InFlight(q)
  BY <1>1, <1>4 DEF InFlight
<1> QED BY <1>2, <1>5, <1>6, <1>7, <1>8 DEF Accounts, Kept

LEMMA InsertFailsAccounts ==
  ASSUME Base, NEW t \in Loggers, InsertFails(t), NEW q \in Qsos
  PROVE  Accounts(q)
<1>1. t \in Tasks /\ pc[t] = "insert" /\ holds[t] \in Qsos
  BY DEF Tasks, InsertFails, Base, HandsKnown, TypeOK
<1>2. Draining' = Draining /\ Logged' = Logged /\ (InDrain(q)' <=> InDrain(q))
  BY <1>1 DEF InsertFails, Draining, Logged, InDrain, Base, TypeOK
<1>3. \/ spill' = spill \cup {holds[t]} /\ Known \subseteq Known'
      \/ spill' = spill /\ Known' = Known \cup {holds[t]}
  BY DEF InsertFails, SpillQso, Known
<1>4. InFlight(q)' <=> \E u \in Loggers : u # t /\ pc[u] = "insert" /\ holds[u] = q
  BY <1>1 DEF InFlight, InsertFails, Base, TypeOK
<1>5. InFlight(q) <=> InFlight(q)' \/ q = holds[t]
  BY <1>1, <1>4 DEF InFlight
<1> QED BY <1>2, <1>3, <1>5 DEF Accounts, Kept

LEMMA DrainLineAccounts ==
  ASSUME Base, NEW t \in Tasks, NEW l \in Qsos, NEW ok \in BOOLEAN, DrainLine(t, l, ok),
         NEW q \in Qsos
  PROVE  Accounts(q)
<1> DEFINE left == IF ok THEN remaining[t] ELSE remaining[t] \cup {l}
           rest == lines[t] \ {l}
<1>0. t \in Draining /\ pc[t] = "drain" /\ l \in lines[t] /\ l \in View(t)
  BY DEF DrainLine, Draining, View
<1>1. /\ Logged' = IF ok THEN Logged \cup {l} ELSE Logged
      /\ View(t) \subseteq View(t)' \cup Logged' /\ View(t)' \subseteq View(t)
  BY LeftOver
<1>2. lines' = [lines EXCEPT ![t] = rest] /\ remaining' = [remaining EXCEPT ![t] = left]
  BY DEF DrainLine
<1>3. View(t)' = rest \cup left
  BY <1>2, <1>0 DEF View, Base, TypeOK
<1>4. \A u \in Tasks : u # t => View(u)' = View(u)
  BY <1>2, <1>0 DEF View, Base, TypeOK
<1>5. holds' = holds /\ died' = died
  BY DEF DrainLine
<1>6. \A u \in Draining : q \in View(u) => InDrain(q)
  BY DEF InDrain, View
<1>7. CASE rest # {}
  <2>1. pc' = pc /\ spill' = spill /\ Known' = Known
    BY <1>5, <1>7 DEF DrainLine, Known
  <2>2. InFlight(q)' <=> InFlight(q)
    BY <1>5, <2>1 DEF InFlight
  <2>3. InDrain(q)' <=> \E u \in Draining : q \in View(u)'
    BY <2>1 DEF InDrain, Draining, View
  <2>4. InDrain(q) <=> \E u \in Draining : q \in View(u)
    BY DEF InDrain, View
  <2>5. InDrain(q)' => InDrain(q)
    BY <1>1, <1>4, <2>3, <2>4 DEF Draining
  <2>6. InDrain(q) => InDrain(q)' \/ q \in Logged'
    BY <1>0, <1>1, <1>4, <2>3, <2>4 DEF Draining
  <2> QED BY <1>0, <1>1, <1>6, <2>1, <2>2, <2>5, <2>6 DEF Accounts, Kept
<1>8. CASE rest = {}
  <2>1. pc' = Resumed(t) /\ CloseSpill(t, left)
    BY <1>8 DEF DrainLine
  <2>2. /\ Draining' = Draining \ {t}
        /\ \A u \in Loggers : pc'[u] \in {"insert", "drain"} => pc'[u] = pc[u]
    BY <1>0, <2>1, DoneDraining
  <2>3. t # Boot => holds[t] \in Logged
    BY <1>0 DEF Base, HandsKnown, Tasks
  <2>4. /\ Known \subseteq Known'
        /\ spill' = left \/ (spill \subseteq spill' /\ spill' \subseteq spill \cup Logged)
    BY <1>5, <2>1, <2>3 DEF CloseSpill, SpillQso, Known
  <2>5. left \subseteq View(t) /\ View(t) \subseteq left \cup Logged'
    BY <1>1, <1>3, <1>8
  <2>6. View(t) \subseteq spill \cup Settled /\ spill \subseteq View(t) \cup Settled
    BY <1>0 DEF Base, SameLines
  <2>7. InFlight(q)' <=> InFlight(q)
    <3>1. InFlight(q)' => InFlight(q)
      BY <1>5, <2>2 DEF InFlight
    <3>2. ASSUME NEW u \in Loggers, pc[u] = "insert" PROVE pc'[u] = "insert"
      <4>1. u # t /\ u \in Tasks
        BY <1>0, <3>2 DEF Tasks
      <4>2. t # Boot
        BY <3>2, <1>0 DEF Base, BootFirst
      <4>3. pc' = [pc EXCEPT ![t] = "idle"]
        BY <2>1, <4>2 DEF Resumed
      <4> QED BY <3>2, <4>1, <4>3 DEF Base, TypeOK
    <3> QED BY <1>5, <3>1, <3>2 DEF InFlight
  <2>8. InDrain(q)' => InDrain(q)
    BY <1>4, <2>2 DEF InDrain, View, Draining
  <2>9. InDrain(q) => InDrain(q)' \/ q \in View(t)
    BY <1>4, <2>2 DEF InDrain, View, Draining
  <2>10. q \in View(t) => q \in Logged' \/ q \in spill' \/ q \in Known'
    BY <1>1, <2>4, <2>5, <2>6 DEF Settled
  <2>11. q \in spill => q \in Logged' \/ q \in spill' \/ q \in Known'
    BY <1>1, <2>4, <2>6, <2>10 DEF Settled
  <2>12. q \in Logged' \cup spill' => Kept(q)
    BY <1>0, <1>1, <1>6, <2>4, <2>5 DEF Kept
  <2> QED BY <1>1, <2>4, <2>7, <2>8, <2>9, <2>10, <2>11, <2>12 DEF Accounts, Kept
<1> QED BY <1>7, <1>8

LEMMA HydrateAccounts ==
  ASSUME Base, Hydrate, NEW q \in Qsos
  PROVE  Accounts(q)
<1>1. Boot \in Tasks /\ Draining = {} /\ (\A u \in Loggers : pc[u] = "down")
  BY DEF Hydrate, Base, BootFirst, Draining, Tasks
<1>2. Logged' = Logged /\ Known' = Known /\ spill' = spill
  BY DEF Hydrate, Logged, Known
<1>3. ~InFlight(q) /\ ~InDrain(q)
  BY <1>1 DEF InFlight, InDrain
<1>4. ~InFlight(q)'
  BY <1>1, LogAssumption DEF InFlight, Hydrate, ReadSpill, Resumed, Started, Base, TypeOK, Tasks
<1>5. InDrain(q)' => q \in spill
  BY <1>1 DEF InDrain, Draining, Hydrate, ReadSpill, Resumed, Started, Base, TypeOK
<1> QED BY <1>2, <1>3, <1>4, <1>5 DEF Accounts, Kept

LEMMA ProcessEndsAccounts ==
  ASSUME Base, ProcessEnds, NEW q \in Qsos
  PROVE  Accounts(q)
<1>1. Logged' = Logged /\ spill' = spill /\ Known \subseteq Known'
  BY DEF ProcessEnds, Logged, Known
<1>2. ~InFlight(q)' /\ ~InDrain(q)'
  BY LogAssumption DEF ProcessEnds, InFlight, InDrain, Draining, Tasks
<1>3. InFlight(q) => q \in Known'
  BY DEF InFlight, ProcessEnds, Known, Tasks
<1>4. InDrain(q) => q \in spill \cup Settled
  BY DEF InDrain, View, Base, SameLines
<1> QED BY <1>1, <1>2, <1>3, <1>4 DEF Accounts, Kept, Settled

LEMMA LogQsoKeeps ==
  ASSUME Base, NEW t \in Loggers, NEW l \in Qsos, LogQso(t, l)
  PROVE  /\ made' = made \cup {l} /\ l \notin made /\ Kept(l)' /\ Known' = Known
         /\ \A q \in made : Kept(q)' <=> Kept(q)
<1>1. t \in Tasks /\ t # Boot /\ pc[t] = "idle" /\ pc' = [pc EXCEPT ![t] = "insert"]
      /\ holds' = [holds EXCEPT ![t] = l] /\ l \notin made /\ made' = made \cup {l}
  BY LogAssumption DEF LogQso, Tasks
<1>2. Logged' = Logged /\ spill' = spill /\ Known' = Known /\ Draining' = Draining
  BY <1>1 DEF LogQso, Logged, Known, Draining, Base, TypeOK
<1>3. InFlight(l)'
  BY <1>1 DEF InFlight, Base, TypeOK
<1>4. ASSUME NEW q \in made PROVE Kept(q)' <=> Kept(q)
  <2>1. InFlight(q)' <=> InFlight(q)
    BY <1>1 DEF InFlight, Base, TypeOK, Tasks
  <2>2. InDrain(q)' <=> InDrain(q)
    BY <1>2 DEF InDrain, LogQso
  <2> QED BY <1>2, <2>1, <2>2 DEF Kept
<1> QED BY <1>1, <1>2, <1>3, <1>4 DEF Kept

(* The mapping of the refinement, named.                                   *)
Place == [q \in Qsos |-> IF q \notin made THEN "new" ELSE IF Kept(q) THEN "kept" ELSE "lost"]

(* A step of the log is a step of the ledger or changes nothing in it.     *)
LEMMA LedgerStep == Base /\ [Next]_vars => [Ledger!Next]_<<Place, {}, Known>>
<1> SUFFICES ASSUME Base, [Next]_vars PROVE Ledger!Next \/ UNCHANGED <<Place, {}, Known>>
  OBVIOUS
<1>1. CASE UNCHANGED vars
  <2>1. Place' = Place
    BY <1>1 DEF vars, Place, Kept, InFlight, InDrain, Logged, Draining
  <2> QED BY <1>1, <2>1 DEF vars, Known
<1>2. ASSUME NEW t \in Loggers, NEW l \in Qsos, LogQso(t, l) PROVE Ledger!Next
  <2>1. /\ made' = made \cup {l} /\ l \notin made /\ Kept(l)' /\ Known' = Known
        /\ \A q \in made : Kept(q)' <=> Kept(q)
    BY <1>2, LogQsoKeeps
  <2>2. \A q \in Qsos : Place'[q] = Place[q] \/ (Place[q] = "new" /\ Place'[q] = "kept")
    BY <2>1 DEF Place
  <2> QED BY <2>1, <2>2 DEF Ledger!Next, Ledger!Moves, Ledger!Becomes, Place
<1>3. ASSUME made' = made, \A q \in Qsos : Accounts(q) PROVE Ledger!Next \/ UNCHANGED <<Place, {}, Known>>
  <2>1. CASE Qsos = {}
    <3>1. Place' = Place
      BY <2>1 DEF Place
    <3>2. Known = {} /\ Known' = {}
      BY <2>1, BaseStep DEF Base, TypeOK, Known
    <3> QED BY <3>1, <3>2
  <2>2. CASE Qsos # {}
    <3>1. Known \subseteq Known'
      BY <1>3, <2>2 DEF Accounts
    <3>2. ASSUME NEW q \in Qsos
          PROVE  \/ Place'[q] = Place[q]
                 \/ Place[q] = "kept" /\ Place'[q] = "lost" /\ q \in Known'
      <4>1. (Kept(q)' => Kept(q)) /\ (Kept(q) => Kept(q)' \/ q \in Known')
        BY <1>3 DEF Accounts
      <4>2. Place[q] = (IF q \notin made THEN "new" ELSE IF Kept(q) THEN "kept" ELSE "lost")
        BY DEF Place
      <4>3. Place'[q] = (IF q \notin made' THEN "new" ELSE IF Kept(q)' THEN "kept" ELSE "lost")
        BY DEF Place
      <4> QED BY <1>3, <4>1, <4>2, <4>3
    <3> QED BY <3>1, <3>2 DEF Ledger!Next, Ledger!Moves, Ledger!Becomes, Place
  <2> QED BY <2>1, <2>2
<1>4. (\E t \in Loggers : InsertQso(t) \/ InsertFails(t)) \/ Hydrate \/ ProcessEnds
      \/ (\E t \in Tasks, q \in Qsos, ok \in BOOLEAN : DrainLine(t, q, ok))
      => made' = made
  BY DEF InsertQso, InsertFails, Hydrate, ProcessEnds, DrainLine
<1> QED BY <1>1, <1>2, <1>3, <1>4, InsertQsoAccounts, InsertFailsAccounts, DrainLineAccounts,
        HydrateAccounts, ProcessEndsAccounts DEF Next

(* The log implements the ledger, for every number of QSOs and tasks.      *)
THEOREM LogImplementsLedger == Spec => KeepsTheLedger
<1>1. Init => Ledger!Init
  BY DEF Init, Ledger!Init, Known
<1>2. Base /\ [Next]_vars => [Ledger!Next]_<<Place, {}, Known>>
  BY LedgerStep
<1> QED BY <1>1, <1>2, BaseInit, BaseStep, PTL DEF Spec, KeepsTheLedger, Ledger!Spec, Place
-----------------------------------------------------------------------------
(* One row for a QSO.                                                      *)

(* What waits for its first row has none and is in nobody else's hands.    *)
Unwritten ==
  \A t \in Loggers : pc[t] = "insert" =>
    /\ holds[t] \notin Logged \cup spill
    /\ \A u \in Draining : holds[t] \notin View(u)
    /\ \A u \in Loggers : u # t /\ pc[u] = "insert" => holds[u] # holds[t]

(* A line is tried once by a task.                                         *)
TriedOnce == \A t \in Draining : lines[t] \cap remaining[t] = {}

(* As long as no drain went wrong, one task drains at a time, and no line  *)
(* it has or will read has its row.                                        *)
Fresh ==
  ~torn => /\ \A q \in Qsos : rows[q] <= 1
           /\ \A t, u \in Draining : t = u
           /\ \A t \in Draining : View(t) \cap Logged = {}
           /\ Draining = {} => spill \cap Logged = {}

Once == Unwritten /\ TriedOnce /\ Fresh

LEMMA FirstRow ==
  ASSUME TypeOK, NEW q \in Qsos, q \notin Logged, rows' = OneMoreRow(q),
         \A p \in Qsos : rows[p] <= 1
  PROVE  \A p \in Qsos : rows'[p] <= 1
BY LogAssumption DEF TypeOK, Logged, OneMoreRow

LEMMA LogQsoOnce ==
  ASSUME Base, Once, NEW t \in Loggers, NEW l \in Qsos, LogQso(t, l)
  PROVE  Once'
<1>1. t \in Tasks /\ t # Boot /\ pc[t] = "idle" /\ pc' = [pc EXCEPT ![t] = "insert"]
      /\ holds' = [holds EXCEPT ![t] = l] /\ l \notin made
  BY LogAssumption DEF LogQso, Tasks
<1>2. Logged' = Logged /\ spill' = spill /\ rows' = rows /\ Draining' = Draining
      /\ lines' = lines /\ remaining' = remaining /\ torn' = torn
  BY <1>1 DEF LogQso, Logged, Draining, Base, TypeOK
<1>3. \A u \in Draining : View(u)' = View(u) /\ l \notin View(u)
  BY <1>1, <1>2 DEF View, Base, OnlyMade
<1>4. l \notin Logged \cup spill
  BY <1>1 DEF Base, OnlyMade
<1>5. \A u \in Loggers : pc[u] = "insert" => holds[u] # l
  BY <1>1 DEF Base, HandsKnown
<1>6. \A u \in Loggers : IF u = t THEN pc'[u] = "insert" /\ holds'[u] = l
                        ELSE pc'[u] = pc[u] /\ holds'[u] = holds[u]
  BY <1>1 DEF Base, TypeOK, Tasks
<1>7. Unwritten'
  BY <1>2, <1>3, <1>4, <1>5, <1>6 DEF Once, Unwritten
<1>8. TriedOnce' /\ Fresh'
  BY <1>2, <1>3 DEF Once, TriedOnce, Fresh
<1> QED BY <1>7, <1>8 DEF Once

LEMMA InsertQsoOnce ==
  ASSUME Base, Once, NEW t \in Loggers, InsertQso(t)
  PROVE  Once'
<1>1. t \in Tasks /\ pc[t] = "insert" /\ holds[t] \in Qsos /\ t # Boot /\ t \notin Draining
  BY LogAssumption DEF Tasks, InsertQso, Base, HandsKnown, TypeOK, Draining
<1>2. /\ rows' = OneMoreRow(holds[t]) /\ Logged' = Logged \cup {holds[t]}
      /\ spill' = spill /\ holds' = holds
  BY <1>1, RowsGrow DEF InsertQso, Base
<1>3. /\ pc' = [pc EXCEPT ![t] = IF spill = {} THEN "idle" ELSE "drain"]
      /\ lines' = [lines EXCEPT ![t] = spill] /\ remaining' = [remaining EXCEPT ![t] = {}]
      /\ torn' = (torn \/ (spill # {} /\ Draining # {}))
  BY <1>1 DEF InsertQso, ReadSpill, Resumed
<1>4. Draining' = IF spill = {} THEN Draining ELSE Draining \cup {t}
  BY <1>1, <1>3 DEF Draining, Base, TypeOK
<1>5. ASSUME NEW u \in Draining' PROVE View(u)' = IF u = t THEN spill ELSE View(u)
  BY <1>1, <1>3, <1>4 DEF View, Base, TypeOK, Draining
<1>6. holds[t] \notin Logged \cup spill /\ (\A u \in Draining : holds[t] \notin View(u))
      /\ (\A u \in Loggers : u # t /\ pc[u] = "insert" => holds[u] # holds[t])
  BY <1>1 DEF Once, Unwritten
<1>7. Unwritten'
  <2> SUFFICES ASSUME NEW u \in Loggers, pc'[u] = "insert"
               PROVE  /\ holds[u] \notin Logged' \cup spill
                      /\ \A d \in Draining' : holds[u] \notin View(d)'
                      /\ \A w \in Loggers : w # u /\ pc'[w] = "insert" => holds[w] # holds[u]
    BY <1>2 DEF Unwritten
  <2>1. u # t /\ pc[u] = "insert" /\ \A w \in Loggers : pc'[w] = "insert" => pc[w] = "insert"
    BY <1>1, <1>3 DEF Base, TypeOK, Tasks
  <2> QED BY <1>1, <1>2, <1>4, <1>5, <1>6, <2>1 DEF Once, Unwritten
<1>8. TriedOnce'
  BY <1>1, <1>3, <1>4 DEF Once, TriedOnce, Base, TypeOK, Draining
<1>9. Fresh'
  <2> SUFFICES ASSUME ~torn'
               PROVE  /\ \A q \in Qsos : rows'[q] <= 1
                      /\ \A d, e \in Draining' : d = e
                      /\ \A d \in Draining' : View(d)' \cap Logged' = {}
                      /\ Draining' = {} => spill' \cap Logged' = {}
    BY DEF Fresh
  <2>1. /\ \A q \in Qsos : rows[q] <= 1
        /\ \A d, e \in Draining : d = e
        /\ \A d \in Draining : View(d) \cap Logged = {}
        /\ Draining = {} => spill \cap Logged = {}
    BY <1>3 DEF Once, Fresh
  <2>2. \A q \in Qsos : rows'[q] <= 1
    BY <1>1, <1>2, <1>6, <2>1, FirstRow DEF Base
  <2>3. \A d, e \in Draining' : d = e
    BY <1>3, <1>4, <2>1
  <2>4. \A d \in Draining' : View(d)' \cap Logged' = {}
    BY <1>1, <1>2, <1>3, <1>4, <1>5, <1>6, <2>1
  <2>5. Draining' = {} => spill' \cap Logged' = {}
    BY <1>2, <1>4, <1>6, <2>1
  <2> QED BY <2>2, <2>3, <2>4, <2>5
<1> QED BY <1>7, <1>8, <1>9 DEF Once

LEMMA InsertFailsOnce ==
  ASSUME Base, Once, NEW t \in Loggers, InsertFails(t)
  PROVE  Once'
<1>1. t \in Tasks /\ t # Boot /\ pc[t] = "insert" /\ holds[t] \in Qsos
      /\ pc' = [pc EXCEPT ![t] = "idle"] /\ holds' = holds /\ rows' = rows /\ torn' = torn
      /\ lines' = lines /\ remaining' = remaining
  BY LogAssumption DEF Tasks, InsertFails, Base, HandsKnown, TypeOK
<1>2. Draining' = Draining /\ Logged' = Logged /\ \A u \in Draining : View(u)' = View(u)
  BY <1>1 DEF Draining, Logged, View, Base, TypeOK
<1>3. spill' = spill \cup {holds[t]} \/ spill' = spill
  BY DEF InsertFails, SpillQso
<1>4. holds[t] \notin Logged
  BY <1>1 DEF Once, Unwritten
<1>5. \A u \in Loggers : pc'[u] = "insert" => u # t /\ pc[u] = "insert"
  BY <1>1 DEF Base, TypeOK, Tasks
<1>6. Unwritten'
  BY <1>1, <1>2, <1>3, <1>5 DEF Once, Unwritten
<1>7. TriedOnce' /\ Fresh'
  BY <1>1, <1>2, <1>3, <1>4 DEF Once, TriedOnce, Fresh
<1> QED BY <1>6, <1>7 DEF Once

LEMMA DrainLineOnce ==
  ASSUME Base, Once, NEW t \in Tasks, NEW l \in Qsos, NEW ok \in BOOLEAN, DrainLine(t, l, ok)
  PROVE  Once'
<1> DEFINE left == IF ok THEN remaining[t] ELSE remaining[t] \cup {l}
           rest == lines[t] \ {l}
<1>0. t \in Draining /\ pc[t] = "drain" /\ l \in lines[t] /\ l \in View(t)
  BY DEF DrainLine, Draining, View
<1>1. /\ Logged' = IF ok THEN Logged \cup {l} ELSE Logged
      /\ View(t)' \subseteq View(t)
  BY LeftOver
<1>2. /\ lines' = [lines EXCEPT ![t] = rest] /\ remaining' = [remaining EXCEPT ![t] = left]
      /\ rows' = (IF ok THEN OneMoreRow(l) ELSE rows) /\ holds' = holds
  BY DEF DrainLine
<1>3. View(t)' = rest \cup left /\ lines'[t] = rest /\ remaining'[t] = left
  BY <1>2, <1>0 DEF View, Base, TypeOK
<1>4. \A u \in Tasks : u # t => View(u)' = View(u) /\ lines'[u] = lines[u]
                                /\ remaining'[u] = remaining[u]
  BY <1>2, <1>0 DEF View, Base, TypeOK
<1>5. lines[t] \cap remaining[t] = {}
  BY <1>0 DEF Once, TriedOnce
<1>6. rest \cap left = {} /\ (ok => l \notin rest \cup left) /\ left \subseteq View(t)
  BY <1>0, <1>5 DEF View
<1>7. /\ Draining' \subseteq Draining
      /\ \A u \in Loggers : pc'[u] = "insert" => pc[u] = "insert"
      /\ torn => torn'
      /\ \/ spill' = left \/ spill' = spill
         \/ t # Boot /\ spill' = spill \cup {holds[t]} /\ torn'
  <2>1. CASE rest # {}
    BY <2>1 DEF DrainLine, Draining
  <2>2. CASE rest = {}
    <3>1. pc' = Resumed(t) /\ CloseSpill(t, left)
      BY <2>2 DEF DrainLine
    <3>2. Draining' = Draining \ {t} /\ \A u \in Loggers : pc'[u] \in {"insert", "drain"} => pc'[u] = pc[u]
      BY <1>0, <3>1, DoneDraining
    <3>3. torn => torn'
      BY <3>1 DEF CloseSpill, SpillQso
    <3>4. \/ spill' = left \/ spill' = spill
          \/ t # Boot /\ spill' = spill \cup {holds[t]} /\ torn'
      BY <3>1 DEF CloseSpill, SpillQso
    <3> QED BY <3>2, <3>3, <3>4
  <2> QED BY <2>1, <2>2
<1>8. t # Boot => holds[t] \in Logged
  BY <1>0 DEF Base, HandsKnown, Tasks
<1>9. Draining \subseteq Tasks
  BY DEF Draining
<1>10. Unwritten'
  <2> SUFFICES ASSUME NEW u \in Loggers, pc'[u] = "insert"
               PROVE  /\ holds[u] \notin Logged' \cup spill'
                      /\ \A d \in Draining' : holds[u] \notin View(d)'
                      /\ \A w \in Loggers : w # u /\ pc'[w] = "insert" => holds[w] # holds[u]
    BY <1>2 DEF Unwritten
  <2>1. pc[u] = "insert"
    BY <1>7
  <2>2. /\ holds[u] \notin Logged \cup spill
        /\ \A d \in Draining : holds[u] \notin View(d)
        /\ \A w \in Loggers : w # u /\ pc[w] = "insert" => holds[w] # holds[u]
    BY <2>1 DEF Once, Unwritten
  <2>3. holds[u] \notin View(t) /\ (t # Boot => holds[u] # holds[t])
    BY <1>0, <1>8, <2>2
  <2>4. holds[u] \notin Logged' \cup spill'
    BY <1>0, <1>1, <1>6, <1>7, <2>2, <2>3
  <2>5. \A d \in Draining' : holds[u] \notin View(d)'
    BY <1>1, <1>4, <1>7, <1>9, <2>2, <2>3
  <2> QED BY <1>7, <2>2, <2>4, <2>5
<1>11. TriedOnce'
  BY <1>3, <1>4, <1>6, <1>7, <1>9 DEF Once, TriedOnce
<1>12. Fresh'
  <2> SUFFICES ASSUME ~torn'
               PROVE  /\ \A q \in Qsos : rows'[q] <= 1
                      /\ \A d, e \in Draining' : d = e
                      /\ \A d \in Draining' : View(d)' \cap Logged' = {}
                      /\ Draining' = {} => spill' \cap Logged' = {}
    BY DEF Fresh
  <2>1. /\ \A q \in Qsos : rows[q] <= 1
        /\ \A d, e \in Draining : d = e
        /\ View(t) \cap Logged = {}
    BY <1>0, <1>7 DEF Once, Fresh
  <2>2. \A q \in Qsos : rows'[q] <= 1
    BY <1>0, <1>2, <2>1, FirstRow DEF Base
  <2>3. \A d, e \in Draining' : d = e
    BY <1>7, <2>1
  <2>4. View(t)' \cap Logged' = {} /\ left \cap Logged' = {}
    BY <1>1, <1>3, <1>6, <2>1
  <2>5. \A d \in Draining' : View(d)' \cap Logged' = {}
    BY <1>0, <1>7, <2>1, <2>4
  <2>6. Draining' = {} => spill' = left
    <3>1. CASE rest # {}
      BY <1>0, <3>1 DEF DrainLine, Draining
    <3>2. CASE rest = {}
      BY <3>2 DEF DrainLine, CloseSpill
    <3> QED BY <3>1, <3>2
  <2> QED BY <2>2, <2>3, <2>4, <2>5, <2>6
<1> QED BY <1>10, <1>11, <1>12 DEF Once

LEMMA HydrateOnce ==
  ASSUME Base, Once, Hydrate
  PROVE  Once'
<1>1. Boot \in Tasks /\ Draining = {} /\ (\A u \in Loggers : pc[u] = "down")
  BY DEF Hydrate, Base, BootFirst, Draining, Tasks
<1>2. /\ Logged' = Logged /\ rows' = rows /\ spill' = spill /\ torn' = torn
      /\ lines' = [lines EXCEPT ![Boot] = spill] /\ remaining' = [remaining EXCEPT ![Boot] = {}]
  BY <1>1 DEF Hydrate, ReadSpill, Logged, Base, TypeOK
<1>3. pc' = IF spill = {} THEN Started ELSE [pc EXCEPT ![Boot] = "drain"]
  BY DEF Hydrate, ReadSpill, Resumed
<1>4. \A u \in Loggers : pc'[u] # "insert"
  BY <1>1, <1>3, LogAssumption DEF Started, Base, TypeOK, Tasks
<1>5. Draining' = IF spill = {} THEN {} ELSE {Boot}
  BY <1>1, <1>3 DEF Draining, Started, Base, TypeOK
<1>6. lines'[Boot] = spill /\ remaining'[Boot] = {}
  BY <1>1, <1>2 DEF Base, TypeOK
<1>7. View(Boot)' = spill
  BY <1>6 DEF View
<1>8. Unwritten' /\ TriedOnce'
  BY <1>4, <1>5, <1>6 DEF Unwritten, TriedOnce
<1>9. Fresh'
  BY <1>1, <1>2, <1>5, <1>7 DEF Once, Fresh
<1> QED BY <1>8, <1>9 DEF Once

LEMMA ProcessEndsOnce ==
  ASSUME Base, Once, ProcessEnds
  PROVE  Once'
<1>1. Draining' = {} /\ Logged' = Logged /\ rows' = rows /\ spill' = spill
      /\ torn' = (torn \/ Draining # {})
  BY DEF ProcessEnds, Draining, Logged
<1>2. \A u \in Loggers : pc'[u] # "insert"
  BY LogAssumption DEF ProcessEnds, Tasks
<1> QED BY <1>1, <1>2 DEF Once, Unwritten, TriedOnce, Fresh

LEMMA OnceStep == Base /\ Once /\ [Next]_vars => Once'
<1> SUFFICES ASSUME Base, Once, [Next]_vars PROVE Once'
  OBVIOUS
<1>1. CASE UNCHANGED vars
  BY <1>1 DEF vars, Once, Unwritten, TriedOnce, Fresh, View, Logged, Draining
<1> QED BY <1>1, LogQsoOnce, InsertQsoOnce, InsertFailsOnce, DrainLineOnce, HydrateOnce,
        ProcessEndsOnce DEF Next

(* No second row for a QSO unless a drain went wrong, for every number of  *)
(* QSOs and tasks.                                                         *)
THEOREM NoSecondRow == Spec => []RowsOnce
<1>1. Init => Once
  <2> SUFFICES ASSUME Init PROVE Once
    OBVIOUS
  <2>1. Logged = {} /\ Draining = {} /\ \A t \in Loggers : pc[t] = "down"
    BY LogAssumption DEF Init, Logged, Draining, Tasks
  <2>2. \A q \in Qsos : rows[q] <= 1
    BY DEF Init
  <2> QED BY <2>1, <2>2 DEF Once, Unwritten, TriedOnce, Fresh
<1>2. Once => RowsOnce
  BY DEF Once, Fresh, RowsOnce
<1> QED BY <1>1, <1>2, BaseInit, BaseStep, OnceStep, PTL DEF Spec

(* Losses are known: what the ledger says of every step, said of a state.  *)
THEOREM LossesKnown == Spec => []LossesAreKnown
<1> DEFINE L == LossesAreKnown
<1>1. Init => L
  BY DEF Init, LossesAreKnown
<1>2. Base /\ L /\ [Next]_vars => L'
  <2> SUFFICES ASSUME Base, L, [Next]_vars PROVE L'
    OBVIOUS
  <2>1. CASE UNCHANGED vars
    BY <2>1 DEF vars, LossesAreKnown, Kept, InFlight, InDrain, Logged, Draining
  <2>2. ASSUME NEW t \in Loggers, NEW l \in Qsos, LogQso(t, l) PROVE L'
    BY <2>2, LogQsoKeeps DEF LossesAreKnown, Known
  <2>3. ASSUME made' = made, \A q \in Qsos : Accounts(q) PROVE L'
    <3> SUFFICES ASSUME NEW q \in made PROVE Kept(q)' \/ q \in Known'
      BY <2>3 DEF LossesAreKnown, Known
    <3>1. q \in Qsos
      BY DEF Base, TypeOK
    <3> QED BY <2>3, <3>1 DEF Accounts, LossesAreKnown, Known
  <2>4. (\E t \in Loggers : InsertQso(t) \/ InsertFails(t)) \/ Hydrate \/ ProcessEnds
        \/ (\E t \in Tasks, q \in Qsos, ok \in BOOLEAN : DrainLine(t, q, ok))
        => made' = made
    BY DEF InsertQso, InsertFails, Hydrate, ProcessEnds, DrainLine
  <2> QED BY <2>1, <2>2, <2>3, <2>4, InsertQsoAccounts, InsertFailsAccounts,
          DrainLineAccounts, HydrateAccounts, ProcessEndsAccounts DEF Next
<1> QED BY <1>1, <1>2, BaseInit, BaseStep, PTL DEF Spec
=============================================================================
