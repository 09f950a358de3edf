---------------------------- MODULE DecodeProofs ----------------------------
(* That no pass of the decoder hands a message over again, for any set of  *)
(* messages, any computer, any number of faults and saves.                 *)
EXTENDS DecodePipeline, TLAPS

(* The slot loop is done with the slot that is followed.                   *)
Done == watch.age > 0 \/ (watch.age = 0 /\ slot_loop = "between")
(* The pass at the boundary has still to find something in it.             *)
Before == watch.age = -1 \/ (watch.age = 0 /\ slot_loop = "decoding")

Watches == [age : -1..3, early : SUBSET Texts, regular : SUBSET Texts, seen : SUBSET Texts,
            given : [Texts -> Nat], overtaken : BOOLEAN]
Marks == [mine : BOOLEAN, texts : SUBSET Texts]
Jt9s == [runs : BOOLEAN, mine : BOOLEAN]
VorabOK ==
    /\ vorab.runs \in BOOLEAN /\ vorab.tried \in BOOLEAN /\ vorab.mine \in BOOLEAN
    /\ vorab = [runs |-> vorab.runs, tried |-> vorab.tried, takes |-> vorab.takes,
                mine |-> vorab.mine]
LateOK ==
    /\ late.runs \in BOOLEAN /\ late.mine \in BOOLEAN
    /\ late = [runs |-> late.runs, mode |-> late.mode, takes |-> late.takes, mine |-> late.mine]

HandoverTypeOK ==
    /\ texts \subseteq Texts
    /\ slot_loop \in {"between", "decoding", "giving"}
    /\ watch \in Watches /\ verarbeitet \in Marks /\ jt9 \in Jt9s
    /\ VorabOK /\ LateOK

(* The pass before the boundary and its mark.                              *)
OneVorab ==
    vorab.runs /\ vorab.mine => watch.early = {} /\ (watch.age = -1 => vorab.tried)
MarkIsOurs == verarbeitet.mine => verarbeitet.texts = watch.early /\ watch.early # {}
MarkLasts ==
    watch.early # {} /\ ~Done =>
        verarbeitet.mine /\ ~vorab.runs /\ (watch.age = -1 => vorab.tried)
OvertakenIsDone == watch.overtaken => Done

(* The later passes start from the table the pass at the boundary left.    *)
LaterIsLater == (late.runs /\ late.mine) \/ (jt9.runs /\ jt9.mine) => ~Before
TableGrows == watch.regular \subseteq watch.seen /\ (Before => watch.seen = {})

(* Who has handed m over so far.                                           *)
ByVorab(m) == IF m \in watch.early THEN 1 ELSE 0
ByRegular(m) == IF Done /\ m \in watch.regular \ watch.early THEN 1 ELSE 0
ByLater(m) == IF m \in watch.seen \ watch.regular THEN 1 ELSE 0

Counted ==
    ~watch.overtaken =>
        \A m \in Texts : watch.given[m] = ByVorab(m) + ByRegular(m) + ByLater(m)
AtLeastOnce == \A m \in watch.regular : Done => watch.given[m] > 0

HandoverInv ==
    /\ OneVorab /\ MarkIsOurs /\ MarkLasts /\ OvertakenIsDone /\ LaterIsLater /\ TableGrows
    /\ Counted /\ AtLeastOnce

USE DEF ByVorab, ByRegular, ByLater

LEMMA HandoverAtFirst == DecodeInit => HandoverTypeOK /\ HandoverInv
  BY DEF DecodeInit, Unheard, NoVorab, NothingDone, Idle2, IdleJt9, HandoverTypeOK, Watches,
         Marks, Jt9s, VorabOK, LateOK, HandoverInv, OneVorab, MarkIsOurs, MarkLasts, OvertakenIsDone, LaterIsLater, TableGrows, Counted,
         AtLeastOnce, Done, Before

(* What Hand does to the counts.                                           *)
LEMMA HandCounts ==
    ASSUME NEW w \in Watches,
           NEW found \in SUBSET Texts
    PROVE  /\ Hand(w, found) \in Watches
           /\ Hand(w, found).age = w.age /\ Hand(w, found).early = w.early
           /\ Hand(w, found).regular = w.regular /\ Hand(w, found).seen = w.seen
           /\ Hand(w, found).overtaken = w.overtaken
           /\ \A m \in Texts :
                 Hand(w, found).given[m] = w.given[m] + IF m \in found THEN 1 ELSE 0
  BY DEF Hand, Watches

(* Each of the passes' ends, one lemma each.                               *)
LEMMA VorabEndsStep ==
    ASSUME HandoverTypeOK, HandoverInv, NEW found \in SUBSET texts, VorabEnds(found)
    PROVE  (HandoverTypeOK /\ HandoverInv)'
<1> USE DEF HandoverTypeOK, Watches, Marks, Jt9s, VorabOK, LateOK
<1>1. found \in SUBSET Texts /\ texts' = texts /\ UNCHANGED <<slot_loop, late, jt9>>
  BY DEF VorabEnds
<1>2. vorab.runs /\ vorab' = [vorab EXCEPT !.runs = FALSE]
  BY DEF VorabEnds
<1>3. CASE vorab.mine
  <2>1. watch.early = {} /\ ~verarbeitet.mine
    BY <1>2, <1>3 DEF HandoverInv, OneVorab, MarkIsOurs
  <2> DEFINE w == Hand(watch, found)
  <2>2. PICK after \in BOOLEAN :
         watch' = [w EXCEPT !.early = found, !.overtaken = after] /\ (after <=> Done)
    BY <1>2, <1>3, Zenon DEF VorabEnds, Done
  <2>3. /\ watch'.age = watch.age /\ watch'.early = found /\ watch'.regular = watch.regular
        /\ watch'.seen = watch.seen /\ (watch'.overtaken <=> Done)
        /\ \A m \in Texts : watch'.given[m] = watch.given[m] + IF m \in found THEN 1 ELSE 0
        /\ watch' \in Watches
    <3>1. /\ w \in Watches /\ w.age = watch.age /\ w.regular = watch.regular
          /\ w.seen = watch.seen
          /\ \A m \in Texts : w.given[m] = watch.given[m] + IF m \in found THEN 1 ELSE 0
      BY <1>1, HandCounts
    <3> HIDE DEF w
    <3>2. found \in SUBSET Texts /\ after \in BOOLEAN
      BY <1>1, <2>2
    <3>3. watch' = [w EXCEPT !.early = found, !.overtaken = after]
      BY <2>2
    <3>4. /\ watch' \in Watches /\ watch'.age = w.age /\ watch'.early = found
          /\ watch'.regular = w.regular /\ watch'.seen = w.seen /\ watch'.given = w.given
          /\ watch'.overtaken <=> after
      <4>1. CASE after = TRUE
        BY <3>1, <3>2, <3>3, <4>1
      <4>2. CASE after = FALSE
        BY <3>1, <3>2, <3>3, <4>2
      <4>. QED BY <3>2, <4>1, <4>2
    <3>. QED BY <2>2, <3>1, <3>4, Zenon
  <2>4. verarbeitet' = IF found = {} THEN verarbeitet ELSE [mine |-> TRUE, texts |-> found]
    BY <1>2, <1>3 DEF VorabEnds
  <2>5. (Done' <=> Done) /\ (Before' <=> Before)
    BY <1>1, <2>3 DEF Done, Before
  <2>6. HandoverTypeOK'
    BY <1>1, <1>2, <2>3, <2>4
  <2>7. (OneVorab /\ MarkIsOurs /\ OvertakenIsDone)'
    BY <1>2, <2>1, <2>3, <2>4, <2>5 DEF OneVorab, MarkIsOurs, OvertakenIsDone
  <2>8. MarkLasts'
    BY <1>2, <1>3, <2>1, <2>3, <2>4, <2>5 DEF HandoverInv, OneVorab, MarkLasts
  <2>9. (LaterIsLater /\ TableGrows)'
    BY <1>1, <2>3, <2>5 DEF HandoverInv, LaterIsLater, TableGrows
  <2>10. Counted'
    BY <2>1, <2>3, <2>5 DEF HandoverInv, Counted, OvertakenIsDone
  <2>11. AtLeastOnce'
    BY <2>3, <2>5 DEF HandoverInv, AtLeastOnce
  <2>. QED BY <2>6, <2>7, <2>8, <2>9, <2>10, <2>11 DEF HandoverInv
<1>4. CASE ~vorab.mine
  <2>1. watch' = watch
        /\ verarbeitet' = IF found = {} THEN verarbeitet ELSE [mine |-> FALSE, texts |-> found]
    BY <1>4 DEF VorabEnds
  <2>2. (Done' <=> Done) /\ (Before' <=> Before)
    BY <1>1, <2>1 DEF Done, Before
  <2>3. HandoverTypeOK'
    BY <1>1, <1>2, <2>1
  <2>. QED BY <1>1, <1>2, <1>4, <2>1, <2>2, <2>3
           DEF HandoverInv, OneVorab, MarkIsOurs, MarkLasts, OvertakenIsDone, LaterIsLater,
               TableGrows, Counted, AtLeastOnce
<1>. QED BY <1>3, <1>4

LEMMA SlotDecodesStep ==
    ASSUME HandoverTypeOK, HandoverInv, NEW found \in SUBSET texts, SlotDecodes(found)
    PROVE  (HandoverTypeOK /\ HandoverInv)'
<1> USE DEF HandoverTypeOK, Watches, Marks, Jt9s, VorabOK, LateOK
<1>1. /\ found \in SUBSET Texts /\ slot_loop = "decoding" /\ slot_loop' = "giving"
      /\ UNCHANGED <<texts, vorab, verarbeitet>>
  BY DEF SlotDecodes
<1>2. late' = late \/ (/\ late'.runs /\ late'.mine = (watch.age = 0)
                      /\ late' = [runs |-> late'.runs, mode |-> late'.mode, takes |-> late'.takes,
                                  mine |-> late'.mine])
  BY DEF SlotDecodes, LateScheduled
<1>3. jt9' = jt9 \/ jt9' = [runs |-> TRUE, mine |-> watch.age = 0]
  BY DEF SlotDecodes, Jt9Scheduled
<1>4. watch' = IF watch.age = 0 THEN [watch EXCEPT !.seen = found, !.regular = found] ELSE watch
  BY DEF SlotDecodes
<1>5. /\ watch'.age = watch.age /\ watch'.early = watch.early /\ watch'.given = watch.given
      /\ watch'.overtaken = watch.overtaken
      /\ watch' \in Watches
  BY <1>1, <1>4
<1>6. (Done' <=> Done) /\ (Before' <=> watch.age = -1)
  BY <1>1, <1>5 DEF Done, Before
<1>7. HandoverTypeOK'
  <2>1. (watch.age = 0) \in BOOLEAN
    OBVIOUS
  <2>2. LateOK'
    BY <1>2, <2>1
  <2>3. jt9' \in Jt9s
    <3>1. [runs |-> TRUE, mine |-> watch.age = 0] \in Jt9s
      BY <2>1, Zenon DEF Jt9s
    <3>. QED BY <1>3, <3>1
  <2>4. VorabOK' /\ verarbeitet' \in Marks
    BY <1>1
  <2>. QED BY <1>1, <1>5, <2>2, <2>3, <2>4 DEF HandoverTypeOK
<1>8. CASE watch.age = 0
  <2>1. ~Done /\ Before /\ watch'.seen = found /\ watch'.regular = found /\ watch.seen = {}
    BY <1>1, <1>4, <1>8 DEF HandoverInv, TableGrows, Done, Before
  <2>2. (LaterIsLater /\ TableGrows)'
    BY <1>6, <1>8, <2>1 DEF LaterIsLater, TableGrows
  <2>3. (Counted /\ AtLeastOnce)'
    BY <1>1, <1>5, <1>6, <2>1 DEF HandoverInv, Counted, AtLeastOnce, TableGrows
  <2>. QED BY <1>1, <1>5, <1>6, <1>7, <1>8, <2>2, <2>3
           DEF HandoverInv, OneVorab, MarkIsOurs, MarkLasts, OvertakenIsDone
<1>9. CASE watch.age # 0
  <2>1. watch' = watch /\ Before' = Before
    BY <1>4, <1>6, <1>9 DEF Before
  <2>2. LaterIsLater'
    BY <1>2, <1>3, <1>9, <2>1 DEF HandoverInv, LaterIsLater
  <2>. QED BY <1>1, <1>6, <1>7, <2>1, <2>2
           DEF HandoverInv, OneVorab, MarkIsOurs, MarkLasts, OvertakenIsDone, TableGrows, Counted,
               AtLeastOnce
<1>. QED BY <1>8, <1>9

LEMMA SlotGivesStep ==
    ASSUME HandoverTypeOK, HandoverInv, SlotGives
    PROVE  (HandoverTypeOK /\ HandoverInv)'
<1> USE DEF HandoverTypeOK, Watches, Marks, Jt9s, VorabOK, LateOK
<1>1. /\ slot_loop = "giving" /\ slot_loop' = "between" /\ UNCHANGED <<texts, vorab, late, jt9>>
  BY DEF SlotGives
<1>2. CASE watch.age = 0
  <2>1. /\ watch' = Hand(watch, NewHere) /\ NewHere \in SUBSET Texts
        /\ verarbeitet' = IF verarbeitet.mine THEN NothingDone ELSE verarbeitet
    BY <1>2 DEF SlotGives, NewHere
  <2>2. /\ watch'.age = 0 /\ watch'.early = watch.early /\ watch'.regular = watch.regular
        /\ watch'.seen = watch.seen /\ watch'.overtaken = watch.overtaken
        /\ \A m \in Texts : watch'.given[m] = watch.given[m] + IF m \in NewHere THEN 1 ELSE 0
        /\ watch' \in Watches
    BY <1>2, <2>1, HandCounts
  <2>3. ~Done /\ Done' /\ ~Before /\ ~Before' /\ ~watch.overtaken
    BY <1>1, <1>2, <2>2 DEF HandoverInv, OvertakenIsDone, Done, Before
  <2>4. NewHere = watch.regular \ watch.early
    BY <1>2, <2>3 DEF HandoverInv, MarkIsOurs, MarkLasts, NewHere
  <2>5. HandoverTypeOK'
    BY <1>1, <2>1, <2>2 DEF NothingDone
  <2>6. (OneVorab /\ MarkLasts /\ OvertakenIsDone /\ LaterIsLater /\ TableGrows)'
    BY <1>1, <2>2, <2>3
       DEF HandoverInv, OneVorab, MarkLasts, OvertakenIsDone, LaterIsLater, TableGrows
  <2>7. MarkIsOurs'
    BY <2>1 DEF NothingDone, MarkIsOurs
  <2>8. Counted'
    BY <2>2, <2>3, <2>4 DEF HandoverInv, Counted
  <2>9. AtLeastOnce'
    <3> SUFFICES ASSUME NEW m \in watch.regular PROVE watch'.given[m] > 0
      BY <2>2 DEF AtLeastOnce
    <3>1. m \in Texts /\ watch.given[m] = ByVorab(m) + ByLater(m)
      BY <2>3 DEF HandoverInv, Counted
    <3>. QED BY <2>2, <2>4, <3>1
  <2>. QED BY <2>5, <2>6, <2>7, <2>8, <2>9 DEF HandoverInv
<1>3. CASE watch.age # 0
  <2>1. watch' = watch /\ verarbeitet' = verarbeitet
    BY <1>3 DEF SlotGives
  <2>2. (Done' <=> Done) /\ (Before' <=> Before)
    BY <1>1, <1>3, <2>1 DEF Done, Before
  <2>. QED BY <1>1, <2>1, <2>2
           DEF HandoverInv, OneVorab, MarkIsOurs, MarkLasts, OvertakenIsDone, LaterIsLater,
               TableGrows, Counted, AtLeastOnce
<1>. QED BY <1>2, <1>3

(* A later pass that ends, stage 2 or jt9.                                 *)
LEMMA TakeLateStep ==
    ASSUME HandoverTypeOK, HandoverInv, NEW found \in SUBSET texts, NEW mine \in BOOLEAN,
           TakeLate(mine, found), mine => ~Before,
           late' = late \/ late' = Idle2, jt9' = jt9 \/ jt9' = IdleJt9,
           UNCHANGED <<texts, slot_loop, vorab, verarbeitet>>
    PROVE  (HandoverTypeOK /\ HandoverInv)'
<1> USE DEF HandoverTypeOK, Watches, Marks, Jt9s, VorabOK, LateOK
<1>a. LateOK' /\ jt9' \in Jt9s /\ VorabOK' /\ verarbeitet' \in Marks
  <2>1. LateOK'
    <3>1. CASE late' = late
      BY <3>1
    <3>2. CASE late' = Idle2
      BY <3>2 DEF Idle2
    <3>. QED BY <3>1, <3>2
  <2>2. jt9' \in Jt9s
    <3>1. CASE jt9' = jt9
      BY <3>1
    <3>2. CASE jt9' = IdleJt9
      BY <3>2 DEF IdleJt9
    <3>. QED BY <3>1, <3>2
  <2>. QED BY <2>1, <2>2
<1>1. CASE mine
  <2> DEFINE new == NewLate(found)
  <2>1. new \in SUBSET Texts /\ new \cap watch.seen = {} /\ new \cap watch.regular = {}
    BY DEF NewLate
  <2> HIDE DEF new
  <2>2. watch' = [Hand(watch, new) EXCEPT !.seen = @ \cup new]
    BY <1>1 DEF TakeLate, new
  <2>3. /\ watch'.age = watch.age /\ watch'.early = watch.early
        /\ watch'.regular = watch.regular /\ watch'.seen = watch.seen \cup new
        /\ watch'.overtaken = watch.overtaken
        /\ \A m \in Texts : watch'.given[m] = watch.given[m] + IF m \in new THEN 1 ELSE 0
        /\ watch' \in Watches
    BY <2>1, <2>2, HandCounts
  <2>4. (Done' <=> Done) /\ (Before' <=> Before) /\ ~Before
    BY <1>1, <2>3 DEF Done, Before
  <2>5. HandoverTypeOK'
    BY <1>a, <2>3 DEF HandoverTypeOK
  <2>6. (OneVorab /\ MarkIsOurs /\ MarkLasts /\ OvertakenIsDone /\ LaterIsLater /\ TableGrows)'
    BY <2>3, <2>4 DEF HandoverInv, OneVorab, MarkIsOurs, MarkLasts, OvertakenIsDone, LaterIsLater,
                      TableGrows
  <2>7. (Counted /\ AtLeastOnce)'
    BY <2>1, <2>3, <2>4 DEF HandoverInv, Counted, AtLeastOnce, TableGrows
  <2>. QED BY <2>5, <2>6, <2>7 DEF HandoverInv
<1>2. CASE ~mine
  <2>1. watch' = watch
    BY <1>2 DEF TakeLate
  <2>2. (Done' <=> Done) /\ (Before' <=> Before)
    BY <2>1 DEF Done, Before
  <2>3. HandoverTypeOK'
    BY <1>a, <2>1 DEF HandoverTypeOK
  <2>. QED BY <2>1, <2>2, <2>3
           DEF HandoverInv, OneVorab, MarkIsOurs, MarkLasts, OvertakenIsDone, LaterIsLater,
               TableGrows, Counted, AtLeastOnce, Idle2, IdleJt9
<1>. QED BY <1>1, <1>2

LEMMA BoundaryStep ==
    ASSUME HandoverTypeOK, HandoverInv, Boundary
    PROVE  (HandoverTypeOK /\ HandoverInv)'
<1> USE DEF HandoverTypeOK, Watches, Marks, Jt9s, VorabOK, LateOK
<1>1. texts' = texts /\ slot_loop = "between" /\ slot_loop' = "decoding"
  BY DEF Boundary
<1>2. CASE /\ texts # {} /\ watch.age < 3 /\ watch' = [watch EXCEPT !.age = @ + 1]
           /\ vorab' = [vorab EXCEPT !.tried = FALSE] /\ UNCHANGED <<late, jt9, verarbeitet>>
  <2>1. /\ watch'.age = watch.age + 1 /\ watch'.age \in 0..3 /\ watch'.early = watch.early
        /\ watch'.regular = watch.regular /\ watch'.seen = watch.seen
        /\ watch'.given = watch.given /\ watch'.overtaken = watch.overtaken
        /\ watch' \in Watches
    BY <1>2
  <2>2. (Done' <=> Done) /\ (Before' <=> Before)
    BY <1>1, <2>1 DEF Done, Before
  <2>3. HandoverTypeOK'
    BY <1>1, <1>2, <2>1
  <2>4. (OneVorab /\ MarkIsOurs /\ MarkLasts)'
    BY <1>2, <2>1, <2>2 DEF HandoverInv, OneVorab, MarkIsOurs, MarkLasts
  <2>. QED BY <1>2, <2>1, <2>2, <2>3, <2>4
           DEF HandoverInv, OvertakenIsDone, LaterIsLater, TableGrows, Counted, AtLeastOnce
<1>3. CASE /\ watch' = Unheard
           /\ late' = [late EXCEPT !.mine = FALSE] /\ jt9' = [jt9 EXCEPT !.mine = FALSE]
           /\ verarbeitet' = [verarbeitet EXCEPT !.mine = FALSE]
           /\ vorab' = [vorab EXCEPT !.tried = FALSE, !.mine = FALSE]
  <2>1. HandoverTypeOK'
    <3>1. watch' \in Watches
      BY <1>3 DEF Unheard
    <3>2. LateOK' /\ VorabOK'
      BY <1>3
    <3>3. jt9' \in Jt9s /\ verarbeitet' \in Marks
      BY <1>3
    <3>. QED BY <1>1, <3>1, <3>2, <3>3 DEF HandoverTypeOK
  <2>2. ~Done' /\ Before'
    BY <1>3 DEF Unheard, Done, Before
  <2>. QED BY <1>3, <2>1, <2>2
           DEF HandoverInv, OneVorab, MarkIsOurs, MarkLasts, OvertakenIsDone, LaterIsLater,
               TableGrows, Counted, AtLeastOnce, Unheard
<1>. QED BY <1>2, <1>3 DEF Boundary

LEMMA HandoverStep ==
    HandoverTypeOK /\ HandoverInv /\ [DecodeNext]_decodeVars => (HandoverTypeOK /\ HandoverInv)'
<1> SUFFICES ASSUME HandoverTypeOK, HandoverInv, [DecodeNext]_decodeVars
             PROVE  (HandoverTypeOK /\ HandoverInv)'
  OBVIOUS
<1> USE DEF HandoverTypeOK, Watches, Marks, Jt9s, VorabOK, LateOK
<1>1. ASSUME UNCHANGED <<texts, slot_loop, verarbeitet, watch, vorab, late, jt9>>
      PROVE (HandoverTypeOK /\ HandoverInv)'
  BY <1>1 DEF HandoverInv, OneVorab, MarkIsOurs, MarkLasts, OvertakenIsDone, LaterIsLater,
              TableGrows, Counted, AtLeastOnce, Done, Before
<1>2. CASE VorabStarts
  <2>1. /\ slot_loop = "between" /\ ~vorab.runs /\ ~vorab.tried
        /\ UNCHANGED <<texts, slot_loop, verarbeitet, watch, late, jt9>>
        /\ \E t : vorab' = [runs |-> TRUE, tried |-> TRUE, takes |-> t, mine |-> watch.age = -1]
    BY <1>2 DEF VorabStarts
  <2>2. (Done' <=> Done) /\ (Before' <=> Before)
    BY <2>1 DEF Done, Before
  <2>3. watch.early = {} \/ Done
    BY <2>1 DEF HandoverInv, MarkLasts, Done
  <2>4. HandoverTypeOK'
    BY <2>1
  <2>5. OneVorab' /\ MarkLasts'
    BY <2>1, <2>2, <2>3 DEF OneVorab, MarkLasts, Done
  <2>. QED BY <2>1, <2>2, <2>4, <2>5
           DEF HandoverInv, MarkIsOurs, OvertakenIsDone, LaterIsLater, TableGrows, Counted,
               AtLeastOnce
<1>3. CASE VorabFails
  <2>1. UNCHANGED <<texts, slot_loop, verarbeitet, watch, late, jt9>>
        /\ vorab' = [vorab EXCEPT !.runs = FALSE]
    BY <1>3 DEF VorabFails
  <2>2. (Done' <=> Done) /\ (Before' <=> Before)
    BY <2>1 DEF Done, Before
  <2>3. HandoverTypeOK'
    BY <2>1
  <2>. QED BY <2>1, <2>2, <2>3
           DEF HandoverInv, OneVorab, MarkIsOurs, MarkLasts, OvertakenIsDone, LaterIsLater,
               TableGrows, Counted, AtLeastOnce
<1>4. CASE SlotDecodeFails
  <2>1. /\ slot_loop = "decoding" /\ slot_loop' = "giving"
        /\ UNCHANGED <<texts, verarbeitet, watch, vorab, late, jt9>>
    BY <1>4 DEF SlotDecodeFails
  <2>2. (Done' <=> Done) /\ (Before' => Before)
    BY <2>1 DEF Done, Before
  <2>. QED BY <2>1, <2>2
           DEF HandoverInv, OneVorab, MarkIsOurs, MarkLasts, OvertakenIsDone, LaterIsLater,
               TableGrows, Counted, AtLeastOnce
<1>5. CASE LateFails
  <2>1. /\ late' = Idle2 /\ UNCHANGED <<texts, slot_loop, verarbeitet, watch, vorab, jt9>>
    BY <1>5 DEF LateFails
  <2>2. TakeLate(FALSE, {})
    BY <2>1 DEF TakeLate
  <2>. QED BY <2>1, <2>2, TakeLateStep
<1>6. ASSUME NEW found \in SUBSET texts, LateEnds(found)
      PROVE (HandoverTypeOK /\ HandoverInv)'
  BY <1>6, TakeLateStep DEF LateEnds, HandoverInv, LaterIsLater
<1>7. ASSUME NEW found \in SUBSET texts, Jt9Ends(found)
      PROVE (HandoverTypeOK /\ HandoverInv)'
  BY <1>7, TakeLateStep DEF Jt9Ends, HandoverInv, LaterIsLater
<1>8. CASE OtherBurst \/ ConfigSaved \/ UNCHANGED decodeVars
  BY <1>1, <1>8 DEF OtherBurst, ConfigSaved, decodeVars
<1>. QED BY <1>2, <1>3, <1>4, <1>5, <1>6, <1>7, <1>8, VorabEndsStep, SlotDecodesStep,
            SlotGivesStep, BoundaryStep DEF DecodeNext

LEMMA CountsSuffice == HandoverTypeOK /\ HandoverInv => HeardOnce
<1> SUFFICES ASSUME HandoverTypeOK, HandoverInv, watch.age >= 0, NEW m \in texts
             PROVE  /\ watch.given[m] > 1 => m \in watch.early \ watch.regular \/ watch.overtaken
                    /\ m \in watch.regular /\ (watch.age > 0 \/ slot_loop = "between")
                          => watch.given[m] > 0
  BY DEF HeardOnce
<1>1. m \in Texts /\ watch.age \in -1..3
  BY DEF HandoverTypeOK, Watches
<1>2. m \in watch.regular /\ (watch.age > 0 \/ slot_loop = "between") => watch.given[m] > 0
  BY <1>1 DEF HandoverInv, AtLeastOnce, Done
<1>3. ASSUME ~watch.overtaken, watch.given[m] > 1 PROVE m \in watch.early \ watch.regular
  BY <1>1, <1>3 DEF HandoverInv, Counted
<1>. QED BY <1>2, <1>3

(* The passes over a slot hand each message to the machine once, but for   *)
(* the two cases the property names.                                       *)
THEOREM AlwaysHeardOnce == DecodeSpec => []HeardOnce
<1>. QED BY HandoverAtFirst, HandoverStep, CountsSuffice, PTL DEF DecodeSpec
=============================================================================
