--------------------------- MODULE BackgroundProofs ---------------------------
(***************************************************************************)
(* What the parts beside the QSO keep whatever happens: the hunter, the    *)
(* memory that survives a restart, the exchange with PSK Reporter and the  *)
(* watchdog of the hotspot.  Each has an invariant of its own; they share  *)
(* nothing but this module.                                                *)
(***************************************************************************)
EXTENDS HuntPicker, Memory, PskReports, Hotspot, FiniteSetTheorems,
        WellFoundedInduction, TLAPS

-----------------------------------------------------------------------------
(* Whom the hunter picks.                                                  *)

Told == [call : Callers, kind : {"cq", "r_report", "closing"}, snr : Int, facts : SUBSET STRING]

(* The picker's own memory of a tail end is never older than its last one. *)
PickerInv ==
    /\ block \in Blocks
    /\ tail_end_candidates \in [Callers -> [left : Nat, closing : Told \cup {NoTarget}]]
    /\ \A c \in Callers : tail_end_candidates[c].left > 0 =>
           /\ tail_end_candidates[c].closing \in Told
           /\ tail_end_candidates[c].closing.call = c
    /\ last_pick \in [Callers -> 0..TAIL_END_COOLDOWN]
    /\ since_tail \in [Callers -> 0..TAIL_END_COOLDOWN]
    /\ \A c \in Callers : last_pick[c] <= since_tail[c]

(* What can be said of a table of tail ends without its age.               *)
TableOK(T) ==
    /\ T \in [Callers -> [left : Nat, closing : Told \cup {NoTarget}]]
    /\ \A c \in Callers : T[c].left > 0 => T[c].closing \in Told /\ T[c].closing.call = c

(* No filter and no gate brings a caller in.                               *)
LEMMA GatesTakeAway ==
    ASSUME NEW D, NEW a
    PROVE  /\ FloorGate(D, a) \subseteq D /\ ContinentGate(D, a) \subseteq D
           /\ WeakGate(D, a) \subseteq D /\ CrowdGate(D, a) \subseteq D
           /\ SoleGate(D, a) \subseteq D /\ StrictGate(D, a) \subseteq D
           /\ Profile(D) \subseteq D
<1>1. ASSUME NEW kept, kept \subseteq D PROVE Gate(D, kept, a) \subseteq D
  BY <1>1 DEF Gate
<1>2. FloorGate(D, a) \subseteq D /\ ContinentGate(D, a) \subseteq D /\ CrowdGate(D, a) \subseteq D
  BY <1>1 DEF FloorGate, ContinentGate, CrowdGate
<1>3. StrictGate(D, a) \subseteq D /\ WeakGate(D, a) \subseteq D
  BY <1>1 DEF StrictGate, WeakGate
<1>4. SoleGate(D, a) \subseteq D /\ Profile(D) \subseteq D
  BY DEF SoleGate, Profile
<1> QED BY <1>2, <1>3, <1>4

LEMMA WinnersCalled ==
    ASSUME NEW batch, NEW T, NEW a
    PROVE  Winners(batch, T, a) \subseteq CallingCq(batch, T)
<1> DEFINE D0 == CallingCq(batch, T)
           D1 == FloorGate(D0, a)
           D2 == ContinentGate(D1, a)
           D3 == WeakGate(D2, a)
           D4 == CrowdGate({d \in D3 : MayCallNow(d)}, a)
           D5 == SoleGate({d \in D4 : "sends_with_us" \notin d.facts}, a)
           D6 == StrictGate(D5, a)
<1>1. Survivors(batch, T, a) = Profile(D6)
  BY DEF Survivors
<1>2. D1 \subseteq D0 /\ D2 \subseteq D1 /\ D3 \subseteq D2
  <2> HIDE DEF D0
  <2>1. D1 \subseteq D0
    BY GatesTakeAway
  <2> HIDE DEF D1
  <2>2. D2 \subseteq D1
    BY GatesTakeAway
  <2> HIDE DEF D2
  <2> QED BY <2>1, <2>2, GatesTakeAway
<1> HIDE DEF D0, D1, D2, D3
<1>3. D4 \subseteq D3
  BY GatesTakeAway
<1> HIDE DEF D4
<1>4. D5 \subseteq D4
  BY GatesTakeAway
<1> HIDE DEF D5
<1>5. D6 \subseteq D5
  BY GatesTakeAway
<1> HIDE DEF D6
<1>6. Profile(D6) \subseteq D6
  BY GatesTakeAway
<1>7. Winners(batch, T, a) \subseteq Survivors(batch, T, a)
  BY DEF Winners
<1> QED BY <1>1, <1>2, <1>3, <1>4, <1>5, <1>6, <1>7 DEF D0

(* What the gates leave in the arm of the rules, they leave in the control *)
(* arm too.                                                                *)
LEMMA ControlLeavesMore ==
    ASSUME NEW batch, NEW T, Survivors(batch, T, "rule") # {}
    PROVE  Survivors(batch, T, "control") # {}
<1> DEFINE D0 == CallingCq(batch, T)
           worth(a) == WeakGate(ContinentGate(FloorGate(D0, a), a), a)
           open(a) == CrowdGate({d \in worth(a) : MayCallNow(d)}, a)
           hearing(a) == {d \in open(a) : "sends_with_us" \notin d.facts}
           strict(a) == StrictGate(SoleGate(hearing(a), a), a)
<1>1. \A a : Survivors(batch, T, a) = Profile(strict(a))
  BY DEF Survivors
<1>2. worth("rule") \subseteq D0 /\ worth("control") = D0
  <2> HIDE DEF D0
  <2>1. worth("control") = D0
    BY DEF FloorGate, ContinentGate, WeakGate, Gate
  <2> DEFINE D1 == FloorGate(D0, "rule")
             D2 == ContinentGate(D1, "rule")
  <2>2. D1 \subseteq D0
    BY GatesTakeAway
  <2> HIDE DEF D1
  <2>3. D2 \subseteq D1
    BY GatesTakeAway
  <2> HIDE DEF D2
  <2>4. WeakGate(D2, "rule") \subseteq D2
    BY GatesTakeAway
  <2> QED BY <2>1, <2>2, <2>3, <2>4 DEF D1, D2
<1> HIDE DEF D0, worth
<1>3. open("rule") \subseteq {d \in worth("rule") : MayCallNow(d)}
      /\ open("control") = {d \in worth("control") : MayCallNow(d)}
  BY GatesTakeAway DEF CrowdGate, Gate
<1> HIDE DEF open
<1>4. hearing("rule") \subseteq hearing("control")
  BY <1>2, <1>3
<1> HIDE DEF hearing
<1>5. strict("control") = hearing("control")
  BY DEF StrictGate, SoleGate, Gate
<1>6. strict("rule") \subseteq hearing("rule")
  <2> DEFINE D5 == SoleGate(hearing("rule"), "rule")
  <2>1. D5 \subseteq hearing("rule")
    BY GatesTakeAway
  <2> HIDE DEF D5
  <2>2. StrictGate(D5, "rule") \subseteq D5
    BY GatesTakeAway
  <2> QED BY <2>1, <2>2 DEF D5
<1> HIDE DEF strict
<1>7. ASSUME NEW D, D # {} PROVE Profile(D) # {}
  BY <1>7 DEF Profile
<1>8. Profile(strict("rule")) \subseteq strict("rule")
  BY GatesTakeAway
<1>9. strict("control") # {}
  BY <1>1, <1>4, <1>5, <1>6, <1>8
<1> QED BY <1>1, <1>7, <1>9

(* Who is called without a CQ is one of the tail ends, and rested.         *)
LEMMA CallingEnds ==
    ASSUME NEW batch \in SUBSET Told, NEW T, TableOK(T), NEW d \in CallingCq(batch, T)
    PROVE  /\ d.call \in Callers /\ d.kind \in {"cq", "tail"}
           /\ d.kind = "tail" => Awake(T, d.call)
<1>1. PICK e \in batch \cup TailEnds(batch, T) :
        /\ e.kind \in {"cq", "tail"}
        /\ d = [e EXCEPT !.facts = @ \cup {f \in {"tail_end"} : Awake(T, e.call)}]
  BY DEF CallingCq
<1>2. CASE e \in batch
  <2>1. e \in Told
    BY <1>2
  <2>2. d.call = e.call /\ d.kind = e.kind
    BY <1>1, <2>1 DEF Told
  <2> QED BY <1>1, <2>1, <2>2 DEF Told
<1>3. CASE e \in TailEnds(batch, T)
  <2>1. PICK c \in Callers :
          /\ Awake(T, c)
          /\ e = [T[c].closing EXCEPT !.kind = "tail", !.facts = @ \ OfCqOnly]
    BY <1>3 DEF TailEnds
  <2>2. T[c].closing \in Told /\ T[c].closing.call = c
    BY <2>1 DEF Awake, TableOK
  <2> DEFINE x == T[c].closing
  <2>3. x \in Told /\ x.call = c /\ e = [x EXCEPT !.kind = "tail", !.facts = @ \ OfCqOnly]
    BY <2>1, <2>2
  <2> HIDE DEF x
  <2>4. /\ e.call = c /\ e.kind = "tail" /\ DOMAIN e = {"call", "kind", "snr", "facts"}
        /\ e = [call |-> c, kind |-> "tail", snr |-> x.snr, facts |-> x.facts \ OfCqOnly]
    BY <2>3 DEF Told
  <2>5. d.call = e.call /\ d.kind = e.kind
    BY <1>1, <2>4
  <2> QED BY <2>1, <2>4, <2>5
<1> QED BY <1>1, <1>2, <1>3

LEMMA NoteKeepsTable ==
    ASSUME PickerInv, NEW batch \in SUBSET Told, Note(batch)
    PROVE  TableOK(tail_end_candidates')
<1> DEFINE entry(c) == IF \E d \in Closed(batch) : d.call = c
                       THEN [left |-> TAIL_END_EXPIRY,
                             closing |-> CHOOSE d \in Closed(batch) : d.call = c]
                       ELSE tail_end_candidates[c]
<1>1. tail_end_candidates' = [c \in Callers |-> entry(c)]
  BY DEF Note
<1>2. ASSUME NEW c \in Callers
      PROVE  /\ entry(c) \in [left : Nat, closing : Told \cup {NoTarget}]
             /\ entry(c).left > 0 => entry(c).closing \in Told /\ entry(c).closing.call = c
  <2>1. CASE \E d \in Closed(batch) : d.call = c
    <3> DEFINE d == CHOOSE d \in Closed(batch) : d.call = c
    <3>1. d \in Closed(batch) /\ d.call = c
      BY <2>1
    <3>2. d \in Told
      BY <3>1 DEF Closed
    <3>3. entry(c) = [left |-> TAIL_END_EXPIRY, closing |-> d]
      BY <2>1
    <3> HIDE DEF d, entry
    <3> QED BY <3>1, <3>2, <3>3, PickerAssumption
  <2>2. CASE ~ \E d \in Closed(batch) : d.call = c
    BY <2>2 DEF PickerInv
  <2> QED BY <2>1, <2>2
<1> HIDE DEF entry
<1> QED BY <1>1, <1>2 DEF TableOK

LEMMA BatchTold ==
    ASSUME NEW batch \in Batches
    PROVE  batch \in SUBSET Told
BY PickerAssumption DEF Batches, Told

(* In the arms of the rules a tail end that is called is remembered.       *)
LEMMA PickRemembers ==
    ASSUME PickerInv, NEW batch \in Batches, Decodes(batch), \A b \in Blocks : b.arm # "ew"
    PROVE  /\ last_pick' \in [Callers -> 0..TAIL_END_COOLDOWN]
           /\ since_tail' \in [Callers -> 0..TAIL_END_COOLDOWN]
           /\ \A c \in Callers : last_pick'[c] <= since_tail'[c]
           /\ target = NoTarget /\ target' # NoTarget /\ target'.kind = "tail"
                => since_tail[target'.call] >= TAIL_END_COOLDOWN
<1> DEFINE T == tail_end_candidates'
<1>1. batch \in SUBSET Told
  BY BatchTold
<1>2. TableOK(T)
  BY <1>1, NoteKeepsTable DEF Decodes
<1> HIDE DEF T
<1>3. 0 \in 0..TAIL_END_COOLDOWN /\ TAIL_END_COOLDOWN \in Nat
  BY PickerAssumption
<1>4. CASE target = NoTarget /\ Winners(batch, T, block.arm) # {}
  <2>1. PICK d \in Winners(batch, T, block.arm), green \in BOOLEAN :
          /\ last_pick' = IF block.arm # "ew" /\ T[d.call].left > 0
                          THEN [last_pick EXCEPT ![d.call] = 0] ELSE last_pick
          /\ IF green THEN Picked(d.call, d.kind) ELSE UNCHANGED <<target, since_tail>>
    BY <1>4 DEF Decodes, HuntRespondToBest, T
  <2>2. d.call \in Callers /\ d.kind \in {"cq", "tail"} /\ (d.kind = "tail" => Awake(T, d.call))
    <3>1. d \in CallingCq(batch, T)
      BY WinnersCalled
    <3> QED BY <1>1, <1>2, <3>1, CallingEnds
  <2>3. block.arm # "ew"
    BY DEF PickerInv
  <2>4. /\ last_pick' \in {last_pick, [last_pick EXCEPT ![d.call] = 0]}
        /\ d.kind = "tail" => last_pick' = [last_pick EXCEPT ![d.call] = 0]
    BY <2>1, <2>2, <2>3 DEF Awake
  <2>5. since_tail' \in {since_tail, [since_tail EXCEPT ![d.call] = 0]}
    BY <2>1 DEF Picked
  <2>6. since_tail' # since_tail => d.kind = "tail"
    BY <2>1, <2>2 DEF Picked
  <2>7. /\ last_pick' \in [Callers -> 0..TAIL_END_COOLDOWN]
        /\ since_tail' \in [Callers -> 0..TAIL_END_COOLDOWN]
    BY <1>3, <2>4, <2>5 DEF PickerInv
  <2>8. ASSUME NEW c \in Callers PROVE last_pick'[c] <= since_tail'[c]
    <3>1. /\ last_pick[c] \in 0..TAIL_END_COOLDOWN /\ since_tail[c] \in 0..TAIL_END_COOLDOWN
          /\ last_pick[c] <= since_tail[c]
      BY DEF PickerInv
    <3>2. CASE since_tail' = since_tail
      BY <2>4, <3>1, <3>2 DEF PickerInv
    <3>3. CASE since_tail' # since_tail
      BY <2>4, <2>5, <2>6, <3>1, <3>3 DEF PickerInv
    <3> QED BY <3>2, <3>3
  <2>9. target' # NoTarget /\ target'.kind = "tail" => since_tail[target'.call] >= TAIL_END_COOLDOWN
    <3> SUFFICES ASSUME target' # NoTarget, target'.kind = "tail"
                 PROVE  since_tail[target'.call] >= TAIL_END_COOLDOWN
      OBVIOUS
    <3>1. target' = [call |-> d.call, kind |-> d.kind]
      BY <1>4, <2>1 DEF Picked
    <3>2. last_pick[d.call] >= TAIL_END_COOLDOWN
      BY <2>2, <3>1 DEF Awake
    <3> QED BY <1>3, <2>2, <3>1, <3>2 DEF PickerInv
  <2> QED BY <2>7, <2>8, <2>9
<1>5. CASE ~(target = NoTarget /\ Winners(batch, T, block.arm) # {})
  <2>1. UNCHANGED <<target, last_pick, since_tail>>
    BY <1>5 DEF Decodes, T
  <2> QED BY <2>1 DEF PickerInv
<1> QED BY <1>4, <1>5

LEMMA GrownMonotone ==
    ASSUME NEW limit \in Nat, NEW a \in 0..limit, NEW b \in 0..limit, a <= b
    PROVE  Grown(a, limit) \in 0..limit /\ Grown(b, limit) \in 0..limit
           /\ Grown(a, limit) <= Grown(b, limit)
BY DEF Grown

LEMMA PickerStep ==
    ASSUME \A b \in Blocks : b.arm # "ew", PickerInv, [PickerNext]_pickerVars
    PROVE  PickerInv'
<1>1. ASSUME NEW batch \in Batches, Decodes(batch) PROVE PickerInv'
  <2>1. TableOK(tail_end_candidates')
    BY <1>1, BatchTold, NoteKeepsTable DEF Decodes
  <2>2. /\ last_pick' \in [Callers -> 0..TAIL_END_COOLDOWN]
        /\ since_tail' \in [Callers -> 0..TAIL_END_COOLDOWN]
        /\ \A c \in Callers : last_pick'[c] <= since_tail'[c]
    BY <1>1, PickRemembers
  <2> QED BY <1>1, <2>1, <2>2 DEF Decodes, PickerInv, TableOK
<1>2. ASSUME NEW c \in Callers, UserTailEnd(c) PROVE PickerInv'
  <2>1. /\ since_tail' = [since_tail EXCEPT ![c] = 0]
        /\ last_pick' = [last_pick EXCEPT ![c] = 0]
        /\ UNCHANGED <<block, tail_end_candidates>>
    BY <1>2 DEF UserTailEnd, Picked
  <2>2. 0 \in 0..TAIL_END_COOLDOWN
    BY PickerAssumption
  <2> QED BY <2>1, <2>2 DEF PickerInv
<1>3. CASE SlotTick
  <2>1. block' = block /\ TAIL_END_COOLDOWN \in Nat
    BY <1>3, PickerAssumption DEF SlotTick
  <2>2. TableOK(tail_end_candidates')
    <3> DEFINE entry(c) == IF Prune(tail_end_candidates[c].left) = 0 THEN NoClosing
                           ELSE [tail_end_candidates[c] EXCEPT !.left = Prune(@)]
    <3>1. tail_end_candidates' = [c \in Callers |-> entry(c)]
      BY <1>3 DEF SlotTick
    <3>2. ASSUME NEW c \in Callers
          PROVE  /\ entry(c) \in [left : Nat, closing : Told \cup {NoTarget}]
                 /\ entry(c).left > 0 => entry(c).closing \in Told /\ entry(c).closing.call = c
      <4>1. tail_end_candidates[c] \in [left : Nat, closing : Told \cup {NoTarget}]
        BY DEF PickerInv
      <4>2. tail_end_candidates[c].left > 0 => /\ tail_end_candidates[c].closing \in Told
                                               /\ tail_end_candidates[c].closing.call = c
        BY DEF PickerInv
      <4> QED BY <4>1, <4>2 DEF Prune, NoClosing
    <3> HIDE DEF entry
    <3> QED BY <3>1, <3>2 DEF TableOK
  <2>3. ASSUME NEW c \in Callers
        PROVE  /\ last_pick'[c] = Grown(last_pick[c], TAIL_END_COOLDOWN)
               /\ since_tail'[c] = Grown(since_tail[c], TAIL_END_COOLDOWN)
               /\ last_pick'[c] \in 0..TAIL_END_COOLDOWN /\ since_tail'[c] \in 0..TAIL_END_COOLDOWN
               /\ last_pick'[c] <= since_tail'[c]
    <3>1. /\ last_pick'[c] = Grown(last_pick[c], TAIL_END_COOLDOWN)
          /\ since_tail'[c] = Grown(since_tail[c], TAIL_END_COOLDOWN)
      BY <1>3 DEF SlotTick
    <3>2. /\ last_pick[c] \in 0..TAIL_END_COOLDOWN /\ since_tail[c] \in 0..TAIL_END_COOLDOWN
          /\ last_pick[c] <= since_tail[c]
      BY DEF PickerInv
    <3> QED BY <2>1, <3>1, <3>2, GrownMonotone
  <2>4. /\ last_pick' \in [Callers -> 0..TAIL_END_COOLDOWN]
        /\ since_tail' \in [Callers -> 0..TAIL_END_COOLDOWN]
    <3>1. /\ last_pick' = [c \in Callers |-> Grown(last_pick[c], TAIL_END_COOLDOWN)]
          /\ since_tail' = [c \in Callers |-> Grown(since_tail[c], TAIL_END_COOLDOWN)]
      BY <1>3 DEF SlotTick
    <3>2. \A c \in Callers : /\ Grown(last_pick[c], TAIL_END_COOLDOWN) \in 0..TAIL_END_COOLDOWN
                             /\ Grown(since_tail[c], TAIL_END_COOLDOWN) \in 0..TAIL_END_COOLDOWN
      BY <2>3
    <3> QED BY <3>1, <3>2
  <2> QED BY <2>1, <2>2, <2>3, <2>4 DEF PickerInv, TableOK
<1>4. CASE TargetEnds \/ CooldownEnds \/ NewBlock \/ UNCHANGED pickerVars
  BY <1>4 DEF TargetEnds, CooldownEnds, NewBlock, pickerVars, PickerInv
<1> QED BY <1>1, <1>2, <1>3, <1>4 DEF PickerNext

(* The gates of the control arm leave somebody to call whenever those of   *)
(* the rules do, whatever is heard and whoever rests.                      *)
THEOREM ControlArmAlwaysCalls == PickerSpec => []ControlArmCalls
<1>1. ControlArmCalls
  BY ControlLeavesMore DEF ControlArmCalls
<1> QED BY <1>1, PTL

(* Unless the expected value picks, a station that does not call CQ is     *)
(* called once a day at most.  In that arm it is not so: see the README.   *)
THEOREM TailEndAtMostOncePerDay ==
    ASSUME \A b \in Blocks : b.arm # "ew"
    PROVE  PickerSpec => TailEndOncePerDay
<1> DEFINE Rested == target = NoTarget /\ target' # NoTarget /\ target'.kind = "tail"
                         => since_tail[target'.call] >= TAIL_END_COOLDOWN
<1>1. PickerInit => PickerInv
  <2>1. 0 \in Nat /\ TAIL_END_COOLDOWN \in Nat
    BY PickerAssumption
  <2> QED BY <2>1 DEF PickerInit, PickerInv, ForNobody, NoClosing
<1>2. PickerInv /\ [PickerNext]_pickerVars => PickerInv'
  BY PickerStep
<1>3. PickerInv /\ [PickerNext]_pickerVars => Rested
  <2> SUFFICES ASSUME PickerInv, [PickerNext]_pickerVars PROVE Rested
    OBVIOUS
  <2>1. ASSUME NEW batch \in Batches, Decodes(batch) PROVE Rested
    BY <2>1, PickRemembers
  <2>2. ASSUME NEW c \in Callers, UserTailEnd(c) PROVE Rested
    BY <2>2 DEF UserTailEnd, Picked
  <2>3. CASE SlotTick \/ TargetEnds \/ CooldownEnds \/ NewBlock \/ UNCHANGED pickerVars
    BY <2>3 DEF SlotTick, TargetEnds, CooldownEnds, NewBlock, pickerVars
  <2> QED BY <2>1, <2>2, <2>3 DEF PickerNext
<1> QED BY <1>1, <1>2, <1>3, PTL DEF PickerSpec, TailEndOncePerDay

-----------------------------------------------------------------------------
(* The memory across a restart.                                            *)

(* Where nothing can be proved by induction, a least counterexample serves. *)
LEMMA LeastOne ==
    ASSUME NEW S, S \subseteq Nat, S # {}
    PROVE  \E m \in S : \A x \in S : m <= x
<1> DEFINE Less == {ss \in Nat \X Nat : ss[1] < ss[2]}
<1>1. IsWellFoundedOn(Less, Nat)
  BY NatLessThanWellFounded DEF OpToRel
<1>2. PICK m \in S : \A x \in S : ~(<<x, m>> \in Less)
  <2> HIDE DEF Less
  <2> QED BY <1>1, WFMin
<1>3. ASSUME NEW x \in S PROVE m <= x
  <2>1. x \in Nat /\ m \in Nat
    OBVIOUS
  <2>2. ~(x < m)
    <3>1. ~(<<x, m>> \in Less)
      BY <1>2
    <3> QED BY <2>1, <3>1
  <2> QED BY <2>1, <2>2
<1> QED BY <1>3

LEMMA HasGreatest ==
    ASSUME NEW S, S \subseteq Nat, S # {}, NEW b \in Nat, \A x \in S : x <= b
    PROVE  \E m \in S : \A x \in S : x <= m
<1> DEFINE T == {b - x : x \in S}
<1>1. T \subseteq Nat /\ T # {}
  <2>1. \A x \in S : b - x \in Nat
    OBVIOUS
  <2>2. PICK x \in S : b - x \in T
    OBVIOUS
  <2> QED BY <2>1, <2>2
<1> HIDE DEF T
<1>2. PICK y \in T : \A z \in T : y <= z
  BY <1>1, LeastOne
<1>3. PICK m \in S : y = b - m
  BY <1>2 DEF T
<1>4. ASSUME NEW x \in S PROVE x <= m
  <2>1. b - x \in T
    BY DEF T
  <2> QED BY <1>2, <1>3, <2>1
<1> QED BY <1>4

-----------------------------------------------------------------------------
(* What is remembered.                                                     *)

Past == {t \in Nat : t <= tick}

AttemptRows ==
    [table : {"attempt"}, call : Names, ts : Nat, kind : {"cq", "inbound_resume"},
     outcome : {"bailed", "completed"}, reports : BOOLEAN]
QsoRows == [table : {"qso"}, call : Names, ts : Nat]

MemoryTypeOK ==
    /\ tick \in Nat /\ alive \in BOOLEAN
    /\ partner \in [call : Names, since : Nat, reports : BOOLEAN] \cup {Idle}
    /\ attempt_meta \in [Names -> [ts : Nat, kind : {"cq"}] \cup {Idle}]
    /\ worked_until \in [Names -> Nat]
    /\ recent_qso \in [Names -> [until : Nat, since : Nat]]
    /\ pending \subseteq AttemptRows \cup QsoRows
    /\ attempts \subseteq AttemptRows
    /\ qsos \subseteq QsoRows /\ spilled \subseteq QsoRows

(* Nothing is remembered of times to come.                                 *)
NothingAhead ==
    /\ partner # Idle => partner.since <= tick
    /\ \A n \in Names : /\ recent_qso[n].since <= tick
                        /\ attempt_meta[n] # Idle => attempt_meta[n].ts <= tick
    /\ \A r \in pending \cup attempts \cup qsos \cup spilled : r.ts <= tick

(* Of every row, written or not, the process remembers the cooldown while  *)
(* it is running, unless the start could not see it.                       *)
Spared(r) == worked_until[r.call] >= r.ts + qso_cooldown \/ tick >= r.ts + qso_cooldown
RowsSpared ==
    /\ alive => \A r \in (pending \cup qsos \cup spilled) \ missed : r.table = "qso" => Spared(r)
    /\ ~alive => pending = {}

MemoryInv == MemoryTypeOK /\ NothingAhead /\ RowsSpared

LEMMA LatestIsOne ==
    ASSUME NEW rows, rows # {}, tick \in Nat, \A r \in rows : r.ts \in Nat /\ r.ts <= tick
    PROVE  Latest(rows) \in rows /\ \A r \in rows : r.ts <= Latest(rows).ts
<1> DEFINE S == {r.ts : r \in rows}
<1>1. S \subseteq Nat /\ S # {} /\ \A t \in S : t <= tick
  OBVIOUS
<1> HIDE DEF S
<1>2. PICK m \in S : \A t \in S : t <= m
  BY <1>1, HasGreatest
<1>3. \E r \in rows : \A s \in rows : s.ts <= r.ts
  BY <1>2 DEF S
<1> QED BY <1>3 DEF Latest

LEMMA InitMemory == MemoryInit => MemoryInv
BY DEF MemoryInit, MemoryInv, MemoryTypeOK, NothingAhead, RowsSpared, Never, NoMeta, NoneOpen

LEMMA CallMemory ==
    ASSUME MemoryInv, NEW n \in Names, Call(n)
    PROVE  MemoryInv'
<1>1. partner' = [call |-> n, since |-> tick, reports |-> FALSE] /\ BaseCall[n] \in Names
  BY MemoryAssumption DEF Call
<1>2. MemoryTypeOK'
  BY <1>1 DEF Call, logVars, MemoryInv, MemoryTypeOK
<1>3. NothingAhead'
  BY <1>1 DEF Call, logVars, MemoryInv, MemoryTypeOK, NothingAhead
<1>4. RowsSpared'
  BY DEF Call, logVars, MemoryInv, RowsSpared, Spared
<1> QED BY <1>2, <1>3, <1>4 DEF MemoryInv

LEMMA AnsweredMemory ==
    ASSUME MemoryInv, Answered
    PROVE  MemoryInv'
<1>1. MemoryTypeOK'
  BY DEF Answered, logVars, MemoryInv, MemoryTypeOK
<1>2. NothingAhead'
  BY DEF Answered, logVars, MemoryInv, MemoryTypeOK, NothingAhead
<1>3. RowsSpared'
  BY DEF Answered, logVars, MemoryInv, RowsSpared, Spared
<1> QED BY <1>1, <1>2, <1>3 DEF MemoryInv

(* The row that a call becomes.                                            *)
LEMMA RowOfCall ==
    ASSUME MemoryInv, NEW n \in Names, NEW outcome \in {"bailed", "completed"}
    PROVE  \A r \in AttemptRow(n, outcome) : r \in AttemptRows /\ r.ts <= tick
<1>1. BaseCall[n] \in Names
  BY MemoryAssumption
<1>2. CASE attempt_meta[BaseCall[n]] = Idle
  BY <1>2 DEF AttemptRow
<1>3. CASE attempt_meta[BaseCall[n]] # Idle
  <2>1. attempt_meta[BaseCall[n]] \in [ts : Nat, kind : {"cq"}]
    BY <1>1, <1>3 DEF MemoryInv, MemoryTypeOK
  <2>2. attempt_meta[BaseCall[n]].ts <= tick
    BY <1>1, <1>3 DEF MemoryInv, NothingAhead
  <2> DEFINE reported == partner # Idle /\ partner.reports
             meta == attempt_meta[BaseCall[n]]
  <2>3. reported \in BOOLEAN
    OBVIOUS
  <2>4. AttemptRow(n, outcome) =
          {[table |-> "attempt", call |-> BaseCall[n], ts |-> meta.ts, kind |-> meta.kind,
            outcome |-> outcome, reports |-> reported]}
    BY <1>3 DEF AttemptRow
  <2> HIDE DEF reported, meta
  <2>5. [table |-> "attempt", call |-> BaseCall[n], ts |-> meta.ts, kind |-> meta.kind,
         outcome |-> outcome, reports |-> reported] \in AttemptRows
    BY <1>1, <2>1, <2>3 DEF AttemptRows, meta
  <2> QED BY <2>2, <2>4, <2>5 DEF meta
<1> QED BY <1>2, <1>3

LEMMA BailMemory ==
    ASSUME MemoryInv, NEW reason \in Reasons, Bail(reason)
    PROVE  MemoryInv'
<1> DEFINE n == partner.call
           rows == AttemptRow(n, "bailed")
<1>1. /\ partner \in [call : Names, since : Nat, reports : BOOLEAN]
      /\ n \in Names /\ BaseCall[n] \in Names
  BY MemoryAssumption DEF Bail, MemoryInv, MemoryTypeOK
<1>2. \A r \in rows : r \in AttemptRows /\ r.ts <= tick
  BY <1>1, RowOfCall
<1>3. /\ pending' = pending \cup rows
      /\ attempt_meta' = [attempt_meta EXCEPT ![BaseCall[n]] = Idle]
      /\ partner' = Idle /\ UNCHANGED <<tick, alive, worked_until, attempts, qsos, spilled, missed>>
      /\ alive
  BY DEF Bail, logVars
<1>4. /\ recent_qso' \in [Names -> [until : Nat, since : Nat]]
      /\ \A m \in Names : recent_qso'[m].since <= tick
  <2>1. tick + RECENT_QSO_TTL \in Nat
    BY MemoryAssumption DEF MemoryInv, MemoryTypeOK
  <2>2. recent_qso' = recent_qso
        \/ recent_qso' = [recent_qso EXCEPT ![n] =
                            [until |-> tick + RECENT_QSO_TTL, since |-> partner.since]]
    BY DEF Bail
  <2>3. partner.since <= tick /\ partner.since \in Nat
    BY <1>1 DEF Bail, MemoryInv, NothingAhead
  <2>4. recent_qso \in [Names -> [until : Nat, since : Nat]]
    BY DEF MemoryInv, MemoryTypeOK
  <2>5. \A m \in Names : recent_qso[m].since <= tick
    BY DEF MemoryInv, NothingAhead
  <2>6. CASE recent_qso' = recent_qso
    BY <2>4, <2>5, <2>6
  <2>7. CASE recent_qso' = [recent_qso EXCEPT ![n] =
                              [until |-> tick + RECENT_QSO_TTL, since |-> partner.since]]
    <3> HIDE DEF n
    <3> QED BY <1>1, <2>1, <2>3, <2>4, <2>5, <2>7
  <2> QED BY <2>2, <2>6, <2>7
<1> HIDE DEF rows, n
<1>5. MemoryTypeOK'
  BY <1>1, <1>2, <1>3, <1>4 DEF MemoryInv, MemoryTypeOK
<1>6. NothingAhead'
  BY <1>1, <1>2, <1>3, <1>4 DEF MemoryInv, MemoryTypeOK, NothingAhead
<1>7. RowsSpared'
  <2>1. \A r \in rows : r.table # "qso"
    BY <1>2 DEF AttemptRows
  <2> QED BY <1>3, <2>1 DEF MemoryInv, RowsSpared, Spared
<1> QED BY <1>5, <1>6, <1>7 DEF MemoryInv

LEMMA LogsMemory ==
    ASSUME MemoryInv, alive, NEW n \in Names, NEW since \in Nat, since <= tick,
           NEW rows, \A r \in rows : r \in AttemptRows /\ r.ts <= tick,
           Logs(n, since, rows), UNCHANGED <<tick, alive, attempts, qsos, spilled, missed>>,
           recent_qso' \in [Names -> [until : Nat, since : Nat]],
           \A m \in Names : recent_qso'[m].since <= tick
    PROVE  MemoryInv'
<1> DEFINE row == [table |-> "qso", call |-> n, ts |-> since]
<1>1. /\ worked_until' = [worked_until EXCEPT ![n] = tick + qso_cooldown]
      /\ pending' = pending \cup rows \cup {row}
      /\ attempt_meta' = [attempt_meta EXCEPT ![BaseCall[n]] = Idle]
      /\ partner' = Idle
  BY DEF Logs
<1>2. row \in QsoRows /\ row.ts <= tick /\ row.call = n /\ row.ts = since
  BY DEF QsoRows
<1>3. tick \in Nat /\ tick + qso_cooldown \in Nat /\ BaseCall[n] \in Names /\ qso_cooldown \in Nat
  BY MemoryAssumption DEF MemoryInv, MemoryTypeOK
<1> HIDE DEF row
<1>4. MemoryTypeOK'
  BY <1>1, <1>2, <1>3 DEF MemoryInv, MemoryTypeOK
<1>5. NothingAhead'
  <2>1. \A r \in pending' \cup attempts' \cup qsos' \cup spilled' : r.ts <= tick'
    BY <1>1, <1>2 DEF MemoryInv, NothingAhead
  <2>2. \A m \in Names : attempt_meta'[m] # Idle => attempt_meta'[m].ts <= tick'
    BY <1>1, <1>3 DEF MemoryInv, MemoryTypeOK, NothingAhead
  <2> QED BY <1>1, <2>1, <2>2 DEF NothingAhead
<1>6. RowsSpared'
  <2> SUFFICES ASSUME NEW r \in (pending' \cup qsos' \cup spilled') \ missed',
                      r.table = "qso"
               PROVE  Spared(r)'
    BY DEF RowsSpared
  <2>1. r \in QsoRows /\ r.ts <= tick
    <3>1. \A x \in AttemptRows : x.table # "qso"
      BY DEF AttemptRows
    <3> QED BY <1>1, <1>2, <3>1 DEF MemoryInv, MemoryTypeOK, NothingAhead
  <2>2. CASE r.call = n
    <3>1. worked_until'[n] = tick + qso_cooldown
      BY <1>1 DEF MemoryInv, MemoryTypeOK
    <3>2. r.ts \in Nat
      BY <2>1 DEF QsoRows
    <3> QED BY <1>3, <2>1, <2>2, <3>1, <3>2 DEF Spared
  <2>3. CASE r.call # n
    <3>1. r \in (pending \cup qsos \cup spilled) \ missed
      <4>1. r \notin rows
        BY <2>1 DEF AttemptRows, QsoRows
      <4> QED BY <1>1, <1>2, <2>3, <4>1
    <3>2. Spared(r)
      BY <3>1 DEF MemoryInv, RowsSpared
    <3>3. worked_until'[r.call] = worked_until[r.call]
      BY <1>1, <2>1, <2>3 DEF MemoryInv, MemoryTypeOK, QsoRows
    <3> QED BY <3>2, <3>3 DEF Spared
  <2> QED BY <2>2, <2>3
<1> QED BY <1>4, <1>5, <1>6 DEF MemoryInv

LEMMA CompleteMemory ==
    ASSUME MemoryInv, Complete
    PROVE  MemoryInv'
<1>1. /\ alive /\ partner \in [call : Names, since : Nat, reports : BOOLEAN]
      /\ partner.call \in Names /\ partner.since \in Nat /\ partner.since <= tick
  BY DEF Complete, MemoryInv, MemoryTypeOK, NothingAhead
<1>2. \A r \in AttemptRow(partner.call, "completed") : r \in AttemptRows /\ r.ts <= tick
  BY <1>1, RowOfCall
<1>3. /\ recent_qso' \in [Names -> [until : Nat, since : Nat]]
      /\ \A m \in Names : recent_qso'[m].since <= tick
  BY DEF Complete, MemoryInv, MemoryTypeOK, NothingAhead
<1> QED BY <1>1, <1>2, <1>3, LogsMemory DEF Complete, logVars

LEMMA CloseLateMemory ==
    ASSUME MemoryInv, NEW n \in Names, CloseLate(n)
    PROVE  MemoryInv'
<1> DEFINE row == [table |-> "attempt", call |-> BaseCall[n], ts |-> tick,
                   kind |-> "inbound_resume", outcome |-> "completed", reports |-> TRUE]
<1>1. tick \in Nat /\ BaseCall[n] \in Names
  BY MemoryAssumption DEF MemoryInv, MemoryTypeOK
<1>2. \A r \in {row} : r \in AttemptRows /\ r.ts <= tick
  <2>1. row \in AttemptRows
    BY <1>1 DEF AttemptRows
  <2>2. row.ts <= tick
    BY <1>1
  <2> QED BY <2>1, <2>2
<1>3. recent_qso[n].since \in Nat /\ recent_qso[n].since <= tick
  BY DEF MemoryInv, MemoryTypeOK, NothingAhead
<1>4. /\ recent_qso' \in [Names -> [until : Nat, since : Nat]]
      /\ \A m \in Names : recent_qso'[m].since <= tick
  BY DEF CloseLate, MemoryInv, MemoryTypeOK, NothingAhead, NoneOpen
<1>5. /\ alive /\ Logs(n, recent_qso[n].since, {row})
      /\ UNCHANGED <<tick, alive, attempts, qsos, spilled, missed>>
  BY DEF CloseLate, logVars
<1> HIDE DEF row
<1> QED BY <1>2, <1>3, <1>4, <1>5, LogsMemory

LEMMA WriteAttemptMemory ==
    ASSUME MemoryInv, NEW row \in pending, WriteAttempt(row)
    PROVE  MemoryInv'
<1>1. row \in AttemptRows /\ row.ts <= tick
  BY DEF WriteAttempt, MemoryInv, MemoryTypeOK, NothingAhead, QsoRows
<1>2. \A a \in Corrected(row) : a \in AttemptRows /\ a.ts <= tick
  <2> DEFINE near == {a \in attempts : a.call = row.call /\ a.ts >= tick - NACHSTEMPEL_FENSTER}
  <2>1. \A a \in attempts : a \in AttemptRows /\ a.ts \in Nat /\ a.ts <= tick
    BY DEF MemoryInv, MemoryTypeOK, NothingAhead, AttemptRows
  <2>2. CASE near # {}
    <3>1. Latest(near) \in near
      <4>1. tick \in Nat /\ \A r \in near : r.ts \in Nat /\ r.ts <= tick
        BY <2>1 DEF MemoryInv, MemoryTypeOK
      <4> HIDE DEF near
      <4> QED BY <2>2, <4>1, LatestIsOne
    <3>2. Latest(near) \in AttemptRows /\ Latest(near).ts <= tick
      BY <2>1, <3>1
    <3>3. /\ [Latest(near) EXCEPT !.outcome = "completed"] \in AttemptRows
          /\ [Latest(near) EXCEPT !.outcome = "completed"].ts <= tick
      <4> HIDE DEF near
      <4> QED BY <3>2 DEF AttemptRows
    <3> QED BY <2>1, <3>3 DEF Corrected
  <2>3. CASE near = {}
    BY <2>1, <2>3 DEF Corrected
  <2> QED BY <2>2, <2>3
<1>3. \A a \in attempts' : a \in AttemptRows /\ a.ts <= tick
  BY <1>1, <1>2 DEF WriteAttempt, MemoryInv, MemoryTypeOK, NothingAhead
<1>4. MemoryTypeOK'
  BY <1>3 DEF WriteAttempt, MemoryInv, MemoryTypeOK
<1>5. NothingAhead'
  BY <1>3 DEF WriteAttempt, MemoryInv, NothingAhead
<1>6. RowsSpared'
  BY DEF WriteAttempt, MemoryInv, RowsSpared, Spared
<1> QED BY <1>4, <1>5, <1>6 DEF MemoryInv

LEMMA WriteQsoMemory ==
    ASSUME MemoryInv, NEW row \in pending, WriteQso(row)
    PROVE  MemoryInv'
<1>1. row \in QsoRows /\ row.ts <= tick
  BY DEF WriteQso, MemoryInv, MemoryTypeOK, NothingAhead, AttemptRows
<1>2. MemoryTypeOK'
  BY <1>1 DEF WriteQso, MemoryInv, MemoryTypeOK
<1>3. NothingAhead'
  BY <1>1 DEF WriteQso, MemoryInv, NothingAhead
<1>4. RowsSpared'
  BY DEF WriteQso, MemoryInv, RowsSpared, Spared
<1> QED BY <1>2, <1>3, <1>4 DEF MemoryInv

LEMMA EndMemory ==
    ASSUME MemoryInv, End
    PROVE  MemoryInv'
<1>1. MemoryTypeOK'
  BY DEF End, logVars, MemoryInv, MemoryTypeOK, Never, NoMeta, NoneOpen
<1>2. NothingAhead'
  BY DEF End, logVars, MemoryInv, MemoryTypeOK, NothingAhead, NoMeta, NoneOpen
<1>3. RowsSpared'
  BY DEF End, RowsSpared
<1> QED BY <1>1, <1>2, <1>3 DEF MemoryInv

LEMMA StartMemory ==
    ASSUME MemoryInv, Start
    PROVE  MemoryInv'
<1>0. tick \in Nat /\ qso_cooldown \in Nat /\ RECENT_QSO_TTL \in Nat
  BY MemoryAssumption DEF MemoryInv, MemoryTypeOK
<1>1. /\ qsos' \subseteq qsos \cup spilled /\ spilled' \subseteq spilled
      /\ UNCHANGED <<tick, partner, attempt_meta, pending, attempts>> /\ pending = {}
      /\ alive' = TRUE
      /\ recent_qso' = NoneOpen \/ recent_qso' = RestoredOpen
      /\ \/ worked_until' = Never /\ qsos' \cup spilled' \subseteq missed'
         \/ worked_until' = RestoredWorked(qsos') /\ spilled' \subseteq missed'
  BY DEF Start, MemoryInv, RowsSpared
<1>2. \A q \in qsos' \cup spilled' : q \in QsoRows /\ q.call \in Names /\ q.ts \in Nat /\ q.ts <= tick
  BY <1>1 DEF MemoryInv, MemoryTypeOK, NothingAhead, QsoRows
<1>3. ASSUME NEW n \in Names
      PROVE  /\ RestoredWorked(qsos')[n] \in Nat
             /\ \A q \in qsos' : q.call = n =>
                    \/ RestoredWorked(qsos')[n] >= q.ts + qso_cooldown
                    \/ tick >= q.ts + qso_cooldown
  <2> DEFINE own == {q \in qsos' : q.call = n}
             restored == RestoredWorked(qsos')
  <2>1. restored[n] = IF own = {} THEN 0 ELSE StillAhead(Latest(own).ts + qso_cooldown)
    BY DEF RestoredWorked
  <2>2. \A q \in own : q.ts \in Nat /\ q.ts <= tick
    BY <1>2
  <2>3. \A q \in qsos' : q.call = n => q \in own
    OBVIOUS
  <2> HIDE DEF own, restored
  <2>4. CASE own = {}
    BY <2>1, <2>3, <2>4 DEF restored
  <2>5. CASE own # {}
    <3>1. Latest(own) \in own /\ \A q \in own : q.ts <= Latest(own).ts
      BY <1>0, <2>2, <2>5, LatestIsOne
    <3>2. Latest(own).ts \in Nat
      BY <2>2, <3>1
    <3>3. restored[n] = StillAhead(Latest(own).ts + qso_cooldown)
      BY <2>1, <2>5
    <3>4. restored[n] \in Nat
      BY <1>0, <3>2, <3>3 DEF StillAhead
    <3>5. ASSUME NEW q \in qsos', q.call = n
          PROVE  restored[n] >= q.ts + qso_cooldown \/ tick >= q.ts + qso_cooldown
      <4>1. q.ts \in Nat /\ q.ts <= Latest(own).ts
        BY <2>2, <2>3, <3>1, <3>5
      <4> QED BY <1>0, <3>2, <3>3, <4>1 DEF StillAhead
    <3> QED BY <3>4, <3>5 DEF restored
  <2> QED BY <2>4, <2>5
<1>4. ASSUME NEW n \in Names
      PROVE  RestoredOpen[n] \in [until : Nat, since : Nat] /\ RestoredOpen[n].since <= tick
  <2>1. \A a \in Open(n) : a.ts \in Nat /\ a.ts <= tick
    BY DEF Open, MemoryInv, MemoryTypeOK, NothingAhead, AttemptRows
  <2>2. CASE Open(n) = {}
    BY <1>0, <2>2 DEF RestoredOpen, NoneOpen
  <2>3. CASE Open(n) # {}
    <3>1. Latest(Open(n)) \in Open(n)
      BY <1>0, <2>1, <2>3, LatestIsOne
    <3>2. Latest(Open(n)).ts \in Nat /\ Latest(Open(n)).ts <= tick
      BY <2>1, <3>1
    <3> QED BY <1>0, <2>3, <3>2 DEF RestoredOpen
  <2> QED BY <2>2, <2>3
<1>5. worked_until' \in [Names -> Nat]
  <2>1. RestoredWorked(qsos') \in [Names -> Nat]
    BY <1>3 DEF RestoredWorked
  <2> QED BY <1>1, <2>1 DEF Never
<1>6. /\ recent_qso' \in [Names -> [until : Nat, since : Nat]]
      /\ \A n \in Names : recent_qso'[n].since <= tick
  <2>1. RestoredOpen \in [Names -> [until : Nat, since : Nat]]
    BY <1>4 DEF RestoredOpen
  <2>2. /\ NoneOpen \in [Names -> [until : Nat, since : Nat]]
        /\ \A n \in Names : NoneOpen[n].since <= tick
    BY <1>0 DEF NoneOpen
  <2> QED BY <1>1, <1>4, <2>1, <2>2
<1>7. MemoryTypeOK'
  BY <1>1, <1>2, <1>5, <1>6 DEF MemoryInv, MemoryTypeOK
<1>8. NothingAhead'
  BY <1>1, <1>2, <1>6 DEF MemoryInv, NothingAhead
<1>9. RowsSpared'
  <2> SUFFICES ASSUME NEW q \in (pending' \cup qsos' \cup spilled') \ missed' PROVE Spared(q)'
    BY <1>1 DEF RowsSpared
  <2>1. q \in qsos' /\ worked_until' = RestoredWorked(qsos') /\ tick' = tick
    BY <1>1
  <2> QED BY <1>2, <1>3, <2>1 DEF Spared
<1> QED BY <1>7, <1>8, <1>9 DEF MemoryInv

LEMMA TickMemory ==
    ASSUME MemoryInv, Tick
    PROVE  MemoryInv'
<1>1. tick \in Nat /\ tick' = tick + 1 /\ qso_cooldown \in Nat
  BY MemoryAssumption DEF Tick, MemoryInv, MemoryTypeOK
<1>2. MemoryTypeOK'
  BY <1>1 DEF Tick, logVars, MemoryInv, MemoryTypeOK
<1>3. NothingAhead'
  <2>1. \A r \in pending \cup attempts \cup qsos \cup spilled : r.ts \in Nat
    BY DEF MemoryInv, MemoryTypeOK, AttemptRows, QsoRows
  <2>2. \A r \in pending \cup attempts \cup qsos \cup spilled : r.ts <= tick + 1
    BY <1>1, <2>1 DEF MemoryInv, NothingAhead
  <2>3. \A n \in Names : recent_qso[n].since <= tick + 1
    <3> TAKE n \in Names
    <3>1. recent_qso[n].since \in Nat /\ recent_qso[n].since <= tick
      BY DEF MemoryInv, MemoryTypeOK, NothingAhead
    <3> QED BY <1>1, <3>1
  <2>4. \A n \in Names : attempt_meta[n] # Idle => attempt_meta[n].ts <= tick + 1
    <3> SUFFICES ASSUME NEW n \in Names, attempt_meta[n] # Idle
                 PROVE  attempt_meta[n].ts <= tick + 1
      OBVIOUS
    <3>1. attempt_meta[n] \in [ts : Nat, kind : {"cq"}] /\ attempt_meta[n].ts <= tick
      BY DEF MemoryInv, MemoryTypeOK, NothingAhead
    <3> QED BY <1>1, <3>1
  <2>5. partner # Idle => partner.since <= tick + 1
    <3> SUFFICES ASSUME partner # Idle PROVE partner.since <= tick + 1
      OBVIOUS
    <3>1. partner \in [call : Names, since : Nat, reports : BOOLEAN] /\ partner.since <= tick
      BY DEF MemoryInv, MemoryTypeOK, NothingAhead
    <3> QED BY <1>1, <3>1
  <2> QED BY <1>1, <2>2, <2>3, <2>4, <2>5 DEF Tick, logVars, NothingAhead
<1>4. RowsSpared'
  <2>1. ASSUME NEW r \in (pending \cup qsos \cup spilled) \ missed, r.table = "qso", Spared(r)
        PROVE  Spared(r)'
    <3>1. r \in QsoRows
      BY <2>1 DEF MemoryInv, MemoryTypeOK, AttemptRows
    <3>2. r.ts \in Nat
      BY <3>1 DEF QsoRows
    <3> QED BY <1>1, <2>1, <3>2 DEF Spared, Tick
  <2> QED BY <2>1 DEF Tick, logVars, MemoryInv, RowsSpared
<1> QED BY <1>2, <1>3, <1>4 DEF MemoryInv

LEMMA MemoryStep == MemoryInv /\ [MemoryNext]_memoryVars => MemoryInv'
<1> SUFFICES ASSUME MemoryInv, [MemoryNext]_memoryVars PROVE MemoryInv'
  OBVIOUS
<1>1. CASE UNCHANGED memoryVars
  BY <1>1 DEF memoryVars, logVars, MemoryInv, MemoryTypeOK, NothingAhead, RowsSpared, Spared
<1> QED BY <1>1, CallMemory, CloseLateMemory, AnsweredMemory, CompleteMemory, BailMemory,
           WriteAttemptMemory, WriteQsoMemory, EndMemory, StartMemory, TickMemory DEF MemoryNext

(* A call begins only with a station that nothing remembered forbids.      *)
LEMMA OnlyCallsBegin ==
    ASSUME MemoryTypeOK, [MemoryNext]_memoryVars, NEW n \in Names, Called(n)
    PROVE  MayCall(n)
<1>1. partner = Idle /\ partner' # Idle /\ partner'.call = n
  BY DEF Called
<1>2. PICK m \in Names : Call(m)
  BY <1>1 DEF MemoryNext, CloseLate, Logs, Answered, Complete, Bail, WriteAttempt, WriteQso,
              End, Start, Tick, memoryVars
<1>3. m = n
  BY <1>1, <1>2 DEF Call
<1> QED BY <1>2, <1>3 DEF Call

(* However often the process restarts, and whatever of the log it had not  *)
(* written yet or had to put into the file, a station in the log is spared *)
(* until its cooldown is over, unless the last start could not see the row.*)
THEOREM WorkedAlwaysStaysBlocked == MemorySpec => WorkedStaysBlocked
<1> DEFINE Blocked == \A n \in Names : Called(n) =>
                        \A q \in qsos \ missed : q.call = n => tick >= q.ts + qso_cooldown
<1>1. MemoryInv /\ [MemoryNext]_memoryVars => Blocked
  <2> SUFFICES ASSUME MemoryInv, [MemoryNext]_memoryVars, NEW n \in Names, Called(n),
                      NEW q \in qsos \ missed, q.call = n
               PROVE  tick >= q.ts + qso_cooldown
    OBVIOUS
  <2>1. MayCall(n) /\ alive
    <3>1. alive
      BY DEF Called, MemoryNext, Call, CloseLate, Logs, Answered, Complete, Bail, WriteAttempt,
             WriteQso, End, Start, Tick, memoryVars
    <3> QED BY <3>1, OnlyCallsBegin DEF MemoryInv
  <2>2. q \in QsoRows /\ Spared(q)
    BY <2>1 DEF MemoryInv, MemoryTypeOK, RowsSpared, QsoRows
  <2>3. q.ts \in Nat /\ worked_until[n] \in Nat /\ tick \in Nat /\ qso_cooldown \in Nat
    BY <2>2, MemoryAssumption DEF MemoryInv, MemoryTypeOK, QsoRows
  <2> QED BY <2>1, <2>2, <2>3 DEF MayCall, Spared
<1>2. MemoryInit => MemoryInv
  BY InitMemory
<1>3. MemoryInv /\ [MemoryNext]_memoryVars => MemoryInv'
  BY MemoryStep
<1> QED BY <1>1, <1>2, <1>3, PTL DEF MemorySpec, WorkedStaysBlocked

-----------------------------------------------------------------------------
(* The powers up to the n-th.                                              *)
PowersTo(g, n) ==
    /\ g \in [0..n -> Nat] /\ g[0] = 1
    /\ \A i \in 1..n : g[i] = repeat_factor * g[i - 1]

LEMMA PowersExist == \A n \in Nat : \E g : PowersTo(g, n)
<1> DEFINE Missing == {n \in Nat : ~ \E g : PowersTo(g, n)}
<1> SUFFICES ASSUME Missing # {} PROVE FALSE
  OBVIOUS
<1>1. PICK n \in Missing : \A x \in Missing : n <= x
  BY LeastOne
<1>2. n # 0
  <2>1. PowersTo([i \in 0..0 |-> 1], 0)
    BY DEF PowersTo
  <2> QED BY <2>1
<1>3. n - 1 \in Nat /\ n - 1 \notin Missing
  BY <1>1, <1>2
<1>4. PICK g : PowersTo(g, n - 1)
  BY <1>3
<1> DEFINE h == [i \in 0..n |-> IF i = n THEN repeat_factor * g[n - 1] ELSE g[i]]
<1>5. PowersTo(h, n)
  <2>1. repeat_factor \in Nat /\ n - 1 \in 0..(n - 1) /\ g[n - 1] \in Nat
    BY <1>3, <1>4, MemoryAssumption DEF PowersTo
  <2>2. h \in [0..n -> Nat] /\ h[0] = 1
    BY <1>2, <1>4, <2>1 DEF PowersTo
  <2>3. ASSUME NEW i \in 1..n PROVE h[i] = repeat_factor * h[i - 1]
    <3>1. CASE i = n
      BY <1>3, <3>1
    <3>2. CASE i # n
      <4>1. i \in 1..(n - 1) /\ i - 1 # n /\ i - 1 \in 0..n /\ i \in 0..n
        BY <1>3, <3>2
      <4>2. h[i] = g[i] /\ h[i - 1] = g[i - 1]
        BY <3>2, <4>1
      <4> QED BY <1>4, <4>1, <4>2 DEF PowersTo
    <3> QED BY <3>1, <3>2
  <2> HIDE DEF h
  <2> QED BY <2>2, <2>3 DEF PowersTo
<1> QED BY <1>1, <1>5

LEMMA PowersAgree ==
    ASSUME NEW n \in Nat, NEW m \in Nat, NEW g, NEW h, PowersTo(g, n), PowersTo(h, m)
    PROVE  \A i \in Nat : i <= n /\ i <= m => g[i] = h[i]
<1> DEFINE Differ == {i \in Nat : i <= n /\ i <= m /\ g[i] # h[i]}
<1> SUFFICES ASSUME Differ # {} PROVE FALSE
  OBVIOUS
<1>1. PICK i \in Differ : \A x \in Differ : i <= x
  BY LeastOne
<1>2. i # 0
  BY DEF PowersTo
<1>3. i - 1 \in Nat /\ i - 1 \notin Differ /\ i \in 1..n /\ i \in 1..m
  BY <1>1, <1>2
<1>4. g[i - 1] = h[i - 1]
  BY <1>3
<1> QED BY <1>3, <1>4 DEF PowersTo

LEMMA PowerIsPower ==
    /\ Power[0] = 1
    /\ \A k \in Nat : Power[k] \in Nat /\ Power[k + 1] = repeat_factor * Power[k]
<1> DEFINE upTo(n) == CHOOSE g : PowersTo(g, n)
           F == [n \in Nat |-> upTo(n)[n]]
<1>1. \A n \in Nat : PowersTo(upTo(n), n)
  BY PowersExist
<1> HIDE DEF upTo
<1>2. ASSUME NEW n \in Nat, n # 0 PROVE F[n] = repeat_factor * F[n - 1]
  <2>1. n - 1 \in Nat /\ n \in 1..n
    BY <1>2
  <2>2. upTo(n)[n] = repeat_factor * upTo(n)[n - 1]
    BY <1>1, <2>1 DEF PowersTo
  <2>3. PowersTo(upTo(n), n) /\ PowersTo(upTo(n - 1), n - 1) /\ n - 1 <= n /\ n - 1 <= n - 1
    BY <1>1, <2>1
  <2>4. upTo(n)[n - 1] = upTo(n - 1)[n - 1]
    BY <2>1, <2>3, PowersAgree
  <2> QED BY <2>1, <2>2, <2>4
<1>3. F[0] = 1
  BY <1>1 DEF PowersTo
<1>4. F = [n \in Nat |-> IF n = 0 THEN 1 ELSE repeat_factor * F[n - 1]]
  <2> HIDE DEF F
  <2>1. F = [n \in Nat |-> F[n]]
    BY DEF F
  <2> QED BY <1>2, <1>3, <2>1
<1> HIDE DEF F
<1>5. Power = [n \in Nat |-> IF n = 0 THEN 1 ELSE repeat_factor * Power[n - 1]]
  BY <1>4 DEF Power
<1>6. Power[0] = 1 /\ \A k \in Nat : Power[k + 1] = repeat_factor * Power[k]
  <2>1. \A k \in Nat : k + 1 \in Nat /\ k + 1 # 0 /\ (k + 1) - 1 = k
    OBVIOUS
  <2>2. \A k \in Nat : k # 0 => Power[k] = repeat_factor * Power[k - 1]
    BY <1>5
  <2>3. Power[0] = 1
    BY <1>5
  <2> QED BY <2>1, <2>2, <2>3
<1>7. \A k \in Nat : Power[k] \in Nat
  <2> DEFINE Wrong == {k \in Nat : Power[k] \notin Nat}
  <2> SUFFICES ASSUME Wrong # {} PROVE FALSE
    OBVIOUS
  <2>1. PICK k \in Wrong : \A x \in Wrong : k <= x
    BY LeastOne
  <2>2. k # 0
    BY <1>6
  <2>3. k - 1 \in Nat /\ k - 1 \notin Wrong
    BY <2>1, <2>2
  <2>4. Power[k - 1] \in Nat /\ Power[(k - 1) + 1] = repeat_factor * Power[k - 1]
    BY <1>6, <2>3
  <2>5. repeat_factor \in Nat
    BY MemoryAssumption
  <2> QED BY <2>3, <2>4, <2>5
<1> QED BY <1>6, <1>7

LEMMA PowerGrows ==
    ASSUME NEW j \in Nat, NEW k \in Nat, j <= k
    PROVE  Power[j] <= Power[k]
<1> DEFINE Wrong == {i \in Nat : j <= i /\ ~(Power[j] <= Power[i])}
<1> SUFFICES ASSUME Wrong # {} PROVE FALSE
  OBVIOUS
<1>1. PICK i \in Wrong : \A x \in Wrong : i <= x
  BY LeastOne
<1>2. i # j
  BY PowerIsPower
<1>3. i - 1 \in Nat /\ j <= i - 1 /\ i - 1 \notin Wrong
  BY <1>1, <1>2
<1>4. Power[j] <= Power[i - 1]
  BY <1>3
<1> DEFINE p == Power[i - 1]
<1>5. Power[i] = repeat_factor * p /\ p \in Nat /\ Power[j] \in Nat
  <2>1. (i - 1) + 1 = i
    BY <1>3
  <2> QED BY <1>3, <2>1, PowerIsPower
<1>6. repeat_factor \in Nat /\ 1 <= repeat_factor
  BY MemoryAssumption
<1> HIDE DEF p
<1>7. p <= repeat_factor * p
  BY <1>5, <1>6
<1> QED BY <1>1, <1>4, <1>5, <1>6, <1>7 DEF p

LEMMA EscalatedGrows ==
    ASSUME NEW c \in Nat, NEW d \in Nat, c <= d,
           NEW j \in Nat \ {0}, NEW k \in Nat \ {0}, j <= k
    PROVE  Escalated(c, j) \in Nat /\ Escalated(d, k) \in Nat /\ Escalated(c, j) <= Escalated(d, k)
<1> DEFINE p == Power[j - 1]
           q == Power[k - 1]
<1>1. p \in Nat /\ q \in Nat /\ p <= q
  BY PowerIsPower, PowerGrows
<1>2. Escalated(c, j) = (IF c * p < qso_failed_cooldown_max THEN c * p ELSE qso_failed_cooldown_max)
      /\ Escalated(d, k) = (IF d * q < qso_failed_cooldown_max THEN d * q ELSE qso_failed_cooldown_max)
  BY DEF Escalated
<1> HIDE DEF p, q
<1>3. c * p \in Nat /\ d * q \in Nat /\ c * p <= d * q /\ qso_failed_cooldown_max \in Nat
  <2>1. c * p <= d * p
    BY <1>1
  <2>2. d * p <= d * q
    BY <1>1
  <2>3. c * p \in Nat /\ d * q \in Nat /\ d * p \in Nat
    BY <1>1
  <2> QED BY <2>1, <2>2, <2>3, MemoryAssumption
<1> QED BY <1>2, <1>3

(* The pause that the calls in a set ask for, and whether it is kept.      *)
Due(rows) == Latest(rows).ts + Escalated(picked_another_cooldown, Cardinality(rows))
Pauses(rows, until, now) == rows # {} => now >= Due(rows) \/ until >= Due(rows)

(* The calls in vain since the last QSO, written or about to be.           *)
Unwritten(n) == {r \in pending : /\ r.table = "attempt" /\ r.call = n /\ r.outcome = "bailed"
                                 /\ r.ts >= worked_at[n]}
Vain(n) == FailedSince(n) \cup Unwritten(n)

BackoffTypeOK ==
    /\ IsFiniteSet(attempts) /\ IsFiniteSet(pending)
    /\ recent_until \in [Names -> Nat] /\ failures \in [Names -> Nat]
    /\ worked_at \in [Names -> Nat]

(* A call is noted once, for the QSO under way; a QSO and a call given up  *)
(* are later than their beginning.                                         *)
CallsInOrder ==
    /\ \A n \in Names :
          /\ worked_at[n] <= tick
          /\ attempt_meta[n] # Idle => /\ partner # Idle /\ BaseCall[partner.call] = n
                                       /\ attempt_meta[n].ts = partner.since
    /\ partner # Idle /\ partner.reports => partner.since < tick
    /\ \A r \in attempts \cup pending : r.table = "attempt" /\ r.outcome = "bailed" => r.ts < tick

Kept(n) == failures[n] >= Cardinality(Vain(n)) /\ Pauses(Vain(n), recent_until[n], tick)
BackoffKept ==
    alive => \A n \in Names : HeardPlainly(n) /\ n \notin watchlist_calls => Kept(n)

BackoffInv == MemoryInv /\ BackoffTypeOK /\ CallsInOrder /\ BackoffKept

LEMMA DueGrows ==
    ASSUME NEW A, NEW B, A \subseteq B, A # {}, IsFiniteSet(B), tick \in Nat,
           \A r \in B : r.ts \in Nat /\ r.ts <= tick
    PROVE  Due(A) \in Nat /\ Due(B) \in Nat /\ Due(A) <= Due(B)
<1>1. /\ Latest(A) \in A /\ Latest(A).ts \in Nat
      /\ Latest(B) \in B /\ Latest(B).ts \in Nat /\ Latest(A).ts <= Latest(B).ts
  <2>1. Latest(A) \in A
    BY LatestIsOne
  <2>2. Latest(B) \in B /\ \A r \in B : r.ts <= Latest(B).ts
    BY LatestIsOne
  <2> QED BY <2>1, <2>2
<1>2. Cardinality(A) \in Nat /\ Cardinality(B) \in Nat /\ Cardinality(A) <= Cardinality(B)
  BY FS_Subset, FS_CardinalityType
<1>3. Cardinality(A) # 0 /\ Cardinality(B) # 0
  BY FS_Subset, FS_EmptySet
<1>4. picked_another_cooldown \in Nat
  BY MemoryAssumption
<1> DEFINE e == Escalated(picked_another_cooldown, Cardinality(A))
           f == Escalated(picked_another_cooldown, Cardinality(B))
<1>5. e \in Nat /\ f \in Nat /\ e <= f
  BY <1>2, <1>3, <1>4, EscalatedGrows
<1> HIDE DEF e, f
<1> QED BY <1>1, <1>5 DEF Due, e, f

LEMMA PauseOfFewer ==
    ASSUME NEW A, NEW B, A \subseteq B, IsFiniteSet(B), tick \in Nat,
           \A r \in B : r.ts \in Nat /\ r.ts <= tick,
           NEW until \in Nat, NEW later \in Nat, until <= later, NEW now \in Nat, tick <= now,
           Pauses(B, until, tick)
    PROVE  Pauses(A, later, now)
<1> SUFFICES ASSUME A # {} PROVE now >= Due(A) \/ later >= Due(A)
  BY DEF Pauses
<1>1. Due(A) \in Nat /\ Due(B) \in Nat /\ Due(A) <= Due(B)
  BY DueGrows
<1>2. tick >= Due(B) \/ until >= Due(B)
  BY DEF Pauses
<1> QED BY <1>1, <1>2

LEMMA FailedAreBailed ==
    ASSUME MemoryInv, NEW n \in Names, NEW a \in Failed(n)
    PROVE  /\ a \in attempts /\ a \in AttemptRows /\ a.call = n /\ a.outcome = "bailed"
           /\ a.table = "attempt"
<1>1. a \in attempts /\ a \in AttemptRows /\ a.call = n
  BY DEF Failed, MemoryInv, MemoryTypeOK
<1>2. a.ts \in Nat /\ a.outcome \in {"bailed", "completed"} /\ a.table = "attempt"
  BY <1>1 DEF AttemptRows
<1>3. a.outcome # "completed"
  BY <1>2 DEF Failed
<1> QED BY <1>1, <1>2, <1>3

LEMMA VainRows ==
    ASSUME MemoryInv, BackoffTypeOK, CallsInOrder, NEW n \in Names
    PROVE  /\ IsFiniteSet(Vain(n)) /\ Cardinality(Vain(n)) \in Nat
           /\ \A r \in Vain(n) : /\ r \in attempts \cup pending /\ r.call = n
                                 /\ r.ts \in Nat /\ r.ts < tick /\ r.ts >= worked_at[n]
<1>1. ASSUME NEW r \in Vain(n)
      PROVE  /\ r \in attempts \cup pending /\ r.call = n /\ r.table = "attempt"
             /\ r.outcome = "bailed" /\ r.ts >= worked_at[n] /\ r.ts \in Nat
  <2>1. CASE r \in FailedSince(n)
    <3>1. r \in Failed(n) /\ r.ts >= worked_at[n]
      BY <2>1 DEF FailedSince
    <3> QED BY <3>1, FailedAreBailed DEF AttemptRows
  <2>2. CASE r \in Unwritten(n)
    BY <2>2 DEF Unwritten, MemoryInv, MemoryTypeOK, AttemptRows, QsoRows
  <2> QED BY <2>1, <2>2 DEF Vain
<1>2. IsFiniteSet(Vain(n))
  <2>1. IsFiniteSet(attempts \cup pending) /\ Vain(n) \subseteq attempts \cup pending
    BY <1>1, FS_Union DEF BackoffTypeOK
  <2> QED BY <2>1, FS_Subset
<1>3. \A r \in Vain(n) : r.ts < tick
  BY <1>1 DEF CallsInOrder
<1> QED BY <1>1, <1>2, <1>3, FS_CardinalityType

(* Nothing is lost of a pause while the calls in vain become no more.      *)
LEMMA KeptWithFewer ==
    ASSUME MemoryInv, BackoffTypeOK, CallsInOrder, NEW n \in Names, Kept(n),
           Vain(n)' \subseteq Vain(n), failures'[n] = failures[n],
           recent_until'[n] = recent_until[n], tick' \in Nat, tick <= tick'
    PROVE  Kept(n)'
<1> DEFINE A == Vain(n)'
           B == Vain(n)
<1>1. /\ IsFiniteSet(B) /\ Cardinality(B) \in Nat
      /\ \A r \in B : r.ts \in Nat /\ r.ts <= tick
      /\ tick \in Nat
  BY VainRows DEF MemoryInv, MemoryTypeOK
<1>2. A \subseteq B /\ failures[n] \in Nat /\ recent_until[n] \in Nat
  BY DEF BackoffTypeOK
<1>3. failures[n] >= Cardinality(B) /\ Pauses(B, recent_until[n], tick)
  BY DEF Kept
<1> HIDE DEF A, B
<1>4. Cardinality(A) \in Nat /\ Cardinality(A) <= Cardinality(B)
  BY <1>1, <1>2, FS_Subset, FS_CardinalityType
<1>5. Pauses(A, recent_until[n], tick')
  BY <1>1, <1>2, <1>3, PauseOfFewer
<1>6. failures'[n] >= Cardinality(A) /\ Pauses(A, recent_until'[n], tick')
  BY <1>1, <1>2, <1>3, <1>4, <1>5
<1> QED BY <1>6 DEF Kept, A, Pauses, Due

LEMMA InitBackoff == MemoryInit => BackoffInv
<1> SUFFICES ASSUME MemoryInit PROVE BackoffInv
  OBVIOUS
<1>1. BackoffTypeOK
  BY FS_EmptySet DEF MemoryInit, BackoffTypeOK, Never
<1>2. CallsInOrder
  BY DEF MemoryInit, CallsInOrder, Never, NoMeta
<1>3. ASSUME NEW n \in Names PROVE Kept(n)
  <2>1. Vain(n) = {}
    BY DEF MemoryInit, Vain, FailedSince, Failed, Unwritten
  <2>2. failures[n] = 0 /\ Cardinality({}) = 0
    BY FS_EmptySet DEF MemoryInit, Never
  <2> QED BY <2>1, <2>2 DEF Kept, Pauses
<1> QED BY <1>1, <1>2, <1>3, InitMemory DEF BackoffInv, BackoffKept

LEMMA CallBackoff ==
    ASSUME BackoffInv, NEW n \in Names, Call(n)
    PROVE  BackoffTypeOK' /\ CallsInOrder' /\ BackoffKept'
<1>1. /\ partner' = [call |-> n, since |-> tick, reports |-> FALSE] /\ partner = Idle
      /\ attempt_meta' = [attempt_meta EXCEPT ![BaseCall[n]] = [ts |-> tick, kind |-> "cq"]]
      /\ UNCHANGED <<tick, alive, failures, recent_until, pending, attempts, worked_at,
                     missed>>
      /\ tick \in Nat /\ BaseCall[n] \in Names
  BY MemoryAssumption DEF Call, logVars, BackoffInv, MemoryInv, MemoryTypeOK
<1>2. partner' # Idle
  <2>1. partner' \in [call : Names, since : Nat, reports : BOOLEAN]
    BY <1>1
  <2> QED BY <2>1, MemoryAssumption
<1>3. BackoffTypeOK'
  BY <1>1 DEF BackoffInv, BackoffTypeOK
<1>4. CallsInOrder'
  <2>1. ASSUME NEW m \in Names, attempt_meta'[m] # Idle
        PROVE  BaseCall[partner'.call] = m /\ attempt_meta'[m].ts = partner'.since
    <3>1. attempt_meta[m] = Idle
      BY <1>1 DEF BackoffInv, CallsInOrder
    <3> QED BY <1>1, <2>1, <3>1 DEF BackoffInv, MemoryInv, MemoryTypeOK
  <2>2. partner'.reports = FALSE
    BY <1>1
  <2> QED BY <1>1, <1>2, <2>1, <2>2 DEF BackoffInv, CallsInOrder
<1>5. ASSUME NEW m \in Names, Kept(m) PROVE Kept(m)'
  BY <1>1, <1>5 DEF Kept, Pauses, Due, Vain, FailedSince, Failed, Unwritten
<1>6. BackoffKept'
  BY <1>1, <1>5 DEF BackoffInv, BackoffKept, HeardPlainly
<1> QED BY <1>3, <1>4, <1>6

LEMMA AnsweredBackoff ==
    ASSUME BackoffInv, Answered
    PROVE  BackoffTypeOK' /\ CallsInOrder' /\ BackoffKept'
<1>1. /\ partner \in [call : Names, since : Nat, reports : BOOLEAN] /\ partner # Idle
      /\ partner' = [partner EXCEPT !.reports = TRUE] /\ tick > partner.since
      /\ UNCHANGED <<tick, alive, attempt_meta, failures, recent_until, pending, attempts,
                     worked_at, missed>>
      /\ tick \in Nat
  BY DEF Answered, logVars, BackoffInv, MemoryInv, MemoryTypeOK
<1>2. /\ partner' \in [call : Names, since : Nat, reports : BOOLEAN]
      /\ partner'.since = partner.since /\ partner'.call = partner.call
  BY <1>1
<1>3. partner' # Idle
  BY <1>2, MemoryAssumption
<1>4. BackoffTypeOK'
  BY <1>1 DEF BackoffInv, BackoffTypeOK
<1>5. CallsInOrder'
  BY <1>1, <1>2, <1>3 DEF BackoffInv, CallsInOrder
<1>6. ASSUME NEW m \in Names, Kept(m) PROVE Kept(m)'
  BY <1>1, <1>6 DEF Kept, Pauses, Due, Vain, FailedSince, Failed, Unwritten
<1>7. BackoffKept'
  BY <1>1, <1>6 DEF BackoffInv, BackoffKept, HeardPlainly
<1> QED BY <1>4, <1>5, <1>7

(* A QSO that is completed settles the account of its station: every call  *)
(* in vain began before it.                                                *)
LEMMA LogsBackoff ==
    ASSUME BackoffInv, NEW n \in Names, NEW since, NEW rows, Logs(n, since, rows),
           IsFiniteSet(rows), \A r \in rows : r.outcome = "completed",
           UNCHANGED <<tick, alive, recent_until, attempts, missed>>,
           partner = Idle \/ partner.call = n
    PROVE  BackoffTypeOK' /\ CallsInOrder' /\ BackoffKept'
<1> DEFINE row == [table |-> "qso", call |-> n, ts |-> since]
           key == BaseCall[n]
<1>1. /\ pending' = pending \cup rows \cup {row}
      /\ failures' = (IF rows = {} THEN failures ELSE [failures EXCEPT ![key] = 0])
      /\ attempt_meta' = [attempt_meta EXCEPT ![key] = Idle]
      /\ worked_at' = [worked_at EXCEPT ![key] = tick]
      /\ partner' = Idle
  BY DEF Logs
<1>2. row.table # "attempt" /\ key \in Names /\ tick \in Nat
  BY MemoryAssumption DEF BackoffInv, MemoryInv, MemoryTypeOK
<1> HIDE DEF row, key
<1>3. BackoffTypeOK'
  <2>1. IsFiniteSet(pending')
    BY <1>1, FS_Union, FS_AddElement DEF BackoffInv, BackoffTypeOK
  <2> QED BY <1>1, <1>2, <2>1 DEF BackoffInv, BackoffTypeOK
<1>4. ASSUME NEW r \in attempts' \cup pending', r.table = "attempt", r.outcome = "bailed"
      PROVE  r \in attempts \cup pending /\ r.ts < tick /\ (r \in pending' => r \in pending)
  <2>1. r \notin rows /\ r # row
    BY <1>2, <1>4
  <2> QED BY <1>1, <1>4, <2>1 DEF BackoffInv, CallsInOrder
<1>5. CallsInOrder'
  <2>1. ASSUME NEW m \in Names PROVE attempt_meta'[m] = Idle
    BY <1>1, <1>2 DEF key, BackoffInv, CallsInOrder, MemoryInv, MemoryTypeOK
  <2>2. ASSUME NEW m \in Names PROVE worked_at'[m] <= tick
    BY <1>1, <1>2 DEF BackoffInv, CallsInOrder, BackoffTypeOK
  <2> QED BY <1>1, <1>4, <2>1, <2>2 DEF CallsInOrder
<1>6. ASSUME NEW m \in Names, NEW r \in Vain(m)'
      PROVE  /\ r.ts < tick /\ r.ts >= worked_at'[m]
             /\ \/ r \in Failed(m) \ missed
                \/ r \in pending /\ r.table = "attempt" /\ r.outcome = "bailed" /\ r.call = m
  <2>1. CASE r \in FailedSince(m)'
    <3>1. r \in Failed(m) /\ r \notin missed /\ r.ts >= worked_at'[m]
      BY <2>1 DEF FailedSince, Failed
    <3>2. r.ts < tick
      BY <3>1, FailedAreBailed DEF BackoffInv, CallsInOrder
    <3> QED BY <3>1, <3>2
  <2>2. CASE r \in Unwritten(m)'
    BY <1>4, <2>2 DEF Unwritten
  <2> QED BY <1>6, <2>1, <2>2 DEF Vain
<1>7. ASSUME NEW m \in Names, HeardPlainly(m), m \notin watchlist_calls, alive PROVE Kept(m)'
  <2>1. CASE m = key
    <3>1. \A r \in Vain(m)' : FALSE
      <4>1. ASSUME NEW r \in Vain(m)' PROVE FALSE
        <5>1. worked_at'[m] = tick
          BY <1>1, <2>1 DEF BackoffInv, BackoffTypeOK
        <5>2. r.ts < tick /\ r.ts >= tick /\ r.ts \in Nat
          <6>1. r.ts \in Nat
            BY <1>6, FailedAreBailed DEF BackoffInv, MemoryInv, MemoryTypeOK, AttemptRows, QsoRows
          <6> QED BY <1>6, <5>1, <6>1
        <5> QED BY <1>2, <5>2
      <4> QED BY <4>1
    <3>2. Vain(m)' = {}
      BY <3>1
    <3>3. failures'[m] \in Nat /\ Cardinality({}) = 0
      BY <1>3, FS_EmptySet DEF BackoffTypeOK
    <3> DEFINE A == Vain(m)'
    <3>4. A = {}
      BY <3>2
    <3> HIDE DEF A
    <3>5. failures'[m] >= Cardinality(A) /\ Pauses(A, recent_until'[m], tick')
      BY <3>3, <3>4 DEF Pauses
    <3> QED BY <3>5 DEF Kept, A, Pauses, Due
  <2>2. CASE m # key
    <3>1. worked_at'[m] = worked_at[m] /\ failures'[m] = failures[m]
      BY <1>1, <2>2 DEF BackoffInv, BackoffTypeOK
    <3>2. Vain(m)' \subseteq Vain(m)
      BY <1>6, <3>1 DEF Vain, FailedSince, Unwritten
    <3>3. Kept(m)
      BY <1>7 DEF BackoffInv, BackoffKept
    <3> QED BY <1>2, <3>1, <3>2, <3>3, KeptWithFewer DEF BackoffInv
  <2> QED BY <2>1, <2>2
<1>8. BackoffKept'
  BY <1>7 DEF BackoffKept, HeardPlainly
<1> QED BY <1>3, <1>5, <1>8

LEMMA CompleteBackoff ==
    ASSUME BackoffInv, Complete
    PROVE  BackoffTypeOK' /\ CallsInOrder' /\ BackoffKept'
<1> DEFINE n == partner.call
           rows == AttemptRow(n, "completed")
<1>1. n \in Names
  BY DEF Complete, BackoffInv, MemoryInv, MemoryTypeOK
<1>2. IsFiniteSet(rows) /\ \A r \in rows : r.outcome = "completed"
  <2>1. rows = {} \/ \E row : rows = {row} /\ row.outcome = "completed"
    BY DEF AttemptRow
  <2> HIDE DEF rows
  <2> QED BY <2>1, FS_EmptySet, FS_Singleton
<1>3. Logs(n, partner.since, rows) /\ UNCHANGED <<tick, alive, recent_until, attempts, missed>>
  BY DEF Complete, logVars
<1> HIDE DEF rows
<1> QED BY <1>1, <1>2, <1>3, LogsBackoff

LEMMA CloseLateBackoff ==
    ASSUME BackoffInv, NEW n \in Names, CloseLate(n)
    PROVE  BackoffTypeOK' /\ CallsInOrder' /\ BackoffKept'
<1> DEFINE row == [table |-> "attempt", call |-> BaseCall[n], ts |-> tick,
                   kind |-> "inbound_resume", outcome |-> "completed", reports |-> TRUE]
           rows == {row}
<1>1. IsFiniteSet(rows) /\ \A r \in rows : r.outcome = "completed"
  <2>1. row.outcome = "completed"
    OBVIOUS
  <2> HIDE DEF row
  <2> QED BY <2>1, FS_Singleton
<1>2. /\ Logs(n, recent_qso[n].since, rows) /\ partner = Idle
      /\ UNCHANGED <<tick, alive, recent_until, attempts, missed>>
  BY DEF CloseLate, logVars
<1> HIDE DEF rows
<1> QED BY <1>1, <1>2, LogsBackoff

(* The call given up adds one, and its pause is that of all of them.       *)
LEMMA BailBackoff ==
    ASSUME BackoffInv, NEW reason \in Reasons, Bail(reason)
    PROVE  BackoffTypeOK' /\ CallsInOrder' /\ BackoffKept'
<1> DEFINE n == partner.call
           key == BaseCall[n]
           repeats == failures[key] + 1
           rows == AttemptRow(n, "bailed")
           pause == Escalated(CooldownFor(reason), repeats)
<1>1. /\ partner # Idle /\ partner \in [call : Names, since : Nat, reports : BOOLEAN]
      /\ tick > partner.since /\ n \in Names /\ key \in Names /\ tick \in Nat
  BY MemoryAssumption DEF Bail, BackoffInv, MemoryInv, MemoryTypeOK
<1>2. /\ failures' = [failures EXCEPT ![key] = repeats]
      /\ recent_until' = [recent_until EXCEPT ![n] = tick + Shortened(n, pause)]
      /\ pending' = pending \cup rows
      /\ attempt_meta' = [attempt_meta EXCEPT ![key] = Idle]
      /\ partner' = Idle
      /\ UNCHANGED <<tick, alive, attempts, worked_at, missed>> /\ alive
  BY DEF Bail, logVars
<1>3. /\ rows = {} \/ \E row : rows = {row}
      /\ \A r \in rows : r.call = key /\ r.ts < tick /\ r.ts \in Nat
  <2>1. rows = {} \/ \E row : rows = {row}
    BY DEF AttemptRow
  <2>2. \A r \in rows : r.call = key /\ r.ts = attempt_meta[key].ts /\ attempt_meta[key] # Idle
    BY DEF AttemptRow
  <2>3. attempt_meta[key] # Idle => attempt_meta[key].ts = partner.since
    BY <1>1 DEF BackoffInv, CallsInOrder
  <2> HIDE DEF rows
  <2> QED BY <1>1, <2>1, <2>2, <2>3
<1>4. /\ repeats \in Nat \ {0} /\ pause \in Nat
      /\ \A k \in Nat \ {0} : k <= repeats => /\ Escalated(picked_another_cooldown, k) \in Nat
                                              /\ Escalated(picked_another_cooldown, k) <= pause
  <2>1. repeats \in Nat \ {0}
    BY <1>1 DEF BackoffInv, BackoffTypeOK
  <2> DEFINE c == CooldownFor(reason)
  <2>2. c \in Nat /\ picked_another_cooldown \in Nat /\ picked_another_cooldown <= c
    <3>1. /\ {qso_failed_cooldown, picked_another_cooldown} \subseteq Nat
          /\ went_silent_factor \in Nat \ {0}
          /\ picked_another_cooldown <= qso_failed_cooldown
      BY MemoryAssumption
    <3>2. /\ qso_failed_cooldown * went_silent_factor \in Nat
          /\ qso_failed_cooldown <= qso_failed_cooldown * went_silent_factor
      BY <3>1
    <3> QED BY <3>1, <3>2 DEF CooldownFor
  <2> HIDE DEF c, repeats
  <2> QED BY <2>1, <2>2, EscalatedGrows DEF c
<1> HIDE DEF rows, pause, repeats
<1>5. BackoffTypeOK'
  <2>1. IsFiniteSet(pending')
    BY <1>2, <1>3, FS_EmptySet, FS_Singleton, FS_Union DEF BackoffInv, BackoffTypeOK
  <2>2. Shortened(n, pause) \in Nat
    BY <1>4, MemoryAssumption DEF Shortened
  <2> HIDE DEF key, n
  <2> QED BY <1>1, <1>2, <1>4, <2>1, <2>2 DEF BackoffInv, BackoffTypeOK
<1>6. CallsInOrder'
  <2>1. ASSUME NEW m \in Names PROVE attempt_meta'[m] = Idle
    BY <1>1, <1>2 DEF BackoffInv, CallsInOrder, MemoryInv, MemoryTypeOK
  <2> QED BY <1>2, <1>3, <2>1 DEF BackoffInv, CallsInOrder
<1>7. ASSUME NEW m \in Names, HeardPlainly(m), m \notin watchlist_calls, Kept(m) PROVE Kept(m)'
  <2> DEFINE A == Vain(m)'
             B == Vain(m)
  <2>1. A \subseteq B \cup {r \in rows : r.call = m}
    BY <1>2 DEF Vain, FailedSince, Failed, Unwritten
  <2>2. CASE m = key
    <3>1. n = m
      BY <1>1, <1>7, <2>2 DEF HeardPlainly
    <3>2. /\ IsFiniteSet(B) /\ Cardinality(B) \in Nat
          /\ \A r \in B : r.ts \in Nat /\ r.ts <= tick
      BY VainRows DEF BackoffInv, MemoryInv, MemoryTypeOK
    <3>3. failures'[m] = repeats /\ recent_until'[m] = tick + pause
      <4>1. Shortened(n, pause) = pause
        BY <1>7, <3>1 DEF Shortened
      <4> HIDE DEF key, n
      <4> QED BY <1>1, <1>2, <2>2, <3>1, <4>1 DEF BackoffInv, BackoffTypeOK
    <3>4. Cardinality(B) + 1 <= repeats
      BY <1>7, <2>2, <3>2 DEF Kept, repeats, BackoffInv, BackoffTypeOK
    <3> HIDE DEF A, B
    <3>5. \E row : A \subseteq B \cup {row} /\ \A r \in A : r.ts \in Nat /\ r.ts <= tick
      <4>1. \A r \in A : r.ts \in Nat /\ r.ts <= tick
        BY <1>1, <1>3, <2>1, <3>2
      <4> QED BY <1>3, <2>1, <4>1
    <3>6. IsFiniteSet(A) /\ Cardinality(A) \in Nat /\ Cardinality(A) <= repeats
      <4>1. PICK row : A \subseteq B \cup {row}
        BY <3>5
      <4>2. IsFiniteSet(B \cup {row}) /\ Cardinality(B \cup {row}) <= Cardinality(B) + 1
        <5>1. /\ IsFiniteSet(B \cup {row})
              /\ Cardinality(B \cup {row})
                   = IF row \in B THEN Cardinality(B) ELSE Cardinality(B) + 1
          BY <3>2, FS_AddElement, Zenon
        <5> QED BY <3>2, <5>1
      <4>3. IsFiniteSet(A) /\ Cardinality(A) <= Cardinality(B \cup {row})
        BY <4>1, <4>2, FS_Subset
      <4> QED BY <1>4, <3>2, <3>4, <4>2, <4>3, FS_CardinalityType
    <3>7. ASSUME A # {} PROVE tick + pause >= Due(A)
      <4>1. Latest(A) \in A
        BY <1>1, <3>5, <3>7, LatestIsOne
      <4>2. Latest(A).ts \in Nat /\ Latest(A).ts <= tick
        BY <3>5, <4>1
      <4>3. Cardinality(A) \in Nat \ {0}
        BY <3>6, <3>7, FS_EmptySet
      <4> DEFINE e == Escalated(picked_another_cooldown, Cardinality(A))
      <4>4. e \in Nat /\ e <= pause
        BY <1>4, <3>6, <4>3
      <4> HIDE DEF e
      <4> QED BY <1>1, <1>4, <4>2, <4>4 DEF Due, e
    <3>8. failures'[m] >= Cardinality(A) /\ Pauses(A, recent_until'[m], tick')
      BY <1>2, <1>4, <3>3, <3>6, <3>7 DEF Pauses
    <3> QED BY <3>8 DEF Kept, A, Pauses, Due
  <2>3. CASE m # key
    <3>1. n # m
      BY <1>7, <2>3 DEF HeardPlainly
    <3>2. A \subseteq B
      BY <1>3, <2>1, <2>3
    <3>3. failures'[m] = failures[m] /\ recent_until'[m] = recent_until[m]
      BY <1>2, <2>3, <3>1 DEF BackoffInv, BackoffTypeOK
    <3> HIDE DEF key, n
    <3> QED BY <1>1, <1>2, <1>7, <3>2, <3>3, KeptWithFewer DEF BackoffInv
  <2> QED BY <2>2, <2>3
<1>8. BackoffKept'
  BY <1>2, <1>7 DEF BackoffInv, BackoffKept, HeardPlainly
<1> QED BY <1>5, <1>6, <1>8

(* What a task writes, or is refused, makes the calls in vain no more.     *)
LEMMA WriteAttemptBackoff ==
    ASSUME BackoffInv, MemoryInv', NEW row \in pending, WriteAttempt(row)
    PROVE  BackoffTypeOK' /\ CallsInOrder' /\ BackoffKept'
<1>1. /\ pending' = pending \ {row} /\ row.table = "attempt" /\ tick \in Nat
      /\ attempts' \in {attempts \cup {row}, attempts, Corrected(row)}
      /\ UNCHANGED <<tick, alive, partner, attempt_meta, failures, recent_until, worked_at,
                     missed>>
  BY DEF WriteAttempt, BackoffInv, MemoryInv, MemoryTypeOK
<1> DEFINE near == {a \in attempts : a.call = row.call /\ a.ts >= tick - NACHSTEMPEL_FENSTER}
           last == Latest(near)
           changed == [last EXCEPT !.outcome = "completed"]
<1>2. \/ attempts' = attempts \cup {row}
      \/ attempts' = attempts
      \/ /\ attempts' = (attempts \ {last}) \cup {changed}
         /\ last \in attempts /\ last.outcome # "completed" /\ changed.outcome = "completed"
  <2>1. CASE near = {} \/ row.outcome # "completed" \/ \E a \in near : a.outcome = "completed"
    BY <1>1, <2>1 DEF Corrected
  <2>2. CASE near # {} /\ row.outcome = "completed" /\ \A a \in near : a.outcome # "completed"
    <3>1. \A r \in near : r.ts \in Nat /\ r.ts <= tick
      BY DEF BackoffInv, MemoryInv, MemoryTypeOK, NothingAhead, AttemptRows
    <3>2. last \in near
      <4> HIDE DEF near
      <4> QED BY <1>1, <2>2, <3>1, LatestIsOne
    <3>3. last \in AttemptRows
      BY <3>2 DEF BackoffInv, MemoryInv, MemoryTypeOK
    <3>4. changed.outcome = "completed"
      <4> HIDE DEF last
      <4> QED BY <3>3 DEF AttemptRows
    <3>5. Corrected(row) = (attempts \ {last}) \cup {changed}
      BY <2>2 DEF Corrected
    <3> HIDE DEF last, changed
    <3> QED BY <1>1, <2>2, <3>2, <3>4, <3>5
  <2> QED BY <2>1, <2>2
<1> HIDE DEF near, last, changed
<1>3. BackoffTypeOK'
  <2>1. IsFiniteSet(attempts') /\ IsFiniteSet(pending')
    <3>1. IsFiniteSet(attempts) /\ IsFiniteSet(pending)
      BY DEF BackoffInv, BackoffTypeOK
    <3>2. /\ IsFiniteSet(attempts \cup {row}) /\ IsFiniteSet(pending \ {row})
          /\ IsFiniteSet((attempts \ {last}) \cup {changed})
      <4>1. IsFiniteSet(attempts \ {last})
        BY <3>1, FS_RemoveElement, Zenon
      <4> QED BY <3>1, <4>1, FS_AddElement, FS_RemoveElement, Zenon
    <3> QED BY <1>1, <1>2, <3>1, <3>2
  <2> QED BY <1>1, <2>1 DEF BackoffInv, BackoffTypeOK
<1>4. \A r \in attempts' \cup pending' : r.outcome # "completed" => r \in attempts \cup pending
  BY <1>1, <1>2
<1>5. CallsInOrder'
  <2>1. \A r \in attempts' \cup pending' : r.table = "attempt" /\ r.outcome = "bailed" => r.ts < tick
    BY <1>4 DEF BackoffInv, CallsInOrder
  <2> QED BY <1>1, <2>1 DEF BackoffInv, CallsInOrder
<1>6. ASSUME NEW n \in Names PROVE Vain(n)' \subseteq Vain(n)
  <2> SUFFICES ASSUME NEW r \in Vain(n)' PROVE r \in Vain(n)
    OBVIOUS
  <2>1. CASE r \in Unwritten(n)'
    BY <1>1, <2>1 DEF Unwritten, Vain
  <2>2. CASE r \in FailedSince(n)'
    <3>1. /\ r \in attempts' /\ r.call = n /\ r.kind = "cq" /\ r.ts >= tick - AttemptWindow
          /\ r.ts >= worked_at[n] /\ r \notin missed
          /\ \A b \in attempts' : /\ b.call = n /\ b.kind = "cq" /\ b.ts >= tick - AttemptWindow
                                  /\ b.outcome = "completed"
                                  => b.ts < r.ts
      BY <1>1, <2>2 DEF FailedSince, Failed
    <3>2. r \in AttemptRows
      BY <3>1 DEF MemoryInv, MemoryTypeOK
    <3>3. r.outcome = "bailed" /\ r.ts \in Nat
      BY <3>1, <3>2 DEF AttemptRows
    <3>4. CASE r \in attempts
      <4>1. \A b \in attempts : b.outcome = "completed" => b \in attempts'
        BY <1>2
      <4>2. r \in Failed(n)
        BY <3>1, <3>4, <4>1 DEF Failed
      <4> QED BY <3>1, <4>2 DEF Vain, FailedSince
    <3>5. CASE r \notin attempts
      <4>1. r \in pending /\ r.table = "attempt"
        BY <1>1, <1>2, <3>1, <3>3, <3>5
      <4> QED BY <3>1, <3>3, <4>1 DEF Vain, Unwritten
    <3> QED BY <3>4, <3>5
  <2> QED BY <2>1, <2>2 DEF Vain
<1>7. BackoffKept'
  BY <1>1, <1>6, KeptWithFewer DEF BackoffInv, BackoffKept, HeardPlainly
<1> QED BY <1>3, <1>5, <1>7

LEMMA WriteQsoBackoff ==
    ASSUME BackoffInv, NEW row \in pending, WriteQso(row)
    PROVE  BackoffTypeOK' /\ CallsInOrder' /\ BackoffKept'
<1>1. /\ pending' = pending \ {row} /\ tick \in Nat
      /\ UNCHANGED <<tick, alive, partner, attempt_meta, failures, recent_until, attempts,
                     worked_at, missed>>
  BY DEF WriteQso, BackoffInv, MemoryInv, MemoryTypeOK
<1>2. BackoffTypeOK'
  BY <1>1, FS_RemoveElement DEF BackoffInv, BackoffTypeOK
<1>3. CallsInOrder'
  BY <1>1 DEF BackoffInv, CallsInOrder
<1>4. ASSUME NEW n \in Names PROVE Vain(n)' \subseteq Vain(n)
  BY <1>1 DEF Vain, FailedSince, Failed, Unwritten
<1>5. BackoffKept'
  BY <1>1, <1>4, KeptWithFewer DEF BackoffInv, BackoffKept, HeardPlainly
<1> QED BY <1>2, <1>3, <1>5

LEMMA EndBackoff ==
    ASSUME BackoffInv, End
    PROVE  BackoffTypeOK' /\ CallsInOrder' /\ BackoffKept'
<1>1. /\ alive' = FALSE /\ partner' = Idle /\ pending' = {} /\ attempt_meta' = NoMeta
      /\ failures' = Never /\ recent_until' = Never /\ UNCHANGED <<tick, attempts, worked_at>>
  BY DEF End
<1>2. BackoffTypeOK'
  BY <1>1, FS_EmptySet DEF BackoffInv, BackoffTypeOK, Never
<1>3. CallsInOrder'
  BY <1>1 DEF BackoffInv, CallsInOrder, NoMeta
<1> QED BY <1>1, <1>2, <1>3 DEF BackoffKept

(* What start() reads from the table covers every call in vain: nothing    *)
(* waits to be written, and the table may show more of them than happened  *)
(* since the last QSO, never fewer.  A table it cannot read counts for     *)
(* nothing.                                                                *)
LEMMA StartBackoff ==
    ASSUME BackoffInv, Start
    PROVE  BackoffTypeOK' /\ CallsInOrder' /\ BackoffKept'
<1>1. /\ \/ failures' = [n \in Names |-> Cardinality(Failed(n))] /\ recent_until' = RestoredRecent
         \/ failures' = Never /\ recent_until' = Never /\ attempts \subseteq missed'
      /\ UNCHANGED <<tick, partner, attempt_meta, pending, attempts, worked_at>>
      /\ pending = {} /\ tick \in Nat
  BY DEF Start, Never, BackoffInv, MemoryInv, MemoryTypeOK, RowsSpared
<1>2. ASSUME NEW n \in Names
      PROVE  /\ IsFiniteSet(Failed(n)) /\ Cardinality(Failed(n)) \in Nat
             /\ \A r \in Failed(n) : r.ts \in Nat /\ r.ts <= tick
  <2>1. Failed(n) \subseteq attempts
    BY DEF Failed
  <2>2. \A r \in Failed(n) : r.ts \in Nat /\ r.ts <= tick
    BY <2>1 DEF BackoffInv, MemoryInv, MemoryTypeOK, NothingAhead, AttemptRows
  <2> QED BY <2>1, <2>2, FS_Subset, FS_CardinalityType DEF BackoffInv, BackoffTypeOK
<1>3. ASSUME NEW n \in Names
      PROVE  /\ FailedUntil(n) \in Nat
             /\ Failed(n) # {} => Due(Failed(n)) \in Nat /\ Due(Failed(n)) <= FailedUntil(n)
  <2>1. CASE Failed(n) = {}
    BY <2>1 DEF FailedUntil
  <2>2. CASE Failed(n) # {}
    <3> DEFINE rows == Failed(n)
               count == Cardinality(rows)
               d == Escalated(picked_another_cooldown, count)
               e == Escalated(qso_failed_cooldown, count)
    <3>1. Latest(rows) \in rows
      BY <1>1, <1>2, <2>2, LatestIsOne
    <3>2. Latest(rows).ts \in Nat
      BY <1>2, <3>1
    <3>3. count \in Nat \ {0}
      BY <1>2, <2>2, FS_EmptySet
    <3>4. d \in Nat /\ e \in Nat /\ d <= e
      BY <3>3, MemoryAssumption, EscalatedGrows
    <3>5. FailedUntil(n) = Latest(rows).ts + e
      BY <2>2 DEF FailedUntil
    <3>6. Due(rows) = Latest(rows).ts + d
      BY DEF Due
    <3> HIDE DEF rows, d, e
    <3>7. FailedUntil(n) \in Nat /\ Due(rows) \in Nat /\ Due(rows) <= FailedUntil(n)
      BY <3>2, <3>4, <3>5, <3>6
    <3> QED BY <3>7 DEF rows
  <2> QED BY <2>1, <2>2
<1>4. BackoffTypeOK'
  <2>1. RestoredRecent \in [Names -> Nat]
    BY <1>3 DEF RestoredRecent, StillAhead
  <2> QED BY <1>1, <1>2, <2>1 DEF BackoffInv, BackoffTypeOK, Never
<1>5. CallsInOrder'
  BY <1>1 DEF BackoffInv, CallsInOrder
<1>6. ASSUME attempts \subseteq missed', failures' = Never, NEW n \in Names PROVE Kept(n)'
  <2> DEFINE A == Vain(n)'
  <2>1. A = {}
    BY <1>1, <1>6 DEF Vain, FailedSince, Failed, Unwritten
  <2>2. failures'[n] = 0 /\ Cardinality({}) = 0
    BY <1>6, FS_EmptySet DEF Never
  <2> HIDE DEF A
  <2>3. failures'[n] >= Cardinality(A) /\ Pauses(A, recent_until'[n], tick')
    BY <2>1, <2>2 DEF Pauses
  <2> QED BY <2>3 DEF Kept, A, Pauses, Due
<1>7. ASSUME failures' = [n \in Names |-> Cardinality(Failed(n))], recent_until' = RestoredRecent,
             NEW n \in Names
      PROVE  Kept(n)'
  <2> DEFINE A == Vain(n)'
             B == Failed(n)
  <2>1. A \subseteq B
    BY <1>1 DEF Vain, FailedSince, Failed, Unwritten
  <2>2. failures'[n] = Cardinality(B) /\ recent_until'[n] = StillAhead(FailedUntil(n))
    BY <1>7 DEF RestoredRecent
  <2>3. /\ FailedUntil(n) \in Nat
        /\ B # {} => Due(B) \in Nat /\ Due(B) <= FailedUntil(n)
    BY <1>3
  <2>4. /\ IsFiniteSet(B) /\ Cardinality(B) \in Nat
        /\ \A r \in B : r.ts \in Nat /\ r.ts <= tick
    BY <1>2
  <2> HIDE DEF A, B
  <2>5. Pauses(B, recent_until'[n], tick)
    BY <1>1, <2>2, <2>3 DEF Pauses, StillAhead
  <2>6. recent_until'[n] \in Nat
    BY <1>4 DEF BackoffTypeOK
  <2>7. Pauses(A, recent_until'[n], tick)
    BY <1>1, <2>1, <2>4, <2>5, <2>6, PauseOfFewer
  <2>8. Cardinality(A) <= Cardinality(B) /\ Cardinality(A) \in Nat
    BY <2>1, <2>4, FS_Subset, FS_CardinalityType
  <2>9. failures'[n] >= Cardinality(A) /\ Pauses(A, recent_until'[n], tick')
    BY <1>1, <2>2, <2>4, <2>7, <2>8
  <2> QED BY <2>9 DEF Kept, A, Pauses, Due
<1>8. BackoffKept'
  BY <1>1, <1>6, <1>7 DEF BackoffKept
<1> QED BY <1>4, <1>5, <1>8

(* What leaves the window by the passing of time takes nothing along that  *)
(* had settled an earlier call: a later success stays longer.              *)
LEMMA TickBackoff ==
    ASSUME BackoffInv, Tick
    PROVE  BackoffTypeOK' /\ CallsInOrder' /\ BackoffKept'
<1>1. /\ tick' = tick + 1 /\ tick \in Nat /\ AttemptWindow \in Nat
      /\ UNCHANGED <<alive, partner, attempt_meta, failures, recent_until, pending, attempts,
                     worked_at, missed>>
  BY MemoryAssumption DEF Tick, logVars, BackoffInv, MemoryInv, MemoryTypeOK
<1>2. BackoffTypeOK'
  BY <1>1 DEF BackoffInv, BackoffTypeOK
<1>3. \A r \in attempts : r.ts \in Nat
  BY DEF BackoffInv, MemoryInv, MemoryTypeOK, AttemptRows
<1>4. CallsInOrder'
  <2>1. \A n \in Names : worked_at[n] <= tick'
    BY <1>1 DEF BackoffInv, BackoffTypeOK, CallsInOrder
  <2>2. ASSUME NEW r \in attempts \cup pending, r.table = "attempt", r.outcome = "bailed"
        PROVE  r.ts < tick'
    <3>1. r.ts \in Nat /\ r.ts < tick
      BY <2>2 DEF BackoffInv, CallsInOrder, MemoryInv, MemoryTypeOK, AttemptRows, QsoRows
    <3> QED BY <1>1, <3>1
  <2>3. partner # Idle /\ partner.reports => partner.since < tick'
    BY <1>1 DEF BackoffInv, CallsInOrder, MemoryInv, MemoryTypeOK
  <2> QED BY <1>1, <2>1, <2>2, <2>3 DEF BackoffInv, CallsInOrder
<1>5. ASSUME NEW n \in Names PROVE Vain(n)' \subseteq Vain(n)
  <2>1. ASSUME NEW r \in Failed(n)' PROVE r \in Failed(n)
    <3>1. /\ r \in attempts /\ r.call = n /\ r.kind = "cq" /\ r.ts >= tick' - AttemptWindow
          /\ \A b \in attempts : /\ b.call = n /\ b.kind = "cq" /\ b.ts >= tick' - AttemptWindow
                                 /\ b.outcome = "completed"
                                 => b.ts < r.ts
      BY <1>1, <2>1 DEF Failed
    <3>2. r.ts \in Nat /\ r.ts >= tick - AttemptWindow
      BY <1>1, <1>3, <3>1
    <3>3. ASSUME NEW b \in attempts, b.call = n, b.kind = "cq", b.outcome = "completed"
          PROVE  b.ts < r.ts
      <4>1. b.ts \in Nat
        BY <1>3
      <4>2. CASE b.ts >= tick' - AttemptWindow
        BY <3>1, <3>3, <4>2
      <4>3. CASE ~(b.ts >= tick' - AttemptWindow)
        BY <1>1, <3>1, <3>2, <4>1, <4>3
      <4> QED BY <4>2, <4>3
    <3> QED BY <3>1, <3>2, <3>3 DEF Failed
  <2> QED BY <1>1, <2>1 DEF Vain, FailedSince, Unwritten
<1>6. BackoffKept'
  BY <1>1, <1>5, KeptWithFewer DEF BackoffInv, BackoffKept, HeardPlainly
<1> QED BY <1>2, <1>4, <1>6

LEMMA BackoffStep == BackoffInv /\ [MemoryNext]_memoryVars => BackoffInv'
<1> SUFFICES ASSUME BackoffInv, [MemoryNext]_memoryVars PROVE BackoffInv'
  OBVIOUS
<1>1. MemoryInv'
  BY MemoryStep DEF BackoffInv
<1>2. BackoffTypeOK' /\ CallsInOrder' /\ BackoffKept'
  <2>1. CASE UNCHANGED memoryVars
    BY <2>1 DEF memoryVars, logVars, BackoffInv, BackoffTypeOK, CallsInOrder, BackoffKept, HeardPlainly,
                Kept, Pauses, Due, Vain, FailedSince, Failed, Unwritten
  <2> QED BY <1>1, <2>1, CallBackoff, CloseLateBackoff, AnsweredBackoff, CompleteBackoff,
             BailBackoff, WriteAttemptBackoff, WriteQsoBackoff, EndBackoff, StartBackoff,
             TickBackoff DEF MemoryNext
<1> QED BY <1>1, <1>2 DEF BackoffInv

(* However often the process ends, and whichever rows it could not write,  *)
(* a station that was called in vain k times is left alone as long as the  *)
(* k-th pause asks; only its own completed QSO begins the count anew.      *)
THEOREM BackoffAlwaysSurvives == MemorySpec => BackoffSurvives
<1> DEFINE Patient == \A n \in Names :
                        Called(n) /\ n \notin watchlist_calls /\ HeardPlainly(n) /\ FailedSince(n) # {}
                        => tick >= Latest(FailedSince(n)).ts
                                   + Escalated(picked_another_cooldown, Cardinality(FailedSince(n)))
<1>1. BackoffInv /\ [MemoryNext]_memoryVars => Patient
  <2> SUFFICES ASSUME BackoffInv, [MemoryNext]_memoryVars, NEW n \in Names, Called(n),
                      n \notin watchlist_calls, HeardPlainly(n), FailedSince(n) # {}
               PROVE  tick >= Due(FailedSince(n))
    BY DEF Due
  <2>1. MayCall(n) /\ alive
    <3>1. alive
      BY DEF Called, MemoryNext, Call, CloseLate, Logs, Answered, Complete, Bail, WriteAttempt,
             WriteQso, End, Start, Tick, memoryVars
    <3> QED BY <3>1, OnlyCallsBegin DEF BackoffInv, MemoryInv
  <2> DEFINE A == FailedSince(n)
             B == Vain(n)
  <2>2. /\ IsFiniteSet(B) /\ A \subseteq B /\ tick \in Nat
        /\ \A r \in B : r.ts \in Nat /\ r.ts <= tick
    <3>1. A \subseteq B
      BY DEF Vain
    <3>2. tick \in Nat
      BY DEF BackoffInv, MemoryInv, MemoryTypeOK
    <3>3. IsFiniteSet(B) /\ \A r \in B : r.ts \in Nat /\ r.ts < tick
      BY VainRows DEF BackoffInv
    <3> HIDE DEF A, B
    <3> QED BY <3>1, <3>2, <3>3
  <2>3. Pauses(B, recent_until[n], tick) /\ recent_until[n] \in Nat /\ recent_until[n] <= tick
    BY <2>1 DEF BackoffInv, BackoffKept, BackoffTypeOK, Kept, MayCall
  <2> HIDE DEF B
  <2>4. Pauses(A, tick, tick)
    BY <2>2, <2>3, PauseOfFewer
  <2> QED BY <2>4 DEF Pauses
<1>2. MemoryInit => BackoffInv
  BY InitBackoff
<1>3. BackoffInv /\ [MemoryNext]_memoryVars => BackoffInv'
  BY BackoffStep
<1> QED BY <1>1, <1>2, <1>3, PTL DEF MemorySpec, BackoffSurvives

-----------------------------------------------------------------------------
(* The exchange with PSK Reporter.                                         *)

Accounted(s) == s \in buffered \/ (\E f \in flushes : s \in f) \/ s \in sent \/ s \in lost
AllAccounted == \A s \in spotted : Accounted(s)

LEMMA SpotBySpot == AllAccounted => SpotsAreAccountedFor
<1> SUFFICES ASSUME AllAccounted, NEW s \in spotted
             PROVE  s \in buffered \cup (UNION flushes) \cup sent \cup lost
  BY DEF SpotsAreAccountedFor
<1>1. Accounted(s)
  BY DEF AllAccounted
<1>2. ASSUME NEW f \in flushes, s \in f PROVE s \in UNION flushes
  BY <1>2
<1> QED BY <1>1, <1>2 DEF Accounted

LEMMA SpotsStay ==
    ASSUME AllAccounted, [PskNext]_pskVars
    PROVE  AllAccounted'
<1>1. CASE UNCHANGED upVars
  BY <1>1 DEF upVars, AllAccounted, Accounted
<1>2. ASSUME NEW s \in Stations, Decoded(s) PROVE AllAccounted'
  <2>1. /\ spotted' = spotted \cup {s} /\ sent' = sent \ {s} /\ lost' = lost \ {s}
        /\ \/ flushes' = flushes \cup {buffered \cup {s}} /\ buffered' = {}
           \/ flushes' = flushes /\ buffered' = buffered \cup {s}
    BY <1>2 DEF Decoded, Flush
  <2> QED BY <2>1 DEF AllAccounted, Accounted
<1>3. ASSUME NEW f \in flushes, PacketSent(f) PROVE AllAccounted'
  <2>1. PICK packet \in SUBSET f :
          /\ flushes' = (flushes \ {f}) \cup (IF packet = f THEN {} ELSE {f \ packet})
          /\ sent' = sent \cup packet /\ lost' = lost \ packet
    BY <1>3 DEF PacketSent
  <2>2. UNCHANGED <<spotted, buffered>>
    BY <1>3 DEF PacketSent
  <2>3. ASSUME NEW s \in f \ packet PROVE \E g \in flushes' : s \in g
    BY <2>1, <2>3
  <2> QED BY <2>1, <2>2, <2>3 DEF AllAccounted, Accounted
<1>4. ASSUME NEW f \in flushes, PacketFails(f) PROVE AllAccounted'
  BY <1>4 DEF PacketFails, AllAccounted, Accounted
<1>5. CASE Restarted
  <2>1. \A s \in buffered : s \in lost'
    BY <1>5 DEF Restarted
  <2>2. \A f \in flushes : \A s \in f : s \in lost'
    BY <1>5 DEF Restarted
  <2>3. lost \subseteq lost' /\ UNCHANGED <<sent, spotted>>
    BY <1>5 DEF Restarted
  <2> QED BY <2>1, <2>2, <2>3 DEF AllAccounted, Accounted
<1>6. CASE ClientReplaced \/ FiveMinutes
  BY <1>6 DEF ClientReplaced, FiveMinutes, AllAccounted, Accounted
<1>7. CASE RefreshLoop \/ Propagation \/ NetChanges \/ HuntToggled \/ ModeSwitched
  BY <1>1, <1>7 DEF RefreshLoop, Query, Answer, Propagation, NetChanges, HuntToggled, ModeSwitched,
                    upVars
<1> QED BY <1>1, <1>2, <1>3, <1>4, <1>5, <1>6, <1>7 DEF PskNext, Uplink, pskVars

(* No spot disappears unnoticed, however many flushes are under way when   *)
(* clients are replaced.                                                   *)
THEOREM SpotsAlwaysAccountedFor == PskSpec => []SpotsAreAccountedFor
<1>1. PskInit => AllAccounted
  BY DEF PskInit, AllAccounted
<1>2. AllAccounted /\ [PskNext]_pskVars => AllAccounted'
  BY SpotsStay
<1>3. AllAccounted => SpotsAreAccountedFor
  BY SpotBySpot
<1> QED BY <1>1, <1>2, <1>3, PTL DEF PskSpec

-----------------------------------------------------------------------------
(* The hotspot.                                                            *)

Ages == 0..LongestClock
Clocks == Ages \cup {Unset}
Hotspots == [unit : BOOLEAN, hostapd : BOOLEAN, managed : BOOLEAN,
             connected : BOOLEAN, gave_up : BOOLEAN]

HotspotTypeOK ==
    /\ os \in Hotspots /\ disturbed \in BOOLEAN
    /\ grace_left \in Nat /\ fehlversuche \in 0..5
    /\ up_for \in Ages /\ ap_aktiv_seit \in Clocks

\* The unit owns the hotspot; its clock was started with it, and stands
\* still while there is none.
ClockIsItsOwn ==
    /\ os.hostapd => os.unit
    /\ ~disturbed /\ grace_left = 0 /\ os.hostapd /\ ap_aktiv_seit # Unset
          => ap_aktiv_seit <= up_for
    /\ ~disturbed /\ grace_left = 0 /\ ~os.unit => ap_aktiv_seit = Unset

HotspotInv == HotspotTypeOK /\ ClockIsItsOwn

LEMMA LongestClockIsLongest ==
    /\ LongestClock \in Nat
    /\ AP_BETRIEB_FRIST <= LongestClock /\ AP_RUECKKEHR_MAX <= LongestClock
    /\ AP_RUECKKEHR_NACH <= LongestClock
<1>1. /\ AP_BETRIEB_FRIST \in Nat /\ AP_RUECKKEHR_MAX \in Nat /\ fallback_delay \in Nat
      /\ AP_RUECKKEHR_NACH \in Nat /\ AP_RUECKKEHR_NACH <= AP_RUECKKEHR_MAX
  BY HotspotAssumption
<1>2. \E frist \in Fristen : \A other \in Fristen : other <= frist
  <2>1. CASE AP_BETRIEB_FRIST >= AP_RUECKKEHR_MAX /\ AP_BETRIEB_FRIST >= fallback_delay
    BY <1>1, <2>1 DEF Fristen
  <2>2. CASE AP_RUECKKEHR_MAX >= AP_BETRIEB_FRIST /\ AP_RUECKKEHR_MAX >= fallback_delay
    BY <1>1, <2>2 DEF Fristen
  <2>3. CASE fallback_delay >= AP_BETRIEB_FRIST /\ fallback_delay >= AP_RUECKKEHR_MAX
    BY <1>1, <2>3 DEF Fristen
  <2> QED BY <1>1, <2>1, <2>2, <2>3
<1>3. LongestClock \in Fristen /\ \A other \in Fristen : other <= LongestClock
  BY <1>2 DEF LongestClock
<1> QED BY <1>1, <1>3 DEF Fristen

LEMMA NoneFailed == 0 \in 0..5
OBVIOUS

LEMMA AgedStays ==
    /\ \A age \in Ages : Aged(age) \in Ages /\ age <= Aged(age)
    /\ \A age \in Clocks : Aged(age) \in Clocks /\ (age # Unset => Aged(age) \in Ages)
    /\ Aged(Unset) = Unset
    /\ \A a, b \in Ages : a <= b => Aged(a) <= Aged(b)
    /\ Unset \notin Ages
BY LongestClockIsLongest, HotspotAssumption DEF Aged, Ages, Clocks

LEMMA UnitsStay ==
    ASSUME NEW o \in Hotspots, o.hostapd => o.unit, NEW how
    PROVE  /\ ApStarted(o, how) \in Hotspots
           /\ ApStarted(o, how).hostapd => ApStarted(o, how).unit
           /\ o.unit => ApStarted(o, how) = o
           /\ how = "done" => ApStarted(o, how).unit
           /\ ApStopped(o) \in Hotspots
           /\ ~ApStopped(o).hostapd /\ ~ApStopped(o).unit
BY DEF ApStarted, ApStopped, Hotspots

LEMMA OpenHotspotKeeps ==
    ASSUME HotspotInv, OpenHotspot, RunningFor(Aged(up_for)), grace_left' = 0,
           fehlversuche' \in 0..5
    PROVE  HotspotInv'
<1>1. PICK how \in StartOutcomes :
        /\ os' = ApStarted(os, how)
        /\ ap_aktiv_seit' = IF Raises(os, TRUE, how) THEN Aged(ap_aktiv_seit) ELSE 0
        /\ disturbed' = Raises(os, TRUE, how)
  BY DEF OpenHotspot
<1>2. os \in Hotspots /\ (os.hostapd => os.unit) /\ up_for \in Ages /\ ap_aktiv_seit \in Clocks
  BY DEF HotspotInv, HotspotTypeOK, ClockIsItsOwn
<1>3. os' \in Hotspots /\ (os'.hostapd => os'.unit) /\ (os.unit => os' = os)
      /\ (how = "done" => os'.unit)
  BY <1>1, <1>2, UnitsStay
<1>4. up_for' \in Ages /\ 0 \in Ages
  BY <1>2, AgedStays, LongestClockIsLongest DEF RunningFor, Ages
<1>5. ap_aktiv_seit' \in Clocks /\ disturbed' \in BOOLEAN
  BY <1>1, <1>2, <1>4, AgedStays DEF Raises, Clocks
<1>6. ~disturbed' => ap_aktiv_seit' = 0 /\ os'.unit
  BY <1>1, <1>2, <1>3 DEF Raises, Hotspots
<1> QED BY <1>3, <1>4, <1>5, <1>6 DEF HotspotInv, HotspotTypeOK, ClockIsItsOwn, Ages

LEMMA BeatKeeps ==
    ASSUME HotspotInv, Beat
    PROVE  HotspotInv'
<1> USE DEF HotspotInv, HotspotTypeOK, ClockIsItsOwn
<1>1. /\ os \in Hotspots /\ (os.hostapd => os.unit) /\ up_for \in Ages
      /\ ap_aktiv_seit \in Clocks /\ 0 \in Ages
  BY LongestClockIsLongest DEF Ages
<1>2. RunningFor(Aged(up_for)) /\ up_for' \in Ages
  BY <1>1, AgedStays DEF Beat, RunningFor
<1>3. CASE HotspotRuns
  <2>1. CASE ap_aktiv_seit = Unset
    <3>1. os' = os /\ grace_left' = grace_left /\ fehlversuche' = fehlversuche
          /\ ap_aktiv_seit' = 0 /\ disturbed' = FALSE /\ os.hostapd
      BY <1>3, <2>1 DEF HotspotRuns
    <3>2. 0 \in Clocks
      BY <1>1 DEF Clocks
    <3>3. 0 <= up_for'
      BY <1>2 DEF Ages
    <3>4. HotspotTypeOK'
      BY <1>1, <1>2, <3>1, <3>2
    <3>5. ClockIsItsOwn'
      BY <1>1, <3>1, <3>3
    <3> QED BY <3>4, <3>5
  <2>2. CASE ap_aktiv_seit # Unset /\ Aged(ap_aktiv_seit) < Frist
    <3>1. /\ UNCHANGED <<os, grace_left, disturbed, fehlversuche>> /\ os.hostapd
          /\ ap_aktiv_seit' = Aged(ap_aktiv_seit) /\ up_for' = Aged(up_for)
      BY <1>2, <1>3, <2>2 DEF HotspotRuns, RunningFor
    <3>2. ap_aktiv_seit' \in Clocks /\ (ap_aktiv_seit <= up_for => ap_aktiv_seit' <= up_for')
      BY <1>1, <2>2, <3>1, AgedStays DEF Clocks
    <3> QED BY <1>1, <1>2, <2>2, <3>1, <3>2, AgedStays
  <2>3. CASE ap_aktiv_seit # Unset /\ ~(Aged(ap_aktiv_seit) < Frist)
    <3>1. PICK how \in StopOutcomes :
            /\ os' = ApStopped(os)
            /\ grace_left' = IF Raises(os, FALSE, how) THEN 0 ELSE AP_WLAN_GNADENFRIST
            /\ disturbed' = (disturbed \/ Raises(os, FALSE, how))
      BY <1>3, <2>3 DEF HotspotRuns
    <3>2. ap_aktiv_seit' = Aged(ap_aktiv_seit) /\ fehlversuche' = fehlversuche
      BY <1>3, <2>3 DEF HotspotRuns
    <3>3. os' \in Hotspots /\ ~os'.hostapd
      BY <1>1, <3>1, UnitsStay
    <3>4. disturbed' \in BOOLEAN /\ grace_left' \in Nat /\ (grace_left' = 0 => disturbed')
      BY <3>1, HotspotAssumption DEF Raises
    <3> QED BY <1>1, <1>2, <3>2, <3>3, <3>4, AgedStays
  <2> QED BY <2>1, <2>2, <2>3
<1>4. CASE NetIsThere
  BY <1>1, <1>2, <1>4, NoneFailed DEF NetIsThere, Clocks
<1>5. CASE NoNetYet
  <2>1. os' \in Nudged /\ ~os.hostapd /\ UNCHANGED <<fehlversuche, grace_left, disturbed>>
        /\ ap_aktiv_seit' = Aged(ap_aktiv_seit)
    BY <1>5 DEF NoNetYet
  <2>2. os' \in Hotspots /\ ~os'.hostapd /\ os'.unit = os.unit
    BY <1>1, <2>1 DEF Nudged, Hotspots
  <2> QED BY <1>1, <1>2, <2>1, <2>2, AgedStays
<1>6. CASE NoNetForLong
  BY <1>2, <1>6, OpenHotspotKeeps DEF NoNetForLong
<1>7. CASE NetIsBack
  BY <1>1, <1>2, <1>7, NoneFailed DEF NetIsBack, Clocks
<1>8. CASE NetIsNotBack /\ grace_left > 1
  <2>1. /\ UNCHANGED <<os, fehlversuche, disturbed>> /\ grace_left' = grace_left - 1
        /\ ap_aktiv_seit' = Aged(ap_aktiv_seit)
    BY <1>8 DEF NetIsNotBack
  <2> QED BY <1>1, <1>2, <1>8, <2>1, AgedStays
<1>9. CASE NetIsNotBack /\ ~(grace_left > 1)
  <2>1. grace_left' = 0 /\ OpenHotspot /\ fehlversuche' \in 0..5
    BY <1>9 DEF NetIsNotBack, OneMore
  <2> QED BY <1>2, <2>1, OpenHotspotKeeps
<1> QED BY <1>3, <1>4, <1>5, <1>6, <1>7, <1>8, <1>9 DEF Beat

LEMMA HotspotKeeps ==
    ASSUME HotspotInv, [HotspotNext]_hotspotVars
    PROVE  HotspotInv'
<1> USE DEF HotspotInv, HotspotTypeOK, ClockIsItsOwn
<1>1. os \in Hotspots /\ (os.hostapd => os.unit) /\ up_for \in Ages /\ 0 \in Ages
  BY LongestClockIsLongest DEF Ages
<1>2. ASSUME RunningFor(up_for) PROVE up_for' \in Ages
  BY <1>1, <1>2 DEF RunningFor
<1>3. CASE Beat
  BY <1>3, BeatKeeps
<1>4. CASE Join \/ ChangeNet
  <2>1. os' \in Hotspots /\ os'.unit = os.unit /\ os'.hostapd = os.hostapd
        /\ UNCHANGED <<clocks, up_for, disturbed>>
    BY <1>1, <1>4 DEF Join, ChangeNet, Hotspots
  <2> QED BY <1>1, <2>1 DEF clocks
<1>5. CASE StartButton
  <2>1. PICK how \in StartOutcomes : os' = ApStarted(os, how)
    BY <1>5 DEF StartButton
  <2>2. os' \in Hotspots /\ (os'.hostapd => os'.unit) /\ (os.unit => os' = os)
    BY <1>1, <2>1, UnitsStay
  <2>3. UNCHANGED <<clocks, disturbed>> /\ RunningFor(up_for)
    BY <1>5 DEF StartButton
  <2> QED BY <1>1, <1>2, <2>2, <2>3 DEF clocks, RunningFor
<1>6. CASE StopButton
  <2>1. os' \in Hotspots /\ ~os'.hostapd
    BY <1>1, <1>6, UnitsStay DEF StopButton
  <2> QED BY <1>1, <1>2, <1>6, <2>1 DEF StopButton, clocks
<1>7. CASE StopScriptByHand
  <2>1. os' \in Hotspots /\ ~os'.hostapd
    <3>1. ApStopped(os) \in Hotspots /\ ~ApStopped(os).hostapd
      BY <1>1, UnitsStay
    <3>2. \A o \in Hotspots : ~o.hostapd => [o EXCEPT !.unit = TRUE] \in Hotspots
                                         /\ ~[o EXCEPT !.unit = TRUE].hostapd
      BY DEF Hotspots
    <3>3. os' = [ApStopped(os) EXCEPT !.unit = TRUE]
      BY <1>7 DEF StopScriptByHand
    <3> HIDE DEF HotspotInv, HotspotTypeOK, ClockIsItsOwn
    <3> QED BY <3>1, <3>2, <3>3
  <2> QED BY <1>1, <1>2, <1>7, <2>1 DEF StopScriptByHand, clocks
<1>8. CASE Reboot
  BY <1>1, <1>8, NoneFailed DEF Reboot, Clocks
<1>9. CASE ChangeCable \/ UNCHANGED hotspotVars
  BY <1>9 DEF ChangeCable, hotspotVars, clocks
<1> QED BY <1>3, <1>4, <1>5, <1>6, <1>7, <1>8, <1>9 DEF HotspotNext, HotspotInternal

(* However often the net was not back, the promised time is not shortened. *)
LEMMA FristIsPromised ==
    ASSUME fehlversuche \in 0..5
    PROVE  Frist \in Nat /\ AP_RUECKKEHR_NACH <= Frist
<1> DEFINE power == Doubled[1 + fehlversuche]
<1>1. power \in Nat /\ 1 <= power
  <2>1. \A i \in 1..6 : Doubled[i] \in Nat /\ 1 <= Doubled[i]
    BY DEF Doubled
  <2>2. 1 + fehlversuche \in 1..6
    OBVIOUS
  <2> QED BY <2>1, <2>2
<1> HIDE DEF power
<1>2. AP_RUECKKEHR_NACH \in Nat /\ AP_RUECKKEHR_MAX \in Nat
      /\ AP_RUECKKEHR_NACH <= AP_RUECKKEHR_MAX
  BY HotspotAssumption
<1>3. AP_RUECKKEHR_NACH * power \in Nat /\ AP_RUECKKEHR_NACH <= AP_RUECKKEHR_NACH * power
  BY <1>1, <1>2
<1>4. Frist = Capped(AP_RUECKKEHR_NACH * power)
  BY DEF Frist, power
<1> QED BY <1>2, <1>3, <1>4 DEF Capped

(* The watchdog closes no hotspot before its time, whatever is pressed,    *)
(* plugged or restarted around it: without a failed command the clock in   *)
(* _ap_fallback_tick is the hotspot's own, or runs behind it.              *)
THEOREM HotspotAlwaysLasts == HotspotSpec => HotspotLasts
<1>1. HotspotInit => HotspotInv
  <2> SUFFICES ASSUME HotspotInit PROVE HotspotInv
    OBVIOUS
  <2>1. os \in Hotspots /\ ~os.hostapd
    BY DEF HotspotInit, Hotspots
  <2>2. 0 \in Ages /\ Unset \in Clocks
    BY LongestClockIsLongest DEF Ages, Clocks
  <2> QED BY <2>1, <2>2, NoneFailed DEF HotspotInit, HotspotInv, HotspotTypeOK, ClockIsItsOwn
<1>2. HotspotInv /\ [HotspotNext]_hotspotVars => HotspotInv'
  BY HotspotKeeps
<1>3. HotspotInv => [HotspotRuns /\ os.hostapd /\ ~os'.hostapd
                       => disturbed \/ Aged(up_for) >= AP_RUECKKEHR_NACH]_hotspotVars
  <2> SUFFICES ASSUME HotspotInv, HotspotRuns, os.hostapd, ~os'.hostapd, ~disturbed
               PROVE  Aged(up_for) >= AP_RUECKKEHR_NACH
    OBVIOUS
  <2>1. ap_aktiv_seit # Unset /\ grace_left = 0 /\ ~(Aged(ap_aktiv_seit) < Frist)
    BY DEF HotspotRuns
  <2>2. fehlversuche \in 0..5 /\ up_for \in Ages /\ ap_aktiv_seit \in Ages
        /\ ap_aktiv_seit <= up_for
    BY <2>1 DEF HotspotInv, HotspotTypeOK, ClockIsItsOwn, Clocks
  <2>3. Frist \in Nat /\ AP_RUECKKEHR_NACH <= Frist
    BY <2>2, FristIsPromised
  <2>4. /\ Aged(ap_aktiv_seit) \in Nat /\ Aged(up_for) \in Nat
        /\ Aged(ap_aktiv_seit) <= Aged(up_for)
    BY <2>2, AgedStays DEF Ages
  <2> QED BY <2>1, <2>3, <2>4, HotspotAssumption
<1> QED BY <1>1, <1>2, <1>3, PTL DEF HotspotSpec, HotspotLasts
===============================================================================
