--------------------------- MODULE TxEngineProofs ---------------------------
(***************************************************************************)
(* Proofs about TxEngine, for every set of stations, decoder stages and    *)
(* operator requests, any number of tasks draining at once, and every kind *)
(* of failure of the rig.                                                  *)
(*                                                                         *)
(* The burst and PTT invariants need to know whose requests are queued at  *)
(* the rig: one for each task that waits for it, a request to key only     *)
(* from the task that owns the burst, and behind it no PTT-off by which    *)
(* another task aborts its own (AbortsFirst).                              *)
(***************************************************************************)
EXTENDS TxEngine, TLAPS

Asking == {"keying", "unkeying", "forcing", "off"}
AtRest == {"idle", "decode", "busy", "wait"}

(* A task in the middle of a request waits for exactly one answer, and only*)
(* the one about to begin its burst has asked for PTT-on.                  *)
RequestsMatch ==
    /\ \A i \in DOMAIN queue : queue[i].by \in Tasks => pc[queue[i].by] \in Asking
    /\ \A i \in DOMAIN queue : queue[i].on => queue[i].by \in Tasks /\ pc[queue[i].by] = "keying"
    /\ \A i, j \in DOMAIN queue : queue[i].by \in Tasks /\ queue[i].by = queue[j].by => i = j

(* A PTT-off that aborts a burst is served before the next burst begins.   *)
Aborting(r, places) == r.by \in Tasks /\ places[r.by] = "forcing"
AbortsFirst ==
    /\ \A i, j \in DOMAIN queue : queue[i].on /\ Aborting(queue[j], pc) => j < i
    /\ \A t \in Tasks : pc[t] = "playing" => \A j \in DOMAIN queue : ~Aborting(queue[j], pc)

BurstInv == OneBurst /\ RequestsMatch /\ AbortsFirst /\ PttIsAccountedFor

(* A reply whose boundary has come is dealt with before the slot goes on.  *)
DueAtStart == aufgeschoben # None => aufgeschoben.due # 0 \/ phase = "start"

(* Only the reply put off last is kept, and only while nothing overtook it.*)
PutOffIsCurrent ==
    /\ aufgeschoben # None => ~ueberholt
    /\ plan["deferred"] = <<>>

-----------------------------------------------------------------------------
(* Constants and data.                                                     *)

LEMMA TasksAreNotOthers == Tasks \cap Others = {}
BY EngineAssumption DEF Tasks, Others

LEMMA DeferredIsNoLateStage ==
    /\ "deferred" \in Tasks /\ "deferred" \notin Lates /\ "deferred" \notin Users
    /\ "slot" \in Tasks /\ "pre" \in Tasks
BY EngineAssumption DEF Tasks

LEMMA ShortSequences ==
    ASSUME NEW S
    PROVE  /\ <<>> \in Seq(S)
           /\ \A x \in S : <<x>> \in Seq(S)
           /\ \A x, y \in S : <<x, y>> \in Seq(S)
OBVIOUS

LEMMA PlansAreSequences == \A p \in Plans : p \in Seq({"off"} \cup Kinds)
BY EngineAssumption

LEMMA RestOfPlan ==
    ASSUME NEW S, NEW p \in Seq(S), p # <<>>
    PROVE  Head(p) \in S /\ Tail(p) \in Seq(S)
OBVIOUS

LEMMA AppendedRequest ==
    ASSUME NEW q \in Seq(Request), NEW r \in Request
    PROVE  /\ Append(q, r) \in Seq(Request)
           /\ DOMAIN Append(q, r) = DOMAIN q \cup {Len(q) + 1}
           /\ Len(q) + 1 \notin DOMAIN q
           /\ \A i \in DOMAIN q : Append(q, r)[i] = q[i] /\ i \in Nat /\ i < Len(q) + 1
           /\ Append(q, r)[Len(q) + 1] = r
OBVIOUS

LEMMA RemovedRequest ==
    ASSUME NEW q \in Seq(Request), q # <<>>
    PROVE  /\ Head(q) = q[1] /\ 1 \in DOMAIN q
           /\ Tail(q) \in Seq(Request)
           /\ \A i \in DOMAIN Tail(q) : Tail(q)[i] = q[i + 1] /\ i + 1 \in DOMAIN q /\ i \in Nat /\ i > 0
           /\ \A i \in DOMAIN q : i # 1 => i - 1 \in DOMAIN Tail(q)
           /\ DOMAIN q \subseteq Nat
OBVIOUS

-----------------------------------------------------------------------------
(* The ways in which a step moves tasks, the flag and the queue; each step *)
(* of a task is one of them.                                               *)

(* A task begins, decides, waits or is done, and asks the rig for nothing. *)
Rests == /\ pc' \in [Tasks -> Places]
         /\ \A t \in Tasks : pc'[t] = pc[t] \/ (pc[t] \in AtRest /\ pc'[t] \in AtRest)
         /\ UNCHANGED <<tx_burst_active, queue, ptt, unheard>>

(* A task asks for PTT-off and is in a burst as much as before.            *)
AsksOff(t) ==
    /\ pc[t] \in {"busy", "playing"}
    /\ pc' = [pc EXCEPT ![t] = IF pc[t] = "busy" THEN "off" ELSE "unkeying"]
    /\ queue' = Ask(t, FALSE)
    /\ UNCHANGED <<tx_burst_active, ptt, unheard>>

(* A task takes the flag and asks for PTT-on.                              *)
AsksOn(t) ==
    /\ pc[t] \in AtRest
    /\ ~tx_burst_active /\ tx_burst_active' = TRUE
    /\ pc' = [pc EXCEPT ![t] = "keying"]
    /\ queue' = Ask(t, TRUE)
    /\ UNCHANGED <<ptt, unheard>>

(* A loop asks for PTT-off, or nobody.                                     *)
OtherAsks ==
    /\ queue' \in {queue} \cup {Ask(o, FALSE) : o \in Others}
    /\ UNCHANGED <<pc, tx_burst_active, ptt, unheard>>

LEMMA RestsKeepsBursts ==
    ASSUME TypeOK, BurstInv, Rests PROVE BurstInv'
<1>1. \A t \in Tasks : /\ pc'[t] \in InBurst <=> pc[t] \in InBurst
                       /\ pc'[t] = "playing" <=> pc[t] = "playing"
                       /\ pc'[t] = "forcing" <=> pc[t] = "forcing"
                       /\ pc[t] \in Asking => pc'[t] = pc[t]
  BY DEF Rests, AtRest, InBurst, Asking
<1>2. OneBurst'
  BY <1>1 DEF BurstInv, OneBurst, Rests
<1>3. \A i \in DOMAIN queue : Aborting(queue[i], pc') <=> Aborting(queue[i], pc)
  BY <1>1 DEF Aborting, Rests
<1>4. RequestsMatch'
  BY <1>1 DEF BurstInv, RequestsMatch, Rests, Asking
<1>5. AbortsFirst'
  BY <1>1, <1>3 DEF BurstInv, AbortsFirst, Rests
<1>6. PttIsAccountedFor'
  BY DEF BurstInv, PttIsAccountedFor, Rests
<1> QED BY <1>2, <1>4, <1>5, <1>6 DEF BurstInv

LEMMA AsksOffKeepsBursts ==
    ASSUME TypeOK, BurstInv, NEW t \in Tasks, AsksOff(t) PROVE BurstInv'
<1>. DEFINE r == [by |-> t, on |-> FALSE]
            n == Len(queue) + 1
<1>1. r \in Request /\ queue \in Seq(Request) /\ queue' = Append(queue, r)
  BY DEF Request, TypeOK, AsksOff, Ask
<1>2. /\ DOMAIN queue' = DOMAIN queue \cup {n} /\ n \notin DOMAIN queue
      /\ \A i \in DOMAIN queue : queue'[i] = queue[i] /\ i \in Nat /\ i < n
      /\ queue'[n] = r
  <2> HIDE DEF r
  <2> QED BY <1>1, AppendedRequest
<1>3. /\ pc'[t] \in {"off", "unkeying"}
      /\ \A u \in Tasks \ {t} : pc'[u] = pc[u]
      /\ pc'[t] \in InBurst <=> pc[t] \in InBurst
  BY DEF AsksOff, TypeOK, InBurst
<1>4. \A i \in DOMAIN queue : queue[i].by # t
  BY DEF BurstInv, RequestsMatch, AsksOff, Asking
<1>5. OneBurst'
  BY <1>3 DEF BurstInv, OneBurst, AsksOff
<1>6. RequestsMatch'
  BY <1>2, <1>3, <1>4 DEF BurstInv, RequestsMatch, Asking
<1>7. /\ \A i \in DOMAIN queue : Aborting(queue[i], pc') <=> Aborting(queue[i], pc)
      /\ ~Aborting(r, pc')
  BY <1>2, <1>3, <1>4 DEF Aborting
<1>8. AbortsFirst'
  BY <1>2, <1>3, <1>7 DEF BurstInv, AbortsFirst, Aborting
<1>9. PttIsAccountedFor'
  BY <1>2 DEF PttIsAccountedFor
<1> QED BY <1>5, <1>6, <1>8, <1>9 DEF BurstInv

LEMMA AsksOnKeepsBursts ==
    ASSUME TypeOK, BurstInv, NEW t \in Tasks, AsksOn(t) PROVE BurstInv'
<1>. DEFINE r == [by |-> t, on |-> TRUE]
            n == Len(queue) + 1
<1>1. r \in Request /\ queue \in Seq(Request) /\ queue' = Append(queue, r)
  BY DEF Request, TypeOK, AsksOn, Ask
<1>2. /\ DOMAIN queue' = DOMAIN queue \cup {n} /\ n \notin DOMAIN queue
      /\ \A i \in DOMAIN queue : queue'[i] = queue[i] /\ i \in Nat /\ i < n
      /\ queue'[n] = r
  <2> HIDE DEF r
  <2> QED BY <1>1, AppendedRequest
<1>3. /\ pc'[t] = "keying"
      /\ \A u \in Tasks \ {t} : pc'[u] = pc[u]
      /\ \A u \in Tasks : pc[u] \notin InBurst
  BY DEF AsksOn, TypeOK, BurstInv, OneBurst
<1>4. \A i \in DOMAIN queue : queue[i].by # t /\ ~queue[i].on
  BY <1>3 DEF BurstInv, RequestsMatch, AsksOn, AtRest, Asking, InBurst
<1>5. OneBurst'
  BY <1>3 DEF OneBurst, AsksOn, InBurst
<1>6. RequestsMatch'
  BY <1>2, <1>3, <1>4 DEF BurstInv, RequestsMatch, Asking
<1>7. ~Aborting(r, pc')
  BY <1>3 DEF Aborting
<1>8. AbortsFirst'
  BY <1>2, <1>3, <1>4, <1>7 DEF AbortsFirst, Aborting, InBurst
<1>9. PttIsAccountedFor'
  BY DEF PttIsAccountedFor, AsksOn
<1> QED BY <1>5, <1>6, <1>8, <1>9 DEF BurstInv

LEMMA OtherAsksKeepsBursts ==
    ASSUME TypeOK, BurstInv, OtherAsks PROVE BurstInv'
<1>1. CASE queue' = queue
  BY <1>1 DEF BurstInv, OtherAsks, OneBurst, RequestsMatch, AbortsFirst, Aborting, PttIsAccountedFor
<1>2. CASE \E o \in Others : queue' = Ask(o, FALSE)
  <2>1. PICK o \in Others : queue' = Ask(o, FALSE)
    BY <1>2
  <2>. DEFINE r == [by |-> o, on |-> FALSE]
              n == Len(queue) + 1
  <2>2. r \in Request /\ queue \in Seq(Request) /\ queue' = Append(queue, r) /\ o \notin Tasks
    BY <2>1, TasksAreNotOthers DEF Request, TypeOK, Ask
  <2>3. /\ DOMAIN queue' = DOMAIN queue \cup {n} /\ n \notin DOMAIN queue
        /\ \A i \in DOMAIN queue : queue'[i] = queue[i] /\ i \in Nat /\ i < n
        /\ queue'[n] = r
    <3> HIDE DEF r
    <3> QED BY <2>2, AppendedRequest
  <2>4. OneBurst'
    BY DEF BurstInv, OneBurst, OtherAsks
  <2>5. RequestsMatch'
    BY <2>2, <2>3 DEF BurstInv, RequestsMatch, OtherAsks
  <2>6. /\ ~Aborting(r, pc')
        /\ \A i \in DOMAIN queue : Aborting(queue[i], pc') <=> Aborting(queue[i], pc)
    BY <2>2, <2>3 DEF Aborting, OtherAsks
  <2>7. AbortsFirst'
    BY <2>2, <2>3, <2>6 DEF BurstInv, AbortsFirst, OtherAsks, Aborting
  <2>8. PttIsAccountedFor'
    BY <2>3 DEF PttIsAccountedFor
  <2> QED BY <2>4, <2>5, <2>7, <2>8 DEF BurstInv
<1> QED BY <1>1, <1>2 DEF OtherAsks
-----------------------------------------------------------------------------
(* Types.                                                                  *)

Plan == Seq({"off"} \cup Kinds)

(* What the tasks may change.                                              *)
TasksOK ==
    /\ pc \in [Tasks -> Places]
    /\ plan \in [Tasks -> Plan]
    /\ \A t \in Tasks : pc[t] \in {"busy", "wait"} => plan[t] # <<>>
    /\ in_late_ingest \in BOOLEAN

LEMMA AskType ==
    ASSUME TypeOK, NEW by \in Tasks \cup Others, NEW on \in BOOLEAN
    PROVE  Ask(by, on) \in Seq(Request)
BY DEF TypeOK, Ask, Request

LEMMA AwaitType ==
    ASSUME TypeOK, NEW t \in Tasks, NEW place \in Places, NEW rest \in Plan,
           place \in {"busy", "wait"} => rest # <<>>, Await(t, place, rest)
    PROVE  TasksOK'
BY DEF TypeOK, TasksOK, Await, Plan

LEMMA FinishType ==
    ASSUME TypeOK, NEW t \in Tasks, NEW rest \in Plan, Finish(t, rest)
    PROVE  TasksOK'
<1>1. /\ pc' \in [Tasks -> Places] /\ plan' \in [Tasks -> Plan]
      /\ \A u \in Tasks : pc'[u] \in {"busy", "wait"} => plan'[u] # <<>>
  BY DEF TypeOK, Finish, Plan, Places
<1>2. in_late_ingest' \in BOOLEAN
  BY Zenon DEF Finish
<1> QED BY <1>1, <1>2 DEF TasksOK

(* The states a handler may leave the machine in.                          *)
LEMMA StationsKnown ==
    /\ \A x \in {"stopped", "idle", "locked"}, q \in Partners \cup {None} :
           [state |-> x, qso |-> q] \in Stations
    /\ \A s \in Stations : /\ s.qso \in Partners \cup {None}
                           /\ \A x \in {"stopped", "idle", "locked"} :
                                  [s EXCEPT !.state = x] \in Stations
BY DEF Stations

LEMMA DecisionType ==
    ASSUME NEW s \in Stations, NEW d \in Decisions(s)
    PROVE  d[1] \in Stations /\ d[2] \in Plan
<1>1. /\ <<"off">> \in Plan
      /\ \A p \in Plans : p \in Plan
  BY PlansAreSequences, ShortSequences DEF Plan
<1> DEFINE Locked == {[state |-> "locked", qso |-> q] : q \in {None, s.qso}}
           Silent == {p \in {<<"off">>} \cup Plans : Elements(p) = {"off"}}
<1>2. Locked \subseteq Stations /\ Silent \subseteq Plan
  BY <1>1, StationsKnown
<1>3. d \in Stations \X Plans \/ d \in Locked \X Silent
  BY DEF Decisions
<1> HIDE DEF Locked, Silent
<1> QED BY <1>1, <1>2, <1>3

LEMMA DecideType ==
    ASSUME TypeOK, NEW t \in Tasks, NEW s \in Stations, Decide(t, s)
    PROVE  /\ sm' \in Stations
           /\ pc' \in [Tasks -> Places] /\ plan' \in [Tasks -> Plan]
           /\ \A u \in Tasks : pc'[u] \in {"busy", "wait"} => plan'[u] # <<>>
<1>1. PICK d \in Decisions(s) :
          /\ sm' = d[1]
          /\ plan' = [plan EXCEPT ![t] = d[2]]
          /\ pc' = [pc EXCEPT ![t] = IF d[2] = <<>> THEN "idle" ELSE "busy"]
  BY DEF Decide
<1>2. d[1] \in Stations /\ d[2] \in Plan
  BY DecisionType
<1> QED BY <1>1, <1>2 DEF TypeOK, Places, Plan

LEMMA PutOffType ==
    ASSUME TypeOK, NEW t \in Tasks, NEW kind, NEW current \in Deferred \cup {None},
           NEW overruled \in BOOLEAN, PutOff(t, kind, current, overruled)
    PROVE  /\ aufgeschoben' \in Deferred \cup {None} /\ ueberholt' \in BOOLEAN
           /\ aufgeschoben' # None => aufgeschoben' = current \/ aufgeschoben'.due = 2
<1>1. [kind |-> "closing", partner |-> None, due |-> 2] \in Deferred
  BY DEF Deferred
<1>2. sm.qso # None => [kind |-> "report", partner |-> sm.qso, due |-> 2] \in Deferred
  <2>1. sm \in Stations
    BY DEF TypeOK
  <2>2. sm.qso \in Partners \cup {None}
    BY <2>1, StationsKnown
  <2> QED BY <2>2 DEF Deferred
<1>3. kind \in Aufschiebbar => kind = "report" \/ kind = "closing"
  BY DEF Aufschiebbar
<1>4. CASE ~(kind \in Aufschiebbar /\ t # "deferred")
  <2>1. aufgeschoben' = current /\ ueberholt' = overruled
    BY <1>4, Zenon DEF PutOff
  <2> QED BY <2>1
<1>5. CASE kind = "closing" /\ kind \in Aufschiebbar /\ t # "deferred"
  <2>1. /\ aufgeschoben' = [kind |-> kind, partner |-> None, due |-> 2]
        /\ ueberholt' = FALSE
    BY <1>5, Zenon DEF PutOff
  <2> QED BY <1>1, <1>5, <2>1
<1>6. CASE kind # "closing" /\ kind \in Aufschiebbar /\ t # "deferred"
  <2>1. /\ aufgeschoben' = IF sm.qso # None THEN [kind |-> "report", partner |-> sm.qso, due |-> 2] ELSE None
        /\ ueberholt' = FALSE
    BY <1>3, <1>6 DEF PutOff
  <2>2. CASE sm.qso # None
    BY <1>2, <2>1, <2>2
  <2>3. CASE sm.qso = None
    BY <2>1, <2>3
  <2> QED BY <2>2, <2>3
<1> QED BY <1>4, <1>5, <1>6

LEMMA AttemptType ==
    ASSUME TypeOK, NEW t \in Tasks, NEW p \in Plan, p # <<>>,
           NEW current \in Deferred \cup {None}, NEW overruled \in BOOLEAN,
           Attempt(t, p, current, overruled)
    PROVE  /\ TasksOK'
           /\ aufgeschoben' \in Deferred \cup {None} /\ ueberholt' \in BOOLEAN
           /\ aufgeschoben' # None => aufgeschoben' = current \/ aufgeschoben'.due = 2
           /\ tx_burst_active' \in BOOLEAN /\ sent' \in BOOLEAN
           /\ queue' \in Seq(Request)
<1>1. Tail(p) \in Plan
  BY RestOfPlan DEF Plan
<1>2. CASE /\ PutOff(t, Head(p), current, overruled)
           /\ Finish(t, Tail(p))
           /\ UNCHANGED <<tx_burst_active, sent, queue>>
  BY <1>1, <1>2, FinishType, PutOffType DEF TypeOK
<1>3. CASE /\ aufgeschoben' = current /\ ueberholt' = overruled /\ sent' = TRUE
           /\ Finish(t, Tail(p))
           /\ UNCHANGED <<tx_burst_active, queue>>
  BY <1>1, <1>3, FinishType DEF TypeOK
<1>4. CASE /\ aufgeschoben' = current /\ ueberholt' = overruled /\ sent' = TRUE
           /\ tx_burst_active' = TRUE
           /\ queue' = Ask(t, TRUE)
           /\ Await(t, "keying", Tail(p))
  <2>1. TasksOK'
    BY <1>1, <1>4, AwaitType DEF Places
  <2>2. queue' \in Seq(Request)
    BY <1>4, AskType
  <2> QED BY <1>4, <2>1, <2>2
<1> QED BY <1>2, <1>3, <1>4 DEF Attempt

TypeInv == TypeOK /\ DueAtStart

LEMMA TypeParts ==
    TypeOK <=> /\ TasksOK
               /\ phase \in Phases
               /\ sm \in Stations
               /\ tx_burst_active \in BOOLEAN
               /\ aufgeschoben \in Deferred \cup {None}
               /\ sent \in BOOLEAN
               /\ queue \in Seq(Request)
               /\ ptt \in BOOLEAN /\ unheard \in BOOLEAN
               /\ ptt_on_since \in {"off", "new", "old"}
               /\ boot_ptt_checked \in BOOLEAN
               /\ ueberholt \in BOOLEAN
BY DEF TypeOK, TasksOK, Stations, Plan

LEMMA NextType ==
    ASSUME TasksOK', phase' \in Phases, sm' \in Stations, tx_burst_active' \in BOOLEAN,
           aufgeschoben' \in Deferred \cup {None}, sent' \in BOOLEAN,
           queue' \in Seq(Request), ptt' \in BOOLEAN, unheard' \in BOOLEAN,
           ptt_on_since' \in {"off", "new", "old"}, boot_ptt_checked' \in BOOLEAN,
           ueberholt' \in BOOLEAN
    PROVE  TypeOK'
BY DEF TypeOK, TasksOK, Stations, Plan

LEMMA BootOffType == BootOff \in Seq(Request) /\ <<>> \in Seq(Request)
<1>1. [by |-> "boot", on |-> FALSE] \in Request
  BY DEF Request, Others
<1> QED BY <1>1, ShortSequences DEF BootOff

LEMMA PlanAtRest == [t \in Tasks |-> <<>>] \in [Tasks -> Plan]
BY ShortSequences DEF Plan

LEMMA InitType == Init => TypeInv
<1> SUFFICES ASSUME Init PROVE TypeInv
  OBVIOUS
<1>1. TasksOK
  BY PlanAtRest DEF Init, TasksOK, Places
<1>2. queue \in Seq(Request)
  BY BootOffType DEF Init
<1>3. unheard \in BOOLEAN
  BY Zenon DEF Init
<1>4. aufgeschoben = None /\ None \notin Deferred
  BY EngineAssumption DEF Init
<1> QED BY <1>1, <1>2, <1>3, <1>4, StationsKnown, TypeParts DEF Init, NoQso, TypeInv, DueAtStart, Phases

LEMMA CrashType == TypeInv /\ Crash => TypeInv'
<1> SUFFICES ASSUME TypeInv, Crash PROVE TypeInv'
  OBVIOUS
<1>1. TasksOK'
  BY PlanAtRest DEF Crash, TasksOK, Places
<1>2. queue' \in Seq(Request)
  BY BootOffType DEF Crash
<1>3. ptt' \in BOOLEAN
  <2>1. ptt \in BOOLEAN /\ \A i \in DOMAIN queue : queue[i].on \in BOOLEAN
    <3>1. \A i \in DOMAIN queue : queue[i] \in Request
      BY DEF TypeInv, TypeOK
    <3> QED BY <3>1 DEF Request, TypeInv, TypeOK
  <2> QED BY <2>1, Zenon DEF Crash
<1>4. unheard' \in BOOLEAN
  BY Zenon DEF Crash
<1> QED BY <1>1, <1>2, <1>3, <1>4, StationsKnown, TypeParts, NextType
   DEF Crash, NoQso, TypeInv, TypeOK, DueAtStart

(* Steps that only decide.                                                 *)
LEMMA DecidingType ==
    ASSUME TypeInv,
           \/ SlotDecides \/ PreDecides \/ \E t \in Lates : LateDecides(t)
           \/ \E t \in Users : UserStarts(t)
    PROVE  TypeInv'
<1>1. TypeOK /\ sm \in Stations /\ [sm EXCEPT !.state = "idle"] \in Stations
  BY StationsKnown DEF TypeInv, TypeOK
<1>2. \E t \in Tasks, s \in Stations : Decide(t, s)
  BY <1>1, DeferredIsNoLateStage DEF SlotDecides, PreDecides, LateDecides, UserStarts, Tasks
<1>3. /\ sm' \in Stations
      /\ pc' \in [Tasks -> Places] /\ plan' \in [Tasks -> Plan]
      /\ \A u \in Tasks : pc'[u] \in {"busy", "wait"} => plan'[u] # <<>>
  BY <1>1, <1>2, DecideType
<1>4. in_late_ingest' \in BOOLEAN
  <2>1. CASE \E t \in Lates : LateDecides(t)
    BY <2>1, Zenon DEF LateDecides
  <2>2. CASE SlotDecides \/ PreDecides \/ \E t \in Users : UserStarts(t)
    BY <2>2, <1>1 DEF SlotDecides, PreDecides, UserStarts, flags, TypeOK
  <2> QED BY <2>1, <2>2
<1>5. UNCHANGED <<phase, tx_burst_active, reply, sent, rig, polling>>
  BY DEF SlotDecides, PreDecides, LateDecides, UserStarts, flags
<1>6. TypeOK'
  BY <1>1, <1>3, <1>4, <1>5, TypeParts, NextType DEF TypeOK, TasksOK, reply, rig, polling
<1> QED BY <1>5, <1>6 DEF TypeInv, DueAtStart, reply

LEMMA RequestsType ==
    ASSUME TypeInv, NEW t \in Users, UserStops(t) \/ UserSkipsQso(t)
    PROVE  TypeInv'
<1>1. /\ t \in Tasks /\ TypeOK
      /\ {<<"off">>, <<"off", "off">>} \subseteq Plan
      /\ <<"off">> # <<>> /\ <<"off", "off">> # <<>>
  BY ShortSequences DEF TypeInv, Tasks, Plan
<1>2. /\ sm' \in Stations
      /\ pc' = [pc EXCEPT ![t] = "busy"]
      /\ \E p \in {<<"off">>, <<"off", "off">>} : plan' = [plan EXCEPT ![t] = p]
      /\ UNCHANGED <<phase, flags, sent, rig, polling>>
      /\ (ueberholt' = Overtaken /\ aufgeschoben' = None) \/ UNCHANGED reply
  <2>1. CASE UserStops(t)
    BY <2>1, StationsKnown DEF UserStops, Requests, NoQso
  <2>2. CASE UserSkipsQso(t)
    BY <2>2, StationsKnown DEF UserSkipsQso, Requests, NoQso
  <2> QED BY <2>1, <2>2
<1>3. TasksOK'
  BY <1>1, <1>2, TypeParts, NextType DEF TasksOK, Places, flags
<1>4. Overtaken \in BOOLEAN
  BY Zenon DEF Overtaken
<1>5. TypeOK'
  BY <1>1, <1>2, <1>3, <1>4, TypeParts, NextType DEF TypeOK, flags, reply, rig, polling
<1> QED BY <1>2, <1>5 DEF TypeInv, DueAtStart, reply

LEMMA StopTxType == \A t \in Tasks : TypeInv /\ StopTx(t) => TypeInv'
<1> SUFFICES ASSUME NEW t \in Tasks, TypeInv, StopTx(t) PROVE TypeInv'
  OBVIOUS
<1>1. TypeOK /\ plan[t] \in Plan /\ plan[t] # <<>>
  BY DEF TypeInv, TypeOK, StopTx, Plan
<1>2. Tail(plan[t]) \in Plan
  BY <1>1, RestOfPlan DEF Plan
<1>3. TasksOK'
  BY <1>1, <1>2, AwaitType DEF StopTx, Places
<1>4. queue' \in Seq(Request)
  BY <1>1, AskType DEF StopTx
<1> QED BY <1>1, <1>3, <1>4, TypeParts, NextType DEF TypeInv, DueAtStart, TypeOK, StopTx, reply, polling

LEMMA PlayEndsType == \A t \in Tasks : TypeInv /\ PlayEnds(t) => TypeInv'
<1> SUFFICES ASSUME NEW t \in Tasks, TypeInv, PlayEnds(t) PROVE TypeInv'
  OBVIOUS
<1>1. TypeOK /\ plan[t] \in Plan
  BY DEF TypeInv, TypeOK, Plan
<1>2. TasksOK'
  BY <1>1, AwaitType DEF PlayEnds, Places
<1>3. queue' \in Seq(Request)
  BY <1>1, AskType DEF PlayEnds
<1> QED BY <1>1, <1>2, <1>3, TypeParts, NextType DEF TypeInv, DueAtStart, TypeOK, PlayEnds, reply, polling

LEMMA TransmitType == \A t \in Tasks : TypeInv /\ Transmit(t) => TypeInv'
<1> SUFFICES ASSUME NEW t \in Tasks, TypeInv, Transmit(t) PROVE TypeInv'
  OBVIOUS
<1>1. TypeOK /\ plan[t] \in Plan /\ plan[t] # <<>>
  BY DEF TypeInv, TypeOK, Transmit, Plan
<1>2. Overtaken \in BOOLEAN
  BY Zenon DEF Overtaken
<1>3. CASE /\ Await(t, "wait", plan[t])
           /\ aufgeschoben' = None /\ ueberholt' = Overtaken
           /\ UNCHANGED <<tx_burst_active, sent, queue>>
  <2>1. TasksOK'
    BY <1>1, <1>3, AwaitType DEF Places
  <2> QED BY <1>1, <1>2, <1>3, <2>1, TypeParts, NextType DEF TypeInv, DueAtStart, TypeOK, Transmit, polling
<1>4. CASE Attempt(t, plan[t], None, Overtaken)
  <2>1. /\ TasksOK'
        /\ aufgeschoben' \in Deferred \cup {None} /\ ueberholt' \in BOOLEAN
        /\ aufgeschoben' # None => aufgeschoben' = None \/ aufgeschoben'.due = 2
        /\ tx_burst_active' \in BOOLEAN /\ sent' \in BOOLEAN
        /\ queue' \in Seq(Request)
    BY <1>1, <1>2, <1>4, AttemptType
  <2> QED BY <1>1, <2>1, TypeParts, NextType DEF TypeInv, DueAtStart, TypeOK, Transmit, polling
<1> QED BY <1>3, <1>4 DEF Transmit

LEMMA BoundaryReachedType == \A t \in Tasks : TypeInv /\ BoundaryReached(t) => TypeInv'
<1> SUFFICES ASSUME NEW t \in Tasks, TypeInv, BoundaryReached(t) PROVE TypeInv'
  OBVIOUS
<1>1. /\ TypeOK /\ plan[t] \in Plan /\ plan[t] # <<>>
      /\ aufgeschoben \in Deferred \cup {None} /\ ueberholt \in BOOLEAN
  BY DEF TypeInv, TypeOK, BoundaryReached, Plan
<1>2. /\ TasksOK'
      /\ aufgeschoben' \in Deferred \cup {None} /\ ueberholt' \in BOOLEAN
      /\ aufgeschoben' # None => aufgeschoben' = aufgeschoben \/ aufgeschoben'.due = 2
      /\ tx_burst_active' \in BOOLEAN /\ sent' \in BOOLEAN
      /\ queue' \in Seq(Request)
  BY <1>1, AttemptType DEF BoundaryReached
<1> QED BY <1>1, <1>2, TypeParts, NextType DEF TypeInv, DueAtStart, TypeOK, BoundaryReached, polling

LEMMA SendeAufgeschobenType == TypeInv /\ SendeAufgeschoben => TypeInv'
<1> SUFFICES ASSUME TypeInv, SendeAufgeschoben PROVE TypeInv'
  OBVIOUS
<1>1. /\ TypeOK /\ TasksOK /\ aufgeschoben \in Deferred /\ ueberholt \in BOOLEAN
  BY TypeParts, NextType DEF TypeInv, TypeOK, SendeAufgeschoben, Due
<1>2. CASE /\ aufgeschoben' = None
           /\ UNCHANGED <<tasks, flags, sent, queue, ueberholt>>
  BY <1>1, <1>2, TypeParts, NextType
  DEF TypeInv, DueAtStart, TypeOK, SendeAufgeschoben, polling, tasks, flags, TasksOK
<1>3. CASE Attempt("deferred", <<aufgeschoben.kind>>, None, ueberholt)
  <2>1. <<aufgeschoben.kind>> \in Plan /\ <<aufgeschoben.kind>> # <<>>
    <3>1. aufgeschoben.kind \in {"off"} \cup Kinds
      BY <1>1 DEF Deferred, Kinds
    <3> QED BY <3>1, ShortSequences DEF Plan
  <2>2. /\ TasksOK'
        /\ aufgeschoben' \in Deferred \cup {None} /\ ueberholt' \in BOOLEAN
        /\ aufgeschoben' # None => aufgeschoben' = None \/ aufgeschoben'.due = 2
        /\ tx_burst_active' \in BOOLEAN /\ sent' \in BOOLEAN
        /\ queue' \in Seq(Request)
    BY <1>1, <1>3, <2>1, AttemptType, DeferredIsNoLateStage
  <2> QED BY <1>1, <2>2, TypeParts, NextType DEF TypeInv, DueAtStart, TypeOK, SendeAufgeschoben, polling
<1> QED BY <1>2, <1>3 DEF SendeAufgeschoben

(* What RigAnswers comes to, by who has asked.                             *)
LEMMA AnswerCases ==
    ASSUME TypeOK, NEW done \in BOOLEAN, NEW ok \in BOOLEAN, RigAnswers(done, ok)
    PROVE  /\ queue # <<>> /\ Head(queue) \in Request /\ Tail(queue) \in Seq(Request)
           /\ Head(queue).by \in Tasks \cup Others /\ Head(queue).on \in BOOLEAN
           /\ \/ \E t \in Tasks : Keyed(t, ok) \/ Unkeyed(t)
              \/ OtherOff
<1>1. queue # <<>> /\ queue \in Seq(Request)
  BY DEF RigAnswers, TypeOK
<1>2. Head(queue) \in Request /\ Tail(queue) \in Seq(Request)
  BY <1>1, RestOfPlan
<1> QED BY <1>1, <1>2 DEF RigAnswers, Request

LEMMA KeyedType ==
    ASSUME TypeOK, Tail(queue) \in Seq(Request), NEW ok \in BOOLEAN,
           NEW t \in Tasks, Keyed(t, ok)
    PROVE  /\ TasksOK' /\ tx_burst_active' \in BOOLEAN /\ queue' \in Seq(Request)
           /\ ptt_on_since' = ptt_on_since
<1>1. plan[t] \in Plan
  BY DEF TypeOK, Plan
<1>2. CASE ok
  BY <1>1, <1>2, AwaitType DEF Keyed, Places, TypeOK
<1>3. CASE ~ok
  <2>1. [by |-> t, on |-> FALSE] \in Request
    BY DEF Request
  <2>2. Append(Tail(queue), [by |-> t, on |-> FALSE]) \in Seq(Request)
    BY <2>1, AppendedRequest
  <2>3. /\ Await(t, "forcing", plan[t])
        /\ tx_burst_active' = FALSE
        /\ queue' = Append(Tail(queue), [by |-> t, on |-> FALSE])
        /\ UNCHANGED ptt_on_since
    BY <1>3 DEF Keyed
  <2>4. TasksOK'
    BY <1>1, <2>3, AwaitType DEF Places
  <2> QED BY <2>2, <2>3, <2>4
<1> QED BY <1>2, <1>3

LEMMA UnkeyedType ==
    ASSUME TypeOK, Tail(queue) \in Seq(Request), NEW t \in Tasks, Unkeyed(t)
    PROVE  /\ TasksOK' /\ tx_burst_active' \in BOOLEAN /\ queue' \in Seq(Request)
           /\ ptt_on_since' = ptt_on_since
<1>1. plan[t] \in Plan
  BY DEF TypeOK, Plan
<1>2. TasksOK'
  BY <1>1, FinishType DEF Unkeyed
<1>3. tx_burst_active' \in BOOLEAN
  BY Zenon DEF Unkeyed
<1> QED BY <1>2, <1>3 DEF Unkeyed

LEMMA RigAnswersType ==
    ASSUME TypeInv, NEW done \in BOOLEAN, NEW ok \in BOOLEAN, RigAnswers(done, ok)
    PROVE  TypeInv'
<1>1. /\ TypeOK /\ TasksOK /\ Tail(queue) \in Seq(Request) /\ Head(queue).on \in BOOLEAN
      /\ \/ \E t \in Tasks : Keyed(t, ok) \/ Unkeyed(t)
         \/ OtherOff
  BY AnswerCases, TypeParts DEF TypeInv
<1>2. /\ TasksOK' /\ tx_burst_active' \in BOOLEAN /\ queue' \in Seq(Request)
      /\ ptt_on_since' \in {"off", "new", "old"}
  <2>1. CASE \E t \in Tasks : Keyed(t, ok)
    BY <1>1, <2>1, KeyedType DEF TypeOK
  <2>2. CASE \E t \in Tasks : Unkeyed(t)
    BY <1>1, <2>2, UnkeyedType DEF TypeOK
  <2>3. CASE OtherOff
    BY <1>1, <2>3 DEF OtherOff, TypeOK, TasksOK, tasks, flags
  <2> QED BY <1>1, <2>1, <2>2, <2>3
<1>3. ptt' \in BOOLEAN
  BY <1>1 DEF RigAnswers, TypeOK
<1>4. unheard' \in BOOLEAN
  BY Zenon DEF RigAnswers
<1>5. UNCHANGED <<phase, sm, reply, sent, boot_ptt_checked>>
  BY DEF RigAnswers
<1>6. TypeOK'
  BY <1>1, <1>2, <1>3, <1>4, <1>5, NextType DEF TypeOK, Stations, reply
<1> QED BY <1>5, <1>6 DEF TypeInv, DueAtStart, reply

(* The loops and the clock.                                                *)
LEMMA LoopsType ==
    ASSUME TypeInv, UserResetsLock \/ Poll \/ WatchdogFires \/ SwrRunaway
    PROVE  TypeInv'
<1>1. TypeOK /\ TasksOK /\ "poll" \in Others /\ "watchdog" \in Others /\ "swr" \in Others
  BY TypeParts DEF TypeInv, Others
<1>2. CASE UserResetsLock
  BY <1>1, <1>2, NextType
  DEF UserResetsLock, TypeInv, TypeOK, TasksOK, DueAtStart, Stations, tasks, flags, reply, rig, polling
<1>3. CASE Poll
  <2>1. queue' \in Seq(Request)
    BY <1>1, <1>3, AskType DEF Poll, TypeOK
  <2>2. ptt_on_since' \in {"off", "new", "old"}
    BY <1>1, <1>3 DEF Poll, TypeOK
  <2> QED BY <1>1, <1>3, <2>1, <2>2, NextType
      DEF Poll, TypeInv, TypeOK, TasksOK, DueAtStart, Stations, tasks, flags, reply
<1>4. CASE WatchdogFires
  <2>1. queue' \in Seq(Request)
    BY <1>1, <1>4, AskType DEF WatchdogFires
  <2> QED BY <1>1, <1>4, <2>1, NextType
      DEF WatchdogFires, TypeInv, TypeOK, TasksOK, DueAtStart, Stations, tasks, flags, reply, polling
<1>5. CASE SwrRunaway
  <2>1. queue' \in Seq(Request)
    BY <1>1, <1>5, AskType DEF SwrRunaway
  <2> QED BY <1>1, <1>5, <2>1, NextType
      DEF SwrRunaway, TypeInv, TypeOK, TasksOK, DueAtStart, Stations, tasks, flags, reply, polling
<1> QED BY <1>2, <1>3, <1>4, <1>5

LEMMA PhasePassesType == TypeInv /\ PhasePasses => TypeInv'
<1> SUFFICES ASSUME TypeInv, PhasePasses PROVE TypeInv'
  OBVIOUS
<1>1. /\ TypeOK /\ phase' \in Phases
      /\ UNCHANGED <<sm, plan, flags, reply, sent, rig, polling>>
      /\ pc' = pc \/ pc' = [pc EXCEPT !["pre"] = "decode"]
  BY DEF TypeInv, PhasePasses, PreDecodes, Phases
<1>2. TasksOK'
  BY <1>1 DEF TypeOK, TasksOK, Places, Plan, flags
<1>3. TypeOK'
  BY <1>1, <1>2, NextType DEF TypeOK, Stations, flags, reply, rig, polling
<1>4. DueAtStart'
  BY <1>1 DEF TypeInv, DueAtStart, PhasePasses, Due, reply
<1> QED BY <1>3, <1>4 DEF TypeInv

LEMMA SlotBoundaryType == TypeInv /\ SlotBoundary => TypeInv'
<1> SUFFICES ASSUME TypeInv, SlotBoundary PROVE TypeInv'
  OBVIOUS
<1>1. /\ TypeOK /\ phase' = "start" /\ sent' = FALSE
      /\ UNCHANGED <<sm, plan, flags, ueberholt, rig, boot_ptt_checked>>
      /\ pc' = pc \/ pc' = [pc EXCEPT !["slot"] = "decode"]
  BY DEF TypeInv, SlotBoundary
<1>2. TasksOK'
  BY <1>1 DEF TypeOK, TasksOK, Places, Plan, flags
<1>3. aufgeschoben' \in Deferred \cup {None}
  <2>1. CASE aufgeschoben = None
    BY <2>1 DEF SlotBoundary
  <2>2. CASE aufgeschoben # None
    <3>1. aufgeschoben \in Deferred /\ aufgeschoben.due # 0
      BY <1>1, <2>2 DEF TypeInv, DueAtStart, TypeOK, SlotBoundary
    <3>2. \A d \in Deferred : d.due # 0 => [d EXCEPT !.due = @ - 1] \in Deferred
      BY DEF Deferred
    <3> QED BY <2>2, <3>1, <3>2 DEF SlotBoundary
  <2> QED BY <2>1, <2>2
<1>4. ptt_on_since' \in {"off", "new", "old"}
  BY <1>1 DEF SlotBoundary, TypeOK
<1>5. TypeOK'
  BY <1>1, <1>2, <1>3, <1>4, NextType DEF TypeOK, Stations, Phases, flags, rig
<1> QED BY <1>1, <1>5 DEF TypeInv, DueAtStart

LEMMA TypeInductive == TypeInv /\ [Next]_vars => TypeInv'
<1> SUFFICES ASSUME TypeInv, [Next]_vars PROVE TypeInv'
  OBVIOUS
<1>1. CASE \/ SlotDecides \/ PreDecides \/ \E t \in Lates : LateDecides(t)
           \/ \E t \in Users : UserStarts(t)
  BY <1>1, DecidingType
<1>2. CASE \E t \in Users : UserStops(t) \/ UserSkipsQso(t)
  BY <1>2, RequestsType
<1>3. CASE \E t \in Tasks : StopTx(t) \/ Transmit(t) \/ BoundaryReached(t) \/ PlayEnds(t)
  BY <1>3, StopTxType, TransmitType, BoundaryReachedType, PlayEndsType
<1>4. CASE \E done, ok \in BOOLEAN : RigAnswers(done, ok)
  BY <1>4, RigAnswersType
<1>5. CASE UserResetsLock \/ Poll \/ WatchdogFires \/ SwrRunaway
  BY <1>5, LoopsType
<1>6. CASE Crash \/ SendeAufgeschoben \/ PhasePasses \/ SlotBoundary
  BY <1>6, CrashType, SendeAufgeschobenType, PhasePassesType, SlotBoundaryType
<1>7. CASE UNCHANGED vars
  BY <1>7 DEF vars, tasks, flags, reply, rig, polling, TypeInv, TypeOK, DueAtStart
<1> QED BY <1>1, <1>2, <1>3, <1>4, <1>5, <1>6, <1>7 DEF Next

(* Every variable keeps its type, a plan waits only where an action can    *)
(* still begin, and no postponed reply outlives its boundary.              *)
THEOREM EngineTypeCorrect == Spec => []TypeOK
<1>1. TypeInv => TypeOK
  BY DEF TypeInv
<1> QED BY <1>1, InitType, TypeInductive, PTL DEF Spec

-----------------------------------------------------------------------------
(* Bursts: each step of a task, a loop or the rig.                         *)

LEMMA InitBursts == Init => BurstInv
<1> SUFFICES ASSUME Init PROVE BurstInv
  OBVIOUS
<1>1. \A i \in DOMAIN queue : ~queue[i].on /\ queue[i].by = "boot" /\ i = 1
  BY DEF Init, BootOff
<1>2. "boot" \notin Tasks
  BY TasksAreNotOthers DEF Others
<1>3. PttIsAccountedFor
  <2>1. CASE queue = BootOff
    BY <2>1 DEF PttIsAccountedFor, BootOff
  <2>2. CASE queue = <<>>
    BY <2>2 DEF PttIsAccountedFor, Init
  <2> QED BY <2>1, <2>2 DEF Init
<1> QED BY <1>1, <1>2, <1>3
    DEF Init, BurstInv, OneBurst, InBurst, RequestsMatch, AbortsFirst, Aborting

LEMMA CrashBursts == Crash => BurstInv'
<1> SUFFICES ASSUME Crash PROVE BurstInv'
  OBVIOUS
<1>1. \A i \in DOMAIN queue' : ~queue'[i].on /\ queue'[i].by = "boot" /\ i = 1
  BY DEF Crash, BootOff
<1>2. "boot" \notin Tasks
  BY TasksAreNotOthers DEF Others
<1>3. PttIsAccountedFor'
  <2>1. CASE queue' = BootOff
    BY <2>1 DEF PttIsAccountedFor, BootOff
  <2>2. CASE queue' = <<>>
    BY <2>2 DEF PttIsAccountedFor, Crash
  <2> QED BY <2>1, <2>2 DEF Crash
<1>4. \A t \in Tasks : pc'[t] = "idle"
  BY DEF Crash
<1>5. tx_burst_active' = FALSE
  BY DEF Crash
<1> QED BY <1>1, <1>2, <1>3, <1>4, <1>5
    DEF BurstInv, OneBurst, InBurst, RequestsMatch, AbortsFirst, Aborting

(* The attempt of a task that is not in a burst.                           *)
LEMMA AttemptMoves ==
    ASSUME TypeOK, NEW t \in Tasks, pc[t] \in AtRest, NEW p, NEW current, NEW overruled,
           Attempt(t, p, current, overruled), UNCHANGED <<ptt, unheard>>, TasksOK'
    PROVE  Rests \/ AsksOn(t)
<1>1. CASE Finish(t, Tail(p)) /\ UNCHANGED <<tx_burst_active, queue>>
  <2>1. \E x \in {"idle", "busy"} : pc' = [pc EXCEPT ![t] = x]
    BY <1>1 DEF Finish
  <2> QED BY <1>1, <2>1 DEF Rests, TasksOK, TypeOK, AtRest
<1>2. CASE /\ ~tx_burst_active
           /\ tx_burst_active' = TRUE
           /\ queue' = Ask(t, TRUE)
           /\ Await(t, "keying", Tail(p))
  BY <1>2 DEF AsksOn, Await
<1> QED BY <1>1, <1>2 DEF Attempt

(* Steps that ask for nothing, and those that ask.                         *)
LEMMA TaskMoves ==
    ASSUME TypeInv, TypeInv', NEW t \in Tasks,
           StopTx(t) \/ Transmit(t) \/ BoundaryReached(t) \/ PlayEnds(t)
    PROVE  Rests \/ AsksOff(t) \/ AsksOn(t)
<1>1. TypeOK /\ TasksOK'
  BY DEF TypeInv, TypeOK, TasksOK, Plan
<1>2. CASE StopTx(t)
  BY <1>2 DEF StopTx, Await, AsksOff
<1>3. CASE PlayEnds(t)
  BY <1>3 DEF PlayEnds, Await, AsksOff
<1>4. CASE Transmit(t)
  <2>1. pc[t] \in AtRest /\ UNCHANGED <<ptt, unheard>>
    BY <1>4 DEF Transmit, AtRest
  <2>2. CASE Await(t, "wait", plan[t]) /\ UNCHANGED <<tx_burst_active, queue>>
    BY <1>1, <2>1, <2>2 DEF Await, Rests, TasksOK, TypeOK, AtRest
  <2>3. CASE Attempt(t, plan[t], None, Overtaken)
    BY <1>1, <2>1, <2>3, AttemptMoves
  <2> QED BY <1>4, <2>2, <2>3 DEF Transmit
<1>5. CASE BoundaryReached(t)
  BY <1>1, <1>5, AttemptMoves DEF BoundaryReached, AtRest
<1> QED BY <1>2, <1>3, <1>4, <1>5

LEMMA RestingMoves ==
    ASSUME TypeInv, TypeInv',
           \/ SlotDecides \/ PreDecides \/ \E t \in Lates : LateDecides(t)
           \/ \E t \in Users : UserStarts(t) \/ UserStops(t) \/ UserSkipsQso(t)
           \/ PhasePasses \/ SlotBoundary
    PROVE  Rests
<1>1. TypeOK /\ pc' \in [Tasks -> Places]
  BY DEF TypeInv, TypeOK
<1>2. /\ UNCHANGED <<tx_burst_active, queue, ptt, unheard>>
      /\ pc' = pc \/ \E t \in Tasks : /\ pc[t] \in AtRest
                                     /\ \E x \in AtRest : pc' = [pc EXCEPT ![t] = x]
  <2>. DEFINE D(t) == /\ \E s \in Stations : Decide(t, s)
                      /\ pc[t] \in AtRest /\ UNCHANGED <<tx_burst_active, rig>>
  <2>0. sm \in Stations /\ [sm EXCEPT !.state = "idle"] \in Stations
    BY <1>1, StationsKnown DEF TypeOK
  <2>1. CASE \E t \in Tasks : D(t)
    BY <2>1 DEF Decide, AtRest, rig
  <2>2. SlotDecides => D("slot")
    BY <2>0 DEF SlotDecides, AtRest, flags
  <2>3. PreDecides => D("pre")
    BY <2>0 DEF PreDecides, AtRest, flags
  <2>4. \A t \in Lates : LateDecides(t) => D(t)
    BY <2>0 DEF LateDecides, AtRest
  <2>5. \A t \in Users : UserStarts(t) => D(t)
    BY <2>0 DEF UserStarts, AtRest, flags
  <2>6. CASE \E t \in Users : UserStops(t) \/ UserSkipsQso(t)
    BY <2>6 DEF UserStops, UserSkipsQso, Requests, AtRest, flags, rig, Tasks
  <2>7. CASE PhasePasses
    BY <2>7, DeferredIsNoLateStage DEF PhasePasses, PreDecodes, AtRest, flags, rig
  <2>8. CASE SlotBoundary
    BY <2>8, DeferredIsNoLateStage DEF SlotBoundary, AtRest, flags, rig
  <2>9. Lates \subseteq Tasks /\ Users \subseteq Tasks
    BY DEF Tasks
  <2>10. CASE SlotDecides \/ PreDecides
    BY <2>1, <2>2, <2>3, <2>10, DeferredIsNoLateStage
  <2>11. CASE (\E t \in Lates : LateDecides(t)) \/ (\E t \in Users : UserStarts(t))
    BY <2>1, <2>4, <2>5, <2>9, <2>11
  <2> QED BY <2>6, <2>7, <2>8, <2>10, <2>11
<1>3. CASE pc' = pc
  BY <1>1, <1>2, <1>3 DEF Rests
<1>4. CASE \E t \in Tasks : pc[t] \in AtRest /\ \E x \in AtRest : pc' = [pc EXCEPT ![t] = x]
  BY <1>1, <1>2, <1>4 DEF Rests, TypeOK
<1> QED BY <1>2, <1>3, <1>4

LEMMA LoopMoves ==
    ASSUME TypeInv, UserResetsLock \/ Poll \/ WatchdogFires \/ SwrRunaway \/ UNCHANGED vars
    PROVE  OtherAsks
<1>1. "poll" \in Others /\ "watchdog" \in Others /\ "swr" \in Others
  BY DEF Others
<1>2. CASE Poll
  BY <1>1, <1>2 DEF Poll, OtherAsks, tasks, flags
<1>3. CASE WatchdogFires
  BY <1>1, <1>3 DEF WatchdogFires, OtherAsks, tasks, flags
<1>4. CASE SwrRunaway
  BY <1>1, <1>4 DEF SwrRunaway, OtherAsks, tasks, flags
<1>5. CASE UserResetsLock \/ UNCHANGED vars
  BY <1>5 DEF UserResetsLock, OtherAsks, vars, tasks, flags, rig
<1> QED BY <1>2, <1>3, <1>4, <1>5

LEMMA SendeAufgeschobenMoves ==
    ASSUME TypeInv, TypeInv', SendeAufgeschoben
    PROVE  Rests \/ AsksOn("deferred")
<1>1. TypeOK /\ TasksOK' /\ "deferred" \in Tasks /\ UNCHANGED <<ptt, unheard>>
  BY DeferredIsNoLateStage DEF TypeInv, TypeOK, TasksOK, Plan, SendeAufgeschoben
<1>2. CASE UNCHANGED <<tasks, flags, sent, queue, ueberholt>>
  BY <1>1, <1>2 DEF Rests, tasks, flags, TypeOK
<1>3. CASE pc["deferred"] = "idle" /\ Attempt("deferred", <<aufgeschoben.kind>>, None, ueberholt)
  BY <1>1, <1>3, AttemptMoves DEF AtRest
<1> QED BY <1>2, <1>3 DEF SendeAufgeschoben

(* The rig's answer to a request that is served first.                     *)
Served == /\ queue # <<>>
          /\ \A i \in DOMAIN queue : i \in Nat /\ i > 0
          /\ 1 \in DOMAIN queue /\ Head(queue) = queue[1]
          /\ Tail(queue) \in Seq(Request)
          /\ \A i \in DOMAIN Tail(queue) :
                Tail(queue)[i] = queue[i + 1] /\ i + 1 \in DOMAIN queue /\ i \in Nat /\ i > 0
          /\ \A i \in DOMAIN queue : i # 1 => i - 1 \in DOMAIN Tail(queue)

LEMMA HeadIsServed == TypeOK /\ queue # <<>> => Served
<1> SUFFICES ASSUME TypeOK, queue # <<>> PROVE Served
  OBVIOUS
<1>1. queue \in Seq(Request)
  BY DEF TypeOK
<1>2. \A i \in DOMAIN queue : i \in Nat /\ i > 0
  BY <1>1
<1> QED BY <1>1, <1>2, RemovedRequest DEF Served

(* A PTT-off that was carried out, or was lost and is known to be.         *)
LEMMA OffIsAccountedFor ==
    ASSUME TypeOK, NEW done \in BOOLEAN, NEW ok \in BOOLEAN, RigAnswers(done, ok),
           ~Head(queue).on
    PROVE  PttIsAccountedFor'
<1>1. CASE done
  BY <1>1 DEF RigAnswers, PttIsAccountedFor
<1>2. CASE ~done
  BY <1>2 DEF RigAnswers, PttIsAccountedFor
<1> QED BY <1>1, <1>2

LEMMA OtherOffBursts ==
    ASSUME TypeOK, BurstInv, NEW done \in BOOLEAN, NEW ok \in BOOLEAN, RigAnswers(done, ok),
           OtherOff
    PROVE  BurstInv'
<1>1. Served /\ queue' = Tail(queue) /\ UNCHANGED <<pc, tx_burst_active>>
  BY HeadIsServed DEF RigAnswers, OtherOff, tasks, flags
<1>2. ~Head(queue).on
  BY <1>1, TasksAreNotOthers DEF BurstInv, RequestsMatch, OtherOff, Served
<1>3. PttIsAccountedFor'
  BY <1>2, OffIsAccountedFor
<1>4. OneBurst'
  BY <1>1 DEF BurstInv, OneBurst
<1>5. \A i \in DOMAIN queue' : queue'[i] = queue[i + 1] /\ i + 1 \in DOMAIN queue /\ i \in Nat
  BY <1>1 DEF Served
<1>6. RequestsMatch'
  <2>1. \A i, j \in DOMAIN queue' : queue'[i].by \in Tasks /\ queue'[i].by = queue'[j].by => i = j
    <3> SUFFICES ASSUME NEW i \in DOMAIN queue', NEW j \in DOMAIN queue',
                        queue'[i].by \in Tasks, queue'[i].by = queue'[j].by
                 PROVE  i = j
      OBVIOUS
    <3>1. i + 1 = j + 1
      BY <1>5 DEF BurstInv, RequestsMatch
    <3> QED BY <1>5, <3>1
  <2>2. /\ \A i \in DOMAIN queue' : queue'[i].by \in Tasks => pc'[queue'[i].by] \in Asking
        /\ \A i \in DOMAIN queue' :
              queue'[i].on => queue'[i].by \in Tasks /\ pc'[queue'[i].by] = "keying"
    BY <1>1, <1>5 DEF BurstInv, RequestsMatch
  <2> QED BY <2>1, <2>2 DEF RequestsMatch
<1>7. \A i \in DOMAIN queue' : Aborting(queue'[i], pc') <=> Aborting(queue[i + 1], pc)
  BY <1>1, <1>5 DEF Aborting
<1>8. AbortsFirst'
  <2>1. ASSUME NEW i \in DOMAIN queue', NEW j \in DOMAIN queue', queue'[i].on, Aborting(queue'[j], pc')
        PROVE  j < i
    <3>1. j + 1 < i + 1
      BY <1>5, <1>7, <2>1 DEF BurstInv, AbortsFirst
    <3> QED BY <1>5, <3>1
  <2>2. ASSUME NEW t \in Tasks, pc'[t] = "playing", NEW j \in DOMAIN queue'
        PROVE  ~Aborting(queue'[j], pc')
    BY <1>1, <1>5, <1>7, <2>2 DEF BurstInv, AbortsFirst
  <2> QED BY <2>1, <2>2 DEF AbortsFirst, Aborting
<1> QED BY <1>3, <1>4, <1>6, <1>8 DEF BurstInv

(* The request of a task is taken off the queue and the task goes on.      *)
LEMMA AnsweredRequests ==
    ASSUME TypeOK, BurstInv, Served, NEW t \in Tasks, Head(queue).by = t,
           \A u \in Tasks \ {t} : pc'[u] = pc[u]
    PROVE  /\ \A i \in DOMAIN Tail(queue) :
                 /\ Tail(queue)[i].by # t
                 /\ Tail(queue)[i].by \in Tasks => pc'[Tail(queue)[i].by] \in Asking
                 /\ Tail(queue)[i].on => /\ Tail(queue)[i].by \in Tasks
                                         /\ pc'[Tail(queue)[i].by] = "keying"
                 /\ Aborting(Tail(queue)[i], pc') <=> Aborting(queue[i + 1], pc)
           /\ \A i, j \in DOMAIN Tail(queue) :
                 /\ Tail(queue)[i].by \in Tasks /\ Tail(queue)[i].by = Tail(queue)[j].by => i = j
                 /\ Tail(queue)[i].on /\ Aborting(Tail(queue)[j], pc') => j < i
<1>1. \A i \in DOMAIN Tail(queue) : Tail(queue)[i].by # t
  <2> SUFFICES ASSUME NEW i \in DOMAIN Tail(queue), Tail(queue)[i].by = t PROVE FALSE
    OBVIOUS
  <2>1. i + 1 = 1
    BY DEF Served, BurstInv, RequestsMatch
  <2> QED BY <2>1 DEF Served
<1>2. \A i \in DOMAIN Tail(queue) :
         /\ Tail(queue)[i].by \in Tasks => pc'[Tail(queue)[i].by] \in Asking
         /\ Tail(queue)[i].on => /\ Tail(queue)[i].by \in Tasks
                                 /\ pc'[Tail(queue)[i].by] = "keying"
         /\ Aborting(Tail(queue)[i], pc') <=> Aborting(queue[i + 1], pc)
  BY <1>1 DEF Served, BurstInv, RequestsMatch, Aborting
<1>3. ASSUME NEW i \in DOMAIN Tail(queue), NEW j \in DOMAIN Tail(queue)
      PROVE  /\ Tail(queue)[i].by \in Tasks /\ Tail(queue)[i].by = Tail(queue)[j].by => i = j
             /\ Tail(queue)[i].on /\ Aborting(Tail(queue)[j], pc') => j < i
  <2>1. /\ Tail(queue)[i] = queue[i + 1] /\ i + 1 \in DOMAIN queue /\ i \in Nat
        /\ Tail(queue)[j] = queue[j + 1] /\ j + 1 \in DOMAIN queue /\ j \in Nat
    BY DEF Served
  <2>2. queue[i + 1].by \in Tasks /\ queue[i + 1].by = queue[j + 1].by => i + 1 = j + 1
    BY <2>1 DEF BurstInv, RequestsMatch
  <2>3. queue[i + 1].on /\ Aborting(queue[j + 1], pc) => j + 1 < i + 1
    BY <2>1 DEF BurstInv, AbortsFirst
  <2> QED BY <1>2, <2>1, <2>2, <2>3
<1> QED BY <1>1, <1>2, <1>3

LEMMA KeyedBursts ==
    ASSUME TypeOK, BurstInv, NEW done \in BOOLEAN, NEW ok \in BOOLEAN, RigAnswers(done, ok),
           NEW t \in Tasks, Keyed(t, ok)
    PROVE  BurstInv'
<1>1. /\ Served /\ pc \in [Tasks -> Places] /\ pc[t] = "keying"
      /\ Head(queue).by = t /\ Head(queue).on
  BY HeadIsServed DEF RigAnswers, Keyed, TypeOK
<1>2. \A u \in Tasks \ {t} : pc[u] \notin InBurst
  BY <1>1 DEF BurstInv, OneBurst, InBurst
<1>3. tx_burst_active
  BY <1>1 DEF BurstInv, OneBurst, InBurst
<1>4. CASE ok
  <2>1. /\ pc' = [pc EXCEPT ![t] = "playing"]
        /\ queue' = Tail(queue) /\ tx_burst_active' = tx_burst_active
    BY <1>4 DEF Keyed, Await
  <2>2. pc'[t] = "playing" /\ \A u \in Tasks \ {t} : pc'[u] = pc[u]
    BY <1>1, <2>1
  <2>3. OneBurst'
    BY <1>2, <1>3, <2>1, <2>2 DEF OneBurst, InBurst
  <2>4. RequestsMatch'
    BY <1>1, <2>1, <2>2, AnsweredRequests DEF RequestsMatch
  <2>5. \A j \in DOMAIN queue' : ~Aborting(queue'[j], pc')
    <3> SUFFICES ASSUME NEW j \in DOMAIN queue', Aborting(queue'[j], pc') PROVE FALSE
      OBVIOUS
    <3>1. Aborting(queue[j + 1], pc) /\ j + 1 \in DOMAIN queue /\ j \in Nat /\ j > 0
      BY <1>1, <2>1, <2>2, AnsweredRequests DEF Served
    <3>2. j + 1 < 1
      BY <1>1, <3>1 DEF BurstInv, AbortsFirst, Served
    <3> QED BY <3>1, <3>2
  <2>6. AbortsFirst'
    BY <2>5 DEF AbortsFirst
  <2>7. PttIsAccountedFor'
    BY <1>3, <2>1 DEF PttIsAccountedFor
  <2> QED BY <2>3, <2>4, <2>6, <2>7 DEF BurstInv
<1>5. CASE ~ok
  <2>. DEFINE r == [by |-> t, on |-> FALSE]
              n == Len(Tail(queue)) + 1
  <2>1. /\ pc' = [pc EXCEPT ![t] = "forcing"]
        /\ queue' = Append(Tail(queue), r) /\ tx_burst_active' = FALSE
    BY <1>5 DEF Keyed, Await
  <2>2. pc'[t] = "forcing" /\ \A u \in Tasks \ {t} : pc'[u] = pc[u]
    BY <1>1, <2>1
  <2>3. r \in Request /\ Tail(queue) \in Seq(Request)
    BY <1>1 DEF Request, Served
  <2>4. /\ DOMAIN queue' = DOMAIN Tail(queue) \cup {n}
        /\ \A i \in DOMAIN Tail(queue) : queue'[i] = Tail(queue)[i]
        /\ queue'[n] = r
    <3> HIDE DEF r
    <3> QED BY <2>1, <2>3, AppendedRequest
  <2>5. OneBurst'
    BY <1>2, <2>1, <2>2 DEF OneBurst, InBurst
  <2>6. /\ \A i \in DOMAIN Tail(queue) :
              /\ queue'[i].by # t /\ ~queue'[i].on
              /\ queue'[i].by \in Tasks => pc'[queue'[i].by] \in Asking
        /\ \A i, j \in DOMAIN Tail(queue) :
              queue'[i].by \in Tasks /\ queue'[i].by = queue'[j].by => i = j
    <3>1. /\ \A i \in DOMAIN Tail(queue) :
                /\ Tail(queue)[i].by # t
                /\ Tail(queue)[i].by \in Tasks => pc'[Tail(queue)[i].by] \in Asking
                /\ Tail(queue)[i].on => /\ Tail(queue)[i].by \in Tasks
                                        /\ pc'[Tail(queue)[i].by] = "keying"
          /\ \A i, j \in DOMAIN Tail(queue) :
                Tail(queue)[i].by \in Tasks /\ Tail(queue)[i].by = Tail(queue)[j].by => i = j
      BY <1>1, <2>2, AnsweredRequests
    <3>2. \A u \in Tasks : pc'[u] # "keying"
      BY <1>2, <2>2 DEF InBurst
    <3> QED BY <2>4, <3>1, <3>2
  <2>7. queue'[n].by = t /\ ~queue'[n].on /\ pc'[t] \in Asking
    BY <2>2, <2>4 DEF Asking
  <2>8. \A i \in DOMAIN queue' : ~queue'[i].on
    BY <2>4, <2>6, <2>7
  <2>9. \A i \in DOMAIN queue' : queue'[i].by \in Tasks => pc'[queue'[i].by] \in Asking
    BY <2>4, <2>6, <2>7
  <2>10. ASSUME NEW i \in DOMAIN queue', NEW j \in DOMAIN queue',
                queue'[i].by \in Tasks, queue'[i].by = queue'[j].by
         PROVE  i = j
    BY <2>4, <2>6, <2>7, <2>10
  <2>11. AbortsFirst'
    BY <1>2, <2>2, <2>8 DEF AbortsFirst, InBurst
  <2>12. PttIsAccountedFor'
    BY <2>4 DEF PttIsAccountedFor
  <2> QED BY <2>5, <2>8, <2>9, <2>10, <2>11, <2>12 DEF BurstInv, RequestsMatch
<1> QED BY <1>4, <1>5

LEMMA UnkeyedBursts ==
    ASSUME TypeOK, BurstInv, NEW done \in BOOLEAN, NEW ok \in BOOLEAN, RigAnswers(done, ok),
           NEW t \in Tasks, Unkeyed(t)
    PROVE  BurstInv'
<1>1. /\ Served /\ pc \in [Tasks -> Places] /\ pc[t] \in {"unkeying", "forcing", "off"}
      /\ Head(queue).by = t /\ ~Head(queue).on
      /\ queue' = Tail(queue)
      /\ tx_burst_active' = (tx_burst_active /\ pc[t] # "unkeying")
  BY HeadIsServed DEF RigAnswers, Unkeyed, TypeOK
<1>2. /\ \A u \in Tasks \ {t} : pc'[u] = pc[u]
      /\ pc'[t] \in {"idle", "busy"}
  BY <1>1 DEF Unkeyed, Finish
<1>3. OneBurst'
  <2>1. CASE pc[t] = "unkeying"
    BY <1>1, <1>2, <2>1 DEF BurstInv, OneBurst, InBurst
  <2>2. CASE pc[t] # "unkeying"
    <3>1. tx_burst_active' <=> tx_burst_active
      BY <1>1, <2>2
    <3> QED BY <1>1, <1>2, <2>2, <3>1 DEF BurstInv, OneBurst, InBurst
  <2> QED BY <2>1, <2>2
<1>4. RequestsMatch'
  BY <1>1, <1>2, AnsweredRequests DEF RequestsMatch
<1>5. \A i, j \in DOMAIN queue' : queue'[i].on /\ Aborting(queue'[j], pc') => j < i
  BY <1>1, <1>2, AnsweredRequests
<1>6. ASSUME NEW u \in Tasks, pc'[u] = "playing", NEW j \in DOMAIN queue'
      PROVE  ~Aborting(queue'[j], pc')
  <2>1. pc[u] = "playing"
    BY <1>2, <1>6
  <2>2. ~Aborting(queue[j + 1], pc)
    BY <1>1, <2>1 DEF BurstInv, AbortsFirst, Served
  <2> QED BY <1>1, <1>2, <2>2, AnsweredRequests
<1>7. AbortsFirst'
  BY <1>5, <1>6 DEF AbortsFirst
<1>8. PttIsAccountedFor'
  BY <1>1, OffIsAccountedFor
<1> QED BY <1>3, <1>4, <1>7, <1>8 DEF BurstInv

LEMMA BurstsInductive == TypeInv /\ BurstInv /\ TypeInv' /\ [Next]_vars => BurstInv'
<1> SUFFICES ASSUME TypeInv, BurstInv, TypeInv', [Next]_vars PROVE BurstInv'
  OBVIOUS
<1>1. TypeOK /\ "deferred" \in Tasks
  BY DeferredIsNoLateStage DEF TypeInv
<1>2. CASE \/ SlotDecides \/ PreDecides \/ \E t \in Lates : LateDecides(t)
           \/ \E t \in Users : UserStarts(t) \/ UserStops(t) \/ UserSkipsQso(t)
           \/ PhasePasses \/ SlotBoundary
  BY <1>1, <1>2, RestingMoves, RestsKeepsBursts
<1>3. CASE \E t \in Tasks : StopTx(t) \/ Transmit(t) \/ BoundaryReached(t) \/ PlayEnds(t)
  BY <1>1, <1>3, TaskMoves, RestsKeepsBursts, AsksOffKeepsBursts, AsksOnKeepsBursts
<1>4. CASE \E done, ok \in BOOLEAN : RigAnswers(done, ok)
  BY <1>1, <1>4, AnswerCases, KeyedBursts, UnkeyedBursts, OtherOffBursts
<1>5. CASE UserResetsLock \/ Poll \/ WatchdogFires \/ SwrRunaway \/ UNCHANGED vars
  BY <1>1, <1>5, LoopMoves, OtherAsksKeepsBursts
<1>6. CASE SendeAufgeschoben
  BY <1>1, <1>6, SendeAufgeschobenMoves, RestsKeepsBursts, AsksOnKeepsBursts
<1>7. CASE Crash
  BY <1>7, CrashBursts
<1> QED BY <1>2, <1>3, <1>4, <1>5, <1>6, <1>7 DEF Next

LEMMA EngineInvariant == Spec => [](TypeInv /\ BurstInv)
BY InitType, TypeInductive, InitBursts, BurstsInductive, PTL DEF Spec

(* Never two bursts at once, and the flag says when there is one.          *)
THEOREM AlwaysOneBurst == Spec => []OneBurst
<1>1. TypeInv /\ BurstInv => OneBurst
  BY DEF BurstInv
<1> QED BY <1>1, EngineInvariant, PTL

(* Whoever keyed the rig, somebody will switch it off.                     *)
THEOREM PttAlwaysAccountedFor == Spec => []PttIsAccountedFor
<1>1. TypeInv /\ BurstInv => PttIsAccountedFor
  BY DEF BurstInv
<1> QED BY <1>1, EngineInvariant, PTL

(* The PTT-off by which a task ends or aborts its own burst never cuts the *)
(* burst of another.                                                       *)
THEOREM BurstsAlwaysCutOnPurpose == Spec => BurstsAreCutOnPurpose
<1>. DEFINE Cut == /\ ptt /\ ~ptt'
                  /\ \E t \in Tasks : pc[t] = "playing" /\ pc'[t] = "playing"
            OnPurpose == \A t \in Tasks : Head(queue).by = t => pc[t] = "off"
<1>1. TypeInv /\ BurstInv /\ TypeInv' /\ [Next]_vars => (Cut => OnPurpose)
  <2> SUFFICES ASSUME TypeInv, BurstInv, TypeInv', [Next]_vars, Cut,
                      NEW t \in Tasks, Head(queue).by = t
               PROVE  pc[t] = "off"
    OBVIOUS
  <2>1. PICK u \in Tasks : pc[u] = "playing" /\ pc'[u] = "playing"
    OBVIOUS
  <2>2. PICK done \in BOOLEAN, ok \in BOOLEAN : RigAnswers(done, ok)
    <3>1. ~Crash
      BY <2>1 DEF Crash
    <3>2. ~(\E v \in Tasks : StopTx(v) \/ Transmit(v) \/ BoundaryReached(v) \/ PlayEnds(v))
      BY DEF StopTx, Transmit, BoundaryReached, PlayEnds
    <3>3. ~(SendeAufgeschoben \/ UNCHANGED vars)
      BY DEF SendeAufgeschoben, vars, rig
    <3>4. ~(UserResetsLock \/ Poll \/ WatchdogFires \/ SwrRunaway)
      BY DEF UserResetsLock, Poll, WatchdogFires, SwrRunaway, rig
    <3>5. ~(\/ SlotDecides \/ PreDecides \/ \E v \in Lates : LateDecides(v)
            \/ \E v \in Users : UserStarts(v) \/ UserStops(v) \/ UserSkipsQso(v)
            \/ PhasePasses \/ SlotBoundary)
      BY RestingMoves DEF Rests
    <3> QED BY <3>1, <3>2, <3>3, <3>4, <3>5 DEF Next
  <2>3. Served /\ ~Head(queue).on
    BY <2>2, HeadIsServed DEF RigAnswers, TypeInv, TypeOK
  <2>4. pc[t] \in Asking
    BY <2>3 DEF BurstInv, RequestsMatch, Served
  <2>5. pc[t] # "forcing"
    BY <2>1, <2>3 DEF BurstInv, AbortsFirst, Aborting, Served
  <2>6. pc[t] \notin {"keying", "unkeying"}
    BY <2>1 DEF BurstInv, OneBurst, InBurst
  <2> QED BY <2>4, <2>5, <2>6 DEF Asking
<1> QED BY <1>1, EngineInvariant, PTL DEF Spec, BurstsAreCutOnPurpose

-----------------------------------------------------------------------------
(* Postponed replies.                                                      *)

LEMMA AttemptReplies ==
    ASSUME TypeOK, NEW t \in Tasks, NEW p, NEW current, NEW overruled \in BOOLEAN,
           current # None => ~overruled, Attempt(t, p, current, overruled)
    PROVE  /\ aufgeschoben' # None => ~ueberholt'
           /\ plan' = [plan EXCEPT ![t] = Tail(p)]
<1>1. current # None => ~overruled
  OBVIOUS
<1>2. plan' = [plan EXCEPT ![t] = Tail(p)]
  BY DEF Attempt, Finish, Await
<1>3. CASE PutOff(t, Head(p), current, overruled)
  <2>1. CASE Head(p) \in Aufschiebbar /\ t # "deferred"
    <3>1. ueberholt' = FALSE
      BY <1>3, <2>1, Zenon DEF PutOff
    <3> QED BY <1>2, <3>1
  <2>2. CASE ~(Head(p) \in Aufschiebbar /\ t # "deferred")
    <3>1. aufgeschoben' = current /\ ueberholt' = overruled
      BY <1>3, <2>2, Zenon DEF PutOff
    <3> QED BY <1>1, <1>2, <3>1
  <2> QED BY <2>1, <2>2
<1>4. CASE aufgeschoben' = current /\ ueberholt' = overruled
  BY <1>1, <1>2, <1>4
<1> QED BY <1>2, <1>3, <1>4 DEF Attempt

(* The task of the postponed reply has no plan of its own.                 *)
LEMMA DeferredWaitsForItsReply ==
    ASSUME TypeInv, PutOffIsCurrent, NEW t \in Tasks,
           StopTx(t) \/ Transmit(t) \/ BoundaryReached(t)
    PROVE  t # "deferred"
BY DEF TypeInv, TypeOK, PutOffIsCurrent, StopTx, Transmit, BoundaryReached

LEMMA TasksReplies ==
    ASSUME TypeInv, PutOffIsCurrent, NEW t \in Tasks,
           StopTx(t) \/ Transmit(t) \/ BoundaryReached(t) \/ PlayEnds(t)
    PROVE  PutOffIsCurrent'
<1>1. TypeOK /\ "deferred" \in Tasks /\ ueberholt \in BOOLEAN /\ Overtaken \in BOOLEAN
  <2>1. Overtaken \in BOOLEAN
    BY Zenon DEF Overtaken
  <2> QED BY <2>1, DeferredIsNoLateStage DEF TypeInv, TypeOK
<1>2. aufgeschoben' # None => ~ueberholt'
  <2>1. CASE StopTx(t) \/ PlayEnds(t)
    BY <2>1 DEF PutOffIsCurrent, StopTx, PlayEnds, reply
  <2>2. CASE Transmit(t)
    BY <1>1, <2>2, AttemptReplies DEF Transmit
  <2>3. CASE BoundaryReached(t)
    BY <1>1, <2>3, AttemptReplies DEF PutOffIsCurrent, BoundaryReached
  <2> QED BY <2>1, <2>2, <2>3
<1>3. plan'["deferred"] = <<>>
  <2>1. CASE PlayEnds(t)
    BY <1>1, <2>1 DEF PutOffIsCurrent, PlayEnds, Await, TypeOK
  <2>2. CASE StopTx(t) \/ Transmit(t) \/ BoundaryReached(t)
    <3>1. t # "deferred"
      BY <2>2, DeferredWaitsForItsReply
    <3>2. \E rest : plan' = [plan EXCEPT ![t] = rest]
      <4>1. CASE StopTx(t)
        BY <4>1 DEF StopTx, Await
      <4>2. CASE Transmit(t)
        BY <1>1, <4>2, AttemptReplies DEF Transmit, Await
      <4>3. CASE BoundaryReached(t)
        BY <1>1, <4>3, AttemptReplies DEF PutOffIsCurrent, BoundaryReached
      <4> QED BY <2>2, <4>1, <4>2, <4>3
    <3> QED BY <1>1, <3>1, <3>2 DEF PutOffIsCurrent, TypeOK
  <2> QED BY <2>1, <2>2
<1> QED BY <1>2, <1>3 DEF PutOffIsCurrent

LEMMA HandlersReplies ==
    ASSUME TypeInv, PutOffIsCurrent,
           \/ SlotDecides \/ PreDecides \/ \E t \in Lates : LateDecides(t)
           \/ \E t \in Users : UserStarts(t) \/ UserStops(t) \/ UserSkipsQso(t)
    PROVE  PutOffIsCurrent'
<1>1. plan \in [Tasks -> Plan]
  BY DEF TypeInv, TypeOK, Plan
<1>2. \E t \in Tasks \ {"deferred"} : \E p : plan' = [plan EXCEPT ![t] = p]
  BY DeferredIsNoLateStage
  DEF SlotDecides, PreDecides, LateDecides, UserStarts, UserStops, UserSkipsQso,
      Decide, Requests, Tasks
<1>3. aufgeschoben' # None => ~ueberholt'
  BY DEF PutOffIsCurrent, SlotDecides, PreDecides, LateDecides, UserStarts, UserStops,
         UserSkipsQso, reply
<1> QED BY <1>1, <1>2, <1>3, DeferredIsNoLateStage DEF PutOffIsCurrent

LEMMA RigAndClockReplies ==
    ASSUME TypeInv, PutOffIsCurrent,
           \/ \E done, ok \in BOOLEAN : RigAnswers(done, ok)
           \/ UserResetsLock \/ Poll \/ WatchdogFires \/ SwrRunaway
           \/ PhasePasses \/ SlotBoundary \/ UNCHANGED vars
    PROVE  PutOffIsCurrent'
<1>1. plan \in [Tasks -> Plan] /\ "deferred" \in Tasks
  BY DeferredIsNoLateStage DEF TypeInv, TypeOK, Plan
<1>2. plan' = plan
  <2>1. CASE \E done, ok \in BOOLEAN : RigAnswers(done, ok)
    BY <1>1, <2>1 DEF RigAnswers, Keyed, Unkeyed, OtherOff, Finish, Await, tasks
  <2>2. CASE UserResetsLock \/ Poll \/ WatchdogFires \/ SwrRunaway
    BY <2>2 DEF UserResetsLock, Poll, WatchdogFires, SwrRunaway, tasks
  <2>3. CASE PhasePasses \/ SlotBoundary \/ UNCHANGED vars
    BY <2>3 DEF PhasePasses, SlotBoundary, vars, tasks
  <2> QED BY <2>1, <2>2, <2>3
<1>3. ueberholt' = ueberholt /\ (aufgeschoben' # None => aufgeschoben # None)
  BY DEF RigAnswers, UserResetsLock, Poll, WatchdogFires, SwrRunaway, PhasePasses,
         SlotBoundary, vars, reply
<1> QED BY <1>2, <1>3 DEF PutOffIsCurrent

LEMMA SendeAufgeschobenReplies ==
    ASSUME TypeInv, PutOffIsCurrent, SendeAufgeschoben
    PROVE  PutOffIsCurrent' /\ ~ueberholt
<1>1. /\ TypeOK /\ plan \in [Tasks -> Plan] /\ "deferred" \in Tasks
      /\ ueberholt \in BOOLEAN /\ ~ueberholt
  BY DeferredIsNoLateStage DEF TypeInv, TypeOK, Plan, PutOffIsCurrent, SendeAufgeschoben, Due
<1>2. CASE aufgeschoben' = None /\ UNCHANGED <<tasks, flags, sent, queue, ueberholt>>
  BY <1>1, <1>2 DEF PutOffIsCurrent, tasks
<1>3. CASE Attempt("deferred", <<aufgeschoben.kind>>, None, ueberholt)
  <2>1. /\ aufgeschoben' # None => ~ueberholt'
        /\ plan' = [plan EXCEPT !["deferred"] = Tail(<<aufgeschoben.kind>>)]
    BY <1>1, <1>3, AttemptReplies
  <2>2. Tail(<<aufgeschoben.kind>>) = <<>>
    OBVIOUS
  <2> QED BY <1>1, <2>1, <2>2 DEF PutOffIsCurrent
<1> QED BY <1>1, <1>2, <1>3 DEF SendeAufgeschoben

LEMMA RepliesInductive == TypeInv /\ PutOffIsCurrent /\ [Next]_vars => PutOffIsCurrent'
<1> SUFFICES ASSUME TypeInv, PutOffIsCurrent, [Next]_vars PROVE PutOffIsCurrent'
  OBVIOUS
<1>1. CASE Crash
  BY <1>1, DeferredIsNoLateStage DEF Crash, PutOffIsCurrent
<1> QED BY <1>1, TasksReplies, HandlersReplies, RigAndClockReplies, SendeAufgeschobenReplies
    DEF Next

(* A reply put off is sent only if nothing was decided, and the station was*)
(* not stopped, since it was put off.                                      *)
THEOREM DeferredAlwaysCurrent == Spec => DeferredIsCurrent
<1>. DEFINE Begins == pc["deferred"] # "keying" /\ pc'["deferred"] = "keying"
<1>1. Init => PutOffIsCurrent
  BY DeferredIsNoLateStage DEF Init, PutOffIsCurrent
<1>2. TypeInv /\ PutOffIsCurrent /\ TypeInv' /\ [Next]_vars => (Begins => ~ueberholt)
  <2> SUFFICES ASSUME TypeInv, PutOffIsCurrent, TypeInv', [Next]_vars, Begins
               PROVE  ~ueberholt
    OBVIOUS
  <2>1. pc \in [Tasks -> Places] /\ "deferred" \in Tasks
    BY DeferredIsNoLateStage DEF TypeInv, TypeOK
  <2>2. ~Rests /\ ~OtherAsks
    BY <2>1 DEF Rests, OtherAsks, AtRest
  <2>3. ~Crash
    BY <2>1 DEF Crash
  <2>4. ~(\E done, ok \in BOOLEAN : RigAnswers(done, ok))
    BY <2>1 DEF RigAnswers, Keyed, Unkeyed, OtherOff, Finish, Await, tasks
  <2>5. ASSUME NEW t \in Tasks, StopTx(t) \/ Transmit(t) \/ BoundaryReached(t) \/ PlayEnds(t)
        PROVE  FALSE
    <3>1. AsksOff(t) \/ AsksOn(t)
      BY <2>2, <2>5, TaskMoves
    <3>2. t = "deferred" /\ AsksOn(t)
      BY <2>1, <3>1 DEF AsksOff, AsksOn
    <3>3. ~PlayEnds(t)
      BY <3>2 DEF PlayEnds, AsksOn, AtRest
    <3> QED BY <2>5, <3>2, <3>3, DeferredWaitsForItsReply
  <2>6. ~(\/ SlotDecides \/ PreDecides \/ \E t \in Lates : LateDecides(t)
          \/ \E t \in Users : UserStarts(t) \/ UserStops(t) \/ UserSkipsQso(t)
          \/ PhasePasses \/ SlotBoundary)
    BY <2>2, RestingMoves
  <2>7. ~(UserResetsLock \/ Poll \/ WatchdogFires \/ SwrRunaway \/ UNCHANGED vars)
    BY <2>2, LoopMoves
  <2>8. SendeAufgeschoben
    BY <2>3, <2>4, <2>5, <2>6, <2>7 DEF Next
  <2> QED BY <2>8, SendeAufgeschobenReplies
<1> QED BY <1>1, <1>2, RepliesInductive, InitType, TypeInductive, PTL
    DEF Spec, DeferredIsCurrent
=============================================================================
