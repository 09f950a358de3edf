---------------------------- MODULE UploadProofs ----------------------------
(***************************************************************************)
(* A row that counts as uploaded is accounted for, whatever service, sizes  *)
(* of charges, callsigns and meddling, and an upload loop implements the    *)
(* ledger.                                                                  *)
(*                                                                         *)
(* The invariant adds to MarkedIsAccountedFor what a sweep holds in its     *)
(* session: only rows of the log, and no mark without a receipt or a        *)
(* reason, so that the commit at its end, a rollback and a confirmation in  *)
(* between may come in any order.                                          *)
(***************************************************************************)
EXTENDS UploadQueue, FiniteSetTheorems, TLAPS

Handed == {r \in Rows : batch[r] # 0}

(* What a sweep has in hand is in the log, and so is what went out.        *)
OfTheLog ==
  /\ due \subseteq logged /\ singles \subseteq logged
  /\ marks \subseteq logged /\ counted \subseteq logged
  /\ remote \subseteq logged /\ written \subseteq logged /\ Handed \subseteq logged

(* A mark has its receipt or its reason before it is committed.            *)
MarksAccounted == marks \subseteq remote \cup written

QueueInv == TypeOK /\ OfTheLog /\ MarksAccounted /\ MarkedIsAccountedFor

(* What a step may do to the log and to what is known of its rows.         *)
Grows ==
  /\ logged \subseteq logged' /\ up \subseteq up' /\ remote \subseteq remote'
  /\ written \subseteq written' /\ Handed \subseteq Handed'
  /\ remote' \ remote \subseteq logged /\ up' \ up \subseteq logged

LEMMA CardinalityOfRows == Cardinality(Rows) \in Nat
  BY UploadAssumption, FS_CardinalityType

LEMMA QueueInit == Init => QueueInv
<1> SUFFICES ASSUME Init PROVE QueueInv
  OBVIOUS
<1>1. TypeOK
  <2>1. tries \in [Rows -> 0 .. MaxTries] /\ batch \in [Rows -> 0 .. Cardinality(Rows)]
    BY UploadAssumption, CardinalityOfRows DEF Init
  <2>2. {profile, sweeping, stauTold} \subseteq BOOLEAN
    BY DEF Init
  <2>3. UNION {due, singles, marks, counted} \subseteq {}
    BY DEF Init
  <2>. QED BY <2>1, <2>2, <2>3 DEF Init, TypeOK
<1>2. Handed = {}
  BY DEF Init, Handed
<1>. QED BY <1>1, <1>2 DEF Init, QueueInv, OfTheLog, MarksAccounted, MarkedIsAccountedFor

-----------------------------------------------------------------------------
(* A request.                                                              *)

LEMMA TriedType ==
  ASSUME TypeOK, NEW R
  PROVE  Tried(R) \in [Rows -> 0 .. MaxTries]
BY UploadAssumption DEF TypeOK, Tried

LEMMA RequestsInHand ==
  ASSUME NEW R \in Requests
  PROVE  R \subseteq due \cup singles
BY DEF Requests, Earliest, Of

LEMMA LeftInHand == ASSUME NEW R PROVE Left(R) \subseteq due
BY DEF Left

(* Whatever the service says to a request, its rows are sent rows of the   *)
(* log, and what is marked is stored or written off.                       *)
LEMMA SentStep ==
  ASSUME QueueInv, NEW R, Sent(R), singles' \subseteq singles \cup R,
         marks' \subseteq marks \cup R, marks' \ marks \subseteq remote' \cup written',
         remote \subseteq remote', remote' \subseteq remote \cup R,
         written \subseteq written', written' \subseteq written \cup R
  PROVE  QueueInv' /\ Grows
<1>1. /\ R \subseteq logged /\ due' \subseteq due /\ counted' \subseteq counted \cup R
      /\ sweeping /\ sweeping' = sweeping
      /\ UNCHANGED <<service, table, config, told, stauTold>>
  BY RequestsInHand, LeftInHand DEF QueueInv, OfTheLog, Sent, Counted
<1>2. Handed' = Handed /\ logged \subseteq Rows
  BY <1>1 DEF Handed, table, QueueInv, TypeOK
<1>3. OfTheLog'
  BY <1>1, <1>2 DEF QueueInv, OfTheLog, table
<1>4. TypeOK'
  <2>1. UNION {due', singles', marks', counted'} \subseteq Rows
    BY <1>1, <1>2, <1>3 DEF OfTheLog, table
  <2>2. remote' \cup written' \subseteq Rows
    BY <1>1, <1>2 DEF QueueInv, TypeOK
  <2>. QED BY <1>1, <2>1, <2>2 DEF QueueInv, TypeOK, table, config, Calls, CallOf
<1>5. MarksAccounted' /\ MarkedIsAccountedFor'
  BY <1>1, <1>2 DEF QueueInv, MarksAccounted, MarkedIsAccountedFor, Handed, table
<1>6. Grows
  BY <1>1, <1>2 DEF Grows, table
<1>. QED BY <1>3, <1>4, <1>5, <1>6 DEF QueueInv

LEMMA SendsStep == QueueInv /\ Sends => QueueInv' /\ Grows
<1> SUFFICES ASSUME QueueInv, NEW R \in Requests,
                    \/ \E taken \in SUBSET R : Accepted(R, taken)
                    \/ PageTrusted(R) \/ FileHasDuplicate(R) \/ HardRefusal(R) \/ SoftRefusal(R)
                    \/ \E stored \in BOOLEAN : NoAnswer(R, stored)
             PROVE  QueueInv' /\ Grows
  BY DEF Sends
<1>1. ASSUME NEW taken \in SUBSET R, Accepted(R, taken) PROVE QueueInv' /\ Grows
  BY <1>1, SentStep DEF Accepted, Sending
<1>2. CASE PageTrusted(R)
  BY <1>2, SentStep DEF PageTrusted, Sending
<1>3. CASE FileHasDuplicate(R)
  BY <1>3, SentStep DEF FileHasDuplicate, FirstOf, past
<1>4. CASE HardRefusal(R)
  BY <1>4, SentStep DEF HardRefusal, Sending
<1>5. CASE SoftRefusal(R)
  BY <1>5, SentStep DEF SoftRefusal, Sending, GivenUp
<1>6. ASSUME NEW stored \in BOOLEAN, NoAnswer(R, stored) PROVE QueueInv' /\ Grows
  BY <1>6, SentStep DEF NoAnswer, Sending, GivenUp
<1>. QED BY <1>1, <1>2, <1>3, <1>4, <1>5, <1>6

-----------------------------------------------------------------------------
(* The other steps.                                                        *)

(* A step that leaves rows, receipts and reasons alone.                    *)
LEMMA AsideStep ==
  ASSUME QueueInv, TypeOK', UNCHANGED <<logged, up, batch, sweep, past>>
  PROVE  QueueInv' /\ Grows
<1>1. Handed' = Handed
  BY DEF Handed
<1>. QED BY <1>1 DEF QueueInv, OfTheLog, MarksAccounted, MarkedIsAccountedFor, Handed, Grows,
                     sweep, past

LEMMA SweepStartsStep == QueueInv /\ SweepStarts => QueueInv' /\ Grows
<1> SUFFICES ASSUME QueueInv, SweepStarts PROVE QueueInv' /\ Grows
  OBVIOUS
<1>1. Due \subseteq logged /\ logged \subseteq Rows
  BY DEF Due, FirstOf, Of, QueueInv, TypeOK
<1>2. NotSetUp \subseteq Calls
  BY <1>1 DEF NotSetUp, Calls
<1>3. Handed' = Handed
  BY DEF Handed, SweepStarts, table
<1>4. singles = {} /\ marks = {} /\ counted = {}
  BY DEF QueueInv, TypeOK, SweepStarts
<1>5. TypeOK'
  <2>1. UNION {due', singles', marks', counted'} \subseteq IF sweeping' THEN Rows ELSE {}
    BY <1>1, <1>4 DEF SweepStarts
  <2>2. told' \subseteq Calls' /\ logs' \subseteq Calls'
    BY <1>2 DEF QueueInv, TypeOK, SweepStarts, Calls, CallOf, config
  <2>3. {profile', sweeping', stauTold'} \subseteq BOOLEAN
    BY DEF QueueInv, TypeOK, SweepStarts, config
  <2>. QED BY <2>1, <2>2, <2>3 DEF QueueInv, TypeOK, SweepStarts, table, past
<1>. QED BY <1>1, <1>3, <1>4, <1>5 DEF QueueInv, OfTheLog, MarksAccounted, MarkedIsAccountedFor,
            Handed, Grows, SweepStarts, table, past

LEMMA SweepEndsStep == QueueInv /\ (Commit \/ RolledBack) => QueueInv' /\ Grows
<1> SUFFICES ASSUME QueueInv, Commit \/ RolledBack PROVE QueueInv' /\ Grows
  OBVIOUS
<1>1. /\ SweepOver /\ up \subseteq up' /\ up' \subseteq up \cup marks
      /\ tries' \in [Rows -> 0 .. MaxTries] /\ resting' \subseteq Rows
      /\ UNCHANGED <<service, logged, batch, config, told, past, stauTold>>
  <2>1. CASE Commit
    <3>1. counted \subseteq Rows
      BY DEF QueueInv, OfTheLog, TypeOK
    <3>. QED BY <2>1, <3>1, TriedType DEF Commit, QueueInv, TypeOK
  <2>2. CASE RolledBack
    BY <2>2 DEF RolledBack, table, QueueInv, TypeOK
  <2>. QED BY <2>1, <2>2
<1>2. Handed' = Handed
  BY <1>1 DEF Handed
<1>3. TypeOK'
  <2>1. UNION {due', singles', marks', counted'} \subseteq {}
    BY <1>1 DEF SweepOver
  <2>2. up' \subseteq logged' /\ logged' \subseteq Rows
    BY <1>1 DEF QueueInv, OfTheLog, TypeOK
  <2>3. {profile', sweeping', stauTold'} \subseteq BOOLEAN
    BY <1>1 DEF QueueInv, TypeOK, SweepOver, config
  <2>. QED BY <1>1, <2>1, <2>2, <2>3 DEF QueueInv, TypeOK, config, past, Calls, CallOf
<1>. QED BY <1>1, <1>2, <1>3 DEF QueueInv, OfTheLog, MarksAccounted, MarkedIsAccountedFor,
            Handed, Grows, SweepOver, past

LEMMA ArrivesStep ==
  ASSUME QueueInv, NEW r \in Rows, Arrives(r)
  PROVE  QueueInv' /\ Grows
<1>1. Handed' = Handed
  BY DEF Handed, Arrives
<1>2. TypeOK'
  BY DEF QueueInv, TypeOK, Arrives, config, sweep, past, Calls, CallOf
<1>. QED BY <1>1, <1>2 DEF QueueInv, OfTheLog, MarksAccounted, MarkedIsAccountedFor,
            Handed, Grows, Arrives, sweep, past

LEMMA ExportsStep == QueueInv /\ Exports => QueueInv' /\ Grows
<1> SUFFICES ASSUME QueueInv, Exports PROVE QueueInv' /\ Grows
  OBVIOUS
<1>1. PICK b \in 1 .. Cardinality(Rows) :
        batch' = [r \in Rows |-> IF r \in logged \ up /\ batch[r] = 0 THEN b ELSE batch[r]]
  BY DEF Exports
<1>2. batch' \in [Rows -> 0 .. Cardinality(Rows)]
  BY <1>1, CardinalityOfRows DEF QueueInv, TypeOK
<1>3. Handed \subseteq Handed' /\ Handed' \subseteq Handed \cup logged
  BY <1>1, CardinalityOfRows DEF Handed
<1>4. TypeOK'
  BY <1>2 DEF QueueInv, TypeOK, Exports, config, sweep, past, Calls, CallOf
<1>5. OfTheLog' /\ MarksAccounted'
  BY <1>3 DEF QueueInv, OfTheLog, MarksAccounted, Exports, sweep, past
<1>6. MarkedIsAccountedFor'
  BY <1>3 DEF QueueInv, MarkedIsAccountedFor, Handed, Exports, past
<1>. QED BY <1>3, <1>4, <1>5, <1>6 DEF QueueInv, Grows, Exports, past

LEMMA ConfirmsStep ==
  ASSUME QueueInv, NEW b, Confirms(b)
  PROVE  QueueInv' /\ Grows
<1>1. Handed' = Handed
  BY DEF Handed, Confirms
<1>2. up' = up \cup {r \in Rows : batch[r] = b} /\ {r \in Rows : batch[r] = b} \subseteq Handed
  BY DEF Handed, Confirms
<1>3. Handed \subseteq logged
  BY DEF QueueInv, OfTheLog
<1>4. TypeOK'
  BY <1>2, <1>3 DEF QueueInv, TypeOK, Confirms, config, sweep, past, Calls, CallOf
<1>5. MarkedIsAccountedFor'
  BY <1>1, <1>2 DEF QueueInv, MarkedIsAccountedFor, Handed, Confirms, past
<1>. QED BY <1>1, <1>2, <1>3, <1>4, <1>5
         DEF QueueInv, OfTheLog, MarksAccounted, Grows, Confirms, sweep, past

LEMMA QueueStep == QueueInv /\ [Next]_vars => QueueInv' /\ Grows
<1> SUFFICES ASSUME QueueInv, [Next]_vars PROVE QueueInv' /\ Grows
  OBVIOUS
<1>1. CASE UNCHANGED vars
  BY <1>1, AsideStep DEF vars, table, config, sweep, past, QueueInv, TypeOK, Calls, CallOf
<1>2. ASSUME NEW r \in Rows, BackoffEnds(r) PROVE QueueInv' /\ Grows
  BY <1>2, AsideStep DEF BackoffEnds, QueueInv, TypeOK, config, sweep, past, Calls, CallOf
<1>3. CASE StauAlarm \/ DayPasses
  <2>1. UNCHANGED <<service, table, config, told, sweep, past>> /\ stauTold' \in BOOLEAN
    BY <1>3 DEF StauAlarm, DayPasses
  <2>. QED BY <2>1, AsideStep DEF QueueInv, TypeOK, table, config, sweep, past, Calls, CallOf
<1>4. ASSUME NEW c \in Calls, SetsUp(c) \/ Removes(c) PROVE QueueInv' /\ Grows
  <2>1. /\ UNCHANGED <<service, table, profile, sweep, past, stauTold>>
        /\ logs' \subseteq logs \cup {c} /\ told' \subseteq told
    BY <1>4 DEF SetsUp, Removes
  <2>. QED BY <2>1, AsideStep DEF QueueInv, TypeOK, table, sweep, past, Calls, CallOf
<1>5. CASE ProfileChanges
  BY <1>5, AsideStep DEF ProfileChanges, QueueInv, TypeOK, table, sweep, past, Calls, CallOf
<1>. QED BY <1>1, <1>2, <1>3, <1>4, <1>5, SweepStartsStep, SendsStep, SweepEndsStep, ArrivesStep,
            ExportsStep, ConfirmsStep DEF Next, Works, Operator

-----------------------------------------------------------------------------
(* The state of an upload loop has its types.                              *)
THEOREM UploadTypeCorrect == Spec => []TypeOK
<1>1. QueueInv => TypeOK
  BY DEF QueueInv
<1>. QED BY <1>1, QueueInit, QueueStep, PTL DEF Spec

(* A row counted as uploaded is stored at the service, was written off for *)
(* a reason, or was handed to the operator in a file.                      *)
THEOREM UploadedIsAccountedFor == Spec => []MarkedIsAccountedFor
<1>1. QueueInv => MarkedIsAccountedFor
  BY DEF QueueInv
<1>. QED BY <1>1, QueueInit, QueueStep, PTL DEF Spec

-----------------------------------------------------------------------------
(* The ledger.                                                             *)

Place == [r \in Rows |-> IF r \in up THEN "settled" ELSE IF r \in logged THEN "kept" ELSE "new"]

LEMMA LedgerStep ==
  QueueInv /\ [Next]_vars => [Ledger!Next]_<<Place, remote, written \cup Handed>>
<1> SUFFICES ASSUME QueueInv, [Next]_vars
             PROVE  [Ledger!Next]_<<Place, remote, written \cup Handed>>
  OBVIOUS
<1>1. QueueInv' /\ Grows
  BY QueueStep
<1>2. up \subseteq logged /\ up' \subseteq logged' /\ remote' \subseteq Rows
      /\ up' \subseteq remote' \cup written' \cup Handed'
  BY <1>1 DEF QueueInv, TypeOK, MarkedIsAccountedFor, Handed
<1>3. \A r \in Rows : /\ Place'[r] = Place[r] \/ <<Place[r], Place'[r]>> \in Ledger!Moves
                      /\ Ledger!Becomes(r, "settled") => r \in up'
                      /\ ~Ledger!Becomes(r, "lost")
  BY <1>1, <1>2 DEF Grows, Place, Ledger!Moves, Ledger!Becomes
<1>4. Place' \in [Rows -> {"new", "kept", "settled", "lost"}]
  BY DEF Place
<1>5. \A r \in remote' \ remote : r \in Rows /\ Place[r] \in {"kept", "settled"}
  BY <1>1, <1>2 DEF Grows, Place
<1>6. Ledger!Next
  BY <1>1, <1>2, <1>3, <1>4, <1>5 DEF Grows, Ledger!Next, Place, Handed
<1>. QED BY <1>6

(* An upload loop implements the ledger: a row is settled once, for ever,  *)
(* and only with a receipt or a reason.                                    *)
THEOREM UploadImplementsLedger == Spec => KeepsTheLedger
<1>1. Init => Ledger!Init
  BY DEF Init, Ledger!Init
<1>2. QueueInv /\ [Next]_vars => [Ledger!Next]_<<Place, remote, written \cup Handed>>
  BY LedgerStep
<1>. QED BY <1>1, <1>2, QueueInit, QueueStep, PTL DEF Spec, KeepsTheLedger, Ledger!Spec, Place, Handed
=============================================================================
