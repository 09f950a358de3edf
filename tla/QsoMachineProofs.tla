-------------------------- MODULE QsoMachineProofs --------------------------
(***************************************************************************)
(* Proofs about QsoMachine, for every number of stations and every value   *)
(* of its limits.                                                          *)
(***************************************************************************)
EXTENDS QsoMachine, TLAPS

(* What the handlers of the machine may change.                            *)
HandlerTypeOK ==
    /\ state \in States
    /\ qso \in QsoContext \cup {None}
    /\ grace \in Partners \cup {None}
    /\ cq_fallback_active \in BOOLEAN /\ cq_fallback_paused \in BOOLEAN
    /\ idle_slots \in 0..hunt_cq_fallback_after_slots
    /\ cq_count \in 0..hunt_cq_fallback_max_cqs
    /\ recent_until \subseteq Partners
    /\ recent_qso_ctx \in [Partners -> {"none", "live", "expired"}]
    /\ resume_zaehler \in [Partners -> 0..RESUME_MAX]
    /\ recent_logged \in [Partners -> 0..RR73_NACHKLANG_MAX \cup {None}]
    /\ last_lock_reason \in BOOLEAN
    /\ pending \in Seq(Action)
    /\ heard \subseteq Partners /\ heard_now \subseteq Partners

-----------------------------------------------------------------------------
(* The contexts a handler makes out of others are contexts.                *)

LEMMA NewQsoType == \A c \in Partners : NewQso(c) \in QsoContext
BY MachineAssumption DEF NewQso, QsoContext, Parities

LEMMA ProgressType == \A q \in QsoContext : Progress(q) \in QsoContext
BY MachineAssumption DEF Progress, QsoContext

LEMMA SentType == \A q \in QsoContext : [q EXCEPT !.their_snr = TRUE] \in QsoContext
BY DEF QsoContext

LEMMA CalledType == \A q \in QsoContext : [q EXCEPT !.gesendet_bei_charge = TRUE] \in QsoContext
BY DEF QsoContext

LEMMA PreambleType ==
    ASSUME qso \in QsoContext \cup {None}, NEW batch, NEW late \in BOOLEAN
    PROVE  /\ Preamble(batch, late) \in QsoContext \cup {None}
           /\ Preamble(batch, late) = None <=> qso = None
<1>1. CASE qso = None
  BY <1>1 DEF Preamble
<1>2. CASE qso \in QsoContext
  <2>1. qso # None /\ None \notin QsoContext
    BY <1>2, MachineAssumption
  <2>2. \A g, p \in BOOLEAN :
           [qso EXCEPT !.gesendet_bei_charge = g, !.partner_hat_uns_gerufen = p]
              \in QsoContext
    BY <1>2 DEF QsoContext
  <2>3. /\ (qso.gesendet_bei_charge /\ late) \in BOOLEAN
        /\ (qso.partner_hat_uns_gerufen \/ PartnerAddressesUs(batch, qso.their_call))
              \in BOOLEAN
    BY Zenon
  <2>. DEFINE preamble ==
         [qso EXCEPT !.gesendet_bei_charge = qso.gesendet_bei_charge /\ late,
                     !.partner_hat_uns_gerufen =
                         qso.partner_hat_uns_gerufen
                         \/ PartnerAddressesUs(batch, qso.their_call)]
  <2>4. preamble \in QsoContext
    <3>. HIDE DEF preamble
    <3>. QED  BY <2>2, <2>3, Zenon DEF preamble
  <2>5. Preamble(batch, late) = preamble
    BY <2>1 DEF Preamble
  <2>. QED  BY <2>1, <2>4, <2>5
<1>. QED  BY <1>1, <1>2

LEMMA ActionTypes ==
    /\ \A k \in TxKinds, c \in Partners \cup {None} : Tx(k, c) \in Action
    /\ \A q \in QsoContext : LogEntry(q) \in Action
    /\ \A c \in Partners, r \in BailReasons : Bailed(c, r) \in Action
    /\ StopTx \in Action /\ TxLocked \in Action
BY DEF Tx, LogEntry, Bailed, StopTx, TxLocked, Action, QsoContext

LEMMA EmitType ==
    ASSUME HandlerTypeOK, NEW acts \in Seq(Action), NEW batch \in SUBSET Message,
           Emit(acts, batch)
    PROVE  /\ pending' \in Seq(Action)
           /\ heard' \subseteq Partners /\ heard_now' \subseteq Partners
BY DEF HandlerTypeOK, Emit, Message

LEMMA SeqTypes ==
    /\ <<>> \in Seq(Action)
    /\ \A x \in Action : <<x>> \in Seq(Action)
    /\ \A x, y \in Action : <<x, y>> \in Seq(Action)
    /\ \A x, y, z \in Action : <<x, y, z>> \in Seq(Action)
    /\ \A s, t \in Seq(Action) : s \o t \in Seq(Action)
OBVIOUS

-----------------------------------------------------------------------------
(* Each operator that the handlers share keeps their variables well typed. *)

LEMMA SilentType ==
    ASSUME HandlerTypeOK, NEW batch \in SUBSET Message, Silent(batch)
    PROVE  /\ pending' \in Seq(Action)
           /\ heard' \subseteq Partners /\ heard_now' \subseteq Partners
BY EmitType, SeqTypes DEF Silent

LEMMA LockType ==
    ASSUME HandlerTypeOK, NEW q \in QsoContext \cup {None}, NEW batch \in SUBSET Message,
           Lock(q, batch)
    PROVE  /\ state' = "TX_LOCKED" /\ qso' = q /\ last_lock_reason' = TRUE
           /\ pending' \in Seq(Action)
           /\ heard' \subseteq Partners /\ heard_now' \subseteq Partners
<1>1. <<TxLocked, StopTx>> \in Seq(Action)
  BY ActionTypes, SeqTypes
<1> QED BY <1>1, EmitType DEF Lock

LEMMA BailType ==
    ASSUME HandlerTypeOK, NEW q \in QsoContext, NEW r \in BailReasons,
           NEW batch \in SUBSET Message,
           NEW ctx \in [Partners -> {"none", "live", "expired"}],
           NEW zaehler \in [Partners -> 0..RESUME_MAX],
           Bail(q, r, batch, ctx, zaehler)
    PROVE  HandlerTypeOK'
<1>1. q.their_call \in Partners
  BY DEF QsoContext
<1>2. <<StopTx, Bailed(q.their_call, r)>> \in Seq(Action)
  BY <1>1, ActionTypes, SeqTypes
<1>3. /\ pending' \in Seq(Action)
      /\ heard' \subseteq Partners /\ heard_now' \subseteq Partners
  BY <1>2, EmitType DEF Bail
<1>4. recent_qso_ctx' \in [Partners -> {"none", "live", "expired"}]
  BY <1>1 DEF Bail
<1> QED BY <1>1, <1>3, <1>4 DEF Bail, HandlerTypeOK, cqVars, States

LEMMA EmitLogQsoType ==
    ASSUME HandlerTypeOK, NEW q \in QsoContext, NEW batch \in SUBSET Message,
           NEW ctx \in [Partners -> {"none", "live", "expired"}],
           NEW zaehler \in [Partners -> 0..RESUME_MAX],
           EmitLogQso(q, batch, ctx, zaehler)
    PROVE  HandlerTypeOK'
<1>1. q.their_call \in Partners
  BY DEF QsoContext
<1>2. CASE Plausible(q, batch)
  <2>1. /\ recent_logged' = [recent_logged EXCEPT ![q.their_call] = 0]
        /\ resume_zaehler' = [zaehler EXCEPT ![q.their_call] = 0]
        /\ recent_qso_ctx' = ctx
        /\ recent_until' = recent_until
        /\ qso' = None
    BY <1>2 DEF EmitLogQso
  <2>5. /\ 0 \in 0..RR73_NACHKLANG_MAX \cup {None}
        /\ 0 \in 0..RESUME_MAX
    BY MachineAssumption
  <2>6. /\ recent_logged' \in [Partners -> 0..RR73_NACHKLANG_MAX \cup {None}]
        /\ resume_zaehler' \in [Partners -> 0..RESUME_MAX]
    BY <1>1, <2>1, <2>5, Zenon DEF HandlerTypeOK
  <2>2. /\ <<Tx("rr73", q.their_call), LogEntry(q)>> \in Seq(Action)
        /\ <<TxLocked, StopTx, LogEntry(q)>> \in Seq(Action)
    BY <1>1, ActionTypes, SeqTypes DEF TxKinds
  <2>3. /\ pending' \in Seq(Action)
        /\ heard' \subseteq Partners /\ heard_now' \subseteq Partners
    BY <1>2, <2>2, EmitType DEF EmitLogQso
  <2>4. /\ state' \in States
        /\ grace' \in Partners \cup {None}
        /\ last_lock_reason' \in BOOLEAN
    BY <1>1, <1>2 DEF EmitLogQso, HandlerTypeOK, States, GuardsPass
  <2>7. UNCHANGED cqVars
    BY <1>2 DEF EmitLogQso
  <2> QED BY <2>1, <2>3, <2>4, <2>6, <2>7 DEF HandlerTypeOK, cqVars
<1>3. CASE ~Plausible(q, batch)
  BY <1>3, BailType DEF EmitLogQso, BailReasons
<1> QED BY <1>2, <1>3

LEMMA ExitGraceType ==
    ASSUME HandlerTypeOK, NEW before \in Seq(Action), NEW batch \in SUBSET Message,
           ExitGrace(before, batch)
    PROVE  HandlerTypeOK'
<1>1. /\ before \o <<Tx("cq", None)>> \in Seq(Action)
      /\ before \o <<TxLocked, StopTx>> \in Seq(Action)
  BY ActionTypes, SeqTypes DEF TxKinds
<1>2. /\ pending' \in Seq(Action)
      /\ heard' \subseteq Partners /\ heard_now' \subseteq Partners
  BY <1>1, EmitType DEF ExitGrace
<1>3. 0 \in 0..hunt_cq_fallback_max_cqs
  BY MachineAssumption
<1>4. state' \in States
  BY DEF ExitGrace, HandlerTypeOK, States
<1>5. last_lock_reason' \in BOOLEAN
  BY DEF ExitGrace, HandlerTypeOK, GuardsPass
<1>6. cq_count' \in 0..hunt_cq_fallback_max_cqs
  BY <1>3 DEF ExitGrace, HandlerTypeOK
<1> QED BY <1>2, <1>4, <1>5, <1>6 DEF ExitGrace, HandlerTypeOK, memory

-----------------------------------------------------------------------------
(* on_decodes.                                                             *)

LEMMA TxTypes ==
    /\ \A k \in TxKinds, c \in Partners : <<Tx(k, c)>> \in Seq(Action)
    /\ <<Tx("cq", None)>> \in Seq(Action)
    /\ <<StopTx>> \in Seq(Action)
BY ActionTypes, SeqTypes DEF TxKinds

LEMMA AnswerLateRReportType ==
    ASSUME HandlerTypeOK, NEW batch \in SUBSET Message, AnswerLateRReport(batch)
    PROVE  HandlerTypeOK'
<1>1. CASE ~hw /\ Lock(qso, batch) /\ recent_logged' = recent_logged
  BY <1>1, LockType DEF AnswerLateRReport, HandlerTypeOK, cqVars, States
<1>2. CASE GuardsPass /\ UNCHANGED <<state, qso>>
           /\ \E c \in Waiting(batch) :
                 /\ recent_logged' = [recent_logged EXCEPT ![c] = @ + 1]
                 /\ Emit(<<Tx("rr73", c)>>, batch)
  <2>1. PICK c \in Waiting(batch) :
                 /\ recent_logged' = [recent_logged EXCEPT ![c] = @ + 1]
                 /\ Emit(<<Tx("rr73", c)>>, batch)
    BY <1>2
  <2>2. c \in Partners /\ recent_logged[c] \in 0..(RR73_NACHKLANG_MAX - 1)
    BY <2>1 DEF Waiting
  <2>3. recent_logged[c] + 1 \in 0..RR73_NACHKLANG_MAX
    BY <2>2, MachineAssumption
  <2>4. recent_logged' \in [Partners -> 0..RR73_NACHKLANG_MAX \cup {None}]
    BY <2>1, <2>2, <2>3, Zenon DEF HandlerTypeOK
  <2>5. /\ pending' \in Seq(Action)
        /\ heard' \subseteq Partners /\ heard_now' \subseteq Partners
    BY <2>1, <2>2, TxTypes, EmitType DEF TxKinds
  <2> QED BY <1>2, <2>4, <2>5 DEF AnswerLateRReport, HandlerTypeOK, cqVars, GuardsPass
<1> QED BY <1>1, <1>2 DEF AnswerLateRReport

LEMMA ScanTypes ==
    ASSUME HandlerTypeOK, NEW gone \in SUBSET Partners
    PROVE  /\ CtxWithout(gone) \in [Partners -> {"none", "live", "expired"}]
           /\ ZaehlerWithout(gone) \in [Partners -> 0..RESUME_MAX]
<1>1. 0 \in 0..RESUME_MAX
  BY MachineAssumption
<1> QED BY <1>1 DEF HandlerTypeOK, CtxWithout, ZaehlerWithout

LEMMA DroppedType ==
    ASSUME NEW batch, NEW gone \in Dropped(batch)
    PROVE  gone \subseteq Expired /\ gone \in SUBSET Partners
BY DEF Dropped, Expired

LEMMA ResumeType ==
    ASSUME HandlerTypeOK, NEW batch \in SUBSET Message, Resume(batch)
    PROVE  HandlerTypeOK'
<1> DEFINE q(c) == [NewQso(c) EXCEPT !.their_snr = TRUE]
<1>1. PICK c \in Resumable(batch), gone \in Dropped(batch) :
        \/ /\ c \in Closers(batch)
           /\ EmitLogQso(q(c), batch, CtxWithout(gone \cup {c}), ZaehlerWithout(gone))
        \/ /\ c \in Repeaters(batch)
           /\ state' = "QSO_REPORT"
           /\ qso' = q(c)
           /\ recent_qso_ctx' = CtxWithout(gone \cup {c})
           /\ resume_zaehler' = [ZaehlerWithout(gone) EXCEPT ![c] = @ + 1]
           /\ Emit(<<Tx("r_report", c)>>, batch)
           /\ UNCHANGED <<grace, cqVars, recent_until, recent_logged>>
  BY DEF Resume
<1>2. c \in Partners
  BY DEF Resumable, Closers, Repeaters, Live
<1>3. /\ gone \in SUBSET Partners
      /\ gone \cup {c} \in SUBSET Partners
  BY <1>2, DroppedType
<1>4. q(c) \in QsoContext
  BY <1>2, NewQsoType, SentType
<1>5. CtxWithout(gone \cup {c}) \in [Partners -> {"none", "live", "expired"}]
  BY <1>3, ScanTypes
<1>6. ZaehlerWithout(gone) \in [Partners -> 0..RESUME_MAX]
  BY <1>3, ScanTypes
<1> HIDE DEF q
<1>7. CASE EmitLogQso(q(c), batch, CtxWithout(gone \cup {c}), ZaehlerWithout(gone))
  BY <1>4, <1>5, <1>6, <1>7, EmitLogQsoType
<1>8. CASE /\ c \in Repeaters(batch)
           /\ state' = "QSO_REPORT"
           /\ qso' = q(c)
           /\ recent_qso_ctx' = CtxWithout(gone \cup {c})
           /\ resume_zaehler' = [ZaehlerWithout(gone) EXCEPT ![c] = @ + 1]
           /\ Emit(<<Tx("r_report", c)>>, batch)
           /\ UNCHANGED <<grace, cqVars, recent_until, recent_logged>>
  <2>1. resume_zaehler[c] < RESUME_MAX /\ resume_zaehler[c] \in 0..RESUME_MAX
    BY <1>2, <1>8 DEF Repeaters, HandlerTypeOK
  <2>2. ZaehlerWithout(gone)[c] \in {0, resume_zaehler[c]}
    BY <1>2 DEF ZaehlerWithout
  <2>3. ZaehlerWithout(gone)[c] + 1 \in 0..RESUME_MAX
    BY <2>1, <2>2, MachineAssumption
  <2>4. resume_zaehler' \in [Partners -> 0..RESUME_MAX]
    BY <1>2, <1>6, <1>8, <2>3, Zenon
  <2>5. /\ pending' \in Seq(Action)
        /\ heard' \subseteq Partners /\ heard_now' \subseteq Partners
    BY <1>2, <1>8, TxTypes, EmitType DEF TxKinds
  <2>6. last_lock_reason' \in BOOLEAN
    BY DEF Resume, GuardsPass
  <2> QED BY <1>4, <1>5, <1>8, <2>4, <2>5, <2>6 DEF HandlerTypeOK, cqVars, States
<1> QED BY <1>1, <1>7, <1>8

LEMMA CallerTypes ==
    ASSUME NEW batch \in SUBSET Message
    PROVE  /\ ReportCallers(batch) \subseteq Partners
           /\ GridCallers(batch) \subseteq Partners
           /\ CqCallers(batch) \subseteq Partners
BY DEF Message, ReportCallers, GridCallers, CqCallers

LEMMA EligibleTypes ==
    ASSUME NEW batch \in SUBSET Message
    PROVE  Eligible(batch) \subseteq Partners
BY CallerTypes, MachineAssumption DEF Eligible, Partners

(* What a new QSO leaves of the machine, but for the counters of CQ mode.  *)
LEMMA StartType ==
    ASSUME HandlerTypeOK, NEW batch \in SUBSET Message, NEW c, Start(c, batch)
    PROVE  /\ state' \in {"QSO_RESPOND", "QSO_REPORT"}
           /\ qso' \in QsoContext
           /\ qso'.their_snr /\ qso'.their_call = c /\ ~qso'.partner_hat_uns_gerufen
           /\ pending' \in Seq(Action)
           /\ heard' \subseteq Partners /\ heard_now' \subseteq Partners
<1>1. c \in Partners
  BY CallerTypes DEF Start
<1>2. /\ [NewQso(c) EXCEPT !.their_snr = TRUE] \in QsoContext
      /\ [NewQso(c) EXCEPT !.their_snr = TRUE].their_snr
      /\ [NewQso(c) EXCEPT !.their_snr = TRUE].their_call = c
      /\ ~[NewQso(c) EXCEPT !.their_snr = TRUE].partner_hat_uns_gerufen
  <2>1. [NewQso(c) EXCEPT !.their_snr = TRUE] \in QsoContext
    BY <1>1, NewQsoType, SentType
  <2> QED BY <2>1 DEF NewQso
<1>3. /\ <<Tx("r_report", c)>> \in Seq(Action)
      /\ <<Tx("respond_report", c)>> \in Seq(Action)
  BY <1>1, TxTypes DEF TxKinds
<1>4. \/ Emit(<<Tx("r_report", c)>>, batch)
      \/ Emit(<<Tx("respond_report", c)>>, batch)
  BY DEF Start
<1>5. /\ pending' \in Seq(Action)
      /\ heard' \subseteq Partners /\ heard_now' \subseteq Partners
  BY <1>3, <1>4, EmitType
<1> QED BY <1>2, <1>5 DEF Start

LEMMA CallType ==
    ASSUME HandlerTypeOK, NEW batch \in SUBSET Message, NEW c \in Partners, Call(c, batch)
    PROVE  /\ state' = "QSO_RESPOND"
           /\ qso' \in QsoContext
           /\ qso'.their_call = c /\ ~qso'.partner_hat_uns_gerufen
           /\ pending' \in Seq(Action)
           /\ heard' \subseteq Partners /\ heard_now' \subseteq Partners
<1>1. [NewQso(c) EXCEPT !.gesendet_bei_charge = TRUE] \in QsoContext
  BY NewQsoType, CalledType
<1>2. /\ qso' \in QsoContext
      /\ qso'.their_call = c /\ ~qso'.partner_hat_uns_gerufen
  BY <1>1 DEF Call, NewQso
<1>3. <<Tx("respond_grid", c)>> \in Seq(Action)
  BY TxTypes DEF TxKinds
<1> QED BY <1>2, <1>3, EmitType DEF Call

LEMMA AfterScanType ==
    ASSUME HandlerTypeOK, NEW batch, \E gone \in Dropped(batch) : AfterScan(gone)
    PROVE  /\ grace' \in Partners \cup {None}
           /\ recent_until' \subseteq Partners
           /\ recent_qso_ctx' \in [Partners -> {"none", "live", "expired"}]
           /\ resume_zaehler' \in [Partners -> 0..RESUME_MAX]
           /\ recent_logged' \in [Partners -> 0..RR73_NACHKLANG_MAX \cup {None}]
<1>1. PICK gone \in Dropped(batch) : AfterScan(gone)
  OBVIOUS
<1>2. gone \in SUBSET Partners
  BY DroppedType
<1>3. /\ recent_qso_ctx' \in [Partners -> {"none", "live", "expired"}]
      /\ resume_zaehler' \in [Partners -> 0..RESUME_MAX]
  BY <1>1, <1>2, ScanTypes DEF AfterScan
<1> QED BY <1>1, <1>3 DEF AfterScan, HandlerTypeOK

CqTypeOK ==
    /\ cq_fallback_active \in BOOLEAN /\ cq_fallback_paused \in BOOLEAN
    /\ idle_slots \in 0..hunt_cq_fallback_after_slots
    /\ cq_count \in 0..hunt_cq_fallback_max_cqs

LEMMA IdleSlotType ==
    ASSUME HandlerTypeOK, OneMoreIdleSlot
    PROVE  CqTypeOK'
BY MachineAssumption DEF HandlerTypeOK, OneMoreIdleSlot, CqTypeOK

LEMMA HuntingType ==
    ASSUME HandlerTypeOK, NEW q \in QsoContext \cup {None}, NEW batch \in SUBSET Message,
           Hunting(q, batch)
    PROVE  HandlerTypeOK'
<1>1. CASE Resume(batch)
  BY <1>1, ResumeType
<1>2. CASE ~Resume(batch)
  <2> DEFINE Scan == \E gone \in Dropped(batch) : AfterScan(gone)
  <2>1. Scan
    BY <1>2 DEF Hunting
  <2>2. /\ grace' \in Partners \cup {None}
        /\ recent_until' \subseteq Partners
        /\ recent_qso_ctx' \in [Partners -> {"none", "live", "expired"}]
        /\ resume_zaehler' \in [Partners -> 0..RESUME_MAX]
        /\ recent_logged' \in [Partners -> 0..RR73_NACHKLANG_MAX \cup {None}]
    BY <2>1, AfterScanType
  <2> HIDE DEF Scan
  <2>3. CASE GuardsPass /\ (\E c \in DirectCallers(batch) : Start(c, batch)) /\ UNCHANGED cqVars
    <3>1. PICK c : Start(c, batch)
      BY <2>3
    <3> QED BY <2>2, <2>3, <3>1, StartType DEF HandlerTypeOK, GuardsPass, cqVars, States
  <2>4. CASE /\ GuardsPass
             /\ \E c \in Eligible(batch) : Call(c, batch)
             /\ idle_slots' = 0
             /\ UNCHANGED <<cq_fallback_active, cq_count, cq_fallback_paused>>
    <3>1. PICK c \in Partners : Call(c, batch)
      BY <2>4, EligibleTypes
    <3>2. idle_slots' \in 0..hunt_cq_fallback_after_slots
      BY <2>4, MachineAssumption
    <3> QED BY <2>2, <2>4, <3>1, <3>2, CallType DEF HandlerTypeOK, GuardsPass, States
  <2>5. CASE Lock(q, batch) /\ (UNCHANGED cqVars \/ OneMoreIdleSlot)
    <3>1. CqTypeOK'
      BY <2>5, IdleSlotType DEF HandlerTypeOK, CqTypeOK, cqVars
    <3> QED BY <2>2, <2>5, <3>1, LockType DEF HandlerTypeOK, CqTypeOK, States
  <2>6. CASE Silent(batch) /\ UNCHANGED <<state, last_lock_reason>> /\ qso' = q /\ OneMoreIdleSlot
    <3>1. CqTypeOK'
      BY <2>6, IdleSlotType
    <3> QED BY <2>2, <2>6, <3>1, SilentType DEF HandlerTypeOK, CqTypeOK
  <2> QED BY <1>2, <2>3, <2>4, <2>5, <2>6 DEF Hunting
<1> QED BY <1>1, <1>2

LEMMA CallingType ==
    ASSUME HandlerTypeOK, NEW q \in QsoContext \cup {None}, NEW batch \in SUBSET Message,
           Calling(q, batch)
    PROVE  HandlerTypeOK'
<1>1. CASE Resume(batch)
  BY <1>1, ResumeType
<1>2. CASE ~Resume(batch)
  <2>1. \E gone \in Dropped(batch) : AfterScan(gone)
    BY <1>2 DEF Calling
  <2>2. /\ grace' \in Partners \cup {None}
        /\ recent_until' \subseteq Partners
        /\ recent_qso_ctx' \in [Partners -> {"none", "live", "expired"}]
        /\ resume_zaehler' \in [Partners -> 0..RESUME_MAX]
        /\ recent_logged' \in [Partners -> 0..RR73_NACHKLANG_MAX \cup {None}]
    BY <2>1, AfterScanType
  <2>3. CASE /\ GuardsPass
             /\ \E c : Start(c, batch)
             /\ cq_fallback_active' = FALSE
             /\ UNCHANGED <<idle_slots, cq_count, cq_fallback_paused>>
    <3>1. PICK c : Start(c, batch)
      BY <2>3
    <3> QED BY <2>2, <2>3, <3>1, StartType DEF HandlerTypeOK, GuardsPass, States
  <2>4. CASE /\ GuardsPass
             /\ \E c \in Eligible(batch) : Call(c, batch)
             /\ cq_fallback_active' = FALSE
             /\ idle_slots' = 0
             /\ UNCHANGED <<cq_count, cq_fallback_paused>>
    <3>1. PICK c \in Partners : Call(c, batch)
      BY <2>4, EligibleTypes
    <3>2. idle_slots' \in 0..hunt_cq_fallback_after_slots
      BY <2>4, MachineAssumption
    <3> QED BY <2>2, <2>4, <3>1, <3>2, CallType DEF HandlerTypeOK, GuardsPass, States
  <2>5. CASE Lock(q, batch) /\ UNCHANGED cqVars
    BY <2>2, <2>5, LockType DEF HandlerTypeOK, cqVars, States
  <2>6. CASE Silent(batch) /\ UNCHANGED <<state, last_lock_reason, cqVars>> /\ qso' = q
    BY <2>2, <2>6, SilentType DEF HandlerTypeOK, cqVars
  <2> QED BY <1>2, <2>3, <2>4, <2>5, <2>6 DEF Calling
<1> QED BY <1>1, <1>2

LEMMA ContinueType ==
    ASSUME HandlerTypeOK, NEW q \in QsoContext, NEW next \in States, NEW k \in TxKinds,
           NEW new \in QsoContext, NEW batch \in SUBSET Message,
           Continue(q, next, k, new, batch)
    PROVE  HandlerTypeOK'
<1>1. q.their_call \in Partners
  BY DEF QsoContext
<1>2. CASE ~hw /\ Lock(q, batch)
  <2>1. /\ state' = "TX_LOCKED" /\ qso' = q /\ last_lock_reason' = TRUE
        /\ pending' \in Seq(Action)
        /\ heard' \subseteq Partners /\ heard_now' \subseteq Partners
    BY <1>2, LockType
  <2>2. UNCHANGED <<grace, cqVars, memory>>
    BY DEF Continue
  <2> QED BY <2>1, <2>2 DEF HandlerTypeOK, cqVars, memory, States
<1>3. CASE GuardsPass /\ state' = next /\ qso' = new /\ Emit(<<Tx(k, q.their_call)>>, batch)
  <2>1. /\ pending' \in Seq(Action)
        /\ heard' \subseteq Partners /\ heard_now' \subseteq Partners
    BY <1>1, <1>3, TxTypes, EmitType
  <2> QED BY <1>3, <2>1 DEF Continue, HandlerTypeOK, cqVars, memory, GuardsPass
<1> QED BY <1>2, <1>3 DEF Continue

LEMMA WaitType ==
    ASSUME HandlerTypeOK, NEW q \in QsoContext \cup {None}, NEW batch \in SUBSET Message,
           Wait(q, batch)
    PROVE  HandlerTypeOK'
BY SilentType DEF Wait, HandlerTypeOK, cqVars, memory

LEMMA GiveUpType ==
    ASSUME HandlerTypeOK, NEW q \in QsoContext, NEW r \in BailReasons,
           NEW batch \in SUBSET Message, GiveUp(q, r, batch)
    PROVE  HandlerTypeOK'
BY BailType DEF GiveUp, HandlerTypeOK

LEMMA CompleteType ==
    ASSUME HandlerTypeOK, NEW q \in QsoContext, NEW batch \in SUBSET Message,
           Complete(q, batch)
    PROVE  HandlerTypeOK'
BY EmitLogQsoType, ProgressType DEF Complete, HandlerTypeOK

(* The updates by which Respond and Report make the next context.          *)
LEMMA NextContextTypes ==
    ASSUME NEW q \in QsoContext
    PROVE  /\ [q EXCEPT !.resend_vorgemerkt = None] \in QsoContext
           /\ [q EXCEPT !.stale_slots = 0, !.gesendet_bei_charge = TRUE] \in QsoContext
           /\ [q EXCEPT !.ruf_ausgefallen = FALSE] \in QsoContext
           /\ [q EXCEPT !.freq_hopped_once = TRUE] \in QsoContext
           /\ q.cq_resends < qso_max_cq_resends =>
                  [q EXCEPT !.cq_resends = @ + 1] \in QsoContext
           /\ \A p \in Parities :
                  [q EXCEPT !.resend_vorgemerkt = p, !.stale_slots = 0] \in QsoContext
<1>1. /\ [q EXCEPT !.resend_vorgemerkt = None] \in QsoContext
      /\ [q EXCEPT !.ruf_ausgefallen = FALSE] \in QsoContext
      /\ [q EXCEPT !.freq_hopped_once = TRUE] \in QsoContext
  BY DEF QsoContext
<1>2. 0 \in 0..qso_max_stale_slots
  BY MachineAssumption
<1>3. [q EXCEPT !.stale_slots = 0, !.gesendet_bei_charge = TRUE] \in QsoContext
  BY <1>2 DEF QsoContext
<1>4. ASSUME q.cq_resends < qso_max_cq_resends
      PROVE  [q EXCEPT !.cq_resends = @ + 1] \in QsoContext
  <2>1. q.cq_resends + 1 \in 0..qso_max_cq_resends
    BY <1>4, MachineAssumption DEF QsoContext
  <2> QED BY <2>1 DEF QsoContext
<1>5. \A p \in Parities :
         [q EXCEPT !.resend_vorgemerkt = p, !.stale_slots = 0] \in QsoContext
  BY <1>2 DEF QsoContext
<1> QED BY <1>1, <1>3, <1>4, <1>5

LEMMA RepeatReportType ==
    ASSUME NEW q \in QsoContext, NEW limit \in ReportLimits, q.report_resends < limit
    PROVE  RepeatReport(q) \in QsoContext
<1>1. q.report_resends + 1 \in 0..3
  BY MachineAssumption DEF QsoContext
<1>2. 0 \in 0..qso_max_stale_slots
  BY MachineAssumption
<1> QED BY <1>1, <1>2 DEF RepeatReport, Progress, QsoContext

LEMMA RespondType ==
    ASSUME HandlerTypeOK, state = "QSO_RESPOND",
           NEW q \in QsoContext, NEW batch \in SUBSET Message,
           NEW late \in BOOLEAN, NEW p \in Parities, Respond(q, batch, late, p)
    PROVE  HandlerTypeOK'
<1> DEFINE q1 == [q EXCEPT !.resend_vorgemerkt = None]
           call == [q1 EXCEPT !.stale_slots = 0, !.gesendet_bei_charge = TRUE]
<1>1. q1 \in QsoContext /\ call \in QsoContext
  BY NextContextTypes
<1>2. q1.cq_resends = q.cq_resends /\ call.cq_resends = q.cq_resends
  BY DEF QsoContext
<1>3. CASE Complete(q, batch)
  BY <1>3, CompleteType
<1>4. CASE Continue(q, "QSO_REPORT", "r_report",
                    [Progress(q) EXCEPT !.their_snr = TRUE], batch)
  <2>1. [Progress(q) EXCEPT !.their_snr = TRUE] \in QsoContext
    BY ProgressType, SentType
  <2> QED BY <1>4, <2>1, ContinueType DEF States, TxKinds
<1>5. CASE GiveUp(q, "picked_another", batch)
  BY <1>5, GiveUpType DEF BailReasons
<1>6. CASE Wait(IF q.gesendet_bei_charge THEN q
                ELSE [q EXCEPT !.resend_vorgemerkt = p, !.stale_slots = 0], batch)
  BY <1>6, WaitType, NextContextTypes
<1>7. CASE Continue(q, state, "respond_grid", [call EXCEPT !.ruf_ausgefallen = FALSE], batch)
  <2>1. [call EXCEPT !.ruf_ausgefallen = FALSE] \in QsoContext
    BY <1>1, NextContextTypes
  <2> HIDE DEF call, q1
  <2> QED BY <1>7, <2>1, ContinueType DEF States, TxKinds
<1>8. CASE /\ q.cq_resends < qso_max_cq_resends
           /\ Continue(q1, state, "respond_grid", [call EXCEPT !.cq_resends = @ + 1], batch)
  <2>1. [call EXCEPT !.cq_resends = @ + 1] \in QsoContext
    BY <1>1, <1>2, <1>8, NextContextTypes
  <2> HIDE DEF call, q1
  <2> QED BY <1>1, <1>8, <2>1, ContinueType DEF States, TxKinds
<1>9. CASE Continue(q1, state, "respond_grid", [call EXCEPT !.freq_hopped_once = TRUE], batch)
  <2>1. [call EXCEPT !.freq_hopped_once = TRUE] \in QsoContext
    BY <1>1, NextContextTypes
  <2> HIDE DEF call, q1
  <2> QED BY <1>1, <1>9, <2>1, ContinueType DEF States, TxKinds
<1>10. CASE GiveUp(q1, "max_resends", batch)
  BY <1>1, <1>10, GiveUpType DEF BailReasons
<1>11. CASE Wait(q, batch)
  BY <1>11, WaitType
<1>12. q.cq_resends \in 0..qso_max_cq_resends
  BY DEF QsoContext
<1>13. ~(q.cq_resends >= qso_max_cq_resends) => q.cq_resends < qso_max_cq_resends
  BY <1>12, MachineAssumption
<1> HIDE DEF call, q1
<1> QED BY <1>3, <1>4, <1>5, <1>6, <1>7, <1>8, <1>9, <1>10, <1>11, <1>13
        DEF Respond, call, q1

LEMMA ReportType ==
    ASSUME HandlerTypeOK, NEW q \in QsoContext, NEW batch \in SUBSET Message,
           Report(q, batch)
    PROVE  HandlerTypeOK'
<1>1. CASE Complete(q, batch)
  BY <1>1, CompleteType
<1>2. CASE GiveUp(q, "picked_another", batch)
  BY <1>2, GiveUpType DEF BailReasons
<1>3. CASE Wait(q, batch)
  BY <1>3, WaitType
<1>4. CASE \E limit \in ReportLimits :
              /\ q.report_resends < limit
              /\ Continue(q, state, "r_report", RepeatReport(q), batch)
  <2>1. PICK limit \in ReportLimits :
              /\ q.report_resends < limit
              /\ Continue(q, state, "r_report", RepeatReport(q), batch)
    BY <1>4
  <2>2. RepeatReport(q) \in QsoContext
    BY <2>1, RepeatReportType
  <2>3. state \in States
    BY DEF HandlerTypeOK
  <2> QED BY <2>1, <2>2, <2>3, ContinueType DEF TxKinds
<1> QED BY <1>1, <1>2, <1>3, <1>4 DEF Report

LEMMA GraceType ==
    ASSUME HandlerTypeOK, NEW q \in QsoContext \cup {None}, NEW batch \in SUBSET Message,
           Grace(q, batch)
    PROVE  HandlerTypeOK'
<1>1. CASE grace # None /\ ExitGrace(<<Tx("ack73", grace)>>, batch)
  <2>1. <<Tx("ack73", grace)>> \in Seq(Action)
    BY <1>1, TxTypes DEF HandlerTypeOK, TxKinds
  <2> QED BY <1>1, <2>1, ExitGraceType
<1>2. CASE Lock(q, batch) /\ UNCHANGED <<grace, cqVars, memory>>
  BY <1>2, LockType DEF HandlerTypeOK, cqVars, memory, States
<1>3. CASE Wait(q, batch)
  BY <1>3, WaitType
<1> QED BY <1>1, <1>2, <1>3 DEF Grace

LEMMA DecodeType ==
    ASSUME HandlerTypeOK, NEW batch \in SUBSET Message, NEW late \in BOOLEAN,
           NEW p \in Parities, Decode(batch, late, p)
    PROVE  HandlerTypeOK'
<1> DEFINE q == Preamble(batch, late)
<1>1. q \in QsoContext \cup {None}
  BY PreambleType DEF HandlerTypeOK
<1> HIDE DEF q
<1>2. CASE AnswerLateRReport(batch)
  BY <1>2, AnswerLateRReportType
<1>3. CASE Hunting(q, batch)
  BY <1>1, <1>3, HuntingType
<1>4. CASE Calling(q, batch)
  BY <1>1, <1>4, CallingType
<1>5. CASE state = "QSO_RESPOND" /\ q # None /\ Respond(q, batch, late, p)
  BY <1>1, <1>5, RespondType
<1>6. CASE q # None /\ Report(q, batch)
  BY <1>1, <1>6, ReportType
<1>7. CASE Grace(q, batch)
  BY <1>1, <1>7, GraceType
<1>8. CASE Wait(q, batch)
  BY <1>1, <1>8, WaitType
<1> QED BY <1>2, <1>3, <1>4, <1>5, <1>6, <1>7, <1>8 DEF Decode, q

-----------------------------------------------------------------------------
(* on_slot_tick.                                                           *)

LEMMA EmptyBatch == {} \in SUBSET Message
OBVIOUS

LEMMA CqSlotType ==
    ASSUME HandlerTypeOK, NEW fallback \in BOOLEAN,
           NEW count \in 0..hunt_cq_fallback_max_cqs,
           NEW idle \in 0..hunt_cq_fallback_after_slots,
           CqSlot(fallback, count, idle)
    PROVE  /\ state' \in States
           /\ qso' = qso
           /\ CqTypeOK'
           /\ last_lock_reason' \in BOOLEAN
           /\ pending' \in Seq(Action)
           /\ heard' \subseteq Partners /\ heard_now' \subseteq Partners
<1>1. 0 \in 0..hunt_cq_fallback_max_cqs /\ 0 \in 0..hunt_cq_fallback_after_slots
  BY MachineAssumption
<1>2. count < hunt_cq_fallback_max_cqs => count + 1 \in 0..hunt_cq_fallback_max_cqs
  BY MachineAssumption
<1>3. CASE drain_for_update
  <2>1. state' = "IDLE" /\ qso' = qso /\ last_lock_reason' \in BOOLEAN
    BY <1>3 DEF CqSlot
  <2>2. CqTypeOK'
    BY <1>3 DEF CqSlot, CqTypeOK, HandlerTypeOK
  <2>3. Silent({})
    BY <1>3 DEF CqSlot
  <2> QED BY <2>1, <2>2, <2>3, SilentType, EmptyBatch DEF States
<1>4. CASE ~drain_for_update /\ ~hw
  <2>1. Lock(qso, {})
    BY <1>4 DEF CqSlot, GuardsPass
  <2>2. CqTypeOK'
    BY <1>4 DEF CqSlot, GuardsPass, CqTypeOK, HandlerTypeOK
  <2>3. qso \in QsoContext \cup {None}
    BY DEF HandlerTypeOK
  <2> QED BY <2>1, <2>2, <2>3, LockType, EmptyBatch DEF States
<1>5. CASE /\ ~drain_for_update /\ hw
           /\ fallback /\ count >= hunt_cq_fallback_max_cqs
  <2>1. /\ state' = "IDLE" /\ qso' = qso /\ last_lock_reason' \in BOOLEAN
        /\ Silent({})
    BY <1>5 DEF CqSlot, GuardsPass
  <2>2. CqTypeOK'
    BY <1>1, <1>5 DEF CqSlot, CqTypeOK
  <2> QED BY <2>1, <2>2, SilentType, EmptyBatch DEF States
<1>6. CASE /\ ~drain_for_update /\ hw
           /\ ~(fallback /\ count >= hunt_cq_fallback_max_cqs)
  <2>1. /\ state' = "CQ_CALLING" /\ qso' = qso /\ last_lock_reason' \in BOOLEAN
        /\ Emit(<<Tx("cq", None)>>, {}) \/ Silent({})
    BY <1>6 DEF CqSlot, GuardsPass
  <2>2. CqTypeOK'
    BY <1>2, <1>6 DEF CqSlot, CqTypeOK, HandlerTypeOK
  <2>3. /\ pending' \in Seq(Action)
        /\ heard' \subseteq Partners /\ heard_now' \subseteq Partners
    BY <2>1, SilentType, EmitType, TxTypes, EmptyBatch
  <2> QED BY <2>1, <2>2, <2>3 DEF States
<1> QED BY <1>3, <1>4, <1>5, <1>6

LEMMA IdleTickType ==
    ASSUME HandlerTypeOK, IdleTick
    PROVE  /\ state' \in States
           /\ qso' = qso
           /\ CqTypeOK'
           /\ last_lock_reason' \in BOOLEAN
           /\ pending' \in Seq(Action)
           /\ heard' \subseteq Partners /\ heard_now' \subseteq Partners
<1>1. /\ 0 \in 0..hunt_cq_fallback_max_cqs /\ 0 \in 0..hunt_cq_fallback_after_slots
      /\ cq_count \in 0..hunt_cq_fallback_max_cqs
      /\ idle_slots \in 0..hunt_cq_fallback_after_slots
  BY MachineAssumption DEF HandlerTypeOK
<1>2. CASE CqSlot(FALSE, cq_count, idle_slots)
  BY <1>1, <1>2, CqSlotType
<1>3. CASE CqSlot(TRUE, 0, 0)
  BY <1>1, <1>3, CqSlotType
<1>4. CASE /\ Lock(qso, {})
           /\ cq_fallback_active' = FALSE
           /\ UNCHANGED <<idle_slots, cq_count, cq_fallback_paused>>
  <2>1. qso \in QsoContext \cup {None}
    BY DEF HandlerTypeOK
  <2> QED BY <1>4, <2>1, LockType, EmptyBatch DEF HandlerTypeOK, CqTypeOK, States
<1>5. CASE /\ Silent({})
           /\ cq_fallback_active' = FALSE
           /\ UNCHANGED <<state, qso, last_lock_reason, idle_slots, cq_count,
                          cq_fallback_paused>>
  BY <1>5, SilentType, EmptyBatch DEF HandlerTypeOK, CqTypeOK
<1> QED BY <1>2, <1>3, <1>4, <1>5 DEF IdleTick

LEMMA StaleTickType ==
    ASSUME HandlerTypeOK, qso # None, NEW r \in BailReasons, StaleTick(r)
    PROVE  HandlerTypeOK'
<1>1. qso \in QsoContext
  BY DEF HandlerTypeOK
<1>2. CASE /\ qso.stale_slots < qso_max_stale_slots
           /\ qso' = [qso EXCEPT !.stale_slots = @ + 1]
           /\ Silent({})
           /\ UNCHANGED <<state, grace, cqVars, memory, last_lock_reason>>
  <2>1. qso.stale_slots + 1 \in 0..qso_max_stale_slots
    BY <1>1, <1>2, MachineAssumption DEF QsoContext
  <2>2. qso' \in QsoContext
    BY <1>1, <1>2, <2>1 DEF QsoContext
  <2>3. /\ pending' \in Seq(Action)
        /\ heard' \subseteq Partners /\ heard_now' \subseteq Partners
    BY <1>2, SilentType, EmptyBatch
  <2>4. UNCHANGED <<state, grace, cqVars, memory, last_lock_reason>>
    BY <1>2
  <2> QED BY <2>2, <2>3, <2>4 DEF HandlerTypeOK, cqVars, memory
<1>3. CASE GiveUp(qso, r, {})
  BY <1>1, <1>3, GiveUpType, EmptyBatch
<1> QED BY <1>2, <1>3 DEF StaleTick

LEMMA SlotTickType ==
    ASSUME HandlerTypeOK, OnSlotTick
    PROVE  HandlerTypeOK'
<1>1. CASE IdleTick /\ UNCHANGED <<grace, memory>>
  BY <1>1, IdleTickType DEF HandlerTypeOK, CqTypeOK, memory
<1>2. CASE CqSlot(cq_fallback_active, cq_count, idle_slots) /\ UNCHANGED <<grace, memory>>
  <2>1. /\ cq_fallback_active \in BOOLEAN
        /\ cq_count \in 0..hunt_cq_fallback_max_cqs
        /\ idle_slots \in 0..hunt_cq_fallback_after_slots
    BY DEF HandlerTypeOK
  <2>2. /\ state' \in States
        /\ qso' = qso
        /\ CqTypeOK'
        /\ last_lock_reason' \in BOOLEAN
        /\ pending' \in Seq(Action)
        /\ heard' \subseteq Partners /\ heard_now' \subseteq Partners
    BY <1>2, <2>1, CqSlotType
  <2> QED BY <1>2, <2>2 DEF HandlerTypeOK, CqTypeOK, memory
<1>3. CASE qso # None /\ (StaleTick("went_silent") \/ StaleTick("report_never_closed"))
  BY <1>3, StaleTickType DEF BailReasons
<1>4. CASE ExitGrace(<<>>, {})
  BY <1>4, ExitGraceType, SeqTypes, EmptyBatch
<1>5. CASE /\ Silent({})
           /\ UNCHANGED <<state, qso, grace, cqVars, memory, last_lock_reason>>
  BY <1>5, SilentType, EmptyBatch DEF HandlerTypeOK, cqVars, memory
<1> QED BY <1>1, <1>2, <1>3, <1>4, <1>5 DEF OnSlotTick

-----------------------------------------------------------------------------
(* The whole machine.                                                      *)

RestTypeOK ==
    /\ auto_cq \in BOOLEAN /\ auto_answer \in BOOLEAN /\ drain_for_update \in BOOLEAN
    /\ hw \in BOOLEAN
    /\ parity \in Parities
    /\ turn \in {"any", "tick", "slot", "pre", "second", "late", "user"}
    /\ owed \in {"none", "slot", "other"}
    /\ on_air \in BOOLEAN
    /\ rufe \in 0..MaxCalls
    /\ stopped \in {"no", "stop", "panic"}

LEMMA TypeSplit == TypeOK <=> HandlerTypeOK /\ RestTypeOK
BY DEF TypeOK, HandlerTypeOK, RestTypeOK

(* A step that leaves most of the machine alone.                           *)
MemoryTypeOK ==
    /\ recent_until \subseteq Partners
    /\ recent_qso_ctx \in [Partners -> {"none", "live", "expired"}]
    /\ resume_zaehler \in [Partners -> 0..RESUME_MAX]
    /\ recent_logged \in [Partners -> 0..RR73_NACHKLANG_MAX \cup {None}]

OutputTypeOK ==
    /\ pending \in Seq(Action)
    /\ heard \subseteq Partners /\ heard_now \subseteq Partners

ControlTypeOK ==
    /\ state \in States
    /\ qso \in QsoContext \cup {None}
    /\ grace \in Partners \cup {None}
    /\ last_lock_reason \in BOOLEAN

LEMMA HandlerSplit ==
    HandlerTypeOK <=> ControlTypeOK /\ CqTypeOK /\ MemoryTypeOK /\ OutputTypeOK
BY DEF HandlerTypeOK, ControlTypeOK, CqTypeOK, MemoryTypeOK, OutputTypeOK

LEMMA TypeParts ==
    (ControlTypeOK /\ CqTypeOK /\ MemoryTypeOK /\ OutputTypeOK /\ RestTypeOK)' => TypeOK'
BY DEF TypeOK, ControlTypeOK, CqTypeOK, MemoryTypeOK, OutputTypeOK, RestTypeOK

LEMMA HandlerParts == (HandlerTypeOK /\ RestTypeOK)' => TypeOK'
BY DEF TypeOK, HandlerTypeOK, RestTypeOK

LEMMA UnchangedTypes ==
    /\ CqTypeOK /\ UNCHANGED cqVars => CqTypeOK'
    /\ MemoryTypeOK /\ UNCHANGED memory => MemoryTypeOK'
    /\ OutputTypeOK /\ UNCHANGED output => OutputTypeOK'
    /\ ControlTypeOK /\ UNCHANGED <<state, qso, grace, last_lock_reason>> => ControlTypeOK'
<1>1. CqTypeOK /\ UNCHANGED cqVars => CqTypeOK'
  BY DEF CqTypeOK, cqVars
<1>2. MemoryTypeOK /\ UNCHANGED memory => MemoryTypeOK'
  BY DEF MemoryTypeOK, memory
<1>3. OutputTypeOK /\ UNCHANGED output => OutputTypeOK'
  BY DEF OutputTypeOK, output
<1>4. ControlTypeOK /\ UNCHANGED <<state, qso, grace, last_lock_reason>> => ControlTypeOK'
  BY DEF ControlTypeOK
<1> QED BY <1>1, <1>2, <1>3, <1>4

LEMMA ZeroTypes ==
    /\ 0 \in 0..MaxCalls /\ 0 \in 0..RESUME_MAX
    /\ 0 \in 0..hunt_cq_fallback_after_slots /\ 0 \in 0..hunt_cq_fallback_max_cqs
BY MachineAssumption DEF MaxCalls

LEMMA InitType == Init => TypeOK
<1> SUFFICES ASSUME Init PROVE TypeOK
  OBVIOUS
<1>1. auto_cq \in BOOLEAN /\ auto_answer \in BOOLEAN
  BY MachineAssumption DEF Init
<1>2. /\ recent_qso_ctx \in [Partners -> {"none", "live", "expired"}]
      /\ resume_zaehler \in [Partners -> 0..RESUME_MAX]
      /\ recent_logged \in [Partners -> 0..RR73_NACHKLANG_MAX \cup {None}]
  BY ZeroTypes DEF Init
<1>3. pending \in Seq(Action)
  BY SeqTypes DEF Init
<1> QED BY <1>1, <1>2, <1>3, ZeroTypes DEF Init, TypeOK, States, Parities

LEMMA OnDecodesType ==
    ASSUME TypeOK, NEW kind \in BatchKinds, NEW batch \in Batches[HeardSlot(kind)],
           OnDecodes(batch, kind)
    PROVE  TypeOK'
<1>1. HeardSlot(kind) \in Parities /\ parity' \in Parities
  BY DEF TypeOK, OnDecodes, HeardSlot, Flip, Parities
<1>2. batch \in SUBSET Message
  BY <1>1, MachineAssumption
<1>3. HandlerTypeOK'
  BY <1>1, <1>2, TypeSplit, DecodeType DEF OnDecodes
<1>4. turn' \in {"any", "tick", "slot", "pre", "second", "late", "user"}
  BY MachineAssumption DEF OnDecodes
<1>5. rufe' \in 0..MaxCalls
  BY ZeroTypes DEF OnDecodes, TypeOK
<1>6. /\ UNCHANGED <<auto_cq, auto_answer, drain_for_update, hw, owed, stopped>>
      /\ on_air' \in BOOLEAN
  BY DEF OnDecodes, modes, TypeOK
<1>7. RestTypeOK'
  BY <1>1, <1>4, <1>5, <1>6, TypeSplit DEF RestTypeOK
<1> QED BY <1>3, <1>7, HandlerParts

LEMMA OnSlotTickType ==
    ASSUME TypeOK, OnSlotTick
    PROVE  TypeOK'
<1>1. HandlerTypeOK'
  BY TypeSplit, SlotTickType
<1>2. RestTypeOK'
  BY TypeSplit DEF OnSlotTick, modes, history, RestTypeOK
<1> QED BY <1>1, <1>2, HandlerParts

LEMMA DrainActionsType ==
    ASSUME TypeOK, DrainActions
    PROVE  TypeOK'
<1>1. LoggedIn(pending) \subseteq Partners
  <2> SUFFICES ASSUME NEW x \in Elements(pending), x.act = "LOG_QSO"
               PROVE  x.call \in Partners
    BY DEF LoggedIn, OfKind
  <2>1. x \in Action
    BY DEF Elements, TypeOK
  <2> QED BY <2>1 DEF Action
<1>2. HandlerTypeOK'
  <2>1. /\ recent_until' \subseteq Partners
        /\ heard' \subseteq Partners /\ heard_now' \subseteq Partners
        /\ pending' \in Seq(Action)
    BY <1>1, SeqTypes DEF DrainActions, TypeOK
  <2> QED BY <2>1, TypeSplit DEF DrainActions, HandlerTypeOK, cqVars
<1>3. RestTypeOK'
  BY TypeSplit DEF DrainActions, modes, history, RestTypeOK
<1> QED BY <1>2, <1>3, HandlerParts

LEMMA BurstType ==
    ASSUME TypeOK, TxSent \/ TxDropped \/ TxLate \/ SwrRunaway
    PROVE  TypeOK'
<1>0. ControlTypeOK /\ CqTypeOK /\ MemoryTypeOK /\ OutputTypeOK /\ RestTypeOK
  BY TypeSplit, HandlerSplit
<1>a. CqTypeOK' /\ MemoryTypeOK' /\ OutputTypeOK'
  <2>1. UNCHANGED cqVars /\ UNCHANGED memory /\ UNCHANGED output
    BY DEF TxSent, TxDropped, TxLate, SwrRunaway, outside
  <2> QED BY <1>0, <2>1, UnchangedTypes
<1>b. qso' \in QsoContext \cup {None}
  <2>1. CASE TxDropped /\ state = "QSO_RESPOND" /\ qso # None
    <3>1. qso \in QsoContext /\ parity \in Parities
      BY <2>1 DEF TypeOK
    <3> QED BY <2>1, <3>1 DEF TxDropped, QsoContext
  <2>2. CASE qso' = qso
    BY <2>2 DEF TypeOK
  <2> QED BY <2>1, <2>2 DEF TxSent, TxDropped, TxLate, SwrRunaway, outside
<1>c. ControlTypeOK'
  BY <1>0, <1>b DEF TxSent, TxDropped, TxLate, SwrRunaway, outside, ControlTypeOK, States
<1>d. rufe' \in 0..MaxCalls
  BY MachineAssumption DEF TxSent, TxDropped, TxLate, SwrRunaway, history, TypeOK, MaxCalls
<1>e. RestTypeOK'
  BY <1>0, <1>d DEF TxSent, TxDropped, TxLate, SwrRunaway, outside, history, modes, RestTypeOK
<1> QED BY <1>a, <1>c, <1>e, TypeParts

LEMMA OperatorType ==
    ASSUME TypeOK,
           \/ UserStartCq \/ UserStop \/ UserPanic \/ UserSkipQso \/ SwitchOperator
           \/ UserResetLock \/ UserReplyTo \/ SetAutoAnswer \/ SetDrainForUpdate
    PROVE  TypeOK'
<1>0. ControlTypeOK /\ CqTypeOK /\ MemoryTypeOK /\ OutputTypeOK /\ RestTypeOK
  BY TypeSplit, HandlerSplit
<1>a. HandlerTypeOK /\ {} \in SUBSET Message /\ qso \in QsoContext \cup {None}
  BY TypeSplit, EmptyBatch DEF TypeOK
<1>b. ASSUME Emit(<<StopTx>>, {}) \/ Emit(<<Tx("cq", None)>>, {}) \/ Lock(qso, {})
      PROVE  OutputTypeOK'
  BY <1>a, <1>b, EmitType, LockType, TxTypes DEF OutputTypeOK
<1>c. MemoryTypeOK'
  <2>1. UNCHANGED memory
    BY DEF UserStartCq, UserStop, UserPanic, Stop, UserSkipQso, SwitchOperator, UserResetLock,
           UserReplyTo, SetAutoAnswer, SetDrainForUpdate, settings
  <2> QED BY <1>0, <2>1, UnchangedTypes
<1>1. CASE UserStartCq
  <2>1. OutputTypeOK'
    BY <1>1, <1>b DEF UserStartCq
  <2>2. ControlTypeOK'
    BY <1>0, <1>1 DEF UserStartCq, GuardsPass, Lock, States, ControlTypeOK
  <2>3. CqTypeOK'
    BY <1>0, <1>1, ZeroTypes DEF UserStartCq, CqTypeOK
  <2>4. RestTypeOK'
    BY <1>0, <1>1 DEF UserStartCq, Command, settings, RestTypeOK
  <2> QED BY <1>c, <2>1, <2>2, <2>3, <2>4, TypeParts
<1>2. CASE UserStop \/ UserPanic
  <2>1. Stop /\ turn' = "user" /\ stopped' \in {"no", "stop", "panic"}
    BY <1>2 DEF UserStop, UserPanic, Command
  <2>2. OutputTypeOK'
    BY <1>b, <2>1 DEF Stop
  <2>3. ControlTypeOK' /\ CqTypeOK'
    BY <1>0, <2>1, ZeroTypes DEF Stop, ControlTypeOK, CqTypeOK, States
  <2>4. RestTypeOK'
    BY <1>0, <2>1 DEF Stop, settings, RestTypeOK
  <2> QED BY <1>c, <2>2, <2>3, <2>4, TypeParts
<1>3. CASE UserSkipQso \/ SwitchOperator
  <2>1. OutputTypeOK'
    BY <1>3, <1>b DEF UserSkipQso, SwitchOperator
  <2>2. ControlTypeOK'
    BY <1>0, <1>3 DEF UserSkipQso, SwitchOperator, ControlTypeOK, States
  <2>3. CqTypeOK'
    BY <1>0, <1>3, UnchangedTypes DEF UserSkipQso, SwitchOperator
  <2>4. RestTypeOK'
    BY <1>0, <1>3 DEF UserSkipQso, SwitchOperator, Command, modes, settings, RestTypeOK
  <2> QED BY <1>c, <2>1, <2>2, <2>3, <2>4, TypeParts
<1>5. CASE UserResetLock
  <2>1. ControlTypeOK'
    BY <1>0, <1>5 DEF UserResetLock, ControlTypeOK, States
  <2>2. CqTypeOK' /\ OutputTypeOK'
    BY <1>0, <1>5, UnchangedTypes DEF UserResetLock
  <2>3. RestTypeOK'
    BY <1>0, <1>5 DEF UserResetLock, Command, modes, settings, RestTypeOK
  <2> QED BY <1>c, <2>1, <2>2, <2>3, TypeParts
<1>6. CASE UserReplyTo
  <2>1. PICK c \in Calls : (GuardsPass /\ Call(c, {})) \/ (~hw /\ Lock(qso, {}))
    BY <1>6 DEF UserReplyTo
  <2>2. c \in Partners
    BY DEF Partners
  <2>3. OutputTypeOK'
    BY <1>a, <1>b, <2>1, <2>2, CallType DEF OutputTypeOK
  <2>4. /\ state' \in States /\ qso' \in QsoContext \cup {None}
        /\ last_lock_reason' \in BOOLEAN
    BY <1>a, <2>1, <2>2, CallType, LockType DEF GuardsPass, States
  <2>5. ControlTypeOK'
    BY <1>0, <1>6, <2>4 DEF UserReplyTo, ControlTypeOK
  <2>6. CqTypeOK'
    BY <1>0, <1>6, UnchangedTypes DEF UserReplyTo
  <2>7. RestTypeOK'
    BY <1>0, <1>6, ZeroTypes DEF UserReplyTo, Command, modes, RestTypeOK
  <2> QED BY <1>c, <2>3, <2>5, <2>6, <2>7, TypeParts
<1>7. CASE SetAutoAnswer
  <2>1. OutputTypeOK'
    BY <1>0, <1>7, <1>b, UnchangedTypes DEF SetAutoAnswer, output
  <2>2. ControlTypeOK' /\ CqTypeOK'
    BY <1>0, <1>7, ZeroTypes DEF SetAutoAnswer, cqVars, ControlTypeOK, CqTypeOK, States
  <2>3. RestTypeOK'
    BY <1>0, <1>7 DEF SetAutoAnswer, Command, settings, RestTypeOK
  <2> QED BY <1>c, <2>1, <2>2, <2>3, TypeParts
<1>8. CASE SetDrainForUpdate
  <2>1. ControlTypeOK'
    BY <1>0, <1>8, UnchangedTypes DEF SetDrainForUpdate
  <2>2. CqTypeOK' /\ OutputTypeOK'
    BY <1>0, <1>8, UnchangedTypes DEF SetDrainForUpdate
  <2>3. RestTypeOK'
    BY <1>0, <1>8 DEF SetDrainForUpdate, Command, settings, RestTypeOK
  <2> QED BY <1>c, <2>1, <2>2, <2>3, TypeParts
<1> QED BY <1>1, <1>2, <1>3, <1>5, <1>6, <1>7, <1>8

LEMMA TimeType ==
    ASSUME TypeOK,
           HardwareChanges \/ CooldownEnds \/ ContextExpires \/ LoggedExpires \/ PauseEnds
    PROVE  TypeOK'
<1>0. ControlTypeOK /\ CqTypeOK /\ MemoryTypeOK /\ OutputTypeOK /\ RestTypeOK
  BY TypeSplit, HandlerSplit
<1>1. UNCHANGED internal
  BY DEF HardwareChanges, CooldownEnds, ContextExpires, LoggedExpires, PauseEnds
<1>2. ControlTypeOK' /\ OutputTypeOK'
  BY <1>0, <1>1, UnchangedTypes DEF internal
<1>3. CqTypeOK'
  BY <1>0, <1>1 DEF internal, CqTypeOK,
        HardwareChanges, CooldownEnds, ContextExpires, LoggedExpires, PauseEnds
<1>4. MemoryTypeOK'
  <2>1. CASE HardwareChanges \/ PauseEnds
    BY <1>0, <2>1, UnchangedTypes DEF HardwareChanges, PauseEnds
  <2>2. CASE CooldownEnds
    BY <1>0, <2>2 DEF CooldownEnds, MemoryTypeOK
  <2>3. CASE ContextExpires
    BY <1>0, <2>3 DEF ContextExpires, MemoryTypeOK
  <2>4. CASE LoggedExpires
    BY <1>0, <2>4 DEF LoggedExpires, MemoryTypeOK
  <2> QED BY <2>1, <2>2, <2>3, <2>4
<1>5. hw' \in BOOLEAN
  BY DEF TypeOK, HardwareChanges, CooldownEnds, ContextExpires, LoggedExpires, PauseEnds
<1>6. RestTypeOK'
  BY <1>0, <1>1, <1>5 DEF internal, modes, history, RestTypeOK
<1> QED BY <1>2, <1>3, <1>4, <1>6, TypeParts

LEMMA StutterType == TypeOK /\ UNCHANGED vars => TypeOK'
<1> SUFFICES ASSUME TypeOK, UNCHANGED vars PROVE TypeOK'
  OBVIOUS
<1>0. ControlTypeOK /\ CqTypeOK /\ MemoryTypeOK /\ OutputTypeOK /\ RestTypeOK
  BY TypeSplit, HandlerSplit
<1>1. ControlTypeOK' /\ CqTypeOK' /\ MemoryTypeOK' /\ OutputTypeOK'
  BY <1>0, UnchangedTypes DEF vars
<1>2. RestTypeOK'
  BY <1>0 DEF vars, modes, history, RestTypeOK
<1> QED BY <1>1, <1>2, TypeParts

(* Every counter of the machine stays within its cap and every variable    *)
(* within its type, whatever is decoded, done by the operator or fails.    *)
THEOREM TypeCorrect == Spec => []TypeOK
<1>1. Init => TypeOK
  BY InitType
<1>2. TypeOK /\ [Next]_vars => TypeOK'
  <2> SUFFICES ASSUME TypeOK, [Next]_vars PROVE TypeOK'
    OBVIOUS
  <2>1. CASE \E kind \in BatchKinds : \E batch \in Batches[HeardSlot(kind)] : OnDecodes(batch, kind)
    BY <2>1, OnDecodesType
  <2>2. CASE OnSlotTick
    BY <2>2, OnSlotTickType
  <2>3. CASE DrainActions
    BY <2>3, DrainActionsType
  <2>4. CASE TxSent \/ TxDropped \/ TxLate \/ SwrRunaway
    BY <2>4, BurstType
  <2>5. CASE \/ UserStartCq \/ UserStop \/ UserPanic \/ UserSkipQso \/ SwitchOperator
             \/ UserResetLock \/ UserReplyTo \/ SetAutoAnswer \/ SetDrainForUpdate
    BY <2>5, OperatorType
  <2>6. CASE HardwareChanges \/ CooldownEnds \/ ContextExpires \/ LoggedExpires \/ PauseEnds
    BY <2>6, TimeType
  <2>7. CASE UNCHANGED vars
    BY <2>7, StutterType
  <2> QED BY <2>1, <2>2, <2>3, <2>4, <2>5, <2>6, <2>7 DEF Next
<1> QED BY <1>1, <1>2, PTL DEF Spec
=============================================================================
