--------------------------- MODULE QsoSafetyProofs ---------------------------
(***************************************************************************)
(* The safety invariants of QsoMachine hold for every number of stations   *)
(* and every value of its limits.                                          *)
(*                                                                         *)
(* None of them is inductive alone.  A handler appends to a queue that the *)
(* handlers before it in the same round have filled, so each needs to know *)
(* what the queue may hold between rounds and that hw does not change      *)
(* while something is queued; and a QSO is logged on the strength of a     *)
(* flag in its context, which must not claim more than was heard.  That    *)
(* nothing starts by itself after stop, that a call goes to the partner of *)
(* the QSO, that a cooldown is kept and that a drained station stays at    *)
(* rest are proved over the steps, each with what it adds to the           *)
(* invariant.                                                              *)
(***************************************************************************)
EXTENDS QsoMachineProofs

(* Between rounds the queue holds at most a STOP_TX of an operator command.*)
NothingQueued ==
    /\ OfKind(pending, "TX_MESSAGE") = {}
    /\ OfKind(pending, "TX_LOCKED") = {}
    /\ LoggedIn(pending) = {}

QueueEmptyBetweenRounds == turn = "any" => NothingQueued

(* While a log entry is queued there is no QSO.                            *)
LogEndsQso == LoggedIn(pending) # {} => qso = None

(* The flag that lets a QSO be logged means that its station was heard.    *)
CalledUsIsTrue ==
    qso # None /\ qso.partner_hat_uns_gerufen => qso.their_call \in heard

(* What every handler establishes.                                         *)
Safe ==
    /\ ContextMatchesState
    /\ TransmissionsAreGuarded
    /\ LoggedWereHeard
    /\ LogEndsQso
    /\ CalledUsIsTrue

SafetyInv == TypeOK /\ Safe /\ QueueEmptyBetweenRounds

-----------------------------------------------------------------------------
(* The queue.                                                              *)

LEMMA ElementsOfConcat ==
    ASSUME NEW S, NEW s \in Seq(S), NEW t \in Seq(S)
    PROVE  Elements(s \o t) = Elements(s) \cup Elements(t)
<1>1. ASSUME NEW i \in DOMAIN s PROVE s[i] \in Elements(s \o t)
  <2>1. i \in DOMAIN (s \o t) /\ (s \o t)[i] = s[i]
    OBVIOUS
  <2> QED BY <2>1 DEF Elements
<1>2. ASSUME NEW i \in DOMAIN t PROVE t[i] \in Elements(s \o t)
  <2>1. i + Len(s) \in DOMAIN (s \o t) /\ (s \o t)[i + Len(s)] = t[i]
    OBVIOUS
  <2> QED BY <2>1 DEF Elements
<1>3. ASSUME NEW i \in DOMAIN (s \o t)
      PROVE  (s \o t)[i] \in Elements(s) \cup Elements(t)
  <2>1. CASE i \in DOMAIN s
    <3>1. (s \o t)[i] = s[i]
      BY <2>1
    <3> QED BY <2>1, <3>1 DEF Elements
  <2>2. CASE i \notin DOMAIN s
    <3>1. i - Len(s) \in DOMAIN t /\ (s \o t)[i] = t[i - Len(s)]
      BY <2>2
    <3> QED BY <3>1 DEF Elements
  <2> QED BY <2>1, <2>2
<1> QED BY <1>1, <1>2, <1>3 DEF Elements

LEMMA ElementsOfTuples ==
    /\ Elements(<<>>) = {}
    /\ \A x : Elements(<<x>>) = {x}
    /\ \A x, y : Elements(<<x, y>>) = {x, y}
    /\ \A x, y, z : Elements(<<x, y, z>>) = {x, y, z}
BY DEF Elements

LEMMA KindsOfConcat ==
    ASSUME NEW s \in Seq(Action), NEW t \in Seq(Action)
    PROVE  /\ \A k : OfKind(s \o t, k) = OfKind(s, k) \cup OfKind(t, k)
           /\ LoggedIn(s \o t) = LoggedIn(s) \cup LoggedIn(t)
<1>1. Elements(s \o t) = Elements(s) \cup Elements(t)
  BY ElementsOfConcat
<1>2. \A k : OfKind(s \o t, k) = OfKind(s, k) \cup OfKind(t, k)
  BY <1>1 DEF OfKind
<1> QED BY <1>2 DEF LoggedIn

(* Who addresses us in a batch.                                            *)
Addressers(batch) == {m.from : m \in {x \in batch : AddressesUs(x)}}

LEMMA EmitEffect ==
    ASSUME pending \in Seq(Action), NEW acts \in Seq(Action), NEW batch, Emit(acts, batch)
    PROVE  /\ \A k : OfKind(pending', k) = OfKind(pending, k) \cup OfKind(acts, k)
           /\ LoggedIn(pending') = LoggedIn(pending) \cup LoggedIn(acts)
           /\ heard' = heard \cup Addressers(batch)
BY KindsOfConcat DEF Emit, Addressers

(* What each kind of output adds to the queue.                             *)
LEMMA KindsOfOutputs ==
    /\ OfKind(<<>>, "TX_MESSAGE") = {}
    /\ OfKind(<<>>, "TX_LOCKED") = {}
    /\ LoggedIn(<<>>) = {}
    /\ \A k, c : /\ OfKind(<<Tx(k, c)>>, "TX_LOCKED") = {}
                 /\ LoggedIn(<<Tx(k, c)>>) = {}
    /\ OfKind(<<TxLocked, StopTx>>, "TX_MESSAGE") = {}
    /\ LoggedIn(<<TxLocked, StopTx>>) = {}
    /\ OfKind(<<StopTx>>, "TX_MESSAGE") = {}
    /\ OfKind(<<StopTx>>, "TX_LOCKED") = {}
    /\ LoggedIn(<<StopTx>>) = {}
    /\ \A c, r : /\ OfKind(<<StopTx, Bailed(c, r)>>, "TX_MESSAGE") = {}
                 /\ OfKind(<<StopTx, Bailed(c, r)>>, "TX_LOCKED") = {}
                 /\ LoggedIn(<<StopTx, Bailed(c, r)>>) = {}
    /\ \A k, c, q : /\ OfKind(<<Tx(k, c), LogEntry(q)>>, "TX_LOCKED") = {}
                    /\ LoggedIn(<<Tx(k, c), LogEntry(q)>>) = {q.their_call}
    /\ \A q : /\ OfKind(<<TxLocked, StopTx, LogEntry(q)>>, "TX_MESSAGE") = {}
              /\ LoggedIn(<<TxLocked, StopTx, LogEntry(q)>>) = {q.their_call}
BY ElementsOfTuples DEF OfKind, LoggedIn, Tx, LogEntry, Bailed, StopTx, TxLocked

-----------------------------------------------------------------------------
(* Handlers.                                                               *)

(* The flag of q is covered by what was heard up to this batch.            *)
HeardBy(q, batch) ==
    q # None /\ q.partner_hat_uns_gerufen => q.their_call \in heard \cup Addressers(batch)

(* The queue is safe before a handler that leaves state' and qso'.         *)
QueueSafe ==
    /\ OfKind(pending, "TX_MESSAGE") # {} => hw
    /\ OfKind(pending, "TX_LOCKED") # {} => ~hw /\ state' = "TX_LOCKED"
    /\ LoggedIn(pending) \subseteq heard
    /\ LoggedIn(pending) # {} => qso' = None

LEMMA EmitSafe ==
    ASSUME HandlerTypeOK, QueueSafe, hw' = hw, ContextMatchesState',
           NEW acts \in Seq(Action), NEW batch, Emit(acts, batch),
           OfKind(acts, "TX_MESSAGE") # {} => hw,
           OfKind(acts, "TX_LOCKED") # {} => ~hw /\ state' = "TX_LOCKED",
           LoggedIn(acts) \subseteq heard \cup Addressers(batch),
           LoggedIn(acts) # {} => qso' = None,
           qso' # None /\ qso'.partner_hat_uns_gerufen =>
               qso'.their_call \in heard \cup Addressers(batch)
    PROVE  Safe'
<1>1. /\ OfKind(pending', "TX_MESSAGE") =
             OfKind(pending, "TX_MESSAGE") \cup OfKind(acts, "TX_MESSAGE")
      /\ OfKind(pending', "TX_LOCKED") =
             OfKind(pending, "TX_LOCKED") \cup OfKind(acts, "TX_LOCKED")
      /\ LoggedIn(pending') = LoggedIn(pending) \cup LoggedIn(acts)
      /\ heard' = heard \cup Addressers(batch)
  BY EmitEffect DEF HandlerTypeOK
<1>2. TransmissionsAreGuarded'
  BY <1>1 DEF QueueSafe, TransmissionsAreGuarded
<1>3. LoggedWereHeard' /\ LogEndsQso' /\ CalledUsIsTrue'
  BY <1>1 DEF QueueSafe, LoggedWereHeard, LogEndsQso, CalledUsIsTrue
<1> QED BY <1>2, <1>3 DEF Safe

LEMMA SilentSafe ==
    ASSUME HandlerTypeOK, QueueSafe, hw' = hw, ContextMatchesState',
           NEW batch, Silent(batch),
           qso' # None /\ qso'.partner_hat_uns_gerufen =>
               qso'.their_call \in heard \cup Addressers(batch)
    PROVE  Safe'
BY EmitSafe, SeqTypes, KindsOfOutputs DEF Silent

LEMMA SendSafe ==
    ASSUME HandlerTypeOK, QueueSafe, hw, hw' = hw, ContextMatchesState',
           NEW k \in TxKinds, NEW c \in Partners \cup {None}, NEW batch, Emit(<<Tx(k, c)>>, batch),
           qso' # None /\ qso'.partner_hat_uns_gerufen =>
               qso'.their_call \in heard \cup Addressers(batch)
    PROVE  Safe'
<1>1. <<Tx(k, c)>> \in Seq(Action)
  BY ActionTypes, SeqTypes
<1>2. /\ OfKind(<<Tx(k, c)>>, "TX_LOCKED") = {}
      /\ LoggedIn(<<Tx(k, c)>>) = {}
  BY KindsOfOutputs
<1> QED BY <1>1, <1>2, EmitSafe

LEMMA LockSafe ==
    ASSUME HandlerTypeOK, QueueSafe, ~hw, hw' = hw,
           NEW q, NEW batch, Lock(q, batch), HeardBy(q, batch)
    PROVE  Safe'
<1>1. <<TxLocked, StopTx>> \in Seq(Action)
  BY ActionTypes, SeqTypes
<1>2. state' = "TX_LOCKED" /\ qso' = q /\ Emit(<<TxLocked, StopTx>>, batch)
  BY DEF Lock
<1>3. ContextMatchesState'
  BY <1>2 DEF ContextMatchesState
<1> QED BY <1>1, <1>2, <1>3, KindsOfOutputs, EmitSafe DEF HeardBy

LEMMA BailSafe ==
    ASSUME HandlerTypeOK, QueueSafe, hw' = hw, NEW q \in QsoContext, NEW r \in BailReasons,
           NEW batch, NEW ctx, NEW zaehler, Bail(q, r, batch, ctx, zaehler)
    PROVE  Safe'
<1>1. q.their_call \in Partners
  BY DEF QsoContext
<1>2. <<StopTx, Bailed(q.their_call, r)>> \in Seq(Action)
  BY <1>1, ActionTypes, SeqTypes
<1>3. state' = "IDLE" /\ qso' = None /\ Emit(<<StopTx, Bailed(q.their_call, r)>>, batch)
  BY DEF Bail
<1>4. ContextMatchesState'
  BY <1>3 DEF ContextMatchesState
<1> QED BY <1>2, <1>3, <1>4, KindsOfOutputs, EmitSafe

LEMMA EmitLogQsoSafe ==
    ASSUME HandlerTypeOK, QueueSafe, hw' = hw, NEW q \in QsoContext,
           NEW batch, NEW ctx, NEW zaehler, HeardBy(q, batch),
           EmitLogQso(q, batch, ctx, zaehler)
    PROVE  Safe'
<1>1. q.their_call \in Partners /\ q # None
  BY MachineAssumption DEF QsoContext
<1>2. CASE Plausible(q, batch)
  <2>1. q.their_call \in heard \cup Addressers(batch)
    BY <1>1, <1>2 DEF Plausible, HeardBy, PartnerAddressesUs, Addressers
  <2>2. qso' = None
    BY <1>2 DEF EmitLogQso
  <2>3. /\ <<Tx("rr73", q.their_call), LogEntry(q)>> \in Seq(Action)
        /\ <<TxLocked, StopTx, LogEntry(q)>> \in Seq(Action)
    BY <1>1, ActionTypes, SeqTypes DEF TxKinds
  <2>4. CASE /\ GuardsPass /\ grace' = q.their_call /\ state' = "QSO_GRACE"
             /\ Emit(<<Tx("rr73", q.their_call), LogEntry(q)>>, batch)
    <3>1. ContextMatchesState'
      BY <1>1, <2>2, <2>4, CallsAssumption DEF ContextMatchesState, Partners
    <3> QED BY <2>1, <2>2, <2>3, <2>4, <3>1, KindsOfOutputs, EmitSafe DEF GuardsPass
  <2>5. CASE /\ ~hw /\ state' = "TX_LOCKED"
             /\ Emit(<<TxLocked, StopTx, LogEntry(q)>>, batch)
    <3>1. ContextMatchesState'
      BY <2>5 DEF ContextMatchesState
    <3> QED BY <2>1, <2>2, <2>3, <2>5, <3>1, KindsOfOutputs, EmitSafe
  <2> QED BY <1>2, <2>4, <2>5 DEF EmitLogQso
<1>3. CASE ~Plausible(q, batch)
  BY <1>3, BailSafe DEF EmitLogQso, BailReasons
<1> QED BY <1>2, <1>3

LEMMA ExitGraceSafe ==
    ASSUME HandlerTypeOK, QueueSafe, hw' = hw, qso = None, NEW before \in Seq(Action),
           NEW batch, ExitGrace(before, batch),
           OfKind(before, "TX_MESSAGE") # {} => hw,
           OfKind(before, "TX_LOCKED") = {}, LoggedIn(before) = {}
    PROVE  Safe'
<1>1. qso' = None /\ ContextMatchesState'
  BY DEF ExitGrace, ContextMatchesState
<1>2. CASE Emit(before, batch)
  BY <1>1, <1>2, EmitSafe
<1>3. CASE hw /\ Emit(before \o <<Tx("cq", None)>>, batch)
  <2>1. /\ <<Tx("cq", None)>> \in Seq(Action)
        /\ before \o <<Tx("cq", None)>> \in Seq(Action)
    BY TxTypes, SeqTypes
  <2>3. /\ OfKind(before \o <<Tx("cq", None)>>, "TX_LOCKED") = {}
        /\ LoggedIn(before \o <<Tx("cq", None)>>) = {}
    BY <2>1, KindsOfConcat, KindsOfOutputs
  <2> QED BY <1>1, <1>3, <2>1, <2>3, EmitSafe
<1>4. CASE ~hw /\ state' = "TX_LOCKED" /\ Emit(before \o <<TxLocked, StopTx>>, batch)
  <2>1. /\ <<TxLocked, StopTx>> \in Seq(Action)
        /\ before \o <<TxLocked, StopTx>> \in Seq(Action)
    BY ActionTypes, SeqTypes
  <2>2. /\ OfKind(<<TxLocked, StopTx>>, "TX_MESSAGE") = {}
        /\ LoggedIn(<<TxLocked, StopTx>>) = {}
    BY KindsOfOutputs
  <2>3. /\ OfKind(before \o <<TxLocked, StopTx>>, "TX_MESSAGE")
              = OfKind(before, "TX_MESSAGE") \cup OfKind(<<TxLocked, StopTx>>, "TX_MESSAGE")
        /\ LoggedIn(before \o <<TxLocked, StopTx>>)
              = LoggedIn(before) \cup LoggedIn(<<TxLocked, StopTx>>)
    BY <2>1, KindsOfConcat
  <2>4. /\ OfKind(before \o <<TxLocked, StopTx>>, "TX_MESSAGE") = {}
        /\ LoggedIn(before \o <<TxLocked, StopTx>>) = {}
    BY <1>4, <2>2, <2>3
  <2> QED BY <1>1, <1>4, <2>1, <2>4, EmitSafe
<1> QED BY <1>2, <1>3, <1>4 DEF ExitGrace, GuardsPass

-----------------------------------------------------------------------------
(* on_decodes: at the start of a round nothing is queued.                  *)

LEMMA RoundStarts == NothingQueued => QueueSafe
BY DEF NothingQueued, QueueSafe

LEMMA PreambleSafe ==
    ASSUME HandlerTypeOK, CalledUsIsTrue, NEW batch, NEW late \in BOOLEAN
    PROVE  /\ HeardBy(Preamble(batch, late), batch)
           /\ Preamble(batch, late) # None => Preamble(batch, late).their_snr = qso.their_snr
<1>1. CASE qso = None
  BY <1>1 DEF Preamble, HeardBy
<1>2. CASE qso # None
  <2> DEFINE q == Preamble(batch, late)
  <2>1. qso \in QsoContext
    BY <1>2 DEF HandlerTypeOK
  <2>2. q = [qso EXCEPT !.gesendet_bei_charge = @ /\ late,
                        !.partner_hat_uns_gerufen =
                            @ \/ PartnerAddressesUs(batch, qso.their_call)]
    BY <1>2 DEF Preamble
  <2>3. /\ q.their_snr = qso.their_snr /\ q.their_call = qso.their_call
        /\ q.partner_hat_uns_gerufen =
               (qso.partner_hat_uns_gerufen \/ PartnerAddressesUs(batch, qso.their_call))
    BY <2>1, <2>2 DEF QsoContext
  <2>4. PartnerAddressesUs(batch, qso.their_call) => qso.their_call \in Addressers(batch)
    BY DEF PartnerAddressesUs, Addressers
  <2> HIDE DEF q
  <2>5. HeardBy(q, batch)
    BY <1>2, <2>3, <2>4 DEF HeardBy, CalledUsIsTrue
  <2> QED BY <2>3, <2>5 DEF q
<1> QED BY <1>1, <1>2

LEMMA AnswerLateRReportSafe ==
    ASSUME HandlerTypeOK, Safe, QueueSafe, hw' = hw, qso = None,
           NEW batch, AnswerLateRReport(batch)
    PROVE  Safe'
<1>1. CASE ~hw /\ Lock(qso, batch)
  BY <1>1, LockSafe DEF HeardBy
<1>2. CASE GuardsPass /\ UNCHANGED <<state, qso>>
           /\ \E c \in Waiting(batch) : Emit(<<Tx("rr73", c)>>, batch)
  <2>1. PICK c \in Partners : Emit(<<Tx("rr73", c)>>, batch)
    BY <1>2 DEF Waiting
  <2>2. ContextMatchesState'
    BY <1>2 DEF AnswerLateRReport, Safe, ContextMatchesState
  <2> QED BY <1>2, <2>1, <2>2, SendSafe DEF GuardsPass, TxKinds
<1> QED BY <1>1, <1>2 DEF AnswerLateRReport

LEMMA ResumeSafe ==
    ASSUME HandlerTypeOK, QueueSafe, hw' = hw, NEW batch, Resume(batch)
    PROVE  Safe'
<1> DEFINE q(c) == [NewQso(c) EXCEPT !.their_snr = TRUE]
<1>1. PICK c \in Resumable(batch), gone \in Dropped(batch) :
        \/ EmitLogQso(q(c), batch, CtxWithout(gone \cup {c}), ZaehlerWithout(gone))
        \/ /\ state' = "QSO_REPORT"
           /\ qso' = q(c)
           /\ Emit(<<Tx("r_report", c)>>, batch)
  BY DEF Resume
<1>2. c \in Partners
  BY DEF Resumable, Closers, Repeaters, Live
<1>3. q(c) \in QsoContext /\ q(c).their_snr /\ ~q(c).partner_hat_uns_gerufen
  BY <1>2, NewQsoType, SentType DEF NewQso
<1>4. q(c) # None
  BY <1>3, MachineAssumption
<1> HIDE DEF q
<1>5. CASE EmitLogQso(q(c), batch, CtxWithout(gone \cup {c}), ZaehlerWithout(gone))
  BY <1>3, <1>5, EmitLogQsoSafe DEF HeardBy
<1>6. CASE state' = "QSO_REPORT" /\ qso' = q(c) /\ Emit(<<Tx("r_report", c)>>, batch)
  <2>1. ContextMatchesState'
    BY <1>3, <1>4, <1>6 DEF ContextMatchesState
  <2> QED BY <1>2, <1>3, <1>6, <2>1, SendSafe DEF Resume, GuardsPass, TxKinds
<1> QED BY <1>1, <1>5, <1>6

LEMMA StartSafe ==
    ASSUME HandlerTypeOK, QueueSafe, hw, hw' = hw, NEW batch \in SUBSET Message,
           NEW c, Start(c, batch)
    PROVE  Safe'
<1>1. /\ state' \in {"QSO_RESPOND", "QSO_REPORT"} /\ qso' \in QsoContext
      /\ qso'.their_snr /\ ~qso'.partner_hat_uns_gerufen
  BY StartType
<1>2. ContextMatchesState'
  BY <1>1, MachineAssumption DEF ContextMatchesState
<1>3. PICK k \in TxKinds : Emit(<<Tx(k, c)>>, batch) /\ c \in Partners
  BY CallerTypes DEF Start, TxKinds
<1> QED BY <1>1, <1>2, <1>3, SendSafe

LEMMA CallSafe ==
    ASSUME HandlerTypeOK, QueueSafe, hw, hw' = hw, NEW batch \in SUBSET Message,
           NEW c \in Partners, Call(c, batch)
    PROVE  Safe'
<1>1. /\ state' = "QSO_RESPOND" /\ qso' \in QsoContext
      /\ ~qso'.partner_hat_uns_gerufen
  BY CallType
<1>2. ContextMatchesState'
  BY <1>1, MachineAssumption DEF ContextMatchesState
<1>3. Emit(<<Tx("respond_grid", c)>>, batch)
  BY DEF Call
<1> QED BY <1>1, <1>2, <1>3, SendSafe DEF TxKinds

LEMMA HuntingSafe ==
    ASSUME HandlerTypeOK, QueueSafe, hw' = hw, state = "IDLE",
           NEW q \in QsoContext \cup {None}, NEW batch \in SUBSET Message,
           HeardBy(q, batch), Hunting(q, batch)
    PROVE  Safe'
<1>1. CASE Resume(batch)
  BY <1>1, ResumeSafe
<1>2. CASE GuardsPass /\ \E c \in DirectCallers(batch) : Start(c, batch)
  BY <1>2, StartSafe DEF GuardsPass
<1>3. CASE GuardsPass /\ \E c \in Eligible(batch) : Call(c, batch)
  BY <1>3, CallSafe, EligibleTypes DEF GuardsPass
<1>4. CASE ~hw /\ Lock(q, batch)
  BY <1>4, LockSafe
<1>5. CASE Silent(batch) /\ state' = state /\ qso' = q
  BY <1>5, SilentSafe DEF ContextMatchesState, HeardBy
<1> QED BY <1>1, <1>2, <1>3, <1>4, <1>5 DEF Hunting

LEMMA CallingSafe ==
    ASSUME HandlerTypeOK, QueueSafe, hw' = hw, state = "CQ_CALLING",
           NEW q \in QsoContext \cup {None}, NEW batch \in SUBSET Message,
           HeardBy(q, batch), Calling(q, batch)
    PROVE  Safe'
<1>1. CASE Resume(batch)
  BY <1>1, ResumeSafe
<1>2. CASE GuardsPass /\ \E c : Start(c, batch)
  BY <1>2, StartSafe DEF GuardsPass
<1>3. CASE GuardsPass /\ \E c \in Eligible(batch) : Call(c, batch)
  BY <1>3, CallSafe, EligibleTypes DEF GuardsPass
<1>4. CASE ~hw /\ Lock(q, batch)
  BY <1>4, LockSafe
<1>5. CASE Silent(batch) /\ state' = state /\ qso' = q
  BY <1>5, SilentSafe DEF ContextMatchesState, HeardBy
<1> QED BY <1>1, <1>2, <1>3, <1>4, <1>5 DEF Calling

LEMMA WaitSafe ==
    ASSUME HandlerTypeOK, QueueSafe, hw' = hw, ContextMatchesState',
           NEW q, NEW batch, HeardBy(q, batch), Wait(q, batch)
    PROVE  Safe'
BY SilentSafe DEF Wait, HeardBy

LEMMA ContinueSafe ==
    ASSUME HandlerTypeOK, QueueSafe, hw' = hw,
           NEW q \in QsoContext, NEW new \in QsoContext, NEW k \in TxKinds,
           NEW next \in {"QSO_RESPOND", "QSO_REPORT"}, next = "QSO_REPORT" => new.their_snr,
           NEW batch, HeardBy(q, batch), HeardBy(new, batch),
           Continue(q, next, k, new, batch)
    PROVE  Safe'
<1>1. CASE ~hw /\ Lock(q, batch)
  BY <1>1, LockSafe
<1>2. CASE hw /\ state' = next /\ qso' = new /\ Emit(<<Tx(k, q.their_call)>>, batch)
  <2>1. ContextMatchesState'
    BY <1>2, MachineAssumption DEF ContextMatchesState
  <2>2. q.their_call \in Partners
    BY DEF QsoContext
  <2> QED BY <1>2, <2>1, <2>2, SendSafe DEF HeardBy
<1> QED BY <1>1, <1>2 DEF Continue, GuardsPass


(* The contexts that Respond and Report make speak of the same station.    *)
SameStation(q1, q) ==
    /\ q1.their_call = q.their_call
    /\ q1.partner_hat_uns_gerufen = q.partner_hat_uns_gerufen

LEMMA SameStationHeard ==
    ASSUME NEW q \in QsoContext, NEW q1, SameStation(q1, q), NEW batch, HeardBy(q, batch)
    PROVE  HeardBy(q1, batch)
BY MachineAssumption DEF SameStation, HeardBy

LEMMA NextContextStation ==
    ASSUME NEW q \in QsoContext
    PROVE  /\ SameStation([q EXCEPT !.resend_vorgemerkt = None], q)
           /\ SameStation([q EXCEPT !.stale_slots = 0, !.gesendet_bei_charge = TRUE], q)
           /\ SameStation([q EXCEPT !.ruf_ausgefallen = FALSE], q)
           /\ SameStation([q EXCEPT !.freq_hopped_once = TRUE], q)
           /\ SameStation([q EXCEPT !.cq_resends = @ + 1], q)
           /\ \A p : SameStation([q EXCEPT !.resend_vorgemerkt = p, !.stale_slots = 0], q)
           /\ SameStation(Progress(q), q)
           /\ SameStation([q EXCEPT !.their_snr = TRUE], q)
           /\ SameStation(RepeatReport(q), q)
BY DEF SameStation, QsoContext, Progress, RepeatReport

LEMMA CompleteSafe ==
    ASSUME HandlerTypeOK, QueueSafe, hw' = hw, NEW q \in QsoContext, NEW batch,
           HeardBy(q, batch), Complete(q, batch)
    PROVE  Safe'
<1>1. Progress(q) \in QsoContext /\ HeardBy(Progress(q), batch)
  BY ProgressType, NextContextStation, SameStationHeard
<1> QED BY <1>1, EmitLogQsoSafe DEF Complete

LEMMA RespondSafe ==
    ASSUME HandlerTypeOK, QueueSafe, hw' = hw, state = "QSO_RESPOND",
           NEW q \in QsoContext, NEW batch, HeardBy(q, batch),
           NEW late \in BOOLEAN, NEW p \in Parities, Respond(q, batch, late, p)
    PROVE  Safe'
<1> DEFINE q1 == [q EXCEPT !.resend_vorgemerkt = None]
           call == [q1 EXCEPT !.stale_slots = 0, !.gesendet_bei_charge = TRUE]
           sent == [Progress(q) EXCEPT !.their_snr = TRUE]
           again == [call EXCEPT !.ruf_ausgefallen = FALSE]
           more == [call EXCEPT !.cq_resends = @ + 1]
           hop == [call EXCEPT !.freq_hopped_once = TRUE]
           noted == [q EXCEPT !.resend_vorgemerkt = p, !.stale_slots = 0]
<1>1. q1 \in QsoContext /\ HeardBy(q1, batch)
  BY NextContextTypes, NextContextStation, SameStationHeard
<1>2. call \in QsoContext /\ HeardBy(call, batch)
  <2> HIDE DEF q1
  <2> QED BY <1>1, NextContextTypes, NextContextStation, SameStationHeard
<1>3. sent \in QsoContext /\ sent.their_snr /\ HeardBy(sent, batch)
  <2>1. Progress(q) \in QsoContext /\ HeardBy(Progress(q), batch)
    BY ProgressType, NextContextStation, SameStationHeard
  <2>2. sent \in QsoContext /\ HeardBy(sent, batch)
    BY <2>1, SentType, NextContextStation, SameStationHeard
  <2>3. sent.their_snr
    BY <2>1 DEF QsoContext
  <2> QED BY <2>2, <2>3
<1> HIDE DEF q1, call, sent
<1>4. /\ again \in QsoContext /\ HeardBy(again, batch)
      /\ hop \in QsoContext /\ HeardBy(hop, batch)
      /\ noted \in QsoContext /\ HeardBy(noted, batch)
  BY <1>2, NextContextTypes, NextContextStation, SameStationHeard
<1>5. /\ call.cq_resends < qso_max_cq_resends => more \in QsoContext
      /\ HeardBy(more, batch)
  BY <1>2, NextContextTypes, NextContextStation, SameStationHeard
<1> HIDE DEF again, more, hop, noted
<1>6. CASE Complete(q, batch)
  BY <1>6, CompleteSafe
<1>7. CASE Continue(q, "QSO_REPORT", "r_report", sent, batch)
  BY <1>3, <1>7, ContinueSafe DEF TxKinds
<1>8. CASE GiveUp(q, "picked_another", batch)
  BY <1>8, BailSafe DEF GiveUp, BailReasons
<1>9. CASE Wait(q, batch) \/ Wait(noted, batch)
  <2>1. PICK w \in {q, noted} : Wait(w, batch)
    BY <1>9
  <2>2. w \in QsoContext /\ HeardBy(w, batch)
    BY <1>4
  <2>3. ContextMatchesState'
    BY <2>1, <2>2, MachineAssumption DEF Wait, ContextMatchesState
  <2> QED BY <2>1, <2>2, <2>3, WaitSafe
<1>10. CASE Continue(q, state, "respond_grid", again, batch)
  BY <1>4, <1>10, ContinueSafe DEF TxKinds
<1>11. CASE q.cq_resends < qso_max_cq_resends /\ Continue(q1, state, "respond_grid", more, batch)
  <2>1. call.cq_resends = q.cq_resends
    BY DEF call, q1, QsoContext
  <2> QED BY <1>1, <1>5, <1>11, <2>1, ContinueSafe DEF TxKinds
<1>12. CASE Continue(q1, state, "respond_grid", hop, batch)
  BY <1>1, <1>4, <1>12, ContinueSafe DEF TxKinds
<1>13. CASE GiveUp(q1, "max_resends", batch)
  BY <1>1, <1>13, BailSafe DEF GiveUp, BailReasons
<1>14. ~(q.cq_resends >= qso_max_cq_resends) => q.cq_resends < qso_max_cq_resends
  BY MachineAssumption DEF QsoContext
<1> QED BY <1>6, <1>7, <1>8, <1>9, <1>10, <1>11, <1>12, <1>13, <1>14
        DEF Respond, q1, call, sent, again, more, hop, noted

LEMMA ReportSafe ==
    ASSUME HandlerTypeOK, Safe, QueueSafe, hw' = hw, state = "QSO_REPORT", qso # None,
           NEW q \in QsoContext, NEW batch, HeardBy(q, batch), q.their_snr = qso.their_snr,
           Report(q, batch)
    PROVE  Safe'
<1>1. CASE Complete(q, batch)
  BY <1>1, CompleteSafe
<1>2. CASE GiveUp(q, "picked_another", batch)
  BY <1>2, BailSafe DEF GiveUp, BailReasons
<1>3. CASE Wait(q, batch)
  <2>1. ContextMatchesState'
    BY <1>3, MachineAssumption DEF Wait, ContextMatchesState, Safe
  <2> QED BY <1>3, <2>1, WaitSafe
<1>4. CASE \E limit \in ReportLimits :
              /\ q.report_resends < limit
              /\ Continue(q, state, "r_report", RepeatReport(q), batch)
  <2>1. PICK limit \in ReportLimits :
              /\ q.report_resends < limit
              /\ Continue(q, state, "r_report", RepeatReport(q), batch)
    BY <1>4
  <2>2. RepeatReport(q) \in QsoContext
    BY <2>1, RepeatReportType
  <2>3. HeardBy(RepeatReport(q), batch)
    BY NextContextStation, SameStationHeard
  <2>4. RepeatReport(q).their_snr
    BY DEF RepeatReport, Progress, QsoContext
  <2> QED BY <2>1, <2>2, <2>3, <2>4, ContinueSafe DEF TxKinds
<1> QED BY <1>1, <1>2, <1>3, <1>4 DEF Report

LEMMA GraceSafe ==
    ASSUME HandlerTypeOK, Safe, QueueSafe, hw' = hw, state = "QSO_GRACE", qso = None,
           NEW batch, Grace(None, batch)
    PROVE  Safe'
<1>1. CASE grace # None /\ hw /\ ExitGrace(<<Tx("ack73", grace)>>, batch)
  <2>1. <<Tx("ack73", grace)>> \in Seq(Action)
    BY <1>1, TxTypes DEF HandlerTypeOK, TxKinds
  <2>2. /\ OfKind(<<Tx("ack73", grace)>>, "TX_LOCKED") = {}
        /\ LoggedIn(<<Tx("ack73", grace)>>) = {}
    BY KindsOfOutputs
  <2> QED BY <1>1, <2>1, <2>2, ExitGraceSafe
<1>2. CASE ~hw /\ Lock(None, batch)
  BY <1>2, LockSafe DEF HeardBy
<1>3. CASE Wait(None, batch)
  <2>1. ContextMatchesState'
    BY <1>3 DEF Wait, ContextMatchesState, Safe
  <2> QED BY <1>3, <2>1, WaitSafe DEF HeardBy
<1> QED BY <1>1, <1>2, <1>3 DEF Grace

LEMMA DecodeSafe ==
    ASSUME HandlerTypeOK, Safe, NothingQueued, hw' = hw, NEW batch \in SUBSET Message,
           NEW late \in BOOLEAN, NEW p \in Parities, Decode(batch, late, p)
    PROVE  Safe'
<1> DEFINE q == Preamble(batch, late)
<1>1. q \in QsoContext \cup {None} /\ (q = None <=> qso = None)
  BY PreambleType DEF HandlerTypeOK
<1>2. HeardBy(q, batch) /\ (q # None => q.their_snr = qso.their_snr)
  BY PreambleSafe DEF Safe
<1>3. QueueSafe
  BY RoundStarts
<1> HIDE DEF q
<1>4. CASE qso = None /\ AnswerLateRReport(batch)
  BY <1>3, <1>4, AnswerLateRReportSafe
<1>5. CASE state = "IDLE" /\ Hunting(q, batch)
  BY <1>1, <1>2, <1>3, <1>5, HuntingSafe
<1>6. CASE state = "CQ_CALLING" /\ Calling(q, batch)
  BY <1>1, <1>2, <1>3, <1>6, CallingSafe
<1>7. CASE state = "QSO_RESPOND" /\ q # None /\ Respond(q, batch, late, p)
  BY <1>1, <1>2, <1>3, <1>7, RespondSafe
<1>8. CASE state = "QSO_REPORT" /\ q # None /\ Report(q, batch)
  BY <1>1, <1>2, <1>3, <1>8, ReportSafe
<1>9. CASE state = "QSO_GRACE" /\ Grace(q, batch)
  <2>1. qso = None /\ q = None
    BY <1>1, <1>9 DEF Safe, ContextMatchesState
  <2> QED BY <1>3, <1>9, <2>1, GraceSafe
<1>10. CASE state \in {"IDLE", "TX_LOCKED"} /\ Wait(q, batch)
  <2>1. ContextMatchesState'
    BY <1>10 DEF Wait, ContextMatchesState
  <2> QED BY <1>2, <1>3, <1>10, <2>1, WaitSafe
<1>11. ~(state \in {"QSO_RESPOND", "QSO_REPORT"} /\ q = None)
  BY <1>1 DEF Safe, ContextMatchesState
<1> QED BY <1>4, <1>5, <1>6, <1>7, <1>8, <1>9, <1>10, <1>11 DEF Decode, Hunts, q

-----------------------------------------------------------------------------
(* on_slot_tick: the queue may hold what on_decodes left there.            *)

LEMMA QueueAtTick ==
    ASSUME Safe, hw' = hw, state = "TX_LOCKED" => state' = "TX_LOCKED",
           qso = None => qso' = None
    PROVE  QueueSafe
BY DEF Safe, TransmissionsAreGuarded, LoggedWereHeard, LogEndsQso, QueueSafe

LEMMA KnownBefore == CalledUsIsTrue => HeardBy(qso, {})
BY DEF CalledUsIsTrue, HeardBy

LEMMA CqSlotSafe ==
    ASSUME HandlerTypeOK, Safe, hw' = hw, state # "TX_LOCKED",
           NEW fallback, NEW count, NEW idle, CqSlot(fallback, count, idle)
    PROVE  Safe'
<1>1. qso' = qso
  BY DEF CqSlot, Lock
<1>2. QueueSafe /\ HeardBy(qso, {})
  BY <1>1, QueueAtTick, KnownBefore DEF Safe
<1>3. CASE ~hw /\ Lock(qso, {})
  BY <1>2, <1>3, LockSafe
<1>4. CASE state' \in {"IDLE", "CQ_CALLING"} /\ Silent({})
  <2>1. ContextMatchesState'
    BY <1>4 DEF ContextMatchesState
  <2> QED BY <1>1, <1>2, <1>4, <2>1, SilentSafe DEF HeardBy
<1>5. CASE hw /\ state' = "CQ_CALLING" /\ Emit(<<Tx("cq", None)>>, {})
  <2>1. ContextMatchesState'
    BY <1>5 DEF ContextMatchesState
  <2> QED BY <1>1, <1>2, <1>5, <2>1, SendSafe DEF HeardBy, TxKinds
<1> QED BY <1>3, <1>4, <1>5 DEF CqSlot, GuardsPass

LEMMA IdleTickSafe ==
    ASSUME HandlerTypeOK, Safe, hw' = hw, state = "IDLE", IdleTick
    PROVE  Safe'
<1>1. CASE Silent({}) /\ UNCHANGED <<state, qso>>
  <2>1. QueueSafe /\ HeardBy(qso, {})
    BY <1>1, QueueAtTick, KnownBefore DEF Safe
  <2>2. ContextMatchesState'
    BY <1>1 DEF ContextMatchesState
  <2> QED BY <1>1, <2>1, <2>2, SilentSafe DEF HeardBy
<1>2. CASE ~hw /\ Lock(qso, {})
  <2>1. QueueSafe /\ HeardBy(qso, {})
    BY <1>2, QueueAtTick, KnownBefore DEF Safe, Lock
  <2> QED BY <1>2, <2>1, LockSafe
<1>3. CASE CqSlot(FALSE, cq_count, idle_slots) \/ CqSlot(TRUE, 0, 0)
  BY <1>3, CqSlotSafe
<1> QED BY <1>1, <1>2, <1>3 DEF IdleTick

LEMMA StaleTickSafe ==
    ASSUME HandlerTypeOK, Safe, hw' = hw, state \in {"QSO_RESPOND", "QSO_REPORT"}, qso # None,
           NEW r \in BailReasons, StaleTick(r)
    PROVE  Safe'
<1>1. qso \in QsoContext
  BY DEF HandlerTypeOK
<1>2. QueueSafe /\ HeardBy(qso, {})
  BY QueueAtTick, KnownBefore DEF Safe
<1>3. CASE GiveUp(qso, r, {})
  BY <1>1, <1>2, <1>3, BailSafe DEF GiveUp
<1>4. CASE /\ qso.stale_slots < qso_max_stale_slots
           /\ qso' = [qso EXCEPT !.stale_slots = @ + 1]
           /\ Silent({}) /\ state' = state /\ grace' = grace
  <2>0. qso' \in QsoContext
    <3>1. qso.stale_slots + 1 \in 0..qso_max_stale_slots
      BY <1>1, <1>4, MachineAssumption DEF QsoContext
    <3> QED BY <1>1, <1>4, <3>1 DEF QsoContext
  <2>1. /\ qso'.their_snr = qso.their_snr /\ qso'.their_call = qso.their_call
        /\ qso'.partner_hat_uns_gerufen = qso.partner_hat_uns_gerufen
        /\ qso' # None
    BY <1>1, <1>4, <2>0, MachineAssumption DEF QsoContext
  <2>2. ContextMatchesState'
    BY <1>4, <2>1 DEF Safe, ContextMatchesState
  <2> QED BY <1>2, <1>4, <2>1, <2>2, SilentSafe DEF HeardBy
<1> QED BY <1>3, <1>4 DEF StaleTick


LEMMA SlotTickSafe ==
    ASSUME HandlerTypeOK, Safe, OnSlotTick
    PROVE  Safe'
<1>0. hw' = hw
  BY DEF OnSlotTick
<1>1. CASE state = "IDLE" /\ IdleTick
  BY <1>0, <1>1, IdleTickSafe
<1>2. CASE state = "CQ_CALLING" /\ CqSlot(cq_fallback_active, cq_count, idle_slots)
  BY <1>0, <1>2, CqSlotSafe
<1>3. CASE /\ state \in {"QSO_RESPOND", "QSO_REPORT"} /\ qso # None
           /\ StaleTick("went_silent") \/ StaleTick("report_never_closed")
  BY <1>0, <1>3, StaleTickSafe DEF BailReasons
<1>4. CASE state = "QSO_GRACE" /\ ExitGrace(<<>>, {})
  <2>1. qso = None
    BY <1>4 DEF Safe, ContextMatchesState
  <2>2. QueueSafe
    BY <1>0, <1>4, <2>1, QueueAtTick DEF ExitGrace
  <2> QED BY <1>0, <1>4, <2>1, <2>2, ExitGraceSafe, SeqTypes, KindsOfOutputs
<1>5. CASE Silent({}) /\ UNCHANGED <<state, qso, grace>>
  <2>1. QueueSafe /\ HeardBy(qso, {})
    BY <1>0, <1>5, QueueAtTick, KnownBefore DEF Safe
  <2>2. ContextMatchesState'
    BY <1>5 DEF Safe, ContextMatchesState
  <2> QED BY <1>0, <1>5, <2>1, <2>2, SilentSafe DEF HeardBy
<1> QED BY <1>1, <1>2, <1>3, <1>4, <1>5 DEF OnSlotTick

-----------------------------------------------------------------------------
(* Every step.                                                             *)

LEMMA EmptyQueue ==
    /\ \A k : OfKind(<<>>, k) = {}
    /\ LoggedIn(<<>>) = {}
BY ElementsOfTuples DEF OfKind, LoggedIn

LEMMA InitSafe == Init => Safe /\ QueueEmptyBetweenRounds
BY EmptyQueue DEF Init, Safe, ContextMatchesState, TransmissionsAreGuarded, LoggedWereHeard,
   LogEndsQso, CalledUsIsTrue, QueueEmptyBetweenRounds, NothingQueued

LEMMA OnDecodesSafe ==
    ASSUME SafetyInv, NEW kind \in BatchKinds, NEW batch \in Batches[HeardSlot(kind)],
           OnDecodes(batch, kind)
    PROVE  Safe' /\ QueueEmptyBetweenRounds'
<1>1. HeardSlot(kind) \in Parities /\ parity' \in Parities
  BY DEF SafetyInv, TypeOK, OnDecodes, HeardSlot, Flip, Parities
<1>2. batch \in SUBSET Message
  BY <1>1, MachineAssumption
<1>3. HandlerTypeOK /\ Safe /\ NothingQueued /\ hw' = hw
  BY TypeSplit DEF SafetyInv, QueueEmptyBetweenRounds, OnDecodes
<1>4. Safe'
  BY <1>1, <1>2, <1>3, DecodeSafe DEF OnDecodes
<1>5. turn' # "any"
  BY MachineAssumption DEF OnDecodes
<1> QED BY <1>4, <1>5 DEF QueueEmptyBetweenRounds

LEMMA DrainActionsSafe ==
    ASSUME SafetyInv, DrainActions
    PROVE  Safe' /\ QueueEmptyBetweenRounds'
<1>1. /\ \A k : OfKind(pending', k) = {}
      /\ LoggedIn(pending') = {}
  BY EmptyQueue DEF DrainActions
<1>2. CalledUsIsTrue'
  BY DEF SafetyInv, Safe, CalledUsIsTrue, LogEndsQso, DrainActions
<1>3. ContextMatchesState'
  BY DEF SafetyInv, Safe, ContextMatchesState, DrainActions
<1> QED BY <1>1, <1>2, <1>3 DEF Safe, TransmissionsAreGuarded, LoggedWereHeard, LogEndsQso,
        QueueEmptyBetweenRounds, NothingQueued

(* A step between rounds that leaves the queue and what was heard alone.   *)
LEMMA QuietStep ==
    ASSUME SafetyInv, turn = "any", UNCHANGED <<pending, heard>>, ContextMatchesState',
           qso' # None /\ qso'.partner_hat_uns_gerufen =>
               qso # None /\ qso.partner_hat_uns_gerufen /\ qso'.their_call = qso.their_call
    PROVE  Safe' /\ QueueEmptyBetweenRounds'
<1>1. NothingQueued
  BY DEF SafetyInv, QueueEmptyBetweenRounds
<1>2. NothingQueued'
  BY <1>1 DEF NothingQueued, OfKind, LoggedIn
<1>3. CalledUsIsTrue'
  BY DEF SafetyInv, Safe, CalledUsIsTrue
<1> QED BY <1>2, <1>3 DEF Safe, TransmissionsAreGuarded, LoggedWereHeard, LogEndsQso,
        QueueEmptyBetweenRounds, NothingQueued

LEMMA BurstSafe ==
    ASSUME SafetyInv, TxSent \/ TxDropped \/ TxLate \/ SwrRunaway
    PROVE  Safe' /\ QueueEmptyBetweenRounds'
<1>1. turn = "any" /\ UNCHANGED <<pending, heard>> /\ grace' = grace
  BY DEF TxSent, TxDropped, TxLate, SwrRunaway, outside, output
<1>2. CASE TxDropped /\ state = "QSO_RESPOND" /\ qso # None
  <2>1. qso \in QsoContext /\ parity \in Parities /\ state' = state
    BY <1>2 DEF SafetyInv, TypeOK, TxDropped, outside
  <2>2. qso' \in QsoContext /\ SameStation(qso', qso)
    BY <1>2, <2>1 DEF TxDropped, SameStation, QsoContext
  <2>3. ContextMatchesState'
    BY <1>2, <2>1, <2>2, MachineAssumption DEF ContextMatchesState
  <2> QED BY <1>1, <1>2, <2>2, <2>3, QuietStep DEF SameStation
<1>3. CASE qso' = qso /\ state' \in {state, "TX_LOCKED"}
  <2>1. ContextMatchesState'
    BY <1>1, <1>3 DEF SafetyInv, Safe, ContextMatchesState
  <2> QED BY <1>1, <1>3, <2>1, QuietStep
<1> QED BY <1>2, <1>3 DEF TxSent, TxDropped, TxLate, SwrRunaway, outside

(* What an operator command queues.                                        *)
LEMMA StopSafe ==
    ASSUME SafetyInv, turn = "any", hw' = hw, Emit(<<StopTx>>, {}),
           qso' \in {None, qso}, state' = "IDLE"
    PROVE  Safe' /\ QueueEmptyBetweenRounds'
<1>1. HandlerTypeOK /\ NothingQueued /\ QueueSafe
  BY TypeSplit, RoundStarts DEF SafetyInv, QueueEmptyBetweenRounds
<1>2. /\ <<StopTx>> \in Seq(Action)
      /\ OfKind(<<StopTx>>, "TX_MESSAGE") = {}
      /\ OfKind(<<StopTx>>, "TX_LOCKED") = {}
      /\ LoggedIn(<<StopTx>>) = {}
  BY TxTypes, KindsOfOutputs
<1>3. ContextMatchesState'
  BY DEF ContextMatchesState
<1>4. Safe'
  BY <1>1, <1>2, <1>3, EmitSafe DEF SafetyInv, Safe, CalledUsIsTrue
<1>5. NothingQueued'
  <2>1. pending \in Seq(Action)
    BY <1>1 DEF HandlerTypeOK
  <2>2. /\ \A k : OfKind(pending', k) = OfKind(pending, k) \cup OfKind(<<StopTx>>, k)
        /\ LoggedIn(pending') = LoggedIn(pending) \cup LoggedIn(<<StopTx>>)
    BY <1>2, <2>1, EmitEffect
  <2> QED BY <1>1, <1>2, <2>2 DEF NothingQueued
<1> QED BY <1>4, <1>5 DEF QueueEmptyBetweenRounds


LEMMA OperatorSafe ==
    ASSUME SafetyInv,
           \/ UserStartCq \/ UserStop \/ UserPanic \/ UserSkipQso \/ SwitchOperator
           \/ UserResetLock \/ UserReplyTo \/ SetAutoAnswer \/ SetDrainForUpdate
    PROVE  Safe' /\ QueueEmptyBetweenRounds'
<1>1. turn = "any" /\ hw' = hw
  BY DEF UserStartCq, UserStop, UserPanic, Stop, UserSkipQso, SwitchOperator, UserResetLock,
         UserReplyTo, SetAutoAnswer, SetDrainForUpdate, Command, settings
<1>2. HandlerTypeOK /\ QueueSafe /\ HeardBy(qso, {})
  BY <1>1, TypeSplit, RoundStarts, KnownBefore DEF SafetyInv, Safe, QueueEmptyBetweenRounds
<1>3. ASSUME ~hw, Lock(qso, {}), turn' = "user"
      PROVE  Safe' /\ QueueEmptyBetweenRounds'
  BY <1>1, <1>2, <1>3, LockSafe DEF QueueEmptyBetweenRounds
<1>4. CASE UserStartCq
  <2>1. turn' = "user"
    BY <1>4 DEF UserStartCq, Command
  <2>2. CASE ~hw /\ Lock(qso, {})
    BY <1>3, <2>1, <2>2
  <2>3. CASE hw /\ state' = "CQ_CALLING" /\ qso' = None /\ Emit(<<Tx("cq", None)>>, {})
    <3>1. ContextMatchesState'
      BY <2>3 DEF ContextMatchesState
    <3> QED BY <1>1, <1>2, <2>1, <2>3, <3>1, SendSafe DEF TxKinds, QueueEmptyBetweenRounds
  <2> QED BY <1>4, <2>2, <2>3 DEF UserStartCq, GuardsPass
<1>5. CASE UserStop \/ UserPanic \/ UserSkipQso \/ SwitchOperator
  BY <1>1, <1>5, StopSafe DEF UserStop, UserPanic, Stop, UserSkipQso, SwitchOperator
<1>6. CASE UserResetLock
  <2>1. UNCHANGED <<pending, heard, qso, grace>> /\ state' \in {state, "IDLE"}
    BY <1>6 DEF UserResetLock, output
  <2>2. ContextMatchesState'
    BY <2>1 DEF SafetyInv, Safe, ContextMatchesState
  <2> QED BY <1>1, <2>1, <2>2, QuietStep
<1>7. CASE UserReplyTo
  <2>1. turn' = "user"
    BY <1>7 DEF UserReplyTo, Command
  <2>2. PICK c \in Calls : (hw /\ Call(c, {})) \/ (~hw /\ Lock(qso, {}))
    BY <1>7 DEF UserReplyTo, GuardsPass
  <2>3. CASE hw /\ Call(c, {})
    <3>1. Safe'
      BY <1>1, <1>2, <2>3, CallSafe, EmptyBatch DEF Partners
    <3> QED BY <2>1, <3>1 DEF QueueEmptyBetweenRounds
  <2> QED BY <1>3, <2>1, <2>2, <2>3
<1>8. CASE SetAutoAnswer
  <2>1. CASE state' = "IDLE" /\ Emit(<<StopTx>>, {})
    BY <1>1, <1>8, <2>1, StopSafe DEF SetAutoAnswer
  <2>2. CASE UNCHANGED <<state, output>>
    <3>1. UNCHANGED <<pending, heard, qso, grace, state>>
      BY <1>8, <2>2 DEF SetAutoAnswer, output
    <3>2. ContextMatchesState'
      BY <3>1 DEF SafetyInv, Safe, ContextMatchesState
    <3> QED BY <1>1, <3>1, <3>2, QuietStep
  <2> QED BY <1>8, <2>1, <2>2 DEF SetAutoAnswer
<1>9. CASE SetDrainForUpdate
  <2>1. UNCHANGED <<pending, heard, qso, grace, state>>
    BY <1>9 DEF SetDrainForUpdate, output
  <2>2. ContextMatchesState'
    BY <2>1 DEF SafetyInv, Safe, ContextMatchesState
  <2> QED BY <1>1, <2>1, <2>2, QuietStep
<1> QED BY <1>4, <1>5, <1>6, <1>7, <1>8, <1>9

LEMMA TimeSafe ==
    ASSUME SafetyInv,
           HardwareChanges \/ CooldownEnds \/ ContextExpires \/ LoggedExpires \/ PauseEnds
    PROVE  Safe' /\ QueueEmptyBetweenRounds'
<1>1. turn = "any" /\ UNCHANGED <<pending, heard, qso, grace, state>>
  BY DEF HardwareChanges, CooldownEnds, ContextExpires, LoggedExpires, PauseEnds, internal, output
<1>2. ContextMatchesState'
  BY <1>1 DEF SafetyInv, Safe, ContextMatchesState
<1> QED BY <1>1, <1>2, QuietStep

LEMMA StutterSafe ==
    SafetyInv /\ UNCHANGED vars => Safe' /\ QueueEmptyBetweenRounds'
<1> SUFFICES ASSUME SafetyInv, UNCHANGED vars PROVE Safe' /\ QueueEmptyBetweenRounds'
  OBVIOUS
<1>1. UNCHANGED <<state, qso, grace, pending, heard, hw, turn>>
  BY DEF vars, output
<1>2. /\ \A k : OfKind(pending, k)' = OfKind(pending, k)
      /\ LoggedIn(pending)' = LoggedIn(pending)
  BY <1>1 DEF OfKind, LoggedIn, Elements
<1>3. ContextMatchesState' /\ CalledUsIsTrue'
  BY <1>1 DEF SafetyInv, Safe, ContextMatchesState, CalledUsIsTrue
<1> QED BY <1>1, <1>2, <1>3 DEF SafetyInv, Safe, TransmissionsAreGuarded, LoggedWereHeard,
        LogEndsQso, QueueEmptyBetweenRounds, NothingQueued

LEMMA SafetyInductive == Spec => []SafetyInv
<1>1. Init => SafetyInv
  BY InitType, InitSafe DEF SafetyInv
<1>2. SafetyInv /\ [Next]_vars => (Safe /\ QueueEmptyBetweenRounds)'
  <2> SUFFICES ASSUME SafetyInv, [Next]_vars PROVE Safe' /\ QueueEmptyBetweenRounds'
    OBVIOUS
  <2>1. CASE \E kind \in BatchKinds : \E batch \in Batches[HeardSlot(kind)] : OnDecodes(batch, kind)
    BY <2>1, OnDecodesSafe
  <2>2. CASE OnSlotTick
    <3>1. Safe'
      BY <2>2, TypeSplit, SlotTickSafe DEF SafetyInv
    <3> QED BY <2>2, <3>1 DEF OnSlotTick, QueueEmptyBetweenRounds
  <2>3. CASE DrainActions
    BY <2>3, DrainActionsSafe
  <2>4. CASE TxSent \/ TxDropped \/ TxLate \/ SwrRunaway
    BY <2>4, BurstSafe
  <2>5. CASE \/ UserStartCq \/ UserStop \/ UserPanic \/ UserSkipQso \/ SwitchOperator
             \/ UserResetLock \/ UserReplyTo \/ SetAutoAnswer \/ SetDrainForUpdate
    BY <2>5, OperatorSafe
  <2>6. CASE HardwareChanges \/ CooldownEnds \/ ContextExpires \/ LoggedExpires \/ PauseEnds
    BY <2>6, TimeSafe
  <2>7. CASE UNCHANGED vars
    BY <2>7, StutterSafe
  <2> QED BY <2>1, <2>2, <2>3, <2>4, <2>5, <2>6, <2>7 DEF Next
<1>3. TypeOK /\ Safe /\ QueueEmptyBetweenRounds => SafetyInv
  BY DEF SafetyInv
<1> QED BY <1>1, <1>2, <1>3, TypeCorrect, PTL DEF Spec

(* A handler of a QSO state always finds a QSO, a grace window always has  *)
(* a partner, and a QSO waiting for the closing has sent its report.       *)
THEOREM ContextAlwaysMatchesState == Spec => []ContextMatchesState
<1>1. SafetyInv => ContextMatchesState
  BY DEF SafetyInv, Safe
<1> QED BY <1>1, SafetyInductive, PTL

(* No handler ever queues a transmission on red guards.                    *)
THEOREM TransmissionsAlwaysGuarded == Spec => []TransmissionsAreGuarded
<1>1. SafetyInv => TransmissionsAreGuarded
  BY DEF SafetyInv, Safe
<1> QED BY <1>1, SafetyInductive, PTL

(* No QSO is logged whose station has not addressed us since its last log. *)
THEOREM LoggedWereAlwaysHeard == Spec => []LoggedWereHeard
<1>1. SafetyInv => LoggedWereHeard
  BY DEF SafetyInv, Safe
<1> QED BY <1>1, SafetyInductive, PTL

-----------------------------------------------------------------------------
(* What is queued for a partner belongs to the QSO.                        *)

(* A call queued by the decodes has set the counter of stale slots back,   *)
(* so that the tick after them does not give the QSO up.                   *)
Paired ==
    \A c \in CalledIn(pending) :
        qso # None /\ qso.their_call = c /\ (turn = "tick" => qso.stale_slots = 0)

(* What a handler of decodes establishes.                                  *)
PairedAfresh ==
    \A c \in CalledIn(pending') :
        qso' # None /\ qso'.their_call = c /\ qso'.stale_slots = 0

ToPartner == {"respond_grid", "respond_report", "r_report"}

LEMMA CallsOfConcat ==
    ASSUME NEW s \in Seq(Action), NEW t \in Seq(Action)
    PROVE  CalledIn(s \o t) = CalledIn(s) \cup CalledIn(t)
<1>1. OfKind(s \o t, "TX_MESSAGE") = OfKind(s, "TX_MESSAGE") \cup OfKind(t, "TX_MESSAGE")
  BY KindsOfConcat
<1> QED BY <1>1 DEF CalledIn

LEMMA CallsOfOutputs ==
    /\ CalledIn(<<>>) = {}
    /\ \A k, c : CalledIn(<<Tx(k, c)>>) \subseteq {c}
    /\ \A k, c : k \notin ToPartner => CalledIn(<<Tx(k, c)>>) = {}
    /\ CalledIn(<<TxLocked, StopTx>>) = {}
    /\ CalledIn(<<StopTx>>) = {}
    /\ \A c, r : CalledIn(<<StopTx, Bailed(c, r)>>) = {}
    /\ \A k, c, q : k \notin ToPartner => CalledIn(<<Tx(k, c), LogEntry(q)>>) = {}
    /\ \A q : CalledIn(<<TxLocked, StopTx, LogEntry(q)>>) = {}
BY ElementsOfTuples DEF CalledIn, OfKind, Tx, LogEntry, Bailed, StopTx, TxLocked, ToPartner

LEMMA EmitCalls ==
    ASSUME pending \in Seq(Action), NEW acts \in Seq(Action), NEW batch, Emit(acts, batch)
    PROVE  CalledIn(pending') = CalledIn(pending) \cup CalledIn(acts)
BY CallsOfConcat DEF Emit

(* The round starts with nobody called; the handler calls nobody, or the   *)
(* partner of the QSO it leaves.                                           *)
LEMMA QuietPaired ==
    ASSUME HandlerTypeOK, CalledIn(pending) = {},
           NEW acts \in Seq(Action), NEW batch, Emit(acts, batch), CalledIn(acts) = {}
    PROVE  PairedAfresh
BY EmitCalls DEF HandlerTypeOK, PairedAfresh

LEMMA SentPaired ==
    ASSUME HandlerTypeOK, CalledIn(pending) = {},
           NEW k \in TxKinds, NEW c \in Partners, NEW batch, Emit(<<Tx(k, c)>>, batch),
           qso' # None, qso'.their_call = c, qso'.stale_slots = 0
    PROVE  PairedAfresh
<1>1. <<Tx(k, c)>> \in Seq(Action)
  BY ActionTypes, SeqTypes
<1>2. CalledIn(<<Tx(k, c)>>) \subseteq {c}
  BY CallsOfOutputs
<1>3. CalledIn(pending') = CalledIn(pending) \cup CalledIn(<<Tx(k, c)>>)
  BY <1>1, EmitCalls DEF HandlerTypeOK
<1> QED BY <1>2, <1>3 DEF PairedAfresh

LEMMA SilentPaired ==
    ASSUME HandlerTypeOK, CalledIn(pending) = {}, NEW batch, Silent(batch)
    PROVE  PairedAfresh
BY QuietPaired, SeqTypes, CallsOfOutputs DEF Silent

LEMMA LockPaired ==
    ASSUME HandlerTypeOK, CalledIn(pending) = {}, NEW q, NEW batch, Lock(q, batch)
    PROVE  PairedAfresh
<1>1. <<TxLocked, StopTx>> \in Seq(Action)
  BY ActionTypes, SeqTypes
<1> QED BY <1>1, QuietPaired, CallsOfOutputs DEF Lock

LEMMA BailPaired ==
    ASSUME HandlerTypeOK, CalledIn(pending) = {}, NEW q \in QsoContext, NEW r \in BailReasons,
           NEW batch, NEW ctx, NEW zaehler, Bail(q, r, batch, ctx, zaehler)
    PROVE  PairedAfresh
<1>1. <<StopTx, Bailed(q.their_call, r)>> \in Seq(Action)
  BY ActionTypes, SeqTypes DEF QsoContext
<1> QED BY <1>1, QuietPaired, CallsOfOutputs DEF Bail

LEMMA EmitLogQsoPaired ==
    ASSUME HandlerTypeOK, CalledIn(pending) = {}, NEW q \in QsoContext,
           NEW batch, NEW ctx, NEW zaehler, EmitLogQso(q, batch, ctx, zaehler)
    PROVE  PairedAfresh
<1>1. /\ <<Tx("rr73", q.their_call), LogEntry(q)>> \in Seq(Action)
      /\ <<TxLocked, StopTx, LogEntry(q)>> \in Seq(Action)
  BY ActionTypes, SeqTypes DEF TxKinds, QsoContext
<1>2. "rr73" \notin ToPartner
  BY DEF ToPartner
<1>3. CASE Emit(<<Tx("rr73", q.their_call), LogEntry(q)>>, batch)
  BY <1>1, <1>2, <1>3, QuietPaired, CallsOfOutputs
<1>4. CASE Emit(<<TxLocked, StopTx, LogEntry(q)>>, batch)
  BY <1>1, <1>4, QuietPaired, CallsOfOutputs
<1>5. CASE Bail(q, "ohne_adressierung", batch, ctx, zaehler)
  BY <1>5, BailPaired DEF BailReasons
<1> QED BY <1>3, <1>4, <1>5 DEF EmitLogQso

LEMMA AnswerLatePaired ==
    ASSUME HandlerTypeOK, CalledIn(pending) = {}, NEW batch, AnswerLateRReport(batch)
    PROVE  PairedAfresh
<1>1. CASE Lock(qso, batch)
  BY <1>1, LockPaired
<1>2. ASSUME NEW c \in Partners, Emit(<<Tx("rr73", c)>>, batch) PROVE PairedAfresh
  <2>1. <<Tx("rr73", c)>> \in Seq(Action) /\ "rr73" \notin ToPartner
    BY ActionTypes, SeqTypes DEF TxKinds, ToPartner
  <2> QED BY <1>2, <2>1, QuietPaired, CallsOfOutputs
<1> QED BY <1>1, <1>2 DEF AnswerLateRReport, Waiting

LEMMA NewQsoFields ==
    \A c \in Partners : /\ NewQso(c) # None
                        /\ NewQso(c).their_call = c /\ NewQso(c).stale_slots = 0
BY NewQsoType, MachineAssumption DEF NewQso

LEMMA ResumePaired ==
    ASSUME HandlerTypeOK, CalledIn(pending) = {}, NEW batch, Resume(batch)
    PROVE  PairedAfresh
<1>1. PICK c \in Resumable(batch), gone \in Dropped(batch) :
        LET q == [NewQso(c) EXCEPT !.their_snr = TRUE]
            ctx == CtxWithout(gone \cup {c})
            zaehler == ZaehlerWithout(gone)
        IN  \/ c \in Closers(batch) /\ EmitLogQso(q, batch, ctx, zaehler)
            \/ qso' = q /\ Emit(<<Tx("r_report", c)>>, batch)
  BY DEF Resume
<1> DEFINE q == [NewQso(c) EXCEPT !.their_snr = TRUE]
<1>2. c \in Partners
  BY DEF Resumable, Closers, Repeaters, Live
<1>3. q \in QsoContext
  BY <1>2, NewQsoType, SentType
<1>4. q # None /\ q.their_call = c /\ q.stale_slots = 0
  BY <1>2, <1>3, MachineAssumption DEF NewQso
<1> HIDE DEF q
<1>5. CASE EmitLogQso(q, batch, CtxWithout(gone \cup {c}), ZaehlerWithout(gone))
  BY <1>3, <1>5, EmitLogQsoPaired
<1>6. CASE qso' = q /\ Emit(<<Tx("r_report", c)>>, batch)
  BY <1>2, <1>4, <1>6, SentPaired DEF TxKinds
<1> QED BY <1>1, <1>5, <1>6 DEF q

LEMMA StartPaired ==
    ASSUME HandlerTypeOK, CalledIn(pending) = {}, NEW c \in Partners, NEW batch, Start(c, batch)
    PROVE  PairedAfresh
<1> DEFINE q == [NewQso(c) EXCEPT !.their_snr = TRUE]
<1>1. q # None /\ q.their_call = c /\ q.stale_slots = 0
  <2>1. q \in QsoContext
    BY NewQsoType, SentType
  <2> QED BY <2>1, MachineAssumption DEF NewQso
<1>2. qso' = q
  BY DEF Start
<1> HIDE DEF q
<1>3. CASE Emit(<<Tx("r_report", c)>>, batch)
  BY <1>1, <1>2, <1>3, SentPaired DEF TxKinds
<1>4. CASE Emit(<<Tx("respond_report", c)>>, batch)
  BY <1>1, <1>2, <1>4, SentPaired DEF TxKinds
<1> QED BY <1>3, <1>4 DEF Start

LEMMA CallPaired ==
    ASSUME HandlerTypeOK, CalledIn(pending) = {}, NEW c \in Partners, NEW batch, Call(c, batch)
    PROVE  PairedAfresh
<1> DEFINE q == [NewQso(c) EXCEPT !.gesendet_bei_charge = TRUE]
<1>1. q # None /\ q.their_call = c /\ q.stale_slots = 0
  <2>1. q \in QsoContext
    BY NewQsoType, CalledType
  <2> QED BY <2>1, MachineAssumption DEF NewQso
<1>2. qso' = q
  BY DEF Call
<1> HIDE DEF q
<1> QED BY <1>1, <1>2, SentPaired DEF Call, TxKinds

LEMMA HuntingPaired ==
    ASSUME HandlerTypeOK, CalledIn(pending) = {}, NEW q, NEW batch \in SUBSET Message,
           Hunting(q, batch)
    PROVE  PairedAfresh
<1>1. CASE Resume(batch)
  BY <1>1, ResumePaired
<1>2. ASSUME NEW c \in DirectCallers(batch), Start(c, batch) PROVE PairedAfresh
  <2>1. c \in Partners
    BY CallerTypes DEF DirectCallers
  <2> QED BY <1>2, <2>1, StartPaired
<1>3. ASSUME NEW c \in Eligible(batch), Call(c, batch) PROVE PairedAfresh
  BY <1>3, EligibleTypes, CallPaired
<1>4. CASE Lock(q, batch)
  BY <1>4, LockPaired
<1>5. CASE Silent(batch)
  BY <1>5, SilentPaired
<1> QED BY <1>1, <1>2, <1>3, <1>4, <1>5 DEF Hunting

LEMMA CallingPaired ==
    ASSUME HandlerTypeOK, CalledIn(pending) = {}, NEW q, NEW batch \in SUBSET Message,
           Calling(q, batch)
    PROVE  PairedAfresh
<1>1. CASE Resume(batch)
  BY <1>1, ResumePaired
<1>2. ASSUME NEW c \in ReportCallers(batch) \cup GridCallers(batch), Start(c, batch)
      PROVE  PairedAfresh
  BY <1>2, CallerTypes, StartPaired
<1>3. ASSUME NEW c \in Eligible(batch), Call(c, batch) PROVE PairedAfresh
  BY <1>3, EligibleTypes, CallPaired
<1>4. CASE Lock(q, batch)
  BY <1>4, LockPaired
<1>5. CASE Silent(batch)
  BY <1>5, SilentPaired
<1> QED BY <1>1, <1>2, <1>3, <1>4, <1>5 DEF Calling

LEMMA ContinuePaired ==
    ASSUME HandlerTypeOK, CalledIn(pending) = {}, NEW q, NEW next, NEW k \in TxKinds,
           NEW new \in QsoContext, NEW batch, Continue(q, next, k, new, batch),
           new.their_call = q.their_call, new.stale_slots = 0
    PROVE  PairedAfresh
<1>1. CASE ~hw /\ Lock(q, batch)
  BY <1>1, LockPaired
<1>2. CASE qso' = new /\ Emit(<<Tx(k, q.their_call)>>, batch)
  BY <1>2, SentPaired, MachineAssumption DEF QsoContext
<1> QED BY <1>1, <1>2 DEF Continue

LEMMA CompletePaired ==
    ASSUME HandlerTypeOK, CalledIn(pending) = {}, NEW q \in QsoContext, NEW batch,
           Complete(q, batch)
    PROVE  PairedAfresh
BY ProgressType, EmitLogQsoPaired DEF Complete

(* A QSO that goes on starts to wait anew.                                 *)
LEMMA NextContextFresh ==
    ASSUME NEW q \in QsoContext
    PROVE  LET q1 == [q EXCEPT !.resend_vorgemerkt = None]
               call == [q1 EXCEPT !.stale_slots = 0, !.gesendet_bei_charge = TRUE] IN
           /\ q1 \in QsoContext /\ q1.their_call = q.their_call
           /\ Progress(q).stale_slots = 0 /\ Progress(q).their_call = q.their_call
           /\ call.stale_slots = 0 /\ call.their_call = q.their_call
BY MachineAssumption DEF Progress, QsoContext

LEMMA GiveUpPaired ==
    ASSUME HandlerTypeOK, CalledIn(pending) = {}, NEW q \in QsoContext, NEW r \in BailReasons,
           NEW batch, GiveUp(q, r, batch)
    PROVE  PairedAfresh
BY BailPaired DEF GiveUp

LEMMA WaitPaired ==
    ASSUME HandlerTypeOK, CalledIn(pending) = {}, NEW q, NEW batch, Wait(q, batch)
    PROVE  PairedAfresh
BY SilentPaired DEF Wait

LEMMA RespondPaired ==
    ASSUME HandlerTypeOK, CalledIn(pending) = {}, NEW q \in QsoContext, NEW batch,
           NEW late \in BOOLEAN, NEW p \in Parities, Respond(q, batch, late, p)
    PROVE  PairedAfresh
<1> DEFINE q1 == [q EXCEPT !.resend_vorgemerkt = None]
           call == [q1 EXCEPT !.stale_slots = 0, !.gesendet_bei_charge = TRUE]
           sent == [Progress(q) EXCEPT !.their_snr = TRUE]
           again == [call EXCEPT !.ruf_ausgefallen = FALSE]
           more == [call EXCEPT !.cq_resends = @ + 1]
           hop == [call EXCEPT !.freq_hopped_once = TRUE]
           noted == [q EXCEPT !.resend_vorgemerkt = p, !.stale_slots = 0]
           Goes(new) == new \in QsoContext /\ new.their_call = q.their_call /\ new.stale_slots = 0
<1>1. /\ q1 \in QsoContext /\ q1.their_call = q.their_call
      /\ q1.cq_resends = q.cq_resends
  BY MachineAssumption DEF QsoContext
<1>2. call.cq_resends = q.cq_resends /\ Goes(call)
  <2>1. call \in QsoContext
    <3> HIDE DEF q1
    <3> QED BY <1>1, NextContextTypes
  <2> HIDE DEF q1
  <2>2. call.their_call = q.their_call /\ call.stale_slots = 0 /\ call.cq_resends = q.cq_resends
    BY <1>1 DEF QsoContext
  <2> QED BY <2>1, <2>2
<1>3. Goes(sent)
  <2>1. Progress(q) \in QsoContext
    BY ProgressType
  <2>2. sent \in QsoContext
    BY <2>1, SentType
  <2>3. Progress(q).their_call = q.their_call /\ Progress(q).stale_slots = 0
    BY DEF Progress, QsoContext
  <2>4. sent.their_call = Progress(q).their_call /\ sent.stale_slots = Progress(q).stale_slots
    BY <2>1 DEF QsoContext
  <2> QED BY <2>2, <2>3, <2>4
<1> HIDE DEF q1, call, sent
<1>4. Goes(again) /\ Goes(hop)
  <2>1. again \in QsoContext /\ hop \in QsoContext
    BY <1>2, NextContextTypes
  <2> QED BY <1>2, <2>1 DEF QsoContext
<1>5. call.cq_resends < qso_max_cq_resends => Goes(more)
  <2>1. call.cq_resends < qso_max_cq_resends => more \in QsoContext
    BY <1>2, NextContextTypes
  <2>2. more.their_call = call.their_call /\ more.stale_slots = call.stale_slots
    BY <1>2 DEF QsoContext
  <2> QED BY <1>2, <2>1, <2>2
<1> HIDE DEF again, more, hop
<1>6. CASE Complete(q, batch)
  BY <1>6, CompletePaired
<1>7. CASE Continue(q, "QSO_REPORT", "r_report", sent, batch)
  BY <1>3, <1>7, ContinuePaired DEF TxKinds
<1>8. CASE GiveUp(q, "picked_another", batch) \/ GiveUp(q1, "max_resends", batch)
  BY <1>1, <1>8, GiveUpPaired DEF BailReasons
<1>9. CASE Wait(q, batch) \/ Wait(noted, batch)
  BY <1>9, WaitPaired
<1>10. CASE Continue(q, state, "respond_grid", again, batch)
  BY <1>4, <1>10, ContinuePaired DEF TxKinds
<1>11. CASE q.cq_resends < qso_max_cq_resends /\ Continue(q1, state, "respond_grid", more, batch)
  BY <1>1, <1>2, <1>5, <1>11, ContinuePaired DEF TxKinds
<1>12. CASE Continue(q1, state, "respond_grid", hop, batch)
  BY <1>1, <1>4, <1>12, ContinuePaired DEF TxKinds
<1>13. ~(q.cq_resends >= qso_max_cq_resends) => q.cq_resends < qso_max_cq_resends
  BY MachineAssumption DEF QsoContext
<1> QED BY <1>6, <1>7, <1>8, <1>9, <1>10, <1>11, <1>12, <1>13
        DEF Respond, q1, call, sent, again, more, hop

LEMMA ReportPaired ==
    ASSUME HandlerTypeOK, CalledIn(pending) = {}, NEW q \in QsoContext, NEW batch,
           Report(q, batch)
    PROVE  PairedAfresh
<1>1. CASE Complete(q, batch)
  BY <1>1, CompletePaired
<1>2. CASE GiveUp(q, "picked_another", batch)
  BY <1>2, GiveUpPaired DEF BailReasons
<1>3. CASE Wait(q, batch)
  BY <1>3, WaitPaired
<1>4. ASSUME NEW limit \in ReportLimits, q.report_resends < limit,
             Continue(q, state, "r_report", RepeatReport(q), batch)
      PROVE  PairedAfresh
  <2>1. RepeatReport(q) \in QsoContext
    BY <1>4, RepeatReportType
  <2>2. RepeatReport(q).their_call = q.their_call /\ RepeatReport(q).stale_slots = 0
    BY DEF RepeatReport, Progress, QsoContext
  <2> QED BY <1>4, <2>1, <2>2, ContinuePaired DEF TxKinds
<1> QED BY <1>1, <1>2, <1>3, <1>4 DEF Report

(* Neither the farewell nor what follows it is a call.                     *)
LEMMA ExitGraceCalls ==
    ASSUME pending \in Seq(Action), NEW before \in Seq(Action), NEW batch,
           ExitGrace(before, batch), CalledIn(before) = {}
    PROVE  CalledIn(pending') = CalledIn(pending) /\ qso' = qso
<1>1. <<Tx("cq", None)>> \in Seq(Action) /\ <<TxLocked, StopTx>> \in Seq(Action)
  BY TxTypes, ActionTypes, SeqTypes
<1>2. CalledIn(<<Tx("cq", None)>>) = {} /\ CalledIn(<<TxLocked, StopTx>>) = {}
  BY CallsOfOutputs DEF ToPartner
<1>3. /\ before \o <<Tx("cq", None)>> \in Seq(Action)
      /\ before \o <<TxLocked, StopTx>> \in Seq(Action)
      /\ CalledIn(before \o <<Tx("cq", None)>>) = {}
      /\ CalledIn(before \o <<TxLocked, StopTx>>) = {}
  BY <1>1, <1>2, SeqTypes, CallsOfConcat
<1>4. PICK acts \in {before, before \o <<Tx("cq", None)>>, before \o <<TxLocked, StopTx>>} :
        Emit(acts, batch)
  BY DEF ExitGrace
<1>5. acts \in Seq(Action) /\ CalledIn(acts) = {}
  BY <1>3
<1>6. CalledIn(pending') = CalledIn(pending)
  BY <1>4, <1>5, EmitCalls
<1> QED BY <1>6 DEF ExitGrace

LEMMA GracePaired ==
    ASSUME HandlerTypeOK, CalledIn(pending) = {}, NEW q, NEW batch, Grace(q, batch)
    PROVE  PairedAfresh
<1>1. CASE grace # None /\ ExitGrace(<<Tx("ack73", grace)>>, batch)
  <2>1. <<Tx("ack73", grace)>> \in Seq(Action)
    BY <1>1, TxTypes DEF HandlerTypeOK, TxKinds
  <2>2. CalledIn(<<Tx("ack73", grace)>>) = {}
    BY CallsOfOutputs DEF ToPartner
  <2> QED BY <1>1, <2>1, <2>2, ExitGraceCalls DEF HandlerTypeOK, PairedAfresh
<1>2. CASE Lock(q, batch)
  BY <1>2, LockPaired
<1>3. CASE Wait(q, batch)
  BY <1>3, WaitPaired
<1> QED BY <1>1, <1>2, <1>3 DEF Grace

LEMMA DecodePaired ==
    ASSUME HandlerTypeOK, CalledIn(pending) = {}, NEW batch \in SUBSET Message,
           NEW late \in BOOLEAN, NEW p \in Parities, Decode(batch, late, p)
    PROVE  PairedAfresh
<1> DEFINE q == Preamble(batch, late)
<1>1. q \in QsoContext \cup {None}
  BY PreambleType DEF HandlerTypeOK
<1> HIDE DEF q
<1>2. CASE AnswerLateRReport(batch)
  BY <1>2, AnswerLatePaired
<1>3. CASE Hunting(q, batch)
  BY <1>3, HuntingPaired
<1>4. CASE Calling(q, batch)
  BY <1>4, CallingPaired
<1>5. CASE q # None /\ Respond(q, batch, late, p)
  BY <1>1, <1>5, RespondPaired
<1>6. CASE q # None /\ Report(q, batch)
  BY <1>1, <1>6, ReportPaired
<1>7. CASE Grace(q, batch)
  BY <1>7, GracePaired
<1>8. CASE Wait(q, batch)
  BY <1>8, WaitPaired
<1> QED BY <1>2, <1>3, <1>4, <1>5, <1>6, <1>7, <1>8 DEF Decode, q

(* The tick gives nobody up who has just been called.                      *)
LEMMA TickPaired ==
    ASSUME HandlerTypeOK, Paired, OnSlotTick
    PROVE  Paired'
<1>0. turn = "tick" /\ turn' = "slot" /\ pending \in Seq(Action)
  BY DEF OnSlotTick, HandlerTypeOK
<1>1. ASSUME CalledIn(pending') = CalledIn(pending), qso' = qso PROVE Paired'
  BY <1>0, <1>1 DEF Paired
<1>2. ASSUME NEW acts \in Seq(Action), Emit(acts, {}), CalledIn(acts) = {}
      PROVE  CalledIn(pending') = CalledIn(pending)
  BY <1>0, <1>2, EmitCalls
<1>3. /\ <<>> \in Seq(Action) /\ CalledIn(<<>>) = {}
      /\ <<TxLocked, StopTx>> \in Seq(Action) /\ CalledIn(<<TxLocked, StopTx>>) = {}
      /\ <<Tx("cq", None)>> \in Seq(Action) /\ CalledIn(<<Tx("cq", None)>>) = {}
  BY TxTypes, ActionTypes, SeqTypes, CallsOfOutputs DEF ToPartner
<1>4. CASE qso' = qso /\ (Silent({}) \/ Lock(qso, {}) \/ Emit(<<Tx("cq", None)>>, {}))
  BY <1>1, <1>2, <1>3, <1>4 DEF Silent, Lock
<1>5. ASSUME NEW fallback, NEW count, NEW idle, CqSlot(fallback, count, idle) PROVE Paired'
  BY <1>4, <1>5 DEF CqSlot, Lock
<1>6. CASE state = "IDLE" /\ IdleTick
  BY <1>4, <1>5, <1>6 DEF IdleTick, Lock
<1>7. ASSUME qso # None, NEW r \in BailReasons, StaleTick(r) PROVE Paired'
  <2>1. qso \in QsoContext
    BY <1>7 DEF HandlerTypeOK
  <2>2. CASE /\ qso.stale_slots < qso_max_stale_slots
             /\ qso' = [qso EXCEPT !.stale_slots = @ + 1]
             /\ Silent({})
    <3>1. CalledIn(pending') = CalledIn(pending)
      BY <1>2, <1>3, <2>2 DEF Silent
    <3>2. qso'.their_call = qso.their_call
      BY <2>1, <2>2 DEF QsoContext
    <3>3. qso' # None
      <4>1. qso.stale_slots + 1 \in 0..qso_max_stale_slots
        BY <2>1, <2>2, MachineAssumption DEF QsoContext
      <4>2. qso' \in QsoContext
        BY <2>1, <2>2, <4>1 DEF QsoContext
      <4> QED BY <4>2, MachineAssumption
    <3> QED BY <1>0, <3>1, <3>2, <3>3 DEF Paired
  <2>3. CASE qso.stale_slots >= qso_max_stale_slots /\ GiveUp(qso, r, {})
    <3>1. CalledIn(pending) = {}
      BY <1>0, <2>3, MachineAssumption DEF Paired
    <3>2. PairedAfresh
      BY <2>1, <2>3, <3>1, <1>7, GiveUpPaired
    <3> QED BY <1>0, <3>2 DEF PairedAfresh, Paired
  <2> QED BY <1>7, <2>2, <2>3 DEF StaleTick
<1>8. CASE ExitGrace(<<>>, {})
  BY <1>0, <1>1, <1>3, <1>8, ExitGraceCalls
<1> QED BY <1>4, <1>5, <1>6, <1>7, <1>8 DEF OnSlotTick, BailReasons

LEMMA OnDecodesPaired ==
    ASSUME SafetyInv, NEW kind \in BatchKinds, NEW batch \in Batches[HeardSlot(kind)],
           OnDecodes(batch, kind)
    PROVE  Paired'
<1>1. HeardSlot(kind) \in Parities /\ parity' \in Parities
  BY DEF SafetyInv, TypeOK, OnDecodes, HeardSlot, Flip, Parities
<1>2. batch \in SUBSET Message
  BY <1>1, MachineAssumption
<1>3. HandlerTypeOK /\ CalledIn(pending) = {}
  BY TypeSplit DEF SafetyInv, QueueEmptyBetweenRounds, NothingQueued, CalledIn, OnDecodes
<1>4. PairedAfresh
  BY <1>1, <1>2, <1>3, DecodePaired DEF OnDecodes
<1> QED BY <1>4 DEF PairedAfresh, Paired

(* Between rounds nobody is called, whatever becomes of the QSO.           *)
LEMMA NobodyPaired == CalledIn(pending) = {} => Paired
BY DEF Paired

LEMMA DrainedPaired == DrainActions => Paired'
<1> SUFFICES ASSUME DrainActions PROVE Paired'
  OBVIOUS
<1>1. CalledIn(pending') = {}
  BY CallsOfOutputs DEF DrainActions
<1> QED BY <1>1 DEF Paired

LEMMA OperatorPaired ==
    ASSUME SafetyInv,
           \/ UserStartCq \/ UserStop \/ UserPanic \/ UserSkipQso \/ SwitchOperator
           \/ UserResetLock \/ UserReplyTo \/ SetAutoAnswer \/ SetDrainForUpdate
    PROVE  Paired'
<1>1. turn = "any"
  BY DEF UserStartCq, UserStop, UserPanic, Stop, UserSkipQso, SwitchOperator, UserResetLock,
         UserReplyTo, SetAutoAnswer, SetDrainForUpdate, Command, settings
<1>2. HandlerTypeOK /\ CalledIn(pending) = {}
  BY <1>1, TypeSplit DEF SafetyInv, QueueEmptyBetweenRounds, NothingQueued, CalledIn
<1>3. ASSUME NEW acts \in Seq(Action), Emit(acts, {}), CalledIn(acts) = {} PROVE Paired'
  <2>1. CalledIn(pending') = {}
    BY <1>2, <1>3, EmitCalls DEF HandlerTypeOK
  <2> QED BY <2>1 DEF Paired
<1>4. /\ <<StopTx>> \in Seq(Action) /\ CalledIn(<<StopTx>>) = {}
      /\ <<TxLocked, StopTx>> \in Seq(Action) /\ CalledIn(<<TxLocked, StopTx>>) = {}
      /\ <<Tx("cq", None)>> \in Seq(Action) /\ CalledIn(<<Tx("cq", None)>>) = {}
  BY TxTypes, ActionTypes, SeqTypes, CallsOfOutputs DEF ToPartner
<1>5. CASE Emit(<<StopTx>>, {}) \/ Lock(qso, {}) \/ Emit(<<Tx("cq", None)>>, {})
  BY <1>3, <1>4, <1>5 DEF Lock
<1>6. CASE pending' = pending
  <2>1. CalledIn(pending') = {}
    BY <1>2, <1>6
  <2> QED BY <2>1 DEF Paired
<1>7. ASSUME NEW c \in Calls, Call(c, {}), UserReplyTo PROVE Paired'
  <2>1. PairedAfresh
    BY <1>2, <1>7, CallPaired DEF Partners
  <2> QED BY <1>7, <2>1 DEF PairedAfresh, Paired
<1> QED BY <1>5, <1>6, <1>7
        DEF UserStartCq, UserStop, UserPanic, Stop, UserSkipQso, SwitchOperator,
            UserResetLock, UserReplyTo, SetAutoAnswer, SetDrainForUpdate, output

LEMMA OutsidePaired ==
    ASSUME SafetyInv,
           \/ TxSent \/ TxDropped \/ TxLate \/ SwrRunaway
           \/ HardwareChanges \/ CooldownEnds \/ ContextExpires \/ LoggedExpires \/ PauseEnds
    PROVE  Paired'
<1>1. turn = "any" /\ pending' = pending
  BY DEF TxSent, TxDropped, TxLate, SwrRunaway, outside, output,
         HardwareChanges, CooldownEnds, ContextExpires, LoggedExpires, PauseEnds, internal
<1>2. CalledIn(pending) = {}
  BY <1>1 DEF SafetyInv, QueueEmptyBetweenRounds, NothingQueued, CalledIn
<1>3. CalledIn(pending') = {}
  BY <1>1, <1>2
<1> QED BY <1>3 DEF Paired

LEMMA PairedStep ==
    ASSUME SafetyInv, Paired, [Next]_vars
    PROVE  Paired'
<1>1. CASE \E kind \in BatchKinds : \E batch \in Batches[HeardSlot(kind)] : OnDecodes(batch, kind)
  BY <1>1, OnDecodesPaired
<1>2. CASE OnSlotTick
  BY <1>2, TypeSplit, TickPaired DEF SafetyInv
<1>3. CASE DrainActions
  BY <1>3, DrainedPaired
<1>4. CASE \/ UserStartCq \/ UserStop \/ UserPanic \/ UserSkipQso \/ SwitchOperator
           \/ UserResetLock \/ UserReplyTo \/ SetAutoAnswer \/ SetDrainForUpdate
  BY <1>4, OperatorPaired
<1>5. CASE \/ TxSent \/ TxDropped \/ TxLate \/ SwrRunaway
           \/ HardwareChanges \/ CooldownEnds \/ ContextExpires \/ LoggedExpires \/ PauseEnds
  BY <1>5, OutsidePaired
<1>6. CASE UNCHANGED vars
  <2>1. UNCHANGED <<pending, qso, turn>>
    BY <1>6 DEF vars, output
  <2>2. CalledIn(pending') = CalledIn(pending)
    BY <2>1
  <2> QED BY <2>1, <2>2 DEF Paired
<1> QED BY <1>1, <1>2, <1>3, <1>4, <1>5, <1>6 DEF Next

(* What is queued for a partner belongs to the QSO: no handler gives a QSO *)
(* up, or begins another, with a call of its own still in the queue.       *)
THEOREM CallsAlwaysBelongToTheQso == Spec => []CallsBelongToTheQso
<1>1. Init => Paired
  <2> SUFFICES ASSUME Init PROVE Paired
    OBVIOUS
  <2>1. CalledIn(pending) = {}
    BY CallsOfOutputs DEF Init
  <2> QED BY <2>1, NobodyPaired
<1>2. SafetyInv /\ Paired /\ [Next]_vars => Paired'
  BY PairedStep
<1>3. Paired => CallsBelongToTheQso
  BY DEF Paired, CallsBelongToTheQso
<1> QED BY <1>1, <1>2, <1>3, SafetyInductive, PTL DEF Spec

-----------------------------------------------------------------------------
(* What the station does of its own accord.                                *)

(* The state alone does not tell that a stop holds: the modes that would   *)
(* bring a QSO or a CQ back are off too.                                   *)
Off ==
    stopped # "no" => /\ state \in {"IDLE", "TX_LOCKED"}
                      /\ auto_cq = FALSE /\ auto_answer = FALSE

(* What a stopped station may still have queued.                           *)
Farewell(x) == x.kind = "rr73" /\ recent_logged[x.call] \in 1..RR73_NACHKLANG_MAX
OnlyFarewells ==
    stopped # "no" => \A x \in OfKind(pending, "TX_MESSAGE") : Farewell(x)

(* Without a mode that is on, a station at rest stays at rest.             *)
LEMMA DecodesRest ==
    ASSUME NEW batch, NEW late, NEW p, Decode(batch, late, p),
           state \in {"IDLE", "TX_LOCKED"}, ~Hunts
    PROVE  state' \in {"IDLE", "TX_LOCKED"}
BY DEF Decode, AnswerLateRReport, Wait, Lock

LEMMA TickRests ==
    ASSUME OnSlotTick, state \in {"IDLE", "TX_LOCKED"},
           drain_for_update \/ (auto_cq = FALSE /\ ~StartsFallback)
    PROVE  state' \in {"IDLE", "TX_LOCKED"}
<1>1. CASE state = "TX_LOCKED"
  BY <1>1 DEF OnSlotTick
<1>2. CASE state = "IDLE"
  BY <1>2 DEF OnSlotTick, IdleTick, CqSlot, Lock, StartsFallback
<1> QED BY <1>1, <1>2

LEMMA OffStep ==
    ASSUME TypeOK, Off, [Next]_vars
    PROVE  Off'
<1>1. CASE \E kind \in BatchKinds : \E batch \in Batches[HeardSlot(kind)] : OnDecodes(batch, kind)
  BY <1>1, DecodesRest DEF OnDecodes, Off, modes, Hunts
<1>2. CASE OnSlotTick
  <2>1. UNCHANGED <<stopped, auto_cq, auto_answer>>
    BY <1>2 DEF OnSlotTick, modes, history
  <2>2. stopped # "no" => state' \in {"IDLE", "TX_LOCKED"}
    BY <1>2, TickRests DEF Off, StartsFallback
  <2> QED BY <2>1, <2>2 DEF Off
<1>3. CASE UserStartCq \/ UserReplyTo
  BY <1>3 DEF UserStartCq, UserReplyTo, Off, GuardsPass, Lock, modes
<1>4. CASE UserStop \/ UserPanic
  BY <1>4 DEF UserStop, UserPanic, Stop, Off
<1>5. CASE UserSkipQso \/ SwitchOperator \/ SetDrainForUpdate
  BY <1>5 DEF UserSkipQso, SwitchOperator, SetDrainForUpdate, Off, modes
<1>6. CASE UserResetLock
  <2>1. UNCHANGED <<auto_cq, auto_answer>> /\ (stopped' # "no" => stopped # "no")
    BY <1>6 DEF UserResetLock, modes
  <2>2. state \in {"IDLE", "TX_LOCKED"} => state' \in {"IDLE", "TX_LOCKED"}
    BY <1>6 DEF UserResetLock
  <2> QED BY <2>1, <2>2 DEF Off
<1>7. CASE SetAutoAnswer
  BY <1>7 DEF SetAutoAnswer, Off, TypeOK
<1>8. CASE DrainActions
  BY <1>8 DEF DrainActions, Off, modes, history
<1>9. CASE TxSent \/ TxDropped \/ TxLate
  BY <1>9 DEF TxSent, TxDropped, TxLate, outside, Off, modes
<1>10. CASE SwrRunaway
  BY <1>10 DEF SwrRunaway, Off, modes, history
<1>11. CASE HardwareChanges \/ CooldownEnds \/ ContextExpires \/ LoggedExpires \/ PauseEnds
  BY <1>11 DEF HardwareChanges, CooldownEnds, ContextExpires, LoggedExpires, PauseEnds,
              internal, Off, modes, history
<1>12. CASE UNCHANGED vars
  BY <1>12 DEF vars, Off, modes, history
<1> QED BY <1>1, <1>2, <1>3, <1>4, <1>5, <1>6, <1>7, <1>8, <1>9, <1>10, <1>11, <1>12 DEF Next

(* Where nothing is queued, nothing but farewells is.                      *)
LEMMA NothingButFarewells == OfKind(pending, "TX_MESSAGE") = {} => OnlyFarewells
BY DEF OnlyFarewells

(* What a handler queues for a stopped station: nothing to transmit.       *)
LEMMA QuietFarewells ==
    ASSUME pending \in Seq(Action), NEW batch, Emit(<<>>, batch) \/ Emit(<<StopTx>>, batch)
                                              \/ Emit(<<TxLocked, StopTx>>, batch)
    PROVE  OfKind(pending', "TX_MESSAGE") = OfKind(pending, "TX_MESSAGE")
<1>1. <<>> \in Seq(Action) /\ <<StopTx>> \in Seq(Action) /\ <<TxLocked, StopTx>> \in Seq(Action)
  BY DEF StopTx, TxLocked, Action
<1>2. ASSUME NEW acts \in Seq(Action), Emit(acts, batch), OfKind(acts, "TX_MESSAGE") = {}
      PROVE  OfKind(pending', "TX_MESSAGE") = OfKind(pending, "TX_MESSAGE")
  BY <1>2, EmitEffect
<1>3. CASE Emit(<<>>, batch)
  BY <1>1, <1>2, <1>3, KindsOfOutputs
<1>4. CASE Emit(<<StopTx>>, batch)
  BY <1>1, <1>2, <1>4, KindsOfOutputs
<1>5. CASE Emit(<<TxLocked, StopTx>>, batch)
  BY <1>1, <1>2, <1>5, KindsOfOutputs
<1> QED BY <1>3, <1>4, <1>5

(* A batch brings a stopped station one RR73 at most, and counts it.       *)
LEMMA DecodeFarewells ==
    ASSUME HandlerTypeOK, NothingQueued, NEW batch \in SUBSET Message, NEW late, NEW p,
           Decode(batch, late, p), state \in {"IDLE", "TX_LOCKED"}, ~Hunts,
           UNCHANGED stopped
    PROVE  OnlyFarewells'
<1>1. pending \in Seq(Action) /\ OfKind(pending, "TX_MESSAGE") = {}
  BY DEF HandlerTypeOK, NothingQueued
<1>2. CASE AnswerLateRReport(batch)
  <2>1. CASE Lock(qso, batch)
    BY <1>1, <2>1, QuietFarewells DEF Lock, OnlyFarewells
  <2>2. CASE ~Lock(qso, batch)
    <3>1. PICK c \in Waiting(batch) : /\ recent_logged' = [recent_logged EXCEPT ![c] = @ + 1]
                                     /\ Emit(<<Tx("rr73", c)>>, batch)
      BY <1>2, <2>2 DEF AnswerLateRReport
    <3>2. c \in Partners /\ recent_logged[c] \in 0..(RR73_NACHKLANG_MAX - 1)
      BY DEF Waiting
    <3>3. recent_logged'[c] \in 1..RR73_NACHKLANG_MAX
      <4>1. recent_logged'[c] = recent_logged[c] + 1
        BY <3>1, <3>2 DEF HandlerTypeOK
      <4> QED BY <3>2, <4>1, MachineAssumption
    <3>4. <<Tx("rr73", c)>> \in Seq(Action)
      BY <3>2, TxTypes DEF TxKinds
    <3>5. OfKind(pending', "TX_MESSAGE") = OfKind(<<Tx("rr73", c)>>, "TX_MESSAGE")
      BY <1>1, <3>1, <3>4, EmitEffect
    <3>6. \A x \in OfKind(<<Tx("rr73", c)>>, "TX_MESSAGE") : x = Tx("rr73", c)
      BY ElementsOfTuples DEF OfKind
    <3> QED BY <3>3, <3>5, <3>6 DEF OnlyFarewells, Farewell, Tx
  <2> QED BY <2>1, <2>2
<1>3. CASE ~AnswerLateRReport(batch)
  <2>1. Emit(<<>>, batch)
    BY <1>3 DEF Decode, Wait, Silent
  <2> QED BY <1>1, <2>1, QuietFarewells DEF OnlyFarewells
<1> QED BY <1>2, <1>3

(* A tick queues nothing for it but what a lock brings.                    *)
LEMMA TickFarewells ==
    ASSUME TypeOK, OnSlotTick, OnlyFarewells, Off, UNCHANGED stopped
    PROVE  OnlyFarewells'
<1> SUFFICES ASSUME stopped # "no"
             PROVE  \A x \in OfKind(pending', "TX_MESSAGE") : Farewell(x)'
  BY DEF OnlyFarewells
<1>1. state \in {"IDLE", "TX_LOCKED"} /\ ~auto_cq /\ ~auto_answer
  BY DEF Off
<1>2. recent_logged' = recent_logged
  BY <1>1 DEF OnSlotTick, memory
<1>3. Emit(<<>>, {})
  <2>1. CASE state = "IDLE"
    BY <1>1, <2>1 DEF OnSlotTick, IdleTick, StartsFallback, Silent
  <2>2. CASE state = "TX_LOCKED"
    BY <2>2 DEF OnSlotTick, Silent
  <2> QED BY <1>1, <2>1, <2>2
<1> QED BY <1>2, <1>3, QuietFarewells DEF OnlyFarewells, Farewell, TypeOK

LEMMA FarewellStep ==
    ASSUME SafetyInv, Off, OnlyFarewells, [Next]_vars
    PROVE  OnlyFarewells'
<1>1. TypeOK /\ pending \in Seq(Action)
  BY DEF SafetyInv, TypeOK
<1>2. turn = "any" => OfKind(pending, "TX_MESSAGE") = {}
  BY DEF SafetyInv, QueueEmptyBetweenRounds, NothingQueued
<1>3. ASSUME NEW kind \in BatchKinds, NEW batch \in Batches[HeardSlot(kind)], OnDecodes(batch, kind)
      PROVE  OnlyFarewells'
  <2>1. HeardSlot(kind) \in Parities
    BY <1>1 DEF TypeOK, HeardSlot, Flip, Parities
  <2>2. batch \in SUBSET Message /\ HandlerTypeOK
    BY <1>1, <2>1, TypeSplit, MachineAssumption
  <2>3. NothingQueued /\ UNCHANGED stopped /\ Decode(batch, kind = "late", parity')
    BY <1>3 DEF OnDecodes, SafetyInv, QueueEmptyBetweenRounds
  <2>4. CASE stopped = "no"
    BY <2>3, <2>4 DEF OnlyFarewells
  <2>5. CASE stopped # "no"
    <3>1. state \in {"IDLE", "TX_LOCKED"} /\ ~Hunts
      BY <2>5 DEF Off, Hunts
    <3> QED BY <2>2, <2>3, <3>1, DecodeFarewells
  <2> QED BY <2>4, <2>5
<1>4. CASE OnSlotTick
  BY <1>1, <1>4, TickFarewells DEF OnSlotTick, history
<1>5. CASE UserStartCq \/ UserReplyTo
  <2>1. CASE hw
    BY <1>5, <2>1 DEF UserStartCq, UserReplyTo, GuardsPass, OnlyFarewells
  <2>2. CASE ~hw
    <3>1. Emit(<<TxLocked, StopTx>>, {}) /\ turn = "any"
      BY <1>5, <2>2 DEF UserStartCq, UserReplyTo, GuardsPass, Lock, Command
    <3> QED BY <1>1, <1>2, <3>1, QuietFarewells DEF OnlyFarewells
  <2> QED BY <2>1, <2>2
<1>6. CASE UserStop \/ UserPanic \/ UserSkipQso \/ SwitchOperator
  <2>1. Emit(<<StopTx>>, {}) /\ turn = "any"
    BY <1>6 DEF UserStop, UserPanic, Stop, UserSkipQso, SwitchOperator, Command
  <2> QED BY <1>1, <1>2, <2>1, QuietFarewells DEF OnlyFarewells
<1>7. CASE SetAutoAnswer
  <2>1. turn = "any" /\ (Emit(<<StopTx>>, {}) \/ UNCHANGED pending)
    BY <1>7 DEF SetAutoAnswer, Command, output
  <2> QED BY <1>1, <1>2, <2>1, QuietFarewells DEF OnlyFarewells
<1>8. CASE UserResetLock \/ SetDrainForUpdate
  <2>1. turn = "any" /\ UNCHANGED pending
    BY <1>8 DEF UserResetLock, SetDrainForUpdate, Command, output
  <2> QED BY <1>2, <2>1 DEF OnlyFarewells
<1>9. CASE DrainActions
  <2>1. pending' = <<>>
    BY <1>9 DEF DrainActions
  <2> QED BY <2>1, KindsOfOutputs DEF OnlyFarewells
<1>10. CASE TxSent \/ TxDropped \/ TxLate \/ SwrRunaway
  <2>1. turn = "any" /\ UNCHANGED pending
    BY <1>10 DEF TxSent, TxDropped, TxLate, SwrRunaway, outside, output
  <2> QED BY <1>2, <2>1 DEF OnlyFarewells
<1>11. CASE HardwareChanges \/ CooldownEnds \/ ContextExpires \/ LoggedExpires \/ PauseEnds
  <2>1. turn = "any" /\ UNCHANGED pending
    BY <1>11 DEF HardwareChanges, CooldownEnds, ContextExpires, LoggedExpires, PauseEnds,
                 internal, output
  <2> QED BY <1>2, <2>1 DEF OnlyFarewells
<1>12. CASE UNCHANGED vars
  BY <1>12 DEF vars, output, memory, history, OnlyFarewells, Farewell
<1> QED BY <1>3, <1>4, <1>5, <1>6, <1>7, <1>8, <1>9, <1>10, <1>11, <1>12 DEF Next

(* After a stop the station stays off until the operator starts something, *)
(* whatever is heard, ticks, locks or is switched meanwhile; what it may   *)
(* still send is the RR73 a partner of a logged QSO asks for again.        *)
THEOREM StoppedAlwaysStaysOff == Spec => []StoppedStaysOff
<1>1. Init => Off /\ OnlyFarewells
  <2> SUFFICES ASSUME Init PROVE Off /\ OnlyFarewells
    OBVIOUS
  <2>1. Off
    BY DEF Init, Off
  <2>2. OnlyFarewells
    BY KindsOfOutputs DEF Init, OnlyFarewells
  <2> QED BY <2>1, <2>2
<1>2. SafetyInv /\ Off /\ OnlyFarewells /\ [Next]_vars => Off' /\ OnlyFarewells'
  BY OffStep, FarewellStep DEF SafetyInv
<1>3. Off /\ OnlyFarewells => StoppedStaysOff
  BY DEF Off, OnlyFarewells, Farewell, StoppedStaysOff
<1> QED BY <1>1, <1>2, <1>3, SafetyInductive, PTL DEF Spec

(* Only decodes start a QSO of their own in IDLE.                          *)
LEMMA OnlyDecodesStart ==
    ASSUME [Next]_vars, state \in {"IDLE", "CQ_CALLING"}, turn' # "user",
           ~ \E kind \in BatchKinds : \E batch \in Batches[HeardSlot(kind)] : OnDecodes(batch, kind)
    PROVE  state' \in {"IDLE", "CQ_CALLING", "TX_LOCKED"}
<1>1. CASE OnSlotTick
  BY <1>1 DEF OnSlotTick, IdleTick, CqSlot, Lock
<1>2. CASE \/ UserStartCq \/ UserStop \/ UserPanic \/ UserSkipQso \/ SwitchOperator
           \/ UserResetLock \/ UserReplyTo \/ SetAutoAnswer \/ SetDrainForUpdate
  BY <1>2 DEF UserStartCq, UserStop, UserPanic, UserSkipQso, SwitchOperator, UserResetLock,
              UserReplyTo, SetAutoAnswer, SetDrainForUpdate, Command
<1>3. CASE DrainActions \/ TxSent \/ TxDropped \/ TxLate \/ SwrRunaway
  BY <1>3 DEF DrainActions, TxSent, TxDropped, TxLate, SwrRunaway, outside
<1>4. CASE HardwareChanges \/ CooldownEnds \/ ContextExpires \/ LoggedExpires \/ PauseEnds
  BY <1>4 DEF HardwareChanges, CooldownEnds, ContextExpires, LoggedExpires, PauseEnds, internal
<1>5. CASE UNCHANGED vars
  BY <1>5 DEF vars
<1> QED BY <1>1, <1>2, <1>3, <1>4, <1>5 DEF Next

(* At rest or calling CQ, the hunter or the caller begins a QSO.           *)
LEMMA DecodeBegins ==
    ASSUME NEW batch, NEW late, NEW p, Decode(batch, late, p),
           state \in {"IDLE", "CQ_CALLING"}, state' \in {"QSO_RESPOND", "QSO_REPORT"}
    PROVE  \E q : \/ state = "IDLE" /\ Hunting(q, batch)
                  \/ state = "CQ_CALLING" /\ Calling(q, batch)
<1>1. ~AnswerLateRReport(batch)
  BY DEF AnswerLateRReport, Lock
<1>2. \A q : ~Wait(q, batch)
  BY DEF Wait
<1>3. state \notin {"QSO_RESPOND", "QSO_REPORT", "QSO_GRACE", "TX_LOCKED"}
  OBVIOUS
<1> DEFINE q == Preamble(batch, late)
<1>4. \/ Hunts /\ Hunting(q, batch)
      \/ state = "CQ_CALLING" /\ Calling(q, batch)
  BY <1>1, <1>2, <1>3 DEF Decode
<1> HIDE DEF q
<1> QED BY <1>4 DEF Hunts

(* What is taken up again was left unfinished.                             *)
LEMMA ResumeSpares ==
    ASSUME NEW batch, Resume(batch), state' \in {"QSO_RESPOND", "QSO_REPORT"}
    PROVE  recent_qso_ctx[qso'.their_call] = "live"
<1>1. PICK c \in Resumable(batch) :
        \/ \E ctx, zaehler : EmitLogQso([NewQso(c) EXCEPT !.their_snr = TRUE], batch, ctx, zaehler)
        \/ qso' = [NewQso(c) EXCEPT !.their_snr = TRUE]
  BY DEF Resume
<1>2. ASSUME NEW r, NEW ctx, NEW zaehler PROVE ~EmitLogQso(r, batch, ctx, zaehler)
  BY DEF EmitLogQso, Bail
<1>3. c \in Live /\ c \in Partners
  BY DEF Resumable, Closers, Repeaters, Live
<1>4. qso'.their_call = c
  BY <1>1, <1>2 DEF NewQso
<1> QED BY <1>3, <1>4 DEF Live

(* The picker takes nobody in a cooldown, caller of CQ or tail end.        *)
LEMMA EligibleSpared ==
    ASSUME HandlerTypeOK, NEW batch \in SUBSET Message, NEW c \in Eligible(batch), Call(c, batch)
    PROVE  qso'.their_call \notin recent_until
<1>1. c \notin recent_until /\ c \in Partners
  BY EligibleTypes DEF Eligible
<1> QED BY <1>1, CallType

(* Hunting starts a QSO with a station out of its cooldown, or takes up    *)
(* one that was left unfinished.                                           *)
LEMMA HuntingSpares ==
    ASSUME HandlerTypeOK, NEW q, NEW batch \in SUBSET Message, Hunting(q, batch),
           state = "IDLE", state' \in {"QSO_RESPOND", "QSO_REPORT"}
    PROVE  \/ qso'.their_call \notin recent_until
           \/ recent_qso_ctx[qso'.their_call] = "live"
<1>1. CASE Resume(batch)
  BY <1>1, ResumeSpares
<1>2. ASSUME NEW c \in DirectCallers(batch), Start(c, batch) PROVE qso'.their_call \notin recent_until
  <2>1. c \notin recent_until
    BY DEF DirectCallers
  <2> QED BY <1>2, <2>1, StartType
<1>3. ASSUME NEW c \in Eligible(batch), Call(c, batch) PROVE qso'.their_call \notin recent_until
  BY <1>3, EligibleSpared
<1> QED BY <1>1, <1>2, <1>3 DEF Hunting, Lock

(* While it calls CQ, too, or else it answers.                             *)
LEMMA CallingSpares ==
    ASSUME HandlerTypeOK, NEW q, NEW batch \in SUBSET Message, Calling(q, batch),
           state = "CQ_CALLING", state' \in {"QSO_RESPOND", "QSO_REPORT"}
    PROVE  \/ qso'.their_call \notin recent_until
           \/ recent_qso_ctx[qso'.their_call] = "live"
           \/ AnswersOurCq
<1>1. CASE Resume(batch)
  BY <1>1, ResumeSpares
<1>2. ASSUME NEW c, Start(c, batch) PROVE AnswersOurCq
  BY <1>2, StartType DEF AnswersOurCq
<1>3. ASSUME NEW c \in Eligible(batch), Call(c, batch) PROVE qso'.their_call \notin recent_until
  BY <1>3, EligibleSpared
<1> QED BY <1>1, <1>2, <1>3 DEF Calling, Lock

(* Of its own accord the station calls nobody in a cooldown, and answers   *)
(* nobody there but those who answer its CQ; what it takes up again is an  *)
(* unfinished QSO.                                                         *)
THEOREM CooldownIsAlwaysKept == Spec => CooldownIsKept
<1> DEFINE Kept == QsoBegins => \/ qso'.their_call \notin recent_until
                                \/ recent_qso_ctx[qso'.their_call] = "live"
                                \/ AnswersOurCq
<1>1. TypeOK /\ [Next]_vars => Kept
  <2> SUFFICES ASSUME TypeOK, [Next]_vars, QsoBegins
               PROVE  \/ qso'.their_call \notin recent_until
                      \/ recent_qso_ctx[qso'.their_call] = "live"
                      \/ AnswersOurCq
    OBVIOUS
  <2>0. state \in {"IDLE", "CQ_CALLING"} /\ turn' # "user" /\ state' \in {"QSO_RESPOND", "QSO_REPORT"}
    BY DEF QsoBegins
  <2>1. PICK kind \in BatchKinds : \E batch \in Batches[HeardSlot(kind)] : OnDecodes(batch, kind)
    BY <2>0, OnlyDecodesStart
  <2>2. PICK batch \in Batches[HeardSlot(kind)] : OnDecodes(batch, kind)
    BY <2>1
  <2>3. HeardSlot(kind) \in Parities
    BY DEF TypeOK, HeardSlot, Flip, Parities
  <2>4. batch \in SUBSET Message /\ HandlerTypeOK
    BY <2>2, <2>3, TypeSplit, MachineAssumption
  <2>5. Decode(batch, kind = "late", parity')
    BY <2>2 DEF OnDecodes
  <2>6. PICK q : (state = "IDLE" /\ Hunting(q, batch)) \/ (state = "CQ_CALLING" /\ Calling(q, batch))
    BY <2>0, <2>5, DecodeBegins
  <2> QED BY <2>0, <2>4, <2>6, HuntingSpares, CallingSpares
<1> QED BY <1>1, TypeCorrect, PTL DEF Spec, CooldownIsKept

(* Once an update waits, a station at rest starts nothing by itself.       *)
THEOREM DrainedAlwaysStaysIdle == Spec => DrainedStaysIdle
<1> DEFINE Kept == (state = "IDLE" /\ drain_for_update /\ turn' # "user")
                       => state' \in {"IDLE", "TX_LOCKED"}
<1>1. [Next]_vars => Kept
  <2> SUFFICES ASSUME [Next]_vars, state = "IDLE", drain_for_update, turn' # "user"
               PROVE  state' \in {"IDLE", "TX_LOCKED"}
    OBVIOUS
  <2>1. CASE \E kind \in BatchKinds : \E batch \in Batches[HeardSlot(kind)] : OnDecodes(batch, kind)
    BY <2>1, DecodesRest DEF OnDecodes, Hunts
  <2>2. CASE OnSlotTick
    BY <2>2, TickRests
  <2>3. CASE \/ UserStartCq \/ UserStop \/ UserPanic \/ UserSkipQso \/ SwitchOperator
             \/ UserResetLock \/ UserReplyTo \/ SetAutoAnswer \/ SetDrainForUpdate
    BY <2>3 DEF UserStartCq, UserStop, UserPanic, UserSkipQso, SwitchOperator, UserResetLock,
                UserReplyTo, SetAutoAnswer, SetDrainForUpdate, Command
  <2>4. CASE DrainActions \/ TxSent \/ TxDropped \/ TxLate \/ SwrRunaway
    BY <2>4 DEF DrainActions, TxSent, TxDropped, TxLate, SwrRunaway, outside
  <2>5. CASE HardwareChanges \/ CooldownEnds \/ ContextExpires \/ LoggedExpires \/ PauseEnds
    BY <2>5 DEF HardwareChanges, CooldownEnds, ContextExpires, LoggedExpires, PauseEnds, internal
  <2>6. CASE UNCHANGED vars
    BY <2>6 DEF vars
  <2> QED BY <2>1, <2>2, <2>3, <2>4, <2>5, <2>6 DEF Next
<1> QED BY <1>1, PTL DEF Spec, DrainedStaysIdle

=============================================================================
