---------------------------- MODULE Ft8Messages ----------------------------
(***************************************************************************)
(* The messages of one decoded slot, as the QSO state machine reads them.  *)
(*                                                                         *)
(* A decode keeps who sent it, to whom, and which step of the FT8 exchange *)
(* it is; texts, reports in dB, frequencies and times are left out.  The   *)
(* decoder shows a callsign it cannot resolve as "<...>", which is the     *)
(* value Hash here: only compound callsigns are ever transmitted hashed.   *)
(***************************************************************************)
CONSTANTS
    Calls,          \* the callsigns of the other stations
    Compound,       \* those that FT8 transmits as a hash (DL/W1AW, DK9XR/P)
    OwnCompound,    \* TRUE iff our own TX callsign is such a compound one
    Hash,           \* the placeholder "<...>"
    None            \* Python's None

ASSUME CallsAssumption ==
    /\ Compound \subseteq Calls
    /\ OwnCompound \in BOOLEAN
    /\ Hash \notin Calls
    /\ None \notin Calls \cup {Hash}

(* What may stand in the sender field: a callsign, or the placeholder.     *)
Partners == Calls \cup {Hash}

Kinds == {"cq", "grid", "report", "rreport", "closing"}

(* "us" and "other" are resolved addressees, "hash" is "<...>", and a CQ   *)
(* has none.                                                               *)
Addressees == {"us", "other", "hash", "none"}

Message == [from : Partners, to : Addressees, kind : Kinds]

(* _hashed_match: the placeholder stands for an expected callsign only if  *)
(* that callsign can be hashed at all.                                     *)
AddressesUs(m) == m.to = "us" \/ (m.to = "hash" /\ OwnCompound)
SentBy(m, c) == m.from = c \/ (m.from = Hash /\ c \in Compound)

(* The three tolerant parsers share this test; with both fields hashed the *)
(* message is a guess and is skipped.                                      *)
FromPartner(m, c) ==
    /\ AddressesUs(m)
    /\ SentBy(m, c)
    /\ ~(m.to = "hash" /\ m.from = Hash)

HasReport(batch, c)  == \E m \in batch : FromPartner(m, c) /\ m.kind = "report"
HasRReport(batch, c) == \E m \in batch : FromPartner(m, c) /\ m.kind = "rreport"
HasClosing(batch, c) == \E m \in batch : FromPartner(m, c) /\ m.kind = "closing"

(* Stations that open a contact with us.  These two parsers compare the    *)
(* addressee exactly and do not look at the sender field.                  *)
ReportCallers(batch) == {m.from : m \in {x \in batch : x.to = "us" /\ x.kind = "report"}}
GridCallers(batch)   == {m.from : m \in {x \in batch : x.to = "us" /\ x.kind = "grid"}}

(* Callers of CQ that may be answered: the placeholder is no TX target.    *)
CqCallers(batch) == {m.from : m \in {x \in batch : x.kind = "cq"}} \ {Hash}

HeardCq(batch, c) == \E m \in batch : m.from = c /\ m.kind = "cq"
HeardWithOther(batch, c) == \E m \in batch : m.from = c /\ m.to \notin {"us", "none"}

(* _partner_adressiert_uns: the sender is compared exactly.                *)
PartnerAddressesUs(batch, c) == \E m \in batch : m.from = c /\ AddressesUs(m)
=============================================================================
