----------------------------- MODULE QsoLedger -----------------------------
(***************************************************************************)
(* What the log promises of a completed QSO, whatever database, spill file, *)
(* upload loop and operator do to each other: it is kept until it is        *)
(* settled, settled for a reason, and lost for a known reason only.  What   *)
(* is settled or lost stays so.                                            *)
(***************************************************************************)
CONSTANT Qsos

VARIABLES
  book,      \* where a QSO is: "new", "kept", "settled" or "lost"
  delivered, \* QSOs that arrived where they are to go
  excused    \* QSOs of which it is known why they may not arrive

Init ==
  /\ book = [q \in Qsos |-> "new"]
  /\ delivered = {}
  /\ excused = {}

Moves == {<<"new", "kept">>, <<"kept", "settled">>, <<"kept", "lost">>}

Becomes(q, place) == book[q] # place /\ book'[q] = place

Next ==
  /\ book' \in [Qsos -> {"new", "kept", "settled", "lost"}]
  /\ \A q \in Qsos : book'[q] = book[q] \/ <<book[q], book'[q]>> \in Moves
  /\ delivered \subseteq delivered' /\ excused \subseteq excused'
  /\ \A q \in delivered' \ delivered : q \in Qsos /\ book[q] \in {"kept", "settled"}
  /\ \A q \in Qsos : Becomes(q, "settled") => q \in delivered' \cup excused'
  /\ \A q \in Qsos : Becomes(q, "lost") => q \in excused'

Spec == Init /\ [][Next]_<<book, delivered, excused>>

-----------------------------------------------------------------------------

\* Nothing is settled or lost without a receipt or a reason.
Accounted ==
  \A q \in Qsos : /\ book[q] = "settled" => q \in delivered \cup excused
                  /\ book[q] = "lost" => q \in excused

=============================================================================
