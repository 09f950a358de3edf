--------------------------- MODULE MCUploadQueue ---------------------------
(* Values for the constants of UploadQueue.                                *)
EXTENDS UploadQueue

TwoRows == {1, 2}

(* A row that may have no log before one that has, and two of one log.     *)
TwoCalls ==
    [s \in Services |-> CASE s = "QRZ" -> <<"portable", "home">>
                          [] s = "eQSL" -> <<"home", "portable">>
                          [] OTHER -> <<"home", "home">>]

(* What the operator meddles with, one thing per service.                  *)
OneWhim ==
    [s \in Services |-> CASE s = "QRZ" -> {"profile"}
                          [] s = "ClubLog" -> {"export"}
                          [] s = "LoTW" -> {"setup"}
                          [] OTHER -> {}]
=============================================================================
