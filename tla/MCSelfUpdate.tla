---------------------------- MODULE MCSelfUpdate ----------------------------
(* An update, and the database the releases find.  They share no state: a  *)
(* history is about one of the two.                                        *)
EXTENDS SelfUpdate, Database

VARIABLE part

all == <<part, updateVars, databaseVars>>

(* Releases that fail in each of the ways the script tells apart.          *)
SomeFlaws ==
    {{}, {"new_deps", "mute"}, {"mute", "no_return"}, {"no_checkout"},
     {"unsigned"}, {"new_deps", "no_build"}, {"no_start"}}

(* The last release is sound.                                              *)
AnyInit ==
    /\ part \in {"update", "database"}
    /\ UpdateInit /\ Sound(3) /\ DatabaseInit
    /\ part # "update" => \A r \in Releases : facts[r] = {}
    /\ part # "database" => disk.cols = {} /\ disk.rows = {} /\ disk.form = "old" /\ written = {}

AnyNext ==
    \/ part = "update" /\ UpdateNext /\ UNCHANGED <<part, databaseVars>>
    \/ part = "database" /\ DatabaseNext /\ UNCHANGED <<part, updateVars>>

(* No history of the database is fair to the script: of these the          *)
(* invariants are of interest.                                             *)
AnySpec == AnyInit /\ [][AnyNext]_all /\ UpdateFairness
=============================================================================
