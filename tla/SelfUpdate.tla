----------------------------- MODULE SelfUpdate -----------------------------
(* scripts/self-update.sh, started by a timer and a button: fetch the tags,*)
(* let the station come to rest, check the newest release out, install it, *)
(* restart the controller, look whether it answers, and go back otherwise. *)
(* The station is what the script sees of it in /api/status.               *)
EXTENDS Naturals, FiniteSets

CONSTANTS
    Releases,       \* tags, by their number; 1 is installed and sound
    Flaws,          \* sets of what may be wrong with a release, or new in it
    MaxKills        \* bound: releases whose run systemd or a reboot killed

ASSUME UpdateAssumption ==
    /\ 1 \in Releases /\ Releases \subseteq Nat \ {0}
    /\ Flaws \subseteq SUBSET {"new_deps", "unsigned", "no_checkout", "no_build", "no_start", "mute", "no_return"}
    /\ MaxKills \in Nat

VARIABLES
    facts, origin,           \* what is true of each release, the newest tag there is
    head, env,               \* the release checked out, the one the environment is built for
    running, hold, halted,   \* the controller: its code, drain_for_update, stopped by panic
    work, burst,             \* what the station is at, whether a burst plays
    step, target,            \* the script
    rollback_ref, needs_pip, label,
    notice,                  \* the last push of the last run
    kills                    \* history: the releases whose run was killed

release == <<facts, origin>>
station == <<running, hold, halted, work, burst>>
script  == <<step, target, rollback_ref, needs_pip, label>>
updateVars == <<release, head, env, station, script, notice, kills>>

Down == 0
Mixed == 0
Steps == {"off", "fetched", "signed", "waiting", "ptt_wait", "checkout", "install", "panic",
          "restart", "probe", "back"}

UpdateInit ==
    /\ facts \in [Releases -> Flaws] /\ facts[1] = {}
    /\ origin = 1 /\ head = 1 /\ env = 1
    /\ running = 1 /\ hold = FALSE /\ halted = FALSE
    /\ work = "rest" /\ burst = FALSE
    /\ step = "off" /\ target = 1 /\ rollback_ref = 1 /\ needs_pip = FALSE /\ label = "forward"
    /\ notice = "nothing" /\ kills = {}

(* The release that pinned the dependencies release r has.                 *)
Pinned(r) ==
    CHOOSE p \in Releases :
        /\ p <= r /\ (p = 1 \/ "new_deps" \in facts[p])
        /\ \A q \in Releases : p < q /\ q <= r => "new_deps" \notin facts[q]

Fits(r) == env # Mixed /\ Pinned(env) = Pinned(r)
Starts(r) == Fits(r) /\ "no_start" \notin facts[r]
Answers == running # Down /\ "mute" \notin facts[running]

(* A process of the code that is checked out: no hold, nothing in hand.    *)
Restarted ==
    /\ running' = IF Starts(head) THEN head ELSE Down
    /\ hold' = FALSE /\ halted' = FALSE /\ work' = "rest" /\ burst' = FALSE

-----------------------------------------------------------------------------
(* The station.  status().update_safe: nobody is disturbed by a restart.   *)
UpdateSafe == ~burst /\ (work = "rest" \/ (hold /\ work = "cq"))

WorkBegins ==
    /\ running # Down /\ work = "rest" /\ ~hold /\ ~halted
    /\ work' \in {"qso", "cq"}
    /\ UNCHANGED <<running, hold, halted, burst>>

WorkEnds ==
    /\ work # "rest" /\ ~burst
    /\ work' = "rest"
    /\ UNCHANGED <<running, hold, halted, burst>>

Burst ==
    /\ burst \/ work # "rest"
    /\ burst' = ~burst
    /\ UNCHANGED <<running, hold, halted, work>>

StationNext ==
    /\ WorkBegins \/ WorkEnds \/ Burst
    /\ UNCHANGED <<release, head, env, script, notice, kills>>

Released ==
    /\ origin + 1 \in Releases /\ origin' = origin + 1
    /\ UNCHANGED <<facts, head, env, station, script, notice, kills>>

-----------------------------------------------------------------------------
(* The script.                                                             *)

Go(next) == step' = next /\ UNCHANGED <<target, rollback_ref, needs_pip, label>>

(* The end of a run that has changed nothing; die pushes in red.           *)
Ends(push) ==
    /\ Go("off")
    /\ notice' = push
    /\ UNCHANGED <<release, head, env, station, kills>>

(* git fetch --tags, and the newest tag; without one that is newer than    *)
(* what is checked out, the run is over.                                   *)
Fetches ==
    /\ step = "off" /\ head # origin
    /\ step' = "fetched" /\ target' = origin
    /\ UNCHANGED <<notice, rollback_ref, needs_pip, label, release, head, env, station, kills>>

(* verify-tag, before anything else.                                       *)
Verifies ==
    /\ step = "fetched"
    /\ IF "unsigned" \in facts[target] THEN Ends("red")
       ELSE Go("signed") /\ UNCHANGED <<release, head, env, station, notice, kills>>

(* /api/status: at rest, or without a controller, go on; otherwise the     *)
(* update is announced, and the announcement may be lost.                  *)
LooksAtStation ==
    /\ step = "signed"
    /\ \/ /\ ~Answers \/ UpdateSafe
          /\ Go("checkout") /\ UNCHANGED station
       \/ /\ Answers /\ ~UpdateSafe
          /\ Go("waiting")
          /\ hold' \in {hold, TRUE} /\ UNCHANGED <<running, halted, work, burst>>
    /\ UNCHANGED <<release, head, env, notice, kills>>

(* Four minutes for the QSO to end, then at most one for the burst.  In the*)
(* second loop an unanswered request ends the script (set -e, pipefail).   *)
SeesRest ==
    /\ step = "waiting" /\ Answers /\ UpdateSafe
    /\ Go("checkout")
    /\ UNCHANGED <<release, head, env, station, notice, kills>>

WaitsOnly == FALSE                                    \* mutant

WaitedLong ==
    /\ step = "waiting" /\ (~Answers \/ ~UpdateSafe)
    /\ Go("ptt_wait")
    /\ UNCHANGED <<release, head, env, station, notice, kills>>

BurstIsOver ==
    /\ step = "ptt_wait"
    /\ IF ~Answers THEN Ends(notice)
       ELSE Go("checkout") /\ UNCHANGED <<release, head, env, station, notice, kills>>

RemembersLate ==                                      \* mutant
    /\ step = "checkout"
    /\ head' = target /\ rollback_ref' = target /\ label' = "forward"
    /\ needs_pip' = (Pinned(head) # Pinned(target))
    /\ step' = "install"
    /\ UNCHANGED <<target, release, env, station, notice, kills>>

ChecksOut ==
    /\ step = "checkout"
    /\ IF "no_checkout" \in facts[target] THEN Ends("red")
       ELSE /\ rollback_ref' = head
            /\ head' = target
            /\ needs_pip' = (Pinned(head) # Pinned(target))
            /\ label' = "forward"
            /\ step' = "install"
            /\ UNCHANGED <<target, release, env, station, notice, kills>>

(* An attempt that fails: forward, go back; backward, give up.             *)
Fails ==
    IF label = "forward" THEN Go("back") /\ UNCHANGED notice
    ELSE Go("off") /\ notice' = "red"

(* install_and_restart: pip if the dependencies changed, the two builds.   *)
Installs ==
    /\ step = "install"
    /\ \/ /\ "no_build" \notin facts[head]
          /\ env' = IF needs_pip THEN head ELSE env
          /\ Go("panic") /\ UNCHANGED notice
       \/ /\ needs_pip                        \* pip has no network, or gives up midway
          /\ env' \in {env, Mixed}
          /\ Fails
       \/ /\ "no_build" \in facts[head]
          /\ env' = IF needs_pip THEN head ELSE env
          /\ Fails
    /\ UNCHANGED <<release, head, station, kills>>

(* graceful_pre_restart: stopped, and the PTT off.                         *)
Panics ==
    /\ step = "panic"
    /\ Go("restart")
    /\ IF Answers THEN halted' = TRUE /\ work' = "rest" /\ burst' = FALSE
       ELSE UNCHANGED <<halted, work, burst>>
    /\ UNCHANGED <<running, hold, release, head, env, notice, kills>>

(* systemctl restart: the unit is of type notify, a code that does not come*)
(* up is an error of the command.  Or sudo does not allow it.              *)
Restarts ==
    /\ step = "restart"
    /\ \/ /\ Restarted
          /\ IF running' = Down THEN Fails
             ELSE IF label = "forward" THEN Go("probe") /\ UNCHANGED notice
             ELSE Go("off") /\ notice' = "yellow"
       \/ Fails /\ UNCHANGED station
    /\ UNCHANGED <<release, head, env, kills>>

(* /api/system/version, three times; a slow computer is none that answers. *)
Probes ==
    /\ step = "probe"
    /\ \/ Answers /\ Go("off") /\ notice' = "green"
       \/ Go("back") /\ UNCHANGED notice
    /\ UNCHANGED <<release, head, env, station, kills>>

(* git checkout of what was there before the run, and all over again: by   *)
(* then the build may have rewritten a file that was tracked there.        *)
Back ==
    /\ step = "back"
    /\ IF "no_return" \in facts[head] THEN Ends("red")
       ELSE /\ head' = rollback_ref /\ needs_pip' = TRUE /\ label' = "rollback"
            /\ step' = "install"
            /\ UNCHANGED <<target, rollback_ref, release, env, station, notice, kills>>

(* TimeoutStartSec ends the run anywhere, pip and all; a reboot starts a   *)
(* controller too.                                                         *)
Killed ==
    /\ step # "off" /\ Cardinality(kills) < MaxKills
    /\ Go("off") /\ kills' = kills \cup {target}
    /\ env' \in {env} \cup (IF step = "install" /\ needs_pip THEN {Mixed} ELSE {})
    /\ UNCHANGED station \/ Restarted
    /\ UNCHANGED <<release, head, notice>>

(* A controller that ends is started again by systemd, with what is there. *)
ControllerEnds ==
    /\ Restarted
    /\ UNCHANGED <<release, head, env, script, notice, kills>>

Script ==
    \/ Fetches \/ Verifies \/ LooksAtStation \/ SeesRest \/ WaitedLong \/ BurstIsOver
    \/ ChecksOut \/ Installs \/ Panics \/ Restarts \/ Probes \/ Back

UpdateNext == Script \/ StationNext \/ Released \/ Killed \/ ControllerEnds

(* The script goes on; pip gets through in the end, and what fails then is *)
(* the build; sudo allows the restart in the end, nobody is too slow for   *)
(* ever, and a controller that runs answers in the end.                    *)
PipSucceeds ==
    /\ needs_pip /\ Installs /\ env' = head
    /\ step' = "panic" \/ "no_build" \in facts[head]

UpdateFairness ==
    /\ WF_updateVars(Script)
    /\ \A way \in {"forward", "rollback"} :
          /\ SF_updateVars(label = way /\ PipSucceeds)
          /\ SF_updateVars(label = way /\ Restarts /\ running' = head /\ ~halted')
    /\ SF_updateVars(Probes /\ notice' = "green")

UpdateSpec == UpdateInit /\ [][UpdateNext]_updateVars /\ UpdateFairness

-----------------------------------------------------------------------------
(* Whatever goes wrong at whatever point: while no run was killed, at the   *)
(* end of each the controller runs the code that is checked out, and        *)
(* answers, or the operator was told that it does not.  The one exception   *)
(* is a release that neither answers nor lets itself be left: a later run   *)
(* goes back to it, reports that in yellow, and does not look whether it    *)
(* answers.  A killed run may leave old code running (section 5, README).   *)
Stuck(r) == {"mute", "no_return"} \subseteq facts[r]
UpdateEndsWell ==
    step = "off" /\ kills = {} =>
        notice = "red" \/ (running = head /\ (Answers \/ Stuck(head)))

(* A sound release is installed some day, whatever came before it and      *)
(* however busy the station is, unless there is a newer one, or its own run*)
(* was killed.                                                             *)
Sound(r) == facts[r] \subseteq {"new_deps"}
ReleaseArrives ==
    \A r \in Releases :
        origin = r /\ Sound(r) ~> running = r \/ origin # r \/ r \in kills

(* "Zurueck auf False, falls das Update doch nicht kommt." (machine.py:2944)*)
HeldForAnUpdate == hold => step # "off"
=============================================================================
