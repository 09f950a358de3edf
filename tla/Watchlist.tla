----------------------------- MODULE Watchlist ------------------------------
(* Calls the station looks out for: those an operator wished for, and those*)
(* of DXpeditions while they are on the air, which a list on the web names.*)
(* They are kept in the database, and once more in the running program,    *)
(* where each decode is compared with them and a push is sent now and then.*)
EXTENDS Naturals

CONSTANTS
    Wanted, Persons,
    Schedules,              \* when a DXpedition is on the air: [from, to]
    WISH_ABSTAND, DXPED_ABSTAND,  \* between two pushes of a call
    MaxSightings, WatchEnd, MaxWishes \* bounds

ASSUME WatchlistAssumption ==
    /\ "nobody" \notin Persons
    /\ Schedules \subseteq [from : Nat, to : Nat]
    /\ WISH_ABSTAND \in Nat \ {0} /\ DXPED_ABSTAND \in Nat /\ WISH_ABSTAND <= DXPED_ABSTAND
    /\ MaxSightings \in Nat /\ WatchEnd \in Nat /\ MaxWishes \in Nat

VARIABLES
    table, planned,         \* tables watchlist and dxpedition_schedule
    active, reloading,      \* the active operator, a switch that waits for the database
    shown, sources,         \* _watchlist_calls, _watchlist_sources
    last_alert,             \* _watchlist_last_alert, 0 without
    care,                   \* rows the schedule loop works on, of the calls in care.on
    removing,               \* a plan that is being removed, and whether it was marked
    sightings,              \* decodes whose push is still to be decided
    minute,
    pushed,                 \* history: the last push of each call in this run
    wished,                 \* history: what an operator asked for and did not take back
    wishes                  \* requests so far

tablesVars == <<table, planned>>
listVars == <<shown, sources, last_alert>>
pushVars == <<sightings, pushed>>
watchVars == <<tablesVars, active, reloading, listVars, care, removing, pushVars, minute,
               wished, wishes>>

\* Both tables have one row for a call, whoever asks for it.
NoRow == [of |-> "nobody", source |-> "none"]
NoPlan == [of |-> "nobody", from |-> 0, to |-> 0, auto |-> FALSE, source |-> "none"]
NoCare == [on |-> {}, now |-> 0, rows |-> [c \in Wanted |-> NoPlan]]
NoRemoval == [on |-> {}, auto |-> FALSE]

Listed(c) == table[c] # NoRow
Planned(c) == planned[c] # NoPlan

WatchInit ==
    /\ table = [c \in Wanted |-> NoRow] /\ planned = [c \in Wanted |-> NoPlan]
    /\ active \in Persons /\ reloading = FALSE
    /\ shown = {} /\ sources = [c \in Wanted |-> "none"] /\ last_alert = [c \in Wanted |-> 0]
    /\ care = NoCare /\ removing = NoRemoval
    /\ sightings = [c \in Wanted |-> 0] /\ minute = 1 /\ pushed = [c \in Wanted |-> 0]
    /\ wished = {} /\ wishes = 0

(* Bound: so many requests, and restarts.                                  *)
Wishing == wishes < MaxWishes /\ wishes' = wishes + 1

-----------------------------------------------------------------------------
(* handle_watchlist_add: in the program at once, in the table if it can be.*)
Wish(c) ==
    /\ Wishing
    /\ shown' = shown \cup {c} /\ sources' = [sources EXCEPT ![c] = "manual"]
    /\ \/ /\ table' = [table EXCEPT ![c].of = IF Listed(c) THEN @ ELSE active,
                                    ![c].source = "manual"]
          /\ wished' = wished \cup {<<active, c>>}
       \/ UNCHANGED <<table, wished>>
    /\ UNCHANGED <<planned, active, reloading, last_alert, care, removing, pushVars, minute>>

(* handle_watchlist_remove.                                                *)
Unwish(c) ==
    /\ Wishing
    /\ shown' = shown \ {c} /\ sources' = [sources EXCEPT ![c] = "none"]
    /\ last_alert' = [last_alert EXCEPT ![c] = 0] /\ pushed' = [pushed EXCEPT ![c] = 0]
    /\ table' \in {table, [table EXCEPT ![c] = NoRow]}
    /\ wished' = wished \ {<<active, c>>}
    /\ UNCHANGED <<planned, active, reloading, care, removing, sightings, minute>>

(* switch_operator and _hydrate_from_db: the old list stays until the table*)
(* has answered.  What was found automatically is for everybody.           *)
Visible == {c \in Wanted : table[c].of = active \/ table[c].source = "ng3k_auto"}

Reloaded ==
    /\ shown' = Visible
    /\ sources' = [c \in Wanted |-> IF c \in Visible THEN table[c].source ELSE "none"]

SwitchPerson ==
    /\ ~reloading /\ Wishing /\ reloading' = TRUE
    /\ active' \in Persons \ {active}
    /\ UNCHANGED <<tablesVars, listVars, care, removing, pushVars, minute, wished>>

Reload ==
    /\ reloading /\ reloading' = FALSE /\ Reloaded
    /\ UNCHANGED <<tablesVars, active, last_alert, care, removing, pushVars, minute, wished, wishes>>

StartAgain ==
    /\ Wishing /\ Reloaded
    /\ last_alert' = [c \in Wanted |-> 0] /\ reloading' = FALSE
    /\ care' = NoCare /\ removing' = NoRemoval
    /\ sightings' = [c \in Wanted |-> 0] /\ pushed' = [c \in Wanted |-> 0]
    /\ UNCHANGED <<tablesVars, active, minute, wished>>

-----------------------------------------------------------------------------
(* handle_dxpedition_add changes the dates of any plan, the import of the  *)
(* list only those of plans it made.                                       *)
Plan(c) ==
    /\ Wishing
    /\ \E by \in {"manual", "ng3k"}, t \in Schedules :
         /\ Planned(c) => by = "manual" \/ planned[c].source = "ng3k"
         /\ planned' = [planned EXCEPT ![c] =
               IF Planned(c) THEN [@ EXCEPT !.from = t.from, !.to = t.to]
               ELSE [of |-> active, from |-> t.from, to |-> t.to, auto |-> FALSE, source |-> by]]
    /\ UNCHANGED <<table, active, reloading, listVars, care, removing, pushVars, minute, wished>>

(* handle_dxpedition_remove: what the row said when it was read decides.   *)
UnplanReads(c) ==
    /\ removing = NoRemoval /\ Planned(c) /\ Wishing
    /\ removing' = [on |-> {c}, auto |-> planned[c].auto]
    /\ UNCHANGED <<tablesVars, active, reloading, listVars, care, pushVars, minute, wished>>

UnplanWrites ==
    /\ removing # NoRemoval /\ removing' = NoRemoval
    /\ LET gone == IF removing.auto THEN removing.on ELSE {}
       IN  /\ planned' = [c \in Wanted |-> IF c \in removing.on THEN NoPlan ELSE planned[c]]
           /\ table' = [c \in Wanted |-> IF c \in gone THEN NoRow ELSE table[c]]
           /\ shown' = shown \ gone
           /\ wished' = {w \in wished : w[2] \notin gone}
    /\ UNCHANGED <<active, reloading, sources, last_alert, care, pushVars, minute, wishes>>

-----------------------------------------------------------------------------
(* _dxpedition_schedule_loop: reads the plans, may wait for the push of a  *)
(* reminder, and works on what it has read.                                *)
CareReads ==
    /\ care.on = {} /\ \E c \in Wanted : Planned(c)
    /\ care' = [on |-> {c \in Wanted : Planned(c)}, now |-> minute, rows |-> planned]
    /\ UNCHANGED <<tablesVars, active, reloading, listVars, removing, pushVars, minute, wished, wishes>>

Begins == {c \in care.on : care.rows[c].from <= care.now /\ care.now <= care.rows[c].to
                           /\ ~care.rows[c].auto}
Over == {c \in care.on : care.rows[c].to < care.now /\ care.rows[c].auto}

(* The update of a plan that is gone refuses all of them; the program      *)
(* keeps what it has noted.                                                *)
CareWrites ==
    /\ care.on # {} /\ care' = NoCare
    /\ shown' = (shown \cup Begins) \ Over
    /\ sources' = [c \in Wanted |-> IF c \in Begins THEN "ng3k_auto" ELSE sources[c]]
    /\ \/ /\ \A c \in Begins \cup Over : Planned(c)
          /\ planned' = [c \in Wanted |-> IF c \in Begins \cup Over
                                          THEN [planned[c] EXCEPT !.auto = c \in Begins]
                                          ELSE planned[c]]
          /\ table' = [c \in Wanted |->
                CASE c \in Over -> NoRow
                  [] c \in Begins /\ ~Listed(c) -> [of |-> care.rows[c].of, source |-> "ng3k_auto"]
                  [] OTHER -> table[c]]
       \/ UNCHANGED tablesVars
    /\ UNCHANGED <<active, reloading, last_alert, removing, pushVars, minute, wished, wishes>>

-----------------------------------------------------------------------------
(* Each decode of a slot, and of a pass after it, makes a task.            *)
Sight(c) ==
    /\ c \in shown /\ sightings[c] < MaxSightings
    /\ sightings' = [sightings EXCEPT ![c] = @ + 1]
    /\ UNCHANGED <<tablesVars, active, reloading, listVars, care, removing, minute, pushed,
                   wished, wishes>>

Abstand(c) == IF sources[c] = "ng3k_auto" THEN DXPED_ABSTAND ELSE WISH_ABSTAND
MayPush(c) == last_alert[c] = 0 \/ minute - last_alert[c] >= Abstand(c)

PushUnnoted(c) ==                                     \* mutant
    /\ sightings[c] > 0 /\ sightings' = [sightings EXCEPT ![c] = @ - 1]
    /\ MayPush(c) /\ pushed' = [pushed EXCEPT ![c] = minute]
    /\ UNCHANGED <<tablesVars, active, reloading, listVars, care, removing, minute, wished, wishes>>

(* _fire_watchlist_alert: noted before the push is awaited.                *)
PushAlert(c) ==
    /\ sightings[c] > 0 /\ sightings' = [sightings EXCEPT ![c] = @ - 1]
    /\ MayPush(c)
    /\ last_alert' = [last_alert EXCEPT ![c] = minute]
    /\ pushed' = [pushed EXCEPT ![c] = minute]
    /\ UNCHANGED <<tablesVars, active, reloading, shown, sources, care, removing, minute,
                   wished, wishes>>

(* Too soon, or an automatic one that is not rare enough or not wanted.    *)
KeepQuiet(c) ==
    /\ sightings[c] > 0 /\ sightings' = [sightings EXCEPT ![c] = @ - 1]
    /\ ~MayPush(c) \/ sources[c] = "ng3k_auto"
    /\ UNCHANGED <<tablesVars, active, reloading, listVars, care, removing, minute, pushed,
                   wished, wishes>>

MinutePasses ==
    /\ minute < WatchEnd /\ minute' = minute + 1
    /\ UNCHANGED <<tablesVars, active, reloading, listVars, care, removing, pushVars, wished, wishes>>

WatchNext ==
    \/ \E c \in Wanted : \/ Wish(c) \/ Unwish(c) \/ Plan(c) \/ UnplanReads(c)
                         \/ Sight(c) \/ PushAlert(c) \/ KeepQuiet(c)
    \/ SwitchPerson \/ Reload \/ StartAgain \/ UnplanWrites
    \/ CareReads \/ CareWrites \/ MinutePasses

WatchSpec == WatchInit /\ [][WatchNext]_watchVars

-----------------------------------------------------------------------------
WatchTypeOK ==
    /\ table \in [Wanted -> [of : Persons \cup {"nobody"}, source : {"none", "manual", "ng3k_auto"}]]
    /\ planned \in [Wanted -> [of : Persons \cup {"nobody"}, from : Nat, to : Nat, auto : BOOLEAN,
                               source : {"none", "manual", "ng3k"}]]
    /\ active \in Persons /\ reloading \in BOOLEAN
    /\ shown \subseteq Wanted /\ sources \in [Wanted -> {"none", "manual", "ng3k_auto"}]
    /\ last_alert \in [Wanted -> Nat] /\ sightings \in [Wanted -> Nat] /\ minute \in Nat
    /\ DOMAIN care = {"on", "now", "rows"} /\ care.on \subseteq Wanted
    /\ DOMAIN removing = {"on", "auto"} /\ removing.on \subseteq Wanted
    /\ pushed \in [Wanted -> Nat] /\ wished \subseteq Persons \X Wanted /\ wishes \in Nat

(* However many passes of the decoder, and however many slots, bring a call*)
(* of the list: between two pushes of it lies the time its source asks for *)
(* at the later one, unless it was taken off the list in between or the    *)
(* program started anew.                                                   *)
AlertsAreSpaced ==
    [][\A c \in Wanted :
          pushed[c] > 0 /\ pushed'[c] # pushed[c] /\ pushed'[c] > 0
          => pushed'[c] - pushed[c] >= Abstand(c)]_watchVars

(* "ein manueller Eintrag bleibt manuell auch wenn NG3K ihn spaeter sehen  *)
(* wuerde" (orchestrator.py 3538): what an operator wished for is on his   *)
(* list, as his wish, until he takes it back.                              *)
ManualStaysManual ==
    \A c \in Wanted :
        <<active, c>> \in wished /\ ~reloading => c \in shown /\ sources[c] = "manual"
=============================================================================
