------------------------------ MODULE Hotspot ------------------------------
(***************************************************************************)
(* The watchdog of the network: without an uplink it opens the hotspot of  *)
(* the station, and from time to time closes it to look whether a network  *)
(* is back.  Around it are the unit of the hotspot, a oneshot that stays   *)
(* active once it has started, NetworkManager, and the buttons of the web  *)
(* interface.  A beat is one poll of the watchdog; ages count beats.       *)
(***************************************************************************)
EXTENDS Naturals

CONSTANTS
    Unset,                 \* a clock that does not run
    fallback_delay,
    AP_BETRIEB_FRIST,
    AP_RUECKKEHR_NACH,
    AP_RUECKKEHR_MAX,
    AP_WLAN_GNADENFRIST,
    Days                   \* what may happen in one history: sets of events

ASSUME HotspotAssumption ==
    /\ {fallback_delay, AP_BETRIEB_FRIST, AP_RUECKKEHR_NACH, AP_RUECKKEHR_MAX,
        AP_WLAN_GNADENFRIST} \subseteq Nat \ {0}
    /\ AP_RUECKKEHR_NACH <= AP_RUECKKEHR_MAX
    /\ Unset \notin Nat

VARIABLES
    day,
    net, cable,        \* a known network is in reach; the cable is plugged
    os,                \* unit and hostapd of the hotspot, wlan0 under NetworkManager
    offline_since, ap_aktiv_seit, fehlversuche, hatte_upstream,
    grace_left,        \* beats left of the look for a network; 0: not looking
    up_for,            \* history: how long the hotspot has run
    disturbed          \* history: a stop by hand or a failed command left its clock running

clocks == <<offline_since, ap_aktiv_seit, fehlversuche, hatte_upstream, grace_left>>
hotspotVars == <<day, net, cable, os, clocks, up_for, disturbed>>

Fristen == {AP_BETRIEB_FRIST, AP_RUECKKEHR_MAX, fallback_delay}
LongestClock == CHOOSE frist \in Fristen : \A other \in Fristen : other <= frist
Aged(age) == IF age = Unset \/ age = LongestClock THEN age ELSE age + 1

HotspotInit ==
    /\ day \in Days
    /\ net \in BOOLEAN /\ cable = FALSE
    /\ os = [unit |-> FALSE, hostapd |-> FALSE, managed |-> TRUE,
             connected |-> FALSE, gave_up |-> FALSE]
    /\ offline_since = Unset /\ ap_aktiv_seit = Unset /\ fehlversuche = 0
    /\ hatte_upstream = FALSE /\ grace_left = 0
    /\ up_for = 0 /\ disturbed = FALSE

-----------------------------------------------------------------------------
(* systemctl, the scripts of the unit, and NetworkManager. *)

\* A start fails before it touches wlan0, after that, or seems to.
StartOutcomes == {"done"} \cup {how \in {"refused", "half", "late"} : "faults" \in day}
StopOutcomes == {"done"} \cup {how \in {"late"} : "faults" \in day}

\* An active oneshot is not started again.
ApStarted(o, how) ==
    IF o.unit \/ how = "refused" THEN o
    ELSE [o EXCEPT !.managed = FALSE, !.connected = FALSE,
                   !.unit = how # "half", !.hostapd = how # "half"]

ApStoppedOnly(o) ==                                                  \* mutant
    IF ~o.unit THEN o
    ELSE [o EXCEPT !.unit = FALSE, !.hostapd = FALSE, !.managed = TRUE]

\* Closing asks NetworkManager for a network, one it gave up included.
ApStopped(o) ==
    IF ~o.unit THEN o
    ELSE [unit |-> FALSE, hostapd |-> FALSE, managed |-> TRUE,
          connected |-> FALSE, gave_up |-> FALSE]

Raises(o, on, how) == o.unit # on /\ how # "done"

\* History: the hotspot runs on, or starts anew.
RunningFor(age) == up_for' = IF os.hostapd /\ os'.hostapd THEN age ELSE 0

CanJoin == net /\ os.managed /\ ~os.connected /\ ~os.gave_up

Join ==
    /\ CanJoin
    /\ os' = [os EXCEPT !.connected = TRUE]
    /\ UNCHANGED <<day, net, cable, clocks, up_for, disturbed>>

\* A router that comes back may refuse the station once: it gives up.
ChangeNet ==
    /\ "net" \in day
    /\ net' = ~net
    /\ os' \in {[os EXCEPT !.connected = FALSE, !.gave_up = g] : g \in {os.gave_up, net'}}
    /\ UNCHANGED <<day, cable, clocks, up_for, disturbed>>

ChangeCable ==
    /\ "cable" \in day
    /\ cable' = ~cable
    /\ UNCHANGED <<day, net, os, clocks, up_for, disturbed>>

\* start_ap_fallback, stop_ap_fallback of the web interface.
StartButton ==
    /\ "buttons" \in day
    /\ \E how \in StartOutcomes : os' = ApStarted(os, how)
    /\ RunningFor(up_for)
    /\ UNCHANGED <<day, net, cable, clocks, disturbed>>

StopButton ==
    /\ "buttons" \in day
    /\ os' = ApStopped(os) /\ RunningFor(up_for)
    /\ disturbed' = TRUE
    /\ UNCHANGED <<day, net, cable, clocks>>

\* The stop script run past the unit, which stays active.
StopScriptByHand ==
    /\ "byhand" \in day /\ os.hostapd
    /\ os' = [ApStopped(os) EXCEPT !.unit = TRUE]
    /\ RunningFor(up_for) /\ disturbed' = TRUE
    /\ UNCHANGED <<day, net, cable, clocks>>

\* The controller starts anew; the hotspot stays as it is.
Reboot ==
    /\ "restart" \in day
    /\ offline_since' = Unset /\ ap_aktiv_seit' = Unset /\ fehlversuche' = 0
    /\ hatte_upstream' = FALSE /\ grace_left' = 0 /\ disturbed' = FALSE
    /\ UNCHANGED <<day, net, cable, os, up_for>>

-----------------------------------------------------------------------------
(* The watchdog. *)

Upstream == os.connected \/ cable

Delay == IF hatte_upstream THEN AP_BETRIEB_FRIST ELSE fallback_delay

Capped(age) == IF age < AP_RUECKKEHR_MAX THEN age ELSE AP_RUECKKEHR_MAX
\* Each failure doubles the time until the next look, the first five of them.
Doubled == <<1, 2, 4, 8, 16, 32>>
Frist == Capped(AP_RUECKKEHR_NACH * Doubled[1 + fehlversuche])

OneMore == IF Frist < AP_RUECKKEHR_MAX /\ fehlversuche < 5
           THEN fehlversuche + 1 ELSE fehlversuche

OpenHotspotUnclocked ==                                            \* mutant
    \E how \in StartOutcomes :
        /\ os' = ApStarted(os, how)
        /\ offline_since' = IF Raises(os, TRUE, how) THEN Aged(offline_since) ELSE Unset
        /\ ap_aktiv_seit' = Aged(ap_aktiv_seit)
        /\ disturbed' = Raises(os, TRUE, how)

\* set_ap_fallback(True); a failure ends the beat and leaves the clock running.
OpenHotspot ==
    \E how \in StartOutcomes :
        /\ os' = ApStarted(os, how)
        /\ IF Raises(os, TRUE, how)
           THEN offline_since' = Aged(offline_since) /\ ap_aktiv_seit' = Aged(ap_aktiv_seit)
           ELSE offline_since' = Unset /\ ap_aktiv_seit' = 0
        /\ disturbed' = Raises(os, TRUE, how)

\* _pruefe_ap_rueckkehr, up to the wait for a network.
HotspotRuns ==
    /\ grace_left = 0 /\ os.hostapd
    /\ offline_since' = Unset
    /\ IF ap_aktiv_seit = Unset
       THEN ap_aktiv_seit' = 0 /\ disturbed' = FALSE /\ UNCHANGED <<os, grace_left>>
       ELSE /\ ap_aktiv_seit' = Aged(ap_aktiv_seit)
            /\ IF Aged(ap_aktiv_seit) < Frist THEN UNCHANGED <<os, grace_left, disturbed>>
               ELSE \E how \in StopOutcomes :
                      /\ os' = ApStopped(os)
                      /\ grace_left' = IF Raises(os, FALSE, how) THEN 0
                                       ELSE AP_WLAN_GNADENFRIST
                      /\ disturbed' = (disturbed \/ Raises(os, FALSE, how))
    /\ UNCHANGED <<fehlversuche, hatte_upstream>>

NetIsThere ==
    /\ grace_left = 0 /\ ~os.hostapd /\ Upstream
    /\ offline_since' = Unset /\ ap_aktiv_seit' = Unset
    /\ fehlversuche' = 0 /\ hatte_upstream' = TRUE /\ disturbed' = FALSE
    /\ UNCHANGED <<os, grace_left>>

OfflineForLong == offline_since # Unset /\ Aged(offline_since) >= Delay

\* _wlan_anstossen: a profile that was given up connects, or fails again.
Nudged ==
    {os} \cup {o \in {[os EXCEPT !.connected = TRUE, !.gave_up = FALSE]} :
                 offline_since # Unset /\ net /\ os.managed}

NoNetYetFromNow ==                                                 \* mutant
    /\ grace_left = 0 /\ ~os.hostapd /\ ~Upstream /\ ~OfflineForLong
    /\ offline_since' = 0 /\ ap_aktiv_seit' = Aged(ap_aktiv_seit)
    /\ os' \in Nudged
    /\ UNCHANGED <<fehlversuche, hatte_upstream, grace_left, disturbed>>

\* Without a network: start the clock, nudge the profiles, open the hotspot.
NoNetYet ==
    /\ grace_left = 0 /\ ~os.hostapd /\ ~Upstream
    /\ ~OfflineForLong
    /\ offline_since' = IF offline_since = Unset THEN 0 ELSE Aged(offline_since)
    /\ ap_aktiv_seit' = Aged(ap_aktiv_seit)
    /\ os' \in Nudged
    /\ UNCHANGED <<fehlversuche, hatte_upstream, grace_left, disturbed>>

NoNetForLong ==
    /\ grace_left = 0 /\ ~os.hostapd /\ ~Upstream
    /\ OfflineForLong
    /\ OpenHotspot
    /\ UNCHANGED <<fehlversuche, hatte_upstream, grace_left>>

\* The rest of _pruefe_ap_rueckkehr: back in the net, or the hotspot again.
NetIsBack ==
    /\ grace_left > 0 /\ Upstream
    /\ grace_left' = 0 /\ ap_aktiv_seit' = Unset /\ fehlversuche' = 0 /\ offline_since' = Unset
    /\ disturbed' = FALSE
    /\ UNCHANGED <<os, hatte_upstream>>

NetIsNotBack ==
    /\ grace_left > 0 /\ ~Upstream
    /\ grace_left' = grace_left - 1
    /\ IF grace_left > 1
       THEN ap_aktiv_seit' = Aged(ap_aktiv_seit) /\ UNCHANGED <<os, offline_since, fehlversuche, disturbed>>
       ELSE OpenHotspot /\ fehlversuche' = OneMore
    /\ UNCHANGED hatte_upstream

\* NetworkManager joins a network within a beat.
Beat ==
    /\ ~CanJoin
    /\ HotspotRuns \/ NetIsThere \/ NoNetYet \/ NoNetForLong \/ NetIsBack \/ NetIsNotBack
    /\ RunningFor(Aged(up_for))
    /\ UNCHANGED <<day, net, cable>>

HotspotInternal == Join \/ Beat

HotspotNext ==
    \/ HotspotInternal \/ ChangeNet \/ ChangeCable \/ StartButton \/ StopButton \/ StopScriptByHand \/ Reboot

HotspotSpec == HotspotInit /\ [][HotspotNext]_hotspotVars

\* The loop goes on whatever the network does; the unit does not fail for ever.
HotspotFairness ==
    /\ WF_hotspotVars(Join) /\ SF_hotspotVars(Beat)
    /\ SF_hotspotVars(Beat /\ ~os.hostapd /\ os'.hostapd)

-----------------------------------------------------------------------------
LeftInPeace == <>[][HotspotInternal]_hotspotVars

\* Whatever fails, somebody can reach the station again and again, over its
\* network, its cable or its hotspot, as long as nobody stops the hotspot past
\* its unit (_ap_fallback_tick).
StaysReachable ==
    "byhand" \notin day => []<>(Upstream \/ os.hostapd)

\* The hotspot is no dead end: with a network in reach the station is in the end
\* back in it (_pruefe_ap_rueckkehr: no uploads and no updates in the hotspot).
ComesBackToTheNet ==
    "byhand" \notin day /\ LeftInPeace /\ <>[]net => <>[](os.connected \/ cable)

\* Who uses the hotspot has it for the promised time: the watchdog closes none
\* earlier, unless a stop by hand or a failed command left the clock of an
\* earlier one running (_ap_fallback_tick, _pruefe_ap_rueckkehr).
HotspotLasts ==
    [][HotspotRuns /\ os.hostapd /\ ~os'.hostapd
         => disturbed \/ Aged(up_for) >= AP_RUECKKEHR_NACH]_hotspotVars
=============================================================================
