------------------------------ MODULE PskReports ------------------------------
(* The exchange with PSK Reporter.  Up: every decode becomes a spot, the    *)
(* spots of five minutes are sent together, each station once.  Down: who   *)
(* hears us is asked every quarter of an hour, for one of our callsigns at  *)
(* a time, and the hunter prefers those stations.  Both go through one      *)
(* client, which every save of the configuration and every change of the    *)
(* operator replaces.  A history is about one of the two directions.        *)
EXTENDS Naturals, Sequences

CONSTANTS
    Stations,     \* stations we hear, and that may hear us
    OwnCalls,     \* operator_calls, in the order they are asked for
    FileLasts,    \* cycles of the loop in the two hours a copy on disk is good for
    MaxTroubles,  \* bound: what the operator, the net and the band do in a history
    Unasked

PskModes == {"FT8", "FT4"}
Own == {OwnCalls[i] : i \in DOMAIN OwnCalls}
Keys == Own \X PskModes

ASSUME CallsAreListed == OwnCalls # <<>>

VARIABLES
    side,        \* "up" or "down"
    troubles,
    psk_net, psk_mode, hunting,
    hears,       \* who hears which of our calls in which mode, as PSK Reporter knows
    stale,       \* cache of the client: its last answers
    per_call,    \* per_call_heard
    rotate,      \* rotate_idx: the callsign that is asked for next
    asked,       \* the query that is out: [key, old, same]
    heard,       \* _psk_heard_us_cache, what the hunter knows
    psk_file,    \* its copy on disk: [calls, mode, age]
    buffered,    \* _pending of the client
    due,         \* now >= _next_flush_at
    flushes,     \* flushes under way: sets of stations
    sent, lost,  \* stations whose last spot went out, or was given up
    spotted      \* history: stations decoded in this process

downVars == <<psk_net, psk_mode, hunting, hears, stale, per_call, rotate, asked, heard, psk_file>>
upVars == <<buffered, due, flushes, sent, lost, spotted>>
pskVars == <<side, troubles, downVars, upVars>>

NobodyHears == [k \in Keys |-> {}]
NoAnswers == [k \in Keys |-> Unasked]

PskInit ==
    /\ side \in {"up", "down"} /\ troubles = 0
    /\ psk_net = TRUE /\ psk_mode = "FT8" /\ hunting = TRUE
    /\ hears = NobodyHears /\ stale = NoAnswers /\ per_call = NobodyHears
    /\ rotate = 1 /\ asked = Unasked /\ heard = {} /\ psk_file = Unasked
    /\ buffered = {} /\ due = TRUE /\ flushes = {} /\ sent = {} /\ lost = {} /\ spotted = {}

Trouble == troubles < MaxTroubles /\ troubles' = troubles + 1

(* ------------------------------------------------------------------ down *)
RotateStays == rotate                                              \* mutant

Rotate == IF rotate = Len(OwnCalls) THEN 1 ELSE rotate + 1

(* One turn of _psk_reciprocity_refresh_loop, which rests while nothing     *)
(* hunts.                                                                   *)
Query ==
    /\ side = "down" /\ hunting /\ asked = Unasked
    /\ LET key == <<OwnCalls[rotate], psk_mode>>
       IN asked' = [key |-> key, old |-> stale[key], same |-> TRUE]
    /\ rotate' = Rotate
    /\ psk_file' = IF psk_file = Unasked \/ psk_file.age = FileLasts THEN psk_file
                   ELSE [psk_file EXCEPT !.age = @ + 1]
    /\ UNCHANGED <<side, troubles, psk_net, psk_mode, hunting, hears, stale, per_call, heard, upVars>>

(* who_heard_me raises nothing: without the net it gives what it was told   *)
(* before, or an empty list.                                                *)
Reports == IF psk_net THEN hears[asked.key] ELSE IF asked.old = Unasked THEN {} ELSE asked.old

(* The sets of the mode that was asked about are merged, and a list that is *)
(* not empty is put on disk with the time of now.                           *)
Answer ==
    /\ asked # Unasked /\ asked' = Unasked
    /\ stale' = IF psk_net /\ asked.same THEN [stale EXCEPT ![asked.key] = Reports] ELSE stale
    /\ per_call' = [per_call EXCEPT ![asked.key] = Reports]
    /\ heard' = UNION {per_call'[<<c, asked.key[2]>>] : c \in Own}
    /\ psk_file' = IF heard' = {} THEN psk_file
                   ELSE [calls |-> heard', mode |-> asked.key[2], age |-> 0]
    /\ UNCHANGED <<side, troubles, psk_net, psk_mode, hunting, hears, rotate, upVars>>

(* Who hears us changes, in the mode we transmit in.                        *)
Propagation ==
    /\ side = "down" /\ Trouble
    /\ \E c \in Own, s \in SUBSET Stations : hears' = [hears EXCEPT ![<<c, psk_mode>>] = s]
    /\ UNCHANGED <<side, psk_net, psk_mode, hunting, stale, per_call, rotate, asked, heard,
                   psk_file, upVars>>

NetChanges ==
    /\ side = "down" /\ Trouble /\ psk_net' = ~psk_net
    /\ UNCHANGED <<side, psk_mode, hunting, hears, stale, per_call, rotate, asked, heard,
                   psk_file, upVars>>

HuntToggled ==
    /\ side = "down" /\ Trouble /\ hunting' = ~hunting
    /\ UNCHANGED <<side, psk_net, psk_mode, hears, stale, per_call, rotate, asked, heard,
                   psk_file, upVars>>

(* FT8 or FT4: what the hunter knows stays until the next answer.           *)
ModeSwitched ==
    /\ side = "down" /\ Trouble
    /\ psk_mode' = IF psk_mode = "FT8" THEN "FT4" ELSE "FT8"
    /\ UNCHANGED <<side, psk_net, hunting, hears, stale, per_call, rotate, asked, heard,
                   psk_file, upVars>>

(* _restore_psk_cache: a copy of this mode that is young enough.            *)
RestoredCalls ==
    IF psk_file # Unasked /\ psk_file.age < FileLasts /\ psk_file.mode = psk_mode
    THEN psk_file.calls ELSE {}

Restarted ==
    /\ Trouble
    /\ heard' = RestoredCalls /\ stale' = NoAnswers /\ per_call' = NobodyHears
    /\ rotate' = 1 /\ asked' = Unasked
    /\ lost' = lost \cup buffered \cup UNION flushes
    /\ buffered' = {} /\ due' = TRUE /\ flushes' = {}
    /\ UNCHANGED <<side, psk_net, psk_mode, hunting, hears, psk_file, sent, spotted>>

(* _init_integrations: a client that remembers and holds back nothing; a    *)
(* query and a flush of the old one go on.                                  *)
ClientReplaced ==
    /\ Trouble
    /\ stale' = NoAnswers
    /\ asked' = IF asked = Unasked THEN Unasked ELSE [asked EXCEPT !.same = FALSE]
    /\ lost' = lost \cup buffered /\ buffered' = {} /\ due' = TRUE
    /\ UNCHANGED <<side, psk_net, psk_mode, hunting, hears, per_call, rotate, heard, psk_file,
                   flushes, sent, spotted>>

(* -------------------------------------------------------------------- up *)
FlushReplaces(spots) == flushes' = {spots}                         \* mutant

Flush(spots) == flushes' = flushes \cup {spots}

(* upload_decode: buffered under its station; the first decode after the    *)
(* five minutes starts a flush of all.                                      *)
Decoded(s) ==
    /\ side = "up"
    /\ sent' = sent \ {s} /\ lost' = lost \ {s} /\ spotted' = spotted \cup {s}
    /\ IF due THEN due' = FALSE /\ Flush(buffered \cup {s}) /\ buffered' = {}
       ELSE buffered' = buffered \cup {s} /\ UNCHANGED <<due, flushes>>
    /\ UNCHANGED <<side, troubles, downVars>>

(* A packet of a flush goes out; one that fails takes the rest with it.     *)
PacketSent(f) ==
    /\ \E packet \in SUBSET f \ {{}} :
         /\ flushes' = (flushes \ {f}) \cup (IF packet = f THEN {} ELSE {f \ packet})
         /\ sent' = sent \cup packet /\ lost' = lost \ packet
    /\ UNCHANGED <<side, troubles, downVars, buffered, due, spotted>>

PacketFails(f) ==
    /\ Trouble
    /\ flushes' = flushes \ {f} /\ lost' = lost \cup f
    /\ UNCHANGED <<side, downVars, buffered, due, sent, spotted>>

(* Bound: a flush ends long before the next is due, unless the client was   *)
(* replaced meanwhile.                                                      *)
FiveMinutes ==
    /\ side = "up" /\ ~due /\ flushes = {} /\ due' = TRUE
    /\ UNCHANGED <<side, troubles, downVars, buffered, flushes, sent, lost, spotted>>

RefreshLoop == Query \/ Answer
Uplink ==
    \/ FiveMinutes
    \/ \E s \in Stations : Decoded(s)
    \/ \E f \in flushes : PacketSent(f)

PskNext ==
    \/ RefreshLoop \/ Uplink \/ Propagation \/ NetChanges \/ HuntToggled \/ ModeSwitched
    \/ Restarted \/ ClientReplaced
    \/ \E f \in flushes : PacketFails(f)

PskSpec == PskInit /\ [][PskNext]_pskVars

-----------------------------------------------------------------------------
(* Once the net stays and the hunter stays switched on, it comes to know    *)
(* exactly who hears one of our callsigns in the mode we use, whatever was  *)
(* asked, switched, restarted or replaced before.                           *)
PickerLearnsWhoHears ==
    <>[](side = "down" /\ psk_net /\ hunting)
        => <>[](heard = UNION {hears[<<c, psk_mode>>] : c \in Own})

(* No spot disappears unnoticed: once a station was decoded, its spot waits *)
(* or is on its way, went out, or was lost with a packet, a client or the   *)
(* process.                                                                 *)
SpotsAreAccountedFor == spotted \subseteq buffered \cup (UNION flushes) \cup sent \cup lost
=============================================================================
