----------------------------- MODULE Operators ------------------------------
(* Several people share the station, each with an account at QRZ: the      *)
(* switch between them, their credentials in the running configuration,    *)
(* its file and a page of the browser, and the logbook fetched from QRZ    *)
(* that tells the hunter whom the active one has worked.                   *)
EXTENDS Naturals

CONSTANTS
    Operators,
    NoKey, NoPage,
    Profiles,             \* credentials each can give: of his own account, or parts of them
    Heard,                \* stations
    Lifetime,             \* what each account's logbook holds
    Clicks,               \* requests to switch under way at a time
    QRZ_SYNC_ABSTAND,     \* a day
    SyncEnd, MaxDeeds     \* bounds

Credentials == [user : Operators \cup {NoKey}, key : Operators \cup {NoKey}]
Given == UNION {Profiles[o] : o \in Operators} \cup {[user |-> NoKey, key |-> NoKey]}

ASSUME OperatorsAssumption ==
    /\ Profiles \in [Operators -> SUBSET Credentials]
    /\ \A o \in Operators : \A p \in Profiles[o] : {p.user, p.key} \subseteq {o, NoKey}
    /\ NoKey \notin Operators /\ NoPage \notin Operators \cup {NoKey}
    /\ Lifetime \in [Operators -> SUBSET Heard]
    /\ QRZ_SYNC_ABSTAND \in Nat \ {0} /\ SyncEnd \in Nat /\ MaxDeeds \in Nat

VARIABLES
    up,
    config, file,    \* AppConfig of the program, and config.yaml
    page,            \* the user of QRZ the configuration page shows
    writing,         \* the write that holds _config_rmw_lock
    patch,           \* a change of a profile on its way to the file
    strayed,         \* history: whose page was saved under another active operator
    worked, rows,    \* _worked_calls, and the QSO table
    loading,         \* switches that wait for the database
    sync, sync_at, saved_sync,
    clock,
    deeds            \* requests, QSOs and restarts so far

configVars == <<config, file, page, writing, patch, strayed>>
syncVars == <<sync, sync_at, saved_sync>>
operatorVars == <<up, configVars, worked, rows, loading, syncVars, clock, deeds>>

Nothing == [user |-> NoKey, key |-> NoKey]
NoWrite == [by |-> "nobody"]
NoPatch == [of |-> NoKey]
Nobody == NoKey

-----------------------------------------------------------------------------
(* AppConfig.  Credentials in the block of QRZ go to the profile they name *)
(* where it lacks some: whenever a configuration is validated.             *)
Filled(own, from) ==
    [user |-> IF own.user = NoKey THEN from.user ELSE own.user,
     key |-> IF own.key = NoKey THEN from.key ELSE own.key]

Validated(c) ==
    IF c.qrz.user \in Operators THEN [c EXCEPT !.profiles[c.qrz.user] = Filled(@, c.qrz)] ELSE c

(* The block follows the active profile: with one profile only where that  *)
(* has something to give.                                                  *)
Mirrored(c) ==
    LET own == c.profiles[c.active]
    IN  [c EXCEPT !.qrz = IF Operators # {c.active} THEN own ELSE Filled(own, @)]

(* PUT /api/config: profiles and the active one are the running ones.  The *)
(* page shows no keys, so its own user comes with the running key.         *)
Merged(user, c) == [c EXCEPT !.qrz.user = IF user = NoKey THEN @ ELSE user]

-----------------------------------------------------------------------------
OperatorsInit ==
    /\ \E a \in Operators, p \in [Operators -> Given] :
         /\ \A o \in Operators : p[o] \in Profiles[o]
         /\ file = Validated([active |-> a, profiles |-> p, qrz |-> p[a]])
    /\ config = file /\ strayed = {}
    /\ up = FALSE /\ page = NoPage /\ writing = NoWrite /\ patch = NoPatch
    /\ worked = {} /\ rows = [o \in Operators |-> {}] /\ loading = [k \in Clicks |-> Nobody]
    /\ sync = [at |-> "none", key |-> NoKey, due |-> 0] /\ sync_at = 0 /\ saved_sync = 0
    /\ clock = 1 /\ deeds = 0

(* Bound: so many of what comes from outside.                              *)
Deed == deeds < MaxDeeds /\ deeds' = deeds + 1

(* The loop is started only when there is a key, and waits out the day     *)
(* that began with the last fetch.                                         *)
Boot ==
    /\ ~up /\ up' = TRUE
    /\ config' = Mirrored(Validated(file))
    /\ worked' = rows[config'.active]
    /\ sync_at' = saved_sync
    /\ sync' = IF config'.qrz.key = NoKey THEN [at |-> "none", key |-> NoKey, due |-> 0]
               ELSE [at |-> "asleep", key |-> NoKey,
                     due |-> IF saved_sync > 0 THEN saved_sync + QRZ_SYNC_ABSTAND ELSE clock]
    /\ UNCHANGED <<file, page, writing, patch, strayed, rows, loading, saved_sync, clock, deeds>>

Restart ==
    /\ up /\ up' = FALSE /\ Deed
    /\ page' = NoPage /\ writing' = NoWrite /\ patch' = NoPatch
    /\ worked' = {} /\ loading' = [k \in Clicks |-> Nobody]
    /\ sync' = [at |-> "none", key |-> NoKey, due |-> 0]
    /\ config' = file /\ sync_at' = 0
    /\ UNCHANGED <<file, strayed, rows, saved_sync, clock>>

(* switch_operator: everything up to the first query is one step.  The     *)
(* file is not written.                                                    *)
Switch(k) ==
    /\ up /\ loading[k] = Nobody /\ Deed
    /\ \E o \in Operators \ {config.active} :
         /\ config' = Mirrored([config EXCEPT !.active = o])
         /\ loading' = [loading EXCEPT ![k] = o]
    /\ worked' = {}
    /\ UNCHANGED <<up, file, page, writing, patch, strayed, rows, syncVars, clock>>

(* _hydrate_from_db: the answer replaces the set.                          *)
Hydrate(k) ==
    /\ up /\ loading[k] # Nobody
    /\ worked' = rows[loading[k]]
    /\ loading' = [loading EXCEPT ![k] = Nobody]
    /\ UNCHANGED <<up, configVars, rows, syncVars, clock, deeds>>

LogQso ==
    /\ up /\ Deed
    /\ \E s \in Heard \ rows[config.active] :
         rows' = [rows EXCEPT ![config.active] = @ \cup {s}] /\ worked' = worked \cup {s}
    /\ UNCHANGED <<up, configVars, loading, syncVars, clock>>

-----------------------------------------------------------------------------
ConfigOnly == UNCHANGED <<up, worked, rows, loading, syncVars, clock>>

(* PATCH /api/operators: the profile at once, the file under the lock.     *)
Patch ==
    /\ up /\ patch = NoPatch /\ Deed
    /\ \E o \in Operators, new \in Given :
         /\ new \in Profiles[o] \cup {Nothing} /\ new # config.profiles[o]
         /\ config' = [config EXCEPT !.profiles[o] = new]
         /\ patch' = [of |-> o, new |-> new, at |-> "waits"]
    /\ UNCHANGED <<file, page, writing, strayed>> /\ ConfigOnly

(* persist_config: the configuration as it is when the lock is free.       *)
Persist ==
    /\ up /\ writing = NoWrite
    /\ \/ patch # NoPatch /\ patch.at = "waits" /\ patch' = [patch EXCEPT !.at = "writes"]
          /\ UNCHANGED deeds
          /\ writing' = [by |-> "patch", content |-> config]
       \/ file # config /\ UNCHANGED patch /\ Deed
          /\ writing' = [by |-> "other", content |-> config]
    /\ UNCHANGED <<config, file, page, strayed>> /\ ConfigOnly

LoadPage ==
    /\ up /\ page # config.qrz.user /\ page' = config.qrz.user
    /\ UNCHANGED <<config, file, writing, patch, strayed, deeds>> /\ ConfigOnly

SavePage ==
    /\ up /\ page # NoPage /\ writing = NoWrite /\ Deed
    /\ writing' = [by |-> "page", content |-> Validated(Merged(page, config))]
    /\ strayed' = strayed \cup ({page} \cap (Operators \ {config.active}))
    /\ UNCHANGED <<config, file, page, patch>> /\ ConfigOnly

(* A page whose write failed is refused; persist_config only logs it.      *)
WriteEnds ==
    /\ up /\ writing # NoWrite /\ writing' = NoWrite
    /\ \E done \in BOOLEAN :
         /\ file' = IF done THEN writing.content ELSE file
         /\ config' = CASE writing.by = "page" /\ done -> writing.content
                        [] writing.by = "patch" /\ patch.of = config.active -> Mirrored(config)
                        [] OTHER -> config
    /\ patch' = IF writing.by = "patch" THEN NoPatch ELSE patch
    /\ UNCHANGED <<page, strayed, deeds>> /\ ConfigOnly

-----------------------------------------------------------------------------
SyncOnly == UNCHANGED <<up, configVars, rows, loading, clock, deeds>>
Asleep(until) == [at |-> "asleep", key |-> NoKey, due |-> until]

(* _qrz_logbook_sync_loop: the key is read anew for each fetch, and again  *)
(* after it.  Without one, or after an error, it tries again soon.         *)
Fetch ==
    /\ up /\ sync.at = "asleep" /\ clock >= sync.due /\ config.qrz.key # NoKey
    /\ sync' = [at |-> "fetching", key |-> config.qrz.key, due |-> sync.due]
    /\ UNCHANGED <<worked, sync_at, saved_sync>> /\ SyncOnly

MergeWhatCame ==                                      \* mutant
    /\ up /\ sync.at = "fetching"
    /\ worked' = worked \cup Lifetime[sync.key]
    /\ sync_at' = clock /\ saved_sync' \in {clock, saved_sync}
    /\ sync' = Asleep(clock + QRZ_SYNC_ABSTAND)
    /\ SyncOnly

Merge ==
    /\ up /\ sync.at = "fetching" /\ config.qrz.key = sync.key
    /\ worked' = worked \cup Lifetime[sync.key]
    /\ sync_at' = clock /\ saved_sync' \in {clock, saved_sync}
    /\ sync' = Asleep(clock + QRZ_SYNC_ABSTAND)
    /\ SyncOnly

Discard ==
    /\ up /\ sync.at = "fetching"
    /\ sync' = Asleep(clock)
    /\ UNCHANGED <<worked, sync_at, saved_sync>> /\ SyncOnly

(* runtime_state.json is also written for other reasons.                   *)
SaveRuntimeState ==
    /\ up /\ saved_sync # sync_at /\ saved_sync' = sync_at
    /\ UNCHANGED <<worked, sync, sync_at>> /\ SyncOnly

TimeGoesOn ==
    /\ clock < SyncEnd /\ clock' = clock + 1
    /\ UNCHANGED <<up, configVars, worked, rows, loading, syncVars, deeds>>

OperatorsNext ==
    \/ Boot \/ Restart
    \/ \E k \in Clicks : Switch(k) \/ Hydrate(k)
    \/ LogQso \/ Patch \/ Persist \/ LoadPage \/ SavePage \/ WriteEnds
    \/ Fetch \/ Merge \/ Discard \/ SaveRuntimeState \/ TimeGoesOn

OperatorsSpec == OperatorsInit /\ [][OperatorsNext]_operatorVars

-----------------------------------------------------------------------------
Configuration == [active : Operators, profiles : [Operators -> Credentials], qrz : Credentials]

OperatorsTypeOK ==
    /\ up \in BOOLEAN /\ config \in Configuration /\ file \in Configuration
    /\ page \in Operators \cup {NoKey, NoPage}
    /\ writing \in {NoWrite} \cup [by : {"page", "patch", "other"}, content : Configuration]
    /\ patch \in {NoPatch} \cup [of : Operators, new : Credentials, at : {"waits", "writes"}]
    /\ strayed \subseteq Operators
    /\ worked \subseteq Heard /\ rows \in [Operators -> SUBSET Heard]
    /\ loading \in [Clicks -> Operators \cup {Nobody}]
    /\ sync \in [at : {"none", "asleep", "fetching"}, key : Operators \cup {NoKey}, due : Nat]
    /\ sync_at \in Nat /\ saved_sync \in Nat /\ clock \in Nat /\ deeds \in Nat

(* What is fetched from QRZ is added to the stations worked only if it is  *)
(* the logbook of the account of whoever is active by then, whatever was   *)
(* switched, changed, saved or written late during the fetch               *)
(* (orchestrator.py 7048-7054).  Excepted is an operator whose page was    *)
(* saved while another was active: his user is saved with the other's key, *)
(* and the validation may give it to his profile (models.py 1344-1356).    *)
FetchedIsOwn ==
    [][sync.at = "fetching" /\ sync'.at = "asleep" /\ worked' # worked =>
          sync.key = config.active \/ config.active \in strayed]_operatorVars

(* No logbook of another is ever taken for that of the active operator,    *)
(* which the second look at the key after the fetch is there for           *)
(* (orchestrator.py 7048: a station the other has worked would be passed   *)
(* over).                                                                  *)
NoForeignLogbook ==
    [][sync.at = "fetching" /\ sync'.at = "asleep" /\ worked' # worked =>
          sync.key = config.active]_operatorVars

(* Credentials that a profile lacks in the file stay away at the next      *)
(* start (operators.py 346: an empty string deletes the field).            *)
RemovedStaysRemoved ==
    [][~up /\ up' => \A o \in Operators : file.profiles[o].key = NoKey =>
                                           config'.profiles[o].key = NoKey]_operatorVars

(* While the day after a fetch runs, the hunter knows the whole logbook of *)
(* the operator (orchestrator.py 7003: the filter becomes accurate).       *)
LifetimeIsKnown ==
    up /\ sync.at = "asleep" /\ clock < sync.due /\ loading = [k \in Clicks |-> Nobody]
        /\ config.qrz.key # NoKey
    => Lifetime[config.qrz.key] \subseteq worked
=============================================================================
