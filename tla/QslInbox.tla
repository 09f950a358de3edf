------------------------------ MODULE QslInbox ------------------------------
(* What others have confirmed to us at eQSL: the list of their cards,      *)
(* asked for from where the last one ended, and the pictures, fetched one  *)
(* at a time from a service that wants few requests, kept as files beside  *)
(* the database (_qsl_inbox_loop, integrations/eqsl_inbox.py).             *)
EXTENDS Naturals, Sequences, Functions

CONSTANTS
    Inbox,                \* cards: [to, from, nr]: whose they are, and what they confirm
    Accounts,             \* profiles with an account at eQSL
    QSL_JE_RUNDE, QSL_MAX_VERSUCHE, QSL_FRISCH_TAGE,
    MaxDays, MaxFailures, MaxRuns \* bounds

ASSUME InboxAssumption ==
    /\ Inbox \subseteq [to : Accounts, from : STRING, nr : Nat]
    /\ QSL_JE_RUNDE \in Nat \ {0} /\ QSL_MAX_VERSUCHE \in Nat /\ QSL_FRISCH_TAGE \in Nat
    /\ MaxDays \in Nat /\ MaxFailures \in Nat /\ MaxRuns \in Nat

VARIABLES
    today, booked,        \* the day eQSL booked each card on, 0 before
    karten, files,        \* the table, and the keys of the files there are
    round, todo,          \* where the loop is, accounts still to be asked
    answer, jobs,         \* a list that was fetched, pictures still to be
    got,                  \* how the last of them went
    loads,                \* history: how often each picture was fetched
    failures, runs        \* of the database so far, and starts of the program

loopVars == <<round, todo, answer, jobs, got>>
inboxVars == <<today, booked, karten, files, loopVars, loads, failures, runs>>

\* The key of a card does not say whose it is.
Schluessel(c) == <<c.from, c.nr>>
Known == {c \in Inbox : karten[c].known}
Unknown == [known |-> FALSE, datei |-> FALSE, versuche |-> 0, fehler |-> FALSE]

InboxInit ==
    /\ today = 1 /\ booked = [c \in Inbox |-> 0]
    /\ karten = [c \in Inbox |-> Unknown] /\ files = {}
    /\ round = "off" /\ todo = {} /\ answer = {} /\ jobs = <<>> /\ got = "nothing"
    /\ loads = [c \in Inbox |-> 0] /\ failures = 0 /\ runs = 0

DatabaseFails == failures < MaxFailures /\ failures' = failures + 1
Outside == UNCHANGED <<today, booked, runs>>

Goes(where) == round' = where
RoundOver == round' = "pause" /\ todo' = {} /\ answer' = {} /\ jobs' = <<>> /\ got' = "nothing"

-----------------------------------------------------------------------------
CardArrives ==
    /\ \E c \in Inbox : booked[c] = 0 /\ booked' = [booked EXCEPT ![c] = today]
    /\ UNCHANGED <<today, karten, files, loopVars, loads, failures, runs>>

DayPasses ==
    /\ today < MaxDays /\ today' = today + 1
    /\ UNCHANGED <<booked, karten, files, loopVars, loads, failures, runs>>

LoopBegins ==
    /\ round = "off" /\ Goes("orphans") /\ runs < MaxRuns /\ runs' = runs + 1
    /\ UNCHANGED <<today, booked, todo, answer, jobs, got, karten, files, loads, failures>>

(* Anywhere, and between a file and its row.                               *)
LoopIsCut ==
    /\ round # "off" /\ round' = "off"
    /\ todo' = {} /\ answer' = {} /\ jobs' = <<>> /\ got' = "nothing"
    /\ UNCHANGED <<karten, files, loads, failures>> /\ Outside

(* _qsl_waisen_einsammeln: files no row knows of, once before all else.    *)
GatherOrphans ==
    /\ round = "orphans" /\ RoundOver
    /\ \/ karten' = [c \in Inbox |-> IF karten[c].known /\ Schluessel(c) \in files
                                     THEN [karten[c] EXCEPT !.datei = TRUE] ELSE karten[c]]
          /\ UNCHANGED failures
       \/ DatabaseFails /\ UNCHANGED karten
    /\ UNCHANGED <<files, loads>> /\ Outside

(* The lists in every second round, the pictures in each.                  *)
BeginRound ==
    /\ round = "pause" /\ Goes("lists")
    /\ todo' \in {{}, Accounts}
    /\ UNCHANGED <<answer, jobs, got, karten, files, loads, failures>> /\ Outside

-----------------------------------------------------------------------------
SinceYesterday(o, day) ==                             \* mutant
    day = 0 \/ day + 1 = today

(* _qsl_liste_abgleichen.  RcvdSince: a day before the newest card known.  *)
Since(o, day) ==
    LET days == {booked[c] : c \in {k \in Known : k.to = o}}
    IN  IF days = {} THEN day = 0 ELSE day + 1 \in days /\ \A d \in days : d <= day + 1

AskForList ==
    /\ round = "lists"
    /\ \E o \in todo :
         /\ todo' = todo \ {o}
         /\ \/ \E day \in 0..today :
                  /\ Since(o, day)
                  /\ answer' = {c \in Inbox : c.to = o /\ booked[c] > 0 /\ booked[c] >= day}
                  /\ Goes("merge")
            \/ UNCHANGED <<answer, round>>            \* no network, or eQSL declines
    /\ UNCHANGED <<jobs, got, karten, files, loads, failures>> /\ Outside

\* The key is unique in the whole table.
Clashes(new) == \E c \in new, d \in Known : c.to # d.to /\ Schluessel(c) = Schluessel(d)

(* All of the list, or nothing: an error ends the round, without pictures. *)
MergeAnswer ==
    /\ round = "merge"
    /\ LET new == answer \ Known
       IN  \/ /\ ~Clashes(new)
              /\ karten' = [c \in Inbox |-> IF c \in new THEN [Unknown EXCEPT !.known = TRUE]
                                            ELSE karten[c]]
              /\ Goes("lists") /\ answer' = {} /\ UNCHANGED <<todo, jobs, got, failures>>
           \/ Clashes(new) /\ RoundOver /\ UNCHANGED <<karten, failures>>
           \/ DatabaseFails /\ RoundOver /\ UNCHANGED karten
    /\ UNCHANGED <<files, loads>> /\ Outside

-----------------------------------------------------------------------------
(* _qsl_bilder_nachholen.  One card of each station: the newest.  First    *)
(* what came in lately, then stations without any picture.                 *)
Open(c) == c \in Known /\ ~karten[c].datei /\ ~karten[c].fehler
                       /\ karten[c].versuche < QSL_MAX_VERSUCHE
SameStation(c, d) == c.to = d.to /\ c.from = d.from
OneEach ==
    {c \in Inbox : Open(c) /\ \A d \in Inbox :
        Open(d) /\ SameStation(c, d) => booked[c] > booked[d] \/ (booked[c] = booked[d] /\ c.nr >= d.nr)}

Fresh(c) == booked[c] + QSL_FRISCH_TAGE >= today
Seen(c) == \E d \in Known : SameStation(c, d) /\ karten[d].datei
Rank(c) == (IF Fresh(c) THEN 0 ELSE 2) + (IF Seen(c) THEN 1 ELSE 0)
Sooner(c, d) == Rank(c) < Rank(d) \/ (Rank(c) = Rank(d) /\ booked[c] > booked[d])

JobList(list) ==
    /\ IsInjective(list)
    /\ \A i, k \in DOMAIN list : i < k => ~Sooner(list[k], list[i])
    /\ \A c \in OneEach \ Range(list) :
         Len(list) = QSL_JE_RUNDE /\ \A i \in DOMAIN list : ~Sooner(c, list[i])

PickJobs ==
    /\ round = "lists" /\ todo = {}
    /\ \E n \in 0..QSL_JE_RUNDE : \E list \in [1..n -> OneEach] : JobList(list) /\ jobs' = list
    /\ Goes("pictures")
    /\ UNCHANGED <<todo, answer, got, karten, files, loads, failures>> /\ Outside

AllFetched ==
    /\ round = "pictures" /\ jobs = <<>> /\ RoundOver
    /\ UNCHANGED <<karten, files, loads, failures>> /\ Outside

(* hole_karte, and the file.  Throttled, the round is over.                *)
FetchPicture ==
    /\ round = "pictures" /\ jobs # <<>>
    /\ \/ files' = files \cup {Schluessel(Head(jobs))}
          /\ loads' = [loads EXCEPT ![Head(jobs)] = @ + 1]
          /\ got' = "picture" /\ Goes("row") /\ UNCHANGED <<todo, answer, jobs>>
       \/ got' \in {"refusal", "no_answer"} /\ Goes("row")
          /\ UNCHANGED <<todo, answer, jobs, files, loads>>
       \/ RoundOver /\ UNCHANGED <<files, loads>>
    /\ UNCHANGED <<karten, failures>> /\ Outside

Noted(row) ==
    [row EXCEPT !.versuche = row.versuche + 1, !.datei = row.datei \/ got = "picture",
                !.fehler = got = "refusal"]

(* A short transaction for each card.                                      *)
NoteJob ==
    /\ round = "row"
    /\ \/ karten' = [karten EXCEPT ![Head(jobs)] = Noted(@)]
          /\ Goes("pictures") /\ jobs' = Tail(jobs) /\ got' = "nothing"
          /\ UNCHANGED <<todo, answer, failures>>
       \/ DatabaseFails /\ RoundOver /\ UNCHANGED karten
    /\ UNCHANGED <<files, loads>> /\ Outside

InboxNext ==
    \/ CardArrives \/ DayPasses \/ LoopBegins \/ LoopIsCut \/ GatherOrphans \/ BeginRound
    \/ AskForList \/ MergeAnswer \/ PickJobs \/ AllFetched \/ FetchPicture \/ NoteJob

InboxSpec == InboxInit /\ [][InboxNext]_inboxVars

-----------------------------------------------------------------------------
InboxTypeOK ==
    /\ today \in Nat /\ booked \in [Inbox -> Nat]
    /\ karten \in [Inbox -> [known : BOOLEAN, datei : BOOLEAN, versuche : Nat, fehler : BOOLEAN]]
    /\ files \subseteq STRING \X Nat
    /\ round \in {"off", "orphans", "pause", "lists", "merge", "pictures", "row"}
    /\ todo \subseteq Accounts /\ answer \subseteq Inbox /\ jobs \in Seq(Inbox)
    /\ got \in {"nothing", "picture", "refusal", "no_answer"}
    /\ loads \in [Inbox -> Nat] /\ failures \in Nat /\ runs \in Nat

(* The lists follow one another without a gap, although each is asked for  *)
(* only from the newest card on: whoever knows a card knows all that came  *)
(* for him on the days before it, whatever lists failed in between.        *)
CardsWithoutGaps ==
    \A c, d \in Inbox :
        c.to = d.to /\ d \in Known /\ booked[c] > 0 /\ booked[c] < booked[d] => c \in Known

(* A picture that a row names is there, and nothing but a failure of the   *)
(* database or the disk, and no restart alone, has a picture fetched twice *)
(* (orchestrator.py 1692: 23 orphans would have been fetched again).       *)
PicturesAreKept ==
    \A c \in Inbox :
        /\ karten[c].datei => Schluessel(c) \in files
        /\ loads[c] <= 1 + failures
=============================================================================
