---------------------------- MODULE MCForeground ----------------------------
(* Five parts that share no state here: the QSO machine with two stations  *)
(* in a slot, the passes of the decoder that hand it messages, the         *)
(* operators and their accounts, the cards that come in at eQSL, and the   *)
(* calls looked out for.  A history is about one of them.                  *)
EXTENDS MCQsoMachine, DecodePipeline, Operators, QslInbox, Watchlist

VARIABLE part

all == <<part, vars, decodeVars, operatorVars, inboxVars, watchVars>>

(* Any message on a computer that copes.                                   *)
FastCpu ==
    [one |-> [m \in Modes |-> {"prompt"}], two |-> [m \in Deeper |-> {"within", "over"}]]
OneCpu == {FastCpu}
Saved(mode, later) == [decoder_mode |-> mode, decoder_late_pass |-> later]
DeepLater == {Saved("deep", TRUE)}

(* Both operators have an account at QRZ, one at first without its logbook. *)
Own(o) == [user |-> o, key |-> o]
BothOrOne == [dk |-> {Own("dk")}, do |-> {Own("do"), [user |-> "do", key |-> NoKey]}]
OneCall == [dk |-> {"x"}, do |-> {"x"}]

(* Two cards of one station.                                               *)
Card(from, nr) == [to |-> "dk", from |-> from, nr |-> nr]
TwoCards == {Card("x", 1), Card("x", 2)}

OneSchedule == {[from |-> 2, to |-> 2]}

AnyInit ==
    /\ part \in {"machine", "decode", "operators", "inbox", "watch"}
    /\ Init /\ DecodeInit /\ saves = MaxSaves /\ faults = 0
    /\ OperatorsInit /\ InboxInit /\ WatchInit
    /\ part # "machine" => hw
    /\ part # "decode" => texts = {}
    /\ part = "decode" => texts # {}
    /\ file.active = "dk" /\ file.profiles["do"].key = NoKey
    /\ part # "watch" => active = "dk"

AnyNext ==
    \/ part = "machine" /\ Next
       /\ UNCHANGED <<part, decodeVars, operatorVars, inboxVars, watchVars>>
    \/ part = "decode" /\ DecodeNext
       /\ UNCHANGED <<part, vars, operatorVars, inboxVars, watchVars>>
    \/ part = "operators" /\ OperatorsNext
       /\ UNCHANGED <<part, vars, decodeVars, inboxVars, watchVars>>
    \/ part = "inbox" /\ InboxNext
       /\ UNCHANGED <<part, vars, decodeVars, operatorVars, watchVars>>
    \/ part = "watch" /\ WatchNext
       /\ UNCHANGED <<part, vars, decodeVars, operatorVars, inboxVars>>

AnySpec == AnyInit /\ [][AnyNext]_all
=============================================================================
