---------------------------- MODULE MCBackground ----------------------------
(* Parts of the program that share no state: the log and its spill file,   *)
(* whom the hunter picks, what is remembered across a restart, the load of *)
(* the decoder, the exchange with PSK Reporter, the mode watchdog, and the *)
(* watchdog of the network.  A history is about one of them.               *)
EXTENDS QsoLog, Memory, ModeWatch, Hotspot, HuntPicker, DecodePipeline, PskReports

VARIABLE part

parts == <<vars, memoryVars, modeVars, hotspotVars, pickerVars, decodeVars, pskVars>>
all == <<part, parts>>

(* One station, heard under its licensed call.                             *)
Licensed == [n \in Names |-> n]

OneStory == {{"mode", "rig"}, {"radio", "rig"}, {"cq"}}
OneDay == {{"net", "faults", "buttons"}, {"net", "cable", "restart"}, {"byhand", "net"}}

(* Two stations: "a" ends a QSO, "b" calls CQ, near or far, known or new.  *)
Decode(c, k, s, f) == [call |-> c, kind |-> k, snr |-> s, facts |-> f]
FewDecodes ==
    {Decode("a", "closing", -10, {"worthwhile"}), Decode("a", "r_report", -10, {}),
     Decode("a", "cq", -10, {}), Decode("b", "cq", -15, {"psk_heard_us", "worthwhile"}),
     Decode("b", "cq", -15, {"far"}), Decode("b", "cq", -17, {"new_dxcc", "pile_up", "far"})}
ByDistance == <<"tail_end_target", "new_dxcc", "psk_heard_us">>
BlockOf(a, weak, far, strict) ==
    [arm |-> a, schwach_arm |-> weak, sole_dx_arm |-> far, strict |-> strict]
RulesAndControl ==
    {BlockOf("rule", FALSE, FALSE, FALSE), BlockOf("rule", TRUE, TRUE, TRUE),
     BlockOf("control", TRUE, TRUE, FALSE)}
\* For Blocks in place of RulesAndControl: TailEndOncePerDay fails, see the README.
ExpectedValue == {BlockOf("ew", FALSE, FALSE, FALSE)}
Floor == -22
Weak == -13
SoleLimit == -16
StrictLimit == -14

TwoCalls == <<"own", "special">>

(* A computer that keeps up with some of the modes of the decoder.         *)
SlowCpu ==
    [one |-> [standard |-> {"prompt"}, deep |-> {"prompt", "slow"}, multi |-> {"slow", "late"},
              extreme |-> {"late"}],
     two |-> [deep |-> {"within"}, multi |-> {"within", "over"}, extreme |-> {"over"}]]
OneCpu == {SlowCpu}
Saved(mode, later) == [decoder_mode |-> mode, decoder_late_pass |-> later]
TwoModes == {Saved("extreme", TRUE), Saved("extreme", FALSE), Saved("deep", TRUE)}

AnyInit ==
    /\ part \in {"log", "picker", "memory", "mode", "hotspot", "decode", "psk"}
    /\ Init /\ PickerInit /\ MemoryInit /\ ModeInit /\ HotspotInit
    /\ DecodeInit /\ texts = {} /\ saves = 0 /\ faults = 0
    /\ PskInit /\ (part # "psk" => side = "up")
    /\ part # "decode" => two_stage /\ decoder_mode = "deep"
    /\ part # "picker" => block.arm = "rule" /\ ~block.strict
    /\ part # "mode" => story = {"cq"}
    /\ part # "hotspot" => day = {"byhand", "net"} /\ net

InMode(A) ==
    part = "mode" /\ A
    /\ UNCHANGED <<part, vars, memoryVars, hotspotVars, pickerVars, decodeVars, pskVars>>

InHotspot(A) ==
    part = "hotspot" /\ A
    /\ UNCHANGED <<part, vars, memoryVars, modeVars, pickerVars, decodeVars, pskVars>>

InPsk(A) ==
    part = "psk" /\ A
    /\ UNCHANGED <<part, vars, memoryVars, modeVars, hotspotVars, pickerVars, decodeVars>>

AnyNext ==
    \/ part = "log" /\ Next
       /\ UNCHANGED <<part, memoryVars, modeVars, hotspotVars, pickerVars, decodeVars, pskVars>>
    \/ part = "picker" /\ PickerNext
       /\ UNCHANGED <<part, vars, memoryVars, modeVars, hotspotVars, decodeVars, pskVars>>
    \/ part = "memory" /\ MemoryNext
       /\ UNCHANGED <<part, vars, modeVars, hotspotVars, pickerVars, decodeVars, pskVars>>
    \/ part = "decode" /\ DecodeNext
       /\ UNCHANGED <<part, vars, memoryVars, modeVars, hotspotVars, pickerVars, pskVars>>
    \/ InPsk(PskNext)
    \/ InMode(ModeNext)
    \/ InHotspot(HotspotNext)

(* The loops go on, time passes, the band brings decodes, and the unit of  *)
(* the hotspot does not fail for ever.  Of the first three only the one of *)
(* the part a history is about can ever be taken.                          *)
AnySpec ==
    /\ AnyInit /\ [][AnyNext]_all
    /\ WF_all(InMode(Minute) \/ InHotspot(Join) \/ InPsk(RefreshLoop \/ Uplink))
    /\ SF_all(InHotspot(Beat))
    /\ SF_all(InHotspot(Beat /\ ~os.hostapd /\ os'.hostapd))
=============================================================================
