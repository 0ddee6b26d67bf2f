----------------------------- MODULE MCAudioHal -----------------------------
(***************************************************************************)
(* Values of the constants of AudioHal for model checking.                 *)
(***************************************************************************)
EXTENDS AudioHal, TLC

CONSTANTS o1, o2, i1, i2, t1, t2, t3, r1, r2, aec, ns

(* Policies and inputs, small to large.                                    *)
TwoRoutes == {{"SPEAKER"}, {"WIRED_HEADSET"}}
AllRoutes == {{"EARPIECE"}, {"SPEAKER"}, {"WIRED_HEADSET"}, {"WIRED_HEADPHONE"},
              {"SCO"}, {"SPEAKER", "WIRED_HEADSET"}, {"SPEAKER", "WIRED_HEADPHONE"}}
OneRoute == {{"SPEAKER"}}
FourRoutes == {{"EARPIECE"}, {"SPEAKER"}, {"SCO"}, {"SPEAKER", "WIRED_HEADSET"}}
OneMic == {"BUILTIN_MIC"}
TwoMics == {"BUILTIN_MIC", "WIRED_HEADSET"}
ThreeMics == {"BUILTIN_MIC", "SCO", "WIRED_HEADSET"}
AllMics == InDevices \ {"NONE"}
VoiceSource == {"VOICE_COMMUNICATION"}
BothSources == {"MIC", "VOICE_COMMUNICATION"}
CallModes == {"NORMAL", "IN_CALL"}
NoCall == {"NORMAL"}
AllModes == Modes
TtyOff == {"OFF"}
AllTty == TtyModes
FullVolume == {100}
HalfVolume == {50, 100}
Either == BOOLEAN
Always == {TRUE}
NoVolume == {}
NoEffect == {}

ThreadSymmetry == Permutations(Threads)
StreamSymmetry == Permutations(Threads) \cup Permutations(Outs) \cup Permutations(Ins)

-----------------------------------------------------------------------------
(* Three statements of the repository that the code does not keep; each is *)
(* checked by a run of its own that shows how.                             *)

(* "force rx path according to TTY mode when in call ... rx path to        *)
(* headphones" (select_output_device): with TTY full or VCO and no         *)
(* Bluetooth the call is heard on the headphones.                          *)
TtyRxHeadphones ==
    hw_lock = None /\ hal.mode = "IN_CALL" /\ "SCO" \notin hal.out_device
        /\ hal.tty_mode \in {"FULL", "VCO"} =>
      hal.mixer["Voice"] = "Headset"

(* "Incall Voice Volumes": the downlink of a call has a volume between     *)
(* MIN_VOICE_VOLUME and MAX_VOICE_VOLUME.                                  *)
IncallVoiceVolume ==
    hw_lock = None /\ hal.mode = "IN_CALL" =>
      hal.downlink \in MIN_VOICE_VOLUME..MAX_VOICE_VOLUME

(* audio_policy.conf offers the earpiece as a device of the primary output:*)
(* what is routed to it alone does not come out of the loudspeaker.        *)
EarpieceRouted ==
    hw_lock = None /\ hal.mode # "IN_CALL" /\ hal.active_output # None
        /\ hal.out_device = {"EARPIECE"} =>
      hal.mixer["ExtAmp"] # "Speaker"
=============================================================================
