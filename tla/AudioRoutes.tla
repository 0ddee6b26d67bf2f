---------------------------- MODULE AudioRoutes ----------------------------
(***************************************************************************)
(* The route tables of audio/audio_hw.c and the three functions that write *)
(* them to the ALSA mixer.  A mixer state is a function from abstract      *)
(* controls to settings:                                                   *)
(*   Voice     "Voice"   (the modem's downlink: which transducer it feeds) *)
(*   ExtAmp    "ExtAmp"  (the external amplifier's mode)                   *)
(*   PreDriv   pre-driver volume with its two AudioL2/R2 mixer switches    *)
(*   Headset   headset volume with its two AudioL2/R2 mixer switches       *)
(*   LeftMic   the left analog capture input, "On" where a table writes a  *)
(*             number and no name; the headset and sub mic switches beside *)
(*             it, which every table turns on or off with it, are left out *)
(*   Capture   "Analog Capture Volume"                                     *)
(*   TX1       "TX1 Digital Capture Volume"                                *)
(* Controls that every table sets to the same value (fine playback volume, *)
(* carkit, earpiece) are left out, and so is the analog DAC gain, which    *)
(* no property looks at.  The downlink volume, the only control that       *)
(* has a range, is kept beside the mixer: see hal.downlink.               *)
(***************************************************************************)
EXTENDS Integers

OutControls == {"Voice", "ExtAmp", "PreDriv", "Headset"}
InControls == {"LeftMic", "Capture", "TX1"}
Controls == OutControls \cup InControls

Settings == {"OFF", "Speaker", "Dual", "Headset", "Receiver", "Headsetcall",
             "Spkcall", "Off", "On", "Main Mic", "Headset Mic"}

OutDevices == {"EARPIECE", "SPEAKER", "WIRED_HEADSET", "WIRED_HEADPHONE", "SCO"}
InDevices == {"NONE", "BUILTIN_MIC", "BACK_MIC", "SCO", "WIRED_HEADSET"}
Modes == {"NORMAL", "RINGTONE", "IN_CALL", "IN_COMMUNICATION"}
TtyModes == {"OFF", "VCO", "HCO", "FULL"}

(* A table is a function from the controls it names to what it sets.       *)
route_standby == [Voice |-> "OFF", ExtAmp |-> "OFF",
                  PreDriv |-> "Off", Headset |-> "Off"]
route_speaker == [Voice |-> "OFF", ExtAmp |-> "Speaker",
                  PreDriv |-> "On", Headset |-> "Off"]
route_speaker_headset == [Voice |-> "OFF", ExtAmp |-> "Dual",
                          PreDriv |-> "On", Headset |-> "On"]
route_headset == [Voice |-> "OFF", ExtAmp |-> "Headset",
                  PreDriv |-> "Off", Headset |-> "On"]

route_main_mic == [LeftMic |-> "Main Mic", Capture |-> "On"]
route_headset_mic == [LeftMic |-> "Headset Mic", Capture |-> "On", TX1 |-> "On"]
route_input_standby == [LeftMic |-> "Off", Capture |-> "Off", TX1 |-> "Off"]

route_voicecall_headset ==
    [Voice |-> "Headset", ExtAmp |-> "Headsetcall", LeftMic |-> "On"]
route_voicecall_speaker ==
    [Voice |-> "Speaker", ExtAmp |-> "Spkcall", LeftMic |-> "On"]
route_voicecall_earpiece ==
    [Voice |-> "Receiver", ExtAmp |-> "OFF", LeftMic |-> "On"]

(* Writing a table leaves the controls it does not name as they were.      *)
set_route_by_array(mixer, route) ==
    [c \in Controls |-> IF c \in DOMAIN route THEN route[c] ELSE mixer[c]]

(* A freshly booted codec, before adev_open writes its first table.        *)
BootMixer == [c \in Controls |-> IF c \in InControls THEN "Off" ELSE "OFF"]

(* The devices select_output_device believes in: during a call without     *)
(* Bluetooth the TTY mode replaces the policy's choice.                    *)
RxDevices(mode, tty, devices) ==
    IF mode = "IN_CALL" /\ "SCO" \notin devices /\ tty \in {"FULL", "VCO"}
      THEN {"WIRED_HEADPHONE"}
    ELSE IF mode = "IN_CALL" /\ "SCO" \notin devices /\ tty = "HCO"
      THEN {"SPEAKER"}
    ELSE devices

(* The devices for which select_output_device has a table at all.          *)
RoutedDevices == {"SPEAKER", "WIRED_HEADSET", "WIRED_HEADPHONE"}

(* The table select_output_device writes for rx, a set meeting RoutedDevices. *)
OutputRoute(rx) ==
    IF {"SPEAKER", "WIRED_HEADSET"} \subseteq rx THEN route_speaker_headset
    ELSE IF "SPEAKER" \in rx THEN route_speaker
    ELSE route_headset

(* The devices for which set_incall_device has a table.                    *)
IncallDevices == {"EARPIECE", "WIRED_HEADSET", "WIRED_HEADPHONE", "SPEAKER"}

IncallRoute(devices) ==
    IF "EARPIECE" \in devices THEN route_voicecall_earpiece
    ELSE IF devices \cap {"WIRED_HEADSET", "WIRED_HEADPHONE"} # {}
      THEN route_voicecall_headset
    ELSE route_voicecall_speaker

(* set_incall_device: nothing happens when only Bluetooth is selected.     *)
set_incall_device(mixer, devices) ==
    IF devices \cap IncallDevices = {} THEN mixer
    ELSE set_route_by_array(mixer, IncallRoute(devices))

(* The devices for which select_input_device has a table.                  *)
MicDevices == {"BUILTIN_MIC", "BACK_MIC", "WIRED_HEADSET"}

InputRoute(device) ==
    IF device = "WIRED_HEADSET" THEN route_headset_mic ELSE route_main_mic

(* "DAC Voice Digital Downlink Volume" for a volume given in percent.      *)
MIN_VOICE_VOLUME == 10
MAX_VOICE_VOLUME == 40
VoiceVolumeCtl(volume) ==
    MIN_VOICE_VOLUME + (volume * (MAX_VOICE_VOLUME - MIN_VOICE_VOLUME)) \div 100
=============================================================================
