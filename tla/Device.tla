------------------------------- MODULE Device -------------------------------
(***************************************************************************)
(* The small programs of the device in one module: the Wi-Fi address, the  *)
(* recovery's display, the lights, the baseband version, the USB gadget    *)
(* and the call state.  They share no state and never call each other, so  *)
(* a behaviour of this module is one of one program, with the faults of    *)
(* one of its instances; the variables of the others are Unused.           *)
(*                                                                         *)
(* The instances are of the modules that hold the proofs about the         *)
(* programs: those extend the programs' modules, and their theorems can be *)
(* cited for the instances.                                                *)
(***************************************************************************)
EXTENDS Integers, Sequences

CONSTANTS
    Nvrams, Random, MaxBoots,                          \* of WifiMac
    FlipTexts, FlipWidth, FlipCharWidth, MaxFlipDraw,  \* of RecoveryGraphics, flips
    LineTexts, LineWidth, LineCharWidth, MaxLineDraw,  \* of RecoveryGraphics, texts
    NodeStates, MaxNodeCalls,                          \* of Lights, all nodes
    PatternStates, MaxPatternCalls,                    \* of Lights, one pattern
    Size, Others,                                      \* of CpVersion
    MaxConfigs,                                        \* MaxChanges of UsbConfig
    Calls, MaxCallChanges                              \* Calls, MaxChanges of RilCallState

VARIABLES
    program, pc, queue, changes,
    nvram, macaddr, file, disk, first, boots,
    gr_vt_fd, gr_fb_fd, vt, gr_active_fb, displayed, gr_framebuffer, drawn, mem,
    texture, rects,
    state, node, failed, calls,
    sync_buf, bytes, readbuf, read_bytes, result, version,
    config, running, gadget,
    call, mCallState, highest, request

wifi == <<nvram, macaddr, file, disk, first, boots>>
graphics == <<gr_vt_fd, gr_fb_fd, vt, gr_active_fb, displayed, gr_framebuffer, drawn,
              mem, texture, rects>>
lights == <<state, node, failed, calls>>
modem == <<sync_buf, bytes, readbuf, read_bytes, result, version>>
usb == <<config, running, gadget>>
phone == <<call, mCallState, highest, request>>
vars == <<program, pc, queue, changes, wifi, graphics, lights, modem, usb, phone>>

-----------------------------------------------------------------------------
(* Wi-Fi, USB and calls.  Power may go at any step; or the NVRAM may fail, *)
(* with orderly shutdown.                                                  *)
Power == INSTANCE ServiceProofs
    WITH NvramFails <- FALSE, OpenFails <- FALSE, PowerLoss <- TRUE
Fault == INSTANCE ServiceProofs
    WITH NvramFails <- TRUE, OpenFails <- TRUE, PowerLoss <- FALSE

(* Recovery: flips that work; texts, and flips that fail.                  *)
Flip == INSTANCE GraphicsProofs
    WITH SwapFails <- FALSE, Texts <- FlipTexts, Width <- FlipWidth,
         CharWidth <- FlipCharWidth, MaxDraw <- MaxFlipDraw
Text == INSTANCE GraphicsProofs
    WITH SwapFails <- TRUE, Texts <- LineTexts, Width <- LineWidth,
         CharWidth <- LineCharWidth, MaxDraw <- MaxLineDraw

(* Lights: nodes that may fail; patterns of all colors and times.          *)
Nodes == INSTANCE LightsProofs
    WITH States <- NodeStates, WriteFails <- TRUE, MaxCalls <- MaxNodeCalls
Pattern == INSTANCE LightsProofs
    WITH States <- PatternStates, WriteFails <- FALSE, MaxCalls <- MaxPatternCalls

Modem == INSTANCE CpVersionProofs

ASSUME WifiAssumption == Power!Wifi!WifiMacAssumption /\ Fault!Wifi!WifiMacAssumption
ASSUME DisplayAssumption == Flip!GraphicsAssumption /\ Text!GraphicsAssumption
ASSUME LedAssumption == Nodes!LightsAssumption /\ Pattern!LightsAssumption
ASSUME ModemAssumption == Modem!CpVersionAssumption

-----------------------------------------------------------------------------
Unused == "unused"

WifiUnused ==
    /\ nvram = Unused /\ macaddr = Unused /\ file = Unused /\ disk = Unused
    /\ first = Unused /\ boots = Unused
GraphicsUnused ==
    /\ gr_vt_fd = Unused /\ gr_fb_fd = Unused /\ vt = Unused /\ gr_active_fb = Unused
    /\ displayed = Unused /\ gr_framebuffer = Unused /\ drawn = Unused /\ mem = Unused
    /\ texture = Unused /\ rects = Unused
LightsUnused == state = Unused /\ node = Unused /\ failed = Unused /\ calls = Unused
ModemUnused ==
    /\ sync_buf = Unused /\ bytes = Unused /\ readbuf = Unused /\ read_bytes = Unused
    /\ result = Unused /\ version = Unused
UsbUnused == config = Unused /\ running = Unused /\ gadget = Unused
PhoneUnused ==
    call = Unused /\ mCallState = Unused /\ highest = Unused /\ request = Unused

Init ==
    \/ /\ \/ program = "power" /\ Power!Wifi!Init
          \/ program = "nvram" /\ Fault!Wifi!Init
       /\ queue = Unused /\ changes = Unused
       /\ GraphicsUnused /\ LightsUnused /\ ModemUnused /\ UsbUnused /\ PhoneUnused
    \/ /\ \/ program = "flip" /\ Flip!Init
          \/ program = "text" /\ Text!Init
       /\ queue = Unused /\ changes = Unused
       /\ WifiUnused /\ LightsUnused /\ ModemUnused /\ UsbUnused /\ PhoneUnused
    \/ /\ \/ program = "nodes" /\ Nodes!Init
          \/ program = "pattern" /\ Pattern!Init
       /\ queue = Unused /\ changes = Unused
       /\ WifiUnused /\ GraphicsUnused /\ ModemUnused /\ UsbUnused /\ PhoneUnused
    \/ /\ program = "modem" /\ Modem!Init
       /\ queue = Unused /\ changes = Unused
       /\ WifiUnused /\ GraphicsUnused /\ LightsUnused /\ UsbUnused /\ PhoneUnused
    \/ /\ program = "usb" /\ Power!Usb!Init /\ pc = Unused
       /\ WifiUnused /\ GraphicsUnused /\ LightsUnused /\ ModemUnused /\ PhoneUnused
    \/ /\ program = "phone" /\ Power!Phone!Init /\ pc = Unused
       /\ WifiUnused /\ GraphicsUnused /\ LightsUnused /\ ModemUnused /\ UsbUnused

NotWifi == UNCHANGED <<program, queue, changes, graphics, lights, modem, usb, phone>>
NotGraphics == UNCHANGED <<program, queue, changes, wifi, lights, modem, usb, phone>>
NotLights == UNCHANGED <<program, queue, changes, wifi, graphics, modem, usb, phone>>
NotModem == UNCHANGED <<program, queue, changes, wifi, graphics, lights, usb, phone>>
NotUsb == UNCHANGED <<program, pc, wifi, graphics, lights, modem, phone>>
NotPhone == UNCHANGED <<program, pc, wifi, graphics, lights, modem, usb>>

Next ==
    \/ program = "power" /\ Power!Wifi!Next /\ NotWifi
    \/ program = "nvram" /\ Fault!Wifi!Next /\ NotWifi
    \/ program = "flip" /\ Flip!Next /\ NotGraphics
    \/ program = "text" /\ Text!Next /\ NotGraphics
    \/ program = "nodes" /\ Nodes!Next /\ NotLights
    \/ program = "pattern" /\ Pattern!Next /\ NotLights
    \/ program = "modem" /\ Modem!Next /\ NotModem
    \/ program = "usb" /\ Power!Usb!Next /\ NotUsb
    \/ program = "phone" /\ Power!Phone!Next /\ NotPhone

Spec == Init /\ [][Next]_vars

(* init starts wlan_precheck at each boot and runs its queue of commands.  *)
FairSpec ==
    /\ Spec
    /\ WF_vars(program = "power" /\ Power!Wifi!Service /\ NotWifi)
    /\ WF_vars(program = "usb" /\ Power!Usb!Execute /\ NotUsb)

-----------------------------------------------------------------------------
(* The properties of each program, stated with their names in its module.  *)

(* Type invariants of all programs.                                        *)
TypeOK ==
    /\ program = "power" => Power!Wifi!TypeOK
    /\ program = "nvram" => Fault!Wifi!TypeOK
    /\ program = "flip" => Flip!TypeOK
    /\ program = "text" => Text!TypeOK
    /\ program = "nodes" => Nodes!TypeOK
    /\ program = "pattern" => Pattern!TypeOK
    /\ program = "modem" => Modem!TypeOK
    /\ program = "usb" => Power!Usb!TypeOK
    /\ program = "phone" => Power!Phone!TypeOK

(* The configuration never gets another address than its first, neither    *)
(* when power is lost at any step and the NVRAM can be read, nor when the  *)
(* NVRAM and opening the file fail now and then and power is not lost      *)
(* (getmac.c).                                                             *)
MacKept ==
    /\ program = "power" => Power!Wifi!MacKept
    /\ program = "nvram" => Fault!Wifi!MacKept

(* A device with an address in the NVRAM that can be read gets it.         *)
MacOfDevice == program = "power" => Power!Wifi!MacOfDevice

(* The configuration has an address in the end (wlan-precheck, getmac.c).  *)
ConfigWritten == <>[](program = "power" => Power!Wifi!Configured)

(* While flips work, gr_flip never copies into the displayed buffer; when  *)
(* they fail, a torn picture is displayed in the middle of a copy at most. *)
NoTearing ==
    /\ program = "flip" => Flip!NoTearing
    /\ program = "text" => Text!NoTearing

(* When gr_exit returns, after any use of the display and each failure of  *)
(* gr_init, the console is usable again.  It does not return if the        *)
(* program ends at the second free of the surface.                         *)
ClosedClean == program \in {"flip", "text"} => Flip!ClosedClean

(* When gr_flip returns and the driver shows its buffer, what is displayed *)
(* is what was drawn, also after flips that failed.                        *)
FlipShows ==
    [][/\ program = "flip" => Flip!Flipped
       /\ program = "text" => Text!Flipped]_vars

(* Each character of a text shows one glyph of the font (gr_text_impl).    *)
TextShowsGlyphs == program = "text" => Text!TextShowsGlyphs

(* Between calls without an error the nodes of the lights are as asked for *)
(* last (lights.c).                                                        *)
NodesSettled == program = "nodes" => Nodes!NodesSettled

(* The LED controller knows every pattern set_light_notifications writes.  *)
PatternKnown == program = "pattern" => Pattern!PatternKnown

(* A light that is on and off for some time blinks.                        *)
TimedBlinks == program = "pattern" => Pattern!TimedBlinks

(* The loops of cpversion.c stay in the buffer for every short answer: one *)
(* that does not fill the buffer and is no error.                          *)
InBounds == program = "modem" => Modem!InBounds

(* The baseband version is the second line of the answer.                  *)
VersionIsSecondLine == program = "modem" => Modem!VersionIsSecondLine

(* When init is done the gadget is the one configured last.                *)
GadgetSettled == program = "usb" => Power!Usb!GadgetSettled

(* The framework, which waits for sys.usb.state, goes on in the end.       *)
StateFollows ==
    program = "usb" /\ Power!Usb!Changed ~> program = "usb" /\ Power!Usb!Followed

(* The call state told is the highest since idle (LGEInfineon.java).       *)
HighestKept == program = "phone" => Power!Phone!HighestKept

(* Rejecting a waiting call, when every change has been told, ends that    *)
(* call and no other.                                                      *)
WaitingRejected == [][program = "phone" => Power!Phone!Rejected]_vars

(* "least significant bit must be off, else it's multicast" (getmac.c).    *)
FallbackUnicast == program = "power" => Power!Wifi!FallbackUnicast
=============================================================================
