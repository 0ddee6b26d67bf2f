------------------------------ MODULE AtomicHal ------------------------------
(***************************************************************************)
(* What the audio HAL promises of its calls: each takes effect at once.    *)
(* The state is what the device is set to and which streams run; there are *)
(* no locks and no threads, and no call is half done.                      *)
(***************************************************************************)
CONSTANTS
    Outs, Ins,   \* output and input streams
    None,        \* no stream
    RouteSets,   \* device sets an output is routed to
    InDevices,   \* devices an input is opened on
    ModeSet      \* modes the framework sets

VARIABLES mode, out_device, in_device, active_output, active_input, running

device == <<mode, out_device, in_device>>
streams == <<active_output, active_input, running>>

Init ==
    /\ mode = "NORMAL" /\ out_device = {"SPEAKER"} /\ in_device = "BUILTIN_MIC"
    /\ active_output = None /\ active_input = None /\ running = {}

-----------------------------------------------------------------------------
(* The streams in S that run stop.  If one is an output none is active     *)
(* afterwards, and likewise for inputs.                                    *)
Stop(S) ==
    /\ running' = running \ S
    /\ active_output' = IF S \cap running \cap Outs = {} THEN active_output ELSE None
    /\ active_input' = IF S \cap running \cap Ins = {} THEN active_input ELSE None

(* Outside calls the microphone goes with the input.                       *)
Unheard(S) ==
    IF mode' = "IN_CALL" \/ S \cap running \cap Ins = {} THEN in_device ELSE "NONE"

StandbyOut(o) == Stop({o}) /\ UNCHANGED device
StandbyIn(i) ==
    /\ Stop({i})
    /\ in_device' = Unheard({i})
    /\ UNCHANGED <<mode, out_device>>

(* A stream starts if no other of its direction runs, or fails to start.   *)
StartOut(o) ==
    /\ running \cap Outs = {}
    /\ running' = running \cup {o} /\ active_output' = o
    /\ UNCHANGED <<device, active_input>>

FailOut(o) ==
    /\ o \notin running
    /\ active_output' = None
    /\ UNCHANGED <<device, active_input, running>>

(* Outside calls an input selects its microphone, whichever that is.       *)
Listen == IF mode = "IN_CALL" THEN UNCHANGED in_device ELSE in_device' \in InDevices

StartIn(i) ==
    /\ running \cap Ins = {}
    /\ running' = running \cup {i} /\ active_input' = i
    /\ Listen
    /\ UNCHANGED <<mode, out_device, active_output>>

FailIn(i) ==
    /\ i \notin running
    /\ active_input' = None
    /\ Listen
    /\ UNCHANGED <<mode, out_device, active_output, running>>

(* A new route stops the active output if the call is for it, and with it  *)
(* an input for voice.                                                     *)
Route(o, voice) ==
    LET S == IF o # active_output THEN {} ELSE {o} \cup (IF voice THEN {active_input} ELSE {})
    IN
    /\ out_device' \in RouteSets \ {out_device}
    /\ UNCHANGED mode
    /\ Stop(S)
    /\ in_device' = Unheard(S)

(* Into a call and out of one no active stream survives.  In a call the    *)
(* earpiece takes the place of the speaker.                                *)
SetMode ==
    /\ mode' \in ModeSet \ {mode}
    /\ IF "IN_CALL" \in {mode, mode'}
         THEN Stop({active_output, active_input})
         ELSE UNCHANGED streams
    /\ out_device' = IF mode' # "IN_CALL" THEN out_device
                     ELSE IF out_device = {"SPEAKER"} THEN {"EARPIECE"}
                     ELSE out_device \ {"SPEAKER"}
    /\ in_device' = IF mode' = "IN_CALL" /\ out_device = {"SPEAKER"} THEN "BUILTIN_MIC"
                    ELSE IF mode = "IN_CALL" THEN Unheard({active_input})
                    ELSE in_device

Next ==
    \/ \E o \in Outs :
         \/ StandbyOut(o) \/ StartOut(o) \/ FailOut(o)
         \/ \E voice \in BOOLEAN : Route(o, voice)
    \/ \E i \in Ins : StandbyIn(i) \/ StartIn(i) \/ FailIn(i)
    \/ SetMode

Spec == Init /\ [][Next]_<<device, streams>>
=============================================================================
