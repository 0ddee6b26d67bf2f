------------------------------ MODULE AudioHal ------------------------------
(***************************************************************************)
(* The audio HAL of audio/audio_hw.c: one hardware device, its streams and *)
(* the threads of the media server that call into it.                      *)
(*                                                                         *)
(* hal       the fields of omap_audio_device, of its streams and the mixer *)
(* handle    what the framework holds of each stream                       *)
(* hw_lock   the owner of adev->lock                                       *)
(* lock      the owner of each stream's lock                               *)
(* th        per thread: where in which call it is                         *)
(*                                                                         *)
(* A step runs from one lock operation that may block to the next.  While  *)
(* adev->lock is held nobody else can take a stream lock, so a stream lock *)
(* that is taken and released under it needs no step of its own: its wait  *)
(* is the guard of the step (WaitsFor), its holder is never seen.          *)
(***************************************************************************)
EXTENDS AudioRoutes, FiniteSets

CONSTANTS
    Outs, Ins,      \* output and input streams the framework may open
    Threads,        \* threads that call the HAL
    None,           \* a null pointer, a free lock
    Refs,           \* addresses of echo_reference objects
    RefCreate,      \* the results create_echo_reference may have
    RouteSets,      \* device sets the policy manager routes an output to
    MicSet,         \* devices it opens an input on or routes it to
    Sources,        \* audio sources it gives an input
    ModeSet, TtySet, Volumes,  \* modes, TTY modes, voice volumes (percent)
    Effects,        \* preprocessors, at most one of them an AEC
    AEC             \* the echo canceller

ASSUME StreamsAssumption ==
    /\ Outs \cap Ins = {} /\ None \notin Outs \cup Ins \cup Threads \cup Refs
    /\ IsFiniteSet(Effects)
    /\ RefCreate \subseteq BOOLEAN
ASSUME InputsAssumption ==
    /\ RouteSets \subseteq SUBSET OutDevices /\ {} \notin RouteSets
    /\ MicSet \subseteq InDevices \ {"NONE"}
    /\ Sources \subseteq {"MIC", "VOICE_COMMUNICATION"}
    /\ ModeSet \subseteq Modes /\ TtySet \subseteq TtyModes
    /\ Volumes \subseteq 0..100

VARIABLES hal, handle, hw_lock, lock, th

vars == <<hal, handle, hw_lock, lock, th>>

Streams == Outs \cup Ins
MAX_PREPROCESSORS == 3

-----------------------------------------------------------------------------
(* Types of the state.  A stream's pcm is null, a handle that is open, or  *)
(* one that was closed and not reset ("stale").                            *)
OutPcm == {"null", "open", "stale"}
OutState == [standby : BOOLEAN, pcm : OutPcm, echo : Refs \cup {None}]
InState == [standby : BOOLEAN, pcm : OutPcm, echo : Refs \cup {None},
            device : InDevices, source : {"DEFAULT"} \cup Sources,
            need : BOOLEAN, fx : SUBSET Effects]
HalState ==
    [mode : Modes, out_device : (SUBSET OutDevices) \ {{}}, in_device : InDevices,
     in_call : BOOLEAN, voice_volume : 0..100, tty_mode : TtyModes,
     active_output : Outs \cup {None}, active_input : Ins \cup {None},
     echo_reference : Refs \cup {None}, live : SUBSET Refs,
     mixer : [Controls -> Settings], downlink : 0..MAX_VOICE_VOLUME,
     out : [Outs -> OutState], in : [Ins -> InState]]

NewOut == [standby |-> TRUE, pcm |-> "null", echo |-> None]
NewIn(device) == [standby |-> TRUE, pcm |-> "null", echo |-> None,
                  device |-> device, source |-> "DEFAULT",
                  need |-> FALSE, fx |-> {}]

PCs == {"idle", "write", "write_io", "write_tail", "route", "out_standby",
        "read", "start_in", "read_io", "read_sleep", "force", "in_standby",
        "in_params", "add_effect", "remove_effect", "in_stby", "mode_out",
        "mode_in", "mode_select", "volume_store", "volume_ctl", "free"}
ThreadState == [pc : PCs, op : {"none", "force", "mode", "close"},
                tgt : Streams \cup {None}, vol : 0..100]
Idle == [pc |-> "idle", op |-> "none", tgt |-> None, vol |-> 0]

-----------------------------------------------------------------------------
(* The functions that run under adev->lock, as functions of the device.    *)

(* Mutant: in_call, written last, tested in place of the mode.             *)
SelectOnCallFlag(h) ==
    LET rx == RxDevices(h.mode, h.tty_mode, h.out_device)
        routed == rx \cap RoutedDevices # {}
        m == IF routed THEN set_route_by_array(h.mixer, OutputRoute(rx)) ELSE h.mixer
    IN [h EXCEPT !.downlink = IF routed THEN 0 ELSE @,
                 !.mixer = IF h.in_call THEN set_incall_device(m, h.out_device) ELSE m]

select_output_device(h) ==
    LET rx == RxDevices(h.mode, h.tty_mode, h.out_device)
        routed == rx \cap RoutedDevices # {}
        m == IF routed THEN set_route_by_array(h.mixer, OutputRoute(rx)) ELSE h.mixer
    IN [h EXCEPT !.downlink = IF routed THEN 0 ELSE @,
                 !.mixer = IF h.mode = "IN_CALL" THEN set_incall_device(m, h.out_device)
                           ELSE m]

select_input_device(h) ==
    [h EXCEPT !.mixer = IF h.in_device \in MicDevices
                          THEN set_route_by_array(@, InputRoute(h.in_device)) ELSE @]

do_output_standby(h, o) ==
    IF h.out[o].standby THEN h
    ELSE [h EXCEPT
            !.mixer = IF h.mode # "IN_CALL" /\ h.active_input = None
                        THEN set_route_by_array(@, route_standby) ELSE @,
            !.downlink = IF h.mode # "IN_CALL" /\ h.active_input = None THEN 0 ELSE @,
            !.active_output = None,
            !.out[o] = NewOut]

(* Mutant: the output goes on writing to the reference that is released.   *)
PutKeepsOutput(h, ref) ==
    IF ref = None \/ ref # h.echo_reference THEN h
    ELSE [h EXCEPT !.live = @ \ {ref}, !.echo_reference = None]

(* put_echo_reference frees the device's reference and takes it away from  *)
(* the active output; it does nothing for any other reference.             *)
put_echo_reference(h, ref) ==
    IF ref = None \/ ref # h.echo_reference THEN h
    ELSE [h EXCEPT
            !.live = @ \ {ref},
            !.echo_reference = None,
            !.out = [o \in Outs |->
                       IF o = h.active_output /\ @[o].echo = ref
                         THEN [@[o] EXCEPT !.echo = None] ELSE @[o]]]

(* Mutant: the old reference is overwritten, not released.                 *)
GetWithoutPut(h, i, ref) ==
    IF h.active_output = None \/ ref = None THEN h
    ELSE [h EXCEPT !.live = @ \cup {ref}, !.echo_reference = ref,
                   !.out[h.active_output].echo = ref, !.in[i].echo = ref]

(* The input i gets a new reference in place of the device's old one, none *)
(* when no output is active or ref is None, the failure to create one.     *)
get_echo_reference(h, i, ref) ==
    LET p == put_echo_reference(h, h.echo_reference)
    IN IF h.active_output = None \/ ref = None THEN p
       ELSE [p EXCEPT !.live = @ \cup {ref}, !.echo_reference = ref,
                      !.out[h.active_output].echo = ref, !.in[i].echo = ref]

(* Mutant: the stream is not marked as being in standby.                   *)
StandbyFlagMissing(h, i) ==
    IF h.in[i].standby THEN h
    ELSE [put_echo_reference([h EXCEPT !.in[i].pcm = "null", !.active_input = None],
                             h.in[i].echo)
            EXCEPT !.in[i].echo = None]

do_input_standby(h, i) ==
    IF h.in[i].standby THEN h
    ELSE LET h1 == [h EXCEPT !.in[i].pcm = "null", !.active_input = None]
             h2 == IF h.mode = "IN_CALL" THEN h1
                   ELSE [h1 EXCEPT !.in_device = "NONE",
                           !.mixer = set_route_by_array(@, route_input_standby)]
             h3 == put_echo_reference(h2, h.in[i].echo)
         IN [h3 EXCEPT !.in[i].echo = None, !.in[i].standby = TRUE]

(* Mutant: an output starts without its route.                             *)
PrepareUnrouted(h, o) == [h EXCEPT !.active_output = o]

(* start_output_stream, up to pcm_open and after it.  The playback device  *)
(* is exclusive: it opens when no other stream has it, and may always fail.*)
PrepareOutput(h, o) ==
    LET a == [h EXCEPT !.active_output = o]
    IN IF h.mode # "IN_CALL" THEN select_output_device(a) ELSE a

(* Mutant: an output that restarts does not feed the existing reference.   *)
StartedWithoutEcho(h, o) ==
    [PrepareOutput(h, o) EXCEPT !.out[o].standby = FALSE, !.out[o].pcm = "open"]

OutputStarted(h, o) ==
    LET p == PrepareOutput(h, o)
    IN [p EXCEPT !.out[o] = [standby |-> FALSE, pcm |-> "open",
                             echo |-> IF p.echo_reference # None
                                        THEN p.echo_reference ELSE @.echo]]

(* Mutant: active_output keeps pointing to the stream that did not start.  *)
FailedStaysActive(h, o) == [PrepareOutput(h, o) EXCEPT !.out[o].pcm = "stale"]

OutputFailed(h, o) ==
    [PrepareOutput(h, o) EXCEPT !.active_output = None, !.out[o].pcm = "stale"]

(* start_input_stream: ref is what get_echo_reference gets, if called.     *)
NeedsReference(h, i) == h.in[i].need /\ h.in[i].echo = None

(* Mutant: the microphone selected is the device's last one.               *)
PrepareLastMic(h, i, ref) ==
    LET a == [h EXCEPT !.active_input = i]
        b == IF h.mode # "IN_CALL" THEN select_input_device(a) ELSE a
    IN IF NeedsReference(h, i) THEN get_echo_reference(b, i, ref) ELSE b

PrepareInput(h, i, ref) ==
    LET a == [h EXCEPT !.active_input = i]
        b == IF h.mode # "IN_CALL"
               THEN select_input_device([a EXCEPT !.in_device = h.in[i].device]) ELSE a
    IN IF NeedsReference(h, i) THEN get_echo_reference(b, i, ref) ELSE b

InputStarted(h, i, ref) ==
    [PrepareInput(h, i, ref) EXCEPT !.in[i].pcm = "open", !.in[i].standby = FALSE]

InputFailed(h, i, ref) ==
    [PrepareInput(h, i, ref) EXCEPT !.active_input = None, !.in[i].pcm = "stale"]

OutPcmFree(h, o) == \A p \in Outs \ {o} : h.out[p].pcm # "open"
InPcmFree(h, i) == \A j \in Ins \ {i} : h.in[j].pcm # "open"

(* An input whose microphone may change with the output device.            *)
VoiceInput(h) ==
    h.active_input # None /\ h.in[h.active_input].source = "VOICE_COMMUNICATION"

(* Mutant: speaker is removed even when it is the only device.             *)
CallDevicesEmptied(h) == [h EXCEPT !.out_device = @ \ {"SPEAKER"}]

(* select_mode's choice on entering a call: earpiece for speaker alone.    *)
CallDevices(h) ==
    IF h.out_device = {"SPEAKER"}
      THEN [h EXCEPT !.out_device = {"EARPIECE"}, !.in_device = "BUILTIN_MIC"]
      ELSE [h EXCEPT !.out_device = @ \ {"SPEAKER"}]

-----------------------------------------------------------------------------
(* Locks.  WaitsFor(t) is the set of stream locks the next step of t takes,*)
(* at most one of them not already its own.                                *)
(* A start of an input that fails to create its echo reference is given    *)
(* the wait of one that succeeds.                                          *)

ActiveOutputLock == IF hal.active_output = None THEN {} ELSE {hal.active_output}

(* Mutant: out_standby does not lock its stream.                           *)
WaitsExceptStandby(t) ==
    LET i == th[t].tgt IN
    CASE th[t].pc \in {"write", "route", "read", "force", "in_standby",
                       "in_params", "add_effect", "remove_effect"} -> {i}
      [] th[t].pc = "mode_out" -> ActiveOutputLock
      [] th[t].pc = "mode_in" -> IF hal.active_input = None THEN {} ELSE {hal.active_input}
      [] OTHER -> {}

WaitsFor(t) ==
    LET i == th[t].tgt IN
    CASE th[t].pc \in {"write", "route", "out_standby", "read", "force", "in_standby",
                       "in_params", "add_effect", "remove_effect"} -> {i}
      [] th[t].pc = "mode_out" -> ActiveOutputLock
      [] th[t].pc = "mode_in" -> IF hal.active_input = None THEN {} ELSE {hal.active_input}
      [] th[t].pc = "start_in" -> IF NeedsReference(hal, i) THEN ActiveOutputLock ELSE {}
      [] th[t].pc = "in_stby" ->
           IF /\ ~hal.in[i].standby
              /\ hal.in[i].echo # None /\ hal.in[i].echo = hal.echo_reference
             THEN ActiveOutputLock ELSE {}
      [] OTHER -> {}

At(t, pc) == th[t].pc = pc /\ \A l \in WaitsFor(t) : lock[l] = None

Goto(t, pc) == th' = [th EXCEPT ![t].pc = pc]
Return(t) == th' = [th EXCEPT ![t] = Idle]
ReturnUnlocked(t) == Return(t) /\ hw_lock' = None

-----------------------------------------------------------------------------
(* The framework's calls begin.  It makes no call on a stream it closes.   *)

Call(t, s, pc, op) ==
    /\ th[t] = Idle /\ hw_lock = None
    /\ hw_lock' = t
    /\ th' = [th EXCEPT ![t] = [pc |-> pc, op |-> op, tgt |-> s, vol |-> 0]]
    /\ UNCHANGED <<hal, lock>>

(* Mutant: out_write takes adev->lock only when it has to start the stream.*)
CallOutUnlocked(t, o) ==
    /\ handle[o] = "open"
    /\ \/ \E pc \in {"write", "route", "out_standby"} :
            Call(t, o, pc, "none") /\ UNCHANGED handle
       \/ /\ th[t] = Idle /\ lock[o] = None /\ ~hal.out[o].standby
          /\ lock' = [lock EXCEPT ![o] = t]
          /\ th' = [th EXCEPT ![t].pc = "write_io", ![t].tgt = o]
          /\ UNCHANGED <<hal, handle, hw_lock>>

CallOut(t, o) ==
    /\ handle[o] = "open"
    /\ \E pc \in {"write", "route", "out_standby"} : Call(t, o, pc, "none")
    /\ UNCHANGED handle

CallIn(t, i) ==
    /\ handle[i] = "open"
    /\ \E pc \in {"read", "in_standby", "in_params", "add_effect", "remove_effect"} :
         Call(t, i, pc, "none")
    /\ UNCHANGED handle

adev_open_output_stream(o) ==
    /\ handle[o] = "closed"
    /\ handle' = [handle EXCEPT ![o] = "open"]
    /\ hal' = [hal EXCEPT !.out[o] = NewOut]
    /\ UNCHANGED <<hw_lock, lock, th>>

adev_open_input_stream(i) ==
    /\ handle[i] = "closed"
    /\ handle' = [handle EXCEPT ![i] = "open"]
    /\ \E d \in MicSet : hal' = [hal EXCEPT !.in[i] = NewIn(d)]
    /\ UNCHANGED <<hw_lock, lock, th>>

(* adev_close_*_stream calls *_standby and frees the stream.               *)
Close(t, s, pc) ==
    /\ handle[s] = "open" /\ \A u \in Threads : th[u].tgt # s
    /\ Call(t, s, pc, "close")
    /\ handle' = [handle EXCEPT ![s] = "closing"]

adev_close_output_stream(t, o) == Close(t, o, "out_standby")
adev_close_input_stream(t, i) == Close(t, i, "in_standby")

(* Freed fields have no value; they are given those of a new stream, so    *)
(* that states do not differ by garbage.                                   *)
Free(t) ==
    LET s == th[t].tgt IN
    /\ At(t, "free")
    /\ handle' = [handle EXCEPT ![s] = "closed"]
    /\ hal' = IF s \in Outs THEN [hal EXCEPT !.out[s] = NewOut]
              ELSE [hal EXCEPT !.in[s] = NewIn("BUILTIN_MIC")]
    /\ Return(t)
    /\ UNCHANGED <<hw_lock, lock>>

-----------------------------------------------------------------------------
(* Output streams.                                                         *)

(* out_write takes both locks, starts the stream out of standby and lets   *)
(* adev->lock go.                                                          *)
out_write(t) ==
    LET o == th[t].tgt IN
    /\ At(t, "write") /\ ~hal.out[o].standby
    /\ lock' = [lock EXCEPT ![o] = t] /\ hw_lock' = None
    /\ Goto(t, "write_io")
    /\ UNCHANGED <<hal, handle>>

(* Mutant: an output that starts leaves the input alone.                   *)
StartWithoutForce(t) ==
    LET o == th[t].tgt IN
    /\ At(t, "write") /\ hal.out[o].standby /\ OutPcmFree(hal, o)
    /\ hal' = OutputStarted(hal, o)
    /\ lock' = [lock EXCEPT ![o] = t] /\ hw_lock' = None
    /\ Goto(t, "write_io")
    /\ UNCHANGED handle

start_output_stream(t) ==
    LET o == th[t].tgt IN
    /\ At(t, "write") /\ hal.out[o].standby /\ OutPcmFree(hal, o)
    /\ hal' = OutputStarted(hal, o)
    /\ lock' = [lock EXCEPT ![o] = t] /\ hw_lock' = None
    /\ th' = [th EXCEPT ![t].pc = "write_io",
                        ![t].op = IF VoiceInput(hal) THEN "force" ELSE "none"]
    /\ UNCHANGED handle

start_output_fails(t) ==
    /\ At(t, "write") /\ hal.out[th[t].tgt].standby
    /\ hal' = OutputFailed(hal, th[t].tgt)
    /\ ReturnUnlocked(t)
    /\ UNCHANGED <<handle, lock>>

(* The echo reference and the pcm are written, with the stream lock only.  *)
write_io(t) ==
    /\ At(t, "write_io")
    /\ lock' = [lock EXCEPT ![th[t].tgt] = None]
    /\ IF th[t].op = "force" THEN Goto(t, "write_tail") ELSE Return(t)
    /\ UNCHANGED <<hal, handle, hw_lock>>

(* The decision to put the input in standby is carried out after the write,*)
(* on the input that is active by then.                                    *)
write_tail(t) ==
    /\ At(t, "write_tail") /\ hw_lock = None
    /\ IF hal.active_input = None
         THEN Return(t) /\ UNCHANGED hw_lock
         ELSE /\ hw_lock' = t
              /\ th' = [th EXCEPT ![t] = [Idle EXCEPT !.pc = "force",
                                                      !.tgt = hal.active_input]]
    /\ UNCHANGED <<hal, handle, lock>>

(* Mutant: out->lock is kept while the input is put in standby.            *)
RouteKeepsLock(t, devices) ==
    LET o == th[t].tgt IN
    /\ At(t, "route")
    /\ hal' = select_output_device([do_output_standby(hal, o) EXCEPT !.out_device = devices])
    /\ IF VoiceInput(hal)
         THEN /\ th' = [th EXCEPT ![t].pc = "force", ![t].tgt = hal.active_input]
              /\ lock' = [lock EXCEPT ![o] = t]
              /\ UNCHANGED hw_lock
         ELSE ReturnUnlocked(t) /\ UNCHANGED lock
    /\ UNCHANGED handle

(* AUDIO_PARAMETER_STREAM_ROUTING; the value 0 is ignored.                 *)
out_set_parameters(t, devices) ==
    LET o == th[t].tgt
        active == o = hal.active_output
        h == IF active THEN do_output_standby(hal, o) ELSE hal
    IN
    /\ At(t, "route")
    /\ IF devices = hal.out_device
         THEN ReturnUnlocked(t) /\ UNCHANGED hal
         ELSE /\ hal' = select_output_device([h EXCEPT !.out_device = devices])
              /\ IF active /\ VoiceInput(hal)
                   THEN /\ th' = [th EXCEPT ![t].pc = "force", ![t].tgt = hal.active_input]
                        /\ UNCHANGED hw_lock
                   ELSE ReturnUnlocked(t)
    /\ UNCHANGED <<handle, lock>>

out_standby(t) ==
    /\ At(t, "out_standby")
    /\ hal' = do_output_standby(hal, th[t].tgt)
    /\ hw_lock' = None
    /\ IF th[t].op = "close" THEN Goto(t, "free") ELSE Return(t)
    /\ UNCHANGED <<handle, lock>>

-----------------------------------------------------------------------------
(* Input streams.                                                          *)

in_read(t) ==
    LET i == th[t].tgt IN
    /\ At(t, "read")
    /\ lock' = [lock EXCEPT ![i] = t]
    /\ IF hal.in[i].standby
         THEN Goto(t, "start_in") /\ UNCHANGED hw_lock
         ELSE Goto(t, "read_io") /\ hw_lock' = None
    /\ UNCHANGED <<hal, handle>>

(* What create_echo_reference may return to start_input_stream: an address *)
(* not in use, or None when it fails or is not called.                     *)
NewReferences(i) ==
    IF NeedsReference(hal, i) /\ hal.active_output # None
      THEN (IF TRUE \in RefCreate
              THEN Refs \ put_echo_reference(hal, hal.echo_reference).live ELSE {})
           \cup (IF FALSE \in RefCreate THEN {None} ELSE {})
      ELSE {None}

start_input_stream(t) ==
    LET i == th[t].tgt IN
    /\ At(t, "start_in") /\ InPcmFree(hal, i)
    /\ \E ref \in NewReferences(i) : hal' = InputStarted(hal, i, ref)
    /\ hw_lock' = None /\ Goto(t, "read_io")
    /\ UNCHANGED <<handle, lock>>

start_input_fails(t) ==
    LET i == th[t].tgt IN
    /\ At(t, "start_in")
    /\ \E ref \in NewReferences(i) : hal' = InputFailed(hal, i, ref)
    /\ hw_lock' = None /\ Goto(t, "read_sleep")
    /\ UNCHANGED <<handle, lock>>

(* The capture itself, or the sleep that takes its place after a failure.  *)
read_io(t) ==
    /\ At(t, "read_io") \/ At(t, "read_sleep")
    /\ lock' = [lock EXCEPT ![th[t].tgt] = None]
    /\ Return(t)
    /\ UNCHANGED <<hal, handle, hw_lock>>

(* The callers of do_input_standby reach it with adev->lock and in->lock.  *)
EnterInputStandby(t) ==
    /\ lock' = [lock EXCEPT ![th[t].tgt] = t]
    /\ Goto(t, "in_stby")
    /\ UNCHANGED hw_lock

in_standby(t) ==
    /\ At(t, "in_standby") \/ At(t, "force")
    /\ EnterInputStandby(t)
    /\ UNCHANGED <<hal, handle>>

(* source or device is None when the call does not carry that key.         *)
in_set_parameters(t, source, device) ==
    LET i == th[t].tgt
        same_source == source \in {None, hal.in[i].source}
        same_device == device \in {None, hal.in[i].device}
    IN
    /\ At(t, "in_params")
    /\ hal' = [hal EXCEPT !.in[i].source = IF same_source THEN @ ELSE source,
                          !.in[i].device = IF same_device THEN @ ELSE device]
    /\ IF same_source /\ same_device
         THEN ReturnUnlocked(t) /\ UNCHANGED lock
         ELSE EnterInputStandby(t)
    /\ UNCHANGED handle

in_add_audio_effect(t, effect) ==
    LET i == th[t].tgt IN
    /\ At(t, "add_effect")
    /\ effect \notin hal.in[i].fx /\ Cardinality(hal.in[i].fx) < MAX_PREPROCESSORS
    /\ hal' = [hal EXCEPT !.in[i].fx = @ \cup {effect},
                          !.in[i].need = @ \/ effect = AEC]
    /\ IF effect = AEC THEN EnterInputStandby(t) ELSE ReturnUnlocked(t) /\ UNCHANGED lock
    /\ UNCHANGED handle

(* described: whether the effect's get_descriptor succeeds.                *)
in_remove_audio_effect(t, effect, described) ==
    LET i == th[t].tgt IN
    /\ At(t, "remove_effect")
    /\ effect \in hal.in[i].fx
    /\ hal' = [hal EXCEPT !.in[i].fx = @ \ {effect},
                          !.in[i].need = @ /\ ~(described /\ effect = AEC)]
    /\ IF described /\ effect = AEC
         THEN EnterInputStandby(t) ELSE ReturnUnlocked(t) /\ UNCHANGED lock
    /\ UNCHANGED handle

(* Mutant: the early returns forget adev->lock.                            *)
RefusedLocked(t) ==
    /\ At(t, "add_effect") \/ At(t, "remove_effect")
    /\ Return(t)
    /\ UNCHANGED <<hal, handle, hw_lock, lock>>

(* No room, no descriptor, or an effect that is not there.                 *)
effect_refused(t) ==
    /\ At(t, "add_effect") \/ At(t, "remove_effect")
    /\ ReturnUnlocked(t)
    /\ UNCHANGED <<hal, handle, lock>>

input_standby(t) ==
    LET i == th[t].tgt IN
    /\ At(t, "in_stby")
    /\ hal' = do_input_standby(hal, i)
    /\ lock' = [lock EXCEPT ![i] = None]
    /\ CASE th[t].op = "mode" -> UNCHANGED hw_lock /\ th' = [th EXCEPT ![t].pc = "mode_select",
                                                                       ![t].tgt = None]
         [] th[t].op = "close" -> hw_lock' = None /\ Goto(t, "free")
         [] OTHER -> ReturnUnlocked(t)
    /\ UNCHANGED handle

-----------------------------------------------------------------------------
(* The device: mode, TTY mode and voice volume.                            *)

(* select_mode has work to do when the new mode crosses the call boundary. *)
CrossesCall(h, mode) == (mode = "IN_CALL") # h.in_call

adev_set_mode(t, mode) ==
    /\ th[t] = Idle /\ hw_lock = None
    /\ mode # hal.mode
    /\ hal' = [hal EXCEPT !.mode = mode, !.in_call = @ /\ mode = "IN_CALL"]
    /\ IF CrossesCall(hal, mode)
         THEN /\ hw_lock' = t
              /\ th' = [th EXCEPT ![t].pc = "mode_out", ![t].op = "mode"]
         ELSE UNCHANGED <<hw_lock, th>>
    /\ UNCHANGED <<handle, lock>>

(* Mutant: adev->lock is given back between the two streams.               *)
ReleasedBetween(t) ==
    /\ At(t, "mode_out")
    /\ hal' = IF hal.active_output = None THEN hal
              ELSE do_output_standby(hal, hal.active_output)
    /\ hw_lock' = None
    /\ Goto(t, "mode_in")
    /\ UNCHANGED <<handle, lock>>

(* force_all_standby: the active output, then the active input.            *)
force_output_standby(t) ==
    /\ At(t, "mode_out")
    /\ hal' = IF hal.active_output = None THEN hal
              ELSE do_output_standby(hal, hal.active_output)
    /\ Goto(t, "mode_in")
    /\ UNCHANGED <<handle, hw_lock, lock>>

(* Mutant: the active input runs on into the call.                         *)
ForceOutputOnly(t) ==
    /\ At(t, "mode_in")
    /\ Goto(t, "mode_select")
    /\ UNCHANGED <<hal, handle, hw_lock, lock>>

force_input_standby(t) ==
    /\ At(t, "mode_in")
    /\ IF hal.active_input = None
         THEN Goto(t, "mode_select") /\ UNCHANGED lock
         ELSE /\ lock' = [lock EXCEPT ![hal.active_input] = t]
              /\ th' = [th EXCEPT ![t].pc = "in_stby", ![t].tgt = hal.active_input]
    /\ UNCHANGED <<hal, handle, hw_lock>>

(* Entering a call also sets the voice volume, with the volume read here;  *)
(* in_call is written last, when the lock is released.                     *)
select_mode(t) ==
    /\ At(t, "mode_select")
    /\ IF hal.mode = "IN_CALL"
         THEN /\ hal' = select_output_device(CallDevices(hal))
              /\ th' = [th EXCEPT ![t].pc = "volume_store", ![t].vol = hal.voice_volume]
              /\ UNCHANGED hw_lock
         ELSE /\ hal' = select_input_device(select_output_device(hal))
              /\ ReturnUnlocked(t)
    /\ UNCHANGED <<handle, lock>>

(* adev_set_voice_volume takes no lock: it stores the volume, then writes  *)
(* the control; other threads run in between.                              *)
adev_set_voice_volume(t, volume) ==
    /\ th[t] = Idle
    /\ hal' = [hal EXCEPT !.voice_volume = volume]
    /\ th' = [th EXCEPT ![t].pc = "volume_ctl", ![t].vol = volume]
    /\ UNCHANGED <<handle, hw_lock, lock>>

store_voice_volume(t) ==
    /\ At(t, "volume_store")
    /\ hal' = [hal EXCEPT !.voice_volume = th[t].vol]
    /\ Goto(t, "volume_ctl")
    /\ UNCHANGED <<handle, hw_lock, lock>>

write_voice_volume(t) ==
    /\ At(t, "volume_ctl")
    /\ hal' = [hal EXCEPT !.downlink = VoiceVolumeCtl(th[t].vol),
                          !.in_call = @ \/ th[t].op = "mode"]
    /\ Return(t)
    /\ hw_lock' = IF th[t].op = "mode" THEN None ELSE hw_lock
    /\ UNCHANGED <<handle, lock>>

(* AUDIO_PARAMETER_KEY_TTY_MODE *)
adev_set_parameters(t, tty_mode) ==
    /\ th[t] = Idle /\ hw_lock = None
    /\ tty_mode # hal.tty_mode
    /\ LET h == [hal EXCEPT !.tty_mode = tty_mode] IN
         hal' = IF h.mode = "IN_CALL" THEN select_output_device(h) ELSE h
    /\ UNCHANGED <<handle, hw_lock, lock, th>>

-----------------------------------------------------------------------------
(* adev_open writes the speaker table and selects the speaker.             *)
adev_open ==
    [mode |-> "NORMAL", out_device |-> {"SPEAKER"}, in_device |-> "BUILTIN_MIC",
     in_call |-> FALSE, voice_volume |-> 100, tty_mode |-> "OFF",
     active_output |-> None, active_input |-> None,
     echo_reference |-> None, live |-> {},
     mixer |-> set_route_by_array(BootMixer, route_speaker), downlink |-> 0,
     out |-> [o \in Outs |-> NewOut], in |-> [i \in Ins |-> NewIn("BUILTIN_MIC")]]

Init ==
    /\ hal = select_output_device(adev_open)
    /\ handle = [s \in Streams |-> "closed"]
    /\ hw_lock = None
    /\ lock = [s \in Streams |-> None]
    /\ th = [t \in Threads |-> Idle]

(* A call a thread is in, step by step.                                    *)
Continue(t) ==
    \/ out_write(t) \/ start_output_stream(t) \/ start_output_fails(t)
    \/ write_io(t) \/ write_tail(t)
    \/ \E devices \in RouteSets : out_set_parameters(t, devices)
    \/ out_standby(t)
    \/ in_read(t) \/ start_input_stream(t) \/ start_input_fails(t) \/ read_io(t)
    \/ in_standby(t) \/ input_standby(t)
    \/ \E source \in Sources \cup {None}, device \in MicSet \cup {None} :
         in_set_parameters(t, source, device)
    \/ \E effect \in Effects : in_add_audio_effect(t, effect)
    \/ \E effect \in Effects, described \in BOOLEAN :
         in_remove_audio_effect(t, effect, described)
    \/ effect_refused(t)
    \/ force_output_standby(t) \/ force_input_standby(t) \/ select_mode(t)
    \/ store_voice_volume(t) \/ write_voice_volume(t)
    \/ Free(t)

(* A call that begins.                                                     *)
Begin(t) ==
    \/ \E o \in Outs : CallOut(t, o) \/ adev_close_output_stream(t, o)
    \/ \E i \in Ins : CallIn(t, i) \/ adev_close_input_stream(t, i)
    \/ \E mode \in ModeSet : adev_set_mode(t, mode)
    \/ \E volume \in Volumes : adev_set_voice_volume(t, volume)
    \/ \E tty_mode \in TtySet : adev_set_parameters(t, tty_mode)

Next ==
    \/ \E t \in Threads : Begin(t) \/ Continue(t)
    \/ \E o \in Outs : adev_open_output_stream(o)
    \/ \E i \in Ins : adev_open_input_stream(i)

Spec == Init /\ [][Next]_vars

(* Every call a thread is in goes on: the scheduler runs the thread and    *)
(* the driver completes its writes and reads.  Nobody has to call.         *)
FairSpec == Spec /\ \A t \in Threads : WF_vars(Continue(t))
-----------------------------------------------------------------------------
(* Correctness.                                                            *)

TypeOK ==
    /\ hal \in HalState
    /\ handle \in [Streams -> {"closed", "open", "closing"}]
    /\ hw_lock \in Threads \cup {None}
    /\ lock \in [Streams -> Threads \cup {None}]
    /\ th \in [Threads -> ThreadState]

(* A thread that is transferring samples (write_io, read_io) has the lock  *)
(* of its stream, and that stream is out of standby with its pcm open: no  *)
(* standby, route change, mode change or close gets between the start of a *)
(* stream and its I/O, which run without adev->lock.                       *)
PcmSafe ==
    \A t \in Threads :
      /\ th[t].pc = "write_io" =>
           LET o == th[t].tgt IN
           lock[o] = t /\ ~hal.out[o].standby /\ hal.out[o].pcm = "open"
      /\ th[t].pc = "read_io" =>
           LET i == th[t].tgt IN
           lock[i] = t /\ ~hal.in[i].standby /\ hal.in[i].pcm = "open"

(* With adev->lock free, active_output and active_input point to streams   *)
(* the framework still has open and that are running: they never dangle,   *)
(* whatever the number of streams.                                         *)
ActiveLive ==
    hw_lock = None =>
      /\ hal.active_output # None =>
           handle[hal.active_output] = "open" /\ ~hal.out[hal.active_output].standby
      /\ hal.active_input # None =>
           handle[hal.active_input] = "open" /\ ~hal.in[hal.active_input].standby

(* The order of the NOTE on mutexes: hw device > in stream > out stream.   *)
(* A thread only waits for a lock that comes after every lock it has.      *)
Rank(l) == IF l \in Ins THEN 1 ELSE 2

LockOrder ==
    \A t \in Threads : \A l \in WaitsFor(t) :
      /\ hw_lock = t
      /\ \A s \in Streams : lock[s] = t => Rank(s) < Rank(l)

(* Nobody waits for ever on somebody who waits: a thread waits for the     *)
(* owner of a stream's lock, or, to put an input in standby after a write, *)
(* for the owner of adev->lock, and of two waits in a row the second is    *)
(* for a thread in a transfer, which waits for no lock.                    *)
Awaits(t) ==
    {u \in Threads : \/ \E l \in WaitsFor(t) : lock[l] = u
                     \/ th[t].pc = "write_tail" /\ hw_lock = u}

WaitsEnd ==
    \A t \in Threads : \A u \in Awaits(t) : \A v \in Awaits(u) :
      th[v].pc \in {"write_io", "read_io", "read_sleep"} /\ Awaits(v) = {}

(* A reference used by the device or by a stream outside standby has not   *)
(* been released: neither out_write nor in_read follows a dangling pointer,*)
(* though references are released under locks the other stream may not hold.*)
EchoRefsLive ==
    LET Used(s) == s.standby \/ s.echo \in hal.live \cup {None} IN
    /\ hal.echo_reference \in hal.live \cup {None}
    /\ \A o \in Outs : Used(hal.out[o])
    /\ \A i \in Ins : Used(hal.in[i])

(* Every reference ever created is released or is the device's: none leaks.*)
NoEchoLeak == hal.live \subseteq {hal.echo_reference}

(* Outside adev->lock, the running output writes the device's reference    *)
(* and an input that has one reads the same: the canceller of the input is *)
(* fed by what is being played.                                            *)
EchoPaired ==
    hw_lock = None =>
      /\ hal.active_output # None =>
           hal.out[hal.active_output].echo = hal.echo_reference
      /\ \A i \in Ins : hal.in[i].echo \in {None, hal.echo_reference}

(* A voice communication input that runs beside an output without the      *)
(* reference it needs is about to be restarted: a thread that started the  *)
(* output still has to put the active input in standby.                    *)
EchoPending ==
    LET i == hal.active_input IN
    hw_lock = None /\ hal.active_output # None /\ VoiceInput(hal) /\ NeedsReference(hal, i) =>
      \E t \in Threads : th[t].op = "force" \/ th[t].pc = "write_tail"

(* in_call agrees with the mode whenever adev->lock is free.               *)
CallFlag == hw_lock = None => (hal.in_call <=> hal.mode = "IN_CALL")

(* set_mode returns from crossing the call boundary with every stream in   *)
(* standby: no PCM opened before a call is used in it, nor after it.       *)
CallBoundary ==
    [][\A t \in Threads :
         th[t].op = "mode" /\ th'[t].pc = "idle" =>
           /\ \A o \in Outs : hal'.out[o].standby
           /\ \A i \in Ins : hal'.in[i].standby]_vars

(* During a call the modem's downlink feeds the transducer of the device   *)
(* the policy selected last, however routes, TTY changes, standbys and     *)
(* starts of streams came about.                                           *)
InCallVoicePath ==
    hw_lock = None /\ hal.mode = "IN_CALL" /\ hal.out_device \cap IncallDevices # {} =>
      \A c \in {"Voice", "ExtAmp"} : hal.mixer[c] = IncallRoute(hal.out_device)[c]

(* Outside calls, an output that runs is heard on the selected devices.    *)
OutputRouted ==
    hw_lock = None /\ hal.mode # "IN_CALL" /\ hal.active_output # None
        /\ hal.out_device \cap RoutedDevices # {} =>
      \A c \in OutControls : hal.mixer[c] = OutputRoute(hal.out_device)[c]

(* Outside calls, an input that runs hears the microphone it was routed to.*)
InputRouted ==
    LET i == hal.active_input IN
    hw_lock = None /\ hal.mode # "IN_CALL" /\ i # None =>
      /\ hal.in_device = hal.in[i].device
      /\ hal.in_device \in MicDevices =>
           \A c \in {"LeftMic", "Capture"} : hal.mixer[c] = InputRoute(hal.in_device)[c]

(* adev->lock is always given back, though its owner waits for streams that*)
(* are being written and read all the time (the comments in out_write and  *)
(* in_read on acquiring the hw device mutex systematically).               *)
HwReleased == \A t \in Threads : hw_lock = t ~> hw_lock # t

StandingBy(s) == IF s \in Outs THEN hal.out[s].standby ELSE hal.in[s].standby

(* The discipline all the calls keep together, one conjunct per resource.  *)
OutPcs == {"write", "write_io", "write_tail", "route", "out_standby"}
InPcs == {"read", "start_in", "read_io", "read_sleep", "force", "in_standby",
          "in_params", "add_effect", "remove_effect", "in_stby"}
ModePcs == {"mode_out", "mode_in", "mode_select", "volume_store"}

(* x is the state of a thread.                                             *)
OwnsHw(x) ==
    \/ x.pc \in ModePcs \cup {"write", "route", "out_standby", "read", "start_in", "force",
                             "in_standby", "in_params", "add_effect", "remove_effect",
                             "in_stby"}
    \/ x.pc = "volume_ctl" /\ x.op = "mode"
OwnsStream(x, s) ==
    x.tgt = s /\ x.pc \in {"write_io", "read_io", "read_sleep", "start_in", "in_stby"}

WellFormed(x) ==
    /\ x.pc \in OutPcs => x.tgt \in Outs
    /\ x.pc \in InPcs => x.tgt \in Ins
    /\ x.pc = "free" => x.tgt \in Streams /\ x.op = "close"
    /\ x.pc \in ModePcs => x.op = "mode"
    /\ x.op = "mode" => x.pc \in ModePcs \cup {"in_stby", "volume_ctl"}
    /\ x.op = "close" => x.pc \in {"out_standby", "in_standby", "in_stby", "free"}

(* Each lock is held by the thread whose place in its call says so.        *)
LocksHeld ==
    \A t \in Threads :
      /\ WellFormed(th[t])
      /\ hw_lock = t <=> OwnsHw(th[t])
      /\ \A s \in Streams : lock[s] = t <=> OwnsStream(th[t], s)

(* A stream that is written or read is open, one that is being closed has  *)
(* one closer and cannot be opened again before it is freed.               *)
HandlesKept ==
    \A t \in Threads :
      /\ th[t].pc \in {"write", "write_io", "write_tail", "read", "start_in", "read_io",
                        "read_sleep"} => handle[th[t].tgt] = "open"
      /\ th[t].op = "close" =>
           /\ handle[th[t].tgt] = "closing"
           /\ \A u \in Threads \ {t} : th[u].op = "close" => th[u].tgt # th[t].tgt

(* A call that ends or begins has in_call clear until its last step.       *)
CallKept ==
    /\ \A t \in Threads : th[t].op = "mode" =>
         /\ ~hal.in_call
         /\ th[t].pc \in {"volume_store", "volume_ctl"} => hal.mode = "IN_CALL"
    /\ (\A t \in Threads : th[t].op # "mode") => (hal.in_call <=> hal.mode = "IN_CALL")

(* A stream outside standby has its pcm open; one that is about to start,  *)
(* or to be freed, is in standby.                                          *)
PcmKept ==
    /\ \A o \in Outs : ~hal.out[o].standby => hal.out[o].pcm = "open"
    /\ \A i \in Ins : ~hal.in[i].standby => hal.in[i].pcm = "open"
    /\ \A t \in Threads :
         /\ th[t].pc = "start_in" => hal.in[th[t].tgt].standby
         /\ th[t].pc = "free" => StandingBy(th[t].tgt)

HalInvariant == LocksHeld /\ HandlesKept /\ PcmKept /\ PcmSafe /\ CallKept

(* The phase of each stream, in the terms of PcmStreams.                   *)
Transferring(s) ==
    \E t \in Threads : th[t].tgt = s /\ th[t].pc \in {"write_io", "read_io"}

Phase(s) ==
    IF handle[s] = "closed" THEN "closed"
    ELSE IF StandingBy(s) THEN "standby"
    ELSE IF Transferring(s) THEN "transfer" ELSE "running"

Pcm == INSTANCE PcmStreams WITH phase <- [s \in Streams |-> Phase(s)]

(* The HAL implements PcmStreams: under every interleaving of its calls a  *)
(* stream goes to standby or is freed between transfers only, and never    *)
(* while a stream of the same direction starts.                            *)
StreamsImplemented == Pcm!Spec

-----------------------------------------------------------------------------
(* The device in the terms of AtomicHal, where a call that owns adev->lock *)
(* takes effect when it decides what it will do: what Owner has left to do *)
(* counts as done.  h is a device, x the state of its owner.               *)
Owner == IF hw_lock = None THEN Idle ELSE th[hw_lock]

(* The streams x has left to put in standby, and what no longer runs then. *)
Leaving(h, x) ==
    CASE x.pc = "mode_out" -> {h.active_output, h.active_input}
      [] x.pc = "mode_in" -> {h.active_input}
      [] x.pc \in {"force", "in_stby"} -> {x.tgt}
      [] OTHER -> {}

Running(h) == {o \in Outs : ~h.out[o].standby} \cup {i \in Ins : ~h.in[i].standby}
Ending(h, x, S) == Leaving(h, x) \cap Running(h) \cap S # {}

(* The device with those of a call selected, if that is left to do.        *)
Selected(h, x) ==
    IF /\ h.mode = "IN_CALL" /\ x.op = "mode"
       /\ x.pc \in {"mode_out", "mode_in", "in_stby", "mode_select"}
      THEN CallDevices(h) ELSE h

OutDevice(h, x) == Selected(h, x).out_device
InDevice(h, x) ==
    IF h.mode # "IN_CALL" /\ Ending(h, x, Ins) THEN "NONE" ELSE Selected(h, x).in_device
ActiveOut(h, x) == IF Ending(h, x, Outs) THEN None ELSE h.active_output
ActiveIn(h, x) == IF Ending(h, x, Ins) THEN None ELSE h.active_input
Remaining(h, x) == Running(h) \ Leaving(h, x)

Atomic == INSTANCE AtomicHal WITH
    mode <- hal.mode,
    out_device <- OutDevice(hal, Owner),
    in_device <- InDevice(hal, Owner),
    active_output <- ActiveOut(hal, Owner),
    active_input <- ActiveIn(hal, Owner),
    running <- Remaining(hal, Owner)

(* The calls of the HAL are atomic: however those of several threads are   *)
(* interleaved, and though a change of mode or of route lets go of streams *)
(* one by one, the mode, the devices, and the active and running streams   *)
(* change as if each call were one step.                                   *)
CallsAtomic == Atomic!Spec
=============================================================================
