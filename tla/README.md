# Verification of the P970 device tree

This directory holds TLA+ models of the code that the LG P970 (Optimus Black)
device tree ships, the TLC configurations that check them, and theorems about
them that TLAPS proves. `PROJECT.json` lists the runs, the mutants, the hazards
and, per definition, the lines of the source it models. File names below are
relative to `src/`.

## Inventory

Most of the tree is configuration. The code with state and behaviour is:

| part | file | state | operations | interacts with |
|---|---|---|---|---|
| audio HAL: device, streams, locks | `audio/audio_hw.c` | `omap_audio_device` (mode, devices, active streams, echo reference, call flag), the output and input streams, one mutex each, the ALSA mixer | open/close/write/read/standby/set_parameters of streams, effects, set_mode, set_voice_volume, TTY | called by several threads of the media server; kernel PCM and mixer; effects |
| audio HAL: capture pipeline | same | driver buffer, resampler, proc_buf and ref_buf of an input, the echo delay | read_frames, process_frames, get_next_buffer, push_echo_reference | one call of in_read, under in->lock; resampler, effects and echo reference |
| lights HAL | `liblights/lights.c` | four nodes of the LED, panel and key drivers, no lock | set_light of backlight, buttons, notifications; LED patterns | threads of the framework, which serialises the calls for one light |
| recovery graphics | `recovery/graphics.c` | two frame buffers, the draw surface, the console's mode | gr_init, drawing, gr_flip, gr_exit | the recovery, one call at a time; display driver |
| telephony RIL | `ril/telephony/.../LGEInfineon.java` | mCallState | call state notifications, hangup of a waiting call | phone process, modem |
| USB triggers | `rootdir/etc/init.black.usb.rc` | nodes of the gadget, adbd, sys.usb.state | one trigger per value of sys.usb.config | init's queue; the framework waits for the state |
| Wi-Fi MAC | `wifi/wifimac/getmac.c`, `wlan-precheck` | one file | check, read, fall back, write | once per boot; NVRAM, file system |
| baseband version | `bbversion/cpversion.c` | a buffer, a property | write, read, parse | once per boot; modem |
| vsnet scripts | `prebuilt/bin/init.vsnet`, `init.vsnet-down` | interface and properties | up, down | started by the RIL through init |
| pseudo recovery, vibrator | `prb/prb.c`, `vibrator.c` | none | one call | - |
| headers, key maps, overlays, makefiles | the rest | none | - | - |

What is hard in each, and what makes it correct:

* **Audio HAL.** Every call takes the device's mutex, then the stream's, and
  `out_write` and `in_read` give the first one back before they transfer. While
  a transfer runs, other threads route, change the mode, add effects, put
  streams in standby or close them. Correct means: a transfer only touches an
  open PCM; the pointers `active_output`, `active_input` and `echo_reference`
  (in three places) never dangle; the lock order of the NOTE is kept; a call
  starts and ends with every stream in standby; the mixer's path is the one
  selected; and the device's mutex is always given back.
* **Capture pipeline.** Four buffers are shifted and refilled by lengths
  computed from each other, reads fail in the middle, and effects and echo
  reference take what they like. Correct means: no frame is lost, repeated or
  put past a buffer, the canceller gets as much reference as microphone and the
  delay between them, and a read returns.
* **Lights.** Two lights share the LED's brightness, each handler writes two
  nodes and ignores errors, and a pattern is put together by integer divisions.
  Correct means that the nodes show the state last asked for and that the
  controller knows the pattern.
* **Recovery graphics.** Draw and display buffers alternate; gr_init has five
  ways to fail. Correct means: never copy into the displayed buffer, show what
  was drawn, give the console back.
* **RIL.** Notifications lag behind the calls. Correct means that the state is
  the highest one since idle and that a rejected call is the one that waits.
* **USB.** Triggers queue, each is a list of commands, and a property is expanded
  when its command runs. Correct means that the gadget ends in the configuration
  asked for last, and that the framework is told so.
* **Wi-Fi MAC.** The file is emptied before the address is known, power may go at
  any time, errors are ignored. Correct means that a device keeps its address.
* **Baseband version.** Two loops over an answer of unknown length. Correct means
  that they stay in the buffer and find the second line.

The hazards are listed with their lines in `PROJECT.json`.

## Modules

    AudioRoutes   the route tables and the functions that choose among them
        |
    AudioHal ---- INSTANCE ---- PcmStreams   the abstract life of a stream
        |    \--- INSTANCE ---- AtomicHal    the HAL with calls of one step
        |    \
        |     AudioHalProofs                 operators, invariant, locks, PCMs (TLAPS)
        |        |
        |     AudioStreamProofs              active streams, refinement, echo references,
        |                                    routes, calls (TLAPS)
        |
    MCAudioHal    values of the constants, and the statements that fail

    CaptureFrames ---- MCCaptureFrames       frames of one input stream
        |
    CaptureProofs                            its sizes and its order of frames (TLAPS)

    LedPattern    colors, waves and patterns of the LED
        |
    Lights -------------------- LightsProofs
    RecoveryGraphics ---------- GraphicsProofs
    CpVersion ----------------- CpVersionProofs
    WifiMac, UsbConfig, RilCallState --- ServiceProofs
        |
    Device        one of these six programs runs (INSTANCEs of the four modules of proofs)
        |    \
        |     DeviceProofs                   its type and invariants (TLAPS)
        |
    MCDevice      values of the constants

**AudioRoutes** keeps seven abstract controls of the mixer. A table of
`audio_hw.c` is a record of the controls it sets. Left out are controls that
all tables set alike and the analog DAC gain. A volume and its two mixer
switches, which the tables only ever set together, are one control. The downlink
volume is a number: `hal.downlink`.

**AudioHal** is the audio HAL. Its variables:

| variable | code |
|---|---|
| `hal` | the fields of `omap_audio_device` and of its streams (`hal.out[o]`, `hal.in[i]`), the mixer, and `live`, the echo references allocated and not released |
| `handle` | whether the framework has the stream closed, open, or is closing it |
| `hw_lock` | who owns `adev->lock` |
| `lock` | who owns `out->lock`, `in->lock` |
| `th` | per thread, where in which call it is |

The functions that run under the lock (`select_output_device`,
`do_output_standby`, `put_echo_reference`, ...) are operators from one value of
`hal` to the next, with their source names. The actions are the stretches of a
call between two lock operations that may block:

| call | actions |
|---|---|
| out_write | CallOut; out_write, start_output_stream or start_output_fails; write_io; write_tail; in_standby and input_standby if the input is to restart |
| out_set_parameters | CallOut; out_set_parameters; in_standby, input_standby |
| out_standby, close | CallOut or adev_close_output_stream; out_standby; Free |
| in_read | CallIn; in_read; start_input_stream or start_input_fails; read_io |
| in_standby, in_set_parameters, effects, close | CallIn or adev_close_input_stream; the call's action; input_standby; Free |
| set_mode | adev_set_mode; force_output_standby; force_input_standby; input_standby; select_mode; store_voice_volume; write_voice_volume |
| set_voice_volume | adev_set_voice_volume; write_voice_volume |
| TTY | adev_set_parameters |

While `adev->lock` is held no other thread can take a stream's lock (only
`write_io`, `read_io` and the sleep of a failed read hold one without it). So a
stream lock taken and released inside a step is never seen held: it is the
step's guard (`WaitsFor`), and the steps that must wait for a second lock with a
first one in hand (`start_in`, `in_stby`, the standby of the active streams in
set_mode) are separate steps. `adev_set_voice_volume` takes no lock and is two
steps for that reason. The write after the lock is given back (echo reference
and PCM) is one step, `write_io`; its begin and end are the steps before and
after it.

**PcmStreams** is what a stream looks like to its PCM: closed, in standby,
running or transferring; it is stopped and closed between transfers only, and
started only if no other stream of its direction runs. `StreamsImplemented`
states that AudioHal implements it, with `Phase` as the refinement mapping.

**AtomicHal** is the HAL without locks and threads: the mode, the two devices, the
active streams and the set of those that run. A standby, a start (of a stream whose
direction is free), a start that fails, a route and a change of mode are one step
each; what a route or a change of mode stops, stops in that step. It says nothing of
PCMs, samples, the mixer and the echo reference, and not how a route decides
whether the input restarts, nor which microphone is selected. `CallsAtomic` states
that AudioHal implements it. The mapping shows the device as it will be when the
owner of `adev->lock` has put in standby the streams it has left (`Leaving`) and
selected a call's devices (`Selected`); with the lock free it shows `hal` itself.

**CaptureFrames** follows the frames of one input stream through `in_read`. A
frame is its capture number and a buffer is a sequence of numbers, so that a
lost, repeated or reordered frame shows; the frames of the echo reference are
counted (`ref`), and `skew` is how many more of them than of the microphone the
effects had. `buf` is `in->buffer` (its length is `frames_in`), `rs` the
resampler's remainder, `proc` is `proc_buf` (`proc_frames_in`), `proc_size` and
`ref_size` the allocated sizes, `out` the caller's buffer, `asked` the delay that
get_capture_delay hands to the echo reference's read. One action is one turn
of a loop: `Begin` (start of a read, with start_input_stream out of standby),
`DirectRead` (no effects, no resampler), `ReadMore` and `FetchMore` (a turn of
read_frames with get_next_buffer and release_buffer, into the caller's buffer or
to the end of proc_buf), `Reload` (the first half of a turn of process_frames),
`Push` (push_echo_reference), `Process`, `Return`, `Fail`; and the errors
`StartFails`, `ReadFails`. AudioHal has the locks and routes around a read and no
frames, CaptureFrames the frames and no locks: they meet in the start of an
input, its standby, and the effects that come and go, and all of these need
in->lock, which a read has from its first to its last step.

**Lights** has one action per write to a node; a call is two of them, and calls
for different lights interleave. A write may fail, and the handler goes on.
**LedPattern** is the arithmetic of lights.c (rgb_to_brightness, colors to
percentages, times to cycle and wave, the fields of the pattern) as operators
over the values C computes.

**RecoveryGraphics** counts drawing calls: a picture is the number of calls it
shows, and each frame buffer has an upper and a lower half, so that a copy into
a displayed buffer shows as a torn picture. gr_init is a step per system call
that may fail, gr_flip four (the swap of gr_active_fb, the copy in two halves,
the ioctl). gr_exit frees the surface and keeps its address, so a gr_init that fails
after an earlier gr_exit frees it again; that is undefined, and the model has both
outcomes: the program ends there ("aborted") or gr_exit goes on. Characters of a text are signed and turn into glyphs by unsigned
arithmetic; gr_text_impl's rectangles are kept with their texture origin.

**WifiMac** has `file`, what programs see, and `disk`, what a loss of power
leaves. **CpVersion** is main after the answer of the modem, one character per
step, over a buffer with garbage. **UsbConfig** is init's queue: a change of the
property queues the block of commands of one trigger, and `$sys.usb.config` is
expanded when its command runs. **RilCallState** has the calls of the phone, the
queue of state changes not yet told, and mCallState.

**Device** puts these six programs together. They share no state and
never call each other, so their product would only multiply states: `Init`
picks one program and the constants for it, its variables move, and those of the
others are "unused". `power` and `nvram`, `flip` and `text`, `nodes` and `pattern`
are the same module with other constants, each with the faults and inputs for one
question. WifiMac, RecoveryGraphics, Lights and CpVersion state what they assume
of their constants as definitions, which the theorems about them have as hypotheses;
Device ASSUMEs them of its own constants (`WifiAssumption`, `DisplayAssumption`,
`LedAssumption`, `ModemAssumption`), and **MCDevice** gives those their values.

### What is external

* Audio: `pcm_open` fails at any time and always fails when another stream of the
  direction has the device open: OMAP's playback and capture devices are
  exclusive. `create_echo_reference` returns an unused address or fails.
  `get_descriptor` may fail. The framework opens and closes streams and makes no
  call on a stream it closes; it does not otherwise serialise calls, and several
  threads may be in the same stream. The policy manager selects from the sets in
  the constants. All names of the tables are assumed to exist as mixer controls.
* Capture: the driver gives frames or an error. A resampler of integer ratio makes
  one frame of `ratio` frames and keeps the rest. The echo reference gives any
  part of what is missing, or its read fails and it gives none. pcm_get_htimestamp
  fails (no delay is measured and the read goes on) or tells any number of frames, up
  to the bound `kernel`, that the driver has captured and not given yet. The reference
  may answer its read with another delay than it was asked with, and what it answers
  is what the effects are told; that value is not in the model. The effects consume any part of what they are given,
  in order, produce at most what they were asked for and hold back at most `hold`
  frames; process_reverse takes any part of the reference.
* Wi-Fi: fopen empties the file, fclose writes it in one piece, the kernel writes
  back when it likes. `rand` is never seeded, so it gives the same number in each
  run of wifimac.
* Display: an FBIOPUT that succeeds shows the buffer. Modem: any answer, any
  length, or an error. init runs one command at a time. The framework changes
  sys.usb.config again at the earliest when init has started on the last change;
  one call rings at a time, and none is dialled meanwhile.

### What the models leave out

* Audio: `mic_mute` (one field that `in_read` reads without a lock to clear the
  buffer: no frame, lock or route depends on it) and `bluetooth_nrec` (written,
  never read); `in_fm_routing`, which nothing calls; the output resampler, never
  used because both rates are 48000; the stereo remix, never set up because
  `input_requires_stereo` is 0; out_write's wait for the kernel buffer to drain,
  whose threshold is the whole buffer, so that it never waits; opens that fail
  (bad parameters, no memory), which change nothing; sample rates, also the one
  chosen for SCO, which is the same 48000. The dock headsets are no output devices
  of the models: start_output_stream opens another sound card for them, and an
  output on that card would not compete with one on the first (`pcm_open` would not
  fail), so nothing is claimed of streams on a dock.
  `start_input_stream` waits in the model for the active output's lock also when
  the creation of the echo reference fails; the code then goes on at once, so
  the step is only delayed.
* Lights: open_lights and close_lights, which pick and free a handler.
* Recovery: decoding of the font (the data is not in the tree), getters, and
  gr_fb_blank, whose body is compiled out.
* Wi-Fi and baseband: log output, terminal settings, the wait of a second.
* USB: vendor id and nodes that are written once at boot.

## Runs

Bounds are the numbers of streams, threads, echo references and the sets of
devices for AudioHal, which needs no counter; `maxframe` and `maxskew` of a
setup, and `kernel`, in CaptureFrames; MaxDraw, MaxCalls, MaxBoots, MaxChanges and Size in the
programs.

| run | instance | shows |
|---|---|---|
| streams | 1 output, 1 input, 3 threads, AEC and NS, two sources, 2 routes, calls | TypeOK, EchoRefsLive, EchoPaired, EchoPending, CallBoundary, CallsAtomic |
| outputs | 2 outputs, 1 input with an AEC, 2 threads, calls | PcmSafe, ActiveLive, HalInvariant, StreamsImplemented |
| inputs | 1 output, 2 inputs with an AEC each, 2 threads | LockOrder, NoEchoLeak |
| routing | 7 routes, 4 TTY modes, 2 microphones, 2 threads, calls | OutputRouted, InputRouted, InCallVoicePath |
| live | 2 threads under fairness, creation of references may fail | HwReleased |
| capture | five kinds of stream (below) | BuffersFit, FramesInOrder, NoFrameLost, LockStepAligned, DelayIsAge, ReadReturns |
| programs | the programs of Device | TypeOK; MacKept, MacOfDevice, ConfigWritten (Wi-Fi); NoTearing, FlipShows, ClosedClean, TextShowsGlyphs (recovery); NodesSettled, PatternKnown, TimedBlinks (lights); InBounds, VersionIsSecondLine (baseband); GadgetSettled, StateFollows (USB); HighestKept, WaitingRejected (RIL) |
| tty, volume, earpiece, capture_skew, wifi_multicast | smallest instances | the five findings below |

Why the bounds are enough.

* AudioHal: every race is between the holder of `adev->lock` and threads that
  transfer, one per direction: two threads already make each pair, and the third
  thread of `streams` adds the volume call, or a call that waits, to a pair. Two
  echo references make it possible to reuse the address of one that was
  released. Two outputs (or two inputs) are enough for a stream that competes
  with the active one. Routing is a function of the last tables written, so all
  routes and modes reach every sequence of tables, and two threads interleave
  them with streams that run.
* CaptureFrames: driver periods of 2 and 3 frames and requests of 1 to 3 make
  requests smaller than, equal to and larger than a period, and a ratio of 2
  leaves an odd frame in the resampler; `maxframe` is three periods, enough for a
  leftover of one read to meet the refill of the next and for a restart or an
  error between them. The setups: effects of any behaviour; a resampled stream
  that fails, and one that does not; effects in lock step with additions,
  removals and failures; effects that make progress (for ReadReturns). `maxskew`
  only stops effects that take the reference for ever and the microphone never;
  `kernel` is 2 frames, a driver period, where DelayIsAge speaks.
* Wi-Fi: four boots are one cut short before the address is written, one
  after, one that writes it again and one that finds it. Recovery: four pictures
  fill both buffers twice where flips work, two fill them once where flips fail; texts are at both ends of the font and with the sign bit set.
  Lights: four calls put two calls of one light around one of another; the edge
  states have colors at the thresholds of each division and times at 0, 1, the
  table's ends and the largest that do not overflow. Baseband: answers of up to 6
  bytes have an echo, line breaks of one and two characters, a line, and a full
  buffer. USB: four changes queue three behind a running one. RIL: three calls are
  one active, one waiting and one that ended.

`EchoRefsLive` and `CallBoundary` are claimed for one output and one input, and
`EchoPaired` for one input. With two, the start of a second stream overwrites
`active_output` even when it then fails, and the first is no longer found by
those who look for it: the FIXME in start_output_stream ("only works if only one
output can be active at a time") says so, and the policy declares one output and
one input. The other properties of AudioHal hold with any number of streams
("Proofs" below), though one that speaks of the active output says nothing of a
stream the device has forgotten. `NoTearing` is claimed in full for flips that the
driver carries out; when flips may fail (`text`) it says that a torn picture is
displayed in the middle of a copy only. `FlipShows` speaks of a flip whose buffer is
displayed when it returns, whatever failed before. `ClosedClean` speaks of a gr_exit
that returns. `MacOfDevice` is claimed for an NVRAM that can be read, and `MacKept`
for losses of power or for a failing NVRAM, not for both: a fallback written once and
lost with the power is replaced by the device's address when the NVRAM answers
again. Neither says that the address is the device's when the NVRAM fails.
`NodesSettled` lets the brightness of the key LEDs be that of either of the two lights
that write it, so a notification may be left at 0 by a backlight that goes off.
`InBounds` speaks of answers that are no error and do not fill the buffer.
`DelayIsAge` is claimed for streams without a resampler (the code adds the resampler's
own delay, which is not the age), and for the delay the reference is asked with.

The runs `capture` and `programs` have CHECK_DEADLOCK FALSE: reads stop at the
bound `maxframe`, the programs end, and calls stop at their bounds. The runs of
AudioHal check deadlock: everyone waiting on everyone would be one.

### Fairness

* AudioHal: each thread goes on with the call it is in, weak fairness of
  `Continue(t)` per thread. The scheduler runs threads, and the driver completes
  writes and reads. Nothing obliges the framework to make a call. Mutexes are not
  fair (a waiting thread need not get the mutex): `HwReleased` holds all the same
  because a thread that holds `adev->lock` waits for a stream whose next transfer
  would first have to take `adev->lock`, the point of the comments in `out_write`
  and `in_read`. Its mutant takes that lock only when the stream has to be started.
* CaptureFrames: the caller's thread runs and the driver answers: weak fairness of
  `Step`, which has neither errors nor new reads. Without effects that make
  progress process_frames really may not end: `ReadReturns` is about setups with
  `eager`.
* Device: init starts wlan-precheck at each boot and the programs run
  (`Service`); init executes its queue (`Execute`). Neither a loss of power nor a
  change of configuration is fair, and both are bounded, so "in the end" means
  after the last of them.

### Findings

* **tty**: in a call, the TTY mode's receive path is written and at once
  overwritten by `set_incall_device`, which ignores it.
* **volume**: each route table sets the downlink volume to 0, so a change of
  route or TTY mode in a call leaves a voice volume outside the range of "Incall
  Voice Volumes" until the framework sets it again.
* **earpiece**: outside calls the earpiece has no table; what is routed to it
  alone plays on the path that was on before.
* **capture_skew**: the reference is given to the effects before they say how many
  microphone frames they take; what they leave is given reference frames again.
* **wifi_multicast**: the fallback address starts with 0b, whose lowest bit makes it a
  multicast address; the comment clears that bit in the last byte.

Seen while modelling, without a line of the repository that says otherwise, and
so without a run: after a failed FBIOPUT `gr_active_fb` names a buffer that is not
displayed, and the next flip copies into the one that is; a gr_init that fails after an
earlier gr_exit frees the surface a second time (graphics.c:323), before the console
is back in text mode, and a program that ends there leaves it in graphics mode; the wave of a blinking
light is the share of the time it is off; the delay told to the echo canceller is 0
when no reference is missing, and the one asked with is 0 when pcm_get_htimestamp
fails, both as if it had been measured; with a resampler the frames of proc_buf count
at the driver's rate though they have the caller's; the trigger for `adb` alone does
not start adbd, and `bDeviceClass` keeps the value of the last configuration that
wrote it.

## Proofs

The theorems hold for all values of the constants that meet the stated
assumptions.

| module | theorem | property | assumes |
|---|---|---|---|
| AudioHalProofs | TypeCorrect | `TypeOK` | StreamsAssumption, InputsAssumption |
| | Invariance | `HalInvariant` | |
| | PcmSafety | `PcmSafe` | |
| | LockOrdering, WaitsEnding | `LockOrder`, `WaitsEnd` | |
| | CallFlagAgrees | `CallFlag` | |
| AudioStreamProofs | ActiveStreamsLive | `ActiveLive` | the same |
| | Refinement | `StreamsImplemented` | |
| | NoReferenceLeaks | `NoEchoLeak` | the same |
| | EchoesPaired | `EchoPaired` | and one input |
| | EchoesLive | `EchoRefsLive` | and one output, one input |
| | EchoRestarts | `EchoPending` | and references are created when asked for |
| | OutputsRouted, InputsRouted | `OutputRouted`, `InputRouted` | as NoReferenceLeaks |
| | VoicePath | `InCallVoicePath` | as NoReferenceLeaks |
| | CallBoundaryKept | `CallBoundary` | and one output, one input |
| | CallsAreAtomic | `CallsAtomic` | as NoReferenceLeaks |
| CaptureProofs | TypeCorrect, RoomForFrames | `TypeOK`, `BuffersFit` | CaptureAssumption |
| | ReferenceInStep | `LockStepAligned` | |
| | InCaptureOrder, NothingLost | `FramesInOrder`, `NoFrameLost` | |
| | DelayMeasuredIsAge | `DelayIsAge` | |
| GraphicsProofs | NeverTorn, FlipDisplays | `NoTearing`, `FlipShows` | GraphicsAssumption |
| | ConsoleRestored, GlyphsOnly | `ClosedClean`, `TextShowsGlyphs` | GraphicsAssumption |
| LightsProofs | OnlyKnownPatterns | `PatternKnown` | LightsAssumption |
| | NodesShowLast, BlinksWhenTimed | `NodesSettled`, `TimedBlinks` | LightsAssumption |
| CpVersionProofs | StaysInBuffer, VersionFound | `InBounds`, `VersionIsSecondLine` | CpVersionAssumption |
| ServiceProofs | AddressKept, DeviceAddress | `MacKept`, `MacOfDevice` | WifiMacAssumption, the NVRAM can be read |
| | AddressKeptOrderly | `MacKept` | power is never lost |
| | GadgetFollows | `GadgetSettled` | |
| | HighestStateKept, WaitingCallRejected | `HighestKept`, `WaitingRejected` | |
| DeviceProofs | TypeCorrect | `TypeOK` | the four assumptions of Device |
| | one theorem for each other invariant and action property of the run `programs` | the same | the assumption of its program |

### AudioHal

`AudioHalProofs` begins with one lemma per operator on the device (what it returns
is a device, and which mode, active stream, standby flag and PCM it leaves alone);
one lemma per action and the theorems follow. They hold for any
sets of streams, threads, echo references, effects, routes, microphones, sources,
modes, TTY modes and volumes that meet two assumptions:

* `StreamsAssumption`: outputs and inputs are different, and `None` is none of
  the streams, threads and references;
* `InputsAssumption`: the framework's routes are nonempty sets of output devices,
  its microphones, sources, modes and volumes (0 to 100) those the code knows.

The inductive invariant is `TypeOK /\ HalInvariant`, and the second part is one
conjunct per resource:

* `LocksHeld`: a thread owns `adev->lock`, or a stream's lock, if and only if the
  place it has reached in its call says so. This is what makes two threads in
  conflicting places impossible, and every other conjunct uses it.
* `HandlesKept`: a stream that is transferred is open, and one that is closing
  has one closer. Without it, `Free` could free a stream another thread writes,
  and opening could reset one that is still being closed.
* `PcmKept`: a stream out of standby has its PCM open, an input that is to start
  is in standby, and so is a stream that is to be freed. `PcmSafe` alone speaks
  of transfers only, and says nothing of the stream that the next one finds.
* `PcmSafe` itself.
* `CallKept`: `in_call` is clear during a change of mode, is set last and only in
  mode IN_CALL. `CallFlag` speaks of states with the lock free only, and is not
  inductive: in the middle of a change the mode is already the new one.

The argument for the streams is the same in each action and is stated once
(`PcmStep`): a step starts or stops only streams whose lock is free or its own
(`Undisturbed`), so a thread in a transfer, which has its stream's lock, finds it
as it left it. The steps that break a tie need a fact about locks: the guard
`WaitsFor` says that the stream is free, `LocksHeld` that nobody transfers then.
`LockOrder` follows from `LocksHeld`: who waits is in a place that owns
`adev->lock`, and the only stream lock it can have with it is that of its input,
while it waits for an output. `WaitsEnd`, too: the owner of `adev->lock` waits
for a stream's lock only, whose owner, having no `adev->lock`, is in a transfer, and
a transfer waits for nobody (`WaitsForTransfer`). So who waits for a lock waits for
one thread that waits for another at most, and there is no circle.

The run `outputs` checks `HalInvariant` on a small instance. `CallFlag` and `WaitsEnd`
are consequences of it (and of `TypeOK`), as the theorems show, and so in no run.

`AudioStreamProofs` adds `ActiveKept`: what is active runs and is not closed, also
in the middle of calls, and a stream that is closing has a thread that closes it.
`ActiveLive` alone speaks of states with the lock free and is not inductive. Each
action either leaves the active output (input) and all standby flags alone, or
ends with none active, or makes active a stream that it has just started
(`OutMoves`, `InMoves`); freeing and opening are on streams in standby or closed,
which are not active. With the lock free a closer has reached `free`, so its
stream is in standby and is not the active one: what is active is open.

`Refinement` shows that initial states map to initial states and each step to a
step of PcmStreams or none. `Mapped` says what a step may do to the phases: none
changes, or one stream's does in one of the ways of PcmStreams. Four lemmas give it:
a step that neither begins nor ends a transfer and puts at most one stream in
standby, whose lock is free or its own (`QuietStep`); one that begins a transfer
(`EnterStep`: out of standby only while the peers have the device closed, by
`PcmKept`); one that ends it (`LeaveStep`); opening and freeing (`HandleMoves`).
They rest on `TransferLocked`: a thread in a transfer has the lock of its stream.

Its second part adds `PathKept`, which says for each path of the samples when it is
in order and, while it is not, which thread is putting it in order.

* `Echoes`: the only reference alive is the device's, the active output writes it,
  an output in standby has none, and with one input that input reads it or none.
  `EchoRefsLive` alone is not inductive: put_echo_reference takes a reference away
  from the active output only, so it must be known that no other stream that runs
  has it; with one stream per direction the one that runs is the active one.
* `OutHeard`, `CallHeard`, `InHeard`: the mixer has the table of what is selected.
  Each is broken in the middle of a change of mode, and the invariant says by
  whom: there is a thread in `set_mode`, before the steps that select the devices
  again (`Rerouting`), or one that is about to put the input in standby
  (`Stopping`). When the lock is free no thread is in such a place.
* `Unfed`: an input that lacks the reference it needs has a thread that is to restart
  it (`Restarting`): the writer that started the output, until it has locked the
  device again after its transfer and then the input. `EchoPending` speaks of
  states with the lock free, and says nothing of that last stretch.
* `Forced`: how far the standby of all streams in a change of mode has come.
  `CallBoundary` follows at its last step.

Three hypotheses say what the theorems are not about. `Sole(Outs)` and `Sole(Ins)`:
with several streams of a direction the start of one overwrites the active one
even when it then fails; the first runs on, unknown to those that put all streams
in standby, and a reference it has may be released (audio_hw.c:1129), so
`EchoRefsLive` and `CallBoundary` are false. The policy declares one output and one
input (audio_policy.conf). `FALSE \notin RefCreate`: when create_echo_reference
fails the input runs without a reference and nobody comes back to it, so
`EchoPending` is false. In the proof each action is one of a few kinds of step: one
that touches no path (`QuietPath`), one that starts or stops a stream, and the
steps of a change of mode (`ModeSteps`).

Its last part is the refinement of AtomicHal (`CallsAreAtomic`). `Sight(h, x)` is what
AtomicHal sees of a device `h` while `x` owns the lock. A step is of one of three kinds:
one that shows nothing (`QuietAtomic`); one that takes the lock with streams left to
stop and shows the whole effect of the call (`EnterAtomic`, `AtomicRoute`,
`AtomicSetMode`); one that does part of what was shown before (`AtomicForceOutput`,
`AtomicInputStandby`, `AtomicSelectMode`) and must leave the view alone. The last
kind needs `PathKept`: that the active input has not changed since set_mode began is
`Forced`, and that what is active is out of standby is `Echoes`. That a stream starts
only while no other of its direction runs is `PcmKept` (`StartsAlone`): the others
would have the PCM open. One fact is added to the invariant, `Dormant`: a closed stream is in
standby, so that opening one, which resets its fields, shows nothing.

### CaptureFrames

`CaptureProofs` holds for any set of setups that meets `CaptureAssumption`: any period
and ratio above 0, any requests above 0, any bound on what effects hold back. The
bounds `maxframe` and `maxskew` only disable steps, so the theorems hold whatever
they are. There are two inductive invariants.

`SizeInv` is about lengths. `BuffersFit` says nothing of what a place in the code
will still add, so `Places` says what each leaves room for: what is missing while
`read` and `fetch` go on, that `proc_buf` was grown before `fetch` fills it, that
`out` is full in `done`. `Balanced` says what the two counts of frames given to
lock-step effects differ by between push_echo_reference and process().
A turn of read_frames is the work of `FetchFacts`: what the resampler had and took
is what it made and kept, and what it makes of `Ratio * missing` frames is no more
than `missing`, by division.

`FrameInv` adds what the frames are. `Line` is everything from the last frame
delivered to the driver's buffer, oldest first; `Ordered` says that it rises up to
the last captured, and `Whole` that no number is missing in it: frame `i` of those on their
way is the one `Ratio * (i - 1) + 1` after those delivered, and the rest are
consecutive (`Follows`). Most steps move frames along the line and leave it as it is
(`LineStays`), or take a piece out of its middle, as a failed read does (`MiddleOf`: what is
left still rises); `read_frames` appends what the driver gives (`FetchFlow`), and the
return of in_read takes the head away (`ReturnFlow`). Three conjuncts carry these
through restarts: `Idle` (a stream without effects has nothing in their buffers, so
a direct read overtakes nothing), `Fresh` (only a restart finds frames in the buffers
it resets) and `Measured` (the delay that was measured counts the frames that wait now).
`InCaptureOrder` is `Ordered`; `NothingLost` and `DelayMeasuredIsAge` are arithmetic on
`Whole`.

### The small programs

* RecoveryGraphics: `Fronted` says, per place in gr_flip, which buffer is whole, which
  halves of the other already show the picture and, while flips succeed, which of
  them is displayed; `Console` that the
  console is in graphics mode only with its descriptor open.
* Lights: `NodeInv` is the types of what was asked for (`Asked`), of the nodes and
  of the places in each light's handler, and `Shown`: what each handler has written
  when it is there. The LEDs' brightness has two writers, so `Shown` says of it only
  that it is one of the two values when neither's write of it failed (`Begun`); that
  is what `NodesSettled` needs once both are idle. The patterns are in lemmas about
  LedPattern: each percentage, cycle, slope and wave is in the range of its table
  for every color and every pair of times whose sum and seven times whose parts
  are ints; and the wave of a light with both times is one that ends dark, in phase
  8, whatever its length (`TimedBlinks`).
* WifiMac: every configuration, on disk or not, is absent, empty or `Address`, which
  is the NVRAM's or the fallback. That the fallback is the same each time is what
  carries `MacKept` over losses of power.
* CpVersion: the pointer and counter of the loop that runs are tied (`Pointed`,
  `Counted`): how far the pointer is, is what the counter has left. `Scanned` says
  what the loops have passed: no end of a line in the echo (`Echo`), the line from
  `result` on, behind the first break (`Found`), and the end of it under the pointer
  or at the end of the answer (`Ended`). The version is then `Line`, which is the
  answer's `SecondLine` element by element.
* UsbConfig: while a trigger waits in the queue nothing needs to be known of the
  commands that run before it, since each trigger writes every node that
  `GadgetSettled` speaks of (`Triggers`: the last write to each of them). Once it is
  started, `Triggered` says that init is at its k-th command, and the first k are in
  the gadget but for what a later one of them wrote over (`Carried`). `config` is
  then the configuration of the trigger that runs: another one would wait.
* RilCallState: `HighestPending` describes where the highest state is on its way to
  `mCallState`. Of the states not yet told, and `mCallState` itself, those after
  which the phone is not told idle again are at most `highest`, and one is equal to
  it. With the queue empty only `mCallState` is left. `WaitingRejected` needs
  `CallsKept` besides: a second call that rings leaves the highest state at OFFHOOK.

ServiceProofs has WifiMac, UsbConfig and RilCallState as named instances, `Wifi`,
`Usb` and `Phone`; the last two share the variables `queue` and `changes`, as in
Device, and no theorem speaks of both. `AddressKept` needs an NVRAM that can be
read, and holds over losses of power. `AddressKeptOrderly` needs no NVRAM: if power
is never lost, a configuration that has an address is never opened again
(`OrderlyInv`), whatever the fallback is.

`DeviceProofs` lifts all this to Device: the program that runs is the one picked in
the initial state (`OneProgram`), so a behaviour of Device is one of that program's
module, with the constants of its setup (`PowerRuns` ... `PhoneRuns`), and the
theorem about the module says what the property of Device says. What the run
`programs` checks for its setups holds for every NVRAM, number of boots, text, width
of a character, light state, answer, buffer and number of calls that meet the
assumptions.

### Only model-checked

Liveness under fairness (`HwReleased`, `ReadReturns`,
`ConfigWritten`, `StateFollows`) and ENABLED are out of the prover's reach and stay
with TLC. So would be what a recursion over data computes; no module here has a
RECURSIVE operator.

## Not modelled

* vsnet scripts: two shell scripts that the RIL, a binary outside the tree,
  starts. Which of them can overlap, and what the RIL waits for, cannot be read
  here.
* Init services: declarations for Android's init.
* Pseudo recovery and vibrator: one call each, without state.
* LGEInfineon beyond the call state: conversions of parcels.
* Headers (vendored), key maps, media profiles, overlays, makefiles.

Of AudioHal, `mic_mute` and `bluetooth_nrec` are missing, for the reasons above.

## Plan

What the plan set out is done. What would come next depends on answers the tree
does not give: mute, once it is settled what it promises for frames captured before
or during it (hazard at audio_hw.c:1721); several inputs, once the policy declares
them, with a reference that outlives a start that failed (audio_hw.c:1129); and the
vsnet scripts, with what the RIL waits for between them.
