--------------------------- MODULE CaptureFrames ---------------------------
(***************************************************************************)
(* The frames of one input stream of audio_hw.c on their way from the      *)
(* capture driver to the caller of in_read: the driver buffer in->buffer,  *)
(* the resampler, the buffer of frames that wait for the audio effects     *)
(* (proc_buf), and the buffer of echo reference frames (ref_buf).  The     *)
(* locks, standby and routes around it are in AudioHal.                    *)
(*                                                                         *)
(* A frame is its capture number: what is in a buffer is a sequence of     *)
(* numbers, so that a lost, repeated or reordered frame shows.  An output  *)
(* frame of the resampler has the number of the first frame it is made of. *)
(* Frames of the echo reference are only counted.                          *)
(***************************************************************************)
EXTENDS Integers, Sequences

CONSTANT Setups  \* kinds of streams and effects, and the bounds for each

ASSUME CaptureAssumption ==
    \A s \in Setups :
      /\ s.period \in Nat \ {0} /\ s.ratio \in Nat \ {0}
      /\ s.requests \subseteq Nat \ {0}
      /\ {s.hold, s.kernel, s.maxframe, s.maxskew} \subseteq Nat
      /\ {s.failures, s.restarts, s.toggle, s.lockstep, s.eager} \subseteq BOOLEAN

VARIABLES
    setup,     \* the stream and its effects, for good
    pc,        \* where in_read is
    rq,        \* frames_rq of the read
    cap,       \* number of the last frame the driver gave
    buf,       \* in->buffer: the frames_in frames not used yet
    rs,        \* frames inside the resampler
    got,       \* frames read_frames has read in this call
    proc,      \* proc_buf: proc_frames_in frames
    proc_size, \* proc_buf_size
    ref,       \* ref_frames_in
    ref_size,  \* ref_buf_size
    fx,        \* frames inside the effects
    cnt,       \* prepro_wr_cnt: frames to give to process()
    out,       \* the caller's buffer: frames_wr frames
    effects,   \* num_preprocessors # 0
    echo,      \* echo_reference # NULL
    standby,
    asked,     \* what get_capture_delay measured for the read of the echo reference
    skew,      \* reference frames minus capture frames given to the effects
    last       \* number of the last frame a successful read delivered

(* The stream and what surrounds it.                                       *)
Period == setup.period       \* frames of one pcm_read of the driver, config.period_size
Ratio == setup.ratio         \* driver frames per frame of the requested rate; 1: no resampler
Requests == setup.requests   \* frames callers ask for, frames_rq
Hold == setup.hold           \* frames the effects may keep inside
Failures == setup.failures   \* pcm_read may fail
Kernel == setup.kernel       \* bound: frames the driver has captured and not given yet
Restarts == setup.restarts   \* the stream may go to standby between two reads
Toggle == setup.toggle       \* effects may come and go between two reads
LockStep == setup.lockstep   \* process() consumes all it is given
Eager == setup.eager         \* effects and echo reference make progress in each call
MaxFrame == setup.maxframe   \* bound: no read starts after this frame
MaxSkew == setup.maxskew     \* bound: the reference runs ahead by this many frames at most

position == <<pc, rq>>
driver == <<cap, buf, rs>>
reference == <<ref, ref_size, asked, skew>>
setting == <<effects, echo, standby>>
vars == <<setup, position, driver, got, proc, proc_size, reference, fx, cnt, out, setting,
          last>>

Least(m, n) == IF m < n THEN m ELSE n
Most(m, n) == IF m > n THEN m ELSE n
Drop(s, n) == SubSeq(s, n + 1, Len(s))
Take(s, n) == SubSeq(s, 1, n)
Frames(m, n) == [i \in 1..n |-> m + i]

(* No delay is measured: frames of the driver, and the delay.              *)
NotMeasured == [measured |-> FALSE, kernel |-> 0, delay |-> 0]

(* input_requires_stereo is 0 on this device: no remix is ever set up.     *)
Converts == Ratio > 1

Init ==
    /\ setup \in Setups
    /\ pc = "idle" /\ rq = 0
    /\ cap = 0 /\ buf = <<>> /\ rs = <<>>
    /\ got = <<>> /\ proc = <<>> /\ proc_size = 0
    /\ ref = 0 /\ ref_size = 0 /\ asked = NotMeasured /\ skew = 0
    /\ fx = <<>> /\ cnt = 0 /\ out = <<>>
    /\ effects \in BOOLEAN /\ echo = FALSE
    /\ standby = TRUE
    /\ last = 0

-----------------------------------------------------------------------------
(* Frames from the driver.                                                 *)

(* What the resampler makes of the frames it has, and what it keeps.       *)
Resampled(s) == [i \in 1..(Len(s) \div Ratio) |-> s[(i - 1) * Ratio + 1]]
Kept(s) == Drop(s, Ratio * (Len(s) \div Ratio))

(* Mutant: the buffer is filled again before all of it is used.            *)
ExhaustedEarly == Len(buf) < Period

(* get_next_buffer fills in->buffer when frames_in is 0.                   *)
Exhausted == buf = <<>>
Filled == IF Exhausted THEN Frames(cap, Period) ELSE buf

(* release_buffer, after n frames of it are used.                          *)
Released(n) == Drop(Filled, n)

(* One turn of the loop of read_frames: get_next_buffer with as many       *)
(* frames as are missing, the copy or the resampling, and release_buffer.  *)
Fetch(missing) ==
    LET needed == Ratio * missing - Len(rs)
        taken == Least(needed, Len(Filled))
        had == rs \o Take(Filled, taken)
    IN /\ cap' = IF Exhausted THEN cap + Period ELSE cap
       /\ buf' = Released(taken)
       /\ rs' = Kept(had)
       /\ got' = got \o Resampled(had)

-----------------------------------------------------------------------------
(* in_read.                                                                *)

(* start_input_stream takes the echo reference the effects want, opens the *)
(* driver, and resets resampler and driver buffer if there is a resampler. *)
TakeReference ==
    /\ echo' \in (IF echo THEN {TRUE} ELSE IF effects THEN BOOLEAN ELSE {FALSE})
    /\ skew' = 0

StartInput ==
    /\ TakeReference
    /\ standby' = FALSE
    /\ IF Ratio > 1
       THEN buf' = <<>> /\ rs' = <<>>
       ELSE UNCHANGED <<buf, rs>>

Begin(n) ==
    /\ pc = "idle" /\ cap < MaxFrame
    /\ rq' = n
    /\ IF standby THEN StartInput ELSE UNCHANGED <<standby, buf, rs, echo, skew>>
    /\ out' = <<>> /\ got' = <<>>
    /\ pc' = IF effects THEN "reload" ELSE IF Converts THEN "read" ELSE "direct"
    /\ UNCHANGED <<cap, proc, proc_size, ref, ref_size, asked, fx, cnt, effects, last>>

(* The driver cannot be opened: the stream stays in standby.               *)
StartFails(n) ==
    /\ Failures /\ pc = "idle" /\ standby /\ cap < MaxFrame
    /\ rq' = n
    /\ TakeReference
    /\ pc' = "failed"
    /\ UNCHANGED <<driver, got, proc, proc_size, ref, ref_size, asked, fx, cnt, out,
                   effects, standby, last>>

(* pcm_read straight into the caller's buffer.                             *)
DirectRead ==
    /\ pc = "direct"
    /\ out' = Frames(cap, rq)
    /\ cap' = cap + rq
    /\ pc' = "done"
    /\ UNCHANGED <<rq, buf, rs, got, proc, proc_size, reference, fx, cnt, setting, last>>

(* read_frames into the caller's buffer.                                   *)
ReadMore ==
    /\ pc = "read"
    /\ Fetch(rq - Len(got))
    /\ IF Len(got') = rq THEN pc' = "done" /\ out' = got' ELSE UNCHANGED <<pc, out>>
    /\ UNCHANGED <<rq, proc, proc_size, reference, fx, cnt, setting, last>>

(* Mutants: frames are read in the first turn of the loop only; proc_buf   *)
(* never grows.                                                            *)
NotEnoughOnce == Len(proc) < rq /\ out = <<>>
ProcSizeOnce == IF proc_size = 0 THEN rq ELSE proc_size

NotEnough == Len(proc) < rq
ProcSize == Most(proc_size, rq)

(* process_frames starts a turn of its loop: if proc_buf has fewer than    *)
(* rq frames it makes room for them and calls read_frames.                 *)
Reload ==
    /\ pc = "reload"
    /\ got' = <<>>
    /\ IF NotEnough
       THEN pc' = "fetch" /\ proc_size' = ProcSize
       ELSE pc' = "push" /\ UNCHANGED proc_size
    /\ UNCHANGED <<rq, driver, proc, reference, fx, cnt, out, setting, last>>

(* read_frames to the end of proc_buf.                                     *)
FetchMore ==
    /\ pc = "fetch"
    /\ Fetch(rq - Len(proc) - Len(got))
    /\ IF Len(proc) + Len(got') = rq
       THEN pc' = "push" /\ proc' = proc \o got'
       ELSE UNCHANGED <<pc, proc>>
    /\ UNCHANGED <<rq, proc_size, reference, fx, cnt, out, setting, last>>

(* A pcm_read of the driver fails: read_frames and process_frames return   *)
(* the error; what they read or wrote in this call is abandoned.           *)
ReadFails ==
    /\ Failures
    /\ \/ pc \in {"read", "fetch"} /\ Exhausted
       \/ pc = "direct"
    /\ pc' = "failed"
    /\ UNCHANGED <<rq, driver, got, proc, proc_size, reference, fx, cnt, out, setting, last>>

-----------------------------------------------------------------------------
(* The echo reference and the effects.                                     *)

(* Mutants: the frames in proc_buf are not counted; frames asked for are   *)
(* taken for frames consumed, in ref_frames_in and in the value returned.  *)
CaptureDelayShort(kernel) == kernel + Len(buf) + Len(rs)
RefLeftAsked(n, r) == ref + n - Len(proc)
WrittenAsked(r) == Len(proc)

(* get_capture_delay: the frames the driver still has, frames_in,          *)
(* proc_frames_in and the resampler's own, each taken at the rate of the   *)
(* driver.                                                                 *)
CaptureDelay(kernel) == kernel + Len(buf) + Len(proc) + Len(rs)

(* pcm_get_htimestamp may fail, and the reference is read all the same.    *)
get_capture_delay ==
    \/ asked' = NotMeasured
    \/ \E kernel \in 0..Kernel :
         asked' = [measured |-> TRUE, kernel |-> kernel, delay |-> CaptureDelay(kernel)]

(* What process_reverse leaves in ref_buf, and the frames it was given.    *)
RefLeft(n, r) == ref + n - r
Written(r) == r

(* update_echo_reference: the reference gives n of the frames that are     *)
(* missing, none if its read fails; if none is missing nothing is read and *)
(* no delay is measured.  The reference gets the delay measured and may    *)
(* answer with another; what it answers, which is what the effects are     *)
(* told, is not modelled.                                                  *)
Missing == Len(proc) - ref
UpdateEchoReference(n) ==
    IF Missing > 0
    THEN /\ n \in (IF Eager THEN 1 ELSE 0)..Missing
         /\ ref_size' = Most(ref_size, Len(proc))
         /\ get_capture_delay
    ELSE /\ n = 0
         /\ asked' = NotMeasured
         /\ UNCHANGED ref_size

(* push_echo_reference: process_reverse consumes r frames of the           *)
(* reference.                                                              *)
Push(n, r) ==
    /\ pc = "push" /\ echo
    /\ UpdateEchoReference(n)
    /\ r \in (IF Eager THEN 1 ELSE 0)..Least(ref + n, Len(proc))
    /\ skew + r <= MaxSkew
    /\ ref' = RefLeft(n, r)
    /\ skew' = skew + r
    /\ cnt' = Written(r)
    /\ pc' = "process"
    /\ UNCHANGED <<rq, driver, got, proc, proc_size, fx, out, setting, last>>

NoReference ==
    /\ pc = "push" /\ ~echo
    /\ cnt' = Len(proc)
    /\ pc' = "process"
    /\ UNCHANGED <<rq, driver, got, proc, proc_size, reference, fx, out, setting, last>>

(* Mutant: proc_buf moves by the frames produced.                          *)
RemainingMoved(c, p) == Drop(proc, p)

(* The rest of proc_buf moves to its beginning.                            *)
Remaining(c, p) == Drop(proc, c)

(* process(): the effects consume c frames and produce p, at most as many  *)
(* as they are told.                                                       *)
Process(c, p) ==
    LET inside == fx \o Take(proc, c)
    IN /\ pc = "process"
       /\ c \in 0..cnt
       /\ LockStep => c = cnt
       /\ p \in 0..Least(Len(inside), rq - Len(out))
       /\ Len(inside) - p <= Hold
       /\ Eager => c + p > 0
       /\ fx' = Drop(inside, p)
       /\ proc' = Remaining(c, p)
       /\ out' = out \o Take(inside, p)
       /\ skew' = IF echo THEN skew - c ELSE skew
       /\ pc' = IF Len(out') < rq THEN "reload" ELSE "done"
       /\ asked' = NotMeasured
       /\ UNCHANGED <<rq, driver, got, proc_size, ref, ref_size, cnt, setting, last>>

-----------------------------------------------------------------------------
(* in_read returns.  That a muted microphone clears the caller's buffer    *)
(* first changes no frame of the pipeline.                                 *)
Return ==
    /\ pc = "done"
    /\ last' = out[Len(out)]
    /\ pc' = "idle"
    /\ out' = <<>> /\ got' = <<>>
    /\ UNCHANGED <<rq, driver, proc, proc_size, reference, fx, cnt, setting>>

(* After an error in_read sleeps as long as the capture would have taken,  *)
(* and returns as if the buffer was full.                                  *)
Fail ==
    /\ pc = "failed"
    /\ pc' = "idle"
    /\ out' = <<>> /\ got' = <<>>
    /\ UNCHANGED <<rq, driver, proc, proc_size, reference, fx, cnt, setting, last>>

(* do_input_standby, between two reads: the echo reference is released.    *)
Standby ==
    /\ Restarts /\ pc = "idle" /\ ~standby
    /\ standby' = TRUE
    /\ echo' = FALSE
    /\ UNCHANGED <<position, driver, got, proc, proc_size, reference, fx, cnt, out,
                   effects, last>>

(* in_add_audio_effect and in_remove_audio_effect.  An echo canceller puts *)
(* the input in standby first.                                             *)
SetEffects ==
    /\ Toggle /\ pc = "idle" /\ ~echo
    /\ effects' = ~effects
    /\ fx' = <<>>
    /\ UNCHANGED <<position, driver, got, proc, proc_size, reference, cnt, out, echo,
                   standby, last>>

Step ==
    \/ DirectRead \/ ReadMore \/ Reload \/ FetchMore \/ NoReference \/ Return \/ Fail
    \/ \E n, r \in 0..Len(proc) : Push(n, r)
    \/ \E c \in 0..cnt, p \in 0..rq : Process(c, p)

Next ==
    /\ \/ \E n \in Requests : Begin(n) \/ StartFails(n)
       \/ Step
       \/ ReadFails \/ Standby \/ SetEffects
    /\ UNCHANGED setup

Spec == Init /\ [][Next]_vars

(* The thread of the caller runs, and the driver gives frames or an error. *)
FairSpec == Spec /\ WF_vars(Step /\ UNCHANGED setup)

-----------------------------------------------------------------------------
(* Properties.                                                             *)

TypeOK ==
    /\ pc \in {"idle", "direct", "read", "reload", "fetch", "push", "process", "done",
               "failed"}
    /\ setup \in Setups
    /\ rq \in Requests \cup {0}
    /\ {cap, proc_size, ref, ref_size, cnt, last} \subseteq Nat
    /\ {buf, rs, got, proc, fx, out} \subseteq Seq(Nat)
    /\ {effects, echo, standby} \subseteq BOOLEAN
    /\ asked \in [measured : BOOLEAN, kernel : Nat, delay : Nat]
    /\ skew \in Int

(* No write or shift of process_frames, push_echo_reference or read_frames *)
(* goes past the end of in->buffer, proc_buf, ref_buf or the caller's      *)
(* buffer, and no count of frames (all are unsigned) goes below zero.      *)
BuffersFit ==
    /\ Len(buf) <= Period
    /\ Len(rs) < Ratio
    /\ Len(proc) <= proc_size
    /\ ref \in 0..ref_size
    /\ Len(out) <= rq
    /\ pc = "read" => Len(got) <= rq
    /\ pc = "fetch" => Len(proc) + Len(got) <= proc_size
    /\ pc = "process" => cnt <= Len(proc)

(* Frames on their way, oldest first: processed, inside the effects, in    *)
(* proc_buf, just read.                                                    *)
Reading == pc \in {"read", "fetch"}
OnTheWay == (IF pc = "failed" THEN <<>> ELSE out) \o fx \o proc
              \o (IF Reading THEN got ELSE <<>>)

(* While effects stay, the caller gets the frames in the order of their    *)
(* capture, each once, across failed reads and restarts: process_frames,   *)
(* the resampler and in->buffer keep what is left over for the next read.  *)
FramesInOrder ==
    LET line == <<last>> \o OnTheWay \o rs \o buf
    IN ~Toggle =>
         /\ \A i \in 1..(Len(line) - 1) : line[i] < line[i + 1]
         /\ line[Len(line)] <= cap

(* While no read fails, no effect comes or goes and no restart resets a    *)
(* resampler, no captured frame is lost between the driver and the caller. *)
NoFrameLost ==
    LET before == IF last = 0 THEN 0 ELSE last + Ratio - 1
        whole == [i \in 1..(Ratio * Len(OnTheWay)) |->
                    OnTheWay[((i - 1) \div Ratio) + 1] + ((i - 1) % Ratio)]
    IN ~Failures /\ ~Toggle /\ (Restarts => Ratio = 1) =>
         whole \o rs \o buf = Frames(before, cap - before)

(* "make sure that the number of mic signal frames written to the          *)
(* preprocessor is the same as the number of playback signal frames sent"  *)
(* (process_frames): between two turns of the loop the effects have had as *)
(* many frames of the microphone as of the reference.                      *)
EchoAligned == echo /\ pc # "process" => skew = 0

(* This holds with effects that consume all the frames they are given,     *)
(* whatever the reference gives and though reads and restarts fail.        *)
LockStepAligned == LockStep => EchoAligned

(* "we want the capture time of first sample in current buffer"            *)
(* (get_capture_delay): without a resampler, while no read fails, a delay  *)
(* that is measured for the echo reference is the number of frames the     *)
(* hardware has captured since the first frame the effects are about to    *)
(* process, those the driver still has included.                           *)
DelayIsAge ==
    /\ Ratio = 1 /\ ~Failures /\ ~Toggle
    /\ pc = "process" /\ echo /\ asked.measured
    => asked.delay = cap + asked.kernel + 1 - proc[1]

(* Effects and reference that make progress let every read return, however *)
(* they split the frames, and so does an error of the driver.              *)
ReadReturns == Eager /\ pc # "idle" ~> pc = "idle"
=============================================================================
