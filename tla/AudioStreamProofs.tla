------------------------- MODULE AudioStreamProofs -------------------------
(***************************************************************************)
(* What the streams do, on top of the invariant of AudioHalProofs:         *)
(* active_output and active_input never dangle; the streams implement      *)
(* PcmStreams; the paths of their samples in audio_hw.c are connected: the *)
(* echo reference from the output to the input that cancels it, the route  *)
(* tables between streams and transducers, and the standby of all streams  *)
(* around a call; and the device implements AtomicHal.                     *)
(***************************************************************************)
EXTENDS AudioHalProofs

(* What is active runs, also while adev->lock is held, and is not freed; a *)
(* stream being closed has a thread that closes it.                        *)
ActiveKept ==
    /\ hal.active_output # None =>
         ~hal.out[hal.active_output].standby /\ handle[hal.active_output] # "closed"
    /\ hal.active_input # None =>
         ~hal.in[hal.active_input].standby /\ handle[hal.active_input] # "closed"
    /\ \A s \in Streams :
         handle[s] = "closing" => \E t \in Threads : th[t].op = "close" /\ th[t].tgt = s

-----------------------------------------------------------------------------
(* What a step may do to the active output and input.                      *)

OutStays ==
    /\ hal'.active_output = hal.active_output
    /\ \A o \in Outs : hal'.out[o].standby = hal.out[o].standby
OutGoes == hal'.active_output = None
OutStarts ==
    /\ hal'.active_output \in Outs /\ handle[hal'.active_output] = "open"
    /\ ~hal'.out[hal'.active_output].standby
OutMoves == OutStays \/ OutGoes \/ OutStarts

InStays ==
    /\ hal'.active_input = hal.active_input
    /\ \A i \in Ins : hal'.in[i].standby = hal.in[i].standby
InGoes == hal'.active_input = None
InStarts ==
    /\ hal'.active_input \in Ins /\ handle[hal'.active_input] = "open"
    /\ ~hal'.in[hal'.active_input].standby
InMoves == InStays \/ InGoes \/ InStarts

(* Only t moves, and if it is closing a stream it goes on with that.       *)
Steady(t) ==
    /\ handle' = handle
    /\ \A u \in Threads \ {t} : th'[u] = th[u]
    /\ th[t].op = "close" => th'[t].op = "close" /\ th'[t].tgt = th[t].tgt

(* A step that neither starts nor stops a stream.                          *)
Still(t) == Steady(t) /\ OutStays /\ InStays

LEMMA ActiveTypes ==
    ASSUME IInv
    PROVE  /\ hal \in HalState /\ hal.active_output \in Outs \cup {None}
           /\ hal.active_input \in Ins \cup {None}
           /\ \A t \in Threads : WellFormed(th[t]) /\ th[t] \in ThreadState
           /\ DOMAIN th = Threads /\ DOMAIN handle = Streams
  BY DEF IInv, TypeOK, HalState, HalInvariant, LocksHeld

LEMMA SteadyStep ==
    ASSUME IInv, ActiveKept, NEW t \in Threads, Steady(t), OutMoves, InMoves
    PROVE  ActiveKept'
  <1>1. hal'.active_output # None =>
          ~hal'.out[hal'.active_output].standby /\ handle'[hal'.active_output] # "closed"
    BY ActiveTypes DEF ActiveKept, Steady, OutMoves, OutStays, OutGoes, OutStarts
  <1>2. hal'.active_input # None =>
          ~hal'.in[hal'.active_input].standby /\ handle'[hal'.active_input] # "closed"
    BY ActiveTypes DEF ActiveKept, Steady, InMoves, InStays, InGoes, InStarts
  <1>3. ASSUME NEW s \in Streams, handle'[s] = "closing"
        PROVE  \E u \in Threads : th'[u].op = "close" /\ th'[u].tgt = s
    <2>1. PICK u \in Threads : th[u].op = "close" /\ th[u].tgt = s
      BY <1>3 DEF ActiveKept, Steady
    <2>2. th'[u].op = "close" /\ th'[u].tgt = s
      BY <2>1 DEF Steady
    <2>3. QED BY <2>2
  <1>4. QED BY <1>1, <1>2, <1>3 DEF ActiveKept

LEMMA StillStep ==
    ASSUME IInv, ActiveKept, NEW t \in Threads, Still(t) PROVE ActiveKept'
  BY SteadyStep DEF Still, OutMoves, InMoves

(* Steps that leave the device alone.                                      *)
LEMMA SameHal == ASSUME hal' = hal PROVE OutStays /\ InStays
  BY DEF OutStays, InStays

-----------------------------------------------------------------------------
(* Outputs.                                                                *)

LEMMA ActiveOutWrite ==
    ASSUME IInv, NEW t \in Threads,
           out_write(t) \/ write_io(t) \/ write_tail(t)
    PROVE  Still(t)
  <1>1. hal' = hal
    BY DEF out_write, write_io, write_tail
  <1>2. th[t].op # "close"
    BY ActiveTypes DEF out_write, write_io, write_tail, At, WellFormed
  <1>3. Steady(t)
    BY <1>2, ActiveTypes DEF Steady, out_write, write_io, write_tail, Goto, Return
  <1>4. QED BY <1>1, <1>3, SameHal DEF Still

LEMMA ActiveStartOutput ==
    ASSUME IInv, NEW t \in Threads, start_output_stream(t) \/ start_output_fails(t)
    PROVE  Steady(t) /\ OutMoves /\ InMoves
  <1>1. th[t].pc = "write" /\ th[t].tgt \in Outs /\ th[t].op # "close"
        /\ handle[th[t].tgt] = "open"
    BY ActiveTypes DEF start_output_stream, start_output_fails, At, WellFormed, OutPcs,
       IInv, HalInvariant, HandlesKept
  <1>2. Steady(t)
    BY <1>1, ActiveTypes DEF Steady, start_output_stream, start_output_fails, ReturnUnlocked, Return
  <1>3. CASE start_output_stream(t)
    <2>1. hal' = OutputStarted(hal, th[t].tgt)
      BY <1>3 DEF start_output_stream
    <2>2. OutStarts /\ InStays
      BY <1>1, <2>1, ActiveTypes, OutputStart DEF OutStarts, InStays
    <2>3. QED BY <1>2, <2>2 DEF OutMoves, InMoves
  <1>4. CASE start_output_fails(t)
    <2>1. hal' = OutputFailed(hal, th[t].tgt)
      BY <1>4 DEF start_output_fails
    <2>2. OutGoes /\ InStays
      BY <1>1, <2>1, ActiveTypes, OutputFail DEF OutGoes, InStays
    <2>3. QED BY <1>2, <2>2 DEF OutMoves, InMoves
  <1>5. QED BY <1>3, <1>4

(* An output that goes to standby is not active afterwards, and no other   *)
(* one is active instead.                                                  *)
LEMMA StandbyMoves ==
    ASSUME NEW h \in HalState, NEW o \in Outs
    PROVE  LET r == do_output_standby(h, o) IN
           /\ r \in HalState /\ r.in = h.in /\ r.active_input = h.active_input
           /\ \/ r.active_output = None
              \/ /\ r.active_output = h.active_output
                 /\ \A p \in Outs : r.out[p].standby = h.out[p].standby
  <1> DEFINE r == do_output_standby(h, o)
  <1>1. CASE h.out[o].standby
    BY <1>1 DEF do_output_standby
  <1>2. CASE ~h.out[o].standby
    BY <1>2, OutputStandby
  <1>3. QED BY <1>1, <1>2

LEMMA ActiveRoute ==
    ASSUME IInv, NEW t \in Threads, NEW devices \in RouteSets,
           out_set_parameters(t, devices)
    PROVE  Steady(t) /\ OutMoves /\ InMoves
  <1>1. th[t].pc = "route" /\ th[t].tgt \in Outs /\ th[t].op # "close"
    BY ActiveTypes DEF out_set_parameters, At, WellFormed, OutPcs
  <1>2. Steady(t)
    BY <1>1, ActiveTypes DEF Steady, out_set_parameters, ReturnUnlocked, Return
  <1> DEFINE h == IF th[t].tgt = hal.active_output THEN do_output_standby(hal, th[t].tgt)
                  ELSE hal
             r == [h EXCEPT !.out_device = devices]
  <1>3. /\ h \in HalState /\ h.in = hal.in /\ h.active_input = hal.active_input
        /\ \/ h.active_output = None
           \/ /\ h.active_output = hal.active_output
              /\ \A o \in Outs : h.out[o].standby = hal.out[o].standby
    BY <1>1, ActiveTypes, StandbyMoves
  <1> HIDE DEF h
  <1>4. /\ r \in HalState /\ r.out = h.out /\ r.in = h.in
        /\ r.active_output = h.active_output /\ r.active_input = h.active_input
    BY <1>3, InputsAssumption DEF HalState
  <1> HIDE DEF r
  <1>5. hal' = hal \/ hal' = select_output_device(r)
    BY DEF out_set_parameters, h, r
  <1>6. CASE hal' = select_output_device(r)
    <2>1. /\ hal'.out = h.out /\ hal'.in = h.in
          /\ hal'.active_output = h.active_output /\ hal'.active_input = h.active_input
      BY <1>4, <1>6, SelectOutput
    <2>2. OutMoves /\ InMoves
      BY <1>3, <2>1 DEF OutMoves, OutStays, OutGoes, InMoves, InStays
    <2>3. QED BY <1>2, <2>2
  <1>7. QED BY <1>2, <1>5, <1>6, SameHal DEF OutMoves, InMoves

LEMMA ActiveOutStandby ==
    ASSUME IInv, NEW t \in Threads, out_standby(t)
    PROVE  Steady(t) /\ OutMoves /\ InMoves
  <1>1. th[t].pc = "out_standby" /\ th[t].tgt \in Outs
    BY ActiveTypes DEF out_standby, At, WellFormed, OutPcs
  <1>2. Steady(t)
    BY ActiveTypes DEF Steady, out_standby, Goto, Return, ThreadState
  <1>3. OutMoves /\ InMoves
    BY <1>1, ActiveTypes, StandbyMoves
       DEF out_standby, OutMoves, OutStays, OutGoes, InMoves, InStays
  <1>4. QED BY <1>2, <1>3

LEMMA ActiveForceOutput ==
    ASSUME IInv, NEW t \in Threads, force_output_standby(t)
    PROVE  Steady(t) /\ OutMoves /\ InMoves
  <1>1. Steady(t)
    BY ActiveTypes DEF Steady, force_output_standby, Goto, ThreadState
  <1>2. CASE hal.active_output = None
    BY <1>1, <1>2, SameHal DEF force_output_standby, OutMoves, InMoves
  <1>3. CASE hal.active_output # None
    <2>1. hal.active_output \in Outs
      BY <1>3, ActiveTypes
    <2>2. hal' = do_output_standby(hal, hal.active_output)
      BY <1>3 DEF force_output_standby
    <2>3. OutMoves /\ InMoves
      BY <2>1, <2>2, ActiveTypes, StandbyMoves
         DEF OutMoves, OutStays, OutGoes, InMoves, InStays
    <2>4. QED BY <1>1, <2>3
  <1>4. QED BY <1>2, <1>3

-----------------------------------------------------------------------------
(* Inputs.                                                                 *)

LEMMA ActiveInRead ==
    ASSUME IInv, NEW t \in Threads,
           in_read(t) \/ read_io(t) \/ in_standby(t) \/ effect_refused(t)
             \/ force_input_standby(t)
    PROVE  Still(t)
  <1>1. hal' = hal
    BY DEF in_read, read_io, in_standby, effect_refused, force_input_standby
  <1>2. ~in_standby(t) => th[t].op # "close"
    BY ActiveTypes DEF in_read, read_io, effect_refused, force_input_standby, At,
       WellFormed
  <1>3. Steady(t)
    <2>1. CASE in_standby(t)
      BY <2>1, ActiveTypes DEF Steady, in_standby, EnterInputStandby, Goto, ThreadState
    <2>2. CASE ~in_standby(t)
      BY <1>2, <2>2, ActiveTypes DEF Steady, in_read, read_io, effect_refused, force_input_standby,
         ReturnUnlocked, Goto, Return
    <2>3. QED BY <2>1, <2>2
  <1>4. QED BY <1>1, <1>3, SameHal DEF Still

LEMMA ActiveStartInput ==
    ASSUME IInv, NEW t \in Threads, start_input_stream(t) \/ start_input_fails(t)
    PROVE  Steady(t) /\ OutMoves /\ InMoves
  <1>1. th[t].pc = "start_in" /\ th[t].tgt \in Ins /\ th[t].op # "close"
        /\ handle[th[t].tgt] = "open"
    BY ActiveTypes DEF start_input_stream, start_input_fails, At, WellFormed, InPcs,
       IInv, HalInvariant, HandlesKept
  <1>2. Steady(t)
    BY <1>1, ActiveTypes DEF Steady, start_input_stream, start_input_fails, Goto
  <1>3. NewReferences(th[t].tgt) \subseteq Refs \cup {None}
    BY DEF NewReferences
  <1>4. CASE start_input_stream(t)
    <2>1. PICK ref \in Refs \cup {None} : hal' = InputStarted(hal, th[t].tgt, ref)
      BY <1>3, <1>4 DEF start_input_stream
    <2>2. OutStays /\ InStarts
      BY <1>1, <2>1, ActiveTypes, InputStart DEF OutStays, InStarts, SameOutputs
    <2>3. QED BY <1>2, <2>2 DEF OutMoves, InMoves
  <1>5. CASE start_input_fails(t)
    <2>1. PICK ref \in Refs \cup {None} : hal' = InputFailed(hal, th[t].tgt, ref)
      BY <1>3, <1>5 DEF start_input_fails
    <2>2. OutStays /\ InGoes
      BY <1>1, <2>1, ActiveTypes, InputFail DEF OutStays, InGoes, SameOutputs
    <2>3. QED BY <1>2, <2>2 DEF OutMoves, InMoves
  <1>6. QED BY <1>4, <1>5

LEMMA ActiveInputStandby ==
    ASSUME IInv, NEW t \in Threads, input_standby(t)
    PROVE  Steady(t) /\ OutMoves /\ InMoves
  <1>1. th[t].pc = "in_stby" /\ th[t].tgt \in Ins
    BY ActiveTypes DEF input_standby, At, WellFormed, InPcs
  <1>2. Steady(t)
    BY ActiveTypes DEF Steady, input_standby, ReturnUnlocked, Goto, Return, ThreadState
  <1>3. hal' = do_input_standby(hal, th[t].tgt)
    BY DEF input_standby
  <1>4. OutMoves
    BY <1>1, <1>3, ActiveTypes, InputStandby DEF OutMoves, OutStays, SameOutputs
  <1>5. InMoves
    <2>1. CASE hal.in[th[t].tgt].standby
      BY <1>3, <2>1 DEF do_input_standby, InMoves, InStays
    <2>2. CASE ~hal.in[th[t].tgt].standby
      BY <1>1, <1>3, <2>2, ActiveTypes, InputStandby DEF InMoves, InGoes
    <2>3. QED BY <2>1, <2>2
  <1>6. QED BY <1>2, <1>4, <1>5

(* A change of an input's parameters or effects.                           *)
LEMMA ActiveFields ==
    ASSUME IInv, NEW i \in Ins, NEW new, hal' = [hal EXCEPT !.in[i] = new],
           new.standby = hal.in[i].standby
    PROVE  OutStays /\ InStays
  BY ActiveTypes DEF HalState, OutStays, InStays

LEMMA ActiveParameters ==
    ASSUME IInv, NEW t \in Threads, NEW source \in Sources \cup {None},
           NEW device \in MicSet \cup {None}, in_set_parameters(t, source, device)
    PROVE  Still(t)
  <1> DEFINE i == th[t].tgt
             new == [hal.in[i] EXCEPT
                       !.source = IF source \in {None, hal.in[i].source} THEN @ ELSE source,
                       !.device = IF device \in {None, hal.in[i].device} THEN @ ELSE device]
  <1>1. th[t].pc = "in_params" /\ i \in Ins /\ th[t].op # "close"
    BY ActiveTypes DEF in_set_parameters, At, WellFormed, InPcs
  <1>2. Steady(t)
    BY <1>1, ActiveTypes DEF Steady, in_set_parameters, EnterInputStandby, ReturnUnlocked, Goto, Return
  <1>3. hal \in HalState /\ hal.in[i] \in InState
    BY <1>1, ActiveTypes DEF HalState
  <1> HIDE DEF i
  <1>4. new.standby = hal.in[i].standby
    BY <1>3 DEF InState
  <1>5. hal' = [hal EXCEPT !.in[i] = new]
    BY <1>1, <1>3, ZenonT(90) DEF in_set_parameters, i, HalState, InState
  <1> HIDE DEF new
  <1>6. QED BY <1>1, <1>2, <1>4, <1>5, ActiveFields DEF Still

LEMMA ActiveAddEffect ==
    ASSUME IInv, NEW t \in Threads, NEW effect \in Effects,
           in_add_audio_effect(t, effect)
    PROVE  Still(t)
  <1> DEFINE i == th[t].tgt
             new == [hal.in[i] EXCEPT !.fx = @ \cup {effect},
                                      !.need = @ \/ effect = AEC]
  <1>1. th[t].pc = "add_effect" /\ i \in Ins /\ th[t].op # "close"
    BY ActiveTypes DEF in_add_audio_effect, At, WellFormed, InPcs
  <1>2. Steady(t)
    BY <1>1, ActiveTypes DEF Steady, in_add_audio_effect, EnterInputStandby, ReturnUnlocked, Goto,
       Return
  <1>3. hal \in HalState /\ hal.in[i] \in InState
    BY <1>1, ActiveTypes DEF HalState
  <1> HIDE DEF i
  <1>4. new.standby = hal.in[i].standby
    BY <1>3 DEF InState
  <1>5. hal' = [hal EXCEPT !.in[i] = new]
    BY <1>1, <1>3, ZenonT(90) DEF in_add_audio_effect, i, HalState, InState
  <1> HIDE DEF new
  <1>6. QED BY <1>1, <1>2, <1>4, <1>5, ActiveFields DEF Still

LEMMA ActiveRemoveEffect ==
    ASSUME IInv, NEW t \in Threads, NEW effect \in Effects, NEW described \in BOOLEAN,
           in_remove_audio_effect(t, effect, described)
    PROVE  Still(t)
  <1> DEFINE i == th[t].tgt
             new == [hal.in[i] EXCEPT !.fx = @ \ {effect},
                                      !.need = @ /\ ~(described /\ effect = AEC)]
  <1>1. th[t].pc = "remove_effect" /\ i \in Ins /\ th[t].op # "close"
    BY ActiveTypes DEF in_remove_audio_effect, At, WellFormed, InPcs
  <1>2. Steady(t)
    BY <1>1, ActiveTypes DEF Steady, in_remove_audio_effect, EnterInputStandby, ReturnUnlocked, Goto,
       Return
  <1>3. hal \in HalState /\ hal.in[i] \in InState
    BY <1>1, ActiveTypes DEF HalState
  <1> HIDE DEF i
  <1>4. new.standby = hal.in[i].standby
    BY <1>3 DEF InState
  <1>5. hal' = [hal EXCEPT !.in[i] = new]
    BY <1>1, <1>3, ZenonT(90) DEF in_remove_audio_effect, i, HalState, InState
  <1> HIDE DEF new
  <1>6. QED BY <1>1, <1>2, <1>4, <1>5, ActiveFields DEF Still

-----------------------------------------------------------------------------
(* The device.                                                             *)

LEMMA ActiveMode ==
    ASSUME IInv, NEW t \in Threads, NEW mode \in ModeSet, adev_set_mode(t, mode)
    PROVE  Still(t)
  <1>1. th[t].op # "close"
    BY DEF adev_set_mode, Idle
  <1>2. Steady(t)
    BY <1>1, ActiveTypes DEF Steady, adev_set_mode
  <1>3. /\ hal'.out = hal.out /\ hal'.in = hal.in
        /\ hal'.active_output = hal.active_output /\ hal'.active_input = hal.active_input
    BY ActiveTypes DEF adev_set_mode, HalState
  <1>4. QED BY <1>2, <1>3 DEF Still, OutStays, InStays

LEMMA ActiveVolume ==
    ASSUME IInv, NEW t \in Threads,
           \/ \E volume \in Volumes : adev_set_voice_volume(t, volume)
           \/ store_voice_volume(t) \/ write_voice_volume(t)
    PROVE  Still(t)
  <1>1. th[t].op # "close"
    BY ActiveTypes DEF adev_set_voice_volume, store_voice_volume, write_voice_volume, At,
       Idle, WellFormed
  <1>2. Steady(t)
    BY <1>1, ActiveTypes DEF Steady, adev_set_voice_volume, store_voice_volume, write_voice_volume,
       Goto, Return
  <1>3. /\ hal'.out = hal.out /\ hal'.in = hal.in
        /\ hal'.active_output = hal.active_output /\ hal'.active_input = hal.active_input
    BY ActiveTypes DEF adev_set_voice_volume, store_voice_volume, write_voice_volume,
       HalState
  <1>4. QED BY <1>2, <1>3 DEF Still, OutStays, InStays

LEMMA ActiveSelectMode ==
    ASSUME IInv, NEW t \in Threads, select_mode(t)
    PROVE  Still(t)
  <1>1. th[t].op # "close"
    BY ActiveTypes DEF select_mode, At, WellFormed, ModePcs
  <1>2. Steady(t)
    BY <1>1, ActiveTypes DEF Steady, select_mode, ReturnUnlocked, Return
  <1>3. /\ hal'.out = hal.out /\ hal'.in = hal.in
        /\ hal'.active_output = hal.active_output /\ hal'.active_input = hal.active_input
    <2>1. CASE hal.mode = "IN_CALL"
      <3>1. hal' = select_output_device(CallDevices(hal))
        BY <2>1 DEF select_mode
      <3>2. /\ CallDevices(hal) \in HalState
            /\ CallDevices(hal).out = hal.out /\ CallDevices(hal).in = hal.in
        BY ActiveTypes, CallDevicesType
      <3>3. /\ CallDevices(hal).active_output = hal.active_output
            /\ CallDevices(hal).active_input = hal.active_input
        BY ActiveTypes DEF CallDevices, HalState
      <3>4. QED BY <3>1, <3>2, <3>3, SelectOutput
    <2>2. CASE hal.mode # "IN_CALL"
      <3>1. hal' = select_input_device(select_output_device(hal))
        BY <2>2 DEF select_mode
      <3>2. QED BY <3>1, ActiveTypes, SelectOutput, SelectInput
    <2>3. QED BY <2>1, <2>2
  <1>4. QED BY <1>2, <1>3 DEF Still, OutStays, InStays

LEMMA ActiveTty ==
    ASSUME IInv, NEW t \in Threads, NEW tty_mode \in TtySet,
           adev_set_parameters(t, tty_mode)
    PROVE  Still(t)
  <1> DEFINE h == [hal EXCEPT !.tty_mode = tty_mode]
  <1>1. Steady(t)
    BY DEF Steady, adev_set_parameters
  <1>2. /\ h \in HalState /\ h.out = hal.out /\ h.in = hal.in
        /\ h.active_output = hal.active_output /\ h.active_input = hal.active_input
    BY ActiveTypes, InputsAssumption DEF HalState
  <1>3. hal' = h \/ hal' = select_output_device(h)
    BY DEF adev_set_parameters
  <1> HIDE DEF h
  <1>4. /\ hal'.out = hal.out /\ hal'.in = hal.in
        /\ hal'.active_output = hal.active_output /\ hal'.active_input = hal.active_input
    BY <1>2, <1>3, SelectOutput
  <1>5. QED BY <1>1, <1>4 DEF Still, OutStays, InStays

-----------------------------------------------------------------------------
(* Calls that begin, and the steps that open, close and free streams.      *)

LEMMA ActiveCall ==
    ASSUME IInv, NEW t \in Threads, NEW s \in Streams, CallOut(t, s) \/ CallIn(t, s)
    PROVE  Still(t)
  <1>1. hal' = hal /\ th[t] = Idle /\ handle' = handle
    BY DEF CallOut, CallIn, Call
  <1>2. Steady(t)
    BY <1>1, ActiveTypes DEF Steady, CallOut, CallIn, Call, Idle
  <1>3. QED BY <1>1, <1>2, SameHal DEF Still

LEMMA ActiveClose ==
    ASSUME IInv, ActiveKept, NEW t \in Threads, NEW s \in Streams, NEW pc,
           Close(t, s, pc)
    PROVE  ActiveKept'
  <1>1. /\ hal' = hal /\ handle[s] = "open"
        /\ handle' = [handle EXCEPT ![s] = "closing"]
        /\ th[t].op = "none"
        /\ th' = [th EXCEPT ![t] = [pc |-> pc, op |-> "close", tgt |-> s, vol |-> 0]]
    BY DEF Close, Call, Idle
  <1>2. ASSUME NEW r \in Streams, handle'[r] = "closing"
        PROVE  \E u \in Threads : th'[u].op = "close" /\ th'[u].tgt = r
    <2>1. CASE r = s
      BY <1>1, <2>1, ActiveTypes
    <2>2. CASE r # s
      <3>1. PICK u \in Threads : th[u].op = "close" /\ th[u].tgt = r
        BY <1>1, <1>2, <2>2, ActiveTypes DEF ActiveKept
      <3>2. th'[u] = th[u]
        BY <1>1, <3>1
      <3>3. QED BY <3>1, <3>2
    <2>3. QED BY <2>1, <2>2
  <1>3. \A r \in Streams : handle[r] # "closed" => handle'[r] # "closed"
    BY <1>1, ActiveTypes
  <1>4. QED BY <1>1, <1>2, <1>3, ActiveTypes DEF ActiveKept, Streams

(* A stream that is freed is in standby, so it is not the active one.      *)
LEMMA ActiveFree ==
    ASSUME IInv, ActiveKept, NEW t \in Threads, Free(t)
    PROVE  ActiveKept'
  <1> DEFINE s == th[t].tgt
  <1>1. s \in Streams /\ th[t].op = "close" /\ StandingBy(s)
    BY ActiveTypes DEF Free, At, WellFormed, IInv, HalInvariant, PcmKept
  <1>2. /\ handle' = [handle EXCEPT ![s] = "closed"] /\ th' = [th EXCEPT ![t] = Idle]
        /\ hal' = IF s \in Outs THEN [hal EXCEPT !.out[s] = NewOut]
                  ELSE [hal EXCEPT !.in[s] = NewIn("BUILTIN_MIC")]
    BY DEF Free, Return
  <1>3. /\ hal'.active_output = hal.active_output /\ hal'.active_input = hal.active_input
        /\ \A o \in Outs \ {s} : hal'.out[o] = hal.out[o]
        /\ \A i \in Ins \ {s} : hal'.in[i] = hal.in[i]
    BY <1>1, <1>2, ActiveTypes, StreamsAssumption DEF Streams, HalState
  <1>4. hal.active_output # s /\ hal.active_input # s
    BY <1>1, ActiveTypes, StreamsAssumption DEF ActiveKept, StandingBy, Streams
  <1>5. \A r \in Streams \ {s} : handle'[r] = handle[r]
    BY <1>2, ActiveTypes
  <1>6. ASSUME NEW r \in Streams, handle'[r] = "closing"
        PROVE  \E u \in Threads : th'[u].op = "close" /\ th'[u].tgt = r
    <2>1. r # s
      BY <1>1, <1>2, <1>6, ActiveTypes
    <2>2. PICK u \in Threads : th[u].op = "close" /\ th[u].tgt = r
      BY <1>5, <1>6, <2>1 DEF ActiveKept
    <2>3. u # t
      BY <2>1, <2>2
    <2>4. th'[u] = th[u]
      BY <1>2, <2>3, ActiveTypes
    <2>5. QED BY <2>2, <2>4
  <1> HIDE DEF s
  <1>7. QED BY <1>3, <1>4, <1>5, <1>6, ActiveTypes DEF ActiveKept, Streams

(* A stream that is opened was closed, so it is not the active one.        *)
LEMMA ActiveOpen ==
    ASSUME IInv, ActiveKept, NEW s \in Streams,
           \/ s \in Outs /\ adev_open_output_stream(s)
           \/ s \in Ins /\ adev_open_input_stream(s)
    PROVE  ActiveKept'
  <1>1. /\ handle[s] = "closed" /\ handle' = [handle EXCEPT ![s] = "open"] /\ th' = th
        /\ hal.active_output # s /\ hal.active_input # s
    BY StreamsAssumption DEF adev_open_output_stream, adev_open_input_stream, ActiveKept,
       Streams
  <1>2. /\ hal'.active_output = hal.active_output /\ hal'.active_input = hal.active_input
        /\ \A o \in Outs \ {s} : hal'.out[o] = hal.out[o]
        /\ \A i \in Ins \ {s} : hal'.in[i] = hal.in[i]
    <2>1. CASE s \in Outs /\ adev_open_output_stream(s)
      BY <2>1, ActiveTypes DEF adev_open_output_stream, HalState
    <2>2. CASE s \in Ins /\ adev_open_input_stream(s)
      <3>1. PICK d \in MicSet : hal' = [hal EXCEPT !.in[s] = NewIn(d)]
        BY <2>2 DEF adev_open_input_stream
      <3>2. QED BY <2>2, <3>1, ActiveTypes DEF HalState
    <2>3. QED BY <2>1, <2>2
  <1>3. \A r \in Streams : r # s => handle'[r] = handle[r]
    BY <1>1, ActiveTypes
  <1>4. handle'[s] = "open"
    BY <1>1, ActiveTypes
  <1>5. QED BY <1>1, <1>2, <1>3, <1>4, ActiveTypes DEF ActiveKept, Streams

-----------------------------------------------------------------------------
LEMMA ActiveContinue ==
    ASSUME IInv, ActiveKept, NEW t \in Threads, Continue(t)
    PROVE  ActiveKept'
  <1>1. CASE out_write(t) \/ start_output_stream(t) \/ start_output_fails(t)
             \/ write_io(t) \/ write_tail(t)
    BY <1>1, ActiveOutWrite, ActiveStartOutput, SteadyStep, StillStep
  <1>2. CASE (\E devices \in RouteSets : out_set_parameters(t, devices)) \/ out_standby(t)
    BY <1>2, ActiveRoute, ActiveOutStandby, SteadyStep, StillStep
  <1>3. CASE in_read(t) \/ start_input_stream(t) \/ start_input_fails(t) \/ read_io(t)
             \/ in_standby(t) \/ input_standby(t)
    BY <1>3, ActiveInRead, ActiveStartInput, ActiveInputStandby, SteadyStep, StillStep
  <1>4. CASE \E source \in Sources \cup {None}, device \in MicSet \cup {None} :
               in_set_parameters(t, source, device)
    BY <1>4, ActiveParameters, SteadyStep, StillStep
  <1>5. CASE \E effect \in Effects : in_add_audio_effect(t, effect)
    BY <1>5, ActiveAddEffect, SteadyStep, StillStep
  <1>6. CASE \E effect \in Effects, described \in BOOLEAN :
               in_remove_audio_effect(t, effect, described)
    BY <1>6, ActiveRemoveEffect, SteadyStep, StillStep
  <1>7. CASE effect_refused(t) \/ force_output_standby(t) \/ force_input_standby(t)
    BY <1>7, ActiveInRead, ActiveForceOutput, SteadyStep, StillStep
  <1>8. CASE select_mode(t) \/ store_voice_volume(t) \/ write_voice_volume(t) \/ Free(t)
    BY <1>8, ActiveSelectMode, ActiveVolume, ActiveFree, SteadyStep, StillStep
  <1>9. QED
    BY <1>1, <1>2, <1>3, <1>4, <1>5, <1>6, <1>7, <1>8 DEF Continue

LEMMA ActiveBegin ==
    ASSUME IInv, ActiveKept, NEW t \in Threads, Begin(t)
    PROVE  ActiveKept'
  <1>1. ASSUME NEW o \in Outs, CallOut(t, o) \/ adev_close_output_stream(t, o)
        PROVE  ActiveKept'
    BY <1>1, ActiveCall, ActiveClose, SteadyStep, StillStep DEF adev_close_output_stream, Streams
  <1>2. ASSUME NEW i \in Ins, CallIn(t, i) \/ adev_close_input_stream(t, i)
        PROVE  ActiveKept'
    BY <1>2, ActiveCall, ActiveClose, SteadyStep, StillStep DEF adev_close_input_stream, Streams
  <1>3. CASE \E mode \in ModeSet : adev_set_mode(t, mode)
    BY <1>3, ActiveMode, SteadyStep, StillStep
  <1>4. CASE \E volume \in Volumes : adev_set_voice_volume(t, volume)
    BY <1>4, ActiveVolume, SteadyStep, StillStep
  <1>5. CASE \E tty_mode \in TtySet : adev_set_parameters(t, tty_mode)
    BY <1>5, ActiveTty, SteadyStep, StillStep
  <1>6. QED
    BY <1>1, <1>2, <1>3, <1>4, <1>5 DEF Begin

LEMMA ActiveInductive ==
    ASSUME IInv, ActiveKept, [Next]_vars PROVE ActiveKept'
  <1>1. CASE \E t \in Threads : Begin(t) \/ Continue(t)
    BY <1>1, ActiveBegin, ActiveContinue
  <1>2. CASE \E o \in Outs : adev_open_output_stream(o)
    BY <1>2, ActiveOpen DEF Streams
  <1>3. CASE \E i \in Ins : adev_open_input_stream(i)
    BY <1>3, ActiveOpen DEF Streams
  <1>4. CASE UNCHANGED vars
    BY <1>4 DEF vars, ActiveKept
  <1>5. QED
    BY <1>1, <1>2, <1>3, <1>4 DEF Next

LEMMA ActiveInit == Init => ActiveKept
  <1> SUFFICES ASSUME Init PROVE ActiveKept
    OBVIOUS
  <1>1. \A s \in Streams : handle[s] = "closed"
    BY DEF Init
  <1>2. hal.active_output = None /\ hal.active_input = None
    <2>1. adev_open \in HalState
      <3>1. NewOut \in OutState /\ NewIn("BUILTIN_MIC") \in InState
        BY DEF NewOut, NewIn, OutState, InState, OutPcm, InDevices
      <3>2. BootMixer \in [Controls -> Settings]
        BY DEF BootMixer, Settings
      <3>3. set_route_by_array(BootMixer, route_speaker) \in [Controls -> Settings]
        BY <3>2, Tables, RouteType
      <3>4. QED BY <3>1, <3>3 DEF adev_open, HalState, Modes, OutDevices, InDevices,
                   TtyModes, MAX_VOICE_VOLUME
    <2>2. adev_open.active_output = None /\ adev_open.active_input = None
      BY DEF adev_open
    <2>3. QED BY <2>1, <2>2, SelectOutput DEF Init
  <1>3. QED BY <1>1, <1>2 DEF ActiveKept

(* With adev->lock free, active_output and active_input point to streams   *)
(* that are open and run, for any number of streams and threads: force_all_*)
(* standby, out_write and put_echo_reference never follow a dangling one.  *)
THEOREM ActiveStreamsLive == Spec => []ActiveLive
  <1>1. IInv /\ ActiveKept => ActiveLive
    <2> SUFFICES ASSUME IInv, ActiveKept, hw_lock = None
                 PROVE  /\ hal.active_output # None => handle[hal.active_output] = "open"
                        /\ hal.active_input # None => handle[hal.active_input] = "open"
      BY DEF ActiveLive, ActiveKept
    <2>1. ASSUME NEW s \in Streams, ~StandingBy(s), handle[s] = "closing"
          PROVE  FALSE
      <3>1. PICK t \in Threads : th[t].op = "close" /\ th[t].tgt = s
        BY <2>1 DEF ActiveKept
      <3>2. t # None /\ (hw_lock = t <=> OwnsHw(th[t])) /\ WellFormed(th[t])
        BY StreamsAssumption DEF IInv, HalInvariant, LocksHeld
      <3>3. th[t].pc = "free"
        BY <3>1, <3>2 DEF OwnsHw, WellFormed
      <3>4. QED BY <2>1, <3>1, <3>3 DEF IInv, HalInvariant, PcmKept
    <2>2. \A s \in Streams : handle[s] \in {"closed", "open", "closing"}
      BY DEF IInv, TypeOK
    <2>3. hal.active_output # None => ~StandingBy(hal.active_output)
      BY ActiveTypes DEF ActiveKept, StandingBy
    <2>4. hal.active_input # None => ~StandingBy(hal.active_input)
      BY ActiveTypes, StreamsAssumption DEF ActiveKept, StandingBy
    <2>5. QED BY <2>1, <2>2, <2>3, <2>4, ActiveTypes DEF ActiveKept, Streams
  <1>2. Init => ActiveKept
    BY ActiveInit
  <1>3. IInv /\ ActiveKept /\ [Next]_vars => ActiveKept'
    BY ActiveInductive
  <1>4. Spec => []IInv
    BY Reachable
  <1>5. QED BY <1>1, <1>2, <1>3, <1>4, PTL DEF Spec

-----------------------------------------------------------------------------
(* The refinement of PcmStreams: the phase of at most one stream changes   *)
(* in a step, in one of the ways of PcmStreams.                            *)

IO == {"write_io", "read_io"}

Peer(s) == (IF s \in Outs THEN Outs ELSE Ins) \ {s}

Moved(s) ==
    /\ \A r \in Streams \ {s} : Phase(r)' = Phase(r)
    /\ \/ Phase(s) = "closed" /\ Phase(s)' = "standby"
       \/ /\ Phase(s) = "standby" /\ Phase(s)' = "transfer"
          /\ \A p \in Peer(s) : Phase(p) \in {"closed", "standby"}
       \/ Phase(s) = "running" /\ Phase(s)' \in {"transfer", "standby"}
       \/ Phase(s) = "transfer" /\ Phase(s)' = "running"
       \/ Phase(s) = "standby" /\ Phase(s)' = "closed"

Mapped ==
    \/ \A s \in Streams : Phase(s)' = Phase(s)
    \/ \E s \in Streams : Moved(s)

LEMMA MappedStep ==
    ASSUME Mapped
    PROVE  [Pcm!Next]_[s \in Streams |-> Phase(s)]
  <1> DEFINE phase == [s \in Streams |-> Phase(s)]
  <1>1. CASE \A s \in Streams : Phase(s)' = Phase(s)
    <2>1. phase' = phase
      BY <1>1
    <2>2. QED BY <2>1
  <1>2. ASSUME NEW s \in Streams, Moved(s)
        PROVE  Pcm!Next
    <2>1. ASSUME NEW to, Phase(s)' = to
          PROVE  phase' = [phase EXCEPT ![s] = to]
      BY <1>2, <2>1 DEF Moved
    <2>2. \A r \in Streams : phase[r] = Phase(r)
      OBVIOUS
    <2>3. Pcm!Peers(s) = Peer(s) /\ Peer(s) \subseteq Streams
      BY DEF Pcm!Peers, Peer, Streams
    <2> HIDE DEF phase
    <2>4. \/ Pcm!Open(s) \/ Pcm!Start(s) \/ Pcm!Resume(s) \/ Pcm!Done(s) \/ Pcm!Stop(s)
          \/ Pcm!Close(s)
      BY <1>2, <2>1, <2>2, <2>3 DEF Moved, phase, Pcm!Open, Pcm!Start, Pcm!Resume,
         Pcm!Done, Pcm!Stop, Pcm!Close, Pcm!Step
    <2>5. QED BY <2>4 DEF Pcm!Next, Pcm!Streams, Streams
  <1>3. QED BY <1>1, <1>2 DEF Mapped

(* Only t moves.                                                           *)
Alone(t) == \A u \in Threads \ {t} : th'[u] = th[u]

(* No stream is stopped that another thread has locked.                    *)
Stops(s) ==
    /\ StandingBy(s)'
    /\ \A r \in Streams \ {s} : StandingBy(r)' = StandingBy(r)

(* A thread that transfers samples has the lock of its stream.             *)
LEMMA TransferLocked ==
    ASSUME IInv, NEW u \in Threads, NEW s \in Streams, th[u].tgt = s, th[u].pc \in IO
    PROVE  lock[s] = u /\ handle[s] = "open" /\ ~StandingBy(s)
  <1>1. lock[s] = u
    BY DEF IInv, HalInvariant, LocksHeld, OwnsStream, IO
  <1>2. handle[s] = "open"
    BY DEF IInv, HalInvariant, HandlesKept, IO
  <1>3. CASE th[u].pc = "write_io"
    BY <1>1, <1>2, <1>3, ActiveTypes
       DEF WellFormed, OutPcs, IInv, HalInvariant, PcmSafe, StandingBy
  <1>4. CASE th[u].pc = "read_io"
    BY <1>1, <1>2, <1>4, ActiveTypes, StreamsAssumption
       DEF WellFormed, InPcs, IInv, HalInvariant, PcmSafe, StandingBy
  <1>5. QED BY <1>3, <1>4 DEF IO

LEMMA QuietStep ==
    ASSUME IInv, NEW t \in Threads, Alone(t), th[t].pc \notin IO, th'[t].pc \notin IO,
           \A s \in Streams : handle'[s] = "closed" <=> handle[s] = "closed",
           \/ \A s \in Streams : StandingBy(s)' = StandingBy(s)
           \/ \E s \in Streams : lock[s] \in {t, None} /\ Stops(s)
    PROVE  Mapped
  <1>1. \A s \in Streams : Transferring(s)' <=> Transferring(s)
    BY DEF Transferring, Alone, IO
  <1>2. ASSUME NEW s \in Streams, StandingBy(s)' = StandingBy(s)
        PROVE  Phase(s)' = Phase(s)
    BY <1>1, <1>2 DEF Phase
  <1>3. ASSUME NEW s \in Streams, lock[s] \in {t, None}, Stops(s)
        PROVE  Phase(s)' = Phase(s) \/ Moved(s)
    <2>1. ~Transferring(s)
      <3>1. SUFFICES ASSUME NEW u \in Threads, th[u].tgt = s, th[u].pc \in IO
                     PROVE  FALSE
        BY DEF Transferring, IO
      <3>2. lock[s] = u /\ u # None
        BY <3>1, TransferLocked, StreamsAssumption
      <3>3. QED BY <1>3, <3>1, <3>2
    <2>2. Phase(s)' \in {Phase(s), "standby"}
      BY <1>3 DEF Phase, Stops
    <2>3. Phase(s)' # Phase(s) => Phase(s) = "running" /\ Phase(s)' = "standby"
      BY <1>3, <2>1, <2>2 DEF Phase, Stops
    <2>4. \A r \in Streams \ {s} : Phase(r)' = Phase(r)
      BY <1>2, <1>3 DEF Stops
    <2>5. QED BY <2>3, <2>4 DEF Moved
  <1>4. QED BY <1>2, <1>3 DEF Mapped, Stops

LEMMA EnterStep ==
    ASSUME IInv, NEW t \in Threads, Alone(t), handle' = handle, NEW s \in Streams,
           th[t].tgt = s, th'[t].tgt = s, th[t].pc \notin IO, th'[t].pc \in IO,
           handle[s] = "open", lock[s] \in {t, None}, ~StandingBy(s)',
           \A r \in Streams \ {s} : StandingBy(r)' = StandingBy(r),
           StandingBy(s) => \A p \in Peer(s) : StandingBy(p)
    PROVE  Mapped
  <1>1. ~Transferring(s)
    <2>1. SUFFICES ASSUME NEW u \in Threads, th[u].tgt = s, th[u].pc \in IO
                   PROVE  FALSE
      BY DEF Transferring, IO
    <2>2. lock[s] = u /\ u # None
      BY <2>1, TransferLocked, StreamsAssumption
    <2>3. QED BY <2>1, <2>2
  <1>2. Transferring(s)'
    BY DEF Transferring, IO
  <1>3. \A r \in Streams \ {s} : Transferring(r)' <=> Transferring(r)
    BY DEF Transferring, Alone
  <1>4. Phase(s)' = "transfer" /\ Phase(s) = IF StandingBy(s) THEN "standby" ELSE "running"
    BY <1>1, <1>2 DEF Phase
  <1>5. \A r \in Streams \ {s} : Phase(r)' = Phase(r)
    BY <1>3 DEF Phase
  <1>6. StandingBy(s) => \A p \in Peer(s) : Phase(p) \in {"closed", "standby"}
    BY DEF Phase
  <1>7. QED BY <1>4, <1>5, <1>6 DEF Mapped, Moved

LEMMA LeaveStep ==
    ASSUME IInv, NEW t \in Threads, Alone(t), handle' = handle, hal' = hal,
           NEW s \in Streams, th[t].tgt = s, th[t].pc \in IO, th'[t].pc \notin IO
    PROVE  Mapped
  <1>1. lock[s] = t /\ handle[s] = "open" /\ ~StandingBy(s)
    BY TransferLocked
  <1>2. Transferring(s)
    BY DEF Transferring, IO
  <1>3. ~Transferring(s)'
    <2>1. SUFFICES ASSUME NEW u \in Threads, th'[u].tgt = s, th'[u].pc \in IO
                   PROVE  FALSE
      BY DEF Transferring, IO
    <2>2. u # t /\ th[u] = th'[u]
      BY <2>1 DEF Alone
    <2>3. QED BY <1>1, <2>1, <2>2, TransferLocked
  <1>4. \A r \in Streams \ {s} : Transferring(r)' <=> Transferring(r)
    BY DEF Transferring, Alone, IO
  <1>5. \A r \in Streams : StandingBy(r)' = StandingBy(r)
    BY DEF StandingBy
  <1>6. Phase(s) = "transfer" /\ Phase(s)' = "running"
    BY <1>1, <1>2, <1>3, <1>5 DEF Phase
  <1>7. \A r \in Streams \ {s} : Phase(r)' = Phase(r)
    BY <1>4, <1>5 DEF Phase
  <1>8. QED BY <1>6, <1>7 DEF Mapped, Moved

(* Opening and freeing change the phase of a stream in standby.            *)
LEMMA HandleMoves ==
    ASSUME NEW s \in Streams, \A r \in Streams : Transferring(r)' <=> Transferring(r),
           \A r \in Streams \ {s} :
             handle'[r] = handle[r] /\ StandingBy(r)' = StandingBy(r),
           \/ handle[s] = "closed" /\ handle'[s] = "open" /\ StandingBy(s)'
           \/ handle[s] = "closing" /\ handle'[s] = "closed" /\ StandingBy(s)
    PROVE  Mapped
  <1>1. \A r \in Streams \ {s} : Phase(r)' = Phase(r)
    BY DEF Phase
  <1>2. \/ Phase(s) = "closed" /\ Phase(s)' = "standby"
        \/ Phase(s) = "standby" /\ Phase(s)' = "closed"
    BY DEF Phase
  <1>3. QED BY <1>1, <1>2 DEF Mapped, Moved

-----------------------------------------------------------------------------
(* Which streams a step puts in standby.                                   *)

StandStill == \A s \in Streams : StandingBy(s)' = StandingBy(s)

LEMMA NobodyStops == ASSUME OutStays, InStays PROVE StandStill
  BY DEF StandStill, StandingBy, Streams, OutStays, InStays

LEMMA OutputStops ==
    ASSUME NEW o \in Outs, hal'.out[o].standby, hal'.in = hal.in,
           \A p \in Outs \ {o} : hal'.out[p].standby = hal.out[p].standby
    PROVE  Stops(o)
  BY StreamsAssumption DEF Stops, StandingBy, Streams

LEMMA InputStops ==
    ASSUME NEW i \in Ins, hal'.in[i].standby,
           \A o \in Outs : hal'.out[o].standby = hal.out[o].standby,
           \A j \in Ins \ {i} : hal'.in[j].standby = hal.in[j].standby
    PROVE  Stops(i)
  BY StreamsAssumption DEF Stops, StandingBy, Streams

(* The thread that takes a step that is not an end of a transfer.          *)
LEMMA StillMapped ==
    ASSUME IInv, NEW t \in Threads, Still(t), th[t].pc \notin IO, th'[t].pc \notin IO
    PROVE  Mapped
  <1>1. Alone(t) /\ handle' = handle
    BY DEF Still, Steady, Alone
  <1>2. StandStill
    BY NobodyStops DEF Still
  <1>3. QED BY <1>1, <1>2, QuietStep DEF StandStill

LEMMA SteadyMapped ==
    ASSUME IInv, NEW t \in Threads, Steady(t), th[t].pc \notin IO, th'[t].pc \notin IO,
           StandStill \/ \E s \in Streams : lock[s] \in {t, None} /\ Stops(s)
    PROVE  Mapped
  <1>1. Alone(t) /\ handle' = handle
    BY DEF Steady, Alone
  <1>2. QED BY <1>1, QuietStep DEF StandStill

-----------------------------------------------------------------------------
LEMMA MappedOutWrite ==
    ASSUME IInv, NEW t \in Threads, out_write(t) PROVE Mapped
  <1>1. PICK o \in Outs : th[t].tgt = o
    BY ActiveTypes DEF out_write, At, WellFormed, OutPcs
  <1>2. th[t].pc = "write" /\ handle[o] = "open" /\ lock[o] = None
    BY <1>1 DEF out_write, At, WaitsFor, IInv, HalInvariant, HandlesKept
  <1>3. th' = [th EXCEPT ![t].pc = "write_io"] /\ hal' = hal /\ handle' = handle
        /\ ~hal.out[o].standby
    BY <1>1 DEF out_write, Goto
  <1>4. th'[t].pc = "write_io" /\ th'[t].tgt = o
    BY <1>1, <1>3, ActiveTypes DEF ThreadState
  <1>5. Alone(t)
    BY <1>3, ActiveTypes DEF Alone
  <1>6. ~StandingBy(o) /\ ~StandingBy(o)' /\ \A s \in Streams : StandingBy(s)' = StandingBy(s)
    BY <1>3 DEF StandingBy
  <1>7. QED BY <1>1, <1>2, <1>3, <1>4, <1>5, <1>6, EnterStep DEF Streams, IO

LEMMA MappedStartOutput ==
    ASSUME IInv, NEW t \in Threads, start_output_stream(t) PROVE Mapped
  <1>0. PICK o \in Outs : th[t].tgt = o
    BY ActiveTypes DEF start_output_stream, At, WellFormed, OutPcs
  <1>1. th[t].pc = "write" /\ o \in Outs /\ handle[o] = "open" /\ lock[o] = None
    BY <1>0, ActiveTypes DEF start_output_stream, At, WaitsFor, WellFormed, OutPcs, IInv,
       HalInvariant, HandlesKept
  <1>2. hal' = OutputStarted(hal, o) /\ handle' = handle /\ OutPcmFree(hal, o)
    BY <1>0 DEF start_output_stream
  <1>3. th'[t].pc = "write_io" /\ th'[t].tgt = o
    BY <1>0, ActiveTypes DEF start_output_stream, ThreadState
  <1>4. Alone(t)
    BY <1>0, ActiveTypes DEF Alone, start_output_stream
  <1>5. /\ ~hal'.out[o].standby /\ hal'.in = hal.in
        /\ \A p \in Outs \ {o} : hal'.out[p] = hal.out[p]
    BY <1>0, <1>1, <1>2, ActiveTypes, OutputStart
  <1>6. \A p \in Outs \ {o} : hal.out[p].standby
    BY <1>0, <1>2, ActiveTypes DEF OutPcmFree, IInv, HalInvariant, PcmKept, HalState, OutState
  <1>7. ~StandingBy(o)' /\ \A s \in Streams \ {o} : StandingBy(s)' = StandingBy(s)
    BY <1>0, <1>1, <1>5 DEF StandingBy, Streams
  <1>8. \A p \in Peer(o) : StandingBy(p)
    BY <1>0, <1>1, <1>6 DEF Peer, StandingBy
  <1>9. QED BY <1>0, <1>1, <1>2, <1>3, <1>4, <1>7, <1>8, EnterStep DEF Streams, IO

LEMMA MappedOutputFails ==
    ASSUME IInv, NEW t \in Threads, start_output_fails(t) PROVE Mapped
  <1>1. th[t].pc = "write" /\ th[t].tgt \in Outs
    BY ActiveTypes DEF start_output_fails, At, WellFormed, OutPcs
  <1>2. Steady(t)
    BY ActiveStartOutput
  <1>3. th'[t].pc = "idle"
    BY ActiveTypes DEF start_output_fails, ReturnUnlocked, Return, Idle
  <1>4. hal' = OutputFailed(hal, th[t].tgt)
    BY DEF start_output_fails
  <1>5. hal'.in = hal.in /\ \A o \in Outs : hal'.out[o].standby = hal.out[o].standby
    BY <1>1, <1>4, ActiveTypes, OutputFail
  <1>6. StandStill
    BY <1>5 DEF StandStill, StandingBy, Streams
  <1>7. QED BY <1>1, <1>2, <1>3, <1>6, SteadyMapped DEF IO

LEMMA MappedTransfer ==
    ASSUME IInv, NEW t \in Threads, write_io(t) \/ (read_io(t) /\ th[t].pc = "read_io")
    PROVE  Mapped
  <1>1. th[t].pc \in IO /\ th[t].tgt \in Streams
    BY ActiveTypes DEF write_io, At, WellFormed, OutPcs, InPcs, IO, Streams
  <1>2. hal' = hal /\ handle' = handle /\ Alone(t)
    BY ActiveTypes DEF write_io, read_io, Goto, Return, Alone
  <1>3. th'[t].pc \in {"idle", "write_tail"}
    BY ActiveTypes DEF write_io, read_io, Goto, Return, Idle, ThreadState
  <1>4. QED BY <1>1, <1>2, <1>3, LeaveStep DEF IO

(* write_tail, and the end of a read that slept.                           *)
LEMMA MappedAfter ==
    ASSUME IInv, NEW t \in Threads, write_tail(t) \/ (read_io(t) /\ th[t].pc = "read_sleep")
    PROVE  Mapped
  <1>1. th[t].pc \notin IO
    BY DEF write_tail, At, IO
  <1>2. th'[t].pc \in {"idle", "force"}
    <2>1. CASE th' = [th EXCEPT ![t] = Idle]
      BY <2>1, ActiveTypes DEF Idle
    <2>2. CASE th' = [th EXCEPT ![t] = [Idle EXCEPT !.pc = "force", !.tgt = hal.active_input]]
      BY <2>2, ActiveTypes DEF Idle
    <2>3. QED BY <2>1, <2>2 DEF write_tail, read_io, Return
  <1>3. Still(t)
    BY ActiveOutWrite, ActiveInRead
  <1>4. QED BY <1>1, <1>2, <1>3, StillMapped DEF IO

LEMMA MappedRoute ==
    ASSUME IInv, NEW t \in Threads, NEW devices \in RouteSets,
           out_set_parameters(t, devices)
    PROVE  Mapped
  <1>0. PICK o \in Outs : th[t].tgt = o
    BY ActiveTypes DEF out_set_parameters, At, WellFormed, OutPcs
  <1> DEFINE h == IF o = hal.active_output THEN do_output_standby(hal, o) ELSE hal
             r == [h EXCEPT !.out_device = devices]
  <1>1. th[t].pc = "route" /\ o \in Outs /\ lock[o] = None
    BY <1>0, ActiveTypes DEF out_set_parameters, At, WaitsFor, WellFormed, OutPcs
  <1>2. Steady(t)
    BY ActiveRoute
  <1>3. th'[t].pc \in {"idle", "force"}
    BY ActiveTypes DEF out_set_parameters, ReturnUnlocked, Return, Idle, ThreadState
  <1>4. /\ h \in HalState /\ h.in = hal.in
        /\ \A p \in Outs \ {o} : h.out[p] = hal.out[p]
        /\ h.out[o].standby = hal.out[o].standby \/ h.out[o].standby
    BY <1>1, ActiveTypes, OutputStandby
  <1>5. hal' = hal \/ hal' = select_output_device(r)
    BY <1>0 DEF out_set_parameters
  <1> HIDE DEF h
  <1>6. r \in HalState /\ r.out = h.out /\ r.in = h.in
    BY <1>4, InputsAssumption DEF HalState
  <1> HIDE DEF r
  <1>7. CASE hal' = hal
    BY <1>1, <1>2, <1>3, <1>7, SteadyMapped, SameHal, NobodyStops DEF IO
  <1>8. CASE hal' = select_output_device(r)
    <2>1. hal'.out = h.out /\ hal'.in = h.in
      BY <1>6, <1>8, SelectOutput
    <2>2. CASE h.out[o].standby = hal.out[o].standby
      <3>1. StandStill
        BY <1>4, <2>1, <2>2 DEF StandStill, StandingBy, Streams
      <3>2. QED BY <1>1, <1>2, <1>3, <3>1, SteadyMapped DEF IO
    <2>3. CASE h.out[o].standby
      <3>1. Stops(o)
        BY <1>1, <1>4, <2>1, <2>3, OutputStops
      <3>2. QED BY <1>1, <1>2, <1>3, <3>1, SteadyMapped DEF IO, Streams
    <2>4. QED BY <1>4, <2>2, <2>3
  <1>9. QED BY <1>5, <1>7, <1>8

LEMMA MappedOutStandby ==
    ASSUME IInv, NEW t \in Threads, out_standby(t) PROVE Mapped
  <1>0. PICK o \in Outs : th[t].tgt = o
    BY ActiveTypes DEF out_standby, At, WellFormed, OutPcs
  <1>1. th[t].pc = "out_standby" /\ o \in Outs /\ lock[o] = None
    BY <1>0, ActiveTypes DEF out_standby, At, WaitsFor, WellFormed, OutPcs
  <1>2. Steady(t)
    BY <1>0, ActiveOutStandby
  <1>3. th'[t].pc \in {"idle", "free"}
    BY <1>0, ActiveTypes DEF out_standby, Goto, Return, Idle, ThreadState
  <1>4. hal' = do_output_standby(hal, o)
    BY <1>0 DEF out_standby
  <1>5. Stops(o)
    <2>1. /\ hal'.out[o].standby /\ hal'.in = hal.in
          /\ \A p \in Outs \ {o} : hal'.out[p].standby = hal.out[p].standby
      BY <1>4, ActiveTypes, OutputStandby
    <2>2. QED BY <2>1, OutputStops
  <1>6. QED BY <1>0, <1>1, <1>2, <1>3, <1>5, SteadyMapped DEF IO, Streams

LEMMA MappedForceOutput ==
    ASSUME IInv, NEW t \in Threads, force_output_standby(t) PROVE Mapped
  <1>1. th[t].pc = "mode_out"
    BY DEF force_output_standby, At
  <1>2. Steady(t)
    BY ActiveForceOutput
  <1>3. th'[t].pc = "mode_in"
    BY ActiveTypes DEF force_output_standby, Goto, ThreadState
  <1>4. CASE hal.active_output = None
    <2>1. hal' = hal
      BY <1>4 DEF force_output_standby
    <2>2. QED BY <1>1, <1>2, <1>3, <2>1, SameHal, NobodyStops, SteadyMapped DEF IO
  <1>5. CASE hal.active_output # None
    <2>1. PICK o \in Outs : hal.active_output = o
      BY <1>5, ActiveTypes
    <2>2. lock[o] = None /\ hal' = do_output_standby(hal, o)
      BY <1>1, <1>5, <2>1 DEF force_output_standby, At, WaitsFor, ActiveOutputLock
    <2>3. Stops(o)
      <3>1. /\ hal'.out[o].standby /\ hal'.in = hal.in
            /\ \A p \in Outs \ {o} : hal'.out[p].standby = hal.out[p].standby
        BY <2>2, ActiveTypes, OutputStandby
      <3>2. QED BY <3>1, OutputStops
    <2>4. QED BY <1>1, <1>2, <1>3, <2>2, <2>3, SteadyMapped DEF IO, Streams
  <1>6. QED BY <1>4, <1>5

-----------------------------------------------------------------------------
LEMMA MappedInRead ==
    ASSUME IInv, NEW t \in Threads, in_read(t) PROVE Mapped
  <1>0. PICK i \in Ins : th[t].tgt = i
    BY ActiveTypes DEF in_read, At, WellFormed, InPcs
  <1>1. th[t].pc = "read" /\ i \in Ins /\ handle[i] = "open" /\ lock[i] = None
    BY <1>0, ActiveTypes DEF in_read, At, WaitsFor, WellFormed, InPcs, IInv, HalInvariant, HandlesKept
  <1>2. hal' = hal /\ handle' = handle /\ Alone(t)
    BY <1>0, ActiveTypes DEF in_read, Goto, Alone
  <1>3. CASE hal.in[i].standby
    <2>1. th'[t].pc = "start_in"
      BY <1>0, <1>3, ActiveTypes DEF in_read, Goto, ThreadState
    <2>2. Still(t)
      BY <1>0, ActiveInRead
    <2>3. QED BY <1>0, <1>1, <2>1, <2>2, StillMapped DEF IO
  <1>4. CASE ~hal.in[i].standby
    <2>1. th'[t].pc = "read_io" /\ th'[t].tgt = i
      BY <1>0, <1>4, ActiveTypes DEF in_read, Goto, ThreadState
      <2>2. ~StandingBy(i) /\ ~StandingBy(i)' /\ \A s \in Streams : StandingBy(s)' = StandingBy(s)
      BY <1>0, <1>1, <1>2, <1>4, StreamsAssumption DEF StandingBy
    <2>3. QED BY <1>0, <1>1, <1>2, <2>1, <2>2, EnterStep DEF Streams, IO
  <1>5. QED BY <1>0, <1>3, <1>4

LEMMA MappedStartInput ==
    ASSUME IInv, NEW t \in Threads, start_input_stream(t) PROVE Mapped
  <1>0. PICK i \in Ins : th[t].tgt = i
    BY ActiveTypes DEF start_input_stream, At, WellFormed, InPcs
  <1>1. th[t].pc = "start_in" /\ i \in Ins /\ handle[i] = "open" /\ lock[i] = t
    BY <1>0, ActiveTypes DEF start_input_stream, At, WellFormed, InPcs, IInv, HalInvariant,
       HandlesKept, LocksHeld, OwnsStream, Streams
  <1>2. PICK ref \in Refs \cup {None} : hal' = InputStarted(hal, i, ref)
    BY <1>0 DEF start_input_stream, NewReferences
  <1>3. handle' = handle /\ InPcmFree(hal, i)
    BY <1>0 DEF start_input_stream
  <1>4. th'[t].pc = "read_io" /\ th'[t].tgt = i
    BY <1>0, ActiveTypes DEF start_input_stream, Goto, ThreadState
  <1>5. Alone(t)
    BY <1>0, ActiveTypes DEF Alone, start_input_stream, Goto
  <1>6. /\ ~hal'.in[i].standby
        /\ \A o \in Outs : hal'.out[o].standby = hal.out[o].standby
        /\ \A j \in Ins \ {i} : hal'.in[j].standby = hal.in[j].standby
    BY <1>0, <1>1, <1>2, ActiveTypes, InputStart DEF SameOutputs
  <1>7. \A j \in Ins \ {i} : hal.in[j].standby
    BY <1>0, <1>3, ActiveTypes DEF InPcmFree, IInv, HalInvariant, PcmKept, HalState, InState
  <1>8. ~StandingBy(i)' /\ \A s \in Streams \ {i} : StandingBy(s)' = StandingBy(s)
    BY <1>0, <1>1, <1>6, StreamsAssumption DEF StandingBy, Streams
  <1>9. \A p \in Peer(i) : StandingBy(p)
    BY <1>0, <1>1, <1>7, StreamsAssumption DEF Peer, StandingBy
  <1>10. QED BY <1>0, <1>1, <1>3, <1>4, <1>5, <1>8, <1>9, EnterStep DEF Streams, IO

LEMMA MappedInputFails ==
    ASSUME IInv, NEW t \in Threads, start_input_fails(t) PROVE Mapped
  <1>1. th[t].pc = "start_in" /\ th[t].tgt \in Ins
    BY ActiveTypes DEF start_input_fails, At, WellFormed, InPcs
  <1>2. PICK ref \in Refs \cup {None} : hal' = InputFailed(hal, th[t].tgt, ref)
    BY DEF start_input_fails, NewReferences
  <1>3. Steady(t)
    BY ActiveStartInput
  <1>4. th'[t].pc = "read_sleep"
    BY ActiveTypes DEF start_input_fails, Goto, ThreadState
  <1>5. /\ \A o \in Outs : hal'.out[o].standby = hal.out[o].standby
        /\ \A j \in Ins : hal'.in[j].standby = hal.in[j].standby
    BY <1>1, <1>2, ActiveTypes, InputFail DEF SameOutputs
  <1>6. StandStill
    BY <1>5 DEF StandStill, StandingBy, Streams
  <1>7. QED BY <1>1, <1>3, <1>4, <1>6, SteadyMapped DEF IO

LEMMA MappedInputStandby ==
    ASSUME IInv, NEW t \in Threads, input_standby(t) PROVE Mapped
  <1>0. PICK i \in Ins : th[t].tgt = i
    BY ActiveTypes DEF input_standby, At, WellFormed, InPcs
  <1>1. th[t].pc = "in_stby" /\ i \in Ins /\ lock[i] = t
    BY <1>0, ActiveTypes DEF input_standby, At, WellFormed, InPcs, IInv, HalInvariant,
       LocksHeld, OwnsStream, Streams
  <1>2. Steady(t)
    BY <1>0, ActiveInputStandby
  <1>3. th'[t].pc \in {"idle", "free", "mode_select"}
    BY <1>0, ActiveTypes DEF input_standby, ReturnUnlocked, Goto, Return, Idle, ThreadState
  <1>4. hal' = do_input_standby(hal, i)
    BY <1>0 DEF input_standby
  <1>5. Stops(i)
    <2>1. /\ hal'.in[i].standby
          /\ \A o \in Outs : hal'.out[o].standby = hal.out[o].standby
          /\ \A j \in Ins \ {i} : hal'.in[j].standby = hal.in[j].standby
      BY <1>4, ActiveTypes, InputStandby DEF SameOutputs
    <2>2. QED BY <2>1, InputStops
  <1>6. QED BY <1>0, <1>1, <1>2, <1>3, <1>5, SteadyMapped DEF IO, Streams

(* The steps that neither transfer nor stop.                               *)
LEMMA MappedInputCalls ==
    ASSUME IInv, NEW t \in Threads,
           \/ in_standby(t) \/ effect_refused(t) \/ force_input_standby(t)
           \/ \E source \in Sources \cup {None}, device \in MicSet \cup {None} :
                in_set_parameters(t, source, device)
           \/ \E effect \in Effects : in_add_audio_effect(t, effect)
           \/ \E effect \in Effects, described \in BOOLEAN :
                in_remove_audio_effect(t, effect, described)
    PROVE  Mapped
  <1>1. th[t].pc \notin IO
    BY DEF in_standby, effect_refused, force_input_standby, in_set_parameters,
       in_add_audio_effect, in_remove_audio_effect, At, IO
  <1>2. th'[t].pc \in {"idle", "in_stby", "mode_select"}
    <2>1. ASSUME NEW pc \in {"in_stby", "mode_select"}, Goto(t, pc) PROVE th'[t].pc = pc
      BY <2>1, ActiveTypes DEF Goto, ThreadState
    <2>2. Return(t) => th'[t].pc = "idle"
      BY ActiveTypes DEF Return, Idle
    <2>3. CASE force_input_standby(t)
      BY <2>1, <2>3, ActiveTypes DEF force_input_standby, ThreadState
    <2>4. CASE ~force_input_standby(t)
      <3>1. Goto(t, "in_stby") \/ Return(t)
        BY <2>4 DEF in_standby, effect_refused, in_set_parameters, in_add_audio_effect,
           in_remove_audio_effect, EnterInputStandby, ReturnUnlocked
      <3>2. QED BY <2>1, <2>2, <3>1
    <2>5. QED BY <2>3, <2>4
  <1>3. Still(t)
    BY ActiveInRead, ActiveParameters, ActiveAddEffect, ActiveRemoveEffect
  <1>4. QED BY <1>1, <1>2, <1>3, StillMapped DEF IO

LEMMA MappedDevice ==
    ASSUME IInv, NEW t \in Threads,
           \/ select_mode(t) \/ store_voice_volume(t) \/ write_voice_volume(t)
           \/ \E mode \in ModeSet : adev_set_mode(t, mode)
           \/ \E volume \in Volumes : adev_set_voice_volume(t, volume)
           \/ \E tty_mode \in TtySet : adev_set_parameters(t, tty_mode)
    PROVE  Mapped
  <1>1. Still(t)
    BY ActiveSelectMode, ActiveVolume, ActiveMode, ActiveTty
  <1>2. CASE th'[t] = th[t]
    <2>1. handle' = handle /\ \A u \in Threads : th'[u] = th[u]
      BY <1>1, <1>2 DEF Still, Steady
    <2>2. \A s \in Streams : Phase(s)' = Phase(s)
      BY <1>1, <2>1, NobodyStops DEF Phase, Transferring, Still, StandStill
    <2>3. QED BY <2>2 DEF Mapped
  <1>3. CASE th'[t] # th[t]
    <2>1. th' # th
      BY <1>3
    <2>2. th[t].pc \notin IO
      <3>1. CASE select_mode(t) \/ store_voice_volume(t) \/ write_voice_volume(t)
        BY <3>1 DEF select_mode, store_voice_volume, write_voice_volume, At, IO
      <3>2. CASE th[t] = Idle
        BY <3>2 DEF Idle, IO
      <3>3. ASSUME NEW tty_mode \in TtySet, adev_set_parameters(t, tty_mode)
            PROVE  FALSE
        BY <2>1, <3>3 DEF adev_set_parameters
      <3>4. QED BY <3>1, <3>2, <3>3 DEF adev_set_mode, adev_set_voice_volume
    <2>3. th'[t].pc \in {"idle", "mode_out", "volume_store", "volume_ctl"}
      <3>1. CASE select_mode(t)
        BY <3>1, ActiveTypes DEF select_mode, ReturnUnlocked, Return, Idle, ThreadState
      <3>2. CASE store_voice_volume(t)
        BY <3>2, ActiveTypes DEF store_voice_volume, Goto, ThreadState
      <3>3. CASE write_voice_volume(t)
        BY <3>3, ActiveTypes DEF write_voice_volume, Return, Idle
      <3>4. ASSUME NEW mode \in ModeSet, adev_set_mode(t, mode)
            PROVE  th'[t].pc = "mode_out"
        BY <2>1, <3>4, ActiveTypes DEF adev_set_mode, ThreadState
      <3>5. ASSUME NEW volume \in Volumes, adev_set_voice_volume(t, volume)
            PROVE  th'[t].pc = "volume_ctl"
        BY <3>5, ActiveTypes DEF adev_set_voice_volume, ThreadState
      <3>6. ~\E tty_mode \in TtySet : adev_set_parameters(t, tty_mode)
        BY <2>1 DEF adev_set_parameters
      <3>7. QED BY <3>1, <3>2, <3>3, <3>4, <3>5, <3>6
    <2>4. QED BY <1>1, <2>2, <2>3, StillMapped DEF IO
  <1>4. QED BY <1>2, <1>3

-----------------------------------------------------------------------------
LEMMA MappedCall ==
    ASSUME IInv, NEW t \in Threads, NEW s \in Streams, CallOut(t, s) \/ CallIn(t, s)
    PROVE  Mapped
  <1>1. th[t].pc \notin IO
    BY DEF CallOut, CallIn, Call, Idle, IO
  <1>2. th'[t].pc \notin IO
    BY ActiveTypes DEF CallOut, CallIn, Call, IO
  <1>3. QED BY <1>1, <1>2, ActiveCall, StillMapped

LEMMA MappedClose ==
    ASSUME IInv, NEW t \in Threads, NEW s \in Streams,
           NEW pc \in {"out_standby", "in_standby"}, Close(t, s, pc)
    PROVE  Mapped
  <1>1. /\ hal' = hal /\ handle[s] = "open" /\ th[t] = Idle
        /\ handle' = [handle EXCEPT ![s] = "closing"]
        /\ th' = [th EXCEPT ![t] = [pc |-> pc, op |-> "close", tgt |-> s, vol |-> 0]]
    BY DEF Close, Call
  <1>2. th[t].pc \notin IO /\ th'[t].pc \notin IO /\ Alone(t)
    BY <1>1, ActiveTypes DEF Alone, Idle, IO
  <1>3. \A r \in Streams : handle'[r] = "closed" <=> handle[r] = "closed"
    BY <1>1, ActiveTypes
  <1>4. \A r \in Streams : StandingBy(r)' = StandingBy(r)
    BY <1>1 DEF StandingBy
  <1>5. QED BY <1>2, <1>3, <1>4, QuietStep

LEMMA MappedFree ==
    ASSUME IInv, NEW t \in Threads, Free(t) PROVE Mapped
  <1>0. PICK s \in Streams : th[t].tgt = s
    BY ActiveTypes DEF Free, At, WellFormed
  <1>1. th[t].op = "close" /\ StandingBy(s) /\ th[t].pc = "free"
        /\ handle[s] = "closing"
    BY <1>0, ActiveTypes DEF Free, At, WellFormed, IInv, HalInvariant, PcmKept, HandlesKept
  <1>2. /\ handle' = [handle EXCEPT ![s] = "closed"] /\ th' = [th EXCEPT ![t] = Idle]
        /\ hal' = IF s \in Outs THEN [hal EXCEPT !.out[s] = NewOut]
                  ELSE [hal EXCEPT !.in[s] = NewIn("BUILTIN_MIC")]
    BY <1>0 DEF Free, Return
  <1>3. /\ \A o \in Outs \ {s} : hal'.out[o] = hal.out[o]
        /\ \A i \in Ins \ {s} : hal'.in[i] = hal.in[i]
    BY <1>1, <1>2, ActiveTypes, StreamsAssumption DEF Streams, HalState
  <1>4. \A r \in Streams \ {s} : handle'[r] = handle[r] /\ StandingBy(r)' = StandingBy(r)
    BY <1>2, <1>3, ActiveTypes DEF Streams, StandingBy
  <1>5. handle'[s] = "closed"
    BY <1>1, <1>2, ActiveTypes
  <1>6. th'[t].pc \notin IO /\ th[t].pc \notin IO /\ Alone(t)
    BY <1>1, <1>2, ActiveTypes DEF Alone, Idle, IO
  <1>7. \A r \in Streams : Transferring(r)' <=> Transferring(r)
    BY <1>6 DEF Transferring, Alone, IO
  <1>8. QED BY <1>1, <1>4, <1>5, <1>7, HandleMoves

LEMMA MappedOpen ==
    ASSUME IInv, NEW s \in Streams,
           \/ s \in Outs /\ adev_open_output_stream(s)
           \/ s \in Ins /\ adev_open_input_stream(s)
    PROVE  Mapped
  <1>1. handle[s] = "closed" /\ handle' = [handle EXCEPT ![s] = "open"] /\ th' = th
    BY DEF adev_open_output_stream, adev_open_input_stream
  <1>2. /\ \A o \in Outs \ {s} : hal'.out[o] = hal.out[o]
        /\ \A i \in Ins \ {s} : hal'.in[i] = hal.in[i]
        /\ StandingBy(s)'
    <2>1. CASE s \in Outs /\ adev_open_output_stream(s)
      BY <2>1, ActiveTypes DEF adev_open_output_stream, HalState, NewOut, StandingBy
    <2>2. CASE s \in Ins /\ adev_open_input_stream(s)
      <3>1. PICK d \in MicSet : hal' = [hal EXCEPT !.in[s] = NewIn(d)]
        BY <2>2 DEF adev_open_input_stream
      <3>2. QED BY <2>2, <3>1, ActiveTypes, StreamsAssumption DEF HalState, NewIn, StandingBy
    <2>3. QED BY <2>1, <2>2
  <1>3. \A r \in Streams \ {s} : handle'[r] = handle[r] /\ StandingBy(r)' = StandingBy(r)
    BY <1>1, <1>2, ActiveTypes DEF Streams, StandingBy
  <1>4. handle'[s] = "open"
    BY <1>1, ActiveTypes
  <1>5. \A r \in Streams : Transferring(r)' <=> Transferring(r)
    BY <1>1 DEF Transferring
  <1>6. QED BY <1>1, <1>2, <1>3, <1>4, <1>5, HandleMoves

-----------------------------------------------------------------------------
LEMMA MappedContinue ==
    ASSUME IInv, NEW t \in Threads, Continue(t) PROVE Mapped
  <1>1. CASE out_write(t) \/ start_output_stream(t) \/ start_output_fails(t)
             \/ write_io(t) \/ write_tail(t) \/ out_standby(t)
    BY <1>1, MappedOutWrite, MappedStartOutput, MappedOutputFails, MappedTransfer,
       MappedAfter, MappedOutStandby
  <1>2. CASE \E devices \in RouteSets : out_set_parameters(t, devices)
    BY <1>2, MappedRoute
  <1>3. CASE read_io(t)
    <2>1. th[t].pc \in {"read_io", "read_sleep"}
      BY <1>3 DEF read_io, At
    <2>2. QED BY <1>3, <2>1, MappedTransfer, MappedAfter
  <1>4. CASE in_read(t) \/ start_input_stream(t) \/ start_input_fails(t) \/ input_standby(t)
    BY <1>4, MappedInRead, MappedStartInput, MappedInputFails, MappedInputStandby
  <1>5. CASE \/ in_standby(t) \/ effect_refused(t) \/ force_input_standby(t)
             \/ \E source \in Sources \cup {None}, device \in MicSet \cup {None} :
                  in_set_parameters(t, source, device)
             \/ \E effect \in Effects : in_add_audio_effect(t, effect)
             \/ \E effect \in Effects, described \in BOOLEAN :
                  in_remove_audio_effect(t, effect, described)
    BY <1>5, MappedInputCalls
  <1>6. CASE force_output_standby(t) \/ Free(t)
    BY <1>6, MappedForceOutput, MappedFree
  <1>7. CASE select_mode(t) \/ store_voice_volume(t) \/ write_voice_volume(t)
    BY <1>7, MappedDevice
  <1>8. QED BY <1>1, <1>2, <1>3, <1>4, <1>5, <1>6, <1>7 DEF Continue

LEMMA MappedBegin ==
    ASSUME IInv, NEW t \in Threads, Begin(t) PROVE Mapped
  <1>1. ASSUME NEW o \in Outs, CallOut(t, o) \/ adev_close_output_stream(t, o)
        PROVE  Mapped
    BY <1>1, MappedCall, MappedClose DEF adev_close_output_stream, Streams
  <1>2. ASSUME NEW i \in Ins, CallIn(t, i) \/ adev_close_input_stream(t, i)
        PROVE  Mapped
    BY <1>2, MappedCall, MappedClose DEF adev_close_input_stream, Streams
  <1>3. QED BY <1>1, <1>2, MappedDevice DEF Begin

LEMMA MappedNext == ASSUME IInv, [Next]_vars PROVE Mapped
  <1>1. CASE \E t \in Threads : Begin(t) \/ Continue(t)
    BY <1>1, MappedBegin, MappedContinue
  <1>2. CASE \E o \in Outs : adev_open_output_stream(o)
    BY <1>2, MappedOpen DEF Streams
  <1>3. CASE \E i \in Ins : adev_open_input_stream(i)
    BY <1>3, MappedOpen DEF Streams
  <1>4. CASE UNCHANGED vars
    BY <1>4 DEF vars, Mapped, Phase, StandingBy, Transferring
  <1>5. QED BY <1>1, <1>2, <1>3, <1>4 DEF Next

LEMMA MappedInit == ASSUME Init PROVE Pcm!Init
  BY DEF Init, Pcm!Init, Pcm!Streams, Streams, Phase

(* The HAL implements PcmStreams, for any number of streams and threads:   *)
(* under every interleaving of its calls a stream goes to standby or is    *)
(* freed between transfers only, and starts only while no other stream of  *)
(* its direction has the device.                                           *)
THEOREM Refinement == Spec => StreamsImplemented
  <1>1. Init => Pcm!Init
    BY MappedInit
  <1>2. IInv /\ [Next]_vars => [Pcm!Next]_[s \in Streams |-> Phase(s)]
    BY MappedNext, MappedStep
  <1>3. Spec => []IInv
    BY Reachable
  <1>4. QED BY <1>1, <1>2, <1>3, PTL DEF Spec, StreamsImplemented, Pcm!Spec

-----------------------------------------------------------------------------
(* The paths of the samples.                                               *)

Sole(S) == \A x, y \in S : x = y

(* The echo references of a device.  The active output writes the device's,*)
(* which is the only one alive; with one output, it is active while it     *)
(* runs.                                                                   *)
OutEchoes(h) ==
    /\ h \in HalState
    /\ h.live = {h.echo_reference} \ {None}
    /\ \A o \in Outs : h.out[o].standby => h.out[o].echo = None
    /\ h.active_output # None =>
         /\ ~h.out[h.active_output].standby
         /\ h.out[h.active_output].echo = h.echo_reference
    /\ Sole(Outs) => \A o \in Outs : ~h.out[o].standby => h.active_output = o

(* With one input, it reads the device's reference or none, and is active  *)
(* while it runs.                                                          *)
InEchoes(h) ==
    /\ h.active_input # None => ~h.in[h.active_input].standby
    /\ Sole(Ins) =>
         \A i \in Ins : /\ h.in[i].echo \in {None, h.echo_reference}
                        /\ ~h.in[i].standby => h.active_input = i

Echoes(h) == OutEchoes(h) /\ InEchoes(h)

(* The mixer of a device, outside and in a call.                           *)
OutHeard(h) ==
    h.mode # "IN_CALL" /\ h.active_output # None /\ h.out_device \cap RoutedDevices # {} =>
      \A c \in OutControls : h.mixer[c] = OutputRoute(h.out_device)[c]
CallHeard(h) ==
    h.mode = "IN_CALL" /\ h.out_device \cap IncallDevices # {} =>
      \A c \in {"Voice", "ExtAmp"} : h.mixer[c] = IncallRoute(h.out_device)[c]
InHeard(h) ==
    h.mode # "IN_CALL" /\ h.active_input # None =>
      /\ h.in_device = h.in[h.active_input].device
      /\ h.in_device \in MicDevices =>
           \A c \in {"LeftMic", "Capture"} : h.mixer[c] = InputRoute(h.in_device)[c]

(* A voice communication input that runs beside an output, without the     *)
(* reference it needs.                                                     *)
Unfed(h) ==
    h.active_output # None /\ VoiceInput(h) /\ NeedsReference(h, h.active_input)

(* What a thread that changes the mode has put in standby so far; x is the *)
(* state of a thread.                                                      *)
Forced(x, h) ==
    x.op = "mode" =>
      /\ x.pc # "mode_out" => h.active_output = None
      /\ x.pc \in {"mode_select", "volume_store", "volume_ctl"} => h.active_input = None
      /\ x.pc = "in_stby" => x.tgt = h.active_input

(* While a thread is there, the mixer may differ from what is selected.    *)
Rerouting(x) == x.op = "mode" /\ x.pc \notin {"volume_store", "volume_ctl"}
Stopping(x, h) == x.op = "mode" \/ (x.pc = "in_stby" /\ x.tgt = h.active_input)

(* A thread that is to restart the input that is not fed.                  *)
Restarting(x, h) ==
    \/ x.op = "force" \/ x.pc = "write_tail"
    \/ x.pc \in {"force", "in_stby"} /\ x.tgt = h.active_input

(* The invariant, on top of IInv and ActiveKept.                           *)
PathKept ==
    /\ Echoes(hal)
    /\ \A t \in Threads :
         /\ Forced(th[t], hal)
         /\ th[t].op = "force" => th[t].pc \in {"write_io", "write_tail"}
    /\ OutHeard(hal) \/ \E t \in Threads : th[t].op = "mode"
    /\ CallHeard(hal) \/ \E t \in Threads : Rerouting(th[t])
    /\ InHeard(hal) \/ \E t \in Threads : Stopping(th[t], hal)
    /\ FALSE \notin RefCreate /\ Unfed(hal) => \E t \in Threads : Restarting(th[t], hal)

-----------------------------------------------------------------------------
(* The mixer.                                                              *)

Mixer == [Controls -> Settings]
Mics == {"LeftMic", "Capture"}

OutSame(r, h) == \A c \in OutControls : r.mixer[c] = h.mixer[c]
MicSame(r, h) == \A c \in Mics : r.mixer[c] = h.mixer[c]

(* The controls each kind of table names.                                  *)
LEMMA TableDomains ==
    ASSUME NEW devices, NEW device
    PROVE  /\ DOMAIN OutputRoute(devices) = OutControls
           /\ DOMAIN IncallRoute(devices) = {"Voice", "ExtAmp", "LeftMic"}
           /\ Mics \subseteq DOMAIN InputRoute(device)
           /\ DOMAIN InputRoute(device) \subseteq InControls
           /\ DOMAIN route_standby = OutControls
           /\ DOMAIN route_input_standby = InControls
  <1>1. /\ DOMAIN route_standby = OutControls /\ DOMAIN route_speaker = OutControls
        /\ DOMAIN route_speaker_headset = OutControls /\ DOMAIN route_headset = OutControls
    BY DEF route_standby, route_speaker, route_speaker_headset, route_headset, OutControls
  <1>2. /\ DOMAIN route_main_mic = Mics /\ DOMAIN route_headset_mic = InControls
        /\ DOMAIN route_input_standby = InControls
    BY DEF route_main_mic, route_headset_mic, route_input_standby, InControls, Mics
  <1>3. /\ DOMAIN route_voicecall_headset = {"Voice", "ExtAmp", "LeftMic"}
        /\ DOMAIN route_voicecall_speaker = {"Voice", "ExtAmp", "LeftMic"}
        /\ DOMAIN route_voicecall_earpiece = {"Voice", "ExtAmp", "LeftMic"}
    BY DEF route_voicecall_headset, route_voicecall_speaker, route_voicecall_earpiece
  <1>4. Mics \subseteq InControls
    BY DEF Mics, InControls
  <1>5. DOMAIN OutputRoute(devices) = OutControls
    BY <1>1 DEF OutputRoute
  <1>6. DOMAIN IncallRoute(devices) = {"Voice", "ExtAmp", "LeftMic"}
    BY <1>3 DEF IncallRoute
  <1>7. Mics \subseteq DOMAIN InputRoute(device) /\ DOMAIN InputRoute(device) \subseteq InControls
    BY <1>2, <1>4 DEF InputRoute
  <1>8. QED BY <1>1, <1>2, <1>5, <1>6, <1>7

(* A table is written where it names a control, and nowhere else.          *)
LEMMA Written ==
    ASSUME NEW m \in Mixer, NEW r, NEW c \in Controls
    PROVE  set_route_by_array(m, r)[c] = IF c \in DOMAIN r THEN r[c] ELSE m[c]
  BY DEF set_route_by_array

LEMMA ControlKinds ==
    /\ OutControls \subseteq Controls /\ Mics \subseteq Controls
    /\ OutControls \cap InControls = {} /\ OutControls \cap Mics = {}
    /\ {"Voice", "ExtAmp"} \subseteq OutControls
  BY DEF Controls, OutControls, InControls, Mics

-----------------------------------------------------------------------------
(* What the functions that run under adev->lock do to the paths.           *)

SameRoles(r, h) ==
    /\ r.mode = h.mode /\ r.in_call = h.in_call
    /\ r.out_device = h.out_device /\ r.in_device = h.in_device
    /\ r.active_output = h.active_output /\ r.active_input = h.active_input
SameEchoes(r, h) ==
    /\ r.echo_reference = h.echo_reference /\ r.live = h.live
    /\ r.out = h.out /\ r.in = h.in

(* Whatever was selected before, select_output_device leaves the selected  *)
(* devices heard, in a call as outside one.                                *)
LEMMA SelectOutputPath ==
    ASSUME NEW h \in HalState
    PROVE  LET r == select_output_device(h) IN
           /\ r \in HalState /\ SameRoles(r, h) /\ SameEchoes(r, h)
           /\ h.mode # "IN_CALL" => MicSame(r, h)
           /\ OutHeard(r) /\ CallHeard(r)
  <1> DEFINE rx == RxDevices(h.mode, h.tty_mode, h.out_device)
             routed == rx \cap RoutedDevices # {}
             m == IF routed THEN set_route_by_array(h.mixer, OutputRoute(rx)) ELSE h.mixer
             n == IF h.mode = "IN_CALL" THEN set_incall_device(m, h.out_device) ELSE m
             d == IF routed THEN 0 ELSE h.downlink
             r == select_output_device(h)
  <1>1. r \in HalState
    BY SelectOutput
  <1>2. r = [h EXCEPT !.downlink = d, !.mixer = n]
    BY DEF select_output_device
  <1>3. h.mixer \in Mixer
    BY DEF HalState, Mixer
  <1>4. m \in Mixer
    BY <1>3, RouteType, TableChoice DEF Mixer
  <1>5. h.mode # "IN_CALL" => rx = h.out_device /\ n = m
    BY DEF RxDevices
  <1>6. routed => \A c \in OutControls : m[c] = OutputRoute(rx)[c]
    BY <1>3, Written, TableDomains, ControlKinds
  <1>7. \A c \in Mics : m[c] = h.mixer[c]
    BY <1>3, Written, TableDomains, ControlKinds
  <1>8. h.mode = "IN_CALL" /\ h.out_device \cap IncallDevices # {} =>
          \A c \in {"Voice", "ExtAmp"} : n[c] = IncallRoute(h.out_device)[c]
    <2> HIDE DEF m
    <2>1. QED BY <1>4, Written, TableDomains, ControlKinds DEF set_incall_device
  <1> HIDE DEF rx, m, n, d
  <1>9. r.mixer = n /\ SameRoles(r, h) /\ SameEchoes(r, h)
    BY <1>2 DEF HalState, SameRoles, SameEchoes
  <1> HIDE DEF r
  <1>10. h.mode # "IN_CALL" => MicSame(r, h)
    BY <1>5, <1>7, <1>9 DEF MicSame
  <1>11. OutHeard(r)
    BY <1>5, <1>6, <1>9 DEF OutHeard, SameRoles
  <1>12. CallHeard(r)
    BY <1>8, <1>9 DEF CallHeard, SameRoles
  <1>13. QED BY <1>1, <1>9, <1>10, <1>11, <1>12 DEF r

(* select_input_device selects the device's microphone.                    *)
LEMMA SelectInputPath ==
    ASSUME NEW h \in HalState
    PROVE  LET r == select_input_device(h) IN
           /\ r \in HalState /\ SameRoles(r, h) /\ SameEchoes(r, h) /\ OutSame(r, h)
           /\ h.in_device \in MicDevices =>
                \A c \in Mics : r.mixer[c] = InputRoute(h.in_device)[c]
  <1> DEFINE m == IF h.in_device \in MicDevices
                    THEN set_route_by_array(h.mixer, InputRoute(h.in_device)) ELSE h.mixer
             r == select_input_device(h)
  <1>1. r \in HalState
    BY SelectInput
  <1>2. r = [h EXCEPT !.mixer = m]
    BY DEF select_input_device
  <1>3. h.mixer \in Mixer
    BY DEF HalState, Mixer
  <1>4. \A c \in OutControls : m[c] = h.mixer[c]
    BY <1>3, Written, TableDomains, ControlKinds
  <1>5. h.in_device \in MicDevices => \A c \in Mics : m[c] = InputRoute(h.in_device)[c]
    BY <1>3, Written, TableDomains, ControlKinds
  <1> HIDE DEF m
  <1>6. r.mixer = m /\ SameRoles(r, h) /\ SameEchoes(r, h)
    BY <1>2 DEF HalState, SameRoles, SameEchoes
  <1> HIDE DEF r
  <1>7. QED BY <1>1, <1>4, <1>5, <1>6 DEF r, OutSame

(* put_echo_reference releases the device's reference and takes it from    *)
(* the active output; any other reference it ignores.                      *)
LEMMA PutPath ==
    ASSUME NEW h, OutEchoes(h), NEW ref
    PROVE  LET r == put_echo_reference(h, ref) IN
           /\ OutEchoes(r) /\ SameRoles(r, h) /\ r.mixer = h.mixer /\ r.in = h.in
           /\ r.echo_reference = IF ref = h.echo_reference THEN None ELSE h.echo_reference
           /\ \A o \in Outs : r.out[o].standby = h.out[o].standby
  <1> DEFINE r == put_echo_reference(h, ref)
  <1>0. h \in HalState
    BY DEF OutEchoes
  <1>1. CASE ref = None \/ ref # h.echo_reference
    BY <1>1 DEF put_echo_reference, SameRoles
  <1>2. CASE ref # None /\ ref = h.echo_reference
    <2> DEFINE live == h.live \ {ref}
               outs == [o \in Outs |-> IF o = h.active_output /\ h.out[o].echo = ref
                                         THEN [h.out[o] EXCEPT !.echo = None] ELSE h.out[o]]
    <2>1. r = [h EXCEPT !.live = live, !.echo_reference = None, !.out = outs]
      BY <1>2 DEF put_echo_reference
    <2>2. live = {}
      BY <1>2 DEF OutEchoes
    <2>3. ASSUME NEW o \in Outs
          PROVE  /\ outs[o].standby = h.out[o].standby
                 /\ outs[o].echo = IF o = h.active_output THEN None ELSE h.out[o].echo
      <3>1. h.out[o] \in OutState
        BY <1>0 DEF HalState
      <3>2. o = h.active_output => h.out[o].echo = ref
        BY <1>2, StreamsAssumption DEF OutEchoes
      <3>3. outs[o] = IF o = h.active_output THEN [h.out[o] EXCEPT !.echo = None] ELSE h.out[o]
        BY <3>2
      <3> HIDE DEF outs
      <3>4. QED BY <3>1, <3>3 DEF OutState
    <2> HIDE DEF live, outs
    <2>4. /\ SameRoles(r, h) /\ r.mixer = h.mixer /\ r.in = h.in
          /\ r.echo_reference = None /\ r.live = {} /\ r.out = outs
      BY <1>0, <2>1, <2>2 DEF HalState, SameRoles
    <2>5. r \in HalState
      BY <1>0, PutEcho
    <2> HIDE DEF r
    <2>6. h.active_output \in Outs \cup {None}
      BY <1>0 DEF HalState
    <2>7. OutEchoes(r)
      BY <2>3, <2>4, <2>5, <2>6 DEF OutEchoes, SameRoles
    <2>8. QED BY <1>2, <2>3, <2>4, <2>7 DEF r
  <1>3. QED BY <1>1, <1>2

(* All of an input but its echo reference.                                 *)
SameInput(new, old) ==
    /\ new.standby = old.standby /\ new.pcm = old.pcm /\ new.device = old.device
    /\ new.source = old.source /\ new.need = old.need

(* get_echo_reference gives the input i the device's new reference, if one *)
(* is created.                                                             *)
LEMMA GetPath ==
    ASSUME NEW h, OutEchoes(h), NEW i \in Ins, NEW ref \in Refs \cup {None}
    PROVE  LET r == get_echo_reference(h, i, ref) IN
           /\ OutEchoes(r) /\ SameRoles(r, h) /\ r.mixer = h.mixer
           /\ \A j \in Ins \ {i} : r.in[j] = h.in[j]
           /\ SameInput(r.in[i], h.in[i])
           /\ r.in[i].echo = IF h.active_output = None \/ ref = None THEN h.in[i].echo
                             ELSE r.echo_reference
           /\ h.active_output # None => r.echo_reference = ref
  <1> DEFINE r == get_echo_reference(h, i, ref)
             p == put_echo_reference(h, h.echo_reference)
  <1>0. h \in HalState
    BY DEF OutEchoes
  <1>1. /\ OutEchoes(p) /\ SameRoles(p, h) /\ p.mixer = h.mixer /\ p.in = h.in
        /\ p.echo_reference = None /\ p \in HalState
    BY PutPath DEF OutEchoes
  <1>2. r = IF h.active_output = None \/ ref = None THEN p
            ELSE [p EXCEPT !.live = @ \cup {ref}, !.echo_reference = ref,
                           !.out[h.active_output].echo = ref, !.in[i].echo = ref]
    BY DEF get_echo_reference
  <1>3. r \in HalState
    BY <1>0, GetEcho
  <1> HIDE DEF p, r
  <1>4. CASE h.active_output = None \/ ref = None
    BY <1>1, <1>2, <1>4 DEF SameInput, r
  <1>5. CASE h.active_output # None /\ ref # None
    <2> DEFINE o == h.active_output
               outs == [p.out EXCEPT ![o].echo = ref]
               ins == [p.in EXCEPT ![i].echo = ref]
               live == p.live \cup {ref}
    <2>1. o \in Outs /\ o = p.active_output
      BY <1>0, <1>1, <1>5 DEF HalState, SameRoles
    <2> HIDE DEF o
    <2>2. \A q \in Outs : /\ outs[q].standby = p.out[q].standby
                          /\ outs[q].echo = IF q = o THEN ref ELSE p.out[q].echo
      BY <1>1, <2>1 DEF HalState, OutState
    <2>3. /\ \A j \in Ins \ {i} : ins[j] = p.in[j]
          /\ SameInput(ins[i], p.in[i]) /\ ins[i].echo = ref
      BY <1>1 DEF HalState, InState, SameInput
    <2>4. live = {ref} \ {None}
      BY <1>1, <1>5 DEF OutEchoes
    <2>5. r = [p EXCEPT !.live = live, !.echo_reference = ref, !.out = outs, !.in = ins]
      BY <1>2, <1>5 DEF o
    <2> HIDE DEF live, outs, ins
    <2>6. /\ SameRoles(r, p) /\ r.mixer = p.mixer /\ r.echo_reference = ref /\ r.live = live
          /\ r.out = outs /\ r.in = ins
      BY <1>1, <2>5 DEF HalState, SameRoles
    <2>7. OutEchoes(r)
      <3>1. r.live = {r.echo_reference} \ {None} /\ r.active_output = o
        BY <2>1, <2>4, <2>6 DEF SameRoles
      <3>2. \A q \in Outs : r.out[q].standby => q # o /\ r.out[q].echo = None
        BY <1>1, <1>5, <2>1, <2>2, <2>6 DEF OutEchoes, o
      <3>3. ~r.out[o].standby /\ r.out[o].echo = r.echo_reference
        BY <1>1, <2>1, <2>2, <2>6, <3>2
      <3>4. Sole(Outs) => \A q \in Outs : ~r.out[q].standby => r.active_output = q
        BY <2>1, <3>1 DEF Sole
      <3>5. QED BY <1>3, <3>1, <3>2, <3>3, <3>4 DEF OutEchoes
    <2>8. QED BY <1>1, <1>5, <2>3, <2>6, <2>7 DEF SameRoles, r
  <1>6. QED BY <1>4, <1>5

(* What OutEchoes and InEchoes look at.                                    *)
LEMMA EchoFrames ==
    ASSUME NEW h, NEW r, r.active_output = h.active_output,
           r.echo_reference = h.echo_reference, r.live = h.live, r.out = h.out,
           r \in HalState
    PROVE  OutEchoes(h) => OutEchoes(r)
  BY DEF OutEchoes

LEMMA InputFrames ==
    ASSUME NEW h, NEW r, r.active_input = h.active_input,
           r.echo_reference = h.echo_reference, r.in = h.in
    PROVE  InEchoes(h) => InEchoes(r)
  BY DEF InEchoes

(* do_output_standby, where it does anything, silences the output that was *)
(* active; inputs and calls do not hear of it.                             *)
LEMMA OutputStandbyPath ==
    ASSUME NEW h, Echoes(h), NEW o \in Outs
    PROVE  LET r == do_output_standby(h, o) IN
           /\ Echoes(r)
           /\ h.out[o].standby => r = h
           /\ ~h.out[o].standby => r.active_output = None
           /\ r.mode = h.mode /\ r.out_device = h.out_device
           /\ r.in_device = h.in_device /\ r.active_input = h.active_input
           /\ r.in = h.in /\ MicSame(r, h) /\ (h.mode = "IN_CALL" => r.mixer = h.mixer)
  <1>0. h \in HalState /\ do_output_standby(h, o) \in HalState
    BY OutputStandby DEF Echoes, OutEchoes
  <1>1. CASE h.out[o].standby
    BY <1>1 DEF do_output_standby, MicSame
  <1>2. CASE ~h.out[o].standby
    <2> DEFINE quiet == h.mode # "IN_CALL" /\ h.active_input = None
               m == IF quiet THEN set_route_by_array(h.mixer, route_standby) ELSE h.mixer
               d == IF quiet THEN 0 ELSE h.downlink
               outs == [h.out EXCEPT ![o] = NewOut]
               r == do_output_standby(h, o)
    <2>1. r = [h EXCEPT !.mixer = m, !.downlink = d, !.active_output = None, !.out = outs]
      BY <1>2 DEF do_output_standby
    <2>2. \A c \in Mics : m[c] = h.mixer[c]
      <3>1. h.mixer \in Mixer
        BY <1>0 DEF HalState, Mixer
      <3>2. QED BY <3>1, Written, TableDomains, ControlKinds
    <2>3. h.mode = "IN_CALL" => m = h.mixer
      OBVIOUS
    <2>4. \A p \in Outs : outs[p] = IF p = o THEN NewOut ELSE h.out[p]
      BY <1>0 DEF HalState
    <2> HIDE DEF m, d, outs
    <2>5. /\ r.mode = h.mode /\ r.out_device = h.out_device
          /\ r.in_device = h.in_device /\ r.active_input = h.active_input
          /\ r.in = h.in /\ r.mixer = m /\ r.out = outs /\ r.active_output = None
          /\ r.echo_reference = h.echo_reference /\ r.live = h.live
      BY <1>0, <2>1 DEF HalState
    <2> HIDE DEF r
    <2>6. OutEchoes(r)
      <3>1. \A p \in Outs : r.out[p].standby => r.out[p].echo = None
        BY <2>4, <2>5 DEF NewOut, Echoes, OutEchoes
      <3>2. Sole(Outs) => \A p \in Outs : r.out[p].standby
        BY <2>4, <2>5 DEF NewOut, Sole
      <3>3. QED BY <1>0, <2>5, <3>1, <3>2 DEF Echoes, OutEchoes, r
    <2>7. InEchoes(r)
      BY <2>5, InputFrames DEF Echoes
    <2>8. QED BY <1>2, <2>2, <2>3, <2>5, <2>6, <2>7 DEF Echoes, MicSame, r
  <1>3. QED BY <1>1, <1>2

(* do_input_standby, where it does anything, leaves no input active and    *)
(* gives its reference back; outputs and calls do not hear of it.          *)
LEMMA InputStandbyPath ==
    ASSUME NEW h, Echoes(h), NEW i \in Ins
    PROVE  LET r == do_input_standby(h, i) IN
           /\ Echoes(r)
           /\ h.in[i].standby => r = h
           /\ ~h.in[i].standby => r.active_input = None
           /\ r.mode = h.mode /\ r.out_device = h.out_device
           /\ r.in_device = IF h.in[i].standby \/ h.mode = "IN_CALL" THEN h.in_device
                            ELSE "NONE"
           /\ r.active_output = h.active_output
           /\ OutSame(r, h) /\ (h.mode = "IN_CALL" => r.mixer = h.mixer)
  <1>0. h \in HalState /\ do_input_standby(h, i) \in HalState
    BY InputStandby DEF Echoes, OutEchoes
  <1>1. CASE h.in[i].standby
    BY <1>1 DEF do_input_standby, OutSame
  <1>2. CASE ~h.in[i].standby
    <2> DEFINE a == [h EXCEPT !.in[i].pcm = "null", !.active_input = None]
               b == IF h.mode = "IN_CALL" THEN a
                    ELSE [a EXCEPT !.in_device = "NONE",
                            !.mixer = set_route_by_array(@, route_input_standby)]
               c == put_echo_reference(b, h.in[i].echo)
               ins == [c.in EXCEPT ![i].echo = None, ![i].standby = TRUE]
               r == do_input_standby(h, i)
    <2>1. r = [c EXCEPT !.in[i].echo = None, !.in[i].standby = TRUE]
      BY <1>2 DEF do_input_standby
    <2>2. /\ a.mode = h.mode /\ a.mixer = h.mixer /\ a.active_input = None
          /\ a.in \in [Ins -> InState] /\ a.out_device = h.out_device
          /\ a.in_device = h.in_device
          /\ a.active_output = h.active_output /\ a.out = h.out
          /\ a.echo_reference = h.echo_reference /\ a.live = h.live
          /\ a \in HalState
      <3> DEFINE ins1 == [h.in EXCEPT ![i].pcm = "null"]
      <3>0. h.in \in [Ins -> InState]
        BY <1>0 DEF HalState
      <3>1. ins1 \in [Ins -> InState]
        BY <3>0 DEF InState, OutPcm
      <3>2. a = [h EXCEPT !.in = ins1, !.active_input = None]
        BY <1>0 DEF HalState
      <3> HIDE DEF ins1
      <3>3. QED BY <1>0, <3>1, <3>2 DEF HalState
    <2> HIDE DEF a
    <2>3. /\ b.mode = h.mode /\ b.active_input = None /\ b.out_device = h.out_device
          /\ b.in \in [Ins -> InState]
          /\ b.in_device = IF h.mode = "IN_CALL" THEN h.in_device ELSE "NONE"
          /\ b.active_output = h.active_output /\ b.out = h.out
          /\ b.echo_reference = h.echo_reference /\ b.live = h.live
          /\ b.mixer = IF h.mode = "IN_CALL" THEN h.mixer
                       ELSE set_route_by_array(h.mixer, route_input_standby)
          /\ b \in HalState
      <3> DEFINE m == set_route_by_array(h.mixer, route_input_standby)
      <3>1. m \in [Controls -> Settings]
        BY <1>0, RouteType, Tables DEF HalState
      <3>2. b = IF h.mode = "IN_CALL" THEN a
                ELSE [a EXCEPT !.in_device = "NONE", !.mixer = m]
        BY <2>2 DEF HalState
      <3> HIDE DEF m, b
      <3>3. CASE h.mode = "IN_CALL"
        BY <2>2, <3>2, <3>3
      <3>4. CASE h.mode # "IN_CALL"
        <4>1. b = [a EXCEPT !.in_device = "NONE", !.mixer = m]
          BY <3>2, <3>4
        <4>2. "NONE" \in InDevices
          BY DEF InDevices
        <4>3. b \in HalState
          BY <2>2, <3>1, <4>1, <4>2, ZenonT(40) DEF HalState
        <4>4. /\ b.mode = a.mode /\ b.active_input = a.active_input
              /\ b.in_device = "NONE"
              /\ b.out_device = a.out_device /\ b.in = a.in
              /\ b.active_output = a.active_output /\ b.out = a.out
              /\ b.echo_reference = a.echo_reference /\ b.live = a.live
              /\ b.mixer = m
          BY <2>2, <4>1 DEF HalState
        <4>5. QED BY <2>2, <3>4, <4>3, <4>4 DEF m
      <3>5. QED BY <3>3, <3>4
    <2>4. OutSame(b, h) /\ (h.mode = "IN_CALL" => b.mixer = h.mixer)
      <3>1. h.mixer \in Mixer
        BY <1>0 DEF HalState, Mixer
      <3>2. QED BY <2>3, <3>1, Written, TableDomains, ControlKinds DEF OutSame
    <2> HIDE DEF b
    <2>5. OutEchoes(b)
      BY <2>3, EchoFrames DEF Echoes
    <2>6. /\ OutEchoes(c) /\ SameRoles(c, b) /\ c.mixer = b.mixer /\ c.in = b.in
          /\ c.echo_reference = IF h.in[i].echo = h.echo_reference THEN None
                                ELSE h.echo_reference
          /\ c \in HalState
      BY <2>3, <2>5, PutPath DEF OutEchoes
    <2> HIDE DEF c
    <2>7. /\ r.mode = c.mode /\ r.out_device = c.out_device /\ r.mixer = c.mixer
          /\ r.in_device = c.in_device
          /\ r.active_output = c.active_output /\ r.active_input = c.active_input
          /\ r.echo_reference = c.echo_reference /\ r.live = c.live /\ r.out = c.out
          /\ r.in = ins
      BY <2>1, <2>6 DEF HalState
    <2>8. OutEchoes(r)
      BY <1>0, <2>6, <2>7, EchoFrames
    <2>9. r.active_input = None
      BY <2>3, <2>6, <2>7 DEF SameRoles
    <2>10. ins[i].standby /\ ins[i].echo = None
      BY <2>3, <2>6 DEF InState
    <2> HIDE DEF r, ins
    <2>11. InEchoes(r)
      BY <2>7, <2>9, <2>10 DEF InEchoes, Sole
    <2>12. QED
      BY <1>2, <2>3, <2>4, <2>6, <2>7, <2>8, <2>9, <2>11 DEF Echoes, SameRoles, OutSame, r
  <1>3. QED BY <1>1, <1>2

(* What start_output_stream does before pcm_open: the route of the output, *)
(* or in a call nothing.                                                   *)
LEMMA PreparePath ==
    ASSUME NEW h \in HalState, NEW o \in Outs
    PROVE  LET p == PrepareOutput(h, o) IN
           /\ p \in HalState /\ p.mode = h.mode /\ p.in_device = h.in_device
           /\ p.out_device = h.out_device
           /\ p.active_output = o /\ p.active_input = h.active_input
           /\ SameEchoes(p, h) /\ (h.mode # "IN_CALL" => MicSame(p, h))
           /\ OutHeard(p) /\ (CallHeard(h) => CallHeard(p))
  <1> DEFINE a == [h EXCEPT !.active_output = o]
             p == PrepareOutput(h, o)
  <1>1. /\ a \in HalState /\ a.mode = h.mode /\ a.in_device = h.in_device
        /\ a.out_device = h.out_device
        /\ a.active_output = o /\ a.active_input = h.active_input
        /\ SameEchoes(a, h) /\ a.mixer = h.mixer
    BY DEF HalState, SameEchoes
  <1>2. p = IF h.mode # "IN_CALL" THEN select_output_device(a) ELSE a
    BY DEF PrepareOutput
  <1> HIDE DEF a, p
  <1>3. CASE h.mode = "IN_CALL"
    BY <1>1, <1>2, <1>3 DEF OutHeard, CallHeard, p
  <1>4. CASE h.mode # "IN_CALL"
    BY <1>1, <1>2, <1>4, SelectOutputPath DEF SameRoles, SameEchoes, MicSame, p
  <1>5. QED BY <1>3, <1>4

(* An output that starts is heard, takes up the device's reference and     *)
(* leaves the input as it is, fed or not.                                  *)
LEMMA OutputStartedPath ==
    ASSUME NEW h, Echoes(h), NEW o \in Outs, h.out[o].standby
    PROVE  LET r == OutputStarted(h, o) IN
           /\ Echoes(r) /\ OutHeard(r) /\ (CallHeard(h) => CallHeard(r))
           /\ InHeard(h) => InHeard(r)
           /\ VoiceInput(r) <=> VoiceInput(h)
  <1> DEFINE p == PrepareOutput(h, o)
             new == [standby |-> FALSE, pcm |-> "open",
                     echo |-> IF p.echo_reference # None
                                THEN p.echo_reference ELSE p.out[o].echo]
             outs == [p.out EXCEPT ![o] = new]
             r == OutputStarted(h, o)
  <1>0. h \in HalState /\ r \in HalState
    BY OutputStart DEF Echoes, OutEchoes
  <1>1. /\ p \in HalState /\ p.mode = h.mode /\ p.in_device = h.in_device
        /\ p.out_device = h.out_device
        /\ p.active_output = o /\ p.active_input = h.active_input
        /\ SameEchoes(p, h) /\ (h.mode # "IN_CALL" => MicSame(p, h))
        /\ OutHeard(p) /\ (CallHeard(h) => CallHeard(p))
    BY <1>0, PreparePath
  <1> HIDE DEF p
  <1>2. r = [p EXCEPT !.out = outs]
    <2>1. p.out \in [Outs -> OutState]
      BY <1>1 DEF HalState
    <2>2. QED BY <1>1, <2>1 DEF OutputStarted, p, HalState
  <1>3. ~new.standby /\ new.echo = h.echo_reference
    BY <1>1 DEF SameEchoes, Echoes, OutEchoes
  <1>4. \A q \in Outs : outs[q] = IF q = o THEN new ELSE h.out[q]
    BY <1>1 DEF HalState, SameEchoes
  <1> HIDE DEF new, outs, r
  <1>5. /\ SameRoles(r, p) /\ r.mixer = p.mixer /\ r.out = outs /\ r.in = h.in
        /\ r.echo_reference = h.echo_reference /\ r.live = h.live
    BY <1>1, <1>2 DEF HalState, SameRoles, SameEchoes
  <1>6. OutEchoes(r)
    <2>1. \A q \in Outs : r.out[q].standby => r.out[q].echo = None
      BY <1>3, <1>4, <1>5 DEF Echoes, OutEchoes
    <2>2. Sole(Outs) => \A q \in Outs : q = o
      BY DEF Sole
    <2>3. QED BY <1>0, <1>1, <1>3, <1>4, <1>5, <2>1, <2>2 DEF Echoes, OutEchoes, SameRoles
  <1>7. InEchoes(r)
    BY <1>1, <1>5, InputFrames DEF Echoes, SameRoles
  <1>8. OutHeard(r) /\ (CallHeard(h) => CallHeard(r))
    BY <1>1, <1>5 DEF OutHeard, CallHeard, SameRoles
  <1>9. InHeard(h) => InHeard(r)
    BY <1>1, <1>5 DEF InHeard, SameRoles, MicSame, Mics
  <1>10. VoiceInput(r) <=> VoiceInput(h)
    BY <1>1, <1>5 DEF VoiceInput, SameRoles
  <1>11. QED BY <1>6, <1>7, <1>8, <1>9, <1>10 DEF Echoes, r

(* An output that does not start leaves none active.                       *)
LEMMA OutputFailedPath ==
    ASSUME NEW h, Echoes(h), NEW o \in Outs, h.out[o].standby
    PROVE  LET r == OutputFailed(h, o) IN
           /\ Echoes(r) /\ r.active_output = None
           /\ (CallHeard(h) => CallHeard(r)) /\ (InHeard(h) => InHeard(r))
  <1> DEFINE p == PrepareOutput(h, o)
             outs == [p.out EXCEPT ![o].pcm = "stale"]
             r == OutputFailed(h, o)
  <1>0. h \in HalState /\ r \in HalState
    BY OutputFail DEF Echoes, OutEchoes
  <1>1. /\ p \in HalState /\ p.mode = h.mode /\ p.in_device = h.in_device
        /\ p.out_device = h.out_device
        /\ p.active_output = o /\ p.active_input = h.active_input
        /\ SameEchoes(p, h) /\ (h.mode # "IN_CALL" => MicSame(p, h))
        /\ OutHeard(p) /\ (CallHeard(h) => CallHeard(p))
    BY <1>0, PreparePath
  <1> HIDE DEF p
  <1>2. r = [p EXCEPT !.active_output = None, !.out = outs]
    BY <1>1 DEF OutputFailed, p, HalState
  <1>3. \A q \in Outs : outs[q].standby = h.out[q].standby /\ outs[q].echo = h.out[q].echo
    <2>1. p.out \in [Outs -> OutState] /\ p.out = h.out
      BY <1>1 DEF HalState, SameEchoes
    <2>2. QED BY <2>1 DEF OutState
  <1> HIDE DEF outs, r
  <1>4. /\ r.mode = p.mode /\ r.in_device = p.in_device /\ r.out_device = p.out_device
        /\ r.active_output = None /\ r.active_input = p.active_input
        /\ r.mixer = p.mixer /\ r.out = outs /\ r.in = h.in
        /\ r.echo_reference = h.echo_reference /\ r.live = h.live
    BY <1>1, <1>2 DEF HalState, SameEchoes
  <1>5. OutEchoes(r)
    <2>1. Sole(Outs) => \A q \in Outs : q = o
      BY DEF Sole
    <2>2. QED BY <1>0, <1>3, <1>4, <2>1 DEF Echoes, OutEchoes
  <1>6. InEchoes(r)
    BY <1>1, <1>4, InputFrames DEF Echoes
  <1>7. CallHeard(h) => CallHeard(r)
    BY <1>1, <1>4 DEF CallHeard
  <1>8. InHeard(h) => InHeard(r)
    BY <1>1, <1>4 DEF InHeard, MicSame, Mics
  <1>9. QED BY <1>4, <1>5, <1>6, <1>7, <1>8 DEF Echoes, r

(* What start_input_stream does before pcm_open: the microphone of the     *)
(* input, and a reference if it needs one.                                 *)
LEMMA PrepareInputPath ==
    ASSUME NEW h, Echoes(h), NEW i \in Ins, h.in[i].standby,
           NEW ref \in Refs \cup {None}
    PROVE  LET p == PrepareInput(h, i, ref) IN
           /\ OutEchoes(p) /\ p.mode = h.mode /\ p.out_device = h.out_device
           /\ p.active_output = h.active_output /\ p.active_input = i
           /\ \A j \in Ins \ {i} : p.in[j] = h.in[j]
           /\ SameInput(p.in[i], h.in[i])
           /\ p.in[i].echo \in {h.in[i].echo, p.echo_reference}
           /\ Sole(Ins) => p.in[i].echo \in {None, p.echo_reference}
           /\ NeedsReference(h, i) /\ h.active_output # None /\ ref # None =>
                p.in[i].echo = ref
           /\ ~NeedsReference(h, i) => p.in[i].echo = h.in[i].echo
           /\ OutSame(p, h) /\ (h.mode = "IN_CALL" => p.mixer = h.mixer)
           /\ InHeard(p)
  <1> DEFINE a == [h EXCEPT !.active_input = i, !.in_device = h.in[i].device]
             b == IF h.mode # "IN_CALL" THEN select_input_device(a)
                  ELSE [h EXCEPT !.active_input = i]
             p == PrepareInput(h, i, ref)
  <1>0. h \in HalState
    BY DEF Echoes, OutEchoes
  <1>1. /\ a \in HalState /\ a.mode = h.mode /\ a.out_device = h.out_device
        /\ a.in_device = h.in[i].device /\ a.mixer = h.mixer
        /\ a.active_output = h.active_output /\ a.active_input = i
        /\ SameEchoes(a, h)
    BY <1>0 DEF HalState, InState, SameEchoes
  <1>2. p = IF NeedsReference(h, i) THEN get_echo_reference(b, i, ref) ELSE b
    <2>1. a = [[h EXCEPT !.active_input = i] EXCEPT !.in_device = h.in[i].device]
      BY <1>0 DEF HalState
    <2>2. QED BY <2>1 DEF PrepareInput
  <1> HIDE DEF a, p
  <1>3. /\ b \in HalState /\ b.mode = h.mode /\ b.out_device = h.out_device
        /\ b.active_output = h.active_output /\ b.active_input = i
        /\ SameEchoes(b, h)
        /\ OutSame(b, h) /\ (h.mode = "IN_CALL" => b.mixer = h.mixer)
        /\ h.mode # "IN_CALL" =>
             /\ b.in_device = h.in[i].device
             /\ b.in_device \in MicDevices =>
                  \A c \in Mics : b.mixer[c] = InputRoute(b.in_device)[c]
    <2>1. CASE h.mode = "IN_CALL"
      BY <1>0, <2>1 DEF HalState, SameEchoes, OutSame
    <2>2. CASE h.mode # "IN_CALL"
      <3>1. b = select_input_device(a)
        BY <2>2
      <3> HIDE DEF b
      <3>2. QED BY <1>1, <2>2, <3>1, SelectInputPath DEF SameRoles, SameEchoes, OutSame
    <2>3. QED BY <2>1, <2>2
  <1> HIDE DEF b
  <1>4. OutEchoes(b)
    BY <1>3, EchoFrames DEF Echoes, SameEchoes
  <1>5. /\ OutEchoes(p) /\ SameRoles(p, b) /\ p.mixer = b.mixer
        /\ \A j \in Ins \ {i} : p.in[j] = h.in[j]
        /\ SameInput(p.in[i], h.in[i])
        /\ p.in[i].echo = IF ~NeedsReference(h, i) \/ h.active_output = None \/ ref = None
                            THEN h.in[i].echo ELSE p.echo_reference
        /\ NeedsReference(h, i) /\ h.active_output # None => p.echo_reference = ref
        /\ ~NeedsReference(h, i) => p.echo_reference = h.echo_reference
    <2>1. CASE NeedsReference(h, i)
      BY <1>2, <1>3, <1>4, <2>1, GetPath DEF SameEchoes
    <2>2. CASE ~NeedsReference(h, i)
      BY <1>2, <1>3, <1>4, <2>2 DEF SameRoles, SameInput, SameEchoes
    <2>3. QED BY <2>1, <2>2
  <1>6. InHeard(p)
    BY <1>3, <1>5 DEF InHeard, SameRoles, SameInput, Mics
  <1>7. Sole(Ins) => p.in[i].echo \in {None, p.echo_reference}
    <2>1. NeedsReference(h, i) => h.in[i].echo = None
      BY DEF NeedsReference
    <2>2. Sole(Ins) => h.in[i].echo \in {None, h.echo_reference}
      BY DEF Echoes, InEchoes
    <2>3. QED BY <1>5, <2>1, <2>2
  <1>8. QED BY <1>3, <1>5, <1>6, <1>7 DEF SameRoles, OutSame, p

(* An input that starts hears its microphone; it is not fed beside an      *)
(* output only if the reference it needs was not created.                  *)
LEMMA InputStartedPath ==
    ASSUME NEW h, Echoes(h), NEW i \in Ins, h.in[i].standby,
           NEW ref \in Refs \cup {None}
    PROVE  LET r == InputStarted(h, i, ref) IN
           /\ Echoes(r) /\ InHeard(r)
           /\ (OutHeard(h) => OutHeard(r)) /\ (CallHeard(h) => CallHeard(r))
           /\ Unfed(r) => NeedsReference(h, i) /\ h.active_output # None /\ ref = None
  <1> DEFINE p == PrepareInput(h, i, ref)
             ins == [p.in EXCEPT ![i].pcm = "open", ![i].standby = FALSE]
             r == InputStarted(h, i, ref)
  <1>0. h \in HalState /\ r \in HalState
    BY InputStart DEF Echoes, OutEchoes
  <1>1. /\ OutEchoes(p) /\ p.mode = h.mode /\ p.out_device = h.out_device
        /\ p.active_output = h.active_output /\ p.active_input = i
        /\ \A j \in Ins \ {i} : p.in[j] = h.in[j]
        /\ SameInput(p.in[i], h.in[i])
        /\ Sole(Ins) => p.in[i].echo \in {None, p.echo_reference}
        /\ NeedsReference(h, i) /\ h.active_output # None /\ ref # None =>
             p.in[i].echo = ref
        /\ ~NeedsReference(h, i) => p.in[i].echo = h.in[i].echo
        /\ OutSame(p, h) /\ (h.mode = "IN_CALL" => p.mixer = h.mixer)
        /\ InHeard(p)
    BY PrepareInputPath
  <1>2. p \in HalState /\ p.in \in [Ins -> InState]
    BY <1>1 DEF OutEchoes, HalState
  <1> HIDE DEF p
  <1>3. r = [p EXCEPT !.in = ins]
    BY <1>2 DEF InputStarted, p, HalState
  <1>4. /\ ~ins[i].standby /\ ins[i].echo = p.in[i].echo /\ ins[i].need = h.in[i].need
        /\ ins[i].device = p.in[i].device
    BY <1>1, <1>2 DEF InState, SameInput
  <1> HIDE DEF ins, r
  <1>5. /\ SameRoles(r, p) /\ r.mixer = p.mixer /\ r.in = ins /\ r.out = p.out
        /\ r.echo_reference = p.echo_reference /\ r.live = p.live
    BY <1>2, <1>3 DEF HalState, SameRoles
  <1>6. OutEchoes(r)
    BY <1>0, <1>1, <1>5, EchoFrames DEF SameRoles, r
  <1>7. InEchoes(r)
    BY <1>1, <1>4, <1>5 DEF InEchoes, Sole, SameRoles
  <1>8. (OutHeard(h) => OutHeard(r)) /\ (CallHeard(h) => CallHeard(r))
    BY <1>1, <1>5 DEF OutHeard, CallHeard, OutSame, SameRoles
  <1>9. InHeard(r)
    BY <1>1, <1>4, <1>5 DEF InHeard, SameRoles
  <1>10. Unfed(r) => NeedsReference(h, i) /\ h.active_output # None /\ ref = None
    BY <1>1, <1>4, <1>5, StreamsAssumption DEF Unfed, NeedsReference, SameRoles
  <1>11. QED BY <1>6, <1>7, <1>8, <1>9, <1>10 DEF Echoes, r

(* An input that does not start leaves none active.                        *)
LEMMA InputFailedPath ==
    ASSUME NEW h, Echoes(h), NEW i \in Ins, h.in[i].standby,
           NEW ref \in Refs \cup {None}
    PROVE  LET r == InputFailed(h, i, ref) IN
           /\ Echoes(r) /\ r.active_input = None
           /\ (OutHeard(h) => OutHeard(r)) /\ (CallHeard(h) => CallHeard(r))
  <1> DEFINE p == PrepareInput(h, i, ref)
             ins == [p.in EXCEPT ![i].pcm = "stale"]
             r == InputFailed(h, i, ref)
  <1>0. h \in HalState /\ r \in HalState
    BY InputFail DEF Echoes, OutEchoes
  <1>1. /\ OutEchoes(p) /\ p.mode = h.mode /\ p.out_device = h.out_device
        /\ p.active_output = h.active_output
        /\ SameInput(p.in[i], h.in[i])
        /\ Sole(Ins) => p.in[i].echo \in {None, p.echo_reference}
        /\ OutSame(p, h) /\ (h.mode = "IN_CALL" => p.mixer = h.mixer)
    BY PrepareInputPath
  <1>2. p \in HalState /\ p.in \in [Ins -> InState]
    BY <1>1 DEF OutEchoes, HalState
  <1> HIDE DEF p
  <1>3. r = [p EXCEPT !.active_input = None, !.in = ins]
    BY <1>2 DEF InputFailed, p, HalState
  <1>4. ins[i].standby /\ ins[i].echo = p.in[i].echo
    BY <1>1, <1>2 DEF InState, SameInput
  <1> HIDE DEF ins, r
  <1>5. /\ r.mode = p.mode /\ r.out_device = p.out_device /\ r.active_input = None
        /\ r.active_output = p.active_output
        /\ r.mixer = p.mixer /\ r.in = ins /\ r.out = p.out
        /\ r.echo_reference = p.echo_reference /\ r.live = p.live
    BY <1>2, <1>3 DEF HalState
  <1>6. OutEchoes(r)
    BY <1>0, <1>1, <1>5, EchoFrames DEF r
  <1>7. InEchoes(r)
    BY <1>1, <1>4, <1>5 DEF InEchoes, Sole
  <1>8. (OutHeard(h) => OutHeard(r)) /\ (CallHeard(h) => CallHeard(r))
    BY <1>1, <1>5 DEF OutHeard, CallHeard, OutSame
  <1>9. QED BY <1>5, <1>6, <1>7, <1>8 DEF Echoes, r

-----------------------------------------------------------------------------
(* What a step has to keep.  A thread that may not have adev->lock leaves  *)
(* alone what is selected and active.                                      *)

SamePaths(r, h) ==
    /\ r.mode = h.mode /\ r.out_device = h.out_device /\ r.in_device = h.in_device
    /\ r.active_output = h.active_output /\ r.active_input = h.active_input
    /\ r.mixer = h.mixer
SameActive ==
    /\ Echoes(hal') /\ SamePaths(hal', hal)
    /\ hal.active_input # None => hal'.in[hal.active_input] = hal.in[hal.active_input]

GoesOn(t) ==
    \/ th'[t] = th[t]
    \/ /\ th[t].op # "mode" /\ th'[t].op # "mode"
       /\ th[t].pc \in {"force", "in_stby"} =>
            th'[t].pc = "in_stby" /\ th'[t].tgt = th[t].tgt
       /\ th[t].op = "force" \/ th[t].pc = "write_tail" => th'[t].pc = "write_tail"
       /\ th'[t].op = "force" => th'[t].pc \in {"write_io", "write_tail"}

LEMMA SameActiveHeard ==
    ASSUME SameActive, IInv
    PROVE  /\ OutHeard(hal') <=> OutHeard(hal)
           /\ CallHeard(hal') <=> CallHeard(hal)
           /\ InHeard(hal') <=> InHeard(hal)
           /\ Unfed(hal') <=> Unfed(hal)
  BY DEF SameActive, SamePaths, OutHeard, CallHeard, InHeard, Unfed, VoiceInput,
     NeedsReference

LEMMA QuietPath ==
    ASSUME IInv, PathKept, SameActive, \A t \in Threads : GoesOn(t)
    PROVE  PathKept'
  <1>1. Echoes(hal')
    BY DEF SameActive
  <1>2. ASSUME NEW t \in Threads
        PROVE  /\ Forced(th'[t], hal')
               /\ th'[t].op = "force" => th'[t].pc \in {"write_io", "write_tail"}
    BY DEF PathKept, SameActive, SamePaths, GoesOn, Forced
  <1>3. OutHeard(hal)' \/ \E t \in Threads : th'[t].op = "mode"
    BY SameActiveHeard DEF PathKept, GoesOn
  <1>4. CallHeard(hal)' \/ \E t \in Threads : Rerouting(th'[t])
    BY SameActiveHeard DEF PathKept, GoesOn, Rerouting
  <1>5. InHeard(hal)' \/ \E t \in Threads : Stopping(th'[t], hal')
    <2>1. ASSUME NEW t \in Threads, Stopping(th[t], hal)
          PROVE  Stopping(th'[t], hal')
      BY <2>1 DEF GoesOn, Stopping, SameActive, SamePaths
    <2>2. QED BY <2>1, SameActiveHeard DEF PathKept
  <1>6. FALSE \notin RefCreate /\ Unfed(hal') => \E t \in Threads : Restarting(th'[t], hal')
    <2>1. ASSUME NEW t \in Threads, Restarting(th[t], hal)
          PROVE  Restarting(th'[t], hal')
      BY <2>1 DEF GoesOn, Restarting, SameActive, SamePaths
    <2>2. QED BY <2>1, SameActiveHeard DEF PathKept
  <1>7. QED BY <1>1, <1>2, <1>3, <1>4, <1>5, <1>6 DEF PathKept

(* A thread that has adev->lock, or takes it, is the only one that may be  *)
(* changing the mode or stopping an input.                                 *)
SoleOwner(t) ==
    \A u \in Threads \ {t} :
      th[u].op # "mode" /\ th[u].pc \notin {"force", "in_stby"}

LEMMA OwnerAlone ==
    ASSUME IInv, NEW t \in Threads, hw_lock \in {t, None} PROVE SoleOwner(t)
  <1>1. ASSUME NEW u \in Threads \ {t} PROVE ~OwnsHw(th[u])
    BY StreamsAssumption DEF IInv, HalInvariant, LocksHeld
  <1>2. QED BY <1>1, ActiveTypes DEF SoleOwner, OwnsHw, WellFormed, ModePcs

(* What it knows when its step begins...                                   *)
LEMMA OwnerStart ==
    ASSUME IInv, PathKept, NEW t \in Threads, SoleOwner(t)
    PROVE  /\ Echoes(hal) /\ Forced(th[t], hal)
           /\ th[t].op = "force" => th[t].pc \in {"write_io", "write_tail"}
           /\ OutHeard(hal) \/ th[t].op = "mode"
           /\ CallHeard(hal) \/ Rerouting(th[t])
           /\ InHeard(hal) \/ Stopping(th[t], hal)
  BY DEF PathKept, SoleOwner, Rerouting, Stopping

(* ...and has to leave behind.                                             *)
OwnerKeeps(x, h) ==
    /\ Echoes(h) /\ Forced(x, h)
    /\ x.op = "force" => x.pc \in {"write_io", "write_tail"}
    /\ OutHeard(h) \/ x.op = "mode"
    /\ CallHeard(h) \/ Rerouting(x)
    /\ InHeard(h) \/ Stopping(x, h)

LEMMA OwnerStep ==
    ASSUME IInv, PathKept, NEW t \in Threads, SoleOwner(t),
           \A u \in Threads \ {t} : th'[u] = th[u],
           OwnerKeeps(th'[t], hal'),
           FALSE \notin RefCreate /\ Unfed(hal') =>
             Restarting(th'[t], hal') \/ (Unfed(hal) /\ ~Restarting(th[t], hal))
    PROVE  PathKept'
  <1>1. ASSUME NEW u \in Threads
        PROVE  /\ Forced(th'[u], hal')
               /\ th'[u].op = "force" => th'[u].pc \in {"write_io", "write_tail"}
    BY DEF PathKept, OwnerKeeps, SoleOwner, Forced
  <1>2. FALSE \notin RefCreate /\ Unfed(hal') => \E u \in Threads : Restarting(th'[u], hal')
    <2>1. CASE Restarting(th'[t], hal')
      BY <2>1
    <2>2. CASE FALSE \notin RefCreate /\ Unfed(hal) /\ ~Restarting(th[t], hal)
      <3>1. PICK u \in Threads \ {t} : Restarting(th[u], hal)
        BY <2>2 DEF PathKept
      <3>2. Restarting(th'[u], hal')
        BY <3>1 DEF SoleOwner, Restarting
      <3>3. QED BY <3>2
    <2>3. QED BY <2>1, <2>2
  <1>3. QED BY <1>1, <1>2 DEF PathKept, OwnerKeeps

-----------------------------------------------------------------------------
(* The steps that leave the device as it is.                               *)

LEMMA SameHalPath ==
    ASSUME IInv, PathKept, hal' = hal, NEW t \in Threads, GoesOn(t),
           \A u \in Threads \ {t} : th'[u] = th[u]
    PROVE  PathKept'
  <1>1. SameActive
    BY DEF SameActive, SamePaths, PathKept
  <1>2. \A u \in Threads : GoesOn(u)
    BY DEF GoesOn
  <1>3. QED BY <1>1, <1>2, QuietPath

LEMMA PathOutWrite ==
    ASSUME IInv, PathKept, NEW t \in Threads,
           out_write(t) \/ in_read(t) \/ write_io(t) \/ read_io(t) \/ in_standby(t)
             \/ effect_refused(t)
    PROVE  PathKept'
  <1>1. /\ hal' = hal /\ th[t].pc \in {"write", "read", "write_io", "read_io", "read_sleep",
                                      "in_standby", "force", "add_effect", "remove_effect"}
    BY DEF out_write, in_read, write_io, read_io, in_standby, effect_refused, At
  <1>2. th[t].op # "mode" /\ (th[t].op = "force" => th[t].pc = "write_io")
    BY <1>1, ActiveTypes DEF WellFormed, ModePcs, PathKept
  <1>3. \/ \E pc \in PCs \ {"force", "in_stby"} : Goto(t, pc) /\ th[t].pc # "force"
                                   /\ (th[t].op = "force" => pc = "write_tail")
        \/ Goto(t, "in_stby") /\ th[t].op # "force"
        \/ Return(t) /\ th[t].pc # "force" /\ th[t].op # "force"
    BY <1>1, <1>2 DEF out_write, in_read, write_io, read_io, in_standby, effect_refused, At,
       EnterInputStandby, ReturnUnlocked, PCs
  <1>4. \A u \in Threads \ {t} : th'[u] = th[u]
    BY <1>3, ActiveTypes DEF Goto, Return
  <1>5. GoesOn(t)
    <2>1. ASSUME NEW pc \in PCs \ {"force", "in_stby"}, Goto(t, pc), th[t].pc # "force",
                 th[t].op = "force" => pc = "write_tail"
          PROVE  GoesOn(t)
      BY <1>1, <1>2, <2>1, ActiveTypes DEF Goto, GoesOn, ThreadState
    <2>2. CASE Goto(t, "in_stby") /\ th[t].op # "force"
      BY <1>1, <1>2, <2>2, ActiveTypes DEF Goto, GoesOn, ThreadState
    <2>3. CASE Return(t) /\ th[t].pc # "force" /\ th[t].op # "force"
      BY <1>1, <1>2, <2>3, ActiveTypes DEF Return, Idle, GoesOn
    <2>4. QED BY <1>3, <2>1, <2>2, <2>3
  <1>6. QED BY <1>1, <1>4, <1>5, SameHalPath

LEMMA PathCall ==
    ASSUME IInv, PathKept, NEW t \in Threads, NEW s \in Streams,
           \/ CallOut(t, s) \/ CallIn(t, s)
           \/ adev_close_output_stream(t, s) \/ adev_close_input_stream(t, s)
    PROVE  PathKept'
  <1>1. PICK pc \in PCs \ {"force", "in_stby"}, op \in {"none", "close"} : Call(t, s, pc, op)
    <2>1. CASE CallOut(t, s)
      BY <2>1 DEF CallOut, PCs
    <2>2. CASE CallIn(t, s)
      BY <2>2 DEF CallIn, PCs
    <2>3. CASE adev_close_output_stream(t, s) \/ adev_close_input_stream(t, s)
      BY <2>3 DEF adev_close_output_stream, adev_close_input_stream, Close, PCs
    <2>4. QED BY <2>1, <2>2, <2>3
  <1>2. hal' = hal /\ th[t] = Idle /\ th'[t] = [pc |-> pc, op |-> op, tgt |-> s, vol |-> 0]
        /\ \A u \in Threads \ {t} : th'[u] = th[u]
    BY <1>1, ActiveTypes DEF Call
  <1>3. GoesOn(t)
    BY <1>2 DEF GoesOn, Idle
  <1>4. QED BY <1>2, <1>3, SameHalPath

(* The decision to restart the input is taken over by the one that does.   *)
LEMMA PathWriteTail ==
    ASSUME IInv, PathKept, NEW t \in Threads, write_tail(t)
    PROVE  PathKept'
  <1>1. hal' = hal /\ th[t].pc = "write_tail" /\ hw_lock = None /\ th[t].op # "mode"
    BY ActiveTypes DEF write_tail, At, WellFormed, ModePcs
  <1>2. SoleOwner(t)
    BY <1>1, OwnerAlone
  <1>3. OwnerKeeps(th[t], hal)
    BY <1>2, OwnerStart DEF OwnerKeeps
  <1>4. CASE hal.active_input = None
    <2>1. th'[t] = Idle /\ \A u \in Threads \ {t} : th'[u] = th[u]
      BY <1>4, ActiveTypes DEF write_tail, Return
    <2>2. OwnerKeeps(th'[t], hal')
      BY <1>1, <1>3, <2>1 DEF OwnerKeeps, Idle, Forced, Rerouting, Stopping
    <2>3. ~Unfed(hal')
      BY <1>1, <1>4 DEF Unfed, VoiceInput
    <2>4. QED BY <1>2, <2>1, <2>2, <2>3, OwnerStep
  <1>5. CASE hal.active_input # None
    <2>1. th'[t].pc = "force" /\ th'[t].op = "none" /\ th'[t].tgt = hal.active_input
          /\ \A u \in Threads \ {t} : th'[u] = th[u]
      BY <1>5, ActiveTypes DEF write_tail, Idle
    <2>2. OwnerKeeps(th'[t], hal')
      BY <1>1, <1>3, <2>1 DEF OwnerKeeps, Forced, Rerouting, Stopping
    <2>3. Restarting(th'[t], hal')
      BY <1>1, <2>1 DEF Restarting
    <2>4. QED BY <1>2, <2>1, <2>2, <2>3, OwnerStep
  <1>6. QED BY <1>4, <1>5

-----------------------------------------------------------------------------
(* The steps of the owner of adev->lock.                                   *)

(* It is there with all paths in order, unless it changes the mode or      *)
(* stops an input.                                                         *)
LEMMA OwnerOrder ==
    ASSUME IInv, PathKept, NEW t \in Threads, OwnsHw(th[t]),
           th[t].pc \notin ModePcs \cup {"in_stby", "volume_ctl"}
    PROVE  /\ SoleOwner(t) /\ Echoes(hal) /\ hal \in HalState
           /\ OutHeard(hal) /\ CallHeard(hal) /\ InHeard(hal)
           /\ th[t].op \in {"none", "close"}
           /\ th[t].pc # "force" => ~Restarting(th[t], hal)
  <1>1. hw_lock = t
    BY DEF IInv, HalInvariant, LocksHeld
  <1>2. SoleOwner(t)
    BY <1>1, OwnerAlone
  <1>3. th[t].op \in {"none", "close"} /\ th[t].pc # "write_tail"
    BY <1>2, OwnerStart, ActiveTypes DEF WellFormed, OwnsHw, ModePcs, ThreadState
  <1>4. QED
    BY <1>2, <1>3, OwnerStart, ActiveTypes DEF Rerouting, Stopping, Restarting

(* Its call ends, or goes on with another step than those.                 *)
LEMMA OwnerDone ==
    ASSUME NEW x, x.op \in {"none", "close"}, NEW h, Echoes(h),
           OutHeard(h), CallHeard(h), InHeard(h) \/ Stopping(x, h)
    PROVE  OwnerKeeps(x, h)
  BY DEF OwnerKeeps, Forced

LEMMA Returned ==
    ASSUME IInv, NEW t \in Threads, Return(t)
    PROVE  th'[t] = Idle /\ Idle.op = "none" /\ \A u \in Threads \ {t} : th'[u] = th[u]
  BY ActiveTypes DEF Return, Idle

LEMMA PathStartOutput ==
    ASSUME IInv, PathKept, NEW t \in Threads, start_output_stream(t)
    PROVE  PathKept'
  <1> DEFINE o == th[t].tgt
  <1>1. /\ th[t].pc = "write" /\ o \in Outs /\ hal.out[o].standby
        /\ hal' = OutputStarted(hal, o)
    BY ActiveTypes DEF start_output_stream, At, WellFormed, OutPcs
  <1>2. /\ SoleOwner(t) /\ Echoes(hal) /\ CallHeard(hal) /\ InHeard(hal)
    BY <1>1, OwnerOrder DEF OwnsHw, ModePcs
  <1>3. /\ th'[t].pc = "write_io" /\ \A u \in Threads \ {t} : th'[u] = th[u]
        /\ th'[t].op = IF VoiceInput(hal) THEN "force" ELSE "none"
    BY ActiveTypes DEF start_output_stream, ThreadState
  <1> HIDE DEF o
  <1>4. /\ Echoes(hal') /\ OutHeard(hal') /\ CallHeard(hal') /\ InHeard(hal')
        /\ VoiceInput(hal') <=> VoiceInput(hal)
    BY <1>1, <1>2, OutputStartedPath
  <1>5. OwnerKeeps(th'[t], hal')
    BY <1>3, <1>4 DEF OwnerKeeps, Forced
  <1>6. Unfed(hal') => Restarting(th'[t], hal')
    BY <1>3, <1>4 DEF Unfed, Restarting
  <1>7. QED BY <1>2, <1>3, <1>5, <1>6, OwnerStep

LEMMA PathOutputFails ==
    ASSUME IInv, PathKept, NEW t \in Threads, start_output_fails(t)
    PROVE  PathKept'
  <1> DEFINE o == th[t].tgt
  <1>1. /\ th[t].pc = "write" /\ o \in Outs /\ hal.out[o].standby
        /\ hal' = OutputFailed(hal, o) /\ Return(t)
    BY ActiveTypes DEF start_output_fails, At, WellFormed, OutPcs, ReturnUnlocked
  <1>2. /\ SoleOwner(t) /\ Echoes(hal) /\ CallHeard(hal) /\ InHeard(hal)
    BY <1>1, OwnerOrder DEF OwnsHw, ModePcs
  <1> HIDE DEF o
  <1>3. /\ Echoes(hal') /\ CallHeard(hal') /\ InHeard(hal') /\ hal'.active_output = None
    BY <1>1, <1>2, OutputFailedPath
  <1>4. OutHeard(hal') /\ ~Unfed(hal')
    BY <1>3 DEF OutHeard, Unfed
  <1>5. th'[t].op = "none" /\ \A u \in Threads \ {t} : th'[u] = th[u]
    BY <1>1, Returned
  <1>6. OwnerKeeps(th'[t], hal')
    BY <1>3, <1>4, <1>5, OwnerDone
  <1>7. QED BY <1>2, <1>4, <1>5, <1>6, OwnerStep

LEMMA PathOutStandby ==
    ASSUME IInv, PathKept, NEW t \in Threads, out_standby(t)
    PROVE  PathKept'
  <1> DEFINE o == th[t].tgt
  <1>1. /\ th[t].pc = "out_standby" /\ o \in Outs
        /\ hal' = do_output_standby(hal, o)
    BY ActiveTypes DEF out_standby, At, WellFormed, OutPcs
  <1>2. /\ SoleOwner(t) /\ Echoes(hal) /\ OutHeard(hal) /\ CallHeard(hal) /\ InHeard(hal)
        /\ ~Restarting(th[t], hal) /\ th[t].op \in {"none", "close"}
    BY <1>1, OwnerOrder DEF OwnsHw, ModePcs
  <1>3. /\ th'[t].op \in {"none", "close"} /\ \A u \in Threads \ {t} : th'[u] = th[u]
    BY <1>2, ActiveTypes DEF out_standby, Goto, Return, Idle, ThreadState
  <1> HIDE DEF o
  <1>4. /\ Echoes(hal') /\ OutHeard(hal') /\ CallHeard(hal') /\ InHeard(hal')
    BY <1>1, <1>2, OutputStandbyPath
       DEF OutHeard, CallHeard, InHeard, MicSame, Mics
  <1>5. Unfed(hal') => Unfed(hal)
    BY <1>1, <1>2, OutputStandbyPath DEF Unfed
  <1>6. OwnerKeeps(th'[t], hal')
    BY <1>3, <1>4, OwnerDone
  <1>7. QED BY <1>2, <1>3, <1>5, <1>6, OwnerStep

LEMMA PathRoute ==
    ASSUME IInv, PathKept, NEW t \in Threads, NEW devices \in RouteSets,
           out_set_parameters(t, devices)
    PROVE  PathKept'
  <1> DEFINE o == th[t].tgt
             active == o = hal.active_output
             d == IF active THEN do_output_standby(hal, o) ELSE hal
             e == [d EXCEPT !.out_device = devices]
  <1>1. /\ th[t].pc = "route" /\ o \in Outs
    BY ActiveTypes DEF out_set_parameters, At, WellFormed, OutPcs
  <1>2. /\ SoleOwner(t) /\ Echoes(hal) /\ OutHeard(hal) /\ CallHeard(hal) /\ InHeard(hal)
        /\ ~Restarting(th[t], hal) /\ th[t].op \in {"none", "close"}
    BY <1>1, OwnerOrder DEF OwnsHw, ModePcs
  <1>3. CASE devices = hal.out_device
    <2>1. hal' = hal /\ Return(t)
      BY <1>3 DEF out_set_parameters, ReturnUnlocked
    <2>2. th'[t].op = "none" /\ \A u \in Threads \ {t} : th'[u] = th[u]
      BY <2>1, Returned
    <2>3. OwnerKeeps(th'[t], hal')
      BY <1>2, <2>1, <2>2, OwnerDone
    <2>4. QED BY <1>2, <2>1, <2>2, <2>3, OwnerStep
  <1>4. CASE devices # hal.out_device
    <2>1. hal' = select_output_device(e)
      BY <1>4 DEF out_set_parameters
    <2>2. /\ th'[t].op \in {"none", "close"} /\ \A u \in Threads \ {t} : th'[u] = th[u]
      BY <1>2, <1>4, ActiveTypes
         DEF out_set_parameters, ReturnUnlocked, Return, Idle, ThreadState
    <2>3. /\ Echoes(d) /\ d.mode = hal.mode /\ d.in_device = hal.in_device
          /\ d.active_input = hal.active_input /\ d.in = hal.in
          /\ MicSame(d, hal)
          /\ active => d.active_output = None
          /\ ~active => d = hal
      <3>1. CASE active
        <4>1. o # None /\ ~hal.out[o].standby
          BY <1>1, <1>2, <3>1, StreamsAssumption DEF Echoes, OutEchoes
        <4>2. QED BY <1>1, <1>2, <3>1, <4>1, OutputStandbyPath
      <3>2. CASE ~active
        BY <1>2, <3>2 DEF MicSame
      <3>3. QED BY <3>1, <3>2
    <2> HIDE DEF o, active, d
    <2>4. e \in HalState /\ e.mode = d.mode /\ e.in_device = d.in_device
          /\ e.active_input = d.active_input /\ e.active_output = d.active_output
          /\ e.mixer = d.mixer /\ SameEchoes(e, d)
      <3>1. devices \in (SUBSET OutDevices) \ {{}}
        BY InputsAssumption
      <3>2. QED BY <2>3, <3>1 DEF Echoes, OutEchoes, HalState, SameEchoes
    <2> HIDE DEF e
    <2>5. /\ hal' \in HalState /\ SameRoles(hal', e) /\ SameEchoes(hal', e)
          /\ (e.mode # "IN_CALL" => MicSame(hal', e))
          /\ OutHeard(hal') /\ CallHeard(hal')
      BY <2>1, <2>4, SelectOutputPath
    <2>6. Echoes(hal')
      BY <2>3, <2>4, <2>5, EchoFrames, InputFrames DEF Echoes, SameRoles, SameEchoes
    <2>7. InHeard(hal')
      BY <1>2, <2>3, <2>4, <2>5 DEF InHeard, SameRoles, SameEchoes, MicSame, Mics
    <2>8. Unfed(hal') => Unfed(hal)
      BY <2>3, <2>4, <2>5 DEF Unfed, VoiceInput, NeedsReference, SameRoles, SameEchoes
    <2>9. OwnerKeeps(th'[t], hal')
      BY <2>2, <2>5, <2>6, <2>7, OwnerDone
    <2>10. QED BY <1>2, <2>2, <2>8, <2>9, OwnerStep
  <1>5. QED BY <1>3, <1>4

(* What start_input_stream gets for a reference.                           *)
LEMMA NewReferenceTypes ==
    ASSUME NEW i \in Ins, NEW ref \in NewReferences(i)
    PROVE  /\ ref \in Refs \cup {None}
           /\ FALSE \notin RefCreate /\ NeedsReference(hal, i) /\ hal.active_output # None =>
                ref # None
  BY StreamsAssumption DEF NewReferences

LEMMA PathStartInput ==
    ASSUME IInv, PathKept, NEW t \in Threads, start_input_stream(t)
    PROVE  PathKept'
  <1> DEFINE i == th[t].tgt
  <1>1. th[t].pc = "start_in" /\ i \in Ins /\ hal.in[i].standby
    BY ActiveTypes DEF start_input_stream, At, WellFormed, InPcs, IInv, HalInvariant, PcmKept
  <1>2. /\ SoleOwner(t) /\ Echoes(hal) /\ OutHeard(hal) /\ CallHeard(hal)
        /\ th[t].op \in {"none", "close"}
    BY <1>1, OwnerOrder DEF OwnsHw, ModePcs
  <1>3. PICK ref \in NewReferences(i) : hal' = InputStarted(hal, i, ref)
    BY DEF start_input_stream
  <1>4. /\ th'[t].op \in {"none", "close"} /\ \A u \in Threads \ {t} : th'[u] = th[u]
    BY <1>2, ActiveTypes DEF start_input_stream, Goto, ThreadState
  <1> HIDE DEF i
  <1>5. /\ ref \in Refs \cup {None}
        /\ FALSE \notin RefCreate /\ NeedsReference(hal, i) /\ hal.active_output # None =>
             ref # None
    BY <1>1, NewReferenceTypes
  <1>6. /\ Echoes(hal') /\ InHeard(hal') /\ OutHeard(hal') /\ CallHeard(hal')
        /\ Unfed(hal') => NeedsReference(hal, i) /\ hal.active_output # None /\ ref = None
    BY <1>1, <1>2, <1>3, <1>5, InputStartedPath
  <1>7. OwnerKeeps(th'[t], hal')
    BY <1>4, <1>6, OwnerDone
  <1>8. QED BY <1>2, <1>4, <1>5, <1>6, <1>7, OwnerStep

LEMMA PathInputFails ==
    ASSUME IInv, PathKept, NEW t \in Threads, start_input_fails(t)
    PROVE  PathKept'
  <1> DEFINE i == th[t].tgt
  <1>1. th[t].pc = "start_in" /\ i \in Ins /\ hal.in[i].standby
    BY ActiveTypes DEF start_input_fails, At, WellFormed, InPcs, IInv, HalInvariant, PcmKept
  <1>2. /\ SoleOwner(t) /\ Echoes(hal) /\ OutHeard(hal) /\ CallHeard(hal)
        /\ th[t].op \in {"none", "close"}
    BY <1>1, OwnerOrder DEF OwnsHw, ModePcs
  <1>3. PICK ref \in NewReferences(i) : hal' = InputFailed(hal, i, ref)
    BY DEF start_input_fails
  <1>4. /\ th'[t].op \in {"none", "close"} /\ \A u \in Threads \ {t} : th'[u] = th[u]
    BY <1>2, ActiveTypes DEF start_input_fails, Goto, ThreadState
  <1> HIDE DEF i
  <1>5. /\ Echoes(hal') /\ hal'.active_input = None /\ OutHeard(hal') /\ CallHeard(hal')
    BY <1>1, <1>2, <1>3, NewReferenceTypes, InputFailedPath
  <1>6. InHeard(hal') /\ ~Unfed(hal')
    BY <1>5 DEF InHeard, Unfed, VoiceInput
  <1>7. OwnerKeeps(th'[t], hal')
    BY <1>4, <1>5, <1>6, OwnerDone
  <1>8. QED BY <1>2, <1>4, <1>6, <1>7, OwnerStep

(* The calls that change what an input asks for: when that matters to the  *)
(* paths, they put the input in standby before they return.                *)
LEMMA InputCall ==
    ASSUME IInv, PathKept, NEW t \in Threads, NEW i \in Ins, th[t].tgt = i,
           th[t].pc \in {"in_params", "add_effect", "remove_effect"},
           NEW new \in InState, hal' = [hal EXCEPT !.in[i] = new],
           new.standby = hal.in[i].standby, new.echo = hal.in[i].echo,
           EnterInputStandby(t) \/ ReturnUnlocked(t),
           ReturnUnlocked(t) =>
             /\ new.device = hal.in[i].device /\ new.source = hal.in[i].source
             /\ new.need => hal.in[i].need
    PROVE  PathKept'
  <1>1. /\ SoleOwner(t) /\ Echoes(hal) /\ OutHeard(hal) /\ CallHeard(hal) /\ InHeard(hal)
        /\ ~Restarting(th[t], hal) /\ th[t].op \in {"none", "close"} /\ hal \in HalState
    BY OwnerOrder DEF OwnsHw, ModePcs
  <1> DEFINE ins == [hal.in EXCEPT ![i] = new]
  <1>2. \A j \in Ins : ins[j] = IF j = i THEN new ELSE hal.in[j]
    BY <1>1 DEF HalState
  <1>3. hal' = [hal EXCEPT !.in = ins] /\ ins \in [Ins -> InState]
    BY <1>1 DEF HalState
  <1> HIDE DEF ins
  <1>4. /\ hal' \in HalState /\ SameRoles(hal', hal) /\ hal'.mixer = hal.mixer
        /\ hal'.echo_reference = hal.echo_reference /\ hal'.live = hal.live
        /\ hal'.out = hal.out /\ hal'.in = ins
    BY <1>1, <1>3 DEF HalState, SameRoles
  <1>5. Echoes(hal')
    <2>1. OutEchoes(hal')
      BY <1>1, <1>4, EchoFrames DEF Echoes, SameRoles
    <2>2. hal.active_input \in Ins \cup {None}
      BY <1>1 DEF HalState
    <2>3. \A j \in Ins : ins[j].standby = hal.in[j].standby /\ ins[j].echo = hal.in[j].echo
      BY <1>2
    <2>4. InEchoes(hal')
      BY <1>1, <1>4, <2>2, <2>3 DEF Echoes, InEchoes, SameRoles
    <2>5. QED BY <2>1, <2>4 DEF Echoes
  <1>6. OutHeard(hal') /\ CallHeard(hal')
    BY <1>1, <1>4 DEF OutHeard, CallHeard, SameRoles
  <1>7. CASE EnterInputStandby(t)
    <2>1. /\ th'[t].pc = "in_stby" /\ th'[t].tgt = i /\ th'[t].op \in {"none", "close"}
          /\ \A u \in Threads \ {t} : th'[u] = th[u]
      BY <1>1, <1>7, ActiveTypes DEF EnterInputStandby, Goto, ThreadState
    <2>2. CASE i = hal.active_input
      <3>1. Stopping(th'[t], hal') /\ Restarting(th'[t], hal')
        BY <1>4, <2>1, <2>2 DEF Stopping, Restarting, SameRoles
      <3>2. OwnerKeeps(th'[t], hal')
        BY <1>5, <1>6, <2>1, <3>1, OwnerDone
      <3>3. QED BY <1>1, <2>1, <3>1, <3>2, OwnerStep
    <2>3. CASE i # hal.active_input
      <3>1. hal.active_input # None => hal'.in[hal.active_input] = hal.in[hal.active_input]
        BY <1>1, <1>2, <1>4, <2>3 DEF HalState
      <3>2. InHeard(hal') /\ (Unfed(hal') => Unfed(hal))
        BY <1>1, <1>4, <3>1 DEF InHeard, Unfed, VoiceInput, NeedsReference, SameRoles
      <3>3. OwnerKeeps(th'[t], hal')
        BY <1>5, <1>6, <2>1, <3>2, OwnerDone
      <3>4. QED BY <1>1, <2>1, <3>2, <3>3, OwnerStep
    <2>4. QED BY <2>2, <2>3
  <1>8. CASE ReturnUnlocked(t)
    <2>1. th'[t].op = "none" /\ \A u \in Threads \ {t} : th'[u] = th[u]
      BY <1>8, Returned DEF ReturnUnlocked
    <2>2. \A j \in Ins : /\ ins[j].device = hal.in[j].device
                         /\ ins[j].source = hal.in[j].source
                         /\ ins[j].need => hal.in[j].need
                         /\ ins[j].echo = hal.in[j].echo
      BY <1>2, <1>8
    <2>3. hal.active_input \in Ins \cup {None}
      BY <1>1 DEF HalState
    <2>4. InHeard(hal')
      BY <1>1, <1>4, <2>2, <2>3 DEF InHeard, SameRoles
    <2>5. Unfed(hal') => Unfed(hal)
      BY <1>4, <2>2, <2>3 DEF Unfed, VoiceInput, NeedsReference, SameRoles
    <2>6. OwnerKeeps(th'[t], hal')
      BY <1>5, <1>6, <2>1, <2>4, OwnerDone
    <2>7. QED BY <1>1, <2>1, <2>5, <2>6, OwnerStep
  <1>9. QED BY <1>7, <1>8

LEMMA PathParameters ==
    ASSUME IInv, PathKept, NEW t \in Threads, NEW source \in Sources \cup {None},
           NEW device \in MicSet \cup {None}, in_set_parameters(t, source, device)
    PROVE  PathKept'
  <1> DEFINE i == th[t].tgt
             old == hal.in[i]
             same_source == source \in {None, old.source}
             same_device == device \in {None, old.device}
             src == IF same_source THEN old.source ELSE source
             dev == IF same_device THEN old.device ELSE device
             new == [old EXCEPT !.source = src, !.device = dev]
  <1>1. th[t].pc = "in_params" /\ i \in Ins
    BY ActiveTypes DEF in_set_parameters, At, WellFormed, InPcs
  <1>2. old \in InState
    BY <1>1, ActiveTypes DEF HalState
  <1>3. src \in {"DEFAULT"} \cup Sources /\ dev \in InDevices
    BY <1>2, InputsAssumption DEF InState
  <1>4. hal' = [hal EXCEPT !.in[i].source = src, !.in[i].device = dev]
    BY <1>1, ActiveTypes DEF in_set_parameters, HalState
  <1>5. /\ EnterInputStandby(t) \/ ReturnUnlocked(t)
        /\ (same_source /\ same_device) \/ EnterInputStandby(t)
    BY DEF in_set_parameters
  <1>6. same_source /\ same_device => src = old.source /\ dev = old.device
    OBVIOUS
  <1>7. ~(EnterInputStandby(t) /\ ReturnUnlocked(t))
    BY <1>1, ActiveTypes DEF EnterInputStandby, ReturnUnlocked, Goto, Return, Idle
  <1> HIDE DEF i, src, dev, same_source, same_device
  <1>8. hal' = [hal EXCEPT !.in[i] = new]
    BY <1>1, <1>2, <1>4, ActiveTypes DEF HalState, InState
  <1>9. /\ new \in InState /\ new.standby = old.standby /\ new.echo = old.echo
        /\ new.need = old.need /\ new.source = src /\ new.device = dev
    BY <1>2, <1>3 DEF InState
  <1> HIDE DEF new
  <1>10. QED BY <1>1, <1>5, <1>6, <1>7, <1>8, <1>9, InputCall DEF i

LEMMA PathAddEffect ==
    ASSUME IInv, PathKept, NEW t \in Threads, NEW effect \in Effects,
           in_add_audio_effect(t, effect)
    PROVE  PathKept'
  <1> DEFINE i == th[t].tgt
             old == hal.in[i]
             fx == old.fx \cup {effect}
             need == old.need \/ effect = AEC
             new == [old EXCEPT !.fx = fx, !.need = need]
  <1>1. th[t].pc = "add_effect" /\ i \in Ins
    BY ActiveTypes DEF in_add_audio_effect, At, WellFormed, InPcs
  <1>2. old \in InState
    BY <1>1, ActiveTypes DEF HalState
  <1>3. hal' = [hal EXCEPT !.in[i].fx = fx, !.in[i].need = need]
    BY <1>1, ActiveTypes DEF in_add_audio_effect, HalState
  <1>4. /\ new \in InState /\ new.standby = old.standby /\ new.echo = old.echo
        /\ new.source = old.source /\ new.device = old.device
        /\ effect # AEC => (new.need => old.need)
    BY <1>2 DEF InState
  <1>5. /\ EnterInputStandby(t) \/ ReturnUnlocked(t)
        /\ effect = AEC => EnterInputStandby(t)
    BY DEF in_add_audio_effect
  <1>6. ~(EnterInputStandby(t) /\ ReturnUnlocked(t))
    BY <1>1, ActiveTypes DEF EnterInputStandby, ReturnUnlocked, Goto, Return, Idle
  <1> HIDE DEF i, fx, need
  <1>7. hal' = [hal EXCEPT !.in[i] = new]
    BY <1>1, <1>2, <1>3, ActiveTypes DEF HalState, InState
  <1> HIDE DEF new
  <1>8. QED BY <1>1, <1>4, <1>5, <1>6, <1>7, InputCall DEF i

LEMMA PathRemoveEffect ==
    ASSUME IInv, PathKept, NEW t \in Threads, NEW effect \in Effects,
           NEW described \in BOOLEAN, in_remove_audio_effect(t, effect, described)
    PROVE  PathKept'
  <1> DEFINE i == th[t].tgt
             old == hal.in[i]
             fx == old.fx \ {effect}
             need == old.need /\ ~(described /\ effect = AEC)
             new == [old EXCEPT !.fx = fx, !.need = need]
  <1>1. th[t].pc = "remove_effect" /\ i \in Ins
    BY ActiveTypes DEF in_remove_audio_effect, At, WellFormed, InPcs
  <1>2. old \in InState
    BY <1>1, ActiveTypes DEF HalState
  <1>3. hal' = [hal EXCEPT !.in[i].fx = fx, !.in[i].need = need]
    BY <1>1, ActiveTypes DEF in_remove_audio_effect, HalState
  <1>4. /\ new \in InState /\ new.standby = old.standby /\ new.echo = old.echo
        /\ new.source = old.source /\ new.device = old.device
        /\ new.need => old.need
    BY <1>2 DEF InState
  <1>5. EnterInputStandby(t) \/ ReturnUnlocked(t)
    BY DEF in_remove_audio_effect
  <1> HIDE DEF i, fx, need
  <1>6. hal' = [hal EXCEPT !.in[i] = new]
    BY <1>1, <1>2, <1>3, ActiveTypes DEF HalState, InState
  <1> HIDE DEF new
  <1>7. QED BY <1>1, <1>4, <1>5, <1>6, InputCall DEF i

LEMMA PathInputStandby ==
    ASSUME IInv, PathKept, NEW t \in Threads, input_standby(t)
    PROVE  PathKept'
  <1> DEFINE i == th[t].tgt
  <1>1. /\ th[t].pc = "in_stby" /\ i \in Ins /\ hal' = do_input_standby(hal, i)
    BY ActiveTypes DEF input_standby, At, WellFormed, InPcs
  <1>2. SoleOwner(t)
    BY <1>1, OwnerAlone DEF IInv, HalInvariant, LocksHeld, OwnsHw
  <1>3. /\ Echoes(hal) /\ Forced(th[t], hal) /\ th[t].op # "force"
        /\ OutHeard(hal) \/ th[t].op = "mode"
        /\ CallHeard(hal) \/ Rerouting(th[t])
        /\ InHeard(hal) \/ Stopping(th[t], hal)
    BY <1>1, <1>2, OwnerStart
  <1>4. hal.active_input = i => ~hal.in[i].standby
    BY <1>1, <1>3, StreamsAssumption DEF Echoes, InEchoes
  <1> HIDE DEF i
  <1>5. /\ Echoes(hal') /\ hal'.active_output = hal.active_output
        /\ hal.in[i].standby => hal' = hal
        /\ ~hal.in[i].standby => hal'.active_input = None
        /\ OutHeard(hal) => OutHeard(hal')
        /\ CallHeard(hal) => CallHeard(hal')
    BY <1>1, <1>3, InputStandbyPath DEF OutHeard, CallHeard, OutSame
  <1>6. InHeard(hal) => InHeard(hal')
    BY <1>5 DEF InHeard
  <1>7. FALSE \notin RefCreate /\ Unfed(hal') => Unfed(hal) /\ ~Restarting(th[t], hal)
    BY <1>1, <1>3, <1>4, <1>5 DEF Unfed, VoiceInput, Restarting, i
  <1>8. CASE th[t].op = "mode"
    <2>1. /\ th'[t].op = "mode" /\ th'[t].pc = "mode_select"
          /\ \A u \in Threads \ {t} : th'[u] = th[u]
      BY <1>8, ActiveTypes DEF input_standby, ThreadState
    <2>2. i = hal.active_input /\ hal.active_output = None
      BY <1>1, <1>3, <1>8 DEF Forced, i
    <2>3. hal'.active_input = None /\ hal'.active_output = None
      BY <1>4, <1>5, <2>2
    <2>4. OwnerKeeps(th'[t], hal')
      BY <1>5, <2>1, <2>3 DEF OwnerKeeps, Forced, Rerouting, Stopping
    <2>5. QED BY <1>2, <1>7, <2>1, <2>4, OwnerStep
  <1>9. CASE th[t].op # "mode"
    <2>1. /\ th'[t].op \in {"none", "close"} /\ \A u \in Threads \ {t} : th'[u] = th[u]
      BY <1>3, <1>9, ActiveTypes
         DEF input_standby, ReturnUnlocked, Return, Goto, Idle, ThreadState
    <2>2. OutHeard(hal') /\ CallHeard(hal')
      BY <1>3, <1>5, <1>9 DEF Rerouting
    <2>3. InHeard(hal')
      <3>1. CASE Stopping(th[t], hal)
        BY <1>4, <1>5, <1>9, <3>1 DEF Stopping, InHeard, i
      <3>2. QED BY <1>3, <1>6, <3>1
    <2>4. OwnerKeeps(th'[t], hal')
      BY <1>5, <2>1, <2>2, <2>3, OwnerDone
    <2>5. QED BY <1>2, <1>7, <2>1, <2>4, OwnerStep
  <1>10. QED BY <1>8, <1>9

-----------------------------------------------------------------------------
(* The steps of a change of the mode, and the device's other parameters.   *)

(* Fields of the device that are not about paths.                          *)
LEMMA OtherFields ==
    ASSUME NEW h, Echoes(h), NEW r \in HalState,
           r.active_output = h.active_output, r.active_input = h.active_input,
           SameEchoes(r, h)
    PROVE  Echoes(r)
  BY EchoFrames, InputFrames DEF Echoes, SameEchoes

LEMMA PathSetMode ==
    ASSUME IInv, PathKept, NEW t \in Threads, NEW mode \in ModeSet, adev_set_mode(t, mode)
    PROVE  PathKept'
  <1>1. th[t] = Idle /\ hw_lock = None /\ mode \in Modes /\ mode # hal.mode
    BY InputsAssumption DEF adev_set_mode
  <1>2. SoleOwner(t)
    BY <1>1, OwnerAlone
  <1>3. /\ Echoes(hal) /\ OutHeard(hal) /\ CallHeard(hal) /\ InHeard(hal)
        /\ ~Restarting(th[t], hal) /\ hal \in HalState
    BY <1>1, <1>2, OwnerStart, ActiveTypes DEF Idle, Rerouting, Stopping, Restarting
  <1>4. \A u \in Threads : th[u].op # "mode"
    BY <1>1, <1>2 DEF SoleOwner, Idle
  <1>5. hal.in_call <=> hal.mode = "IN_CALL"
    BY <1>4 DEF IInv, HalInvariant, CallKept
  <1>6. /\ hal' \in HalState /\ hal'.mode = mode
        /\ hal'.active_output = hal.active_output /\ hal'.active_input = hal.active_input
        /\ SameEchoes(hal', hal)
        /\ hal'.out_device = hal.out_device /\ hal'.in_device = hal.in_device
        /\ hal'.mixer = hal.mixer
    <2> DEFINE flag == hal.in_call /\ mode = "IN_CALL"
    <2>1. flag \in BOOLEAN
      BY <1>3 DEF HalState
    <2>2. hal' = [hal EXCEPT !.mode = mode, !.in_call = flag]
      BY DEF adev_set_mode
    <2> HIDE DEF flag
    <2>3. QED BY <1>1, <1>3, <2>1, <2>2 DEF HalState, SameEchoes
  <1>7. Echoes(hal')
    BY <1>3, <1>6, OtherFields
  <1>8. Unfed(hal') => Unfed(hal)
    BY <1>6 DEF Unfed, VoiceInput, NeedsReference, SameEchoes
  <1>9. CASE CrossesCall(hal, mode)
    <2>1. /\ th'[t].op = "mode" /\ th'[t].pc = "mode_out"
          /\ \A u \in Threads \ {t} : th'[u] = th[u]
      BY <1>9, ActiveTypes DEF adev_set_mode, ThreadState
    <2>2. OwnerKeeps(th'[t], hal')
      BY <1>7, <2>1 DEF OwnerKeeps, Forced, Rerouting, Stopping
    <2>3. QED BY <1>2, <1>3, <1>8, <2>1, <2>2, OwnerStep
  <1>10. CASE ~CrossesCall(hal, mode)
    <2>1. th' = th
      BY <1>10 DEF adev_set_mode
    <2>2. hal.mode # "IN_CALL" /\ mode # "IN_CALL"
      BY <1>1, <1>5, <1>10 DEF CrossesCall
    <2>3. OutHeard(hal') /\ CallHeard(hal') /\ InHeard(hal')
      BY <1>3, <1>6, <2>2 DEF OutHeard, CallHeard, InHeard, SameEchoes
    <2>4. OwnerKeeps(th'[t], hal')
      BY <1>1, <1>7, <2>1, <2>3, OwnerDone DEF Idle
    <2>5. QED BY <1>2, <1>3, <1>8, <2>1, <2>4, OwnerStep
  <1>11. QED BY <1>9, <1>10

(* Whoever changes the mode is alone, with a device in order.              *)
LEMMA ModeStart ==
    ASSUME IInv, PathKept, NEW t \in Threads, th[t].op = "mode"
    PROVE  SoleOwner(t) /\ Echoes(hal) /\ Forced(th[t], hal) /\ hal \in HalState
           /\ (CallHeard(hal) \/ Rerouting(th[t]))
  <1>1. hw_lock = t
    BY ActiveTypes DEF WellFormed, OwnsHw, IInv, HalInvariant, LocksHeld
  <1>2. SoleOwner(t)
    BY <1>1, OwnerAlone
  <1>3. QED BY <1>2, OwnerStart, ActiveTypes

LEMMA PathForceOutput ==
    ASSUME IInv, PathKept, NEW t \in Threads, force_output_standby(t)
    PROVE  PathKept'
  <1>1. th[t].pc = "mode_out" /\ th[t].op = "mode"
    BY ActiveTypes DEF force_output_standby, At, WellFormed, ModePcs
  <1>2. SoleOwner(t) /\ Echoes(hal) /\ hal \in HalState
    BY <1>1, ModeStart
  <1>3. /\ th'[t].op = "mode" /\ th'[t].pc = "mode_in"
        /\ \A u \in Threads \ {t} : th'[u] = th[u]
    BY <1>1, ActiveTypes DEF force_output_standby, Goto, ThreadState
  <1>4. Echoes(hal') /\ hal'.active_output = None
    <2>1. CASE hal.active_output = None
      BY <1>2, <2>1 DEF force_output_standby
    <2>2. CASE hal.active_output # None
      <3> DEFINE o == hal.active_output
      <3>1. o \in Outs /\ ~hal.out[o].standby
        BY <1>2, <2>2 DEF HalState, Echoes, OutEchoes
      <3>2. hal' = do_output_standby(hal, o)
        BY <2>2 DEF force_output_standby
      <3> HIDE DEF o
      <3>3. QED BY <1>2, <3>1, <3>2, OutputStandbyPath
    <2>3. QED BY <2>1, <2>2
  <1>5. OwnerKeeps(th'[t], hal')
    BY <1>3, <1>4 DEF OwnerKeeps, Forced, Rerouting, Stopping
  <1>6. QED BY <1>2, <1>3, <1>4, <1>5, OwnerStep DEF Unfed

LEMMA PathForceInput ==
    ASSUME IInv, PathKept, NEW t \in Threads, force_input_standby(t)
    PROVE  PathKept'
  <1>1. th[t].pc = "mode_in" /\ th[t].op = "mode" /\ hal' = hal
    BY ActiveTypes DEF force_input_standby, At, WellFormed, ModePcs
  <1>2. SoleOwner(t) /\ Echoes(hal) /\ hal.active_output = None
    BY <1>1, ModeStart DEF Forced
  <1>3. /\ th'[t].op = "mode" /\ \A u \in Threads \ {t} : th'[u] = th[u]
        /\ \/ th'[t].pc = "mode_select" /\ hal.active_input = None
           \/ th'[t].pc = "in_stby" /\ th'[t].tgt = hal.active_input
    BY <1>1, ActiveTypes DEF force_input_standby, Goto, ThreadState
  <1>4. OwnerKeeps(th'[t], hal')
    BY <1>1, <1>2, <1>3 DEF OwnerKeeps, Forced, Rerouting, Stopping
  <1>5. QED BY <1>1, <1>2, <1>3, <1>4, OwnerStep DEF Unfed

LEMMA PathSelectMode ==
    ASSUME IInv, PathKept, NEW t \in Threads, select_mode(t)
    PROVE  PathKept'
  <1>1. th[t].pc = "mode_select" /\ th[t].op = "mode"
    BY ActiveTypes DEF select_mode, At, WellFormed, ModePcs
  <1>2. /\ SoleOwner(t) /\ Echoes(hal) /\ hal \in HalState
        /\ hal.active_output = None /\ hal.active_input = None
    BY <1>1, ModeStart DEF Forced
  <1>3. CASE hal.mode = "IN_CALL"
    <2> DEFINE d == CallDevices(hal)
    <2>1. d \in HalState /\ d.active_output = None /\ d.active_input = None /\ SameEchoes(d, hal)
      <3>1. d \in HalState
        BY <1>2, CallDevicesType
      <3>2. QED BY <1>2, <3>1 DEF CallDevices, HalState, SameEchoes
    <2>2. hal' = select_output_device(d)
      BY <1>3 DEF select_mode
    <2> HIDE DEF d
    <2>3. /\ hal' \in HalState /\ SameRoles(hal', d) /\ SameEchoes(hal', d) /\ CallHeard(hal')
      BY <2>1, <2>2, SelectOutputPath
    <2>4. Echoes(hal') /\ hal'.active_output = None /\ hal'.active_input = None
      BY <1>2, <2>1, <2>3, OtherFields DEF SameRoles, SameEchoes
    <2>5. /\ th'[t].op = "mode" /\ th'[t].pc = "volume_store"
          /\ \A u \in Threads \ {t} : th'[u] = th[u]
      BY <1>1, <1>3, ActiveTypes DEF select_mode, ThreadState
    <2>6. OwnerKeeps(th'[t], hal')
      BY <2>3, <2>4, <2>5 DEF OwnerKeeps, Forced, Stopping
    <2>7. QED BY <1>2, <2>4, <2>5, <2>6, OwnerStep DEF Unfed
  <1>4. CASE hal.mode # "IN_CALL"
    <2> DEFINE d == select_output_device(hal)
    <2>1. d \in HalState /\ SameRoles(d, hal) /\ SameEchoes(d, hal)
      BY <1>2, SelectOutputPath
    <2>2. hal' = select_input_device(d)
      BY <1>4 DEF select_mode
    <2> HIDE DEF d
    <2>3. hal' \in HalState /\ SameRoles(hal', d) /\ SameEchoes(hal', d)
      BY <2>1, <2>2, SelectInputPath
    <2>4. /\ Echoes(hal') /\ hal'.active_output = None /\ hal'.active_input = None
          /\ hal'.mode # "IN_CALL"
      BY <1>2, <1>4, <2>1, <2>3, OtherFields DEF SameRoles, SameEchoes
    <2>5. th'[t].op = "none" /\ \A u \in Threads \ {t} : th'[u] = th[u]
      BY <1>4, Returned DEF select_mode, ReturnUnlocked
    <2>6. OutHeard(hal') /\ CallHeard(hal') /\ InHeard(hal')
      BY <2>4 DEF OutHeard, CallHeard, InHeard
    <2>7. OwnerKeeps(th'[t], hal')
      BY <2>4, <2>5, <2>6, OwnerDone
    <2>8. QED BY <1>2, <2>4, <2>5, <2>7, OwnerStep DEF Unfed
  <1>5. QED BY <1>3, <1>4

(* The voice volume is not about paths.                                    *)
LEMMA VolumeSame ==
    ASSUME IInv, PathKept, NEW t \in Threads,
           \/ \E volume \in Volumes : adev_set_voice_volume(t, volume)
           \/ store_voice_volume(t) \/ write_voice_volume(t)
    PROVE  SameActive
  <1>1. hal' \in HalState
    BY SetVolumeStep, StoreVolumeStep, WriteVolumeStep DEF IInv, TypeOK
  <1>2. hal \in HalState /\ Echoes(hal)
    BY ActiveTypes DEF PathKept
  <1>3. /\ hal'.mode = hal.mode /\ hal'.out_device = hal.out_device
        /\ hal'.in_device = hal.in_device
        /\ hal'.active_output = hal.active_output /\ hal'.active_input = hal.active_input
        /\ SameEchoes(hal', hal) /\ hal'.mixer = hal.mixer
    <2>1. CASE \E volume \in Volumes : adev_set_voice_volume(t, volume)
      BY <1>2, <2>1 DEF adev_set_voice_volume, HalState, SameEchoes
    <2>2. CASE store_voice_volume(t)
      BY <1>2, <2>2 DEF store_voice_volume, HalState, SameEchoes
    <2>3. CASE write_voice_volume(t)
      <3> DEFINE flag == hal.in_call \/ th[t].op = "mode"
                 volume == VoiceVolumeCtl(th[t].vol)
      <3>1. hal' = [hal EXCEPT !.downlink = volume, !.in_call = flag]
        BY <2>3 DEF write_voice_volume
      <3> HIDE DEF flag, volume
      <3>2. QED BY <1>2, <3>1 DEF HalState, SameEchoes
    <2>4. QED BY <2>1, <2>2, <2>3
  <1>4. Echoes(hal')
    BY <1>1, <1>2, <1>3, OtherFields
  <1>5. QED BY <1>3, <1>4 DEF SameActive, SamePaths, SameEchoes

LEMMA PathSetVolume ==
    ASSUME IInv, PathKept, NEW t \in Threads, NEW volume \in Volumes,
           adev_set_voice_volume(t, volume)
    PROVE  PathKept'
  <1>1. th[t] = Idle /\ th'[t].pc = "volume_ctl" /\ th'[t].op = "none"
        /\ \A u \in Threads \ {t} : th'[u] = th[u]
    BY ActiveTypes DEF adev_set_voice_volume, Idle
  <1>2. \A u \in Threads : GoesOn(u)
    BY <1>1 DEF GoesOn, Idle
  <1>3. QED BY <1>2, VolumeSame, QuietPath

LEMMA PathStoreVolume ==
    ASSUME IInv, PathKept, NEW t \in Threads, store_voice_volume(t)
    PROVE  PathKept'
  <1>1. th[t].pc = "volume_store" /\ th[t].op = "mode" /\ hal.mode = "IN_CALL"
    BY ActiveTypes DEF store_voice_volume, At, WellFormed, ModePcs, IInv, HalInvariant, CallKept
  <1>2. /\ SoleOwner(t) /\ hal.active_output = None /\ hal.active_input = None
        /\ CallHeard(hal)
    BY <1>1, ModeStart DEF Forced, Rerouting
  <1>3. /\ th'[t].op = "mode" /\ th'[t].pc = "volume_ctl"
        /\ \A u \in Threads \ {t} : th'[u] = th[u]
    BY <1>1, ActiveTypes DEF store_voice_volume, Goto, ThreadState
  <1>4. /\ Echoes(hal') /\ CallHeard(hal')
        /\ hal'.active_output = None /\ hal'.active_input = None
    BY <1>2, VolumeSame, SameActiveHeard DEF SameActive, SamePaths
  <1>5. OwnerKeeps(th'[t], hal')
    BY <1>3, <1>4 DEF OwnerKeeps, Forced, Stopping
  <1>6. QED BY <1>2, <1>3, <1>4, <1>5, OwnerStep DEF Unfed

LEMMA PathWriteVolume ==
    ASSUME IInv, PathKept, NEW t \in Threads, write_voice_volume(t)
    PROVE  PathKept'
  <1>1. th[t].pc = "volume_ctl" /\ Return(t) /\ SameActive
    BY VolumeSame DEF write_voice_volume, At
  <1>2. th'[t] = Idle /\ \A u \in Threads \ {t} : th'[u] = th[u]
    BY <1>1, Returned
  <1>3. CASE th[t].op = "mode"
    <2>1. hal.mode = "IN_CALL"
      BY <1>1, <1>3 DEF IInv, HalInvariant, CallKept
    <2>2. /\ SoleOwner(t) /\ hal.active_output = None /\ hal.active_input = None
          /\ CallHeard(hal)
      BY <1>1, <1>3, ModeStart DEF Forced, Rerouting
    <2>3. /\ Echoes(hal') /\ CallHeard(hal') /\ hal'.mode = "IN_CALL"
          /\ hal'.active_output = None
      BY <1>1, <2>1, <2>2, SameActiveHeard DEF SameActive, SamePaths
    <2>4. OutHeard(hal') /\ InHeard(hal')
      BY <2>3 DEF OutHeard, InHeard
    <2>5. OwnerKeeps(th'[t], hal')
      BY <1>2, <2>3, <2>4, OwnerDone DEF Idle
    <2>6. QED BY <1>2, <2>2, <2>3, <2>5, OwnerStep DEF Unfed
  <1>4. CASE th[t].op # "mode"
    <2>1. th[t].op # "force"
      BY <1>1 DEF PathKept
    <2>2. \A u \in Threads : GoesOn(u)
      BY <1>1, <1>2, <1>4, <2>1 DEF GoesOn, Idle
    <2>3. QED BY <1>1, <2>2, QuietPath
  <1>5. QED BY <1>3, <1>4

LEMMA PathTty ==
    ASSUME IInv, PathKept, NEW t \in Threads, NEW tty_mode \in TtySet,
           adev_set_parameters(t, tty_mode)
    PROVE  PathKept'
  <1> DEFINE h == [hal EXCEPT !.tty_mode = tty_mode]
  <1>1. /\ th[t] = Idle /\ hw_lock = None /\ th' = th
        /\ hal' = IF h.mode = "IN_CALL" THEN select_output_device(h) ELSE h
    BY DEF adev_set_parameters
  <1>2. SoleOwner(t)
    BY <1>1, OwnerAlone
  <1>3. /\ Echoes(hal) /\ OutHeard(hal) /\ CallHeard(hal) /\ InHeard(hal)
        /\ ~Restarting(th[t], hal) /\ hal \in HalState
    BY <1>1, <1>2, OwnerStart, ActiveTypes DEF Idle, Rerouting, Stopping, Restarting
  <1>4. h \in HalState /\ SameRoles(h, hal) /\ SameEchoes(h, hal) /\ h.mixer = hal.mixer
    BY <1>3, InputsAssumption DEF HalState, SameRoles, SameEchoes
  <1> HIDE DEF h
  <1>5. CASE h.mode = "IN_CALL"
    <2>1. /\ hal' \in HalState /\ SameRoles(hal', h) /\ SameEchoes(hal', h)
          /\ OutHeard(hal') /\ CallHeard(hal')
      BY <1>1, <1>4, <1>5, SelectOutputPath
    <2>2. Echoes(hal')
      BY <1>3, <1>4, <2>1, OtherFields DEF SameRoles, SameEchoes
    <2>3. InHeard(hal')
      BY <1>5, <2>1 DEF InHeard, SameRoles
    <2>4. Unfed(hal') => Unfed(hal)
      BY <1>4, <2>1 DEF Unfed, VoiceInput, NeedsReference, SameRoles, SameEchoes
    <2>5. OwnerKeeps(th'[t], hal')
      BY <1>1, <2>1, <2>2, <2>3, OwnerDone DEF Idle
    <2>6. QED BY <1>1, <1>2, <1>3, <2>4, <2>5, OwnerStep
  <1>6. CASE h.mode # "IN_CALL"
    <2>1. hal' = h
      BY <1>1, <1>6
    <2>2. Echoes(hal')
      BY <1>3, <1>4, <2>1, OtherFields DEF SameRoles
    <2>3. OutHeard(hal') /\ CallHeard(hal') /\ InHeard(hal')
      BY <1>3, <1>4, <2>1 DEF OutHeard, CallHeard, InHeard, SameRoles, SameEchoes
    <2>4. Unfed(hal') => Unfed(hal)
      BY <1>4, <2>1 DEF Unfed, VoiceInput, NeedsReference, SameRoles, SameEchoes
    <2>5. OwnerKeeps(th'[t], hal')
      BY <1>1, <2>2, <2>3, OwnerDone DEF Idle
    <2>6. QED BY <1>1, <1>2, <1>3, <2>4, <2>5, OwnerStep
  <1>7. QED BY <1>5, <1>6

-----------------------------------------------------------------------------
(* A stream is made or freed while it is neither active nor running.       *)

LEMMA NewStreamPath ==
    ASSUME IInv, PathKept, NEW s \in Streams,
           s \in Outs => hal' = [hal EXCEPT !.out[s] = NewOut],
           s \notin Outs => \E d \in InDevices : hal' = [hal EXCEPT !.in[s] = NewIn(d)],
           s # hal.active_output, s # hal.active_input
    PROVE  SameActive
  <1>1. Echoes(hal) /\ hal \in HalState
    BY ActiveTypes DEF PathKept
  <1>2. CASE s \in Outs
    <2> DEFINE outs == [hal.out EXCEPT ![s] = NewOut]
    <2>1. /\ outs \in [Outs -> OutState]
          /\ \A o \in Outs : outs[o] = IF o = s THEN NewOut ELSE hal.out[o]
      BY <1>1 DEF HalState, NewOut, OutState, OutPcm
    <2>2. hal' = [hal EXCEPT !.out = outs]
      BY <1>1, <1>2 DEF HalState
    <2> HIDE DEF outs
    <2>3. /\ hal' \in HalState /\ SamePaths(hal', hal) /\ hal'.out = outs /\ hal'.in = hal.in
          /\ hal'.echo_reference = hal.echo_reference /\ hal'.live = hal.live
      BY <1>1, <2>1, <2>2 DEF HalState, SamePaths
    <2>4. NewOut.standby /\ NewOut.echo = None
      BY DEF NewOut
    <2>5. hal.active_output \in Outs \cup {None}
      BY <1>1 DEF HalState
    <2>6. OutEchoes(hal')
      BY <1>1, <2>1, <2>3, <2>4, <2>5 DEF Echoes, OutEchoes, SamePaths
    <2>7. InEchoes(hal')
      BY <1>1, <2>3, InputFrames DEF Echoes, SamePaths
    <2>8. QED BY <2>3, <2>6, <2>7 DEF SameActive, Echoes
  <1>3. CASE s \notin Outs
    <2>1. s \in Ins
      BY <1>3 DEF Streams
    <2>2. PICK d \in InDevices : hal' = [hal EXCEPT !.in[s] = NewIn(d)]
      BY <1>3
    <2> DEFINE ins == [hal.in EXCEPT ![s] = NewIn(d)]
    <2>3. /\ ins \in [Ins -> InState]
          /\ \A i \in Ins : ins[i] = IF i = s THEN NewIn(d) ELSE hal.in[i]
      BY <1>1 DEF HalState, NewIn, InState, OutPcm
    <2>4. hal' = [hal EXCEPT !.in = ins]
      BY <1>1, <2>1, <2>2 DEF HalState
    <2> HIDE DEF ins
    <2>5. /\ hal' \in HalState /\ SamePaths(hal', hal) /\ hal'.in = ins /\ hal'.out = hal.out
          /\ hal'.echo_reference = hal.echo_reference /\ hal'.live = hal.live
      BY <1>1, <2>3, <2>4 DEF HalState, SamePaths
    <2>6. NewIn(d).standby /\ NewIn(d).echo = None
      BY DEF NewIn
    <2>7. hal.active_input \in Ins \cup {None}
      BY <1>1 DEF HalState
    <2>8. InEchoes(hal')
      BY <1>1, <2>3, <2>5, <2>6, <2>7 DEF Echoes, InEchoes, SamePaths
    <2>9. OutEchoes(hal')
      BY <1>1, <2>5, EchoFrames DEF Echoes, SamePaths
    <2>10. QED BY <2>3, <2>5, <2>7, <2>8, <2>9 DEF SameActive, Echoes
  <1>4. QED BY <1>2, <1>3

(* A stream that is freed is in standby, which the active ones are not.    *)
LEMMA PathFree ==
    ASSUME IInv, PathKept, NEW t \in Threads, Free(t)
    PROVE  PathKept'
  <1>0. PICK s \in Streams : th[t].tgt = s
    BY ActiveTypes DEF Free, At, WellFormed
  <1>1. th[t].op = "close" /\ th[t].pc = "free" /\ StandingBy(s) /\ Return(t)
    BY <1>0, ActiveTypes DEF Free, At, WellFormed, IInv, HalInvariant, PcmKept
  <1>2. /\ s \in Outs => hal' = [hal EXCEPT !.out[s] = NewOut]
        /\ s \notin Outs => hal' = [hal EXCEPT !.in[s] = NewIn("BUILTIN_MIC")]
    BY <1>0 DEF Free
  <1>3. s # hal.active_output /\ s # hal.active_input
    BY <1>1, ActiveTypes, StreamsAssumption
       DEF PathKept, Echoes, OutEchoes, InEchoes, StandingBy, Streams
  <1>4. SameActive
    BY <1>2, <1>3, NewStreamPath DEF InDevices
  <1>5. th'[t] = Idle /\ \A u \in Threads \ {t} : th'[u] = th[u]
    BY <1>1, Returned
  <1>6. \A u \in Threads : GoesOn(u)
    BY <1>1, <1>5 DEF GoesOn, Idle
  <1>7. QED BY <1>4, <1>6, QuietPath

(* A stream that is opened was closed, which the active ones are not.      *)
LEMMA PathOpen ==
    ASSUME IInv, ActiveKept, PathKept, NEW s \in Streams,
           \/ s \in Outs /\ adev_open_output_stream(s)
           \/ s \in Ins /\ adev_open_input_stream(s)
    PROVE  PathKept'
  <1>1. handle[s] = "closed" /\ th' = th
    BY DEF adev_open_output_stream, adev_open_input_stream
  <1>2. s # hal.active_output /\ s # hal.active_input
    BY <1>1, StreamsAssumption DEF ActiveKept, Streams
  <1>3. /\ s \in Outs => hal' = [hal EXCEPT !.out[s] = NewOut]
        /\ s \notin Outs => \E d \in InDevices : hal' = [hal EXCEPT !.in[s] = NewIn(d)]
    BY InputsAssumption, StreamsAssumption DEF adev_open_output_stream, adev_open_input_stream
  <1>4. SameActive
    BY <1>2, <1>3, NewStreamPath
  <1>5. QED BY <1>1, <1>4, QuietPath DEF GoesOn

-----------------------------------------------------------------------------
LEMMA PathContinue ==
    ASSUME IInv, PathKept, NEW t \in Threads, Continue(t)
    PROVE  PathKept'
  <1>1. CASE out_write(t) \/ start_output_stream(t) \/ start_output_fails(t)
             \/ write_io(t) \/ write_tail(t) \/ out_standby(t)
    BY <1>1, PathOutWrite, PathStartOutput, PathOutputFails, PathWriteTail, PathOutStandby
  <1>2. CASE \E devices \in RouteSets : out_set_parameters(t, devices)
    BY <1>2, PathRoute
  <1>3. CASE in_read(t) \/ start_input_stream(t) \/ start_input_fails(t) \/ read_io(t)
             \/ in_standby(t) \/ input_standby(t)
    BY <1>3, PathOutWrite, PathStartInput, PathInputFails, PathInputStandby
  <1>4. CASE \E source \in Sources \cup {None}, device \in MicSet \cup {None} :
               in_set_parameters(t, source, device)
    BY <1>4, PathParameters
  <1>5. CASE \/ \E effect \in Effects : in_add_audio_effect(t, effect)
             \/ \E effect \in Effects, described \in BOOLEAN :
                  in_remove_audio_effect(t, effect, described)
    BY <1>5, PathAddEffect, PathRemoveEffect
  <1>6. CASE effect_refused(t) \/ force_output_standby(t) \/ force_input_standby(t)
    BY <1>6, PathOutWrite, PathForceOutput, PathForceInput
  <1>7. CASE select_mode(t) \/ store_voice_volume(t) \/ write_voice_volume(t) \/ Free(t)
    BY <1>7, PathSelectMode, PathStoreVolume, PathWriteVolume, PathFree
  <1>8. QED BY <1>1, <1>2, <1>3, <1>4, <1>5, <1>6, <1>7 DEF Continue

LEMMA PathBegin ==
    ASSUME IInv, PathKept, NEW t \in Threads, Begin(t)
    PROVE  PathKept'
  <1>1. ASSUME NEW o \in Outs, CallOut(t, o) \/ adev_close_output_stream(t, o)
        PROVE  PathKept'
    BY <1>1, PathCall DEF Streams
  <1>2. ASSUME NEW i \in Ins, CallIn(t, i) \/ adev_close_input_stream(t, i)
        PROVE  PathKept'
    BY <1>2, PathCall DEF Streams
  <1>3. CASE \/ \E mode \in ModeSet : adev_set_mode(t, mode)
             \/ \E volume \in Volumes : adev_set_voice_volume(t, volume)
             \/ \E tty_mode \in TtySet : adev_set_parameters(t, tty_mode)
    BY <1>3, PathSetMode, PathSetVolume, PathTty
  <1>4. QED BY <1>1, <1>2, <1>3 DEF Begin

LEMMA PathInductive ==
    ASSUME IInv, ActiveKept, PathKept, [Next]_vars PROVE PathKept'
  <1>1. CASE \E t \in Threads : Begin(t) \/ Continue(t)
    BY <1>1, PathBegin, PathContinue
  <1>2. CASE \E o \in Outs : adev_open_output_stream(o)
    BY <1>2, PathOpen DEF Streams
  <1>3. CASE \E i \in Ins : adev_open_input_stream(i)
    BY <1>3, PathOpen DEF Streams
  <1>4. CASE UNCHANGED vars
    <2>1. SameActive /\ \A t \in Threads : GoesOn(t)
      BY <1>4 DEF vars, SameActive, SamePaths, GoesOn, PathKept
    <2>2. QED BY <2>1, QuietPath
  <1>5. QED BY <1>1, <1>2, <1>3, <1>4 DEF Next

LEMMA OpenState == adev_open \in HalState
  <1>1. NewOut \in OutState /\ NewIn("BUILTIN_MIC") \in InState
    BY DEF NewOut, NewIn, OutState, InState, OutPcm, InDevices
  <1>2. BootMixer \in [Controls -> Settings]
    BY DEF BootMixer, Settings
  <1>3. set_route_by_array(BootMixer, route_speaker) \in [Controls -> Settings]
    BY <1>2, Tables, RouteType
  <1>4. QED BY <1>1, <1>3 DEF adev_open, HalState, Modes, OutDevices, InDevices,
               TtyModes, MAX_VOICE_VOLUME

LEMMA PathInit == Init => PathKept
  <1> SUFFICES ASSUME Init PROVE PathKept
    OBVIOUS
  <1>1. hal \in HalState /\ \A t \in Threads : th[t] = Idle
    BY InitInv DEF IInv, TypeOK, Init
  <1>2. adev_open \in HalState
    BY OpenState
  <1>3. /\ SameRoles(hal, adev_open) /\ SameEchoes(hal, adev_open)
        /\ OutHeard(hal) /\ CallHeard(hal)
    BY <1>2, SelectOutputPath DEF Init
  <1>4. /\ hal.active_output = None /\ hal.active_input = None
        /\ hal.echo_reference = None /\ hal.live = {}
        /\ \A o \in Outs : hal.out[o].standby /\ hal.out[o].echo = None
        /\ \A i \in Ins : hal.in[i].standby /\ hal.in[i].echo = None
    BY <1>3 DEF SameRoles, SameEchoes, adev_open, NewOut, NewIn
  <1>5. Echoes(hal)
    BY <1>1, <1>4 DEF Echoes, OutEchoes, InEchoes
  <1>6. InHeard(hal) /\ ~Unfed(hal)
    BY <1>4 DEF InHeard, Unfed
  <1>7. ASSUME NEW t \in Threads
        PROVE  Forced(th[t], hal) /\ th[t].op # "force"
    BY <1>1 DEF Forced, Idle
  <1>8. QED BY <1>3, <1>5, <1>6, <1>7 DEF PathKept

LEMMA PathInvariance == Spec => [](IInv /\ PathKept)
  <1>1. Init => IInv /\ ActiveKept /\ PathKept
    BY InitInv, ActiveInit, PathInit
  <1>2. IInv /\ ActiveKept /\ PathKept /\ [Next]_vars => (IInv /\ ActiveKept /\ PathKept)'
    BY Inductive, ActiveInductive, PathInductive
  <1>3. QED BY <1>1, <1>2, PTL DEF Spec

(* With adev->lock free, every path is in order.                           *)
LEMMA FreeOrder ==
    ASSUME IInv, PathKept, hw_lock = None
    PROVE  /\ OutHeard(hal) /\ CallHeard(hal) /\ InHeard(hal)
           /\ \A t \in Threads : th[t].pc \notin {"force", "in_stby"}
  <1>1. ASSUME NEW t \in Threads PROVE ~OwnsHw(th[t])
    BY StreamsAssumption DEF IInv, HalInvariant, LocksHeld
  <1>2. ASSUME NEW t \in Threads
        PROVE  th[t].op # "mode" /\ th[t].pc \notin {"force", "in_stby"}
    BY <1>1, ActiveTypes DEF OwnsHw, WellFormed, ModePcs
  <1>3. QED BY <1>2 DEF PathKept, Rerouting, Stopping

-----------------------------------------------------------------------------
(* Every reference get_echo_reference creates is the device's until        *)
(* put_echo_reference releases it, whoever starts and stops which of any   *)
(* number of streams, and also where creating one fails: none leaks.       *)
THEOREM NoReferenceLeaks == Spec => []NoEchoLeak
  <1>1. PathKept => NoEchoLeak
    BY DEF PathKept, Echoes, OutEchoes, NoEchoLeak
  <1>2. QED BY <1>1, PathInvariance, PTL

(* With one input, the running output writes the reference its echo        *)
(* canceller reads, for any number of outputs and threads.                 *)
THEOREM EchoesPaired == ASSUME Sole(Ins) PROVE Spec => []EchoPaired
  <1>1. PathKept => EchoPaired
    BY DEF PathKept, Echoes, OutEchoes, InEchoes, EchoPaired
  <1>2. QED BY <1>1, PathInvariance, PTL

(* With one output and one input, neither out_write nor in_read follows a  *)
(* reference that was released, whatever the number of threads and of      *)
(* references; with more streams a start that fails can leave one behind.  *)
THEOREM EchoesLive == ASSUME Sole(Outs), Sole(Ins) PROVE Spec => []EchoRefsLive
  <1>1. PathKept => EchoRefsLive
    <2> SUFFICES ASSUME PathKept PROVE EchoRefsLive
      OBVIOUS
    <2>1. hal.echo_reference \in hal.live \cup {None}
      BY DEF PathKept, Echoes, OutEchoes
    <2>2. ASSUME NEW o \in Outs, ~hal.out[o].standby
          PROVE  hal.out[o].echo = hal.echo_reference
      BY <2>2, StreamsAssumption DEF PathKept, Echoes, OutEchoes
    <2>3. \A i \in Ins : hal.in[i].echo \in {None, hal.echo_reference}
      BY DEF PathKept, Echoes, InEchoes
    <2>4. QED BY <2>1, <2>2, <2>3 DEF EchoRefsLive
  <1>2. QED BY <1>1, PathInvariance, PTL

(* Where references are created when asked for, a voice communication      *)
(* input that runs beside an output without the reference it needs has a   *)
(* writer on its way to restart it: the decision of out_write is not lost  *)
(* between the two locks, for any number of streams and threads.           *)
THEOREM EchoRestarts == ASSUME FALSE \notin RefCreate PROVE Spec => []EchoPending
  <1>1. IInv /\ PathKept => EchoPending
    <2> SUFFICES ASSUME IInv, PathKept, hw_lock = None, Unfed(hal)
                 PROVE  \E t \in Threads : th[t].op = "force" \/ th[t].pc = "write_tail"
      BY DEF EchoPending, Unfed
    <2>1. PICK t \in Threads : Restarting(th[t], hal)
      BY DEF PathKept
    <2>2. QED BY <2>1, FreeOrder DEF Restarting
  <1>2. QED BY <1>1, PathInvariance, PTL

(* Outside calls a running output is heard on the selected devices,        *)
(* whatever sequence of routes, modes, standbys and starts of any number   *)
(* of streams came before.                                                 *)
THEOREM OutputsRouted == Spec => []OutputRouted
  <1>1. IInv /\ PathKept => OutputRouted
    BY FreeOrder DEF OutputRouted, OutHeard
  <1>2. QED BY <1>1, PathInvariance, PTL

(* Outside calls a running input hears the microphone it was routed to.    *)
THEOREM InputsRouted == Spec => []InputRouted
  <1>1. IInv /\ PathKept => InputRouted
    BY FreeOrder DEF InputRouted, InHeard
  <1>2. QED BY <1>1, PathInvariance, PTL

(* In a call the modem's downlink feeds the transducer that is selected.   *)
THEOREM VoicePath == Spec => []InCallVoicePath
  <1>1. IInv /\ PathKept => InCallVoicePath
    BY FreeOrder DEF InCallVoicePath, CallHeard
  <1>2. QED BY <1>1, PathInvariance, PTL


-----------------------------------------------------------------------------
(* The end of a change of the mode.                                        *)

LEMMA ModeSteps ==
    ASSUME IInv, NEW t \in Threads, th[t].op = "mode", Begin(t) \/ Continue(t)
    PROVE  \/ force_output_standby(t) \/ force_input_standby(t) \/ input_standby(t)
           \/ select_mode(t) \/ store_voice_volume(t) \/ write_voice_volume(t)
  <1>1. th[t] # Idle /\ th[t].pc \in ModePcs \cup {"in_stby", "volume_ctl"}
    BY ActiveTypes DEF Idle, WellFormed
  <1>2. ~Begin(t)
    <2>1. ASSUME NEW s, NEW pc, NEW op PROVE ~Call(t, s, pc, op)
      BY <1>1 DEF Call
    <2>2. ~\E o \in Outs : CallOut(t, o) \/ adev_close_output_stream(t, o)
      BY <2>1 DEF CallOut, adev_close_output_stream, Close
    <2>3. ~\E i \in Ins : CallIn(t, i) \/ adev_close_input_stream(t, i)
      BY <2>1 DEF CallIn, adev_close_input_stream, Close
    <2>4. QED
      BY <1>1, <2>2, <2>3 DEF Begin, adev_set_mode, adev_set_voice_volume,
         adev_set_parameters
  <1>3. ~(out_write(t) \/ start_output_stream(t) \/ start_output_fails(t) \/ write_io(t)
          \/ write_tail(t) \/ out_standby(t))
    BY <1>1 DEF out_write, start_output_stream, start_output_fails, write_io, write_tail,
       out_standby, At, ModePcs
  <1>4. ~\E devices \in RouteSets : out_set_parameters(t, devices)
    BY <1>1 DEF out_set_parameters, At, ModePcs
  <1>5. ~(in_read(t) \/ start_input_stream(t) \/ start_input_fails(t) \/ read_io(t)
          \/ in_standby(t) \/ effect_refused(t) \/ Free(t))
    BY <1>1 DEF in_read, start_input_stream, start_input_fails, read_io, in_standby,
       effect_refused, Free, At, ModePcs
  <1>6. ~\E source \in Sources \cup {None}, device \in MicSet \cup {None} :
           in_set_parameters(t, source, device)
    BY <1>1 DEF in_set_parameters, At, ModePcs
  <1>7. /\ ~\E effect \in Effects : in_add_audio_effect(t, effect)
        /\ ~\E effect \in Effects, described \in BOOLEAN :
              in_remove_audio_effect(t, effect, described)
    BY <1>1 DEF in_add_audio_effect, in_remove_audio_effect, At, ModePcs
  <1>8. QED BY <1>2, <1>3, <1>4, <1>5, <1>6, <1>7 DEF Continue

(* Nobody else moves the thread that changes the mode.                     *)
LEMMA OthersKeepMode ==
    ASSUME IInv, NEW t \in Threads, NEW u \in Threads \ {t}, Begin(u) \/ Continue(u)
    PROVE  th'[t] = th[t]
  <1>1. DOMAIN th = Threads
    BY ActiveTypes
  <1>2. ASSUME \/ th' = th \/ Return(u) \/ \E pc : Goto(u, pc)
               \/ \E x : th' = [th EXCEPT ![u] = x]
        PROVE  th'[t] = th[t]
    BY <1>1, <1>2 DEF Return, Goto
  <1>3. CASE Begin(u)
    <2>1. ASSUME NEW s, NEW pc, NEW op, Call(u, s, pc, op)
          PROVE  th'[t] = th[t]
      BY <1>2, <2>1 DEF Call
    <2>2. CASE \E o \in Outs : CallOut(u, o) \/ adev_close_output_stream(u, o)
      BY <2>1, <2>2 DEF CallOut, adev_close_output_stream, Close
    <2>3. CASE \E i \in Ins : CallIn(u, i) \/ adev_close_input_stream(u, i)
      BY <2>1, <2>3 DEF CallIn, adev_close_input_stream, Close
    <2>4. CASE \E mode \in ModeSet : adev_set_mode(u, mode)
      BY <1>1, <2>4 DEF adev_set_mode
    <2>5. CASE \E volume \in Volumes : adev_set_voice_volume(u, volume)
      BY <1>1, <2>5 DEF adev_set_voice_volume
    <2>6. CASE \E tty_mode \in TtySet : adev_set_parameters(u, tty_mode)
      BY <2>6 DEF adev_set_parameters
    <2>7. QED BY <1>3, <2>2, <2>3, <2>4, <2>5, <2>6 DEF Begin
  <1>4. CASE Continue(u)
    <2>1. CASE out_write(u) \/ start_output_fails(u) \/ write_io(u) \/ out_standby(u)
      BY <1>2, <2>1 DEF out_write, start_output_fails, write_io, out_standby, ReturnUnlocked
    <2>2. CASE start_output_stream(u)
      BY <1>1, <2>2 DEF start_output_stream
    <2>3. CASE write_tail(u)
      BY <1>2, <2>3 DEF write_tail
    <2>4. CASE \E devices \in RouteSets : out_set_parameters(u, devices)
      <3>1. Return(u) \/ \E i : th' = [th EXCEPT ![u].pc = "force", ![u].tgt = i]
        BY <2>4 DEF out_set_parameters, ReturnUnlocked
      <3>2. QED BY <1>1, <1>2, <3>1
    <2>5. CASE in_read(u) \/ start_input_stream(u) \/ start_input_fails(u) \/ read_io(u)
               \/ in_standby(u) \/ effect_refused(u)
      BY <1>2, <2>5 DEF in_read, start_input_stream, start_input_fails, read_io, in_standby,
         effect_refused, EnterInputStandby, ReturnUnlocked
    <2>6. CASE input_standby(u)
      <3>1. Return(u) \/ Goto(u, "free")
              \/ th' = [th EXCEPT ![u].pc = "mode_select", ![u].tgt = None]
        BY <2>6 DEF input_standby, ReturnUnlocked
      <3>2. QED BY <1>1, <1>2, <3>1
    <2>7. CASE \E source \in Sources \cup {None}, device \in MicSet \cup {None} :
                 in_set_parameters(u, source, device)
      BY <1>2, <2>7 DEF in_set_parameters, EnterInputStandby, ReturnUnlocked
    <2>8. CASE \/ \E effect \in Effects : in_add_audio_effect(u, effect)
               \/ \E effect \in Effects, described \in BOOLEAN :
                    in_remove_audio_effect(u, effect, described)
      BY <1>2, <2>8 DEF in_add_audio_effect, in_remove_audio_effect, EnterInputStandby,
         ReturnUnlocked
    <2>9. CASE force_output_standby(u) \/ store_voice_volume(u) \/ write_voice_volume(u)
               \/ Free(u)
      BY <1>2, <2>9 DEF force_output_standby, store_voice_volume, write_voice_volume, Free
    <2>10. CASE force_input_standby(u)
      BY <1>1, <1>2, <2>10 DEF force_input_standby
    <2>11. CASE select_mode(u)
      BY <1>1, <1>2, <2>11 DEF select_mode, ReturnUnlocked
    <2>12. QED
      BY <1>4, <2>1, <2>2, <2>3, <2>4, <2>5, <2>6, <2>7, <2>8, <2>9, <2>10, <2>11
         DEF Continue
  <1>5. QED BY <1>3, <1>4

(* force_all_standby came before, and what came since starts no stream.    *)
LEMMA ModeEnds ==
    ASSUME IInv, PathKept, NEW t \in Threads, Begin(t) \/ Continue(t),
           th[t].op = "mode", th'[t].pc = "idle"
    PROVE  hal'.active_output = None /\ hal'.active_input = None
  <1>1. th[t] \in ThreadState /\ hal \in HalState /\ Forced(th[t], hal) /\ DOMAIN th = Threads
    BY ActiveTypes, ModeStart
  <1>2. ~force_output_standby(t)
    BY <1>1 DEF force_output_standby, Goto, ThreadState
  <1>3. ~force_input_standby(t)
    BY <1>1 DEF force_input_standby, Goto, ThreadState
  <1>4. ~input_standby(t)
    BY <1>1 DEF input_standby, ThreadState
  <1>5. ~store_voice_volume(t)
    BY <1>1 DEF store_voice_volume, Goto, ThreadState
  <1>6. CASE write_voice_volume(t)
    <2>1. hal.active_output = None /\ hal.active_input = None
      BY <1>1, <1>6 DEF write_voice_volume, At, Forced
    <2>2. SameActive
      BY <1>6, VolumeSame
    <2>3. QED BY <2>1, <2>2 DEF SameActive, SamePaths
  <1>7. CASE select_mode(t)
    <2>1. hal.active_output = None /\ hal.active_input = None
      BY <1>1, <1>7 DEF select_mode, At, Forced
    <2>2. hal.mode # "IN_CALL"
      BY <1>1, <1>7 DEF select_mode, ThreadState
    <2>3. hal' = select_input_device(select_output_device(hal))
      BY <1>7, <2>2 DEF select_mode
    <2>4. QED BY <1>1, <2>1, <2>3, SelectOutputPath, SelectInputPath DEF SameRoles
  <1>8. QED BY <1>2, <1>3, <1>4, <1>5, <1>6, <1>7, ModeSteps

(* With one output and one input, set_mode returns from crossing the call  *)
(* boundary with both in standby, though threads may write, read, route    *)
(* and start streams on its way: no PCM opened before a call is used in    *)
(* it, nor after it.                                                       *)
THEOREM CallBoundaryKept == ASSUME Sole(Outs), Sole(Ins) PROVE Spec => CallBoundary
  <1> DEFINE Kept == \A t \in Threads :
                       th[t].op = "mode" /\ th'[t].pc = "idle" =>
                         /\ \A o \in Outs : hal'.out[o].standby
                         /\ \A i \in Ins : hal'.in[i].standby
  <1>1. IInv /\ PathKept /\ (IInv /\ PathKept)' /\ [Next]_vars => [Kept]_vars
    <2> SUFFICES ASSUME IInv, PathKept, PathKept', Next, NEW t \in Threads,
                        th[t].op = "mode", th'[t].pc = "idle"
                 PROVE  /\ \A o \in Outs : hal'.out[o].standby
                        /\ \A i \in Ins : hal'.in[i].standby
      OBVIOUS
    <2>1. th'[t] # th[t]
      BY ActiveTypes DEF WellFormed, ModePcs
    <2>2. PICK u \in Threads : Begin(u) \/ Continue(u)
      BY <2>1 DEF Next, adev_open_output_stream, adev_open_input_stream
    <2>3. u = t
      BY <2>1, <2>2, OthersKeepMode
    <2>4. hal'.active_output = None /\ hal'.active_input = None
      BY <2>2, <2>3, ModeEnds
    <2>5. Echoes(hal')
      BY DEF PathKept
    <2>6. QED BY <2>4, <2>5, StreamsAssumption DEF Echoes, OutEchoes, InEchoes
  <1>2. QED BY <1>1, PathInvariance, PTL DEF Spec, CallBoundary

-----------------------------------------------------------------------------
(* The refinement of AtomicHal.                                            *)

(* A stream that is closed does not run.                                   *)
Dormant == \A s \in Running(hal) : handle[s] # "closed"

(* The device h as AtomicHal sees it, while adev->lock has owner x.        *)
Sight(h, x) ==
    <<h.mode, OutDevice(h, x), InDevice(h, x), ActiveOut(h, x), ActiveIn(h, x),
      Remaining(h, x)>>
SameSight == Sight(hal', Owner') = Sight(hal, Owner)

AtomicStep == Dormant' /\ (SameSight \/ Atomic!Next)

SameShown(r, h) ==
    /\ r.mode = h.mode /\ r.out_device = h.out_device /\ r.in_device = h.in_device
    /\ r.active_output = h.active_output /\ r.active_input = h.active_input
    /\ Running(r) = Running(h)

(* An owner that has nothing left to do.                                   *)
Plain(x) == x.pc \notin {"mode_out", "mode_in", "mode_select", "force", "in_stby"}

LEMMA PlainSight ==
    ASSUME NEW h, NEW x, Plain(x)
    PROVE  /\ OutDevice(h, x) = h.out_device /\ InDevice(h, x) = h.in_device
           /\ ActiveOut(h, x) = h.active_output /\ ActiveIn(h, x) = h.active_input
           /\ Remaining(h, x) = Running(h)
  <1>1. Leaving(h, x) = {} /\ Selected(h, x) = h
    BY DEF Plain, Leaving, Selected
  <1>2. QED BY <1>1 DEF OutDevice, InDevice, ActiveOut, ActiveIn, Remaining, Ending

(* One that has an input to put in standby...                              *)
LEMMA StopSight ==
    ASSUME NEW h, NEW x, NEW i \in Ins,
           x.pc \in {"force", "in_stby"}, x.op # "mode", x.tgt = i
    PROVE  /\ OutDevice(h, x) = h.out_device
           /\ InDevice(h, x) = IF h.mode # "IN_CALL" /\ i \in Running(h) THEN "NONE"
                               ELSE h.in_device
           /\ ActiveOut(h, x) = h.active_output
           /\ ActiveIn(h, x) = IF i \in Running(h) THEN None ELSE h.active_input
           /\ Remaining(h, x) = Running(h) \ {i}
  <1>1. Leaving(h, x) = {i} /\ Selected(h, x) = h
    BY DEF Leaving, Selected
  <1>2. ~Ending(h, x, Outs) /\ (Ending(h, x, Ins) <=> i \in Running(h))
    BY <1>1, StreamsAssumption DEF Ending
  <1>3. QED BY <1>1, <1>2 DEF OutDevice, InDevice, ActiveOut, ActiveIn, Remaining

(* ...or changes the mode and has all streams of S to put in standby.      *)
LEMMA ModeSight ==
    ASSUME NEW h, NEW x, NEW S, x.op = "mode",
           x.pc \in {"mode_out", "mode_in", "in_stby", "mode_select"}, Leaving(h, x) = S
    PROVE  LET c == IF h.mode = "IN_CALL" THEN CallDevices(h) ELSE h IN
           /\ OutDevice(h, x) = c.out_device
           /\ InDevice(h, x) = IF h.mode # "IN_CALL" /\ S \cap Running(h) \cap Ins # {}
                                 THEN "NONE" ELSE c.in_device
           /\ ActiveOut(h, x) = IF S \cap Running(h) \cap Outs # {} THEN None
                                ELSE h.active_output
           /\ ActiveIn(h, x) = IF S \cap Running(h) \cap Ins # {} THEN None
                               ELSE h.active_input
           /\ Remaining(h, x) = Running(h) \ S
  <1>1. Selected(h, x) = IF h.mode = "IN_CALL" THEN CallDevices(h) ELSE h
    BY DEF Selected
  <1>2. QED BY <1>1 DEF OutDevice, InDevice, ActiveOut, ActiveIn, Remaining, Ending

LEMMA CallDevicesOf ==
    ASSUME NEW h \in HalState
    PROVE  LET c == CallDevices(h) IN
           /\ c \in HalState /\ c.mode = h.mode
           /\ c.out_device = IF h.out_device = {"SPEAKER"} THEN {"EARPIECE"}
                             ELSE h.out_device \ {"SPEAKER"}
           /\ c.in_device = IF h.out_device = {"SPEAKER"} THEN "BUILTIN_MIC"
                            ELSE h.in_device
           /\ c.active_output = h.active_output /\ c.active_input = h.active_input
           /\ c.out = h.out /\ c.in = h.in
  BY CallDevicesType DEF CallDevices, HalState

LEMMA ShownSame ==
    ASSUME NEW h \in HalState, NEW r \in HalState, SameShown(r, h), NEW x
    PROVE  Sight(r, x) = Sight(h, x)
  <1>1. Leaving(r, x) = Leaving(h, x)
    BY DEF SameShown, Leaving
  <1>2. \A S : Ending(r, x, S) <=> Ending(h, x, S)
    BY <1>1 DEF Ending, SameShown
  <1>3. /\ Selected(r, x).out_device = Selected(h, x).out_device
        /\ Selected(r, x).in_device = Selected(h, x).in_device
    BY CallDevicesOf DEF Selected, SameShown
  <1>4. OutDevice(r, x) = OutDevice(h, x) /\ InDevice(r, x) = InDevice(h, x)
    BY <1>2, <1>3 DEF OutDevice, InDevice, SameShown
  <1>5. /\ ActiveOut(r, x) = ActiveOut(h, x) /\ ActiveIn(r, x) = ActiveIn(h, x)
        /\ Remaining(r, x) = Remaining(h, x)
    BY <1>1, <1>2 DEF ActiveOut, ActiveIn, Remaining, SameShown
  <1>6. QED BY <1>4, <1>5 DEF Sight, SameShown

-----------------------------------------------------------------------------
(* Who owns adev->lock, before a step and after it.                        *)

LEMMA OwnerIs ==
    ASSUME IInv, NEW t \in Threads
    PROVE  /\ OwnsHw(th[t]) => hw_lock = t /\ Owner = th[t]
           /\ hw_lock' = t => Owner' = th'[t]
           /\ hw_lock = None => Owner = Idle
           /\ hw_lock' = None => Owner' = Idle
           /\ Plain(Idle)
  <1>1. OwnsHw(th[t]) => hw_lock = t
    BY DEF IInv, HalInvariant, LocksHeld
  <1>2. t # None
    BY StreamsAssumption
  <1>3. QED BY <1>1, <1>2 DEF Owner, Plain, Idle

LEMMA OwnerStays ==
    ASSUME IInv, hw_lock' = hw_lock, NEW t \in Threads, ~OwnsHw(th[t]),
           \A u \in Threads \ {t} : th'[u] = th[u]
    PROVE  Owner' = Owner
  <1>1. hw_lock # t /\ hw_lock \in Threads \cup {None}
    BY DEF IInv, TypeOK, HalInvariant, LocksHeld
  <1>2. QED BY <1>1 DEF Owner

(* The owner goes on with nothing left to do, or gives the lock back.      *)
GoesPlain(t) ==
    /\ OwnsHw(th[t]) \/ hw_lock = None
    /\ OwnsHw(th[t]) => Plain(th[t])
    /\ hw_lock' = None \/ (hw_lock' = t /\ Plain(th'[t]))

LEMMA PlainOwners ==
    ASSUME IInv, NEW t \in Threads, GoesPlain(t)
    PROVE  Plain(Owner) /\ Plain(Owner')
  BY OwnerIs DEF GoesPlain

-----------------------------------------------------------------------------
(* What the step of a thread is to AtomicHal.                              *)

LEMMA QuietAtomic ==
    ASSUME IInv, IInv', Dormant, SameShown(hal', hal),
           \A s \in Running(hal) : handle[s] # "closed" => handle'[s] # "closed",
           Owner' = Owner \/ (Plain(Owner) /\ Plain(Owner'))
    PROVE  AtomicStep
  <1>1. hal \in HalState /\ hal' \in HalState
    BY DEF IInv, TypeOK
  <1>2. Dormant'
    BY DEF Dormant, SameShown
  <1>3. CASE Owner' = Owner
    BY <1>1, <1>2, <1>3, ShownSame DEF AtomicStep, SameSight
  <1>4. CASE Plain(Owner) /\ Plain(Owner')
    <2>1. Sight(hal', Owner') = Sight(hal, Owner)
      BY <1>4, PlainSight DEF Sight, SameShown
    <2>2. QED BY <1>2, <2>1 DEF AtomicStep, SameSight
  <1>5. QED BY <1>3, <1>4

LEMMA EnterAtomic ==
    ASSUME IInv, IInv', Dormant, SameShown(hal', hal), handle' = handle, NEW i \in Ins,
           Plain(Owner), Owner'.pc \in {"force", "in_stby"}, Owner'.op # "mode",
           Owner'.tgt = i
    PROVE  AtomicStep
  <1>1. Dormant'
    BY DEF Dormant, SameShown
  <1>2. /\ OutDevice(hal', Owner') = hal.out_device
        /\ InDevice(hal', Owner') = IF hal.mode # "IN_CALL" /\ i \in Running(hal) THEN "NONE"
                                    ELSE hal.in_device
        /\ ActiveOut(hal', Owner') = hal.active_output
        /\ ActiveIn(hal', Owner') = IF i \in Running(hal) THEN None ELSE hal.active_input
        /\ Remaining(hal', Owner') = Running(hal) \ {i}
        /\ hal'.mode = hal.mode
    BY StopSight DEF SameShown
  <1>3. /\ OutDevice(hal, Owner) = hal.out_device /\ InDevice(hal, Owner) = hal.in_device
        /\ ActiveOut(hal, Owner) = hal.active_output /\ ActiveIn(hal, Owner) = hal.active_input
        /\ Remaining(hal, Owner) = Running(hal)
    BY PlainSight
  <1>4. Atomic!StandbyIn(i)
    BY <1>2, <1>3, StreamsAssumption DEF Atomic!StandbyIn, Atomic!Stop, Atomic!Unheard
  <1>5. QED BY <1>1, <1>4 DEF AtomicStep, Atomic!Next

-----------------------------------------------------------------------------
(* What the functions that run under adev->lock do to what is shown.       *)

LEMMA RunningSame ==
    ASSUME NEW r, NEW h, \A o \in Outs : r.out[o].standby = h.out[o].standby,
           \A i \in Ins : r.in[i].standby = h.in[i].standby
    PROVE  Running(r) = Running(h)
  BY DEF Running

LEMMA RolesShown ==
    ASSUME NEW r, NEW h, SameRoles(r, h), SameEchoes(r, h)
    PROVE  SameShown(r, h)
  BY DEF SameRoles, SameEchoes, SameShown, Running

LEMMA OutputStandbyShown ==
    ASSUME NEW h, Echoes(h), NEW o \in Outs
    PROVE  LET r == do_output_standby(h, o) IN
           /\ r \in HalState /\ r.mode = h.mode
           /\ r.out_device = h.out_device /\ r.in_device = h.in_device
           /\ r.active_output = IF o \in Running(h) THEN None ELSE h.active_output
           /\ r.active_input = h.active_input
           /\ Running(r) = Running(h) \ {o}
           /\ r.in = h.in
  <1> DEFINE r == do_output_standby(h, o)
  <1>1. h \in HalState
    BY DEF Echoes, OutEchoes
  <1>2. /\ r \in HalState /\ r.in = h.in /\ r.out[o].standby
        /\ \A p \in Outs \ {o} : r.out[p] = h.out[p]
    BY <1>1, OutputStandby
  <1>3. /\ r.mode = h.mode /\ r.out_device = h.out_device /\ r.in_device = h.in_device
        /\ r.active_input = h.active_input
        /\ h.out[o].standby => r = h
        /\ ~h.out[o].standby => r.active_output = None
    BY OutputStandbyPath
  <1>4. o \in Running(h) <=> ~h.out[o].standby
    BY StreamsAssumption DEF Running
  <1> HIDE DEF r
  <1>5. Running(r) = Running(h) \ {o}
    BY <1>2, StreamsAssumption DEF Running
  <1>6. QED BY <1>2, <1>3, <1>4, <1>5 DEF r

LEMMA InputStandbyShown ==
    ASSUME NEW h, Echoes(h), NEW i \in Ins
    PROVE  LET r == do_input_standby(h, i) IN
           /\ r \in HalState /\ r.mode = h.mode
           /\ r.out_device = h.out_device
           /\ r.in_device = IF h.mode # "IN_CALL" /\ i \in Running(h) THEN "NONE"
                            ELSE h.in_device
           /\ r.active_output = h.active_output
           /\ r.active_input = IF i \in Running(h) THEN None ELSE h.active_input
           /\ Running(r) = Running(h) \ {i}
  <1> DEFINE r == do_input_standby(h, i)
  <1>1. h \in HalState
    BY DEF Echoes, OutEchoes
  <1>2. /\ r \in HalState /\ r.in[i].standby /\ r.active_output = h.active_output
        /\ \A o \in Outs : r.out[o].standby = h.out[o].standby
        /\ \A j \in Ins \ {i} : r.in[j] = h.in[j]
    BY <1>1, InputStandby DEF SameOutputs
  <1>3. /\ r.mode = h.mode /\ r.out_device = h.out_device
        /\ r.in_device = IF h.in[i].standby \/ h.mode = "IN_CALL" THEN h.in_device
                         ELSE "NONE"
        /\ h.in[i].standby => r = h
        /\ ~h.in[i].standby => r.active_input = None
    BY InputStandbyPath
  <1>4. i \in Running(h) <=> ~h.in[i].standby
    BY StreamsAssumption DEF Running
  <1> HIDE DEF r
  <1>5. Running(r) = Running(h) \ {i}
    BY <1>2, StreamsAssumption DEF Running
  <1>6. QED BY <1>2, <1>3, <1>4, <1>5 DEF r

LEMMA OutputStartShown ==
    ASSUME NEW h \in HalState, NEW o \in Outs
    PROVE  LET r == OutputStarted(h, o) IN
           /\ r.mode = h.mode /\ r.out_device = h.out_device /\ r.in_device = h.in_device
           /\ r.active_output = o /\ r.active_input = h.active_input
           /\ Running(r) = Running(h) \cup {o}
  <1> DEFINE r == OutputStarted(h, o)
             p == PrepareOutput(h, o)
             new == [standby |-> FALSE, pcm |-> "open",
                     echo |-> IF p.echo_reference # None
                                THEN p.echo_reference ELSE p.out[o].echo]
  <1>1. /\ p \in HalState /\ p.out_device = h.out_device /\ p.in_device = h.in_device
    BY PreparePath
  <1>2. r = [p EXCEPT !.out[o] = new]
    BY DEF OutputStarted
  <1> HIDE DEF p, new
  <1>3. r.out_device = h.out_device /\ r.in_device = h.in_device
    BY <1>1, <1>2 DEF HalState
  <1>4. /\ r.mode = h.mode /\ r.active_output = o /\ r.active_input = h.active_input
        /\ ~r.out[o].standby /\ r.in = h.in
        /\ \A q \in Outs \ {o} : r.out[q] = h.out[q]
    BY OutputStart
  <1> HIDE DEF r
  <1>5. Running(r) = Running(h) \cup {o}
    BY <1>4, StreamsAssumption DEF Running
  <1>6. QED BY <1>3, <1>4, <1>5 DEF r

LEMMA OutputFailShown ==
    ASSUME NEW h \in HalState, NEW o \in Outs
    PROVE  LET r == OutputFailed(h, o) IN
           /\ r.mode = h.mode /\ r.out_device = h.out_device /\ r.in_device = h.in_device
           /\ r.active_output = None /\ r.active_input = h.active_input
           /\ Running(r) = Running(h)
  <1> DEFINE r == OutputFailed(h, o)
             p == PrepareOutput(h, o)
  <1>1. /\ p \in HalState /\ p.out_device = h.out_device /\ p.in_device = h.in_device
    BY PreparePath
  <1>2. r = [p EXCEPT !.active_output = None, !.out[o].pcm = "stale"]
    BY DEF OutputFailed
  <1> HIDE DEF p
  <1>3. r.out_device = h.out_device /\ r.in_device = h.in_device
    BY <1>1, <1>2 DEF HalState
  <1>4. /\ r.mode = h.mode /\ r.active_output = None /\ r.active_input = h.active_input
        /\ \A q \in Outs : r.out[q].standby = h.out[q].standby
        /\ r.in = h.in
    BY OutputFail
  <1> HIDE DEF r
  <1>5. Running(r) = Running(h)
    BY <1>4, RunningSame
  <1>6. QED BY <1>3, <1>4, <1>5 DEF r

(* Outside calls an input that starts selects a microphone.                *)
LEMMA PrepareInputShown ==
    ASSUME NEW h, Echoes(h), NEW i \in Ins, h.in[i].standby, NEW ref \in Refs \cup {None}
    PROVE  LET p == PrepareInput(h, i, ref) IN
           /\ p \in HalState /\ p.mode = h.mode /\ p.out_device = h.out_device
           /\ h.mode = "IN_CALL" => p.in_device = h.in_device
  <1> DEFINE a == [h EXCEPT !.active_input = i]
             p == PrepareInput(h, i, ref)
  <1>1. h \in HalState
    BY DEF Echoes, OutEchoes
  <1>2. /\ OutEchoes(p) /\ p.mode = h.mode /\ p.out_device = h.out_device
    BY PrepareInputPath
  <1>3. p \in HalState
    BY <1>2 DEF OutEchoes
  <1>4. ASSUME h.mode = "IN_CALL"
        PROVE  p.in_device = h.in_device
    <2>1. /\ a \in HalState /\ a.in_device = h.in_device
          /\ a.out = h.out /\ a.live = h.live /\ a.echo_reference = h.echo_reference
          /\ a.active_output = h.active_output
      BY <1>1 DEF HalState
    <2>2. OutEchoes(a)
      BY <2>1 DEF Echoes, OutEchoes
    <2>3. p = a \/ p = get_echo_reference(a, i, ref)
      BY <1>4 DEF PrepareInput
    <2> HIDE DEF a, p
    <2>4. QED BY <2>1, <2>2, <2>3, GetPath DEF SameRoles
  <1>5. QED BY <1>2, <1>3, <1>4

LEMMA InputStartShown ==
    ASSUME NEW h, Echoes(h), NEW i \in Ins, h.in[i].standby, NEW ref \in Refs \cup {None}
    PROVE  LET r == InputStarted(h, i, ref) IN
           /\ r.mode = h.mode /\ r.out_device = h.out_device /\ r.in_device \in InDevices
           /\ h.mode = "IN_CALL" => r.in_device = h.in_device
           /\ r.active_output = h.active_output /\ r.active_input = i
           /\ Running(r) = Running(h) \cup {i}
  <1> DEFINE r == InputStarted(h, i, ref)
             p == PrepareInput(h, i, ref)
  <1>1. /\ p \in HalState /\ p.out_device = h.out_device
        /\ h.mode = "IN_CALL" => p.in_device = h.in_device
    BY PrepareInputShown
  <1>2. r = [p EXCEPT !.in[i].pcm = "open", !.in[i].standby = FALSE]
    BY DEF InputStarted
  <1> HIDE DEF p
  <1>3. r.out_device = h.out_device /\ r.in_device = p.in_device
    BY <1>1, <1>2 DEF HalState
  <1>4. p.in_device \in InDevices
    BY <1>1 DEF HalState
  <1>5. /\ r.mode = h.mode /\ r.active_output = h.active_output /\ r.active_input = i
        /\ ~r.in[i].standby
        /\ \A o \in Outs : r.out[o].standby = h.out[o].standby
        /\ \A j \in Ins \ {i} : r.in[j].standby = h.in[j].standby
    BY InputStart DEF Echoes, OutEchoes, SameOutputs
  <1> HIDE DEF r
  <1>6. Running(r) = Running(h) \cup {i}
    BY <1>5, StreamsAssumption DEF Running
  <1>7. QED BY <1>1, <1>3, <1>4, <1>5, <1>6 DEF r

LEMMA InputFailShown ==
    ASSUME NEW h, Echoes(h), NEW i \in Ins, h.in[i].standby, NEW ref \in Refs \cup {None}
    PROVE  LET r == InputFailed(h, i, ref) IN
           /\ r.mode = h.mode /\ r.out_device = h.out_device /\ r.in_device \in InDevices
           /\ h.mode = "IN_CALL" => r.in_device = h.in_device
           /\ r.active_output = h.active_output /\ r.active_input = None
           /\ Running(r) = Running(h)
  <1> DEFINE r == InputFailed(h, i, ref)
             p == PrepareInput(h, i, ref)
  <1>1. /\ p \in HalState /\ p.out_device = h.out_device
        /\ h.mode = "IN_CALL" => p.in_device = h.in_device
    BY PrepareInputShown
  <1>2. r = [p EXCEPT !.active_input = None, !.in[i].pcm = "stale"]
    BY DEF InputFailed
  <1> HIDE DEF p
  <1>3. r.out_device = h.out_device /\ r.in_device = p.in_device
    BY <1>1, <1>2 DEF HalState
  <1>4. p.in_device \in InDevices
    BY <1>1 DEF HalState
  <1>5. /\ r.mode = h.mode /\ r.active_output = h.active_output /\ r.active_input = None
        /\ \A o \in Outs : r.out[o].standby = h.out[o].standby
        /\ \A j \in Ins : r.in[j].standby = h.in[j].standby
    BY InputFail DEF Echoes, OutEchoes, SameOutputs
  <1> HIDE DEF r
  <1>6. Running(r) = Running(h)
    BY <1>5, RunningSame
  <1>7. QED BY <1>1, <1>3, <1>4, <1>5, <1>6 DEF r

-----------------------------------------------------------------------------
(* Calls begin, and streams are written and read.                          *)

LEMMA SameHalShown == ASSUME hal' = hal PROVE SameShown(hal', hal)
  BY DEF SameShown

LEMMA StillShown ==
    ASSUME OutStays, InStays, SamePaths(hal', hal) PROVE SameShown(hal', hal)
  BY RunningSame DEF OutStays, InStays, SamePaths, SameShown

(* With the handles as they were.                                          *)
LEMMA OwnerQuiet ==
    ASSUME IInv, IInv', Dormant, NEW t \in Threads, SameShown(hal', hal), handle' = handle,
           \/ GoesPlain(t)
           \/ /\ ~OwnsHw(th[t]) /\ hw_lock' = hw_lock
              /\ \A u \in Threads \ {t} : th'[u] = th[u]
    PROVE  AtomicStep
  <1>1. Owner' = Owner \/ (Plain(Owner) /\ Plain(Owner'))
    BY PlainOwners, OwnerStays
  <1>2. QED BY <1>1, QuietAtomic

LEMMA AtomicCall ==
    ASSUME IInv, IInv', Dormant, NEW t \in Threads, NEW s \in Streams,
           \/ CallOut(t, s) \/ CallIn(t, s)
           \/ adev_close_output_stream(t, s) \/ adev_close_input_stream(t, s)
    PROVE  AtomicStep
  <1>1. PICK pc \in PCs, op \in {"none", "close"} :
          Call(t, s, pc, op) /\ pc \notin {"mode_out", "mode_in", "mode_select", "force", "in_stby"}
    <2>1. CASE CallOut(t, s)
      BY <2>1 DEF CallOut, PCs
    <2>2. CASE CallIn(t, s)
      BY <2>2 DEF CallIn, PCs
    <2>3. CASE adev_close_output_stream(t, s) \/ adev_close_input_stream(t, s)
      BY <2>3 DEF adev_close_output_stream, adev_close_input_stream, Close, PCs
    <2>4. QED BY <2>1, <2>2, <2>3
  <1>2. /\ hal' = hal /\ th[t] = Idle /\ hw_lock = None /\ hw_lock' = t
        /\ th'[t] = [pc |-> pc, op |-> op, tgt |-> s, vol |-> 0]
    BY <1>1, ActiveTypes DEF Call
  <1>3. GoesPlain(t)
    BY <1>1, <1>2, OwnerIs DEF GoesPlain, Plain
  <1>4. \A r \in Streams : handle[r] # "closed" => handle'[r] # "closed"
    <2>1. handle' = handle \/ handle' = [handle EXCEPT ![s] = "closing"]
      BY DEF CallOut, CallIn, adev_close_output_stream, adev_close_input_stream, Close
    <2>2. QED BY <2>1, ActiveTypes
  <1>5. Running(hal) \subseteq Streams
    BY DEF Running, Streams
  <1>6. QED BY <1>2, <1>3, <1>4, <1>5, PlainOwners, SameHalShown, QuietAtomic

LEMMA AtomicTransfer ==
    ASSUME IInv, IInv', Dormant, NEW t \in Threads,
           out_write(t) \/ in_read(t) \/ effect_refused(t) \/ write_io(t) \/ read_io(t)
    PROVE  AtomicStep
  <1>1. hal' = hal /\ handle' = handle
    BY DEF out_write, in_read, effect_refused, write_io, read_io
  <1>2. CASE out_write(t) \/ in_read(t) \/ effect_refused(t)
    <2>1. th[t].pc \in {"write", "read", "add_effect", "remove_effect"}
      BY <1>2 DEF out_write, in_read, effect_refused, At
    <2>2. OwnsHw(th[t]) /\ Plain(th[t]) /\ hw_lock = t
      BY <2>1, OwnerIs DEF OwnsHw, Plain
    <2>3. hw_lock' = None \/ (hw_lock' = hw_lock /\ Goto(t, "start_in"))
      BY <1>2 DEF out_write, in_read, effect_refused, ReturnUnlocked
    <2>4. Goto(t, "start_in") => Plain(th'[t])
      BY ActiveTypes DEF Goto, Plain, ThreadState
    <2>5. GoesPlain(t)
      BY <2>2, <2>3, <2>4 DEF GoesPlain
    <2>6. QED BY <1>1, <2>5, SameHalShown, OwnerQuiet
  <1>3. CASE write_io(t) \/ read_io(t)
    <2>1. /\ th[t].pc \in {"write_io", "read_io", "read_sleep"} /\ hw_lock' = hw_lock
          /\ (\E pc : Goto(t, pc)) \/ Return(t)
      BY <1>3 DEF write_io, read_io, At
    <2>2. ~OwnsHw(th[t]) /\ \A u \in Threads \ {t} : th'[u] = th[u]
      BY <2>1, ActiveTypes DEF OwnsHw, Goto, Return, ModePcs
    <2>3. QED BY <1>1, <2>1, <2>2, SameHalShown, OwnerQuiet
  <1>4. QED BY <1>2, <1>3

(* The input that was active when the output started is put in standby.    *)
LEMMA AtomicWriteTail ==
    ASSUME IInv, IInv', Dormant, NEW t \in Threads, write_tail(t)
    PROVE  AtomicStep
  <1>1. hal' = hal /\ handle' = handle /\ hw_lock = None /\ th[t].pc = "write_tail"
    BY DEF write_tail, At
  <1>2. ~OwnsHw(th[t])
    BY <1>1 DEF OwnsHw, ModePcs
  <1>3. CASE hal.active_input = None
    <2>1. GoesPlain(t)
      BY <1>1, <1>2, <1>3 DEF write_tail, GoesPlain
    <2>2. QED BY <1>1, <2>1, SameHalShown, OwnerQuiet
  <1>4. CASE hal.active_input # None
    <2>1. hal.active_input \in Ins
      BY <1>4, ActiveTypes
    <2>2. /\ hw_lock' = t /\ th'[t].pc = "force" /\ th'[t].op = "none"
          /\ th'[t].tgt = hal.active_input
      BY <1>4, ActiveTypes DEF write_tail, Idle
    <2>3. Owner' = th'[t] /\ Plain(Owner)
      BY <1>1, <2>2, OwnerIs
    <2>4. QED BY <1>1, <2>1, <2>2, <2>3, SameHalShown, EnterAtomic
  <1>5. QED BY <1>3, <1>4

-----------------------------------------------------------------------------
(* Outputs start and stop.                                                 *)

LEMMA PlainShown ==
    ASSUME IInv, NEW t \in Threads, GoesPlain(t)
    PROVE  /\ OutDevice(hal, Owner) = hal.out_device /\ InDevice(hal, Owner) = hal.in_device
           /\ ActiveOut(hal, Owner) = hal.active_output
           /\ ActiveIn(hal, Owner) = hal.active_input
           /\ Remaining(hal, Owner) = Running(hal)
           /\ OutDevice(hal', Owner') = hal'.out_device
           /\ InDevice(hal', Owner') = hal'.in_device
           /\ ActiveOut(hal', Owner') = hal'.active_output
           /\ ActiveIn(hal', Owner') = hal'.active_input
           /\ Remaining(hal', Owner') = Running(hal')
  BY PlainOwners, PlainSight

LEMMA DormantStep ==
    ASSUME Dormant, handle' = handle,
           \A s \in Running(hal') : s \in Running(hal) \/ handle[s] = "open"
    PROVE  Dormant'
  BY DEF Dormant

(* A stream starts when no other of its direction has the device.          *)
LEMMA StartsAlone ==
    ASSUME IInv
    PROVE  /\ \A o \in Outs : hal.out[o].standby /\ OutPcmFree(hal, o) =>
                Running(hal) \cap Outs = {}
           /\ \A i \in Ins : hal.in[i].standby /\ InPcmFree(hal, i) =>
                Running(hal) \cap Ins = {}
  BY StreamsAssumption DEF IInv, HalInvariant, PcmKept, OutPcmFree, InPcmFree, Running

LEMMA AtomicStartOutput ==
    ASSUME IInv, IInv', PathKept, Dormant, NEW t \in Threads, start_output_stream(t)
    PROVE  AtomicStep
  <1> DEFINE o == th[t].tgt
  <1>1. /\ th[t].pc = "write" /\ o \in Outs /\ hal.out[o].standby /\ OutPcmFree(hal, o)
        /\ hal' = OutputStarted(hal, o) /\ hw_lock' = None /\ handle' = handle
        /\ handle[o] = "open" /\ hal \in HalState
    BY ActiveTypes DEF start_output_stream, At, WellFormed, OutPcs, IInv, HalInvariant, HandlesKept
  <1>2. GoesPlain(t)
    BY <1>1 DEF GoesPlain, OwnsHw, Plain
  <1> HIDE DEF o
  <1>3. /\ hal'.mode = hal.mode /\ hal'.out_device = hal.out_device
        /\ hal'.in_device = hal.in_device
        /\ hal'.active_output = o /\ hal'.active_input = hal.active_input
        /\ Running(hal') = Running(hal) \cup {o}
    BY <1>1, OutputStartShown
  <1>4. Running(hal) \cap Outs = {}
    BY <1>1, StartsAlone
  <1>5. Atomic!StartOut(o)
    BY <1>2, <1>3, <1>4, PlainShown DEF Atomic!StartOut, Atomic!device
  <1>6. Dormant'
    BY <1>1, <1>3, DormantStep
  <1>7. QED BY <1>1, <1>5, <1>6 DEF AtomicStep, Atomic!Next

LEMMA AtomicOutputFails ==
    ASSUME IInv, IInv', PathKept, Dormant, NEW t \in Threads, start_output_fails(t)
    PROVE  AtomicStep
  <1> DEFINE o == th[t].tgt
  <1>1. /\ th[t].pc = "write" /\ o \in Outs /\ hal.out[o].standby
        /\ hal' = OutputFailed(hal, o) /\ hw_lock' = None /\ handle' = handle
        /\ hal \in HalState
    BY ActiveTypes DEF start_output_fails, At, WellFormed, OutPcs, ReturnUnlocked
  <1>2. GoesPlain(t)
    BY <1>1 DEF GoesPlain, OwnsHw, Plain
  <1> HIDE DEF o
  <1>3. /\ hal'.mode = hal.mode /\ hal'.out_device = hal.out_device
        /\ hal'.in_device = hal.in_device
        /\ hal'.active_output = None /\ hal'.active_input = hal.active_input
        /\ Running(hal') = Running(hal)
    BY <1>1, OutputFailShown
  <1>4. o \notin Running(hal)
    BY <1>1, StreamsAssumption DEF Running
  <1>5. Atomic!FailOut(o)
    BY <1>2, <1>3, <1>4, PlainShown DEF Atomic!FailOut, Atomic!device
  <1>6. Dormant'
    BY <1>1, <1>3, DormantStep
  <1>7. QED BY <1>1, <1>5, <1>6 DEF AtomicStep, Atomic!Next

LEMMA AtomicOutStandby ==
    ASSUME IInv, IInv', PathKept, Dormant, NEW t \in Threads, out_standby(t)
    PROVE  AtomicStep
  <1> DEFINE o == th[t].tgt
  <1>1. /\ th[t].pc = "out_standby" /\ o \in Outs /\ Echoes(hal)
        /\ hal' = do_output_standby(hal, o) /\ hw_lock' = None /\ handle' = handle
    BY ActiveTypes DEF out_standby, At, WellFormed, OutPcs, PathKept
  <1>2. GoesPlain(t)
    BY <1>1 DEF GoesPlain, OwnsHw, Plain
  <1> HIDE DEF o
  <1>3. /\ hal'.mode = hal.mode /\ hal'.out_device = hal.out_device
        /\ hal'.in_device = hal.in_device /\ hal'.active_input = hal.active_input
        /\ hal'.active_output = IF o \in Running(hal) THEN None ELSE hal.active_output
        /\ Running(hal') = Running(hal) \ {o}
    BY <1>1, OutputStandbyShown
  <1>4. Atomic!StandbyOut(o)
    BY <1>1, <1>2, <1>3, PlainShown, StreamsAssumption
       DEF Atomic!StandbyOut, Atomic!Stop, Atomic!device
  <1>5. Dormant'
    BY <1>1, <1>3, DormantStep
  <1>6. QED BY <1>1, <1>4, <1>5 DEF AtomicStep, Atomic!Next

(* The device after a change of the route, when the lock is given back or  *)
(* the input is left to stop.                                              *)
LEMMA RouteShown ==
    ASSUME NEW h, Echoes(h), NEW o \in Outs, NEW devices \in RouteSets
    PROVE  LET active == o = h.active_output
               d == IF active THEN do_output_standby(h, o) ELSE h
               r == select_output_device([d EXCEPT !.out_device = devices])
           IN
           /\ r.mode = h.mode /\ r.out_device = devices /\ r.in_device = h.in_device
           /\ r.active_output = IF active THEN None ELSE h.active_output
           /\ r.active_input = h.active_input
           /\ Running(r) = Running(h) \ (IF active THEN {o} ELSE {})
  <1> DEFINE active == o = h.active_output
             d == IF active THEN do_output_standby(h, o) ELSE h
             e == [d EXCEPT !.out_device = devices]
             r == select_output_device(e)
  <1>1. h \in HalState /\ (active => o \in Running(h))
    BY StreamsAssumption DEF Echoes, OutEchoes, Running
  <1>2. /\ d \in HalState /\ d.mode = h.mode /\ d.in_device = h.in_device
        /\ d.active_output = IF active THEN None ELSE h.active_output
        /\ d.active_input = h.active_input
        /\ Running(d) = Running(h) \ (IF active THEN {o} ELSE {})
    BY <1>1, OutputStandbyShown
  <1> HIDE DEF d
  <1>3. /\ e \in HalState /\ e.mode = d.mode /\ e.out_device = devices
        /\ e.in_device = d.in_device /\ e.active_output = d.active_output
        /\ e.active_input = d.active_input /\ e.out = d.out /\ e.in = d.in
    BY <1>2, InputsAssumption DEF HalState
  <1> HIDE DEF e
  <1>4. Running(e) = Running(d)
    BY <1>3, RunningSame
  <1>5. SameShown(r, e)
    BY <1>3, SelectOutputPath, RolesShown
  <1> HIDE DEF r
  <1>6. /\ r.mode = h.mode /\ r.out_device = devices /\ r.in_device = h.in_device
        /\ r.active_output = IF active THEN None ELSE h.active_output
        /\ r.active_input = h.active_input
        /\ Running(r) = Running(h) \ (IF active THEN {o} ELSE {})
    BY <1>2, <1>3, <1>4, <1>5 DEF SameShown
  <1>7. QED BY <1>6 DEF r, e, d

LEMMA AtomicRoute ==
    ASSUME IInv, IInv', PathKept, Dormant, NEW t \in Threads, NEW devices \in RouteSets,
           out_set_parameters(t, devices)
    PROVE  AtomicStep
  <1> DEFINE o == th[t].tgt
             active == o = hal.active_output
  <1>1. /\ th[t].pc = "route" /\ o \in Outs /\ handle' = handle /\ hal \in HalState
        /\ Echoes(hal)
    BY ActiveTypes DEF out_set_parameters, At, WellFormed, OutPcs, PathKept
  <1>2. OwnsHw(th[t]) /\ Plain(th[t])
    BY <1>1 DEF OwnsHw, Plain
  <1>3. CASE devices = hal.out_device
    <2>1. hal' = hal /\ hw_lock' = None
      BY <1>3 DEF out_set_parameters, ReturnUnlocked
    <2>2. GoesPlain(t)
      BY <1>2, <2>1 DEF GoesPlain
    <2>3. QED BY <1>1, <2>1, <2>2, SameHalShown, OwnerQuiet
  <1>4. CASE devices # hal.out_device
    <2> DEFINE d == IF active THEN do_output_standby(hal, o) ELSE hal
    <2>1. hal' = select_output_device([d EXCEPT !.out_device = devices])
      BY <1>4 DEF out_set_parameters
    <2>2. \/ active /\ VoiceInput(hal) /\ hw_lock' = hw_lock
             /\ th' = [th EXCEPT ![t].pc = "force", ![t].tgt = hal.active_input]
          \/ hw_lock' = None
      BY <1>4 DEF out_set_parameters, ReturnUnlocked
    <2>3. /\ hal'.mode = hal.mode /\ hal'.out_device = devices
          /\ hal'.in_device = hal.in_device
          /\ hal'.active_output = IF active THEN None ELSE hal.active_output
          /\ hal'.active_input = hal.active_input
          /\ Running(hal') = Running(hal) \ (IF active THEN {o} ELSE {})
      BY <1>1, <2>1, RouteShown
    <2>4. active => o \in Running(hal)
      BY <1>1, StreamsAssumption DEF Echoes, OutEchoes, Running
    <2>5. Dormant'
      BY <1>1, <2>3, DormantStep
    <2>6. ASSUME hw_lock' = None
          PROVE  Atomic!Route(o, FALSE)
      <3>1. GoesPlain(t)
        BY <1>2, <2>6 DEF GoesPlain
      <3> HIDE DEF o
      <3>2. QED
        BY <1>1, <1>4, <2>3, <2>4, <3>1, PlainShown, StreamsAssumption
           DEF Atomic!Route, Atomic!Stop, Atomic!Unheard
    <2>7. ASSUME active, VoiceInput(hal), hw_lock' = hw_lock,
                 th' = [th EXCEPT ![t].pc = "force", ![t].tgt = hal.active_input]
          PROVE  Atomic!Route(o, TRUE)
      <3> DEFINE i == hal.active_input
      <3>1. i \in Ins /\ i \in Running(hal) /\ i \in Running(hal')
        <4>1. i \in Ins /\ ~hal.in[i].standby
          BY <1>1, <2>7, ActiveTypes DEF VoiceInput, Echoes, InEchoes
        <4>2. QED BY <1>1, <2>3, <4>1, StreamsAssumption DEF Running
      <3>2. Owner = th[t] /\ Owner' = th'[t]
        BY <1>2, <2>7, OwnerIs
      <3>3. th'[t].pc = "force" /\ th'[t].tgt = i /\ th'[t].op # "mode"
        BY <1>1, <2>7, ActiveTypes DEF ThreadState, WellFormed, ModePcs
      <3>4. /\ OutDevice(hal, Owner) = hal.out_device /\ InDevice(hal, Owner) = hal.in_device
            /\ ActiveOut(hal, Owner) = hal.active_output
            /\ ActiveIn(hal, Owner) = i
            /\ Remaining(hal, Owner) = Running(hal)
        BY <1>2, <3>2, PlainSight
      <3> HIDE DEF i, d
      <3>5. /\ OutDevice(hal', Owner') = devices
            /\ InDevice(hal', Owner') = IF hal.mode # "IN_CALL" THEN "NONE" ELSE hal.in_device
            /\ ActiveOut(hal', Owner') = None /\ ActiveIn(hal', Owner') = None
            /\ Remaining(hal', Owner') = Running(hal) \ {o, i}
        <4>1. /\ OutDevice(hal', Owner') = hal'.out_device
              /\ InDevice(hal', Owner') = IF hal'.mode # "IN_CALL" /\ i \in Running(hal')
                                            THEN "NONE" ELSE hal'.in_device
              /\ ActiveOut(hal', Owner') = hal'.active_output
              /\ ActiveIn(hal', Owner') = IF i \in Running(hal') THEN None
                                          ELSE hal'.active_input
              /\ Remaining(hal', Owner') = Running(hal') \ {i}
          BY <3>1, <3>2, <3>3, StopSight
        <4> HIDE DEF o
        <4>2. QED BY <2>3, <2>7, <3>1, <4>1
      <3> HIDE DEF o
      <3>6. QED
        BY <1>1, <1>4, <2>3, <2>4, <2>7, <3>1, <3>4, <3>5, StreamsAssumption
           DEF Atomic!Route, Atomic!Stop, Atomic!Unheard, i
    <2>8. QED BY <1>1, <2>2, <2>5, <2>6, <2>7 DEF AtomicStep, Atomic!Next
  <1>5. QED BY <1>3, <1>4

-----------------------------------------------------------------------------
(* Inputs.                                                                 *)

LEMMA AtomicInStandby ==
    ASSUME IInv, IInv', Dormant, NEW t \in Threads, in_standby(t)
    PROVE  AtomicStep
  <1> DEFINE i == th[t].tgt
  <1>1. /\ hal' = hal /\ handle' = handle /\ i \in Ins
        /\ th[t].pc \in {"in_standby", "force"}
    BY ActiveTypes DEF in_standby, At, WellFormed, InPcs
  <1>2. OwnsHw(th[t])
    BY <1>1 DEF OwnsHw
  <1>3. th'[t].pc = "in_stby" /\ th'[t].tgt = i /\ th'[t].op # "mode" /\ th[t].op # "mode"
    BY <1>1, ActiveTypes
       DEF in_standby, EnterInputStandby, Goto, ThreadState, WellFormed, ModePcs
  <1>4. Owner = th[t] /\ Owner' = th'[t]
    BY <1>2, OwnerIs DEF in_standby, EnterInputStandby
  <1> HIDE DEF i
  <1>5. CASE th[t].pc = "in_standby"
    <2>1. Plain(Owner)
      BY <1>4, <1>5 DEF Plain
    <2>2. QED BY <1>1, <1>3, <1>4, <2>1, SameHalShown, EnterAtomic
  <1>6. CASE th[t].pc = "force"
    <2>1. SameSight
      BY <1>1, <1>3, <1>4, <1>6, StopSight DEF SameSight, Sight, i
    <2>2. Dormant'
      BY <1>1, DormantStep
    <2>3. QED BY <2>1, <2>2 DEF AtomicStep
  <1>7. QED BY <1>1, <1>5, <1>6

(* A change of the parameters or effects, with the standby it may ask for. *)
LEMMA AtomicInput ==
    ASSUME IInv, IInv', Dormant, NEW t \in Threads, SameShown(hal', hal), handle' = handle,
           th[t].pc \in {"in_params", "add_effect", "remove_effect"},
           EnterInputStandby(t) \/ ReturnUnlocked(t)
    PROVE  AtomicStep
  <1> DEFINE i == th[t].tgt
  <1>1. OwnsHw(th[t]) /\ Plain(th[t]) /\ i \in Ins
    BY ActiveTypes DEF OwnsHw, Plain, WellFormed, InPcs
  <1>2. CASE ReturnUnlocked(t)
    <2>1. GoesPlain(t)
      BY <1>1, <1>2 DEF GoesPlain, ReturnUnlocked
    <2>2. QED BY <2>1, OwnerQuiet
  <1>3. CASE EnterInputStandby(t)
    <2>1. th'[t].pc = "in_stby" /\ th'[t].tgt = i /\ th'[t].op # "mode"
      BY <1>3, ActiveTypes DEF EnterInputStandby, Goto, ThreadState, WellFormed, ModePcs
    <2>2. Owner = th[t] /\ Owner' = th'[t]
      BY <1>1, <1>3, OwnerIs DEF EnterInputStandby
    <2> HIDE DEF i
    <2>3. QED BY <1>1, <2>1, <2>2, EnterAtomic
  <1>4. QED BY <1>2, <1>3

LEMMA AtomicInputCalls ==
    ASSUME IInv, IInv', Dormant, NEW t \in Threads,
           \/ \E source \in Sources \cup {None}, device \in MicSet \cup {None} :
                in_set_parameters(t, source, device)
           \/ \E effect \in Effects : in_add_audio_effect(t, effect)
           \/ \E effect \in Effects, described \in BOOLEAN :
                in_remove_audio_effect(t, effect, described)
    PROVE  AtomicStep
  <1>1. hal \in HalState
    BY ActiveTypes
  <1>2. ASSUME NEW source \in Sources \cup {None}, NEW device \in MicSet \cup {None},
               in_set_parameters(t, source, device)
        PROVE  AtomicStep
    <2>1. OutStays /\ InStays
      BY <1>2, ActiveParameters DEF Still
    <2>2. SamePaths(hal', hal)
      BY <1>1, <1>2 DEF in_set_parameters, HalState, SamePaths
    <2>3. /\ th[t].pc = "in_params" /\ handle' = handle
          /\ EnterInputStandby(t) \/ ReturnUnlocked(t)
      BY <1>2 DEF in_set_parameters, At
    <2>4. QED BY <2>1, <2>2, <2>3, StillShown, AtomicInput
  <1>3. ASSUME NEW effect \in Effects, in_add_audio_effect(t, effect)
        PROVE  AtomicStep
    <2>1. OutStays /\ InStays
      BY <1>3, ActiveAddEffect DEF Still
    <2>2. SamePaths(hal', hal)
      BY <1>1, <1>3 DEF in_add_audio_effect, HalState, SamePaths
    <2>3. /\ th[t].pc = "add_effect" /\ handle' = handle
          /\ EnterInputStandby(t) \/ ReturnUnlocked(t)
      BY <1>3 DEF in_add_audio_effect, At
    <2>4. QED BY <2>1, <2>2, <2>3, StillShown, AtomicInput
  <1>4. ASSUME NEW effect \in Effects, NEW described \in BOOLEAN,
               in_remove_audio_effect(t, effect, described)
        PROVE  AtomicStep
    <2>1. OutStays /\ InStays
      BY <1>4, ActiveRemoveEffect DEF Still
    <2>2. SamePaths(hal', hal)
      BY <1>1, <1>4 DEF in_remove_audio_effect, HalState, SamePaths
    <2>3. /\ th[t].pc = "remove_effect" /\ handle' = handle
          /\ EnterInputStandby(t) \/ ReturnUnlocked(t)
      BY <1>4 DEF in_remove_audio_effect, At
    <2>4. QED BY <2>1, <2>2, <2>3, StillShown, AtomicInput
  <1>5. QED BY <1>2, <1>3, <1>4

LEMMA AtomicStartInput ==
    ASSUME IInv, IInv', PathKept, Dormant, NEW t \in Threads,
           start_input_stream(t) \/ start_input_fails(t)
    PROVE  AtomicStep
  <1> DEFINE i == th[t].tgt
  <1>1. /\ th[t].pc = "start_in" /\ i \in Ins /\ hal.in[i].standby /\ handle' = handle
        /\ hw_lock' = None /\ handle[i] = "open" /\ Echoes(hal)
    BY ActiveTypes DEF start_input_stream, start_input_fails, At, WellFormed, InPcs,
       IInv, HalInvariant, PcmKept, HandlesKept, PathKept
  <1>2. GoesPlain(t)
    BY <1>1 DEF GoesPlain, OwnsHw, Plain
  <1>3. NewReferences(i) \subseteq Refs \cup {None}
    BY DEF NewReferences
  <1>4. CASE start_input_stream(t)
    <2>1. InPcmFree(hal, i) /\ \E ref \in Refs \cup {None} : hal' = InputStarted(hal, i, ref)
      BY <1>3, <1>4 DEF start_input_stream
    <2> HIDE DEF i
    <2>2. /\ hal'.mode = hal.mode /\ hal'.out_device = hal.out_device
          /\ hal'.in_device \in InDevices
          /\ hal.mode = "IN_CALL" => hal'.in_device = hal.in_device
          /\ hal'.active_output = hal.active_output /\ hal'.active_input = i
          /\ Running(hal') = Running(hal) \cup {i}
      BY <1>1, <2>1, InputStartShown
    <2>3. Running(hal) \cap Ins = {}
      BY <1>1, <2>1, StartsAlone
    <2>4. Atomic!StartIn(i)
      BY <1>2, <2>2, <2>3, PlainShown DEF Atomic!StartIn, Atomic!Listen
    <2>5. Dormant'
      BY <1>1, <2>2, DormantStep
    <2>6. QED BY <1>1, <2>4, <2>5 DEF AtomicStep, Atomic!Next
  <1>5. CASE start_input_fails(t)
    <2>1. \E ref \in Refs \cup {None} : hal' = InputFailed(hal, i, ref)
      BY <1>3, <1>5 DEF start_input_fails
    <2> HIDE DEF i
    <2>2. /\ hal'.mode = hal.mode /\ hal'.out_device = hal.out_device
          /\ hal'.in_device \in InDevices
          /\ hal.mode = "IN_CALL" => hal'.in_device = hal.in_device
          /\ hal'.active_output = hal.active_output /\ hal'.active_input = None
          /\ Running(hal') = Running(hal)
      BY <1>1, <2>1, InputFailShown
    <2>3. i \notin Running(hal)
      BY <1>1, StreamsAssumption DEF Running
    <2>4. Atomic!FailIn(i)
      BY <1>2, <2>2, <2>3, PlainShown DEF Atomic!FailIn, Atomic!Listen
    <2>5. Dormant'
      BY <1>1, <2>2, DormantStep
    <2>6. QED BY <1>1, <2>4, <2>5 DEF AtomicStep, Atomic!Next
  <1>6. QED BY <1>4, <1>5

(* A change of the mode puts one of its streams in standby.                *)
LEMMA ModeStops ==
    ASSUME hal \in HalState, hal' \in HalState, NEW S, NEW R,
           Owner.op = "mode", Owner.pc \in {"mode_out", "mode_in", "in_stby"},
           Owner'.op = "mode", Owner'.pc \in {"mode_in", "in_stby", "mode_select"},
           Leaving(hal, Owner) = S, R \subseteq S,
           \A s \in Streams : s \in Leaving(hal', Owner') <=> s \in S \ R,
           hal'.mode = hal.mode, hal'.out_device = hal.out_device,
           hal'.in_device = IF hal.mode # "IN_CALL" /\ R \cap Running(hal) \cap Ins # {}
                              THEN "NONE" ELSE hal.in_device,
           hal'.active_output = IF R \cap Running(hal) \cap Outs # {} THEN None
                                ELSE hal.active_output,
           hal'.active_input = IF R \cap Running(hal) \cap Ins # {} THEN None
                               ELSE hal.active_input,
           Running(hal') = Running(hal) \ R
    PROVE  SameSight
  <1> DEFINE c == IF hal.mode = "IN_CALL" THEN CallDevices(hal) ELSE hal
             d == IF hal'.mode = "IN_CALL" THEN CallDevices(hal') ELSE hal'
             Ends(T) == S \cap Running(hal) \cap T # {}
             L == Leaving(hal', Owner')
             Left(T) == L \cap (Running(hal) \ R) \cap T # {}
             Gone(T) == R \cap Running(hal) \cap T # {}
  <1>1. /\ OutDevice(hal, Owner) = c.out_device
        /\ InDevice(hal, Owner) = IF hal.mode # "IN_CALL" /\ Ends(Ins) THEN "NONE"
                                  ELSE c.in_device
        /\ ActiveOut(hal, Owner) = IF Ends(Outs) THEN None ELSE hal.active_output
        /\ ActiveIn(hal, Owner) = IF Ends(Ins) THEN None ELSE hal.active_input
        /\ Remaining(hal, Owner) = Running(hal) \ S
    BY ModeSight
  <1>2. /\ OutDevice(hal', Owner') = d.out_device
        /\ InDevice(hal', Owner') = IF hal.mode # "IN_CALL" /\ Left(Ins) THEN "NONE"
                                    ELSE d.in_device
        /\ ActiveOut(hal', Owner') = IF Left(Outs) THEN None ELSE hal'.active_output
        /\ ActiveIn(hal', Owner') = IF Left(Ins) THEN None ELSE hal'.active_input
        /\ Remaining(hal', Owner') = (Running(hal) \ R) \ L
    BY ModeSight
  <1> HIDE DEF L
  <1>0. \A s \in Running(hal) : s \in L <=> s \in S \ R
    BY DEF Running, Streams, L
  <1>3. \A T : Ends(T) <=> Left(T) \/ Gone(T)
    BY <1>0
  <1>4. (Running(hal) \ R) \ L = Running(hal) \ S
    BY <1>0
  <1>5. /\ d.out_device = c.out_device
        /\ hal.mode = "IN_CALL" => d.in_device = c.in_device
        /\ hal.mode # "IN_CALL" => c.in_device = hal.in_device /\ d.in_device = hal'.in_device
    BY CallDevicesOf
  <1> HIDE DEF c, d, Ends, Left
  <1>6. OutDevice(hal', Owner') = OutDevice(hal, Owner)
    BY <1>1, <1>2, <1>5
  <1>7. InDevice(hal', Owner') = InDevice(hal, Owner)
    BY <1>1, <1>2, <1>3, <1>5
  <1>8. ActiveOut(hal', Owner') = ActiveOut(hal, Owner)
    BY <1>1, <1>2, <1>3
  <1>9. ActiveIn(hal', Owner') = ActiveIn(hal, Owner)
    BY <1>1, <1>2, <1>3
  <1>10. QED BY <1>1, <1>2, <1>4, <1>6, <1>7, <1>8, <1>9 DEF SameSight, Sight

(* A standby of an input was done when it was decided.                     *)
LEMMA AtomicInputStandby ==
    ASSUME IInv, IInv', PathKept, Dormant, NEW t \in Threads, input_standby(t)
    PROVE  AtomicStep
  <1> DEFINE i == th[t].tgt
  <1>1. /\ th[t].pc = "in_stby" /\ i \in Ins /\ Echoes(hal) /\ handle' = handle
        /\ hal' = do_input_standby(hal, i) /\ hal \in HalState /\ th[t] \in ThreadState
    BY ActiveTypes DEF input_standby, At, WellFormed, InPcs, PathKept
  <1>2. OwnsHw(th[t])
    BY <1>1 DEF OwnsHw
  <1>3. Owner = th[t]
    BY <1>2, OwnerIs
  <1>4. th[t].op = "mode" => /\ Owner' = th'[t] /\ th'[t].pc = "mode_select"
                             /\ th'[t].op = "mode"
    BY <1>2, OwnerIs, ActiveTypes DEF input_standby, ThreadState
  <1>5. th[t].op # "mode" => Owner' = Idle
    BY OwnerIs DEF input_standby, ReturnUnlocked
  <1> HIDE DEF i
  <1>6. /\ hal' \in HalState /\ hal'.mode = hal.mode /\ hal'.out_device = hal.out_device
        /\ hal'.in_device = IF hal.mode # "IN_CALL" /\ i \in Running(hal) THEN "NONE"
                            ELSE hal.in_device
        /\ hal'.active_output = hal.active_output
        /\ hal'.active_input = IF i \in Running(hal) THEN None ELSE hal.active_input
        /\ Running(hal') = Running(hal) \ {i}
    BY <1>1, InputStandbyShown
  <1>7. Dormant'
    BY <1>1, <1>6, DormantStep
  <1>8. CASE th[t].op # "mode"
    <2>1. Plain(Owner')
      BY <1>5, <1>8, OwnerIs
    <2>2. /\ OutDevice(hal, Owner) = hal.out_device
          /\ InDevice(hal, Owner) = hal'.in_device
          /\ ActiveOut(hal, Owner) = hal.active_output
          /\ ActiveIn(hal, Owner) = hal'.active_input
          /\ Remaining(hal, Owner) = Running(hal')
      BY <1>1, <1>3, <1>6, <1>8, StopSight DEF i
    <2>3. /\ OutDevice(hal', Owner') = hal'.out_device
          /\ InDevice(hal', Owner') = hal'.in_device
          /\ ActiveOut(hal', Owner') = hal'.active_output
          /\ ActiveIn(hal', Owner') = hal'.active_input
          /\ Remaining(hal', Owner') = Running(hal')
      BY <2>1, PlainSight
    <2>4. SameSight
      BY <1>6, <2>2, <2>3 DEF SameSight, Sight
    <2>5. QED BY <1>7, <2>4 DEF AtomicStep
  <1>9. CASE th[t].op = "mode"
    <2>1. Leaving(hal, Owner) = {i} /\ Leaving(hal', Owner') = {}
      BY <1>1, <1>3, <1>4, <1>9 DEF Leaving, i
    <2>2. /\ {i} \cap Running(hal) \cap Ins # {} <=> i \in Running(hal)
          /\ ~({i} \cap Running(hal) \cap Outs # {})
      BY <1>1, StreamsAssumption
    <2>3. /\ hal'.in_device = IF hal.mode # "IN_CALL" /\ {i} \cap Running(hal) \cap Ins # {}
                                THEN "NONE" ELSE hal.in_device
          /\ hal'.active_output = IF {i} \cap Running(hal) \cap Outs # {} THEN None
                                  ELSE hal.active_output
          /\ hal'.active_input = IF {i} \cap Running(hal) \cap Ins # {} THEN None
                                 ELSE hal.active_input
      BY <1>6, <2>2
    <2>4. /\ Owner.op = "mode" /\ Owner.pc = "in_stby"
          /\ Owner'.op = "mode" /\ Owner'.pc = "mode_select"
      BY <1>1, <1>3, <1>4, <1>9
    <2>5. {i} \subseteq {i} /\ \A s \in Streams : s \in Leaving(hal', Owner') <=> s \in {i} \ {i}
      BY <2>1
    <2>6. SameSight
      BY <1>1, <1>6, <2>1, <2>3, <2>4, <2>5, ModeStops
    <2>7. QED BY <1>7, <2>6 DEF AtomicStep
  <1>10. QED BY <1>8, <1>9

-----------------------------------------------------------------------------
(* The mode.                                                               *)

LEMMA ModeOwner ==
    ASSUME IInv, IInv', PathKept, NEW t \in Threads, th[t].op = "mode",
           th[t].pc \in {"mode_out", "mode_in", "mode_select"}
    PROVE  /\ hw_lock = t /\ Owner = th[t] /\ Echoes(hal) /\ Forced(th[t], hal)
           /\ hal \in HalState /\ hal' \in HalState /\ th[t] \in ThreadState
           /\ hw_lock' = hw_lock => Owner' = th'[t]
           /\ hal.active_output \in (Running(hal) \cap Outs) \cup {None}
           /\ hal.active_input \in (Running(hal) \cap Ins) \cup {None}
  <1>1. OwnsHw(th[t])
    BY DEF OwnsHw, ModePcs
  <1>2. hal' \in HalState
    BY DEF IInv, TypeOK
  <1>3. Echoes(hal) /\ Forced(th[t], hal)
    BY ModeStart
  <1>4. /\ hal.active_output \in (Running(hal) \cap Outs) \cup {None}
        /\ hal.active_input \in (Running(hal) \cap Ins) \cup {None}
    BY <1>3, ActiveTypes DEF Echoes, OutEchoes, InEchoes, Running
  <1>5. QED BY <1>1, <1>2, <1>3, <1>4, ActiveTypes, OwnerIs

LEMMA AtomicForceOutput ==
    ASSUME IInv, IInv', PathKept, Dormant, NEW t \in Threads, force_output_standby(t)
    PROVE  AtomicStep
  <1>1. /\ th[t].pc = "mode_out" /\ th[t].op = "mode" /\ hw_lock' = hw_lock
        /\ handle' = handle /\ Goto(t, "mode_in")
        /\ hal' = IF hal.active_output = None THEN hal
                  ELSE do_output_standby(hal, hal.active_output)
    BY ActiveTypes DEF force_output_standby, At, WellFormed, ModePcs
  <1>2. /\ Owner = th[t] /\ Owner' = th'[t] /\ Echoes(hal) /\ th[t] \in ThreadState
        /\ hal \in HalState /\ hal' \in HalState
        /\ hal.active_output \in (Running(hal) \cap Outs) \cup {None}
        /\ hal.active_input \in (Running(hal) \cap Ins) \cup {None}
    BY <1>1, ModeOwner
  <1>3. th'[t].pc = "mode_in" /\ th'[t].op = "mode"
    BY <1>1, <1>2, ActiveTypes DEF Goto, ThreadState
  <1> DEFINE S == {hal.active_output, hal.active_input}
             R == {hal.active_output} \ {None}
  <1>4. /\ hal'.mode = hal.mode /\ hal'.out_device = hal.out_device
        /\ hal'.in_device = hal.in_device /\ hal'.active_input = hal.active_input
        /\ hal'.active_output = None /\ Running(hal') = Running(hal) \ R
    <2>1. CASE hal.active_output = None
      BY <1>1, <2>1
    <2>2. CASE hal.active_output # None
      BY <1>1, <1>2, <2>2, OutputStandbyShown
    <2>3. QED BY <2>1, <2>2
  <1>5. Dormant'
    BY <1>1, <1>4, DormantStep
  <1>6. /\ ~(R \cap Running(hal) \cap Ins # {})
        /\ R \cap Running(hal) \cap Outs # {} <=> hal.active_output # None
        /\ R \subseteq S
    BY <1>2, StreamsAssumption
  <1>7. Leaving(hal, Owner) = S /\ Leaving(hal', Owner') = {hal.active_input}
    BY <1>1, <1>2, <1>3, <1>4 DEF Leaving
  <1>8. \A s \in Streams : s \in Leaving(hal', Owner') <=> s \in S \ R
    BY <1>2, <1>7, StreamsAssumption DEF Streams
  <1> HIDE DEF R, S
  <1>9. hal'.active_output = IF R \cap Running(hal) \cap Outs # {} THEN None
                             ELSE hal.active_output
    BY <1>4, <1>6
  <1>10. SameSight
    BY <1>1, <1>2, <1>3, <1>4, <1>6, <1>7, <1>8, <1>9, ModeStops
  <1>11. QED BY <1>5, <1>10 DEF AtomicStep

LEMMA AtomicForceInput ==
    ASSUME IInv, IInv', PathKept, Dormant, NEW t \in Threads, force_input_standby(t)
    PROVE  AtomicStep
  <1>1. /\ th[t].pc = "mode_in" /\ th[t].op = "mode" /\ hw_lock' = hw_lock
        /\ handle' = handle /\ hal' = hal
    BY ActiveTypes DEF force_input_standby, At, WellFormed, ModePcs
  <1>2. /\ Owner = th[t] /\ Owner' = th'[t] /\ th[t] \in ThreadState
        /\ hal \in HalState /\ hal' \in HalState
        /\ hal.active_input \in (Running(hal) \cap Ins) \cup {None}
    BY <1>1, ModeOwner
  <1>3. /\ th'[t].op = "mode" /\ th'[t].pc \in {"in_stby", "mode_select"}
        /\ th'[t].pc = "in_stby" => th'[t].tgt = hal.active_input
        /\ th'[t].pc = "mode_select" => hal.active_input = None
    BY <1>1, <1>2, ActiveTypes DEF force_input_standby, Goto, ThreadState
  <1>4. /\ Leaving(hal, Owner) = {hal.active_input}
        /\ Leaving(hal', Owner') = IF th'[t].pc = "in_stby" THEN {hal.active_input} ELSE {}
    BY <1>1, <1>2, <1>3 DEF Leaving
  <1>5. \A s \in Streams : s \in Leaving(hal', Owner') <=> s \in {hal.active_input} \ {}
    BY <1>3, <1>4, StreamsAssumption DEF Streams
  <1>6. SameSight
    BY <1>1, <1>2, <1>3, <1>4, <1>5, ModeStops
  <1>7. Dormant'
    BY <1>1, DormantStep
  <1>8. QED BY <1>6, <1>7 DEF AtomicStep

LEMMA AtomicSelectMode ==
    ASSUME IInv, IInv', PathKept, Dormant, NEW t \in Threads, select_mode(t)
    PROVE  AtomicStep
  <1>1. /\ th[t].pc = "mode_select" /\ th[t].op = "mode" /\ handle' = handle
    BY ActiveTypes DEF select_mode, At, WellFormed, ModePcs
  <1>2. /\ hw_lock = t /\ Owner = th[t] /\ th[t] \in ThreadState
        /\ hal \in HalState /\ hal' \in HalState
        /\ hw_lock' = hw_lock => Owner' = th'[t]
    BY <1>1, ModeOwner
  <1> DEFINE c == IF hal.mode = "IN_CALL" THEN CallDevices(hal) ELSE hal
  <1>3. /\ c \in HalState /\ c.mode = hal.mode
        /\ c.active_output = hal.active_output /\ c.active_input = hal.active_input
        /\ Running(c) = Running(hal)
    BY <1>2, CallDevicesOf DEF Running
  <1>4. SameShown(hal', c)
    <2>1. CASE hal.mode = "IN_CALL"
      <3>1. hal' = select_output_device(c)
        BY <2>1 DEF select_mode
      <3> HIDE DEF c
      <3>2. QED BY <1>3, <3>1, SelectOutputPath, RolesShown
    <2>2. CASE hal.mode # "IN_CALL"
      <3> DEFINE d == select_output_device(c)
      <3>1. hal' = select_input_device(d)
        BY <2>2 DEF select_mode
      <3> HIDE DEF c
      <3>2. d \in HalState /\ SameShown(d, c)
        BY <1>3, SelectOutputPath, RolesShown
      <3> HIDE DEF d
      <3>3. SameShown(hal', d)
        BY <3>1, <3>2, SelectInputPath, RolesShown
      <3>4. QED BY <3>2, <3>3 DEF SameShown
    <2>3. QED BY <2>1, <2>2
  <1>5. Plain(Owner')
    <2>1. CASE hal.mode = "IN_CALL"
      <3>1. th'[t].pc = "volume_store" /\ hw_lock' = hw_lock
        BY <1>2, <2>1, ActiveTypes DEF select_mode, ThreadState
      <3>2. QED BY <1>2, <3>1 DEF Plain
    <2>2. CASE hal.mode # "IN_CALL"
      BY <2>2, OwnerIs DEF select_mode, ReturnUnlocked
    <2>3. QED BY <2>1, <2>2
  <1>6. Leaving(hal, Owner) = {}
    BY <1>1, <1>2 DEF Leaving
  <1>7. /\ OutDevice(hal, Owner) = c.out_device /\ InDevice(hal, Owner) = c.in_device
        /\ ActiveOut(hal, Owner) = hal.active_output
        /\ ActiveIn(hal, Owner) = hal.active_input
        /\ Remaining(hal, Owner) = Running(hal)
    <2>1. Selected(hal, Owner) = c /\ \A S : ~Ending(hal, Owner, S)
      BY <1>1, <1>2, <1>6 DEF Selected, Ending
    <2> HIDE DEF c
    <2>2. QED
      BY <1>6, <2>1 DEF OutDevice, InDevice, ActiveOut, ActiveIn, Remaining
  <1> HIDE DEF c
  <1>8. SameSight
    BY <1>3, <1>4, <1>5, <1>7, PlainSight DEF SameSight, Sight, SameShown
  <1>9. Dormant'
    BY <1>1, <1>3, <1>4, DormantStep DEF SameShown
  <1>10. QED BY <1>8, <1>9 DEF AtomicStep

(* Into a call or out of one, or between modes outside calls.              *)
LEMMA AtomicSetMode ==
    ASSUME IInv, IInv', PathKept, Dormant, NEW t \in Threads, NEW mode \in ModeSet,
           adev_set_mode(t, mode)
    PROVE  AtomicStep
  <1>1. /\ th[t] = Idle /\ hw_lock = None /\ mode # hal.mode /\ handle' = handle
        /\ hal' = [hal EXCEPT !.mode = mode, !.in_call = @ /\ mode = "IN_CALL"]
    BY DEF adev_set_mode
  <1>2. hal \in HalState /\ hal' \in HalState /\ Echoes(hal)
    BY DEF IInv, TypeOK, PathKept
  <1>3. /\ hal'.mode = mode /\ hal'.out_device = hal.out_device
        /\ hal'.in_device = hal.in_device
        /\ hal'.active_output = hal.active_output /\ hal'.active_input = hal.active_input
        /\ hal'.out = hal.out /\ hal'.in = hal.in
    BY <1>1, <1>2 DEF HalState
  <1>4. Running(hal') = Running(hal)
    BY <1>3, RunningSame
  <1>5. Dormant'
    BY <1>1, <1>4, DormantStep
  <1>6. hal.in_call <=> hal.mode = "IN_CALL"
    <2>1. \A u \in Threads : th[u].op # "mode"
      BY <1>1, OwnerAlone DEF SoleOwner, Idle
    <2>2. QED BY <2>1 DEF IInv, HalInvariant, CallKept
  <1>7. CASE CrossesCall(hal, mode)
    <2> DEFINE S == {hal.active_output, hal.active_input}
               c == IF mode = "IN_CALL" THEN CallDevices(hal') ELSE hal'
    <2>1. /\ hw_lock' = t /\ th'[t].pc = "mode_out" /\ th'[t].op = "mode"
      BY <1>1, <1>7, ActiveTypes DEF adev_set_mode, Idle
    <2>2. Owner' = th'[t] /\ Plain(Owner)
      BY <1>1, <2>1, OwnerIs
    <2>3. Leaving(hal', Owner') = S
      BY <1>3, <2>1, <2>2 DEF Leaving
    <2>4. /\ OutDevice(hal', Owner') = c.out_device
          /\ InDevice(hal', Owner') = IF mode # "IN_CALL" /\ S \cap Running(hal) \cap Ins # {}
                                      THEN "NONE" ELSE c.in_device
          /\ ActiveOut(hal', Owner') = IF S \cap Running(hal) \cap Outs # {} THEN None
                                       ELSE hal.active_output
          /\ ActiveIn(hal', Owner') = IF S \cap Running(hal) \cap Ins # {} THEN None
                                      ELSE hal.active_input
          /\ Remaining(hal', Owner') = Running(hal) \ S
      <3>1. LET d == IF hal'.mode = "IN_CALL" THEN CallDevices(hal') ELSE hal' IN
            /\ OutDevice(hal', Owner') = d.out_device
            /\ InDevice(hal', Owner') = IF hal'.mode # "IN_CALL" /\ S \cap Running(hal') \cap Ins # {}
                                        THEN "NONE" ELSE d.in_device
            /\ ActiveOut(hal', Owner') = IF S \cap Running(hal') \cap Outs # {} THEN None
                                         ELSE hal'.active_output
            /\ ActiveIn(hal', Owner') = IF S \cap Running(hal') \cap Ins # {} THEN None
                                        ELSE hal'.active_input
            /\ Remaining(hal', Owner') = Running(hal') \ S
        BY <2>1, <2>2, <2>3, ModeSight
      <3>2. QED BY <1>3, <1>4, <3>1
    <2>5. /\ c.out_device = IF mode # "IN_CALL" THEN hal.out_device
                            ELSE IF hal.out_device = {"SPEAKER"} THEN {"EARPIECE"}
                            ELSE hal.out_device \ {"SPEAKER"}
          /\ c.in_device = IF mode = "IN_CALL" /\ hal.out_device = {"SPEAKER"}
                             THEN "BUILTIN_MIC" ELSE hal.in_device
      BY <1>2, <1>3, CallDevicesOf
    <2>6. "IN_CALL" \in {hal.mode, mode} /\ (mode = "IN_CALL" <=> hal.mode # "IN_CALL")
      <3>1. hal.in_call \in BOOLEAN
        BY <1>2 DEF HalState
      <3>2. CASE hal.in_call
        BY <1>6, <1>7, <3>1, <3>2 DEF CrossesCall
      <3>3. CASE ~hal.in_call
        BY <1>6, <1>7, <3>1, <3>3 DEF CrossesCall
      <3>4. QED BY <3>1, <3>2, <3>3
    <2>7. hal.active_output \in Outs \cup {None} /\ hal.active_input \in Ins \cup {None}
      BY <1>2 DEF HalState
    <2>8. S \cap Running(hal) \cap Ins = {hal.active_input} \cap Running(hal) \cap Ins
      BY <2>7, StreamsAssumption
    <2>9. /\ OutDevice(hal, Owner) = hal.out_device /\ InDevice(hal, Owner) = hal.in_device
          /\ ActiveOut(hal, Owner) = hal.active_output
          /\ ActiveIn(hal, Owner) = hal.active_input
          /\ Remaining(hal, Owner) = Running(hal)
      BY <2>2, PlainSight
    <2>10. Atomic!Stop({ActiveOut(hal, Owner), ActiveIn(hal, Owner)})
      BY <2>4, <2>9 DEF Atomic!Stop
    <2>11. Atomic!SetMode
      <3>1. OutDevice(hal', Owner') = IF mode # "IN_CALL" THEN hal.out_device
                            ELSE IF hal.out_device = {"SPEAKER"} THEN {"EARPIECE"}
                            ELSE hal.out_device \ {"SPEAKER"}
        BY <2>4, <2>5
      <3>2. InDevice(hal', Owner') =
              IF mode = "IN_CALL" /\ hal.out_device = {"SPEAKER"} THEN "BUILTIN_MIC"
              ELSE IF hal.mode = "IN_CALL"
                THEN IF mode = "IN_CALL" \/ {hal.active_input} \cap Running(hal) \cap Ins = {}
                       THEN hal.in_device ELSE "NONE"
              ELSE hal.in_device
        BY <2>4, <2>5, <2>6, <2>8
      <3> HIDE DEF S, c
      <3>3. QED
        BY <1>1, <1>3, <2>6, <2>9, <2>10, <3>1, <3>2 DEF Atomic!SetMode, Atomic!Unheard
    <2>12. QED BY <1>5, <2>11 DEF AtomicStep, Atomic!Next
  <1>8. CASE ~CrossesCall(hal, mode)
    <2>1. hw_lock' = None
      BY <1>1, <1>8 DEF adev_set_mode
    <2>2. GoesPlain(t)
      BY <1>1, <2>1 DEF GoesPlain, OwnsHw, Idle, ModePcs
    <2>3. "IN_CALL" \notin {hal.mode, mode}
      BY <1>1, <1>6, <1>8 DEF CrossesCall
    <2>4. Atomic!SetMode
      BY <1>1, <1>3, <1>4, <2>2, <2>3, PlainShown DEF Atomic!SetMode, Atomic!streams
    <2>5. QED BY <1>5, <2>4 DEF AtomicStep, Atomic!Next
  <1>9. QED BY <1>7, <1>8

(* The voice volume and the TTY mode are nothing to AtomicHal.             *)
LEMMA AtomicVolume ==
    ASSUME IInv, IInv', PathKept, Dormant, NEW t \in Threads,
           \/ \E volume \in Volumes : adev_set_voice_volume(t, volume)
           \/ store_voice_volume(t) \/ write_voice_volume(t)
    PROVE  AtomicStep
  <1>1. SamePaths(hal', hal)
    BY VolumeSame DEF SameActive
  <1>2. OutStays /\ InStays /\ handle' = handle /\ \A u \in Threads \ {t} : th'[u] = th[u]
    BY ActiveVolume DEF Still, Steady
  <1>3. SameShown(hal', hal)
    BY <1>1, <1>2, StillShown
  <1>4. \/ GoesPlain(t)
        \/ ~OwnsHw(th[t]) /\ hw_lock' = hw_lock
    <2>1. CASE \E volume \in Volumes : adev_set_voice_volume(t, volume)
      BY <2>1 DEF adev_set_voice_volume, OwnsHw, Idle, ModePcs
    <2>2. CASE store_voice_volume(t)
      <3>1. th[t].pc = "volume_store" /\ Goto(t, "volume_ctl") /\ hw_lock' = hw_lock
        BY <2>2 DEF store_voice_volume, At
      <3>2. OwnsHw(th[t]) /\ Plain(th[t])
        BY <3>1 DEF OwnsHw, ModePcs, Plain
      <3>3. Plain(th'[t])
        BY <3>1, ActiveTypes DEF Goto, ThreadState, Plain
      <3>4. QED BY <3>1, <3>2, <3>3, OwnerIs DEF GoesPlain
    <2>3. CASE write_voice_volume(t)
      <3>1. th[t].pc = "volume_ctl" /\ Plain(th[t])
        BY <2>3 DEF write_voice_volume, At, Plain
      <3>2. CASE th[t].op = "mode"
        BY <2>3, <3>1, <3>2 DEF write_voice_volume, GoesPlain, OwnsHw
      <3>3. CASE th[t].op # "mode"
        BY <2>3, <3>1, <3>3 DEF write_voice_volume, OwnsHw, ModePcs
      <3>4. QED BY <3>2, <3>3
    <2>4. QED BY <2>1, <2>2, <2>3
  <1>5. QED BY <1>2, <1>3, <1>4, OwnerQuiet

LEMMA AtomicTty ==
    ASSUME IInv, IInv', Dormant, NEW t \in Threads, NEW tty_mode \in TtySet,
           adev_set_parameters(t, tty_mode)
    PROVE  AtomicStep
  <1> DEFINE h == [hal EXCEPT !.tty_mode = tty_mode]
  <1>1. /\ th[t] = Idle /\ hw_lock = None /\ hw_lock' = None /\ handle' = handle
        /\ hal' = IF h.mode = "IN_CALL" THEN select_output_device(h) ELSE h
        /\ hal \in HalState
    BY ActiveTypes DEF adev_set_parameters
  <1>2. h \in HalState /\ SameRoles(h, hal) /\ SameEchoes(h, hal)
    BY <1>1, InputsAssumption DEF HalState, SameRoles, SameEchoes
  <1> HIDE DEF h
  <1>3. SameShown(h, hal)
    BY <1>2, RolesShown
  <1>4. SameShown(hal', hal)
    <2>1. CASE h.mode = "IN_CALL"
      <3>1. SameShown(hal', h)
        BY <1>1, <1>2, <2>1, SelectOutputPath, RolesShown
      <3>2. QED BY <1>3, <3>1 DEF SameShown
    <2>2. CASE h.mode # "IN_CALL"
      BY <1>1, <1>3, <2>2
    <2>3. QED BY <2>1, <2>2
  <1>5. GoesPlain(t)
    BY <1>1 DEF GoesPlain, OwnsHw, Idle, ModePcs
  <1>6. QED BY <1>1, <1>4, <1>5, OwnerQuiet

-----------------------------------------------------------------------------
(* Streams are made and freed in standby.                                  *)

LEMMA NewStreamShown ==
    ASSUME IInv, IInv', PathKept, Dormant, NEW s \in Streams, ~(s \in Running(hal)),
           s \in Outs => hal' = [hal EXCEPT !.out[s] = NewOut],
           s \notin Outs => \E d \in InDevices : hal' = [hal EXCEPT !.in[s] = NewIn(d)],
           \A r \in Streams \ {s} : handle'[r] = handle[r],
           Owner' = Owner
    PROVE  AtomicStep
  <1>1. hal \in HalState /\ Echoes(hal)
    BY ActiveTypes DEF PathKept
  <1>2. s # hal.active_output /\ s # hal.active_input
    BY <1>1, ActiveTypes, StreamsAssumption
       DEF Echoes, OutEchoes, InEchoes, Running, Streams
  <1>3. SamePaths(hal', hal)
    BY <1>2, NewStreamPath DEF SameActive
  <1>4. Running(hal') = Running(hal)
    <2>1. CASE s \in Outs
      <3>1. /\ \A o \in Outs : hal'.out[o] = IF o = s THEN NewOut ELSE hal.out[o]
            /\ hal'.in = hal.in
        BY <1>1, <2>1 DEF HalState
      <3>2. \A o \in Outs : hal'.out[o].standby = hal.out[o].standby
        <4>1. hal.out[s].standby = TRUE /\ NewOut.standby = TRUE
          BY <1>1, <2>1 DEF Running, HalState, OutState, NewOut
        <4>2. QED BY <3>1, <4>1
      <3>3. QED BY <3>1, <3>2, RunningSame
    <2>2. CASE s \notin Outs
      <3>0. s \in Ins
        BY <2>2 DEF Streams
      <3>1. PICK d \in InDevices : hal' = [hal EXCEPT !.in[s] = NewIn(d)]
        BY <2>2
      <3>2. /\ \A i \in Ins : hal'.in[i] = IF i = s THEN NewIn(d) ELSE hal.in[i]
            /\ hal'.out = hal.out
        BY <1>1, <3>1 DEF HalState
      <3>3. \A i \in Ins : hal'.in[i].standby = hal.in[i].standby
        <4>1. hal.in[s].standby = TRUE /\ NewIn(d).standby = TRUE
          BY <1>1, <3>0 DEF Running, HalState, InState, NewIn
        <4>2. QED BY <3>2, <4>1
      <3>4. QED BY <3>2, <3>3, RunningSame
    <2>3. QED BY <2>1, <2>2
  <1>5. SameShown(hal', hal)
    BY <1>3, <1>4 DEF SamePaths, SameShown
  <1>6. \A r \in Running(hal) : handle[r] # "closed" => handle'[r] # "closed"
    BY DEF Running, Streams
  <1>7. QED BY <1>5, <1>6, QuietAtomic

LEMMA AtomicOpen ==
    ASSUME IInv, IInv', PathKept, Dormant, NEW s \in Streams,
           \/ s \in Outs /\ adev_open_output_stream(s)
           \/ s \in Ins /\ adev_open_input_stream(s)
    PROVE  AtomicStep
  <1>1. /\ handle[s] = "closed" /\ handle' = [handle EXCEPT ![s] = "open"]
        /\ th' = th /\ hw_lock' = hw_lock
        /\ s \in Outs => hal' = [hal EXCEPT !.out[s] = NewOut]
        /\ s \notin Outs => \E d \in MicSet : hal' = [hal EXCEPT !.in[s] = NewIn(d)]
    BY StreamsAssumption DEF adev_open_output_stream, adev_open_input_stream
  <1>2. s \notin Running(hal)
    BY <1>1 DEF Dormant
  <1>3. \A r \in Streams \ {s} : handle'[r] = handle[r]
    BY <1>1, ActiveTypes
  <1>4. Owner' = Owner
    BY <1>1 DEF Owner
  <1>5. MicSet \subseteq InDevices
    BY InputsAssumption
  <1>6. QED BY <1>1, <1>2, <1>3, <1>4, <1>5, NewStreamShown

LEMMA AtomicFree ==
    ASSUME IInv, IInv', PathKept, Dormant, NEW t \in Threads, Free(t)
    PROVE  AtomicStep
  <1>0. PICK s \in Streams : th[t].tgt = s
    BY ActiveTypes DEF Free, At, WellFormed
  <1>1. th[t].pc = "free" /\ StandingBy(s) /\ Return(t) /\ hw_lock' = hw_lock
    BY <1>0, ActiveTypes DEF Free, At, WellFormed, IInv, HalInvariant, PcmKept
  <1>2. /\ s \in Outs => hal' = [hal EXCEPT !.out[s] = NewOut]
        /\ s \notin Outs => hal' = [hal EXCEPT !.in[s] = NewIn("BUILTIN_MIC")]
        /\ handle' = [handle EXCEPT ![s] = "closed"]
    BY <1>0 DEF Free
  <1>3. s \notin Running(hal)
    BY <1>1, StreamsAssumption DEF Running, StandingBy
  <1>4. \A r \in Streams \ {s} : handle'[r] = handle[r]
    BY <1>2, ActiveTypes
  <1>5. ~OwnsHw(th[t]) /\ \A u \in Threads \ {t} : th'[u] = th[u]
    BY <1>1, Returned DEF OwnsHw, ModePcs
  <1>6. Owner' = Owner
    BY <1>1, <1>5, OwnerStays
  <1>7. "BUILTIN_MIC" \in InDevices
    BY DEF InDevices
  <1>8. QED BY <1>2, <1>3, <1>4, <1>6, <1>7, NewStreamShown

-----------------------------------------------------------------------------
(* Every step together.                                                    *)

LEMMA AtomicContinue ==
    ASSUME IInv, IInv', PathKept, Dormant, NEW t \in Threads, Continue(t)
    PROVE  AtomicStep
  <1>1. CASE out_write(t) \/ in_read(t) \/ effect_refused(t) \/ write_io(t) \/ read_io(t)
             \/ write_tail(t)
    BY <1>1, AtomicTransfer, AtomicWriteTail
  <1>2. CASE start_output_stream(t) \/ start_output_fails(t) \/ out_standby(t)
    BY <1>2, AtomicStartOutput, AtomicOutputFails, AtomicOutStandby
  <1>3. CASE \E devices \in RouteSets : out_set_parameters(t, devices)
    BY <1>3, AtomicRoute
  <1>4. CASE start_input_stream(t) \/ start_input_fails(t) \/ in_standby(t)
             \/ input_standby(t)
    BY <1>4, AtomicStartInput, AtomicInStandby, AtomicInputStandby
  <1>5. CASE \/ \E source \in Sources \cup {None}, device \in MicSet \cup {None} :
                  in_set_parameters(t, source, device)
             \/ \E effect \in Effects : in_add_audio_effect(t, effect)
             \/ \E effect \in Effects, described \in BOOLEAN :
                  in_remove_audio_effect(t, effect, described)
    BY <1>5, AtomicInputCalls
  <1>6. CASE force_output_standby(t) \/ force_input_standby(t) \/ select_mode(t)
    BY <1>6, AtomicForceOutput, AtomicForceInput, AtomicSelectMode
  <1>7. CASE store_voice_volume(t) \/ write_voice_volume(t) \/ Free(t)
    BY <1>7, AtomicVolume, AtomicFree
  <1>8. QED BY <1>1, <1>2, <1>3, <1>4, <1>5, <1>6, <1>7 DEF Continue

LEMMA AtomicBegin ==
    ASSUME IInv, IInv', PathKept, Dormant, NEW t \in Threads, Begin(t)
    PROVE  AtomicStep
  <1>1. ASSUME NEW o \in Outs, CallOut(t, o) \/ adev_close_output_stream(t, o)
        PROVE  AtomicStep
    BY <1>1, AtomicCall DEF Streams
  <1>2. ASSUME NEW i \in Ins, CallIn(t, i) \/ adev_close_input_stream(t, i)
        PROVE  AtomicStep
    BY <1>2, AtomicCall DEF Streams
  <1>3. CASE \/ \E mode \in ModeSet : adev_set_mode(t, mode)
             \/ \E volume \in Volumes : adev_set_voice_volume(t, volume)
             \/ \E tty_mode \in TtySet : adev_set_parameters(t, tty_mode)
    BY <1>3, AtomicSetMode, AtomicVolume, AtomicTty
  <1>4. QED BY <1>1, <1>2, <1>3 DEF Begin

LEMMA AtomicNext ==
    ASSUME IInv, IInv', PathKept, Dormant, [Next]_vars PROVE AtomicStep
  <1>1. CASE \E t \in Threads : Begin(t) \/ Continue(t)
    BY <1>1, AtomicBegin, AtomicContinue
  <1>2. CASE \E o \in Outs : adev_open_output_stream(o)
    BY <1>2, AtomicOpen DEF Streams
  <1>3. CASE \E i \in Ins : adev_open_input_stream(i)
    BY <1>3, AtomicOpen DEF Streams
  <1>4. CASE UNCHANGED vars
    <2>1. hal' = hal /\ handle' = handle /\ Owner' = Owner
      BY <1>4 DEF vars, Owner
    <2>2. Dormant'
      BY <2>1 DEF Dormant, Running
    <2>3. SameSight
      BY <2>1 DEF SameSight, Sight
    <2>4. QED BY <2>2, <2>3 DEF AtomicStep
  <1>5. QED BY <1>1, <1>2, <1>3, <1>4 DEF Next

LEMMA AtomicInit == Init => Dormant /\ Atomic!Init
  <1> SUFFICES ASSUME Init PROVE Dormant /\ Atomic!Init
    OBVIOUS
  <1>1. hal \in HalState /\ Echoes(hal)
    BY InitInv, PathInit DEF IInv, TypeOK, PathKept
  <1>2. adev_open \in HalState
    BY OpenState
  <1>3. SameShown(hal, adev_open)
    BY <1>2, SelectOutputPath, RolesShown DEF Init
  <1>4. /\ adev_open.mode = "NORMAL" /\ adev_open.out_device = {"SPEAKER"}
        /\ adev_open.in_device = "BUILTIN_MIC"
        /\ adev_open.active_output = None /\ adev_open.active_input = None
    BY DEF adev_open
  <1>5. Running(hal) = {}
    <2>1. Running(adev_open) = {}
      BY DEF Running, adev_open, NewOut, NewIn
    <2>2. QED BY <1>3, <2>1 DEF SameShown
  <1>6. Plain(Owner)
    BY DEF Owner, Init, Plain, Idle
  <1>7. Dormant
    BY <1>5 DEF Dormant
  <1>8. /\ OutDevice(hal, Owner) = {"SPEAKER"} /\ InDevice(hal, Owner) = "BUILTIN_MIC"
        /\ ActiveOut(hal, Owner) = None /\ ActiveIn(hal, Owner) = None
        /\ Remaining(hal, Owner) = {}
    BY <1>3, <1>4, <1>5, <1>6, PlainSight DEF SameShown
  <1>9. QED BY <1>3, <1>4, <1>7, <1>8 DEF Atomic!Init, SameShown

(* Every interleaving of the HAL's calls does to the mode, the devices and *)
(* the streams what the calls would do one by one (AtomicHal), for any     *)
(* number of streams and threads.  What the owner of adev->lock has left   *)
(* to do counts as done: no step of another thread can come in between and *)
(* show that it was not.                                                   *)
THEOREM CallsAreAtomic == Spec => CallsAtomic
  <1>1. Init => Dormant /\ Atomic!Init
    BY AtomicInit
  <1>2. IInv /\ IInv' /\ PathKept /\ Dormant /\ [Next]_vars
          => Dormant' /\ [Atomic!Next]_<<Atomic!device, Atomic!streams>>
    BY AtomicNext DEF AtomicStep, SameSight, Sight, Atomic!device, Atomic!streams
  <1>3. Spec => [](IInv /\ PathKept)
    BY PathInvariance
  <1>4. QED BY <1>1, <1>2, <1>3, PTL DEF Spec, CallsAtomic, Atomic!Spec
=============================================================================
