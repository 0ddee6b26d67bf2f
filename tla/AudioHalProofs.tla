--------------------------- MODULE AudioHalProofs ---------------------------
(***************************************************************************)
(* What the functions of audio_hw.c that run under adev->lock preserve     *)
(* (the operators of AudioRoutes and AudioHal on a device), the inductive  *)
(* invariant of AudioHal, and the theorems it gives.                       *)
(***************************************************************************)
EXTENDS AudioHal, TLAPS

(* Route tables set controls to settings.                                  *)
Table(r) == \A c \in DOMAIN r : r[c] \in Settings

OutTables == [Voice : Settings, ExtAmp : Settings, PreDriv : Settings, Headset : Settings]
MicTables == [LeftMic : Settings, Capture : Settings]
InTables == [LeftMic : Settings, Capture : Settings, TX1 : Settings]
CallTables == [Voice : Settings, ExtAmp : Settings, LeftMic : Settings]

(* A record of settings is a route table.                                  *)
LEMMA TableTypes ==
    ASSUME NEW r \in OutTables \cup MicTables \cup InTables \cup CallTables
    PROVE  Table(r)
  <1>1. CASE r \in OutTables
    BY <1>1 DEF OutTables, Table
  <1>2. CASE r \in MicTables
    BY <1>2 DEF MicTables, Table
  <1>3. CASE r \in InTables
    BY <1>3 DEF InTables, Table
  <1>4. CASE r \in CallTables
    BY <1>4 DEF CallTables, Table
  <1> QED
    BY <1>1, <1>2, <1>3, <1>4

(* Every table of audio_hw.c sets controls to settings.                    *)
LEMMA Tables ==
    /\ Table(route_standby) /\ Table(route_speaker)
    /\ Table(route_speaker_headset) /\ Table(route_headset)
    /\ Table(route_main_mic) /\ Table(route_headset_mic) /\ Table(route_input_standby)
    /\ Table(route_voicecall_headset) /\ Table(route_voicecall_speaker)
    /\ Table(route_voicecall_earpiece)
  <1>1. /\ route_standby \in OutTables /\ route_speaker \in OutTables
        /\ route_speaker_headset \in OutTables /\ route_headset \in OutTables
    BY DEF OutTables, Settings, route_standby, route_speaker, route_speaker_headset,
       route_headset
  <1>2. route_main_mic \in MicTables
    BY DEF MicTables, Settings, route_main_mic
  <1>3. route_headset_mic \in InTables /\ route_input_standby \in InTables
    BY DEF InTables, Settings, route_headset_mic, route_input_standby
  <1>4. /\ route_voicecall_headset \in CallTables /\ route_voicecall_speaker \in CallTables
        /\ route_voicecall_earpiece \in CallTables
    BY DEF CallTables, Settings, route_voicecall_headset, route_voicecall_speaker,
       route_voicecall_earpiece
  <1> QED
    BY <1>1, <1>2, <1>3, <1>4, TableTypes

(* Whatever the devices, the table chosen for them is a table.             *)
LEMMA TableChoice ==
    ASSUME NEW devices, NEW device
    PROVE  Table(OutputRoute(devices)) /\ Table(IncallRoute(devices)) /\ Table(InputRoute(device))
  BY Tables DEF OutputRoute, IncallRoute, InputRoute

(* Writing a table to the mixer gives a mixer.                             *)
LEMMA RouteType ==
    ASSUME NEW m \in [Controls -> Settings], NEW r, Table(r)
    PROVE  set_route_by_array(m, r) \in [Controls -> Settings]
  BY DEF set_route_by_array, Table

(* Writing the table of a call gives a mixer.                              *)
LEMMA IncallType ==
    ASSUME NEW m \in [Controls -> Settings], NEW devices
    PROVE  set_incall_device(m, devices) \in [Controls -> Settings]
  BY RouteType, TableChoice DEF set_incall_device

(* What the operators on the device leave alone: the fields that decide on *)
(* calls and active streams, and each stream's standby and pcm.            *)
SameDevice(r, h) ==
    /\ r.mode = h.mode /\ r.in_call = h.in_call
    /\ r.active_output = h.active_output /\ r.active_input = h.active_input
SameOutputs(r, h) ==
    \A o \in Outs : r.out[o].standby = h.out[o].standby /\ r.out[o].pcm = h.out[o].pcm
SameInputs(r, h) ==
    \A i \in Ins : r.in[i].standby = h.in[i].standby /\ r.in[i].pcm = h.in[i].pcm

(* select_output_device writes the mixer and nothing the calls decide on.  *)
LEMMA SelectOutput ==
    ASSUME NEW h \in HalState
    PROVE  LET r == select_output_device(h) IN
           /\ r \in HalState
           /\ r.mode = h.mode /\ r.in_call = h.in_call /\ r.voice_volume = h.voice_volume
           /\ r.active_output = h.active_output /\ r.active_input = h.active_input
           /\ r.out = h.out /\ r.in = h.in
  <1> DEFINE rx == RxDevices(h.mode, h.tty_mode, h.out_device)
             routed == rx \cap RoutedDevices # {}
             m == IF routed THEN set_route_by_array(h.mixer, OutputRoute(rx)) ELSE h.mixer
             n == IF h.mode = "IN_CALL" THEN set_incall_device(m, h.out_device) ELSE m
             d == IF routed THEN 0 ELSE h.downlink
  <1>1. h.mixer \in [Controls -> Settings] /\ h.downlink \in 0..MAX_VOICE_VOLUME
    BY DEF HalState
  <1>2. m \in [Controls -> Settings]
    BY <1>1, RouteType, TableChoice
  <1>3. n \in [Controls -> Settings]
    BY <1>2, IncallType
  <1>4. d \in 0..MAX_VOICE_VOLUME
    BY <1>1 DEF MAX_VOICE_VOLUME
  <1>5. select_output_device(h) = [h EXCEPT !.downlink = d, !.mixer = n]
    BY DEF select_output_device
  <1> HIDE DEF d, n
  <1> QED
    BY <1>3, <1>4, <1>5, ZenonT(90) DEF HalState

(* select_input_device writes the mixer and nothing the calls decide on.   *)
LEMMA SelectInput ==
    ASSUME NEW h \in HalState
    PROVE  LET r == select_input_device(h) IN
           /\ r \in HalState
           /\ r.mode = h.mode /\ r.in_call = h.in_call
           /\ r.active_output = h.active_output /\ r.active_input = h.active_input
           /\ r.out = h.out /\ r.in = h.in
  <1> DEFINE m == IF h.in_device \in MicDevices
                    THEN set_route_by_array(h.mixer, InputRoute(h.in_device)) ELSE h.mixer
  <1>1. m \in [Controls -> Settings]
    BY RouteType, TableChoice DEF HalState
  <1>2. select_input_device(h) = [h EXCEPT !.mixer = m]
    BY DEF select_input_device
  <1> HIDE DEF m
  <1> QED
    BY <1>1, <1>2 DEF HalState

(* do_output_standby leaves its output in standby and the others alone.    *)
LEMMA OutputStandby ==
    ASSUME NEW h \in HalState, NEW o \in Outs
    PROVE  LET r == do_output_standby(h, o) IN
           /\ r \in HalState
           /\ r.mode = h.mode /\ r.in_call = h.in_call
           /\ r.active_output = IF h.out[o].standby THEN h.active_output ELSE None
           /\ r.active_input = h.active_input
           /\ r.in = h.in
           /\ r.out[o].standby
           /\ \A p \in Outs \ {o} : r.out[p] = h.out[p]
  <1>1. CASE h.out[o].standby
    BY <1>1 DEF do_output_standby
  <1>2. CASE ~h.out[o].standby
    <2> DEFINE quiet == h.mode # "IN_CALL" /\ h.active_input = None
               m == IF quiet THEN set_route_by_array(h.mixer, route_standby) ELSE h.mixer
               d == IF quiet THEN 0 ELSE h.downlink
    <2>1. m \in [Controls -> Settings]
      BY RouteType, Tables DEF HalState
    <2>2. d \in 0..MAX_VOICE_VOLUME
      BY DEF HalState, MAX_VOICE_VOLUME
    <2> DEFINE outs == [h.out EXCEPT ![o] = NewOut]
    <2>3. /\ outs \in [Outs -> OutState] /\ outs[o].standby
          /\ \A p \in Outs \ {o} : outs[p] = h.out[p]
      BY DEF HalState, NewOut, OutState, OutPcm
    <2>4. do_output_standby(h, o) = [h EXCEPT !.mixer = m, !.downlink = d,
                                     !.active_output = None, !.out = outs]
      BY <1>2 DEF do_output_standby
    <2> HIDE DEF m, d, outs
    <2>5. do_output_standby(h, o) \in HalState
      BY <2>1, <2>2, <2>3, <2>4, ZenonT(90) DEF HalState
    <2> QED
      BY <1>2, <2>3, <2>4, <2>5 DEF HalState
  <1> QED
    BY <1>1, <1>2

(* put_echo_reference moves references only: no stream starts or stops.    *)
LEMMA PutEcho ==
    ASSUME NEW h \in HalState, NEW ref
    PROVE  LET r == put_echo_reference(h, ref) IN
           /\ r \in HalState
           /\ SameDevice(r, h) /\ SameOutputs(r, h) /\ r.in = h.in
  <1>1. CASE ref = None \/ ref # h.echo_reference
    BY <1>1 DEF put_echo_reference, SameDevice, SameOutputs
  <1>2. CASE ref # None /\ ref = h.echo_reference
    <2> DEFINE live == h.live \ {ref}
               outs == [o \in Outs |-> IF o = h.active_output /\ h.out[o].echo = ref
                                         THEN [h.out[o] EXCEPT !.echo = None] ELSE h.out[o]]
    <2>1. live \in SUBSET Refs
      BY DEF HalState
    <2>2. /\ outs \in [Outs -> OutState]
          /\ \A p \in Outs : outs[p].standby = h.out[p].standby /\ outs[p].pcm = h.out[p].pcm
      BY DEF HalState, OutState
    <2>3. put_echo_reference(h, ref) = [h EXCEPT !.live = live, !.echo_reference = None,
                                                 !.out = outs]
      BY <1>2 DEF put_echo_reference
    <2> HIDE DEF live, outs
    <2> QED
      BY ZenonT(90), <2>1, <2>2, <2>3 DEF HalState, SameDevice, SameOutputs
  <1> QED
    BY <1>1, <1>2

(* get_echo_reference moves references only: no stream starts or stops.    *)
LEMMA GetEcho ==
    ASSUME NEW h \in HalState, NEW i \in Ins, NEW ref \in Refs \cup {None}
    PROVE  LET r == get_echo_reference(h, i, ref) IN
           /\ r \in HalState
           /\ SameDevice(r, h) /\ SameOutputs(r, h) /\ SameInputs(r, h)
  <1> DEFINE p == put_echo_reference(h, h.echo_reference)
  <1>1. p \in HalState /\ SameDevice(p, h) /\ SameOutputs(p, h) /\ p.in = h.in
    BY PutEcho
  <1> HIDE DEF p
  <1>2. CASE h.active_output = None \/ ref = None
    BY <1>1, <1>2 DEF get_echo_reference, SameDevice, SameOutputs, SameInputs, p
  <1>3. CASE h.active_output # None /\ ref # None
    <2> DEFINE live == p.live \cup {ref}
               o == h.active_output
               outs == [p.out EXCEPT ![o].echo = ref]
               ins == [p.in EXCEPT ![i].echo = ref]
    <2>1. live \in SUBSET Refs
      BY <1>1, <1>3 DEF HalState
    <2>2. o \in Outs
      BY <1>3 DEF HalState
    <2> HIDE DEF o
    <2>3. /\ outs \in [Outs -> OutState]
          /\ \A q \in Outs : outs[q].standby = p.out[q].standby /\ outs[q].pcm = p.out[q].pcm
      BY <1>1, <2>2 DEF HalState, OutState
    <2>4. /\ ins \in [Ins -> InState]
          /\ \A j \in Ins : ins[j].standby = p.in[j].standby /\ ins[j].pcm = p.in[j].pcm
      BY <1>1 DEF HalState, InState
    <2>5. get_echo_reference(h, i, ref) =
            [p EXCEPT !.live = live, !.echo_reference = ref, !.out = outs, !.in = ins]
      BY <1>3 DEF get_echo_reference, p, o
    <2> HIDE DEF live, outs, ins
    <2>6. get_echo_reference(h, i, ref) \in HalState
      BY <1>1, <2>1, <2>3, <2>4, <2>5, ZenonT(90) DEF HalState
    <2>7. LET r == get_echo_reference(h, i, ref) IN
          SameDevice(r, p) /\ r.out = outs /\ r.in = ins
      BY <1>1, <2>5 DEF HalState, SameDevice
    <2> QED
      BY <1>1, <2>3, <2>4, <2>6, <2>7 DEF SameDevice, SameOutputs, SameInputs
  <1> QED
    BY <1>2, <1>3

(* do_input_standby leaves its input in standby and the others alone.      *)
LEMMA InputStandby ==
    ASSUME NEW h \in HalState, NEW i \in Ins
    PROVE  LET r == do_input_standby(h, i) IN
           /\ r \in HalState
           /\ r.mode = h.mode /\ r.in_call = h.in_call
           /\ r.active_output = h.active_output
           /\ r.active_input = IF h.in[i].standby THEN h.active_input ELSE None
           /\ SameOutputs(r, h)
           /\ r.in[i].standby
           /\ \A j \in Ins \ {i} : r.in[j] = h.in[j]
  <1>1. CASE h.in[i].standby
    BY <1>1 DEF do_input_standby, SameOutputs
  <1>2. CASE ~h.in[i].standby
    <2> DEFINE ins1 == [h.in EXCEPT ![i].pcm = "null"]
               dev == IF h.mode = "IN_CALL" THEN h.in_device ELSE "NONE"
               m == IF h.mode = "IN_CALL" THEN h.mixer
                    ELSE set_route_by_array(h.mixer, route_input_standby)
               h2 == [h EXCEPT !.in = ins1, !.active_input = None,
                               !.in_device = dev, !.mixer = m]
               h3 == put_echo_reference(h2, h.in[i].echo)
               ins3 == [h3.in EXCEPT ![i].echo = None, ![i].standby = TRUE]
    <2>1. /\ ins1 \in [Ins -> InState]
          /\ \A j \in Ins \ {i} : ins1[j] = h.in[j]
      BY DEF HalState, InState, OutPcm
    <2>2. dev \in InDevices
      BY DEF HalState, InDevices
    <2>3. m \in [Controls -> Settings]
      BY RouteType, Tables DEF HalState
    <2> HIDE DEF ins1, dev, m
    <2>4. /\ h2 \in HalState
          /\ h2.mode = h.mode /\ h2.in_call = h.in_call /\ h2.active_output = h.active_output
          /\ h2.active_input = None /\ h2.out = h.out /\ h2.in = ins1
      BY <2>1, <2>2, <2>3 DEF HalState
    <2>5. do_input_standby(h, i) =
            [h3 EXCEPT !.in[i].echo = None, !.in[i].standby = TRUE]
      <3> DEFINE a == [h EXCEPT !.in[i].pcm = "null", !.active_input = None]
                 b == IF h.mode = "IN_CALL" THEN a
                      ELSE [a EXCEPT !.in_device = "NONE",
                               !.mixer = set_route_by_array(@, route_input_standby)]
      <3>1. b = h2
        BY DEF HalState, h2, ins1, dev, m
      <3>2. do_input_standby(h, i) =
              [put_echo_reference(b, h.in[i].echo) EXCEPT !.in[i].echo = None,
                                                          !.in[i].standby = TRUE]
        BY <1>2 DEF do_input_standby
      <3> QED
        BY <3>1, <3>2
    <2>6. h3 \in HalState /\ SameDevice(h3, h2) /\ SameOutputs(h3, h2) /\ h3.in = h2.in
      BY <2>4, PutEcho
    <2> HIDE DEF h2, h3
    <2>7. /\ ins3 \in [Ins -> InState] /\ ins3[i].standby
          /\ \A j \in Ins \ {i} : ins3[j] = h3.in[j]
      <3>1. h3.in \in [Ins -> InState]
        BY <2>6 DEF HalState
      <3>2. [h3.in[i] EXCEPT !.echo = None, !.standby = TRUE] \in InState
        BY <3>1 DEF InState
      <3>3. ins3 = [h3.in EXCEPT ![i] = [h3.in[i] EXCEPT !.echo = None, !.standby = TRUE]]
        BY <3>1
      <3>4. [h3.in[i] EXCEPT !.echo = None, !.standby = TRUE].standby
        BY <3>1 DEF InState
      <3> QED
        BY <3>1, <3>2, <3>3, <3>4
    <2>8. do_input_standby(h, i) = [h3 EXCEPT !.in = ins3]
      BY <2>5, <2>6 DEF HalState
    <2> HIDE DEF ins3
    <2>9. do_input_standby(h, i) \in HalState
      BY <2>6, <2>7, <2>8 DEF HalState
    <2> QED
      BY <1>2, <2>1, <2>4, <2>6, <2>7, <2>8, <2>9, SMTT(40) DEF HalState, SameDevice, SameOutputs
  <1> QED
    BY <1>1, <1>2

(* What start_output_stream does before pcm_open starts no stream.         *)
LEMMA Prepare ==
    ASSUME NEW h \in HalState, NEW o \in Outs
    PROVE  LET r == PrepareOutput(h, o) IN
           /\ r \in HalState
           /\ r.mode = h.mode /\ r.in_call = h.in_call
           /\ r.active_output = o /\ r.active_input = h.active_input
           /\ r.out = h.out /\ r.in = h.in
  <1> DEFINE a == [h EXCEPT !.active_output = o]
  <1>1. /\ a \in HalState
        /\ a.mode = h.mode /\ a.in_call = h.in_call
        /\ a.active_output = o /\ a.active_input = h.active_input
        /\ a.out = h.out /\ a.in = h.in
    BY DEF HalState
  <1>2. PrepareOutput(h, o) = IF h.mode # "IN_CALL" THEN select_output_device(a) ELSE a
    BY DEF PrepareOutput
  <1> HIDE DEF a
  <1> QED
    BY <1>1, <1>2, SelectOutput

(* An output that started is out of standby with its pcm open; no other    *)
(* stream changes that.                                                    *)
LEMMA OutputStart ==
    ASSUME NEW h \in HalState, NEW o \in Outs
    PROVE  LET r == OutputStarted(h, o) IN
           /\ r \in HalState
           /\ r.mode = h.mode /\ r.in_call = h.in_call
           /\ r.active_output = o /\ r.active_input = h.active_input
           /\ ~r.out[o].standby /\ r.out[o].pcm = "open"
           /\ \A p \in Outs \ {o} : r.out[p] = h.out[p]
           /\ r.in = h.in
  <1> DEFINE p == PrepareOutput(h, o)
             echo == IF p.echo_reference # None THEN p.echo_reference ELSE p.out[o].echo
             new == [standby |-> FALSE, pcm |-> "open", echo |-> echo]
             outs == [p.out EXCEPT ![o] = new]
  <1>1. /\ p \in HalState
        /\ p.mode = h.mode /\ p.in_call = h.in_call
        /\ p.active_output = o /\ p.active_input = h.active_input
        /\ p.out = h.out /\ p.in = h.in
    BY Prepare
  <1> HIDE DEF p
  <1>2. OutputStarted(h, o) = [p EXCEPT !.out = outs]
    BY <1>1 DEF OutputStarted, p, HalState
  <1>3. echo \in Refs \cup {None}
    BY <1>1 DEF HalState, OutState
  <1> HIDE DEF echo
  <1>4. new \in OutState /\ ~new.standby /\ new.pcm = "open"
    BY <1>3 DEF OutState, OutPcm
  <1> HIDE DEF new
  <1>5. p.out \in [Outs -> OutState]
    BY <1>1 DEF HalState
  <1>6. /\ outs \in [Outs -> OutState] /\ outs[o] = new
        /\ \A q \in Outs \ {o} : outs[q] = h.out[q]
    BY <1>1, <1>4, <1>5
  <1> HIDE DEF outs
  <1>7. OutputStarted(h, o) \in HalState
    BY <1>1, <1>2, <1>6 DEF HalState
  <1> QED
    BY <1>1, <1>2, <1>4, <1>6, <1>7 DEF HalState

(* An output that failed to start is not active; no stream has started.    *)
LEMMA OutputFail ==
    ASSUME NEW h \in HalState, NEW o \in Outs
    PROVE  LET r == OutputFailed(h, o) IN
           /\ r \in HalState
           /\ r.mode = h.mode /\ r.in_call = h.in_call
           /\ r.active_output = None /\ r.active_input = h.active_input
           /\ r.out[o].standby = h.out[o].standby
           /\ \A p \in Outs \ {o} : r.out[p] = h.out[p]
           /\ r.in = h.in
  <1> DEFINE p == PrepareOutput(h, o)
             outs == [p.out EXCEPT ![o].pcm = "stale"]
  <1>1. /\ p \in HalState
        /\ p.mode = h.mode /\ p.in_call = h.in_call
        /\ p.active_output = o /\ p.active_input = h.active_input
        /\ p.out = h.out /\ p.in = h.in
    BY Prepare
  <1> HIDE DEF p
  <1>2. OutputFailed(h, o) = [p EXCEPT !.active_output = None, !.out = outs]
    BY <1>1 DEF OutputFailed, p, HalState
  <1>3. p.out \in [Outs -> OutState]
    BY <1>1 DEF HalState
  <1>4. /\ outs \in [Outs -> OutState] /\ outs[o].standby = h.out[o].standby
        /\ \A q \in Outs \ {o} : outs[q] = h.out[q]
    BY <1>1, <1>3 DEF OutState, OutPcm
  <1> HIDE DEF outs
  <1>5. OutputFailed(h, o) \in HalState
    BY <1>1, <1>2, <1>4 DEF HalState
  <1> QED
    BY <1>1, <1>2, <1>4, <1>5 DEF HalState

(* What start_input_stream does before pcm_open starts no stream.          *)
LEMMA PrepareIn ==
    ASSUME NEW h \in HalState, NEW i \in Ins, NEW ref \in Refs \cup {None}
    PROVE  LET r == PrepareInput(h, i, ref) IN
           /\ r \in HalState
           /\ r.mode = h.mode /\ r.in_call = h.in_call
           /\ r.active_output = h.active_output /\ r.active_input = i
           /\ SameOutputs(r, h) /\ SameInputs(r, h)
  <1> DEFINE a == [h EXCEPT !.active_input = i]
             d == [h EXCEPT !.active_input = i, !.in_device = h.in[i].device]
             b == IF h.mode # "IN_CALL" THEN select_input_device(d) ELSE a
  <1>1. h.in[i].device \in InDevices
    BY DEF HalState, InState
  <1>2. /\ a \in HalState /\ d \in HalState
        /\ d.mode = h.mode /\ d.in_call = h.in_call /\ d.active_output = h.active_output
        /\ d.active_input = i /\ d.out = h.out /\ d.in = h.in
        /\ a.mode = h.mode /\ a.in_call = h.in_call /\ a.active_output = h.active_output
        /\ a.active_input = i /\ a.out = h.out /\ a.in = h.in
    BY <1>1 DEF HalState
  <1>3. PrepareInput(h, i, ref) =
          IF NeedsReference(h, i) THEN get_echo_reference(b, i, ref) ELSE b
    BY DEF PrepareInput
  <1> HIDE DEF a, d
  <1>4. /\ b \in HalState
        /\ b.mode = h.mode /\ b.in_call = h.in_call /\ b.active_output = h.active_output
        /\ b.active_input = i /\ b.out = h.out /\ b.in = h.in
    BY <1>2, SelectInput
  <1> HIDE DEF b
  <1> QED
    BY <1>3, <1>4, GetEcho DEF SameDevice, SameOutputs, SameInputs

(* An input that started is out of standby with its pcm open; no other     *)
(* stream changes that.                                                    *)
LEMMA InputStart ==
    ASSUME NEW h \in HalState, NEW i \in Ins, NEW ref \in Refs \cup {None}
    PROVE  LET r == InputStarted(h, i, ref) IN
           /\ r \in HalState
           /\ r.mode = h.mode /\ r.in_call = h.in_call
           /\ r.active_output = h.active_output /\ r.active_input = i
           /\ SameOutputs(r, h)
           /\ ~r.in[i].standby /\ r.in[i].pcm = "open"
           /\ \A j \in Ins \ {i} :
                r.in[j].standby = h.in[j].standby /\ r.in[j].pcm = h.in[j].pcm
  <1> DEFINE p == PrepareInput(h, i, ref)
             new == [p.in[i] EXCEPT !.pcm = "open", !.standby = FALSE]
             ins == [p.in EXCEPT ![i] = new]
  <1>1. /\ p \in HalState
        /\ p.mode = h.mode /\ p.in_call = h.in_call
        /\ p.active_output = h.active_output /\ p.active_input = i
        /\ SameOutputs(p, h) /\ SameInputs(p, h)
    BY PrepareIn
  <1> HIDE DEF p
  <1>2. InputStarted(h, i, ref) = [p EXCEPT !.in = ins]
    BY <1>1 DEF InputStarted, p, HalState
  <1>3. p.in \in [Ins -> InState]
    BY <1>1 DEF HalState
  <1>4. new \in InState /\ ~new.standby /\ new.pcm = "open"
    BY <1>3 DEF InState, OutPcm
  <1> HIDE DEF new
  <1>5. /\ ins \in [Ins -> InState] /\ ins[i] = new
        /\ \A j \in Ins \ {i} : ins[j] = p.in[j]
    BY <1>3, <1>4
  <1> HIDE DEF ins
  <1>6. InputStarted(h, i, ref) \in HalState
    BY <1>1, <1>2, <1>5 DEF HalState
  <1>7. LET r == InputStarted(h, i, ref) IN
        SameDevice(r, p) /\ r.out = p.out /\ r.in = ins
    BY <1>1, <1>2 DEF HalState, SameDevice
  <1> QED
    BY <1>1, <1>4, <1>5, <1>6, <1>7 DEF SameDevice, SameOutputs, SameInputs

(* An input that failed to start is not active; no stream has started.     *)
LEMMA InputFail ==
    ASSUME NEW h \in HalState, NEW i \in Ins, NEW ref \in Refs \cup {None}
    PROVE  LET r == InputFailed(h, i, ref) IN
           /\ r \in HalState
           /\ r.mode = h.mode /\ r.in_call = h.in_call
           /\ r.active_output = h.active_output /\ r.active_input = None
           /\ SameOutputs(r, h)
           /\ r.in[i].standby = h.in[i].standby
           /\ \A j \in Ins \ {i} :
                r.in[j].standby = h.in[j].standby /\ r.in[j].pcm = h.in[j].pcm
  <1> DEFINE p == PrepareInput(h, i, ref)
             new == [p.in[i] EXCEPT !.pcm = "stale"]
             ins == [p.in EXCEPT ![i] = new]
  <1>1. /\ p \in HalState
        /\ p.mode = h.mode /\ p.in_call = h.in_call
        /\ p.active_output = h.active_output /\ p.active_input = i
        /\ SameOutputs(p, h) /\ SameInputs(p, h)
    BY PrepareIn
  <1> HIDE DEF p
  <1>2. InputFailed(h, i, ref) = [p EXCEPT !.active_input = None, !.in = ins]
    BY <1>1 DEF InputFailed, p, HalState
  <1>3. p.in \in [Ins -> InState]
    BY <1>1 DEF HalState
  <1>4. new \in InState /\ new.standby = p.in[i].standby
    BY <1>3 DEF InState, OutPcm
  <1> HIDE DEF new
  <1>5. /\ ins \in [Ins -> InState] /\ ins[i] = new
        /\ \A j \in Ins \ {i} : ins[j] = p.in[j]
    BY <1>3, <1>4
  <1> HIDE DEF ins
  <1>6. InputFailed(h, i, ref) \in HalState
    BY ZenonT(90), <1>1, <1>2, <1>5 DEF HalState
  <1>7. LET r == InputFailed(h, i, ref) IN
        /\ r.mode = p.mode /\ r.in_call = p.in_call /\ r.active_output = p.active_output
        /\ r.active_input = None /\ r.out = p.out /\ r.in = ins
    BY <1>1, <1>2 DEF HalState
  <1> QED
    BY <1>1, <1>4, <1>5, <1>6, <1>7 DEF SameOutputs, SameInputs

-----------------------------------------------------------------------------
(* The inductive invariant: the types, and who holds what in which place   *)
(* of which call.                                                          *)
IInv == TypeOK /\ HalInvariant

(* Only t moves.                                                           *)
Moves(t) ==
    /\ th' \in [Threads -> ThreadState]
    /\ \A u \in Threads \ {t} : th'[u] = th[u]

(* No stream that another thread has locked is started or stopped, and     *)
(* what is started has its pcm open.                                       *)
Calm(new, old) ==
    new.standby = old.standby /\ (old.standby \/ new.pcm = old.pcm)

Undisturbed(t) ==
    /\ \A o \in Outs :
         \/ Calm(hal'.out[o], hal.out[o])
         \/ /\ lock[o] \in {t, None}
            /\ hal'.out[o].standby \/ (hal'.out[o].pcm = "open" /\ handle[o] = "open")
    /\ \A i \in Ins :
         \/ Calm(hal'.in[i], hal.in[i])
         \/ /\ lock[i] \in {t, None}
            /\ hal'.in[i].standby \/ (hal'.in[i].pcm = "open" /\ handle[i] = "open")

(* The stream of t is where the place t goes to in its call needs it.      *)
Positioned(t) ==
    /\ th'[t].pc = "write_io" => ~hal'.out[th'[t].tgt].standby
    /\ th'[t].pc = "read_io" => ~hal'.in[th'[t].tgt].standby
    /\ th'[t].pc = "start_in" => hal'.in[th'[t].tgt].standby
    /\ th'[t].pc = "free" => StandingBy(th[t].tgt)'

(* A step that leaves the streams other threads have locked alone, and takes*)
(* its own thread where its stream allows, keeps what is known of the PCMs.*)
LEMMA PcmStep ==
    ASSUME IInv, NEW t \in Threads, Moves(t), LocksHeld', Undisturbed(t), Positioned(t)
    PROVE  PcmKept' /\ PcmSafe'
  <1>0. \A u \in Threads :
          /\ WellFormed(th[u])
          /\ \A s \in Streams : lock[s] = u <=> OwnsStream(th[u], s)
    BY DEF IInv, HalInvariant, LocksHeld
  <1>01. \A u \in Threads :
           /\ WellFormed(th'[u])
           /\ \A s \in Streams : lock'[s] = u <=> OwnsStream(th'[u], s)
    BY DEF LocksHeld
  <1>1. /\ \A o \in Outs : ~hal'.out[o].standby => hal'.out[o].pcm = "open"
        /\ \A i \in Ins : ~hal'.in[i].standby => hal'.in[i].pcm = "open"
    BY DEF Undisturbed, Calm, IInv, HalInvariant, PcmKept
  <1>2. ASSUME NEW u \in Threads
        PROVE  Positioned(u)
    <2>1. CASE u = t
      BY <2>1
    <2>2. CASE u # t
      <3>1. th'[u] = th[u]
        BY <2>2 DEF Moves
      <3>2. CASE th[u].pc = "write_io"
        <4>1. th[u].tgt \in Outs /\ lock[th[u].tgt] = u /\ ~hal.out[th[u].tgt].standby
          BY <3>2, <1>0 DEF WellFormed, OutPcs, IInv, HalInvariant, PcmSafe
        <4> QED
          BY <2>2, <3>1, <3>2, <4>1, StreamsAssumption DEF Positioned, Undisturbed, Calm
      <3>3. CASE th[u].pc = "read_io"
        <4>1. th[u].tgt \in Ins /\ lock[th[u].tgt] = u /\ ~hal.in[th[u].tgt].standby
          BY <3>3, <1>0 DEF WellFormed, InPcs, IInv, HalInvariant, PcmSafe
        <4> QED
          BY <2>2, <3>1, <3>3, <4>1, StreamsAssumption DEF Positioned, Undisturbed, Calm
      <3>4. CASE th[u].pc = "start_in"
        <4>1. th[u].tgt \in Ins /\ hal.in[th[u].tgt].standby
          BY <3>4, <1>0 DEF WellFormed, InPcs, IInv, HalInvariant, PcmKept
        <4>2. lock[th[u].tgt] = u
          BY <3>4, <4>1, <1>0 DEF OwnsStream, Streams
        <4> QED
          BY <2>2, <3>1, <3>4, <4>1, <4>2, StreamsAssumption DEF Positioned,
             Undisturbed, Calm
      <3>5. CASE th[u].pc = "free"
        <4>1. /\ th[u].tgt \in Streams /\ handle[th[u].tgt] = "closing"
              /\ StandingBy(th[u].tgt)
          BY <3>5, <1>0 DEF WellFormed, IInv, HalInvariant, HandlesKept, PcmKept
        <4> QED
          BY <3>1, <3>5, <4>1 DEF Positioned, Undisturbed, Calm, StandingBy, Streams
      <3> QED
        BY <3>1, <3>2, <3>3, <3>4, <3>5 DEF Positioned
    <2> QED
      BY <2>1, <2>2
  <1>3. PcmKept'
    BY <1>1, <1>2 DEF PcmKept, Positioned
  <1>4. PcmSafe'
    <2>1. ASSUME NEW u \in Threads, th'[u].pc = "write_io"
          PROVE  th'[u].tgt \in Outs /\ lock'[th'[u].tgt] = u
      BY <2>1, <1>01 DEF WellFormed, OutPcs, OwnsStream, Streams
    <2>2. ASSUME NEW u \in Threads, th'[u].pc = "read_io"
          PROVE  th'[u].tgt \in Ins /\ lock'[th'[u].tgt] = u
      BY <2>2, <1>01 DEF WellFormed, InPcs, OwnsStream, Streams
    <2> QED
      BY <1>1, <1>2, <2>1, <2>2 DEF PcmSafe, Positioned
  <1> QED
    BY <1>3, <1>4

(* A step that leaves the mode and in_call alone keeps the call flag.      *)
LEMMA CallStep ==
    ASSUME IInv, NEW t \in Threads, Moves(t),
           hal'.mode = hal.mode, hal'.in_call = hal.in_call,
           th'[t].op = "mode" <=> th[t].op = "mode",
           th'[t].op = "mode" /\ th'[t].pc \in {"volume_store", "volume_ctl"} =>
             hal.mode = "IN_CALL"
    PROVE  CallKept'
  BY DEF IInv, HalInvariant, CallKept, Moves

(* A step that closes no stream, and takes its thread into a write or a read*)
(* of an open stream only, keeps the handles.                              *)
LEMMA HandleStep ==
    ASSUME IInv, NEW t \in Threads, Moves(t), handle' = handle,
           th'[t].pc \in {"write", "write_io", "write_tail", "read", "start_in", "read_io",
                          "read_sleep"} => handle[th'[t].tgt] = "open",
           th'[t].op = "close" => th[t].op = "close" /\ th'[t].tgt = th[t].tgt
    PROVE  HandlesKept'
  BY DEF IInv, HalInvariant, HandlesKept, Moves

(* The devices chosen on entering a call are devices.                      *)
LEMMA CallDevicesType ==
    ASSUME NEW h \in HalState
    PROVE  LET r == CallDevices(h) IN
           /\ r \in HalState
           /\ r.mode = h.mode /\ r.in_call = h.in_call /\ r.out = h.out /\ r.in = h.in
  <1>1. h.out_device \in (SUBSET OutDevices) \ {{}}
    BY DEF HalState
  <1>2. CASE h.out_device = {"SPEAKER"}
    BY <1>2 DEF CallDevices, HalState, OutDevices, InDevices
  <1>3. CASE h.out_device # {"SPEAKER"}
    <2>1. h.out_device \ {"SPEAKER"} \in (SUBSET OutDevices) \ {{}}
      BY <1>1, <1>3
    <2> QED
      BY <1>3, <2>1 DEF CallDevices, HalState
  <1> QED
    BY <1>2, <1>3

(* A percentage gives a downlink volume in range.                          *)
LEMMA VolumeRange ==
    ASSUME NEW v \in 0..100
    PROVE  VoiceVolumeCtl(v) \in 0..MAX_VOICE_VOLUME
  BY DEF VoiceVolumeCtl, MIN_VOICE_VOLUME, MAX_VOICE_VOLUME

(* A call on an output begins.                                             *)
LEMMA CallOutStep ==
    ASSUME IInv, NEW t \in Threads, NEW o \in Outs, CallOut(t, o)
    PROVE  IInv'
  <1>1. /\ th[t] \in ThreadState /\ th[t] = Idle
        /\ th[t].op = "none"
        /\ hw_lock = None
        /\ \A s \in Streams : lock[s] # t
        /\ handle[o] = "open"
    BY DEF CallOut, Call, Idle, ThreadState, IInv, TypeOK, HalInvariant, LocksHeld,
       WellFormed, OwnsHw, OwnsStream, OutPcs, InPcs, ModePcs
  <1>2. /\ hal \in HalState
        /\ hal' = hal
    BY DEF CallOut, Call, IInv, TypeOK
  <1>3. /\ Moves(t)
        /\ handle' = handle
        /\ th'[t].pc \in {"write", "route", "out_standby"} /\ th'[t].op = "none"
           /\ th'[t].tgt = o
    BY <1>1 DEF CallOut, Call, Idle, Moves, IInv, TypeOK, ThreadState, PCs, Streams
  <1>4. TypeOK'
    BY <1>1, <1>2, <1>3 DEF CallOut, Call, Idle, Moves, IInv, TypeOK, Streams
  <1>5. LocksHeld'
    BY <1>1, <1>3, StreamsAssumption DEF CallOut, Call, Idle, Moves, IInv, TypeOK,
       HalInvariant, LocksHeld, WellFormed, OwnsHw, OwnsStream, OutPcs, InPcs, ModePcs,
       Streams
  <1>6. Undisturbed(t) /\ Positioned(t)
    BY <1>1, <1>2, <1>3 DEF Undisturbed, Calm, Positioned
  <1> QED
    BY <1>1, <1>2, <1>3, <1>4, <1>5, <1>6, PcmStep, HandleStep, CallStep DEF IInv,
       HalInvariant

(* A call on an input begins.                                              *)
LEMMA CallInStep ==
    ASSUME IInv, NEW t \in Threads, NEW i \in Ins, CallIn(t, i)
    PROVE  IInv'
  <1>1. /\ th[t] \in ThreadState /\ th[t] = Idle
        /\ th[t].op = "none"
        /\ hw_lock = None
        /\ \A s \in Streams : lock[s] # t
        /\ handle[i] = "open"
    BY DEF CallIn, Call, Idle, ThreadState, IInv, TypeOK, HalInvariant, LocksHeld,
       WellFormed, OwnsHw, OwnsStream, OutPcs, InPcs, ModePcs
  <1>2. /\ hal \in HalState
        /\ hal' = hal
    BY DEF CallIn, Call, IInv, TypeOK
  <1>3. /\ Moves(t)
        /\ handle' = handle
        /\ th'[t].pc \in {"read", "in_standby", "in_params", "add_effect", "remove_effect"}
        /\ th'[t].op = "none" /\ th'[t].tgt = i
    BY <1>1 DEF CallIn, Call, Idle, Moves, IInv, TypeOK, ThreadState, PCs, Streams
  <1>4. TypeOK'
    BY <1>1, <1>2, <1>3 DEF CallIn, Call, Idle, Moves, IInv, TypeOK, Streams
  <1>5. LocksHeld'
    BY <1>1, <1>3, StreamsAssumption DEF CallIn, Call, Idle, Moves, IInv, TypeOK,
       HalInvariant, LocksHeld, WellFormed, OwnsHw, OwnsStream, OutPcs, InPcs, ModePcs,
       Streams
  <1>6. Undisturbed(t) /\ Positioned(t)
    BY <1>1, <1>2, <1>3 DEF Undisturbed, Calm, Positioned
  <1> QED
    BY <1>1, <1>2, <1>3, <1>4, <1>5, <1>6, PcmStep, HandleStep, CallStep DEF IInv,
       HalInvariant

(* A stream begins to be closed.                                           *)
LEMMA CloseStep ==
    ASSUME IInv, NEW t \in Threads, NEW s \in Streams,
           NEW pc \in {"out_standby", "in_standby"}, pc = "out_standby" => s \in Outs,
           pc = "in_standby" => s \in Ins, Close(t, s, pc)
    PROVE  IInv'
  <1>1. /\ th[t] \in ThreadState /\ th[t] = Idle
        /\ th[t].op = "none"
        /\ hw_lock = None
        /\ \A r \in Streams : lock[r] # t
        /\ handle[s] = "open" /\ \A u \in Threads : th[u].tgt # s
    BY DEF Close, Call, Idle, ThreadState, IInv, TypeOK, HalInvariant, LocksHeld,
       WellFormed, OwnsHw, OwnsStream, OutPcs, InPcs, ModePcs
  <1>2. /\ hal \in HalState
        /\ hal' = hal
    BY DEF Close, Call, IInv, TypeOK
  <1>3. /\ Moves(t)
        /\ th'[t].pc = pc /\ th'[t].op = "close" /\ th'[t].tgt = s
    BY <1>1 DEF Close, Call, Idle, Moves, IInv, TypeOK, ThreadState, PCs, Streams
  <1>4. TypeOK'
    BY <1>1, <1>2, <1>3 DEF Close, Call, Idle, Moves, IInv, TypeOK, Streams
  <1>5. LocksHeld'
    BY <1>1, <1>3, StreamsAssumption DEF Close, Call, Idle, Moves, IInv, TypeOK,
       HalInvariant, LocksHeld, WellFormed, OwnsHw, OwnsStream, OutPcs, InPcs, ModePcs,
       Streams
  <1>6. Undisturbed(t) /\ Positioned(t)
    BY <1>1, <1>2, <1>3 DEF Undisturbed, Calm, Positioned
  <1>7. HandlesKept'
    BY <1>1, <1>3 DEF Close, Moves, IInv, TypeOK, HalInvariant, HandlesKept
  <1> QED
    BY <1>1, <1>2, <1>3, <1>4, <1>5, <1>6, <1>7, PcmStep, CallStep DEF IInv,
       HalInvariant

(* A closed stream is freed.                                               *)
LEMMA FreeStep ==
    ASSUME IInv, NEW t \in Threads, Free(t)
    PROVE  IInv'
  <1>1. /\ th[t] \in ThreadState /\ th[t].pc = "free" /\ th[t].tgt \in Streams
        /\ th[t].op = "close" /\ handle[th[t].tgt] = "closing" /\ StandingBy(th[t].tgt)
    BY DEF HandlesKept, PcmKept, Free, At, IInv, TypeOK, HalInvariant, LocksHeld,
       WellFormed, OwnsHw, OutPcs, InPcs, ModePcs
  <1>2. /\ hal' \in HalState
        /\ hal'.mode = hal.mode /\ hal'.in_call = hal.in_call
        /\ \A o \in Outs \ {th[t].tgt} : hal'.out[o] = hal.out[o]
        /\ \A i \in Ins \ {th[t].tgt} : hal'.in[i] = hal.in[i]
        /\ th[t].tgt \in Outs => hal'.out[th[t].tgt].standby
        /\ th[t].tgt \in Ins => hal'.in[th[t].tgt].standby
    <2>1. /\ NewOut \in OutState /\ NewOut.standby
          /\ NewIn("BUILTIN_MIC") \in InState /\ NewIn("BUILTIN_MIC").standby
          /\ hal \in HalState
      BY DEF NewOut, NewIn, OutState, InState, OutPcm, InDevices, IInv, TypeOK
    <2> DEFINE s == th[t].tgt
               outs == [hal.out EXCEPT ![s] = NewOut]
               ins == [hal.in EXCEPT ![s] = NewIn("BUILTIN_MIC")]
    <2>2. CASE s \in Outs
      <3>1. outs \in [Outs -> OutState] /\ outs[s].standby
            /\ \A o \in Outs \ {s} : outs[o] = hal.out[o]
        BY <2>1, <2>2 DEF HalState
      <3>2. hal' = [hal EXCEPT !.out = outs]
        BY <2>2 DEF Free
      <3> HIDE DEF outs
      <3> QED
        BY <2>1, <2>2, <3>1, <3>2, StreamsAssumption DEF HalState
    <2>3. CASE s \in Ins
      <3>1. ins \in [Ins -> InState] /\ ins[s].standby
            /\ \A i \in Ins \ {s} : ins[i] = hal.in[i]
        BY <2>1, <2>3 DEF HalState
      <3>2. hal' = [hal EXCEPT !.in = ins]
        BY <2>3, StreamsAssumption DEF Free
      <3> HIDE DEF ins
      <3> QED
        BY <2>1, <2>3, <3>1, <3>2, StreamsAssumption DEF HalState
    <2> QED
      BY <1>1, <2>2, <2>3 DEF Streams
  <1>3. /\ Moves(t)
        /\ th'[t] = Idle
        /\ th'[t].op = "none" /\ th'[t].pc = "idle"
    BY <1>1 DEF Free, Return, Idle, Moves, IInv, TypeOK, ThreadState, PCs, Streams
  <1>4. TypeOK'
    BY <1>1, <1>2, <1>3 DEF Free, Return, Idle, Moves, IInv, TypeOK, Streams
  <1>5. LocksHeld'
    BY <1>1, <1>3, StreamsAssumption DEF Free, Return, Idle, Moves, IInv, TypeOK,
       HalInvariant, LocksHeld, WellFormed, OwnsHw, OwnsStream, OutPcs, InPcs, ModePcs,
       Streams
  <1>6. Undisturbed(t) /\ Positioned(t)
    <2>1. ASSUME NEW o \in Outs
          PROVE  Calm(hal'.out[o], hal.out[o])
      <3>1. hal.out[o].standby \in BOOLEAN /\ hal'.out[o].standby \in BOOLEAN
        BY <1>2 DEF IInv, TypeOK, HalState, OutState
      <3>2. CASE o = th[t].tgt
        BY <1>1, <1>2, <3>1, <3>2 DEF Calm, StandingBy
      <3>3. CASE o # th[t].tgt
        BY <1>2, <3>1, <3>3 DEF Calm
      <3> QED
        BY <3>2, <3>3
    <2>2. ASSUME NEW i \in Ins
          PROVE  Calm(hal'.in[i], hal.in[i])
      <3>1. hal.in[i].standby \in BOOLEAN /\ hal'.in[i].standby \in BOOLEAN
        BY <1>2 DEF IInv, TypeOK, HalState, InState
      <3>2. CASE i = th[t].tgt
        BY <1>1, <1>2, <3>1, <3>2, StreamsAssumption DEF Calm, StandingBy
      <3>3. CASE i # th[t].tgt
        BY <1>2, <3>1, <3>3 DEF Calm
      <3> QED
        BY <3>2, <3>3
    <2> QED
      BY <1>3, <2>1, <2>2 DEF Undisturbed, Positioned
  <1>7. HandlesKept'
    BY <1>1, <1>3 DEF Free, Moves, IInv, TypeOK, HalInvariant, HandlesKept
  <1> QED
    BY <1>1, <1>2, <1>3, <1>4, <1>5, <1>6, <1>7, PcmStep, CallStep DEF IInv,
       HalInvariant

(* A write on a running output.                                            *)
LEMMA OutWriteStep ==
    ASSUME IInv, NEW t \in Threads, out_write(t)
    PROVE  IInv'
  <1>1. /\ th[t] \in ThreadState /\ th[t].pc = "write" /\ th[t].tgt \in Outs
        /\ hw_lock = t /\ th[t].op \notin {"mode", "close"}
        /\ handle[th[t].tgt] = "open" /\ ~hal.out[th[t].tgt].standby
    BY DEF out_write, At, IInv, TypeOK, HalInvariant, LocksHeld, WellFormed, OwnsHw,
       OutPcs, InPcs, ModePcs, HandlesKept
  <1>2. /\ hal \in HalState
        /\ hal' = hal
    BY DEF out_write, IInv, TypeOK
  <1>3. /\ Moves(t)
        /\ handle' = handle
        /\ th'[t].pc = "write_io" /\ th'[t].tgt = th[t].tgt /\ th'[t].op = th[t].op
    BY <1>1 DEF out_write, Goto, Moves, IInv, TypeOK, ThreadState, PCs, Streams
  <1>4. TypeOK'
    BY <1>1, <1>2, <1>3 DEF out_write, Goto, Moves, IInv, TypeOK, Streams
  <1>5. LocksHeld'
    BY <1>1, <1>3, StreamsAssumption DEF out_write, Goto, Moves, At, WaitsFor, IInv,
       TypeOK, HalInvariant, LocksHeld, WellFormed, OwnsHw, OwnsStream, OutPcs, InPcs,
       ModePcs, Streams
  <1>6. Undisturbed(t) /\ Positioned(t)
    BY <1>1, <1>2, <1>3 DEF out_write, At, WaitsFor, Undisturbed, Calm, Positioned
  <1> QED
    BY <1>1, <1>2, <1>3, <1>4, <1>5, <1>6, PcmStep, HandleStep, CallStep DEF IInv,
       HalInvariant

(* A write that starts its output.                                         *)
LEMMA StartOutputStep ==
    ASSUME IInv, NEW t \in Threads, start_output_stream(t)
    PROVE  IInv'
  <1>1. /\ th[t] \in ThreadState /\ th[t].pc = "write" /\ th[t].tgt \in Outs
        /\ hw_lock = t /\ th[t].op \notin {"mode", "close"}
        /\ handle[th[t].tgt] = "open"
    BY DEF start_output_stream, At, IInv, TypeOK, HalInvariant, LocksHeld, WellFormed,
       OwnsHw, OutPcs, InPcs, ModePcs, HandlesKept
  <1>2. /\ hal' \in HalState
        /\ hal'.mode = hal.mode /\ hal'.in_call = hal.in_call
        /\ ~hal'.out[th[t].tgt].standby /\ hal'.out[th[t].tgt].pcm = "open"
        /\ \A o \in Outs \ {th[t].tgt} : hal'.out[o] = hal.out[o]
        /\ hal'.in = hal.in
    BY <1>1, OutputStart DEF start_output_stream, IInv, TypeOK
  <1>3. /\ Moves(t)
        /\ handle' = handle
        /\ th'[t].pc = "write_io" /\ th'[t].tgt = th[t].tgt
           /\ th'[t].op \in {"force", "none"}
    BY <1>1 DEF start_output_stream, Moves, IInv, TypeOK, ThreadState, PCs, Streams
  <1>4. TypeOK'
    BY <1>1, <1>2, <1>3 DEF start_output_stream, Moves, IInv, TypeOK, Streams
  <1>5. LocksHeld'
    BY <1>1, <1>3, StreamsAssumption DEF start_output_stream, Moves, At, WaitsFor, IInv,
       TypeOK, HalInvariant, LocksHeld, WellFormed, OwnsHw, OwnsStream, OutPcs, InPcs,
       ModePcs, Streams
  <1>6. Undisturbed(t) /\ Positioned(t)
    BY <1>1, <1>2, <1>3 DEF start_output_stream, At, WaitsFor, Undisturbed, Calm,
       Positioned, SameOutputs, SameInputs
  <1> QED
    BY <1>1, <1>2, <1>3, <1>4, <1>5, <1>6, PcmStep, HandleStep, CallStep DEF IInv,
       HalInvariant

(* A write that fails to start its output.                                 *)
LEMMA StartOutputFailsStep ==
    ASSUME IInv, NEW t \in Threads, start_output_fails(t)
    PROVE  IInv'
  <1>1. /\ th[t] \in ThreadState /\ th[t].pc = "write" /\ th[t].tgt \in Outs
        /\ hw_lock = t /\ th[t].op \notin {"mode", "close"}
        /\ hal.out[th[t].tgt].standby
    BY DEF start_output_fails, At, IInv, TypeOK, HalInvariant, LocksHeld, WellFormed,
       OwnsHw, OutPcs, InPcs, ModePcs
  <1>2. /\ hal' \in HalState
        /\ hal'.mode = hal.mode /\ hal'.in_call = hal.in_call
        /\ hal'.out[th[t].tgt].standby
        /\ \A o \in Outs \ {th[t].tgt} : hal'.out[o] = hal.out[o]
        /\ hal'.in = hal.in
    BY <1>1, OutputFail DEF start_output_fails, IInv, TypeOK
  <1>3. /\ Moves(t)
        /\ handle' = handle
        /\ th'[t].pc = "idle" /\ th'[t].op = "none" /\ th'[t].tgt = None
    BY <1>1 DEF start_output_fails, ReturnUnlocked, Return, Idle, Moves, IInv, TypeOK,
       ThreadState, PCs, Streams
  <1>4. TypeOK'
    BY <1>1, <1>2, <1>3 DEF start_output_fails, ReturnUnlocked, Return, Idle, Moves,
       IInv, TypeOK, Streams
  <1>5. LocksHeld'
    BY <1>1, <1>3, StreamsAssumption DEF start_output_fails, ReturnUnlocked, Return,
       Idle, Moves, At, WaitsFor, IInv, TypeOK, HalInvariant, LocksHeld, WellFormed,
       OwnsHw, OwnsStream, OutPcs, InPcs, ModePcs, Streams
  <1>6. Undisturbed(t) /\ Positioned(t)
    BY <1>1, <1>2, <1>3 DEF start_output_fails, At, WaitsFor, Undisturbed, Calm,
       Positioned, SameOutputs, SameInputs
  <1> QED
    BY <1>1, <1>2, <1>3, <1>4, <1>5, <1>6, PcmStep, HandleStep, CallStep DEF IInv,
       HalInvariant

(* The transfer of a write ends.                                           *)
LEMMA WriteIoStep ==
    ASSUME IInv, NEW t \in Threads, write_io(t)
    PROVE  IInv'
  <1>1. /\ th[t] \in ThreadState /\ th[t].pc = "write_io" /\ th[t].tgt \in Outs
        /\ th[t].op \notin {"mode", "close"}
        /\ handle[th[t].tgt] = "open"
    BY DEF write_io, At, IInv, TypeOK, HalInvariant, LocksHeld, WellFormed, OwnsHw,
       OutPcs, InPcs, ModePcs, HandlesKept
  <1>2. /\ hal \in HalState
        /\ hal' = hal
    BY DEF write_io, IInv, TypeOK
  <1>3. /\ Moves(t)
        /\ handle' = handle
        /\ \/ th'[t].pc = "idle" /\ th'[t].op = "none" /\ th'[t].tgt = None
           \/ th'[t].pc = "write_tail" /\ th'[t].op = th[t].op /\ th'[t].tgt = th[t].tgt
    BY <1>1 DEF write_io, Goto, Return, Idle, Moves, IInv, TypeOK, ThreadState, PCs,
       Streams
  <1>4. TypeOK'
    BY <1>1, <1>2, <1>3 DEF write_io, Goto, Return, Idle, Moves, IInv, TypeOK, Streams
  <1>5. LocksHeld'
    BY <1>1, <1>3, StreamsAssumption DEF write_io, Goto, Return, Idle, Moves, IInv,
       TypeOK, HalInvariant, LocksHeld, WellFormed, OwnsHw, OwnsStream, OutPcs, InPcs,
       ModePcs, Streams
  <1>6. Undisturbed(t) /\ Positioned(t)
    BY <1>1, <1>2, <1>3 DEF Undisturbed, Calm, Positioned
  <1> QED
    BY <1>1, <1>2, <1>3, <1>4, <1>5, <1>6, PcmStep, HandleStep, CallStep DEF IInv,
       HalInvariant

(* A write goes on to restart the active input.                            *)
LEMMA WriteTailStep ==
    ASSUME IInv, NEW t \in Threads, write_tail(t)
    PROVE  IInv'
  <1>1. /\ th[t] \in ThreadState /\ th[t].pc = "write_tail" /\ th[t].tgt \in Outs
        /\ hw_lock = None /\ th[t].op \notin {"mode", "close"}
        /\ hal.active_input \in Ins \cup {None}
    BY DEF HalState, write_tail, At, IInv, TypeOK, HalInvariant, LocksHeld, WellFormed,
       OwnsHw, OutPcs, InPcs, ModePcs
  <1>2. /\ hal \in HalState
        /\ hal' = hal
    BY DEF write_tail, IInv, TypeOK
  <1>3. /\ Moves(t)
        /\ handle' = handle
        /\ th'[t].op = "none"
        /\ \/ th'[t].pc = "idle" /\ hw_lock' = hw_lock
           \/ th'[t].pc = "force" /\ th'[t].tgt \in Ins /\ hw_lock' = t
    <2> DEFINE i == hal.active_input
               x == [pc |-> "force", op |-> "none", tgt |-> i, vol |-> 0]
    <2>1. CASE i = None
      BY <1>1, <2>1 DEF write_tail, Return, Idle, Moves, IInv, TypeOK, ThreadState, PCs
    <2>2. CASE i # None
      <3>1. x \in ThreadState
        BY <1>1, <2>2 DEF ThreadState, PCs, Streams
      <3>2. th' = [th EXCEPT ![t] = x] /\ hw_lock' = t /\ UNCHANGED handle
        BY <2>2 DEF write_tail, Idle
      <3>3. x.pc = "force" /\ x.op = "none" /\ x.tgt \in Ins
        BY <1>1, <2>2
      <3> HIDE DEF x
      <3> QED
        BY <3>1, <3>2, <3>3 DEF Moves, IInv, TypeOK
    <2> QED
      BY <2>1, <2>2
  <1>4. TypeOK'
    BY <1>1, <1>2, <1>3 DEF write_tail, Return, Idle, Moves, IInv, TypeOK, Streams
  <1>5. LocksHeld'
    BY <1>1, <1>3, StreamsAssumption DEF write_tail, Return, Idle, Moves, IInv, TypeOK,
       HalInvariant, LocksHeld, WellFormed, OwnsHw, OwnsStream, OutPcs, InPcs, ModePcs,
       Streams
  <1>6. Undisturbed(t) /\ Positioned(t)
    BY <1>1, <1>2, <1>3 DEF Undisturbed, Calm, Positioned
  <1> QED
    BY <1>1, <1>2, <1>3, <1>4, <1>5, <1>6, PcmStep, HandleStep, CallStep DEF IInv,
       HalInvariant

(* An output is routed.                                                    *)
LEMMA RouteStep ==
    ASSUME IInv, NEW t \in Threads, NEW devices \in RouteSets,
           out_set_parameters(t, devices)
    PROVE  IInv'
  <1>1. /\ th[t] \in ThreadState /\ th[t].pc = "route" /\ th[t].tgt \in Outs
        /\ hw_lock = t /\ th[t].op \notin {"mode", "close"}
        /\ lock[th[t].tgt] = None
    BY DEF WaitsFor, out_set_parameters, At, IInv, TypeOK, HalInvariant, LocksHeld,
       WellFormed, OwnsHw, OutPcs, InPcs, ModePcs
  <1>2. /\ hal' \in HalState
        /\ hal'.mode = hal.mode /\ hal'.in_call = hal.in_call
        /\ Calm(hal'.out[th[t].tgt], hal.out[th[t].tgt]) \/ hal'.out[th[t].tgt].standby
        /\ \A o \in Outs \ {th[t].tgt} : hal'.out[o] = hal.out[o]
        /\ hal'.in = hal.in
        /\ hal.active_input \in Ins \cup {None}
    <2> DEFINE h == IF th[t].tgt = hal.active_output THEN do_output_standby(hal, th[t].tgt)
                    ELSE hal
               r == [h EXCEPT !.out_device = devices]
    <2>1. /\ h \in HalState
          /\ h.mode = hal.mode /\ h.in_call = hal.in_call /\ h.in = hal.in
          /\ \A o \in Outs \ {th[t].tgt} : h.out[o] = hal.out[o]
          /\ h.out = hal.out \/ h.out[th[t].tgt].standby
      BY <1>1, OutputStandby DEF IInv, TypeOK
    <2>2. devices \in (SUBSET OutDevices) \ {{}}
      BY InputsAssumption
    <2> HIDE DEF h
    <2>3. /\ r \in HalState
          /\ r.mode = h.mode /\ r.in_call = h.in_call /\ r.out = h.out /\ r.in = h.in
      BY <2>1, <2>2 DEF HalState
    <2>4. hal' = hal \/ hal' = select_output_device(r)
      BY DEF out_set_parameters, h
    <2>5. hal \in HalState /\ hal.active_input \in Ins \cup {None}
      BY DEF IInv, TypeOK, HalState
    <2> HIDE DEF r
    <2> QED
      BY <2>1, <2>3, <2>4, <2>5, SelectOutput DEF Calm
  <1>3. /\ Moves(t)
        /\ handle' = handle
        /\ th'[t].op \in {"none", th[t].op}
        /\ \/ th'[t].pc = "idle" /\ hw_lock' = None /\ th'[t].op = "none"
           \/ th'[t].pc = "force" /\ th'[t].tgt \in Ins /\ hw_lock' = hw_lock
    <2>1. CASE th' = [th EXCEPT ![t] = Idle] /\ hw_lock' = None
      BY <1>1, <2>1 DEF out_set_parameters, Idle, Moves, IInv, TypeOK, ThreadState, PCs
    <2>2. CASE /\ th' = [th EXCEPT ![t].pc = "force", ![t].tgt = hal.active_input]
               /\ hw_lock' = hw_lock /\ hal.active_input # None
      BY <1>1, <1>2, <2>2, ZenonT(90) DEF out_set_parameters, Moves, IInv, TypeOK, ThreadState, PCs,
         Streams
    <2> QED
      BY <2>1, <2>2 DEF out_set_parameters, ReturnUnlocked, Return, VoiceInput
  <1>4. TypeOK'
    BY <1>1, <1>2, <1>3 DEF out_set_parameters, ReturnUnlocked, Return, Idle, Moves,
       IInv, TypeOK, Streams
  <1>5. LocksHeld'
    BY <1>1, <1>3, StreamsAssumption, <1>2 DEF out_set_parameters, ReturnUnlocked,
       Return, Idle, Moves, IInv, TypeOK, HalInvariant, LocksHeld, WellFormed, OwnsHw,
       OwnsStream, OutPcs, InPcs, ModePcs, Streams
  <1>6. Undisturbed(t) /\ Positioned(t)
    BY <1>1, <1>2, <1>3 DEF Undisturbed, Calm, Positioned, SameOutputs, SameInputs
  <1> QED
    BY <1>1, <1>2, <1>3, <1>4, <1>5, <1>6, PcmStep, HandleStep, CallStep DEF IInv,
       HalInvariant

(* An output goes to standby.                                              *)
LEMMA OutStandbyStep ==
    ASSUME IInv, NEW t \in Threads, out_standby(t)
    PROVE  IInv'
  <1>1. /\ th[t] \in ThreadState /\ th[t].pc = "out_standby" /\ th[t].tgt \in Outs
        /\ hw_lock = t /\ th[t].op # "mode"
        /\ lock[th[t].tgt] = None
    BY DEF WaitsFor, out_standby, At, IInv, TypeOK, HalInvariant, LocksHeld,
       WellFormed, OwnsHw, OutPcs, InPcs, ModePcs
  <1>2. /\ hal' \in HalState
        /\ hal'.mode = hal.mode /\ hal'.in_call = hal.in_call
        /\ hal'.out[th[t].tgt].standby
        /\ \A o \in Outs \ {th[t].tgt} : hal'.out[o] = hal.out[o]
        /\ hal'.in = hal.in
    BY <1>1, OutputStandby DEF out_standby, IInv, TypeOK
  <1>3. /\ Moves(t)
        /\ handle' = handle
        /\ \/ th'[t].pc = "idle" /\ th'[t].op = "none" /\ th'[t].tgt = None
           \/ th'[t].pc = "free" /\ th'[t].op = "close" /\ th[t].op = "close"
              /\ th'[t].tgt = th[t].tgt
    BY <1>1 DEF out_standby, Goto, Return, Idle, Moves, IInv, TypeOK, ThreadState, PCs,
       Streams
  <1>4. TypeOK'
    BY <1>1, <1>2, <1>3 DEF out_standby, Goto, Return, Idle, Moves, IInv, TypeOK,
       Streams
  <1>5. LocksHeld'
    BY <1>1, <1>3, StreamsAssumption DEF out_standby, Goto, Return, Idle, Moves, IInv,
       TypeOK, HalInvariant, LocksHeld, WellFormed, OwnsHw, OwnsStream, OutPcs, InPcs,
       ModePcs, Streams
  <1>6. Undisturbed(t) /\ Positioned(t)
    BY <1>1, <1>2, <1>3 DEF Undisturbed, Calm, Positioned, StandingBy
  <1> QED
    BY <1>1, <1>2, <1>3, <1>4, <1>5, <1>6, PcmStep, HandleStep, CallStep DEF IInv,
       HalInvariant

(* A read takes both locks.                                                *)
LEMMA InReadStep ==
    ASSUME IInv, NEW t \in Threads, in_read(t)
    PROVE  IInv'
  <1>1. /\ th[t] \in ThreadState /\ th[t].pc = "read" /\ th[t].tgt \in Ins
        /\ hw_lock = t /\ th[t].op \notin {"mode", "close"}
        /\ handle[th[t].tgt] = "open" /\ lock[th[t].tgt] = None
    BY DEF WaitsFor, in_read, At, IInv, TypeOK, HalInvariant, LocksHeld, WellFormed,
       OwnsHw, OutPcs, InPcs, ModePcs, HandlesKept
  <1>2. /\ hal \in HalState
        /\ hal' = hal
    BY DEF in_read, IInv, TypeOK
  <1>3. /\ Moves(t)
        /\ handle' = handle
        /\ th'[t].op = th[t].op /\ th'[t].tgt = th[t].tgt
        /\ \/ th'[t].pc = "start_in" /\ hal.in[th[t].tgt].standby /\ hw_lock' = hw_lock
           \/ th'[t].pc = "read_io" /\ ~hal.in[th[t].tgt].standby /\ hw_lock' = None
    BY <1>1 DEF in_read, Goto, Moves, IInv, TypeOK, ThreadState, PCs, Streams
  <1>4. TypeOK'
    BY <1>1, <1>2, <1>3 DEF in_read, Goto, Moves, IInv, TypeOK, Streams
  <1>5. LocksHeld'
    BY <1>1, <1>3, StreamsAssumption DEF in_read, Goto, Moves, IInv, TypeOK,
       HalInvariant, LocksHeld, WellFormed, OwnsHw, OwnsStream, OutPcs, InPcs, ModePcs,
       Streams
  <1>6. Undisturbed(t) /\ Positioned(t)
    BY <1>1, <1>2, <1>3 DEF Undisturbed, Calm, Positioned
  <1> QED
    BY <1>1, <1>2, <1>3, <1>4, <1>5, <1>6, PcmStep, HandleStep, CallStep DEF IInv,
       HalInvariant

(* A read that starts its input.                                           *)
LEMMA StartInputStep ==
    ASSUME IInv, NEW t \in Threads, start_input_stream(t)
    PROVE  IInv'
  <1>1. /\ th[t] \in ThreadState /\ th[t].pc = "start_in" /\ th[t].tgt \in Ins
        /\ hw_lock = t /\ th[t].op \notin {"mode", "close"}
        /\ handle[th[t].tgt] = "open" /\ lock[th[t].tgt] = t
    BY DEF OwnsStream, Streams, start_input_stream, At, IInv, TypeOK, HalInvariant,
       LocksHeld, WellFormed, OwnsHw, OutPcs, InPcs, ModePcs, HandlesKept
  <1>2. /\ hal' \in HalState
        /\ hal'.mode = hal.mode /\ hal'.in_call = hal.in_call
        /\ SameOutputs(hal', hal)
        /\ ~hal'.in[th[t].tgt].standby /\ hal'.in[th[t].tgt].pcm = "open"
        /\ \A i \in Ins \ {th[t].tgt} :
             hal'.in[i].standby = hal.in[i].standby /\ hal'.in[i].pcm = hal.in[i].pcm
    <2>1. NewReferences(th[t].tgt) \subseteq Refs \cup {None}
      BY DEF NewReferences
    <2>2. PICK ref \in Refs \cup {None} : hal' = InputStarted(hal, th[t].tgt, ref)
      BY <2>1 DEF start_input_stream
    <2>3. hal \in HalState
      BY DEF IInv, TypeOK
    <2> QED
      BY <1>1, <2>2, <2>3, InputStart
  <1>3. /\ Moves(t)
        /\ handle' = handle
        /\ th'[t].pc = "read_io" /\ th'[t].op = th[t].op /\ th'[t].tgt = th[t].tgt
    BY <1>1 DEF start_input_stream, Goto, Moves, IInv, TypeOK, ThreadState, PCs, Streams
  <1>4. TypeOK'
    BY <1>1, <1>2, <1>3 DEF start_input_stream, Goto, Moves, IInv, TypeOK, Streams
  <1>5. LocksHeld'
    BY <1>1, <1>3, StreamsAssumption DEF start_input_stream, Goto, Moves, IInv, TypeOK,
       HalInvariant, LocksHeld, WellFormed, OwnsHw, OwnsStream, OutPcs, InPcs, ModePcs,
       Streams
  <1>6. Undisturbed(t) /\ Positioned(t)
    BY <1>1, <1>2, <1>3 DEF Undisturbed, Calm, Positioned, SameOutputs, SameInputs
  <1> QED
    BY <1>1, <1>2, <1>3, <1>4, <1>5, <1>6, PcmStep, HandleStep, CallStep DEF IInv,
       HalInvariant

(* A read that fails to start its input.                                   *)
LEMMA StartInputFailsStep ==
    ASSUME IInv, NEW t \in Threads, start_input_fails(t)
    PROVE  IInv'
  <1>1. /\ th[t] \in ThreadState /\ th[t].pc = "start_in" /\ th[t].tgt \in Ins
        /\ hw_lock = t /\ th[t].op \notin {"mode", "close"}
        /\ handle[th[t].tgt] = "open" /\ lock[th[t].tgt] = t
        /\ hal.in[th[t].tgt].standby
    BY DEF PcmKept, OwnsStream, Streams, start_input_fails, At, IInv, TypeOK,
       HalInvariant, LocksHeld, WellFormed, OwnsHw, OutPcs, InPcs, ModePcs, HandlesKept
  <1>2. /\ hal' \in HalState
        /\ hal'.mode = hal.mode /\ hal'.in_call = hal.in_call
        /\ SameOutputs(hal', hal)
        /\ hal'.in[th[t].tgt].standby
        /\ \A i \in Ins \ {th[t].tgt} :
             hal'.in[i].standby = hal.in[i].standby /\ hal'.in[i].pcm = hal.in[i].pcm
    <2>1. NewReferences(th[t].tgt) \subseteq Refs \cup {None}
      BY DEF NewReferences
    <2>2. PICK ref \in Refs \cup {None} : hal' = InputFailed(hal, th[t].tgt, ref)
      BY <2>1 DEF start_input_fails
    <2>3. hal \in HalState
      BY DEF IInv, TypeOK
    <2> QED
      BY <1>1, <2>2, <2>3, InputFail
  <1>3. /\ Moves(t)
        /\ handle' = handle
        /\ th'[t].pc = "read_sleep" /\ th'[t].op = th[t].op /\ th'[t].tgt = th[t].tgt
    BY <1>1 DEF start_input_fails, Goto, Moves, IInv, TypeOK, ThreadState, PCs, Streams
  <1>4. TypeOK'
    BY <1>1, <1>2, <1>3 DEF start_input_fails, Goto, Moves, IInv, TypeOK, Streams
  <1>5. LocksHeld'
    BY <1>1, <1>3, StreamsAssumption DEF start_input_fails, Goto, Moves, IInv, TypeOK,
       HalInvariant, LocksHeld, WellFormed, OwnsHw, OwnsStream, OutPcs, InPcs, ModePcs,
       Streams
  <1>6. Undisturbed(t) /\ Positioned(t)
    BY <1>1, <1>2, <1>3 DEF Undisturbed, Calm, Positioned, SameOutputs, SameInputs
  <1> QED
    BY <1>1, <1>2, <1>3, <1>4, <1>5, <1>6, PcmStep, HandleStep, CallStep DEF IInv,
       HalInvariant

(* The transfer, or the sleep, of a read ends.                             *)
LEMMA ReadIoStep ==
    ASSUME IInv, NEW t \in Threads, read_io(t)
    PROVE  IInv'
  <1>1. /\ th[t] \in ThreadState /\ th[t].pc \in {"read_io", "read_sleep"}
           /\ th[t].tgt \in Ins
        /\ th[t].op \notin {"mode", "close"}
    BY DEF read_io, At, IInv, TypeOK, HalInvariant, LocksHeld, WellFormed, OwnsHw,
       OutPcs, InPcs, ModePcs
  <1>2. /\ hal \in HalState
        /\ hal' = hal
    BY DEF read_io, IInv, TypeOK
  <1>3. /\ Moves(t)
        /\ handle' = handle
        /\ th'[t].pc = "idle" /\ th'[t].op = "none" /\ th'[t].tgt = None
    BY <1>1 DEF read_io, Return, Idle, Moves, IInv, TypeOK, ThreadState, PCs, Streams
  <1>4. TypeOK'
    BY <1>1, <1>2, <1>3 DEF read_io, Return, Idle, Moves, IInv, TypeOK, Streams
  <1>5. LocksHeld'
    BY <1>1, <1>3, StreamsAssumption DEF read_io, Return, Idle, Moves, IInv, TypeOK,
       HalInvariant, LocksHeld, WellFormed, OwnsHw, OwnsStream, OutPcs, InPcs, ModePcs,
       Streams
  <1>6. Undisturbed(t) /\ Positioned(t)
    BY <1>1, <1>2, <1>3 DEF Undisturbed, Calm, Positioned
  <1> QED
    BY <1>1, <1>2, <1>3, <1>4, <1>5, <1>6, PcmStep, HandleStep, CallStep DEF IInv,
       HalInvariant

(* An input is about to go to standby.                                     *)
LEMMA InStandbyStep ==
    ASSUME IInv, NEW t \in Threads, in_standby(t)
    PROVE  IInv'
  <1>1. /\ th[t] \in ThreadState /\ th[t].pc \in {"in_standby", "force"}
           /\ th[t].tgt \in Ins
        /\ hw_lock = t /\ th[t].op # "mode" /\ lock[th[t].tgt] = None
    BY DEF WaitsFor, in_standby, At, IInv, TypeOK, HalInvariant, LocksHeld, WellFormed,
       OwnsHw, OutPcs, InPcs, ModePcs
  <1>2. /\ hal \in HalState
        /\ hal' = hal
    BY DEF in_standby, IInv, TypeOK
  <1>3. /\ Moves(t)
        /\ handle' = handle
        /\ th'[t].pc = "in_stby" /\ th'[t].op = th[t].op /\ th'[t].tgt = th[t].tgt
    BY <1>1 DEF in_standby, EnterInputStandby, Goto, Moves, IInv, TypeOK, ThreadState,
       PCs, Streams
  <1>4. TypeOK'
    BY <1>1, <1>2, <1>3 DEF in_standby, EnterInputStandby, Goto, Moves, IInv, TypeOK,
       Streams
  <1>5. LocksHeld'
    BY <1>1, <1>3, StreamsAssumption DEF in_standby, EnterInputStandby, Goto, Moves,
       IInv, TypeOK, HalInvariant, LocksHeld, WellFormed, OwnsHw, OwnsStream, OutPcs,
       InPcs, ModePcs, Streams
  <1>6. Undisturbed(t) /\ Positioned(t)
    BY <1>1, <1>2, <1>3 DEF Undisturbed, Calm, Positioned
  <1> QED
    BY <1>1, <1>2, <1>3, <1>4, <1>5, <1>6, PcmStep, HandleStep, CallStep DEF IInv,
       HalInvariant

(* An input gets a new source or microphone.                               *)
LEMMA InParametersStep ==
    ASSUME IInv, NEW t \in Threads, NEW source \in Sources \cup {None},
           NEW device \in MicSet \cup {None}, in_set_parameters(t, source, device)
    PROVE  IInv'
  <1>1. /\ th[t] \in ThreadState /\ th[t].pc = "in_params" /\ th[t].tgt \in Ins
        /\ hw_lock = t /\ th[t].op \notin {"mode", "close"} /\ lock[th[t].tgt] = None
    BY DEF WaitsFor, in_set_parameters, At, IInv, TypeOK, HalInvariant, LocksHeld,
       WellFormed, OwnsHw, OutPcs, InPcs, ModePcs
  <1>2. /\ hal' \in HalState
        /\ hal'.mode = hal.mode /\ hal'.in_call = hal.in_call
        /\ hal'.out = hal.out /\ SameInputs(hal', hal)
    <2> DEFINE i == th[t].tgt
               new == [hal.in[i] EXCEPT
                         !.source = IF source \in {None, hal.in[i].source} THEN @ ELSE source,
                         !.device = IF device \in {None, hal.in[i].device} THEN @ ELSE device]
    <2>1. hal \in HalState /\ i \in Ins /\ hal.in[i] \in InState
      BY <1>1 DEF IInv, TypeOK, HalState
    <2> HIDE DEF i
    <2>2. new \in InState /\ new.standby = hal.in[i].standby /\ new.pcm = hal.in[i].pcm
      BY <2>1, InputsAssumption DEF InState
    <2>3. hal' = [hal EXCEPT !.in[i] = new]
      BY <2>1, ZenonT(90) DEF in_set_parameters, i, HalState, InState
    <2> HIDE DEF new
    <2> QED
      BY <2>1, <2>2, <2>3 DEF HalState, SameInputs
  <1>3. /\ Moves(t)
        /\ handle' = handle
        /\ \/ th'[t].pc = "idle" /\ th'[t].op = "none" /\ hw_lock' = None
           \/ /\ th'[t].pc = "in_stby" /\ hw_lock' = hw_lock
              /\ th'[t].op = th[t].op /\ th'[t].tgt = th[t].tgt
    BY <1>1 DEF in_set_parameters, ReturnUnlocked, EnterInputStandby, Goto, Return,
       Idle, Moves, IInv, TypeOK, ThreadState, PCs, Streams
  <1>4. TypeOK'
    BY <1>1, <1>2, <1>3 DEF in_set_parameters, ReturnUnlocked, EnterInputStandby, Goto,
       Return, Idle, Moves, IInv, TypeOK, Streams
  <1>5. LocksHeld'
    BY SMTT(40), <1>1, <1>3, StreamsAssumption DEF in_set_parameters, ReturnUnlocked,
       EnterInputStandby, Goto, Return, Idle, Moves, IInv, TypeOK, HalInvariant,
       LocksHeld, WellFormed, OwnsHw, OwnsStream, OutPcs, InPcs, ModePcs, Streams
  <1>6. Undisturbed(t) /\ Positioned(t)
    BY <1>1, <1>2, <1>3 DEF Undisturbed, Calm, Positioned, SameOutputs, SameInputs
  <1> QED
    BY <1>1, <1>2, <1>3, <1>4, <1>5, <1>6, PcmStep, HandleStep, CallStep DEF IInv,
       HalInvariant

(* An effect is added to an input.                                         *)
LEMMA AddEffectStep ==
    ASSUME IInv, NEW t \in Threads, NEW effect \in Effects,
           in_add_audio_effect(t, effect)
    PROVE  IInv'
  <1>1. /\ th[t] \in ThreadState /\ th[t].pc = "add_effect" /\ th[t].tgt \in Ins
        /\ hw_lock = t /\ th[t].op \notin {"mode", "close"} /\ lock[th[t].tgt] = None
    BY DEF WaitsFor, in_add_audio_effect, At, IInv, TypeOK, HalInvariant, LocksHeld,
       WellFormed, OwnsHw, OutPcs, InPcs, ModePcs
  <1>2. /\ hal' \in HalState
        /\ hal'.mode = hal.mode /\ hal'.in_call = hal.in_call
        /\ hal'.out = hal.out /\ SameInputs(hal', hal)
    <2> DEFINE i == th[t].tgt
               new == [hal.in[i] EXCEPT !.fx = @ \cup {effect},
                                            !.need = @ \/ effect = AEC]
    <2>1. hal \in HalState /\ i \in Ins /\ hal.in[i] \in InState
      BY <1>1 DEF IInv, TypeOK, HalState
    <2> HIDE DEF i
    <2>2. new \in InState /\ new.standby = hal.in[i].standby /\ new.pcm = hal.in[i].pcm
      BY <2>1 DEF InState
    <2>3. hal' = [hal EXCEPT !.in[i] = new]
      BY <2>1, ZenonT(90) DEF in_add_audio_effect, i, HalState, InState
    <2> HIDE DEF new
    <2> QED
      BY <2>1, <2>2, <2>3 DEF HalState, SameInputs
  <1>3. /\ Moves(t)
        /\ handle' = handle
        /\ \/ th'[t].pc = "idle" /\ th'[t].op = "none" /\ hw_lock' = None
           \/ /\ th'[t].pc = "in_stby" /\ hw_lock' = hw_lock
              /\ th'[t].op = th[t].op /\ th'[t].tgt = th[t].tgt
    BY <1>1 DEF in_add_audio_effect, ReturnUnlocked, EnterInputStandby, Goto, Return,
       Idle, Moves, IInv, TypeOK, ThreadState, PCs, Streams
  <1>4. TypeOK'
    BY <1>1, <1>2, <1>3 DEF in_add_audio_effect, ReturnUnlocked, EnterInputStandby,
       Goto, Return, Idle, Moves, IInv, TypeOK, Streams
  <1>5. LocksHeld'
    BY <1>1, <1>3, StreamsAssumption DEF in_add_audio_effect, ReturnUnlocked,
       EnterInputStandby, Goto, Return, Idle, Moves, IInv, TypeOK, HalInvariant,
       LocksHeld, WellFormed, OwnsHw, OwnsStream, OutPcs, InPcs, ModePcs, Streams
  <1>6. Undisturbed(t) /\ Positioned(t)
    BY <1>1, <1>2, <1>3 DEF Undisturbed, Calm, Positioned, SameOutputs, SameInputs
  <1> QED
    BY <1>1, <1>2, <1>3, <1>4, <1>5, <1>6, PcmStep, HandleStep, CallStep DEF IInv,
       HalInvariant

(* An effect is removed from an input.                                     *)
LEMMA RemoveEffectStep ==
    ASSUME IInv, NEW t \in Threads, NEW effect \in Effects, NEW described \in BOOLEAN,
           in_remove_audio_effect(t, effect, described)
    PROVE  IInv'
  <1>1. /\ th[t] \in ThreadState /\ th[t].pc = "remove_effect" /\ th[t].tgt \in Ins
        /\ hw_lock = t /\ th[t].op \notin {"mode", "close"} /\ lock[th[t].tgt] = None
    BY DEF WaitsFor, in_remove_audio_effect, At, IInv, TypeOK, HalInvariant, LocksHeld,
       WellFormed, OwnsHw, OutPcs, InPcs, ModePcs
  <1>2. /\ hal' \in HalState
        /\ hal'.mode = hal.mode /\ hal'.in_call = hal.in_call
        /\ hal'.out = hal.out /\ SameInputs(hal', hal)
    <2> DEFINE i == th[t].tgt
               new == [hal.in[i] EXCEPT !.fx = @ \ {effect},
                                            !.need = @ /\ ~(described /\ effect = AEC)]
    <2>1. hal \in HalState /\ i \in Ins /\ hal.in[i] \in InState
      BY <1>1 DEF IInv, TypeOK, HalState
    <2> HIDE DEF i
    <2>2. new \in InState /\ new.standby = hal.in[i].standby /\ new.pcm = hal.in[i].pcm
      BY <2>1 DEF InState
    <2>3. hal' = [hal EXCEPT !.in[i] = new]
      BY <2>1 DEF in_remove_audio_effect, i, HalState, InState
    <2> HIDE DEF new
    <2> QED
      BY <2>1, <2>2, <2>3 DEF HalState, SameInputs
  <1>3. /\ Moves(t)
        /\ handle' = handle
        /\ \/ th'[t].pc = "idle" /\ th'[t].op = "none" /\ hw_lock' = None
           \/ /\ th'[t].pc = "in_stby" /\ hw_lock' = hw_lock
              /\ th'[t].op = th[t].op /\ th'[t].tgt = th[t].tgt
    BY <1>1 DEF in_remove_audio_effect, ReturnUnlocked, EnterInputStandby, Goto, Return,
       Idle, Moves, IInv, TypeOK, ThreadState, PCs, Streams
  <1>4. TypeOK'
    BY <1>1, <1>2, <1>3 DEF in_remove_audio_effect, ReturnUnlocked, EnterInputStandby,
       Goto, Return, Idle, Moves, IInv, TypeOK, Streams
  <1>5. LocksHeld'
    BY <1>1, <1>3, StreamsAssumption DEF in_remove_audio_effect, ReturnUnlocked,
       EnterInputStandby, Goto, Return, Idle, Moves, IInv, TypeOK, HalInvariant,
       LocksHeld, WellFormed, OwnsHw, OwnsStream, OutPcs, InPcs, ModePcs, Streams
  <1>6. Undisturbed(t) /\ Positioned(t)
    BY <1>1, <1>2, <1>3 DEF Undisturbed, Calm, Positioned, SameOutputs, SameInputs
  <1> QED
    BY <1>1, <1>2, <1>3, <1>4, <1>5, <1>6, PcmStep, HandleStep, CallStep DEF IInv,
       HalInvariant

(* An effect is refused.                                                   *)
LEMMA EffectRefusedStep ==
    ASSUME IInv, NEW t \in Threads, effect_refused(t)
    PROVE  IInv'
  <1>1. /\ th[t] \in ThreadState /\ th[t].pc \in {"add_effect", "remove_effect"}
           /\ th[t].tgt \in Ins
        /\ hw_lock = t /\ th[t].op \notin {"mode", "close"}
    BY DEF effect_refused, At, IInv, TypeOK, HalInvariant, LocksHeld, WellFormed,
       OwnsHw, OutPcs, InPcs, ModePcs
  <1>2. /\ hal \in HalState
        /\ hal' = hal
    BY DEF effect_refused, IInv, TypeOK
  <1>3. /\ Moves(t)
        /\ handle' = handle
        /\ th'[t].pc = "idle" /\ th'[t].op = "none" /\ th'[t].tgt = None
    BY <1>1 DEF effect_refused, ReturnUnlocked, Return, Idle, Moves, IInv, TypeOK,
       ThreadState, PCs, Streams
  <1>4. TypeOK'
    BY <1>1, <1>2, <1>3 DEF effect_refused, ReturnUnlocked, Return, Idle, Moves, IInv,
       TypeOK, Streams
  <1>5. LocksHeld'
    BY <1>1, <1>3, StreamsAssumption DEF effect_refused, ReturnUnlocked, Return, Idle,
       Moves, IInv, TypeOK, HalInvariant, LocksHeld, WellFormed, OwnsHw, OwnsStream,
       OutPcs, InPcs, ModePcs, Streams
  <1>6. Undisturbed(t) /\ Positioned(t)
    BY <1>1, <1>2, <1>3 DEF Undisturbed, Calm, Positioned
  <1> QED
    BY <1>1, <1>2, <1>3, <1>4, <1>5, <1>6, PcmStep, HandleStep, CallStep DEF IInv,
       HalInvariant

(* An input goes to standby.                                               *)
LEMMA InputStandbyStep ==
    ASSUME IInv, NEW t \in Threads, input_standby(t)
    PROVE  IInv'
  <1>1. /\ th[t] \in ThreadState /\ th[t].pc = "in_stby" /\ th[t].tgt \in Ins
        /\ hw_lock = t /\ lock[th[t].tgt] = t
    BY DEF OwnsStream, Streams, input_standby, At, IInv, TypeOK, HalInvariant,
       LocksHeld, WellFormed, OwnsHw, OutPcs, InPcs, ModePcs
  <1>2. /\ hal' \in HalState
        /\ hal'.mode = hal.mode /\ hal'.in_call = hal.in_call
        /\ SameOutputs(hal', hal)
        /\ hal'.in[th[t].tgt].standby
        /\ \A i \in Ins \ {th[t].tgt} : hal'.in[i] = hal.in[i]
    BY <1>1, InputStandby DEF input_standby, IInv, TypeOK
  <1>3. /\ Moves(t)
        /\ handle' = handle
        /\ \/ th'[t].pc = "idle" /\ th'[t].op = "none" /\ th'[t].tgt = None
              /\ th[t].op # "mode" /\ hw_lock' = None
           \/ th'[t].pc = "mode_select" /\ th'[t].op = "mode" /\ th[t].op = "mode"
              /\ hw_lock' = hw_lock
           \/ th'[t].pc = "free" /\ th'[t].op = "close" /\ th[t].op = "close"
              /\ th'[t].tgt = th[t].tgt
              /\ hw_lock' = None
    BY <1>1 DEF input_standby, Goto, ReturnUnlocked, Return, Idle, Moves, IInv, TypeOK,
       ThreadState, PCs, Streams
  <1>4. TypeOK'
    BY <1>1, <1>2, <1>3 DEF input_standby, Goto, ReturnUnlocked, Return, Idle, Moves,
       IInv, TypeOK, Streams
  <1>5. LocksHeld'
    BY <1>1, <1>3, StreamsAssumption DEF input_standby, Goto, ReturnUnlocked, Return,
       Idle, Moves, IInv, TypeOK, HalInvariant, LocksHeld, WellFormed, OwnsHw,
       OwnsStream, OutPcs, InPcs, ModePcs, Streams
  <1>6. Undisturbed(t) /\ Positioned(t)
    BY <1>1, <1>2, <1>3, StreamsAssumption DEF Undisturbed, Calm, Positioned,
       StandingBy, SameOutputs
  <1> QED
    BY <1>1, <1>2, <1>3, <1>4, <1>5, <1>6, PcmStep, HandleStep, CallStep DEF IInv,
       HalInvariant

(* The mode changes.                                                       *)
LEMMA SetModeStep ==
    ASSUME IInv, NEW t \in Threads, NEW mode \in ModeSet, adev_set_mode(t, mode)
    PROVE  IInv'
  <1>1. /\ th[t] \in ThreadState /\ th[t] = Idle
        /\ th[t].op = "none"
        /\ hw_lock = None
        /\ \A s \in Streams : lock[s] # t
    BY DEF adev_set_mode, Idle, ThreadState, IInv, TypeOK, HalInvariant, LocksHeld,
       WellFormed, OwnsHw, OwnsStream, OutPcs, InPcs, ModePcs
  <1>2. /\ hal' \in HalState
        /\ hal'.mode = mode /\ hal'.in_call = (hal.in_call /\ mode = "IN_CALL")
        /\ hal'.out = hal.out /\ hal'.in = hal.in
    <2> DEFINE flag == hal.in_call /\ mode = "IN_CALL"
    <2>1. hal \in HalState /\ mode \in Modes /\ flag \in BOOLEAN
      BY InputsAssumption DEF IInv, TypeOK
    <2>2. hal' = [hal EXCEPT !.mode = mode, !.in_call = flag]
      BY <2>1 DEF adev_set_mode, HalState
    <2> HIDE DEF flag
    <2>3. hal' \in HalState /\ hal'.mode = mode /\ hal'.in_call = flag
          /\ hal'.out = hal.out /\ hal'.in = hal.in
      BY <2>1, <2>2 DEF HalState
    <2> QED
      BY <2>3 DEF flag
  <1>3. /\ Moves(t)
        /\ handle' = handle
        /\ \/ th'[t] = Idle /\ th'[t].op = "none" /\ th'[t].pc = "idle"
              /\ hw_lock' = hw_lock /\ ~CrossesCall(hal, mode)
           \/ th'[t].pc = "mode_out" /\ th'[t].op = "mode" /\ hw_lock' = t
              /\ CrossesCall(hal, mode)
    BY <1>1 DEF adev_set_mode, Idle, Moves, IInv, TypeOK, ThreadState, PCs, Streams
  <1>4. TypeOK'
    BY <1>1, <1>2, <1>3 DEF adev_set_mode, Idle, Moves, IInv, TypeOK, Streams
  <1>5. LocksHeld'
    BY <1>1, <1>3, StreamsAssumption DEF adev_set_mode, Idle, Moves, IInv, TypeOK,
       HalInvariant, LocksHeld, WellFormed, OwnsHw, OwnsStream, OutPcs, InPcs, ModePcs,
       Streams
  <1>6. Undisturbed(t) /\ Positioned(t)
    BY <1>1, <1>2, <1>3 DEF Undisturbed, Calm, Positioned, SameOutputs, SameInputs
  <1>7. CallKept'
    <2>1. /\ hal.in_call \in BOOLEAN
          /\ \A u \in Threads : th[u].op # "mode"
      <3>1. hal.in_call \in BOOLEAN
        BY DEF IInv, TypeOK, HalState
      <3>2. ASSUME NEW u \in Threads, th[u].op = "mode"
            PROVE  FALSE
        <4>1. u # None
          BY StreamsAssumption
        <4> QED
          BY <1>1, <3>2, <4>1 DEF IInv, HalInvariant, LocksHeld, WellFormed, OwnsHw,
             OwnsStream, ModePcs
      <3> QED
        BY <3>1, <3>2
    <2>2. hal.in_call <=> hal.mode = "IN_CALL"
      BY <2>1 DEF IInv, HalInvariant, CallKept
    <2>3. CASE th'[t].op = "none" /\ ~CrossesCall(hal, mode)
      BY <1>2, <1>3, <2>1, <2>2, <2>3 DEF Moves, CrossesCall, CallKept
    <2>4. CASE th'[t].pc = "mode_out" /\ th'[t].op = "mode" /\ CrossesCall(hal, mode)
      BY <1>2, <1>3, <2>1, <2>2, <2>4 DEF Moves, CrossesCall, CallKept
    <2> QED
      BY <1>3, <2>3, <2>4
  <1> QED
    BY <1>1, <1>2, <1>3, <1>4, <1>5, <1>6, <1>7, PcmStep, HandleStep DEF IInv,
       HalInvariant

(* The active output goes to standby for a new mode.                       *)
LEMMA ForceOutputStep ==
    ASSUME IInv, NEW t \in Threads, force_output_standby(t)
    PROVE  IInv'
  <1>1. /\ th[t] \in ThreadState /\ th[t].pc = "mode_out"
        /\ hw_lock = t /\ th[t].op = "mode"
        /\ hal.active_output # None => lock[hal.active_output] = None
    BY DEF WaitsFor, ActiveOutputLock, force_output_standby, At, IInv, TypeOK,
       HalInvariant, LocksHeld, WellFormed, OwnsHw, OutPcs, InPcs, ModePcs
  <1>2. /\ hal' \in HalState
        /\ hal'.mode = hal.mode /\ hal'.in_call = hal.in_call
        /\ \A o \in Outs :
             hal'.out[o] = hal.out[o] \/ (o = hal.active_output /\ hal'.out[o].standby)
        /\ hal'.in = hal.in
    BY OutputStandby, StreamsAssumption DEF force_output_standby, IInv, TypeOK, HalState
  <1>3. /\ Moves(t)
        /\ handle' = handle
        /\ th'[t].pc = "mode_in" /\ th'[t].op = th[t].op /\ th'[t].tgt = th[t].tgt
    BY <1>1 DEF force_output_standby, Goto, Moves, IInv, TypeOK, ThreadState, PCs,
       Streams
  <1>4. TypeOK'
    BY <1>1, <1>2, <1>3 DEF force_output_standby, Goto, Moves, IInv, TypeOK, Streams
  <1>5. LocksHeld'
    BY <1>1, <1>3, StreamsAssumption DEF force_output_standby, Goto, Moves, IInv,
       TypeOK, HalInvariant, LocksHeld, WellFormed, OwnsHw, OwnsStream, OutPcs, InPcs,
       ModePcs, Streams
  <1>6. Undisturbed(t) /\ Positioned(t)
    BY <1>1, <1>2, <1>3, StreamsAssumption DEF Undisturbed, Calm, Positioned,
       SameOutputs, SameInputs
  <1> QED
    BY <1>1, <1>2, <1>3, <1>4, <1>5, <1>6, PcmStep, HandleStep, CallStep DEF IInv,
       HalInvariant

(* The active input is about to go to standby for a new mode.              *)
LEMMA ForceInputStep ==
    ASSUME IInv, NEW t \in Threads, force_input_standby(t)
    PROVE  IInv'
  <1>1. /\ th[t] \in ThreadState /\ th[t].pc = "mode_in"
        /\ hw_lock = t /\ th[t].op = "mode"
        /\ hal.active_input \in Ins \cup {None}
        /\ hal.active_input # None => lock[hal.active_input] = None
    BY DEF WaitsFor, HalState, force_input_standby, At, IInv, TypeOK, HalInvariant,
       LocksHeld, WellFormed, OwnsHw, OutPcs, InPcs, ModePcs
  <1>2. /\ hal \in HalState
        /\ hal' = hal
    BY DEF force_input_standby, IInv, TypeOK
  <1>3. /\ Moves(t)
        /\ handle' = handle
        /\ th'[t].op = "mode"
        /\ \/ th'[t].pc = "mode_select" /\ lock' = lock
           \/ /\ th'[t].pc = "in_stby" /\ th'[t].tgt = hal.active_input
              /\ hal.active_input # None /\ lock' = [lock EXCEPT ![hal.active_input] = t]
    BY <1>1 DEF force_input_standby, Goto, Moves, IInv, TypeOK, ThreadState, PCs,
       Streams
  <1>4. TypeOK'
    BY <1>1, <1>2, <1>3 DEF force_input_standby, Goto, Moves, IInv, TypeOK, Streams
  <1>5. LocksHeld'
    BY <1>1, <1>3, StreamsAssumption DEF force_input_standby, Goto, Moves, IInv, TypeOK,
       HalInvariant, LocksHeld, WellFormed, OwnsHw, OwnsStream, OutPcs, InPcs, ModePcs,
       Streams
  <1>6. Undisturbed(t) /\ Positioned(t)
    BY <1>1, <1>2, <1>3 DEF Undisturbed, Calm, Positioned
  <1> QED
    BY <1>1, <1>2, <1>3, <1>4, <1>5, <1>6, PcmStep, HandleStep, CallStep DEF IInv,
       HalInvariant

(* The routes of a new mode are selected.                                  *)
LEMMA SelectModeStep ==
    ASSUME IInv, NEW t \in Threads, select_mode(t)
    PROVE  IInv'
  <1>1. /\ th[t] \in ThreadState /\ th[t].pc = "mode_select"
        /\ hw_lock = t /\ th[t].op = "mode"
        /\ ~hal.in_call
    BY DEF CallKept, select_mode, At, IInv, TypeOK, HalInvariant, LocksHeld,
       WellFormed, OwnsHw, OutPcs, InPcs, ModePcs
  <1>2. /\ hal' \in HalState
        /\ hal'.mode = hal.mode /\ hal'.in_call = hal.in_call
        /\ hal'.out = hal.out /\ hal'.in = hal.in
        /\ hal.voice_volume \in 0..100
    <2>1. hal \in HalState /\ hal.voice_volume \in 0..100
      BY DEF IInv, TypeOK, HalState
    <2>2. LET r == CallDevices(hal) IN
          /\ r \in HalState
          /\ r.mode = hal.mode /\ r.in_call = hal.in_call /\ r.out = hal.out
             /\ r.in = hal.in
      BY <2>1, CallDevicesType
    <2>3. CASE hal.mode = "IN_CALL"
      BY <2>1, <2>2, <2>3, SelectOutput DEF select_mode
    <2>4. CASE hal.mode # "IN_CALL"
      BY <2>1, <2>4, SelectOutput, SelectInput DEF select_mode
    <2> QED
      BY <2>3, <2>4
  <1>3. /\ Moves(t)
        /\ handle' = handle
        /\ \/ /\ th'[t].pc = "volume_store" /\ th'[t].op = "mode" /\ hw_lock' = hw_lock
              /\ hal.mode = "IN_CALL"
           \/ /\ th'[t].pc = "idle" /\ th'[t].op = "none" /\ hw_lock' = None
              /\ hal.mode # "IN_CALL"
    BY <1>1, <1>2 DEF select_mode, ReturnUnlocked, Return, Idle, Moves, IInv, TypeOK,
       ThreadState, PCs, Streams
  <1>4. TypeOK'
    BY <1>1, <1>2, <1>3 DEF select_mode, ReturnUnlocked, Return, Idle, Moves, IInv,
       TypeOK, Streams
  <1>5. LocksHeld'
    BY <1>1, <1>3, StreamsAssumption, <1>2 DEF select_mode, ReturnUnlocked, Return,
       Idle, Moves, IInv, TypeOK, HalInvariant, LocksHeld, WellFormed, OwnsHw,
       OwnsStream, OutPcs, InPcs, ModePcs, Streams
  <1>6. Undisturbed(t) /\ Positioned(t)
    BY <1>1, <1>2, <1>3 DEF Undisturbed, Calm, Positioned, SameOutputs, SameInputs
  <1>7. CallKept'
    BY <1>1, <1>2, <1>3 DEF Moves, IInv, HalInvariant, CallKept, LocksHeld, WellFormed,
       OwnsHw, ModePcs
  <1> QED
    BY <1>1, <1>2, <1>3, <1>4, <1>5, <1>6, <1>7, PcmStep, HandleStep DEF IInv,
       HalInvariant

(* The voice volume is stored by a call of its own.                        *)
LEMMA SetVolumeStep ==
    ASSUME IInv, NEW t \in Threads, NEW volume \in Volumes,
           adev_set_voice_volume(t, volume)
    PROVE  IInv'
  <1>1. /\ th[t] \in ThreadState /\ th[t] = Idle
        /\ th[t].op = "none"
        /\ \A s \in Streams : lock[s] # t
        /\ hw_lock # t
    BY DEF adev_set_voice_volume, Idle, ThreadState, IInv, TypeOK, HalInvariant,
       LocksHeld, WellFormed, OwnsHw, OwnsStream, OutPcs, InPcs, ModePcs
  <1>2. /\ hal' \in HalState
        /\ hal'.mode = hal.mode /\ hal'.in_call = hal.in_call
        /\ hal'.out = hal.out /\ hal'.in = hal.in
    BY InputsAssumption DEF adev_set_voice_volume, IInv, TypeOK, HalState
  <1>3. /\ Moves(t)
        /\ handle' = handle
        /\ th'[t].pc = "volume_ctl" /\ th'[t].op = "none" /\ th'[t].tgt = None
    <2>1. volume \in 0..100
      BY InputsAssumption
    <2>2. th \in [Threads -> ThreadState]
      BY DEF IInv, TypeOK
    <2>3. [th[t] EXCEPT !.pc = "volume_ctl", !.vol = volume] \in ThreadState
      BY <1>1, <2>1 DEF ThreadState, PCs
    <2> QED
      BY <1>1, <2>1, <2>2, <2>3 DEF adev_set_voice_volume, Idle, Moves, ThreadState, PCs
  <1>4. TypeOK'
    BY <1>1, <1>2, <1>3 DEF adev_set_voice_volume, Idle, Moves, IInv, TypeOK, Streams
  <1>5. LocksHeld'
    BY <1>1, <1>3, StreamsAssumption, InputsAssumption DEF adev_set_voice_volume, Idle,
       Moves, IInv, TypeOK, HalInvariant, LocksHeld, WellFormed, OwnsHw, OwnsStream,
       OutPcs, InPcs, ModePcs, Streams
  <1>6. Undisturbed(t) /\ Positioned(t)
    BY <1>1, <1>2, <1>3 DEF Undisturbed, Calm, Positioned, SameOutputs, SameInputs
  <1> QED
    BY <1>1, <1>2, <1>3, <1>4, <1>5, <1>6, PcmStep, HandleStep, CallStep DEF IInv,
       HalInvariant

(* The voice volume is stored by the change of mode.                       *)
LEMMA StoreVolumeStep ==
    ASSUME IInv, NEW t \in Threads, store_voice_volume(t)
    PROVE  IInv'
  <1>1. /\ th[t] \in ThreadState /\ th[t].pc = "volume_store"
        /\ hw_lock = t /\ th[t].op = "mode" /\ hal.mode = "IN_CALL"
    BY DEF CallKept, store_voice_volume, At, IInv, TypeOK, HalInvariant, LocksHeld,
       WellFormed, OwnsHw, OutPcs, InPcs, ModePcs
  <1>2. /\ hal' \in HalState
        /\ hal'.mode = hal.mode /\ hal'.in_call = hal.in_call
        /\ hal'.out = hal.out /\ hal'.in = hal.in
    BY <1>1 DEF store_voice_volume, IInv, TypeOK, HalState, ThreadState
  <1>3. /\ Moves(t)
        /\ handle' = handle
        /\ th'[t].pc = "volume_ctl" /\ th'[t].op = "mode"
    BY <1>1 DEF store_voice_volume, Goto, Moves, IInv, TypeOK, ThreadState, PCs, Streams
  <1>4. TypeOK'
    BY <1>1, <1>2, <1>3 DEF store_voice_volume, Goto, Moves, IInv, TypeOK, Streams
  <1>5. LocksHeld'
    BY <1>1, <1>3, StreamsAssumption DEF store_voice_volume, Goto, Moves, IInv, TypeOK,
       HalInvariant, LocksHeld, WellFormed, OwnsHw, OwnsStream, OutPcs, InPcs, ModePcs,
       Streams
  <1>6. Undisturbed(t) /\ Positioned(t)
    BY <1>1, <1>2, <1>3 DEF Undisturbed, Calm, Positioned, SameOutputs, SameInputs
  <1> QED
    BY <1>1, <1>2, <1>3, <1>4, <1>5, <1>6, PcmStep, HandleStep, CallStep DEF IInv,
       HalInvariant

(* The voice volume is written to its control.                             *)
LEMMA WriteVolumeStep ==
    ASSUME IInv, NEW t \in Threads, write_voice_volume(t)
    PROVE  IInv'
  <1>1. /\ th[t] \in ThreadState /\ th[t].pc = "volume_ctl"
        /\ th[t].op # "close" /\ \A s \in Streams : lock[s] # t
        /\ th[t].op = "mode" <=> hw_lock = t
        /\ th[t].op = "mode" => hal.mode = "IN_CALL"
    BY DEF CallKept, OwnsStream, write_voice_volume, At, IInv, TypeOK, HalInvariant,
       LocksHeld, WellFormed, OwnsHw, OutPcs, InPcs, ModePcs
  <1>2. /\ hal' \in HalState
        /\ hal'.mode = hal.mode /\ hal'.in_call = (hal.in_call \/ th[t].op = "mode")
        /\ hal'.out = hal.out /\ hal'.in = hal.in
    <2>1. VoiceVolumeCtl(th[t].vol) \in 0..MAX_VOICE_VOLUME
      BY <1>1, VolumeRange DEF ThreadState
    <2> QED
      BY <2>1, ZenonT(90) DEF write_voice_volume, IInv, TypeOK, HalState
  <1>3. /\ Moves(t)
        /\ handle' = handle
        /\ th'[t].pc = "idle" /\ th'[t].op = "none" /\ th'[t].tgt = None
    BY <1>1 DEF write_voice_volume, Return, Idle, Moves, IInv, TypeOK, ThreadState, PCs,
       Streams
  <1>4. TypeOK'
    BY <1>1, <1>2, <1>3 DEF write_voice_volume, Return, Idle, Moves, IInv, TypeOK,
       Streams
  <1>5. LocksHeld'
    BY <1>1, <1>3, StreamsAssumption DEF write_voice_volume, Return, Idle, Moves, IInv,
       TypeOK, HalInvariant, LocksHeld, WellFormed, OwnsHw, OwnsStream, OutPcs, InPcs,
       ModePcs, Streams
  <1>6. Undisturbed(t) /\ Positioned(t)
    BY <1>1, <1>2, <1>3 DEF Undisturbed, Calm, Positioned, SameOutputs, SameInputs
  <1>7. CallKept'
    <2>1. CASE th[t].op = "mode"
      <3>1. \A u \in Threads \ {t} : th[u].op # "mode"
        BY <1>1, <2>1 DEF IInv, HalInvariant, LocksHeld, WellFormed, OwnsHw, ModePcs
      <3> QED
        BY <1>1, <1>2, <1>3, <2>1, <3>1, ZenonT(90) DEF Moves, CallKept
    <2>2. CASE th[t].op # "mode"
      BY <1>2, <1>3, <2>2, CallStep DEF IInv, TypeOK, HalState
    <2> QED
      BY <2>1, <2>2
  <1> QED
    BY <1>1, <1>2, <1>3, <1>4, <1>5, <1>6, <1>7, PcmStep, HandleStep DEF IInv,
       HalInvariant

(* The TTY mode changes.                                                   *)
LEMMA TtyStep ==
    ASSUME IInv, NEW t \in Threads, NEW tty_mode \in TtySet,
           adev_set_parameters(t, tty_mode)
    PROVE  IInv'
  <1>1. /\ th[t] \in ThreadState /\ th[t] = Idle
        /\ th[t].op = "none"
        /\ hw_lock = None
        /\ \A s \in Streams : lock[s] # t
    BY DEF adev_set_parameters, Idle, ThreadState, IInv, TypeOK, HalInvariant,
       LocksHeld, WellFormed, OwnsHw, OwnsStream, OutPcs, InPcs, ModePcs
  <1>2. /\ hal' \in HalState
        /\ hal'.mode = hal.mode /\ hal'.in_call = hal.in_call
        /\ hal'.out = hal.out /\ hal'.in = hal.in
    <2> DEFINE h == [hal EXCEPT !.tty_mode = tty_mode]
    <2>1. /\ h \in HalState
          /\ h.mode = hal.mode /\ h.in_call = hal.in_call /\ h.out = hal.out
             /\ h.in = hal.in
      BY InputsAssumption DEF IInv, TypeOK, HalState
    <2>2. hal' = h \/ hal' = select_output_device(h)
      BY DEF adev_set_parameters
    <2> HIDE DEF h
    <2> QED
      BY <2>1, <2>2, SelectOutput
  <1>3. /\ Moves(t)
        /\ handle' = handle
        /\ th'[t] = Idle /\ th'[t].op = "none" /\ th'[t].pc = "idle"
    BY <1>1 DEF adev_set_parameters, Idle, Moves, IInv, TypeOK, ThreadState, PCs,
       Streams
  <1>4. TypeOK'
    BY <1>1, <1>2, <1>3 DEF adev_set_parameters, Idle, Moves, IInv, TypeOK, Streams
  <1>5. LocksHeld'
    BY <1>1, <1>3, StreamsAssumption DEF adev_set_parameters, Idle, Moves, IInv, TypeOK,
       HalInvariant, LocksHeld, WellFormed, OwnsHw, OwnsStream, OutPcs, InPcs, ModePcs,
       Streams
  <1>6. Undisturbed(t) /\ Positioned(t)
    BY <1>1, <1>2, <1>3 DEF Undisturbed, Calm, Positioned, SameOutputs, SameInputs
  <1> QED
    BY <1>1, <1>2, <1>3, <1>4, <1>5, <1>6, PcmStep, HandleStep, CallStep DEF IInv,
       HalInvariant

(* An output is opened.                                                    *)
LEMMA OpenOutputStep ==
    ASSUME IInv, NEW o \in Outs, adev_open_output_stream(o)
    PROVE  IInv'
  <1>1. /\ hal' \in HalState
        /\ hal'.mode = hal.mode /\ hal'.in_call = hal.in_call
        /\ hal'.out[o].standby
        /\ \A p \in Outs \ {o} : hal'.out[p] = hal.out[p]
        /\ hal'.in = hal.in
    BY DEF adev_open_output_stream, IInv, TypeOK, HalState, OutState, OutPcm, NewOut
  <1>2. TypeOK' /\ LocksHeld'
    BY <1>1 DEF adev_open_output_stream, IInv, TypeOK, HalInvariant, LocksHeld,
       WellFormed, OwnsHw, OwnsStream, Streams
  <1>3. HandlesKept'
    BY DEF adev_open_output_stream, IInv, TypeOK, HalInvariant, HandlesKept, Streams
  <1>4. PcmKept' /\ PcmSafe'
    BY <1>1, StreamsAssumption DEF adev_open_output_stream, IInv, HalInvariant,
       HandlesKept, PcmSafe, PcmKept, StandingBy, LocksHeld, WellFormed, OutPcs, InPcs,
       Streams
  <1>5. CallKept'
    BY <1>1 DEF adev_open_output_stream, IInv, HalInvariant, CallKept
  <1> QED
    BY <1>2, <1>3, <1>4, <1>5 DEF IInv, HalInvariant

(* An input is opened.                                                     *)
LEMMA OpenInputStep ==
    ASSUME IInv, NEW i \in Ins, adev_open_input_stream(i)
    PROVE  IInv'
  <1>1. /\ hal' \in HalState
        /\ hal'.mode = hal.mode /\ hal'.in_call = hal.in_call
        /\ hal'.in[i].standby
        /\ \A j \in Ins \ {i} : hal'.in[j] = hal.in[j]
        /\ hal'.out = hal.out
    <2>1. PICK d \in MicSet : hal' = [hal EXCEPT !.in[i] = NewIn(d)]
      BY DEF adev_open_input_stream
    <2> DEFINE ins == [hal.in EXCEPT ![i] = NewIn(d)]
    <2>2. NewIn(d) \in InState /\ NewIn(d).standby
      BY InputsAssumption DEF NewIn, InState, OutPcm
    <2>3. hal \in HalState /\ hal.in \in [Ins -> InState]
      BY DEF IInv, TypeOK, HalState
    <2>4. ins \in [Ins -> InState] /\ ins[i].standby
          /\ \A j \in Ins \ {i} : ins[j] = hal.in[j]
      BY <2>2, <2>3
    <2>5. hal' = [hal EXCEPT !.in = ins]
      BY <2>1
    <2> HIDE DEF ins
    <2> QED
      BY <2>3, <2>4, <2>5 DEF HalState
  <1>2. TypeOK' /\ LocksHeld'
    BY <1>1 DEF adev_open_input_stream, IInv, TypeOK, HalInvariant, LocksHeld,
       WellFormed, OwnsHw, OwnsStream, Streams
  <1>3. HandlesKept'
    BY DEF adev_open_input_stream, IInv, TypeOK, HalInvariant, HandlesKept, Streams
  <1>4. PcmKept' /\ PcmSafe'
    BY <1>1, StreamsAssumption DEF adev_open_input_stream, IInv, HalInvariant,
       HandlesKept, PcmSafe, PcmKept, StandingBy, LocksHeld, WellFormed, OutPcs, InPcs,
       Streams
  <1>5. CallKept'
    BY <1>1 DEF adev_open_input_stream, IInv, HalInvariant, CallKept
  <1> QED
    BY <1>2, <1>3, <1>4, <1>5 DEF IInv, HalInvariant

(* Every initial state satisfies the invariant: no thread is in a call.    *)
LEMMA InitInv == Init => IInv
  <1> SUFFICES ASSUME Init
               PROVE  IInv
    OBVIOUS
  <1>1. /\ \A t \in Threads : th[t] = Idle
        /\ Idle \in ThreadState
    BY DEF Init, Idle, ThreadState, PCs
  <1>2. NewOut \in OutState /\ NewIn("BUILTIN_MIC") \in InState
    BY DEF NewOut, NewIn, OutState, InState, OutPcm, InDevices
  <1>3. set_route_by_array(BootMixer, route_speaker) \in [Controls -> Settings]
    <2>1. BootMixer \in [Controls -> Settings]
      BY DEF BootMixer, Settings
    <2> QED
      BY <2>1, Tables, RouteType
  <1>4. /\ adev_open \in HalState
        /\ \A o \in Outs : adev_open.out[o] = NewOut
        /\ \A i \in Ins : adev_open.in[i] = NewIn("BUILTIN_MIC")
        /\ ~adev_open.in_call /\ adev_open.mode = "NORMAL"
    BY <1>2, <1>3 DEF adev_open, HalState, Modes, OutDevices, InDevices, TtyModes,
       MAX_VOICE_VOLUME
  <1>5. /\ hal \in HalState
        /\ hal.out = adev_open.out /\ hal.in = adev_open.in
        /\ ~hal.in_call /\ hal.mode = "NORMAL"
    BY <1>4, SelectOutput DEF Init
  <1>6. TypeOK
    BY <1>1, <1>5 DEF Init, TypeOK
  <1>7. LocksHeld
    BY <1>1, StreamsAssumption DEF Init, LocksHeld, WellFormed, OwnsHw, OwnsStream,
       OutPcs, InPcs, ModePcs, Idle
  <1>8. HandlesKept /\ PcmSafe /\ CallKept
    BY <1>1, <1>5 DEF HandlesKept, PcmSafe, CallKept, Idle
  <1>9. PcmKept
    BY <1>1, <1>4, <1>5 DEF PcmKept, Idle, NewOut, NewIn
  <1> QED
    BY <1>6, <1>7, <1>8, <1>9 DEF IInv, HalInvariant

(* Every step of a call that has begun keeps the invariant.                *)
LEMMA ContinueStep ==
    ASSUME IInv, NEW t \in Threads, Continue(t)
    PROVE  IInv'
  <1>1. CASE out_write(t) \/ start_output_stream(t) \/ start_output_fails(t)
             \/ write_io(t) \/ write_tail(t)
    BY <1>1, OutWriteStep, StartOutputStep, StartOutputFailsStep, WriteIoStep,
       WriteTailStep
  <1>2. CASE (\E devices \in RouteSets : out_set_parameters(t, devices)) \/ out_standby(t)
    BY <1>2, RouteStep, OutStandbyStep
  <1>3. CASE in_read(t) \/ start_input_stream(t) \/ start_input_fails(t) \/ read_io(t)
             \/ in_standby(t) \/ input_standby(t)
    BY <1>3, InReadStep, StartInputStep, StartInputFailsStep, ReadIoStep, InStandbyStep,
       InputStandbyStep
  <1>4. CASE \E source \in Sources \cup {None}, device \in MicSet \cup {None} :
               in_set_parameters(t, source, device)
    BY <1>4, InParametersStep
  <1>5. CASE \E effect \in Effects : in_add_audio_effect(t, effect)
    BY <1>5, AddEffectStep
  <1>6. CASE \E effect \in Effects, described \in BOOLEAN :
               in_remove_audio_effect(t, effect, described)
    BY <1>6, RemoveEffectStep
  <1>7. CASE effect_refused(t) \/ force_output_standby(t) \/ force_input_standby(t)
             \/ select_mode(t) \/ store_voice_volume(t) \/ write_voice_volume(t) \/ Free(t)
    BY <1>7, EffectRefusedStep, ForceOutputStep, ForceInputStep, SelectModeStep,
       StoreVolumeStep, WriteVolumeStep, FreeStep
  <1> QED
    BY <1>1, <1>2, <1>3, <1>4, <1>5, <1>6, <1>7 DEF Continue

(* The first step of every call keeps the invariant.                       *)
LEMMA BeginStep ==
    ASSUME IInv, NEW t \in Threads, Begin(t)
    PROVE  IInv'
  <1>1. ASSUME NEW o \in Outs, CallOut(t, o) \/ adev_close_output_stream(t, o)
        PROVE  IInv'
    BY <1>1, CallOutStep, CloseStep DEF adev_close_output_stream, Streams
  <1>2. ASSUME NEW i \in Ins, CallIn(t, i) \/ adev_close_input_stream(t, i)
        PROVE  IInv'
    BY <1>2, CallInStep, CloseStep DEF adev_close_input_stream, Streams
  <1>3. CASE \E mode \in ModeSet : adev_set_mode(t, mode)
    BY <1>3, SetModeStep
  <1>4. CASE \E volume \in Volumes : adev_set_voice_volume(t, volume)
    BY <1>4, SetVolumeStep
  <1>5. CASE \E tty_mode \in TtySet : adev_set_parameters(t, tty_mode)
    BY <1>5, TtyStep
  <1> QED
    BY <1>1, <1>2, <1>3, <1>4, <1>5 DEF Begin

(* The invariant is inductive.                                             *)
LEMMA Inductive == IInv /\ [Next]_vars => IInv'
  <1> SUFFICES ASSUME IInv, [Next]_vars
               PROVE  IInv'
    OBVIOUS
  <1>1. CASE \E t \in Threads : Begin(t) \/ Continue(t)
    BY <1>1, BeginStep, ContinueStep
  <1>2. CASE \E o \in Outs : adev_open_output_stream(o)
    BY <1>2, OpenOutputStep
  <1>3. CASE \E i \in Ins : adev_open_input_stream(i)
    BY <1>3, OpenInputStep
  <1>4. CASE UNCHANGED vars
    BY <1>4 DEF vars, IInv, TypeOK, HalInvariant, LocksHeld, HandlesKept, PcmKept,
       PcmSafe, CallKept, StandingBy
  <1> QED
    BY <1>1, <1>2, <1>3, <1>4 DEF Next

(* The invariant holds in every state the HAL reaches.                     *)
LEMMA Reachable == Spec => []IInv
  BY InitInv, Inductive, PTL DEF Spec

-----------------------------------------------------------------------------
(* Whatever the framework's threads call, in whatever order they are       *)
(* scheduled, the device and its streams keep their types.                 *)
THEOREM TypeCorrect == Spec => []TypeOK
  <1>1. IInv => TypeOK
    BY DEF IInv
  <1> QED
    BY <1>1, Reachable, PTL

(* The discipline of locks, handles, PCMs and the call flag is kept by     *)
(* every interleaving of the calls of audio_hw.c.                          *)
THEOREM Invariance == Spec => []HalInvariant
  <1>1. IInv => HalInvariant
    BY DEF IInv
  <1> QED
    BY <1>1, Reachable, PTL

(* The transfers of out_write and in_read, which run without adev->lock,   *)
(* have the lock of their stream, and its pcm stays open under them.       *)
THEOREM PcmSafety == Spec => []PcmSafe
  <1>1. IInv => PcmSafe
    BY DEF IInv, HalInvariant
  <1> QED
    BY <1>1, Reachable, PTL

LEMMA LocksOrdered == ASSUME IInv PROVE LockOrder
  <1> SUFFICES ASSUME NEW t \in Threads, NEW l \in WaitsFor(t)
               PROVE  /\ hw_lock = t
                      /\ \A s \in Streams : lock[s] = t => Rank(s) < Rank(l)
    BY DEF LockOrder
  <1>1. /\ hw_lock = t <=> OwnsHw(th[t])
        /\ \A s \in Streams : lock[s] = t => OwnsStream(th[t], s)
        /\ WellFormed(th[t])
    BY DEF IInv, HalInvariant, LocksHeld
  <1>2. th[t].pc \in {"write", "route", "out_standby", "read", "force", "in_standby",
                      "in_params", "add_effect", "remove_effect", "mode_out", "mode_in",
                      "start_in", "in_stby"}
    BY DEF WaitsFor
  <1>3. hw_lock = t
    BY <1>1, <1>2 DEF OwnsHw, ModePcs
  <1>4. ASSUME NEW s \in Streams, lock[s] = t
        PROVE  Rank(s) < Rank(l)
    <2>1. th[t].pc \in {"start_in", "in_stby"} /\ s = th[t].tgt
      BY <1>1, <1>2, <1>4 DEF OwnsStream
    <2>2. s \in Ins
      BY <1>1, <2>1 DEF WellFormed, InPcs
    <2>3. l \in ActiveOutputLock
      BY <2>1 DEF WaitsFor
    <2>4. l \in Outs
      BY <2>3 DEF ActiveOutputLock, IInv, TypeOK, HalState
    <2> QED
      BY <2>2, <2>4, StreamsAssumption DEF Rank
  <1> QED
    BY <1>3, <1>4

(* The NOTE on mutexes is obeyed by all calls: who waits for a stream has  *)
(* adev->lock, and who waits for an output has at most locks of inputs.    *)
THEOREM LockOrdering == Spec => []LockOrder
  BY LocksOrdered, Reachable, PTL

(* Who waits for a stream's lock waits for a thread in a transfer.         *)
LEMMA WaitsForTransfer ==
    ASSUME IInv, NEW t \in Threads, NEW l \in WaitsFor(t), NEW u \in Threads, lock[l] = u
    PROVE  hw_lock = t /\ th[u].pc \in {"write_io", "read_io", "read_sleep"}
  <1>1. hw_lock = t /\ (l \in Streams => lock[l] # t)
    BY LocksOrdered DEF LockOrder, Rank
  <1>2. l \in Streams
    <2>1. WellFormed(th[t]) /\ ActiveOutputLock \subseteq Streams
          /\ hal.active_input \in Ins \cup {None}
      BY DEF IInv, TypeOK, HalInvariant, LocksHeld, HalState, ActiveOutputLock, Streams
    <2> QED
      BY <2>1 DEF WaitsFor, WellFormed, OutPcs, InPcs, Streams
  <1>3. ~OwnsHw(th[u]) /\ OwnsStream(th[u], l)
    BY <1>1, <1>2 DEF IInv, HalInvariant, LocksHeld
  <1> QED
    BY <1>1, <1>2, <1>3 DEF OwnsHw, OwnsStream

(* No threads wait for each other in a circle, whatever their number: the  *)
(* owner of adev->lock waits for streams in a transfer only, the others for*)
(* that owner, and a transfer for nobody.                                  *)
THEOREM WaitsEnding == Spec => []WaitsEnd
  <1>1. IInv => WaitsEnd
    <2> SUFFICES ASSUME IInv, NEW t \in Threads, NEW u \in Awaits(t), NEW v \in Awaits(u)
                 PROVE  th[v].pc \in {"write_io", "read_io", "read_sleep"} /\ Awaits(v) = {}
      BY DEF WaitsEnd
    <2>1. u \in Threads /\ v \in Threads
      BY DEF Awaits
    <2>2. ASSUME NEW x \in Threads, th[x].pc \in {"write_io", "read_io", "read_sleep"}
          PROVE  Awaits(x) = {}
      BY <2>2 DEF Awaits, WaitsFor
    <2>3. th[t].pc = "write_tail" /\ hw_lock = u
      BY <2>1, <2>2, WaitsForTransfer DEF Awaits
    <2>4. th[u].pc # "write_tail"
      BY <2>1, <2>3 DEF IInv, HalInvariant, LocksHeld, OwnsHw, ModePcs
    <2>5. \E l \in WaitsFor(u) : lock[l] = v
      BY <2>4 DEF Awaits
    <2> QED
      BY <2>1, <2>2, <2>5, WaitsForTransfer
  <1> QED
    BY <1>1, Reachable, PTL

(* When adev->lock is free, in_call says whether the mode is a call: a     *)
(* change of mode clears or sets it before anyone else can look.           *)
THEOREM CallFlagAgrees == Spec => []CallFlag
  <1>1. IInv => CallFlag
    <2> SUFFICES ASSUME IInv, hw_lock = None
                 PROVE  hal.in_call <=> hal.mode = "IN_CALL"
      BY DEF CallFlag
    <2>1. ASSUME NEW t \in Threads, th[t].op = "mode"
          PROVE  FALSE
      <3>1. t # None
        BY StreamsAssumption
      <3> QED
        BY <2>1, <3>1 DEF IInv, HalInvariant, LocksHeld, WellFormed, OwnsHw, ModePcs
    <2> QED
      BY <2>1 DEF IInv, HalInvariant, CallKept
  <1> QED
    BY <1>1, Reachable, PTL
=============================================================================
