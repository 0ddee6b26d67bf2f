----------------------------- MODULE PcmStreams -----------------------------
(***************************************************************************)
(* What the audio HAL promises of its streams, seen from the PCM devices:  *)
(* a stream is stopped or closed only when no transfer is going on, and at *)
(* most one stream of each direction has the device.                       *)
(***************************************************************************)
CONSTANTS Outs, Ins

VARIABLE phase

Streams == Outs \cup Ins
Phases == {"closed", "standby", "running", "transfer"}

Peers(s) == (IF s \in Outs THEN Outs ELSE Ins) \ {s}

Step(s, from, to) == phase[s] = from /\ phase' = [phase EXCEPT ![s] = to]

Open(s) == Step(s, "closed", "standby")

Start(s) ==
    /\ Step(s, "standby", "transfer")
    /\ \A p \in Peers(s) : phase[p] \in {"closed", "standby"}

Resume(s) == Step(s, "running", "transfer")
Done(s) == Step(s, "transfer", "running")
Stop(s) == Step(s, "running", "standby")
Close(s) == Step(s, "standby", "closed")

Init == phase = [s \in Streams |-> "closed"]
Next == \E s \in Streams :
          Open(s) \/ Start(s) \/ Resume(s) \/ Done(s) \/ Stop(s) \/ Close(s)

Spec == Init /\ [][Next]_phase
=============================================================================
