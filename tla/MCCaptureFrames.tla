-------------------------- MODULE MCCaptureFrames --------------------------
(***************************************************************************)
(* Streams and effects for model checking CaptureFrames.                   *)
(***************************************************************************)
EXTENDS CaptureFrames

(* Effects and echo reference of any behaviour, across restarts.           *)
AnyEffects ==
    [period |-> 2, ratio |-> 1, requests |-> {1, 3}, hold |-> 1, kernel |-> 2,
     failures |-> FALSE, restarts |-> TRUE, toggle |-> FALSE, lockstep |-> FALSE,
     eager |-> FALSE, maxframe |-> 7, maxskew |-> 3]

(* A resampled stream whose reads and restarts may fail, and one whose     *)
(* reads do not fail.                                                      *)
FailingResampled ==
    [period |-> 3, ratio |-> 2, requests |-> {1, 2}, hold |-> 1, kernel |-> 1,
     failures |-> TRUE, restarts |-> TRUE, toggle |-> FALSE, lockstep |-> FALSE,
     eager |-> FALSE, maxframe |-> 9, maxskew |-> 3]
SteadyResampled == [FailingResampled EXCEPT !.failures = FALSE, !.restarts = FALSE]

(* Effects that consume what they are given, added and removed between     *)
(* reads that may fail.                                                    *)
LockStepEffects ==
    [period |-> 2, ratio |-> 1, requests |-> {1, 2, 3}, hold |-> 3, kernel |-> 1,
     failures |-> TRUE, restarts |-> TRUE, toggle |-> TRUE, lockstep |-> TRUE,
     eager |-> FALSE, maxframe |-> 6, maxskew |-> 9]

(* Effects that make progress, with reads that may fail.                   *)
EagerEffects ==
    [period |-> 2, ratio |-> 1, requests |-> {1, 3}, hold |-> 1, kernel |-> 1,
     failures |-> TRUE, restarts |-> TRUE, toggle |-> FALSE, lockstep |-> FALSE,
     eager |-> TRUE, maxframe |-> 6, maxskew |-> 99]

AllSetups ==
    {AnyEffects, FailingResampled, SteadyResampled, LockStepEffects,
     EagerEffects}
EffectsSetup == {AnyEffects}
=============================================================================
