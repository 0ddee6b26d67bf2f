------------------------------- MODULE Lights -------------------------------
(***************************************************************************)
(* The lights module of liblights/lights.c: the backlight, the buttons and *)
(* the notification light, set by threads of the framework through nodes   *)
(* of the kernel.  The framework sets one light at a time; calls for       *)
(* different lights interleave, the library has no lock.                   *)
(***************************************************************************)
EXTENDS LedPattern

CONSTANTS States,     \* light states the framework sets: color, mode, on, off
          WriteFails, \* a node may be missing, or refuse a write
          MaxCalls    \* bound: calls of set_light

(* Periods as the framework has them: their sum and seven times the longer *)
(* part are int values.                                                    *)
MaxInt == 2147483647
Periods == 0..(MaxInt \div 7)

LightsAssumption ==
    /\ \A s \in States : /\ s.color \in Color /\ s.mode \in FlashModes
                         /\ {s.on, s.off} \subseteq Periods
                         /\ s.on + s.off <= MaxInt
    /\ WriteFails \in BOOLEAN
    /\ MaxCalls \in Nat

LightIds == {"backlight", "buttons", "notifications"}

VARIABLES
    pc,     \* pc[l]: the write a call for light l is at, "idle" between calls
    state,  \* state[l]: the state last asked for
    node,   \* what the nodes of the kernel hold
    failed, \* failed[l]: a write of the last call for l failed
    calls

vars == <<pc, state, node, failed, calls>>

Dark == [color |-> [r |-> 0, g |-> 0, b |-> 0], mode |-> "none", on |-> 0, off |-> 0]

Init ==
    /\ pc = [l \in LightIds |-> "idle"]
    /\ state = [l \in LightIds |-> Dark]
    /\ node = [brightness |-> 0, lcd |-> 0, button |-> 0, touchkey_enabled |-> 0,
               pattern |-> Written(Dark)]
    /\ failed = [l \in LightIds |-> FALSE]
    /\ calls = 0

FirstWrite(l) ==
    CASE l = "backlight" -> "half" [] l = "buttons" -> "button"
      [] l = "notifications" -> "full"

(* The framework calls set_light of an opened light.                       *)
Call(l, s) ==
    /\ pc[l] = "idle" /\ calls < MaxCalls
    /\ calls' = calls + 1
    /\ state' = [state EXCEPT ![l] = s]
    /\ failed' = [failed EXCEPT ![l] = FALSE]
    /\ pc' = [pc EXCEPT ![l] = FirstWrite(l)]
    /\ UNCHANGED node

(* write_int and write_string: the handlers go on whether they fail or not.*)
Write(l, from, to, n, value) ==
    /\ pc[l] = from
    /\ pc' = [pc EXCEPT ![l] = to]
    /\ \/ node' = [node EXCEPT ![n] = value] /\ UNCHANGED failed
       \/ /\ WriteFails
          /\ failed' = [failed EXCEPT ![l] = TRUE]
          /\ UNCHANGED node
    /\ UNCHANGED <<state, calls>>

Brightness(l) == rgb_to_brightness(state[l].color)
On(l) == IF Brightness(l) = 0 THEN 0 ELSE 1

Half(b) == b \div 2

set_light_backlight ==
    \/ Write("backlight", "half", "lcd", "brightness", Half(Brightness("backlight")))
    \/ Write("backlight", "lcd", "idle", "lcd", Brightness("backlight"))

(* Mutant: the touch keys are enabled for a bright light only.             *)
TouchkeyBright == IF Brightness("buttons") > 100 THEN 1 ELSE 0

Touchkey == On("buttons")

set_light_buttons ==
    \/ Write("buttons", "button", "touch", "button", On("buttons"))
    \/ Write("buttons", "touch", "idle", "touchkey_enabled", Touchkey)

set_light_notifications ==
    \/ Write("notifications", "full", "pattern", "brightness", 63)
    \/ Write("notifications", "pattern", "idle", "pattern",
             Written(state["notifications"]))

Next ==
    \/ \E l \in LightIds, s \in States : Call(l, s)
    \/ set_light_backlight \/ set_light_buttons \/ set_light_notifications

Spec == Init /\ [][Next]_vars

-----------------------------------------------------------------------------
(* Properties.                                                             *)

Idle(l) == pc[l] = "idle" /\ ~failed[l]

TypeOK ==
    /\ pc \in [LightIds -> {"idle", "half", "lcd", "button", "touch", "full", "pattern"}]
    /\ node.brightness \in 0..127 /\ node.lcd \in Byte
    /\ {node.button, node.touchkey_enabled} \subseteq {0, 1}
    /\ failed \in [LightIds -> BOOLEAN]
    /\ calls \in 0..MaxCalls

(* Every pattern written is one the LED controller knows: percentages to   *)
(* 100, and cycle, slope and wave numbers within their tables, whatever    *)
(* the color and the flashing asked for.                                   *)
PatternKnown == node.pattern \in Patterns

(* Between calls that had no error the nodes show what was asked for last; *)
(* the key LED brightness, which two lights share, is that of one of them. *)
NodesSettled ==
    /\ Idle("backlight") => node.lcd = Brightness("backlight")
    /\ Idle("buttons") => node.button = node.touchkey_enabled
                          /\ (node.button = 1 <=> Brightness("buttons") > 0)
    /\ Idle("notifications") => node.pattern = Written(state["notifications"])
    /\ Idle("backlight") /\ Idle("notifications") =>
         node.brightness \in {63, node.lcd \div 2}

NotificationSet == Idle("notifications") /\ calls > 0

(* A light that is on and off for some time blinks: every LED that has     *)
(* light at all is lit in some phases and dark in others, also when one of *)
(* the times is tiny.                                                      *)
TimedBlinks ==
    LET s == state["notifications"]
    IN NotificationSet /\ s.mode = "timed" /\ s.on > 0 /\ s.off > 0 =>
         \A led \in 1..LEDS : Lit(node.pattern, led) # 1..8
=============================================================================
