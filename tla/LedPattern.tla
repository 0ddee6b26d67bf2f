----------------------------- MODULE LedPattern -----------------------------
(***************************************************************************)
(* The arithmetic of liblights/lights.c: from a light state (a color and a *)
(* way to flash) to the pattern written for the six key LEDs.              *)
(*                                                                         *)
(* A color is a record of three bytes, a wave its number and whether it is *)
(* inverted (the bit INV).  The text of the pattern is the record of the   *)
(* numbers printed.                                                        *)
(***************************************************************************)
EXTENDS Integers, Sequences

Byte == 0..255
Color == [r : Byte, g : Byte, b : Byte]
FlashModes == {"none", "timed", "hardware"}

LEDS == 6          \* MENU, HOME, BACK, SEARCH, BLUELEFT, BLUERIGHT
IsWhite(led) == led <= 4

Cycles == 0..7
Slopes == 0..3
Waves == 0..15

(* The phases of each wave, from the comments of enum WAVE.                *)
Phases ==
    <<<<1, 2, 2, 2, 2, 2, 2, 2>>, <<1, 1, 2, 2, 2, 2, 2, 2>>,
      <<1, 1, 1, 2, 2, 2, 2, 2>>, <<1, 1, 1, 1, 2, 2, 2, 2>>,
      <<1, 1, 1, 1, 1, 2, 2, 2>>, <<1, 1, 1, 1, 1, 1, 2, 2>>,
      <<1, 1, 1, 1, 1, 1, 1, 2>>, <<1, 1, 1, 1, 1, 1, 1, 1>>,
      <<1, 1, 2, 2, 1, 1, 1, 1>>, <<1, 1, 1, 1, 2, 2, 1, 1>>,
      <<1, 2, 2, 1, 1, 2, 2, 1>>, <<1, 1, 2, 2, 1, 1, 2, 2>>,
      <<1, 2, 2, 2, 2, 1, 1, 1>>, <<1, 1, 2, 2, 2, 2, 1, 1>>,
      <<1, 1, 1, 2, 2, 2, 2, 1>>, <<1, 2, 1, 2, 1, 2, 1, 2>>>>

-----------------------------------------------------------------------------
(* Colors.                                                                 *)

rgb_coeff_avg(c, r, g, b) == (r * c.r + g * c.g + b * c.b) \div (r + g + b)

rgb_to_brightness(c) == rgb_coeff_avg(c, 77, 150, 29)

(* Mutant: blue is not cut off at 0.                                       *)
rgb_to_wb_uncut(c) ==
    [white |-> rgb_coeff_avg(c, 87, 169, 0), blue |-> c.b - rgb_coeff_avg(c, 87, 169, 0)]

(* White light from the weaker part of the color, blue from what is left.  *)
rgb_to_wb(c) ==
    LET white == rgb_coeff_avg(c, 87, 169, 0)
    IN IF c.b >= white
       THEN [white |-> white, blue |-> c.b - white]
       ELSE [white |-> rgb_coeff_avg(c, 77, 150, 29), blue |-> 0]

(* The higher 4 bits of each byte, scaled to 0..255, are the two           *)
(* brightnesses of a special pattern.                                      *)
High(x) == x - (x % 16)
SpecialWb(c) ==
    LET high == [r |-> High(c.r), g |-> High(c.g), b |-> 0]
    IN [white |-> (rgb_coeff_avg(high, 87, 169, 0) * 255) \div 240,
        blue |-> (High(c.b) * 255) \div 240]

-----------------------------------------------------------------------------
(* Waves.                                                                  *)

Plain(w) == [wave |-> w, inv |-> FALSE]
Inv(w) == [wave |-> w, inv |-> TRUE]
Toggled(w) == [w EXCEPT !.inv = ~@]

ID(w, b0, b1) == <<w[1], w[2], w[3], w[4], b0, b1>>
Mirror(w) == <<w[4], w[3], w[2], w[1]>>
Inverted(w) == [i \in 1..4 |-> Toggled(w[i])]
BOTH(w, b01) == <<ID(w, b01, b01), ID(Mirror(w), b01, b01)>>
ALL(w, b01) ==
    <<ID(w, b01, b01), ID(Inverted(w), b01, b01),
      ID(Mirror(w), b01, b01), ID(Inverted(Mirror(w)), b01, b01)>>
INOUT(w03, w12, b01) ==
    <<ID(<<w03, w12, w12, w03>>, b01, b01), ID(<<w12, w03, w03, w12>>, b01, b01)>>

special_waves ==
    BOTH(<<Plain(12), Plain(13), Plain(14), Plain(3)>>, Inv(7))
    \o ALL(<<Inv(1), Plain(8), Plain(9), Plain(5)>>, Inv(7))
    \o INOUT(Plain(8), Plain(9), Plain(13))
    \o INOUT(Inv(0), Plain(6), Plain(7))
    \o <<<<Plain(3), Inv(3), Inv(3), Plain(3), Inv(7), Inv(7)>>,
         <<Plain(8), Plain(8), Plain(8), Plain(8), Plain(5), Plain(5)>>>>
    \o INOUT(Inv(0), Inv(1), Inv(1))
    \o INOUT(Plain(5), Plain(6), Plain(5))

(* Exclusive or of numbers of four bits.                                   *)
Bit(x, n) == (x \div n) % 2
Xor(x, y) ==
    8 * ((Bit(x, 8) + Bit(y, 8)) % 2) + 4 * ((Bit(x, 4) + Bit(y, 4)) % 2)
      + 2 * ((Bit(x, 2) + Bit(y, 2)) % 2) + ((Bit(x, 1) + Bit(y, 1)) % 2)

(* The lower 4 bits of each byte choose slope and waves.                   *)
SpecialSlope(c) == Xor((c.r % 16) \div 4, c.r % 4)
wave_idx(c) == Xor(c.g % 16, c.b % 16)

-----------------------------------------------------------------------------
(* Patterns.                                                               *)

cycle_from_flashMS(ms) ==
    IF ms <= 131 THEN 0
    ELSE IF ms <= 4 * 131 THEN 1
    ELSE IF ms <= 8 * 131 THEN 2
    ELSE IF ms <= 16 * 131 THEN 3
    ELSE IF ms <= 32 * 131 THEN 4
    ELSE IF ms <= 64 * 131 THEN 5
    ELSE IF ms <= 96 * 131 THEN 6
    ELSE 7

(* b(): one wave for all LEDs.                                             *)
Uniform(cycle, w) ==
    [special |-> FALSE, cycle |-> cycle, slope |-> 3, waves |-> [led \in 1..LEDS |-> w]]

SpecialCycle(on) ==
    IF on = 5000 THEN 4 ELSE IF on = 2500 THEN 3 ELSE IF on = 1000 THEN 2
    ELSE IF on = 500 THEN 1 ELSE IF on = 250 THEN 0 ELSE 3

Special(c, on) ==
    [special |-> TRUE, cycle |-> SpecialCycle(on), slope |-> SpecialSlope(c),
     waves |-> special_waves[wave_idx(c) + 1]]

(* Mutant: eighths instead of sevenths.                                    *)
TimedWaveEighths(on, off) == (8 * off) \div (on + off)

TimedWave(on, off) == (7 * off) \div (on + off)

IsOff(s) == s.mode = "none" \/ (s.mode = "timed" /\ s.on = 0)

(* pattern_from_light_state, with slope and waves of a special pattern     *)
(* from set_light_notifications.                                           *)
pattern_from_light_state(s) ==
    IF s.mode = "hardware" THEN Uniform(3, Plain(3))
    ELSE IF IsOff(s) THEN Uniform(3, Inv(7))
    ELSE IF s.off = 0
         THEN IF s.on = 1 THEN Uniform(3, Plain(7)) ELSE Special(s.color, s.on)
    ELSE Uniform(cycle_from_flashMS(s.on + s.off), Plain(TimedWave(s.on, s.off)))

(* set_light_notifications: the percentages of each LED for the two kinds  *)
(* of phases.                                                              *)
Percent(x) == (x * 100) \div 255
Written(s) ==
    LET p == pattern_from_light_state(s)
        wb == IF p.special THEN SpecialWb(s.color) ELSE rgb_to_wb(s.color)
        val(led) == Percent(IF IsWhite(led) THEN wb.white ELSE wb.blue)
    IN [cycle |-> p.cycle, slope |-> p.slope,
        leds |-> [led \in 1..LEDS |->
                    [val0 |-> IF p.waves[led].inv THEN val(led) ELSE 0,
                     val1 |-> IF p.waves[led].inv THEN 0 ELSE val(led),
                     wave |-> p.waves[led].wave]]]

Patterns ==
    [cycle : Cycles, slope : Slopes,
     leds : [1..LEDS -> [val0 : 0..100, val1 : 0..100, wave : Waves]]]

-----------------------------------------------------------------------------
(* What the LEDs then do.                                                  *)

(* Light of a LED in a phase: val1 in the phases written 1 in the wave,    *)
(* which is what "always on" and "off" of the code rely on.                *)
Light(pattern, led, phase) ==
    LET l == pattern.leds[led]
    IN IF Phases[l.wave + 1][phase] = 1 THEN l.val1 ELSE l.val0

Lit(pattern, led) == {phase \in 1..8 : Light(pattern, led, phase) > 0}
=============================================================================
