---------------------------- MODULE LightsProofs ----------------------------
(***************************************************************************)
(* Between calls the nodes that liblights/lights.c writes show what was    *)
(* asked for last, the LED controller knows every pattern, and a light     *)
(* with times blinks: for every color and all times the framework may ask  *)
(* for.                                                                    *)
(***************************************************************************)
EXTENDS Lights, SequenceTheorems, TLAPS

Wave == [wave : Waves, inv : BOOLEAN]

-----------------------------------------------------------------------------
(* Arithmetic.                                                             *)

LEMMA Average ==
    ASSUME NEW c \in Color
    PROVE  rgb_coeff_avg(c, 87, 169, 0) \in 0..255 /\ rgb_coeff_avg(c, 77, 150, 29) \in 0..255
  <1> DEFINE r == c.r  g == c.g  b == c.b
  <1>1. r \in 0..255 /\ g \in 0..255 /\ b \in 0..255
    BY DEF Color, Byte
  <1>2. /\ rgb_coeff_avg(c, 87, 169, 0) = (87 * r + 169 * g + 0 * b) \div (87 + 169 + 0)
        /\ rgb_coeff_avg(c, 77, 150, 29) = (77 * r + 150 * g + 29 * b) \div (77 + 150 + 29)
    BY DEF rgb_coeff_avg
  <1> HIDE DEF r, g, b
  <1>3. (87 * r + 169 * g + 0 * b) \div (87 + 169 + 0) \in 0..255
    BY <1>1, SMT
  <1>4. (77 * r + 150 * g + 29 * b) \div (77 + 150 + 29) \in 0..255
    BY <1>1, SMT
  <1>5. QED BY <1>2, <1>3, <1>4

LEMMA HighAverage ==
    ASSUME NEW r \in 0..240, NEW g \in 0..240
    PROVE  (87 * r + 169 * g + 0 * 0) \div (87 + 169 + 0) \in 0..240
  BY SMT

LEMMA HighRange == ASSUME NEW x \in 0..255 PROVE High(x) \in 0..240
  BY SMT DEF High

LEMMA ScaleRange == ASSUME NEW x \in 0..240 PROVE (x * 255) \div 240 \in 0..255
  BY SMT

LEMMA PercentRange == ASSUME NEW x \in 0..255 PROVE Percent(x) \in 0..100
  BY SMT DEF Percent

LEMMA XorRange == ASSUME NEW x \in 0..15, NEW y \in 0..15 PROVE Xor(x, y) \in 0..15
  <1>1. ASSUME NEW z \in 0..15, NEW n \in {1, 2, 4, 8} PROVE Bit(z, n) \in {0, 1}
    BY SMT DEF Bit
  <1>2. ASSUME NEW p \in {0, 1}, NEW q \in {0, 1} PROVE (p + q) % 2 \in {0, 1}
    BY SMT
  <1>3. /\ (Bit(x, 8) + Bit(y, 8)) % 2 \in {0, 1} /\ (Bit(x, 4) + Bit(y, 4)) % 2 \in {0, 1}
        /\ (Bit(x, 2) + Bit(y, 2)) % 2 \in {0, 1} /\ (Bit(x, 1) + Bit(y, 1)) % 2 \in {0, 1}
    BY <1>1, <1>2
  <1>4. ASSUME NEW a \in {0, 1}, NEW b \in {0, 1}, NEW c \in {0, 1}, NEW d \in {0, 1}
        PROVE  8 * a + 4 * b + 2 * c + d \in 0..15
    BY SMT
  <1>5. QED BY <1>3, <1>4 DEF Xor

(* Slopes are exclusive ors of numbers of two bits.                        *)
LEMMA SlopeXor == ASSUME NEW x \in 0..3, NEW y \in 0..3 PROVE Xor(x, y) \in 0..3
  <1>1. /\ Bit(x, 8) = 0 /\ Bit(y, 8) = 0 /\ Bit(x, 4) = 0 /\ Bit(y, 4) = 0
        /\ Bit(x, 2) \in {0, 1} /\ Bit(y, 2) \in {0, 1}
        /\ Bit(x, 1) \in {0, 1} /\ Bit(y, 1) \in {0, 1}
    BY SMT DEF Bit
  <1>2. QED BY <1>1, SMT DEF Xor

LEMMA DivBelow ==
    ASSUME NEW a \in Nat, NEW b \in Nat, b > 0, a < 7 * b
    PROVE  a \div b \in 0..6
  <1>1. a \div b \in Int /\ a \div b >= 0
    BY SMT
  <1>2. (a \div b) * b <= a
    BY SMT
  <1>3. CASE a \div b >= 7
    <2>1. (a \div b) * b >= 7 * b
      BY <1>1, <1>3, SMT
    <2>2. QED BY <1>2, <2>1, SMT
  <1>4. QED BY <1>1, <1>3, SMT

-----------------------------------------------------------------------------
(* Waves.                                                                  *)

LEMMA WaveTypes ==
    /\ \A w \in Waves : Plain(w) \in Wave /\ Inv(w) \in Wave
    /\ \A w \in Wave : Toggled(w) \in Wave
  BY DEF Plain, Inv, Toggled, Wave

LEMMA SixWaves ==
    ASSUME NEW a \in Wave, NEW b \in Wave, NEW c \in Wave, NEW d \in Wave, NEW e \in Wave,
           NEW f \in Wave
    PROVE  <<a, b, c, d, e, f>> \in [1..LEDS -> Wave]
  BY SMT DEF LEDS

Bank == [1..LEDS -> Wave]

LEMMA InvertedBank ==
    ASSUME NEW w0 \in Wave, NEW w1 \in Wave, NEW w2 \in Wave, NEW w3 \in Wave,
           NEW b0 \in Wave, NEW b1 \in Wave
    PROVE  ID(Inverted(<<w0, w1, w2, w3>>), b0, b1) \in Bank
  <1> DEFINE v == Inverted(<<w0, w1, w2, w3>>)
  <1>1. v[1] = Toggled(w0) /\ v[2] = Toggled(w1) /\ v[3] = Toggled(w2) /\ v[4] = Toggled(w3)
    BY DEF Inverted
  <1>2. v[1] \in Wave /\ v[2] \in Wave /\ v[3] \in Wave /\ v[4] \in Wave
    BY <1>1, WaveTypes
  <1> HIDE DEF v
  <1>3. ID(v, b0, b1) \in Bank
    BY <1>2, SixWaves DEF ID, Bank
  <1>4. QED BY <1>3 DEF v

LEMMA IDBank ==
    ASSUME NEW w0 \in Wave, NEW w1 \in Wave, NEW w2 \in Wave, NEW w3 \in Wave,
           NEW b0 \in Wave, NEW b1 \in Wave
    PROVE  /\ ID(<<w0, w1, w2, w3>>, b0, b1) \in Bank
           /\ ID(Mirror(<<w0, w1, w2, w3>>), b0, b1) \in Bank
           /\ ID(Inverted(<<w0, w1, w2, w3>>), b0, b1) \in Bank
           /\ ID(Inverted(Mirror(<<w0, w1, w2, w3>>)), b0, b1) \in Bank
  <1>1. ID(<<w0, w1, w2, w3>>, b0, b1) \in Bank
    BY SixWaves DEF ID, Bank
  <1>2. ID(Mirror(<<w0, w1, w2, w3>>), b0, b1) \in Bank
    BY SixWaves DEF ID, Mirror, Bank
  <1>3. ID(Inverted(<<w0, w1, w2, w3>>), b0, b1) \in Bank
    BY InvertedBank
  <1>4. ID(Inverted(Mirror(<<w0, w1, w2, w3>>)), b0, b1) \in Bank
    <2>1. Mirror(<<w0, w1, w2, w3>>) = <<w3, w2, w1, w0>>
      BY DEF Mirror
    <2>2. ID(Inverted(<<w3, w2, w1, w0>>), b0, b1) \in Bank
      BY InvertedBank
    <2>3. QED BY <2>1, <2>2
  <1>5. QED BY <1>1, <1>2, <1>3, <1>4

Banks(s, n) == s \in Seq(Bank) /\ Len(s) = n

LEMMA PairBanks == ASSUME NEW a \in Bank, NEW b \in Bank PROVE Banks(<<a, b>>, 2)
  BY DEF Banks

LEMMA BOTHBanks ==
    ASSUME NEW w0 \in Wave, NEW w1 \in Wave, NEW w2 \in Wave, NEW w3 \in Wave,
           NEW b \in Wave
    PROVE  Banks(BOTH(<<w0, w1, w2, w3>>, b), 2)
  BY IDBank, PairBanks DEF BOTH

LEMMA ALLBanks ==
    ASSUME NEW w0 \in Wave, NEW w1 \in Wave, NEW w2 \in Wave, NEW w3 \in Wave,
           NEW b \in Wave
    PROVE  Banks(ALL(<<w0, w1, w2, w3>>, b), 4)
  <1>1. ASSUME NEW p \in Bank, NEW q \in Bank, NEW r \in Bank, NEW s \in Bank
        PROVE  Banks(<<p, q, r, s>>, 4)
    BY DEF Banks
  <1>2. QED BY <1>1, IDBank DEF ALL

LEMMA INOUTBanks ==
    ASSUME NEW w \in Wave, NEW v \in Wave, NEW b \in Wave
    PROVE  Banks(INOUT(w, v, b), 2)
  BY IDBank, PairBanks DEF INOUT

LEMMA Joined ==
    ASSUME NEW s, NEW m \in Nat, NEW t, NEW n \in Nat, Banks(s, m), Banks(t, n)
    PROVE  Banks(s \o t, m + n)
  BY ConcatProperties DEF Banks

LEMMA SpecialWaves == Banks(special_waves, 16)
  <1> DEFINE one == BOTH(<<Plain(12), Plain(13), Plain(14), Plain(3)>>, Inv(7))
             two == ALL(<<Inv(1), Plain(8), Plain(9), Plain(5)>>, Inv(7))
             three == INOUT(Plain(8), Plain(9), Plain(13))
             four == INOUT(Inv(0), Plain(6), Plain(7))
             five == <<<<Plain(3), Inv(3), Inv(3), Plain(3), Inv(7), Inv(7)>>,
                       <<Plain(8), Plain(8), Plain(8), Plain(8), Plain(5), Plain(5)>>>>
             six == INOUT(Inv(0), Inv(1), Inv(1))
             seven == INOUT(Plain(5), Plain(6), Plain(5))
  <1>1. \A w \in 0..15 : Plain(w) \in Wave /\ Inv(w) \in Wave
    BY WaveTypes DEF Waves
  <1>2. /\ Plain(12) \in Wave /\ Plain(13) \in Wave /\ Plain(14) \in Wave
        /\ Plain(3) \in Wave /\ Plain(8) \in Wave /\ Plain(9) \in Wave
        /\ Plain(5) \in Wave /\ Plain(6) \in Wave /\ Plain(7) \in Wave
        /\ Inv(7) \in Wave /\ Inv(1) \in Wave /\ Inv(0) \in Wave /\ Inv(3) \in Wave
    BY <1>1
  <1>3. Banks(one, 2)
    BY <1>2, BOTHBanks
  <1>4. Banks(two, 4)
    BY <1>2, ALLBanks
  <1>5. Banks(three, 2) /\ Banks(four, 2) /\ Banks(six, 2) /\ Banks(seven, 2)
    BY <1>2, INOUTBanks
  <1>6. Banks(five, 2)
    BY <1>2, SixWaves, PairBanks DEF Bank
  <1>7. special_waves = one \o two \o three \o four \o five \o six \o seven
    BY DEF special_waves
  <1> HIDE DEF one, two, three, four, five, six, seven
  <1>8. Banks(one \o two, 6)
    BY <1>3, <1>4, Joined
  <1>9. Banks(one \o two \o three, 8)
    BY <1>5, <1>8, Joined
  <1>10. Banks(one \o two \o three \o four, 10)
    BY <1>5, <1>9, Joined
  <1>11. Banks(one \o two \o three \o four \o five, 12)
    BY <1>6, <1>10, Joined
  <1>12. Banks(one \o two \o three \o four \o five \o six, 14)
    BY <1>5, <1>11, Joined
  <1>13. QED BY <1>5, <1>7, <1>12, Joined

-----------------------------------------------------------------------------
(* Patterns.                                                               *)

Kind == [special : BOOLEAN, cycle : Cycles, slope : Slopes, waves : Bank]

LEMMA UniformKind ==
    ASSUME NEW c \in Cycles, NEW w \in Wave
    PROVE  Uniform(c, w) \in Kind /\ ~Uniform(c, w).special
  BY DEF Uniform, Kind, Bank, Slopes

LEMMA SpecialKind ==
    ASSUME NEW c \in Color, NEW on \in Nat
    PROVE  Special(c, on) \in Kind
  <1>1. c.r \in 0..255 /\ c.g \in 0..255 /\ c.b \in 0..255
    BY DEF Color, Byte
  <1>2. /\ (c.r % 16) \div 4 \in 0..3 /\ c.r % 4 \in 0..3
        /\ c.g % 16 \in 0..15 /\ c.b % 16 \in 0..15
    BY <1>1, SMT
  <1>3. SpecialSlope(c) \in Slopes
    BY <1>2, SlopeXor DEF SpecialSlope, Slopes
  <1>4. wave_idx(c) \in 0..15
    BY <1>2, XorRange DEF wave_idx
  <1>5. wave_idx(c) + 1 \in 1..16
    BY <1>4
  <1>6. special_waves[wave_idx(c) + 1] \in Bank
    BY <1>5, SpecialWaves, ElementOfSeq DEF Banks
  <1>7. SpecialCycle(on) \in Cycles
    BY SMT DEF SpecialCycle, Cycles
  <1>8. QED BY <1>3, <1>6, <1>7 DEF Special, Kind

LEMMA PatternKind ==
    ASSUME NEW s, s.color \in Color, s.mode \in FlashModes,
           s.on \in Nat, s.off \in Nat
    PROVE  pattern_from_light_state(s) \in Kind
  <1>1. Plain(3) \in Wave /\ Inv(7) \in Wave /\ Plain(7) \in Wave
    BY WaveTypes DEF Waves
  <1>2. 3 \in Cycles
    BY DEF Cycles
  <1>3. CASE s.mode = "hardware"
    BY <1>1, <1>2, <1>3, UniformKind DEF pattern_from_light_state
  <1>4. CASE s.mode # "hardware" /\ IsOff(s)
    BY <1>1, <1>2, <1>4, UniformKind DEF pattern_from_light_state
  <1>5. CASE s.mode # "hardware" /\ ~IsOff(s) /\ s.off = 0
    BY <1>1, <1>2, <1>5, UniformKind, SpecialKind DEF pattern_from_light_state
  <1>6. CASE s.mode # "hardware" /\ ~IsOff(s) /\ s.off # 0
    <2>1. s.mode = "timed" /\ s.on # 0
      BY <1>6 DEF IsOff, FlashModes
    <2>2. 7 * s.off \in Nat /\ s.on + s.off \in Nat /\ s.on + s.off > 0
          /\ 7 * s.off < 7 * (s.on + s.off)
      BY <1>6, <2>1, SMT
    <2>3. TimedWave(s.on, s.off) \in 0..6
      BY <2>2, DivBelow DEF TimedWave
    <2>4. Plain(TimedWave(s.on, s.off)) \in Wave
      BY <2>3, WaveTypes DEF Waves
    <2>5. cycle_from_flashMS(s.on + s.off) \in Cycles
      BY SMT DEF cycle_from_flashMS, Cycles
    <2>6. QED BY <1>6, <2>4, <2>5, UniformKind DEF pattern_from_light_state
  <1>7. QED BY <1>3, <1>4, <1>5, <1>6

(* Both ways to share a color between the LEDs give brightnesses.          *)
LEMMA Brightnesses ==
    ASSUME NEW c \in Color
    PROVE  /\ rgb_to_wb(c).white \in 0..255 /\ rgb_to_wb(c).blue \in 0..255
           /\ SpecialWb(c).white \in 0..255 /\ SpecialWb(c).blue \in 0..255
  <1>1. c.r \in 0..255 /\ c.g \in 0..255 /\ c.b \in 0..255
    BY DEF Color, Byte
  <1>2. rgb_coeff_avg(c, 87, 169, 0) \in 0..255 /\ rgb_coeff_avg(c, 77, 150, 29) \in 0..255
    BY Average
  <1>3. rgb_to_wb(c).white \in 0..255 /\ rgb_to_wb(c).blue \in 0..255
    <2>1. ASSUME NEW b \in 0..255, NEW w \in 0..255, b >= w PROVE b - w \in 0..255
      BY <2>1
    <2>2. CASE c.b >= rgb_coeff_avg(c, 87, 169, 0)
      <3>1. c.b - rgb_coeff_avg(c, 87, 169, 0) \in 0..255
        BY <1>1, <1>2, <2>1, <2>2
      <3>2. QED BY <1>2, <2>2, <3>1 DEF rgb_to_wb
    <2>3. CASE ~(c.b >= rgb_coeff_avg(c, 87, 169, 0))
      <3>1. 0 \in 0..255
        OBVIOUS
      <3>2. QED BY <1>2, <2>3, <3>1 DEF rgb_to_wb
    <2>4. QED BY <2>2, <2>3
  <1>4. High(c.r) \in 0..240 /\ High(c.g) \in 0..240 /\ High(c.b) \in 0..240
    BY <1>1, HighRange
  <1>5. SpecialWb(c).white \in 0..255 /\ SpecialWb(c).blue \in 0..255
    <2> DEFINE r == High(c.r)  g == High(c.g)  high == [r |-> r, g |-> g, b |-> 0]
    <2>1. r \in 0..240 /\ g \in 0..240
      BY <1>4
    <2>2. /\ SpecialWb(c).white = (rgb_coeff_avg(high, 87, 169, 0) * 255) \div 240
          /\ SpecialWb(c).blue = (High(c.b) * 255) \div 240
      BY DEF SpecialWb
    <2> HIDE DEF r, g
    <2>3. rgb_coeff_avg(high, 87, 169, 0) = (87 * r + 169 * g + 0 * 0) \div (87 + 169 + 0)
      BY DEF rgb_coeff_avg
    <2> HIDE DEF high
    <2>4. rgb_coeff_avg(high, 87, 169, 0) \in 0..240
      <3>1. (87 * r + 169 * g + 0 * 0) \div (87 + 169 + 0) \in 0..240
        BY <2>1, HighAverage, Zenon
      <3>2. QED BY <2>3, <3>1, Zenon
    <2>5. QED BY <1>4, <2>2, <2>4, ScaleRange
  <1>6. QED BY <1>3, <1>5

LEMMA WrittenKnown ==
    ASSUME NEW s, s.color \in Color, s.mode \in FlashModes,
           s.on \in Nat, s.off \in Nat
    PROVE  Written(s) \in Patterns
  <1> DEFINE p == pattern_from_light_state(s)
             wb == IF p.special THEN SpecialWb(s.color) ELSE rgb_to_wb(s.color)
             val(led) == Percent(IF IsWhite(led) THEN wb.white ELSE wb.blue)
             lit(led) == [val0 |-> IF p.waves[led].inv THEN val(led) ELSE 0,
                          val1 |-> IF p.waves[led].inv THEN 0 ELSE val(led),
                          wave |-> p.waves[led].wave]
             leds == [led \in 1..LEDS |-> lit(led)]
  <1>1. p \in Kind
    BY PatternKind
  <1>2. wb.white \in 0..255 /\ wb.blue \in 0..255
    BY Brightnesses
  <1> HIDE DEF p, wb
  <1>3. ASSUME NEW led \in 1..LEDS
        PROVE  lit(led) \in [val0 : 0..100, val1 : 0..100, wave : Waves]
    <2>1. val(led) \in 0..100
      BY <1>2, PercentRange
    <2>2. p.waves[led] \in Wave
      BY <1>1 DEF Kind, Bank
    <2>3. p.waves[led].wave \in Waves
      BY <2>2 DEF Wave
    <2> HIDE DEF val
    <2>4. 0 \in 0..100
      OBVIOUS
    <2>5. QED BY <2>1, <2>3, <2>4
  <1>4. leds \in [1..LEDS -> [val0 : 0..100, val1 : 0..100, wave : Waves]]
    BY <1>3
  <1>5. p.cycle \in Cycles /\ p.slope \in Slopes
    BY <1>1 DEF Kind
  <1>6. Written(s) = [cycle |-> p.cycle, slope |-> p.slope, leds |-> leds]
    BY DEF Written, p, wb
  <1> HIDE DEF leds
  <1>7. QED BY <1>4, <1>5, <1>6 DEF Patterns

-----------------------------------------------------------------------------
(* The light states asked for.                                             *)

Asked(s) ==
    /\ s.color \in Color /\ s.mode \in FlashModes
    /\ s.on \in Nat /\ s.off \in Nat

-----------------------------------------------------------------------------
(* The nodes between calls.                                                *)

Places(l) ==
    CASE l = "backlight" -> {"idle", "half", "lcd"}
      [] l = "buttons" -> {"idle", "button", "touch"}
      [] l = "notifications" -> {"idle", "full", "pattern"}

Nodes ==
    [brightness : 0..127, lcd : Byte, button : {0, 1}, touchkey_enabled : {0, 1},
     pattern : Patterns]

Typed ==
    /\ pc \in [LightIds -> {"idle", "half", "lcd", "button", "touch", "full", "pattern"}]
    /\ \A l \in LightIds : pc[l] \in Places(l) /\ Asked(state[l])
    /\ DOMAIN state = LightIds
    /\ failed \in [LightIds -> BOOLEAN]
    /\ node \in Nodes
    /\ calls \in 0..MaxCalls

(* The first write of the last call for light l was done.                  *)
Begun(l) == ~failed[l] /\ pc[l] \notin {"half", "button", "full"}

(* What each handler has written by then, and at its end; the LED's        *)
(* brightness has its last writer's, unless the other's write failed.      *)
Shown ==
    /\ Idle("backlight") => node.lcd = Brightness("backlight")
    /\ Begun("buttons") => node.button = On("buttons")
    /\ Idle("buttons") => node.touchkey_enabled = On("buttons")
    /\ Idle("notifications") => node.pattern = Written(state["notifications"])
    /\ Begun("backlight") /\ Begun("notifications") =>
         node.brightness \in {63, Half(Brightness("backlight"))}

NodeInv == Typed /\ Shown

LEMMA BrightnessRange ==
    ASSUME Typed, NEW l \in LightIds
    PROVE  /\ Brightness(l) \in 0..255 /\ Half(Brightness(l)) \in 0..127
           /\ On(l) \in {0, 1} /\ (On(l) = 1 <=> Brightness(l) > 0)
  <1>1. Brightness(l) \in 0..255
    BY Average DEF Typed, Asked, Brightness, rgb_to_brightness
  <1>2. ASSUME NEW b \in 0..255 PROVE Half(b) \in 0..127
    BY SMT DEF Half
  <1>3. Half(Brightness(l)) \in 0..127
    BY <1>1, <1>2
  <1>4. On(l) \in {0, 1} /\ (On(l) = 1 <=> Brightness(l) > 0)
    BY <1>1 DEF On
  <1>5. QED BY <1>1, <1>3, <1>4

(* At first every light is dark.                                           *)
LEMMA InitNode == ASSUME LightsAssumption PROVE Init => NodeInv
  <1> SUFFICES ASSUME Init PROVE NodeInv
    OBVIOUS
  <1>1. Asked(Dark)
    BY DEF Asked, Dark, Color, Byte, FlashModes
  <1>2. Written(Dark) \in Patterns
    BY <1>1, WrittenKnown DEF Asked
  <1>3. \A l \in LightIds : pc[l] = "idle" /\ state[l] = Dark /\ failed[l] = FALSE
    BY DEF Init
  <1>4. Typed
    <2>1. node \in Nodes
      BY <1>2 DEF Init, Nodes, Byte
    <2>2. \A l \in LightIds : pc[l] \in Places(l)
      BY <1>3 DEF LightIds, Places
    <2>3. calls \in 0..MaxCalls
      BY DEF Init, LightsAssumption
    <2>4. /\ pc \in [LightIds -> {"idle", "half", "lcd", "button", "touch", "full", "pattern"}]
          /\ DOMAIN state = LightIds /\ failed \in [LightIds -> BOOLEAN]
      BY DEF Init
    <2>5. QED BY <1>1, <1>3, <2>1, <2>2, <2>3, <2>4 DEF Typed
  <1>5. rgb_to_brightness(Dark.color) = 0
    BY SMT DEF rgb_to_brightness, rgb_coeff_avg, Dark
  <1>6. \A l \in LightIds : Brightness(l) = 0 /\ On(l) = 0
    BY <1>3, <1>5 DEF Brightness, On
  <1>7. Half(0) = 0
    BY SMT DEF Half
  <1>8. /\ node.lcd = 0 /\ node.button = 0 /\ node.touchkey_enabled = 0
        /\ node.brightness = 0 /\ node.pattern = Written(Dark)
    BY DEF Init
  <1>9. Shown
    BY <1>3, <1>6, <1>7, <1>8 DEF Shown, LightIds
  <1>10. QED BY <1>4, <1>9 DEF NodeInv

(* A call of the framework starts a light's handler.                       *)
LEMMA CallNode ==
    ASSUME LightsAssumption, NodeInv, NEW l \in LightIds, NEW s \in States, Call(l, s)
    PROVE  NodeInv'
  <1>1. Asked(s)
    <2>1. s.on \in Periods /\ s.off \in Periods
      BY DEF LightsAssumption
    <2>2. s.on \in Nat /\ s.off \in Nat
      BY <2>1 DEF Periods
    <2>3. QED BY <2>2 DEF LightsAssumption, Asked
  <1>2. FirstWrite(l) \in Places(l) /\ FirstWrite(l) \in {"half", "button", "full"}
    BY DEF FirstWrite, Places, LightIds
  <1>3. /\ pc' = [pc EXCEPT ![l] = FirstWrite(l)] /\ state' = [state EXCEPT ![l] = s]
        /\ failed' = [failed EXCEPT ![l] = FALSE] /\ node' = node
    BY DEF Call
  <1>4. Typed'
    <2>1. calls' \in 0..MaxCalls
      BY DEF Call, NodeInv, Typed, LightsAssumption
    <2>2. \A k \in LightIds : pc'[k] \in Places(k) /\ Asked(state'[k])
      BY <1>1, <1>2, <1>3 DEF NodeInv, Typed
    <2>3. pc' \in [LightIds -> {"idle", "half", "lcd", "button", "touch", "full", "pattern"}]
      BY <1>2, <1>3 DEF NodeInv, Typed
    <2>4. failed' \in [LightIds -> BOOLEAN] /\ DOMAIN state' = LightIds /\ node' \in Nodes
      BY <1>3 DEF NodeInv, Typed
    <2>5. QED BY <2>1, <2>2, <2>3, <2>4 DEF Typed
  <1>5. ~Begun(l)' /\ ~Idle(l)'
    BY <1>2, <1>3 DEF NodeInv, Typed, Begun, Idle
  <1>6. ASSUME NEW k \in LightIds, k # l
        PROVE  /\ Begun(k)' = Begun(k) /\ Idle(k)' = Idle(k) /\ state'[k] = state[k]
               /\ Brightness(k)' = Brightness(k) /\ On(k)' = On(k)
    BY <1>3, <1>6 DEF NodeInv, Typed, Begun, Idle, Brightness, On
  <1>7. Shown'
    BY <1>3, <1>5, <1>6 DEF NodeInv, Shown, LightIds
  <1>8. QED BY <1>4, <1>7 DEF NodeInv

(* A write leaves the light a step further, and the node with its value    *)
(* unless it failed.                                                       *)
LEMMA WriteNode ==
    ASSUME Typed, NEW l \in LightIds, NEW from, NEW to \in Places(l), NEW n, NEW value,
           Write(l, from, to, n, value), [node EXCEPT ![n] = value] \in Nodes
    PROVE  /\ Typed' /\ state' = state
           /\ pc[l] = from /\ pc'[l] = to
           /\ failed[l] => failed'[l]
           /\ failed'[l] \/ node' = [node EXCEPT ![n] = value]
           /\ node' \in {node, [node EXCEPT ![n] = value]}
           /\ \A k \in LightIds : Brightness(k)' = Brightness(k) /\ On(k)' = On(k)
           /\ \A k \in LightIds \ {l} : Begun(k)' = Begun(k) /\ Idle(k)' = Idle(k)
  <1>1. /\ pc[l] = from /\ pc' = [pc EXCEPT ![l] = to] /\ state' = state /\ calls' = calls
        /\ \/ node' = [node EXCEPT ![n] = value] /\ failed' = failed
           \/ node' = node /\ failed' = [failed EXCEPT ![l] = TRUE]
    BY DEF Write
  <1>2. to \in {"idle", "half", "lcd", "button", "touch", "full", "pattern"}
    BY DEF Places, LightIds
  <1>3. Typed'
    <2>1. node' \in Nodes /\ failed' \in [LightIds -> BOOLEAN]
      BY <1>1 DEF Typed
    <2>2. \A k \in LightIds : pc'[k] \in Places(k)
      BY <1>1 DEF Typed
    <2>3. pc' \in [LightIds -> {"idle", "half", "lcd", "button", "touch", "full", "pattern"}]
      BY <1>1, <1>2 DEF Typed
    <2>4. QED BY <1>1, <2>1, <2>2, <2>3 DEF Typed
  <1>4. /\ pc'[l] = to /\ (failed[l] => failed'[l])
        /\ failed'[l] \/ node' = [node EXCEPT ![n] = value]
    BY <1>1 DEF Typed
  <1>5. \A k \in LightIds \ {l} : pc'[k] = pc[k] /\ failed'[k] = failed[k]
    BY <1>1 DEF Typed
  <1>6. \A k \in LightIds : Brightness(k)' = Brightness(k) /\ On(k)' = On(k)
    BY <1>1 DEF Brightness, On
  <1>7. \A k \in LightIds \ {l} : Begun(k)' = Begun(k) /\ Idle(k)' = Idle(k)
    BY <1>5 DEF Begun, Idle
  <1>8. QED BY <1>1, <1>3, <1>4, <1>6, <1>7

LEMMA BacklightNode == ASSUME NodeInv, set_light_backlight PROVE NodeInv'
  <1> DEFINE b == Brightness("backlight")
  <1>1. Typed /\ node \in Nodes /\ "backlight" \in LightIds
    BY DEF NodeInv, Typed, LightIds
  <1>2. b \in Byte /\ Half(b) \in 0..127
    BY <1>1, BrightnessRange DEF Byte
  <1>3. "idle" \in Places("backlight") /\ "lcd" \in Places("backlight")
    BY DEF Places
  <1> HIDE DEF b
  <1>4. CASE Write("backlight", "half", "lcd", "brightness", Half(b))
    <2> DEFINE m == [node EXCEPT !["brightness"] = Half(b)]
    <2>1. m \in Nodes /\ m.brightness = Half(b)
          /\ m.lcd = node.lcd /\ m.button = node.button
          /\ m.touchkey_enabled = node.touchkey_enabled /\ m.pattern = node.pattern
      BY <1>1, <1>2 DEF Nodes
    <2> HIDE DEF m
    <2>2. /\ Typed' /\ state' = state
          /\ pc["backlight"] = "half" /\ pc'["backlight"] = "lcd"
          /\ failed["backlight"] => failed'["backlight"]
          /\ failed'["backlight"] \/ node' = m
          /\ node' \in {node, m}
          /\ \A k \in LightIds : Brightness(k)' = Brightness(k) /\ On(k)' = On(k)
          /\ \A k \in LightIds \ {"backlight"} : Begun(k)' = Begun(k) /\ Idle(k)' = Idle(k)
      BY <1>1, <1>3, <1>4, <2>1, WriteNode DEF m
    <2>3. ~Idle("backlight")'
      BY <2>2 DEF Idle
    <2>4. Begun("backlight")' => node'.brightness = Half(b)
      BY <2>1, <2>2 DEF Begun
    <2>5. /\ node'.button = node.button /\ node'.touchkey_enabled = node.touchkey_enabled
          /\ node'.pattern = node.pattern
      BY <2>1, <2>2
    <2>6. Shown'
      BY <2>2, <2>3, <2>4, <2>5 DEF NodeInv, Shown, LightIds, b
    <2>7. QED BY <2>2, <2>6 DEF NodeInv
  <1>5. CASE Write("backlight", "lcd", "idle", "lcd", b)
    <2> DEFINE m == [node EXCEPT !["lcd"] = b]
    <2>1. m \in Nodes /\ m.lcd = b
          /\ m.brightness = node.brightness /\ m.button = node.button
          /\ m.touchkey_enabled = node.touchkey_enabled /\ m.pattern = node.pattern
      BY <1>1, <1>2 DEF Nodes
    <2> HIDE DEF m
    <2>2. /\ Typed' /\ state' = state
          /\ pc["backlight"] = "lcd" /\ pc'["backlight"] = "idle"
          /\ failed["backlight"] => failed'["backlight"]
          /\ failed'["backlight"] \/ node' = m
          /\ node' \in {node, m}
          /\ \A k \in LightIds : Brightness(k)' = Brightness(k) /\ On(k)' = On(k)
          /\ \A k \in LightIds \ {"backlight"} : Begun(k)' = Begun(k) /\ Idle(k)' = Idle(k)
      BY <1>1, <1>3, <1>5, <2>1, WriteNode DEF m
    <2>3. Idle("backlight")' => node'.lcd = b
      BY <2>1, <2>2 DEF Idle
    <2>4. Begun("backlight")' => Begun("backlight")
      BY <2>2 DEF Begun
    <2>5. /\ node'.brightness = node.brightness /\ node'.button = node.button
          /\ node'.touchkey_enabled = node.touchkey_enabled
          /\ node'.pattern = node.pattern
      BY <2>1, <2>2
    <2>6. Shown'
      BY <2>2, <2>3, <2>4, <2>5 DEF NodeInv, Shown, LightIds, b
    <2>7. QED BY <2>2, <2>6 DEF NodeInv
  <1>6. QED BY <1>4, <1>5 DEF set_light_backlight, b

LEMMA ButtonsNode == ASSUME NodeInv, set_light_buttons PROVE NodeInv'
  <1> DEFINE b == On("buttons")
  <1>1. Typed /\ node \in Nodes /\ "buttons" \in LightIds
    BY DEF NodeInv, Typed, LightIds
  <1>2. b \in {0, 1} /\ Touchkey = b
    BY <1>1, BrightnessRange DEF Touchkey
  <1>3. "idle" \in Places("buttons") /\ "touch" \in Places("buttons")
    BY DEF Places
  <1> HIDE DEF b
  <1>4. CASE Write("buttons", "button", "touch", "button", b)
    <2> DEFINE m == [node EXCEPT !["button"] = b]
    <2>1. m \in Nodes /\ m.button = b
          /\ m.lcd = node.lcd /\ m.brightness = node.brightness
          /\ m.touchkey_enabled = node.touchkey_enabled /\ m.pattern = node.pattern
      BY <1>1, <1>2 DEF Nodes
    <2> HIDE DEF m
    <2>2. /\ Typed' /\ state' = state
          /\ pc["buttons"] = "button" /\ pc'["buttons"] = "touch"
          /\ failed["buttons"] => failed'["buttons"]
          /\ failed'["buttons"] \/ node' = m
          /\ node' \in {node, m}
          /\ \A k \in LightIds : Brightness(k)' = Brightness(k) /\ On(k)' = On(k)
          /\ \A k \in LightIds \ {"buttons"} : Begun(k)' = Begun(k) /\ Idle(k)' = Idle(k)
      BY <1>1, <1>3, <1>4, <2>1, WriteNode DEF m
    <2>3. ~Idle("buttons")'
      BY <2>2 DEF Idle
    <2>4. Begun("buttons")' => node'.button = b
      BY <2>1, <2>2 DEF Begun
    <2>5. /\ node'.lcd = node.lcd /\ node'.brightness = node.brightness
          /\ node'.pattern = node.pattern
      BY <2>1, <2>2
    <2>6. Shown'
      BY <2>2, <2>3, <2>4, <2>5 DEF NodeInv, Shown, LightIds, b
    <2>7. QED BY <2>2, <2>6 DEF NodeInv
  <1>5. CASE Write("buttons", "touch", "idle", "touchkey_enabled", Touchkey)
    <2> DEFINE m == [node EXCEPT !["touchkey_enabled"] = Touchkey]
    <2>1. m \in Nodes /\ m.touchkey_enabled = b
          /\ m.lcd = node.lcd /\ m.brightness = node.brightness
          /\ m.button = node.button /\ m.pattern = node.pattern
      BY <1>1, <1>2 DEF Nodes
    <2> HIDE DEF m
    <2>2. /\ Typed' /\ state' = state
          /\ pc["buttons"] = "touch" /\ pc'["buttons"] = "idle"
          /\ failed["buttons"] => failed'["buttons"]
          /\ failed'["buttons"] \/ node' = m
          /\ node' \in {node, m}
          /\ \A k \in LightIds : Brightness(k)' = Brightness(k) /\ On(k)' = On(k)
          /\ \A k \in LightIds \ {"buttons"} : Begun(k)' = Begun(k) /\ Idle(k)' = Idle(k)
      BY <1>1, <1>3, <1>5, <2>1, WriteNode DEF m
    <2>3. Idle("buttons")' => node'.touchkey_enabled = b
      BY <2>1, <2>2 DEF Idle
    <2>4. Begun("buttons")' => Begun("buttons")
      BY <2>2 DEF Begun
    <2>5. /\ node'.lcd = node.lcd /\ node'.brightness = node.brightness
          /\ node'.button = node.button /\ node'.pattern = node.pattern
      BY <2>1, <2>2
    <2>6. Shown'
      BY <2>2, <2>3, <2>4, <2>5 DEF NodeInv, Shown, LightIds, b
    <2>7. QED BY <2>2, <2>6 DEF NodeInv
  <1>6. QED BY <1>4, <1>5 DEF set_light_buttons, b

LEMMA NotificationsNode == ASSUME NodeInv, set_light_notifications PROVE NodeInv'
  <1> DEFINE w == Written(state["notifications"])
  <1>1. Typed /\ node \in Nodes /\ "notifications" \in LightIds
    BY DEF NodeInv, Typed, LightIds
  <1>2. w \in Patterns
    BY <1>1, WrittenKnown DEF Typed, Asked
  <1>3. "idle" \in Places("notifications") /\ "pattern" \in Places("notifications")
    BY DEF Places
  <1> HIDE DEF w
  <1>4. CASE Write("notifications", "full", "pattern", "brightness", 63)
    <2> DEFINE m == [node EXCEPT !["brightness"] = 63]
    <2>1. m \in Nodes /\ m.brightness = 63
          /\ m.lcd = node.lcd /\ m.button = node.button
          /\ m.touchkey_enabled = node.touchkey_enabled /\ m.pattern = node.pattern
      BY <1>1 DEF Nodes
    <2> HIDE DEF m
    <2>2. /\ Typed' /\ state' = state
          /\ pc["notifications"] = "full" /\ pc'["notifications"] = "pattern"
          /\ failed["notifications"] => failed'["notifications"]
          /\ failed'["notifications"] \/ node' = m
          /\ node' \in {node, m}
          /\ \A k \in LightIds : Brightness(k)' = Brightness(k) /\ On(k)' = On(k)
          /\ \A k \in LightIds \ {"notifications"} : Begun(k)' = Begun(k) /\ Idle(k)' = Idle(k)
      BY <1>1, <1>3, <1>4, <2>1, WriteNode DEF m
    <2>3. ~Idle("notifications")'
      BY <2>2 DEF Idle
    <2>4. Begun("notifications")' => node'.brightness = 63
      BY <2>1, <2>2 DEF Begun
    <2>5. /\ node'.lcd = node.lcd /\ node'.button = node.button
          /\ node'.touchkey_enabled = node.touchkey_enabled
      BY <2>1, <2>2
    <2>6. Shown'
      BY <2>2, <2>3, <2>4, <2>5 DEF NodeInv, Shown, LightIds
    <2>7. QED BY <2>2, <2>6 DEF NodeInv
  <1>5. CASE Write("notifications", "pattern", "idle", "pattern", w)
    <2> DEFINE m == [node EXCEPT !["pattern"] = w]
    <2>1. m \in Nodes /\ m.pattern = w
          /\ m.lcd = node.lcd /\ m.brightness = node.brightness
          /\ m.button = node.button /\ m.touchkey_enabled = node.touchkey_enabled
      BY <1>1, <1>2 DEF Nodes
    <2> HIDE DEF m
    <2>2. /\ Typed' /\ state' = state
          /\ pc["notifications"] = "pattern" /\ pc'["notifications"] = "idle"
          /\ failed["notifications"] => failed'["notifications"]
          /\ failed'["notifications"] \/ node' = m
          /\ node' \in {node, m}
          /\ \A k \in LightIds : Brightness(k)' = Brightness(k) /\ On(k)' = On(k)
          /\ \A k \in LightIds \ {"notifications"} : Begun(k)' = Begun(k) /\ Idle(k)' = Idle(k)
      BY <1>1, <1>3, <1>5, <2>1, WriteNode DEF m
    <2>3. Idle("notifications")' => node'.pattern = w
      BY <2>1, <2>2 DEF Idle
    <2>4. Begun("notifications")' => Begun("notifications")
      BY <2>2 DEF Begun
    <2>5. /\ node'.lcd = node.lcd /\ node'.brightness = node.brightness
          /\ node'.button = node.button /\ node'.touchkey_enabled = node.touchkey_enabled
      BY <2>1, <2>2
    <2>6. Shown'
      BY <2>2, <2>3, <2>4, <2>5 DEF NodeInv, Shown, LightIds, w
    <2>7. QED BY <2>2, <2>6 DEF NodeInv
  <1>6. QED BY <1>4, <1>5 DEF set_light_notifications, w

LEMMA NodeInvariance == ASSUME LightsAssumption PROVE Spec => []NodeInv
  <1>1. Init => NodeInv
    BY InitNode
  <1>2. ASSUME NodeInv, [Next]_vars PROVE NodeInv'
    <2>1. CASE UNCHANGED vars
      BY <1>2, <2>1 DEF vars, NodeInv, Typed, Shown, Begun, Idle, Brightness, On
    <2>2. CASE Next
      BY <1>2, <2>2, CallNode, BacklightNode, ButtonsNode, NotificationsNode DEF Next
    <2>3. QED BY <1>2, <2>1, <2>2
  <1>3. QED BY <1>1, <1>2, PTL DEF Spec

(* Between calls without an error the nodes show what was asked for last,  *)
(* for every color and however the handlers of the three lights, which     *)
(* have no lock, interleave: the LEDs' brightness, which two of them       *)
(* write, is that of one of the two, also when earlier calls failed.       *)
THEOREM NodesShowLast == ASSUME LightsAssumption PROVE Spec => []NodesSettled
  <1>1. NodeInv => NodesSettled
    <2> SUFFICES ASSUME NodeInv PROVE NodesSettled
      OBVIOUS
    <2>1. \A l \in LightIds : Idle(l) => Begun(l)
      BY DEF Idle, Begun
    <2>2. /\ On("buttons") \in {0, 1} /\ (On("buttons") = 1 <=> Brightness("buttons") > 0)
      BY BrightnessRange DEF NodeInv, LightIds
    <2>3. QED BY <2>1, <2>2 DEF NodeInv, Shown, NodesSettled, LightIds, Half
  <1>2. QED BY <1>1, NodeInvariance, PTL

(* Every pattern written is one the LED controller knows: percentages to   *)
(* 100, cycles, slopes and waves of its tables, for every color, way to    *)
(* flash and times of the framework, in any order of calls and failures.   *)
THEOREM OnlyKnownPatterns == ASSUME LightsAssumption PROVE Spec => []PatternKnown
  <1>1. NodeInv => PatternKnown
    BY DEF NodeInv, Typed, Nodes, PatternKnown
  <1>2. QED BY <1>1, NodeInvariance, PTL

-----------------------------------------------------------------------------
(* Lights that blink.                                                      *)

(* A light that is on for a part of the time has a wave that ends dark.    *)
LEMMA PartlyOn ==
    ASSUME NEW on \in Nat, NEW off \in Nat, on > 0, off > 0
    PROVE  /\ TimedWave(on, off) \in 0..6
           /\ Phases[TimedWave(on, off) + 1][8] = 2
  <1>1. 7 * off \in Nat /\ on + off \in Nat /\ on + off > 0 /\ 7 * off < 7 * (on + off)
    BY SMT
  <1>2. TimedWave(on, off) \in 0..6
    BY <1>1, DivBelow DEF TimedWave
  <1>3. /\ Phases[1][8] = 2 /\ Phases[2][8] = 2 /\ Phases[3][8] = 2 /\ Phases[4][8] = 2
        /\ Phases[5][8] = 2 /\ Phases[6][8] = 2 /\ Phases[7][8] = 2
    BY DEF Phases
  <1>4. ASSUME NEW w \in 0..6 PROVE Phases[w + 1][8] = 2
    <2>1. \/ w + 1 = 1 \/ w + 1 = 2 \/ w + 1 = 3 \/ w + 1 = 4 \/ w + 1 = 5
          \/ w + 1 = 6 \/ w + 1 = 7
      OBVIOUS
    <2>2. QED BY <1>3, <2>1
  <1>5. QED BY <1>2, <1>4

LEMMA TimedDark ==
    ASSUME NEW s, s.mode = "timed", s.on \in Nat, s.off \in Nat, s.on > 0, s.off > 0,
           NEW led \in 1..LEDS
    PROVE  8 \notin Lit(Written(s), led)
  <1> DEFINE w == TimedWave(s.on, s.off)
             p == pattern_from_light_state(s)
             l == Written(s).leds[led]
  <1>1. p = Uniform(cycle_from_flashMS(s.on + s.off), Plain(w))
    BY SMT DEF pattern_from_light_state, IsOff
  <1>2. p.waves[led] = Plain(w)
    BY <1>1 DEF Uniform
  <1>3. Plain(w).wave = w /\ Plain(w).inv = FALSE
    BY DEF Plain
  <1>4. l.val0 = (IF p.waves[led].inv
                  THEN Percent(IF IsWhite(led)
                               THEN (IF p.special THEN SpecialWb(s.color)
                                     ELSE rgb_to_wb(s.color)).white
                               ELSE (IF p.special THEN SpecialWb(s.color)
                                     ELSE rgb_to_wb(s.color)).blue)
                  ELSE 0)
        /\ l.wave = p.waves[led].wave
    BY DEF Written
  <1> HIDE DEF p, l, w
  <1>5. l.val0 = 0 /\ l.wave = w
    BY <1>2, <1>3, <1>4
  <1>6. Phases[l.wave + 1][8] = 2
    BY <1>5, PartlyOn DEF w
  <1>7. Light(Written(s), led, 8) = 0
    BY <1>5, <1>6 DEF Light, l
  <1>8. QED BY <1>7 DEF Lit

(* A light that is on and off for some time blinks, for every color and    *)
(* all times, however tiny one of them is: no LED is lit in all phases.    *)
THEOREM BlinksWhenTimed == ASSUME LightsAssumption PROVE Spec => []TimedBlinks
  <1>1. NodeInv => TimedBlinks
    <2> DEFINE s == state["notifications"]
    <2> SUFFICES ASSUME NodeInv, NotificationSet, s.mode = "timed", s.on > 0, s.off > 0,
                        NEW led \in 1..LEDS
                 PROVE  Lit(node.pattern, led) # 1..8
      BY DEF TimedBlinks
    <2>1. s.on \in Nat /\ s.off \in Nat
      BY DEF NodeInv, Typed, Asked, LightIds
    <2>2. node.pattern = Written(s)
      BY DEF NodeInv, Shown, NotificationSet
    <2> HIDE DEF s
    <2>3. 8 \notin Lit(node.pattern, led)
      BY <2>1, <2>2, TimedDark
    <2>4. 8 \in 1..8
      OBVIOUS
    <2>5. QED BY <2>3, <2>4
  <1>2. QED BY <1>1, NodeInvariance, PTL

LEMMA TypeCorrect == ASSUME LightsAssumption PROVE Spec => []TypeOK
  <1>1. NodeInv => TypeOK
    BY DEF NodeInv, Typed, Nodes, TypeOK
  <1>2. QED BY <1>1, NodeInvariance, PTL
=============================================================================
