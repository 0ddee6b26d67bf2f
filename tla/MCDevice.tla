------------------------------ MODULE MCDevice ------------------------------
(***************************************************************************)
(* Values for model checking the small programs of the device.             *)
(***************************************************************************)
EXTENDS Device

(* NVRAM contents blank, adding up to a multiple of 256, and usual.        *)
SomeNvrams ==
    {<<0, 0, 0, 0, 0, 0>>, <<0, 30, 117, 99, 8, 2>>, <<64, 64, 64, 64, 0, 0>>}

(* Texts at the ends of the font, with the characters around them and      *)
(* characters with the sign bit.                                           *)
Word == {<<65>>}
Edges == {<<>>, <<32, 127>>, <<31, 65>>, <<65, -128>>, <<-1, 9, 66>>}

(* Few states for the interleavings of all lights; colors and times at the *)
(* edges of the arithmetic for one call.                                   *)
LightState(r, g, b, m, on, off) ==
    [color |-> [r |-> r, g |-> g, b |-> b], mode |-> m, on |-> on, off |-> off]
FewStates ==
    {LightState(0, 0, 0, "none", 0, 0), LightState(255, 255, 255, "none", 0, 0),
     LightState(0, 80, 250, "timed", 500, 2000)}
EdgeStates ==
    {LightState(r, g, b, m, on, off) :
       r \in {0, 7, 255}, g \in {0, 1, 15, 255}, b \in {0, 14, 131, 255},
       m \in {"none", "timed", "hardware"}, on \in {0, 1, 250, 5000, 306783378},
       off \in {0, 1, 12577}}
=============================================================================
