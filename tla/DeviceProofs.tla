---------------------------- MODULE DeviceProofs ----------------------------
(***************************************************************************)
(* What is proved of each program holds of the device that runs it, for    *)
(* every value of the constants.  A behaviour of the device is one of a    *)
(* single program with its faults, so each property follows from the       *)
(* theorem about that program.                                             *)
(***************************************************************************)
EXTENDS Device, TLAPS

(* The program never changes.                                              *)
LEMMA OneProgram ==
    ASSUME NEW p, [Next]_vars
    PROVE  program = p <=> program' = p
  BY DEF Next, vars, NotWifi, NotGraphics, NotLights, NotModem, NotUsb, NotPhone

-----------------------------------------------------------------------------
(* A behaviour of a program on the device is a behaviour of its module.    *)

LEMMA PowerRuns == Spec => Power!Wifi!Spec \/ [](program # "power")
  <1>1. Init /\ program = "power" => Power!Wifi!Init
    BY DEF Init
  <1>2. program = "power" /\ [Next]_vars => [Power!Wifi!Next]_Power!Wifi!vars
    BY DEF Next, vars, wifi, Power!Wifi!vars
  <1>3. program # "power" /\ [Next]_vars => (program # "power")'
    BY OneProgram
  <1>4. program = "power" /\ [Next]_vars => (program = "power")'
    BY OneProgram
  <1>5. program = "power" \/ program # "power"
    OBVIOUS
  <1>6. QED BY <1>1, <1>2, <1>3, <1>4, <1>5, PTL DEF Spec, Power!Wifi!Spec

LEMMA FaultRuns == Spec => Fault!Wifi!Spec \/ [](program # "nvram")
  <1>1. Init /\ program = "nvram" => Fault!Wifi!Init
    BY DEF Init
  <1>2. program = "nvram" /\ [Next]_vars => [Fault!Wifi!Next]_Fault!Wifi!vars
    BY DEF Next, vars, wifi, Fault!Wifi!vars
  <1>3. program # "nvram" /\ [Next]_vars => (program # "nvram")'
    BY OneProgram
  <1>4. program = "nvram" /\ [Next]_vars => (program = "nvram")'
    BY OneProgram
  <1>5. program = "nvram" \/ program # "nvram"
    OBVIOUS
  <1>6. QED BY <1>1, <1>2, <1>3, <1>4, <1>5, PTL DEF Spec, Fault!Wifi!Spec

LEMMA FlipRuns == Spec => Flip!Spec \/ [](program # "flip")
  <1>1. Init /\ program = "flip" => Flip!Init
    BY DEF Init
  <1>2. program = "flip" /\ [Next]_vars => [Flip!Next]_Flip!vars
    BY DEF Next, vars, graphics, Flip!vars, Flip!files, Flip!buffers,
           Flip!surface
  <1>3. program # "flip" /\ [Next]_vars => (program # "flip")'
    BY OneProgram
  <1>4. program = "flip" /\ [Next]_vars => (program = "flip")'
    BY OneProgram
  <1>5. program = "flip" \/ program # "flip"
    OBVIOUS
  <1>6. QED BY <1>1, <1>2, <1>3, <1>4, <1>5, PTL DEF Spec, Flip!Spec

LEMMA TextRuns == Spec => Text!Spec \/ [](program # "text")
  <1>1. Init /\ program = "text" => Text!Init
    BY DEF Init
  <1>2. program = "text" /\ [Next]_vars => [Text!Next]_Text!vars
    BY DEF Next, vars, graphics, Text!vars, Text!files, Text!buffers,
           Text!surface
  <1>3. program # "text" /\ [Next]_vars => (program # "text")'
    BY OneProgram
  <1>4. program = "text" /\ [Next]_vars => (program = "text")'
    BY OneProgram
  <1>5. program = "text" \/ program # "text"
    OBVIOUS
  <1>6. QED BY <1>1, <1>2, <1>3, <1>4, <1>5, PTL DEF Spec, Text!Spec

LEMMA NodesRun == Spec => Nodes!Spec \/ [](program # "nodes")
  <1>1. Init /\ program = "nodes" => Nodes!Init
    BY DEF Init
  <1>2. program = "nodes" /\ [Next]_vars => [Nodes!Next]_Nodes!vars
    BY DEF Next, vars, lights, Nodes!vars
  <1>3. program # "nodes" /\ [Next]_vars => (program # "nodes")'
    BY OneProgram
  <1>4. program = "nodes" /\ [Next]_vars => (program = "nodes")'
    BY OneProgram
  <1>5. program = "nodes" \/ program # "nodes"
    OBVIOUS
  <1>6. QED BY <1>1, <1>2, <1>3, <1>4, <1>5, PTL DEF Spec, Nodes!Spec

LEMMA PatternRuns == Spec => Pattern!Spec \/ [](program # "pattern")
  <1>1. Init /\ program = "pattern" => Pattern!Init
    BY DEF Init
  <1>2. program = "pattern" /\ [Next]_vars => [Pattern!Next]_Pattern!vars
    BY DEF Next, vars, lights, Pattern!vars
  <1>3. program # "pattern" /\ [Next]_vars => (program # "pattern")'
    BY OneProgram
  <1>4. program = "pattern" /\ [Next]_vars => (program = "pattern")'
    BY OneProgram
  <1>5. program = "pattern" \/ program # "pattern"
    OBVIOUS
  <1>6. QED BY <1>1, <1>2, <1>3, <1>4, <1>5, PTL DEF Spec, Pattern!Spec

LEMMA ModemRuns == Spec => Modem!Spec \/ [](program # "modem")
  <1>1. Init /\ program = "modem" => Modem!Init
    BY DEF Init
  <1>2. program = "modem" /\ [Next]_vars => [Modem!Next]_Modem!vars
    BY DEF Next, vars, modem, Modem!vars
  <1>3. program # "modem" /\ [Next]_vars => (program # "modem")'
    BY OneProgram
  <1>4. program = "modem" /\ [Next]_vars => (program = "modem")'
    BY OneProgram
  <1>5. program = "modem" \/ program # "modem"
    OBVIOUS
  <1>6. QED BY <1>1, <1>2, <1>3, <1>4, <1>5, PTL DEF Spec, Modem!Spec

LEMMA UsbRuns == Spec => Power!Usb!Spec \/ [](program # "usb")
  <1>1. Init /\ program = "usb" => Power!Usb!Init
    BY DEF Init
  <1>2. program = "usb" /\ [Next]_vars => [Power!Usb!Next]_Power!Usb!vars
    BY DEF Next, vars, usb, Power!Usb!vars
  <1>3. program # "usb" /\ [Next]_vars => (program # "usb")'
    BY OneProgram
  <1>4. program = "usb" /\ [Next]_vars => (program = "usb")'
    BY OneProgram
  <1>5. program = "usb" \/ program # "usb"
    OBVIOUS
  <1>6. QED BY <1>1, <1>2, <1>3, <1>4, <1>5, PTL DEF Spec, Power!Usb!Spec

LEMMA PhoneRuns == Spec => Power!Phone!Spec \/ [](program # "phone")
  <1>1. Init /\ program = "phone" => Power!Phone!Init
    BY DEF Init
  <1>2. program = "phone" /\ [Next]_vars => [Power!Phone!Next]_Power!Phone!vars
    BY DEF Next, vars, phone, Power!Phone!vars
  <1>3. program # "phone" /\ [Next]_vars => (program # "phone")'
    BY OneProgram
  <1>4. program = "phone" /\ [Next]_vars => (program = "phone")'
    BY OneProgram
  <1>5. program = "phone" \/ program # "phone"
    OBVIOUS
  <1>6. QED BY <1>1, <1>2, <1>3, <1>4, <1>5, PTL DEF Spec, Power!Phone!Spec

-----------------------------------------------------------------------------
(* The variables of the program that runs have their types.                *)
THEOREM TypeCorrect == Spec => []TypeOK
  <1>1. Power!Wifi!Spec => []Power!Wifi!TypeOK
    BY WifiAssumption, Power!WifiTypeCorrect
  <1>2. Fault!Wifi!Spec => []Fault!Wifi!TypeOK
    BY WifiAssumption, Fault!WifiTypeCorrect
  <1>3. Flip!Spec => []Flip!TypeOK
    BY DisplayAssumption, Flip!TypeCorrect
  <1>4. Text!Spec => []Text!TypeOK
    BY DisplayAssumption, Text!TypeCorrect
  <1>5. Nodes!Spec => []Nodes!TypeOK
    BY LedAssumption, Nodes!TypeCorrect
  <1>6. Pattern!Spec => []Pattern!TypeOK
    BY LedAssumption, Pattern!TypeCorrect
  <1>7. Modem!Spec => []Modem!TypeOK
    BY ModemAssumption, Modem!TypeCorrect
  <1>a. Power!Usb!Spec => []Power!Usb!TypeOK
    BY Power!UsbTypeCorrect
  <1>b. Power!Phone!Spec => []Power!Phone!TypeOK
    BY Power!PhoneTypeCorrect
  <1>8. TypeOK <=> /\ program # "power" \/ Power!Wifi!TypeOK
                   /\ program # "nvram" \/ Fault!Wifi!TypeOK
                   /\ program # "flip" \/ Flip!TypeOK
                   /\ program # "text" \/ Text!TypeOK
                   /\ program # "nodes" \/ Nodes!TypeOK
                   /\ program # "pattern" \/ Pattern!TypeOK
                   /\ program # "modem" \/ Modem!TypeOK
                   /\ program # "usb" \/ Power!Usb!TypeOK
                   /\ program # "phone" \/ Power!Phone!TypeOK
    BY DEF TypeOK
  <1>9. QED
    BY <1>1, <1>2, <1>3, <1>4, <1>5, <1>6, <1>7, <1>8, <1>a, <1>b, PowerRuns, FaultRuns,
       FlipRuns, TextRuns, NodesRun, PatternRuns, ModemRuns, UsbRuns, PhoneRuns, PTL

(* The configuration never gets another address than its first: neither    *)
(* when power is lost at any step, nor when the NVRAM fails now and then   *)
(* on a device that is shut down in good order.                            *)
THEOREM AddressNeverChanges == Spec => []MacKept
  <1>1. Power!Wifi!Spec => []Power!Wifi!MacKept
    BY Power!AddressKept
  <1>2. Fault!Wifi!Spec => []Fault!Wifi!MacKept
    BY Fault!AddressKeptOrderly
  <1>3. MacKept <=> /\ program # "power" \/ Power!Wifi!MacKept
                    /\ program # "nvram" \/ Fault!Wifi!MacKept
    BY DEF MacKept
  <1>4. QED BY <1>1, <1>2, <1>3, PowerRuns, FaultRuns, PTL

(* A device that has an address in the NVRAM gets it, whenever power is    *)
(* lost.                                                                   *)
THEOREM DeviceAddress == Spec => []MacOfDevice
  <1>1. Power!Wifi!Spec => []Power!Wifi!MacOfDevice
    BY WifiAssumption, Power!DeviceAddress
  <1>2. MacOfDevice <=> program # "power" \/ Power!Wifi!MacOfDevice
    BY DEF MacOfDevice
  <1>3. QED BY <1>1, <1>2, PowerRuns, PTL

(* gr_flip never copies into the buffer that is displayed while flips      *)
(* work; when they fail, no picture is torn but in the middle of a copy.   *)
THEOREM NothingTorn == Spec => []NoTearing
  <1>1. Flip!Spec => []Flip!NoTearing
    BY DisplayAssumption, Flip!NeverTorn
  <1>2. Text!Spec => []Text!NoTearing
    BY DisplayAssumption, Text!NeverTorn
  <1>3. NoTearing <=> /\ program # "flip" \/ Flip!NoTearing
                      /\ program # "text" \/ Text!NoTearing
    BY DEF NoTearing
  <1>4. QED BY <1>1, <1>2, <1>3, FlipRuns, TextRuns, PTL

(* When gr_exit returns, also from a gr_init that fails, the console shows *)
(* text.                                                                   *)
THEOREM ConsoleClean == Spec => []ClosedClean
  <1>1. Flip!Spec => []Flip!ClosedClean
    BY DisplayAssumption, Flip!ConsoleRestored
  <1>2. Text!Spec => []Text!ClosedClean
    BY DisplayAssumption, Text!ConsoleRestored
  <1>3. Flip!ClosedClean <=> Text!ClosedClean
    BY DEF Flip!ClosedClean, Text!ClosedClean
  <1>4. ClosedClean <=> \/ program # "flip" /\ program # "text"
                        \/ Flip!ClosedClean
    BY DEF ClosedClean
  <1>5. QED BY <1>1, <1>2, <1>3, <1>4, FlipRuns, TextRuns, PTL

(* A text is drawn with glyphs of the font only.                           *)
THEOREM TextDrawn == Spec => []TextShowsGlyphs
  <1>1. Text!Spec => []Text!TextShowsGlyphs
    BY DisplayAssumption, Text!GlyphsOnly
  <1>2. TextShowsGlyphs <=> program # "text" \/ Text!TextShowsGlyphs
    BY DEF TextShowsGlyphs
  <1>3. QED BY <1>1, <1>2, TextRuns, PTL

(* Between calls the nodes of the lights show what was asked for last.     *)
THEOREM NodesFollow == Spec => []NodesSettled
  <1>1. Nodes!Spec => []Nodes!NodesSettled
    BY LedAssumption, Nodes!NodesShowLast
  <1>2. NodesSettled <=> program # "nodes" \/ Nodes!NodesSettled
    BY DEF NodesSettled
  <1>3. QED BY <1>1, <1>2, NodesRun, PTL

(* The LED controller is never told a pattern it does not know.            *)
THEOREM PatternsKnown == Spec => []PatternKnown
  <1>1. Pattern!Spec => []Pattern!PatternKnown
    BY LedAssumption, Pattern!OnlyKnownPatterns
  <1>2. PatternKnown <=> program # "pattern" \/ Pattern!PatternKnown
    BY DEF PatternKnown
  <1>3. QED BY <1>1, <1>2, PatternRuns, PTL

(* A light with times for on and off blinks.                               *)
THEOREM LightsBlink == Spec => []TimedBlinks
  <1>1. Pattern!Spec => []Pattern!TimedBlinks
    BY LedAssumption, Pattern!BlinksWhenTimed
  <1>2. TimedBlinks <=> program # "pattern" \/ Pattern!TimedBlinks
    BY DEF TimedBlinks
  <1>3. QED BY <1>1, <1>2, PatternRuns, PTL

(* The loops over the answer of the baseband stay in the buffer.           *)
THEOREM LoopsBounded == Spec => []InBounds
  <1>1. Modem!Spec => []Modem!InBounds
    BY ModemAssumption, Modem!StaysInBuffer
  <1>2. InBounds <=> program # "modem" \/ Modem!InBounds
    BY DEF InBounds
  <1>3. QED BY <1>1, <1>2, ModemRuns, PTL

(* The version is the second line of the answer.                           *)
THEOREM SecondLineFound == Spec => []VersionIsSecondLine
  <1>1. Modem!Spec => []Modem!VersionIsSecondLine
    BY ModemAssumption, Modem!VersionFound
  <1>2. VersionIsSecondLine <=> program # "modem" \/ Modem!VersionIsSecondLine
    BY DEF VersionIsSecondLine
  <1>3. QED BY <1>1, <1>2, ModemRuns, PTL

(* When init is done, the gadget is the one of the last configuration.     *)
THEOREM GadgetFollows == Spec => []GadgetSettled
  <1>1. Power!Usb!Spec => []Power!Usb!GadgetSettled
    BY Power!GadgetFollows
  <1>2. GadgetSettled <=> program # "usb" \/ Power!Usb!GadgetSettled
    BY DEF GadgetSettled
  <1>3. QED BY <1>1, <1>2, UsbRuns, PTL

(* When all states are told, the RIL has the highest since idle.           *)
THEOREM HighestStateKept == Spec => []HighestKept
  <1>1. Power!Phone!Spec => []Power!Phone!HighestKept
    BY Power!HighestStateKept
  <1>2. HighestKept <=> program # "phone" \/ Power!Phone!HighestKept
    BY DEF HighestKept
  <1>3. QED BY <1>1, <1>2, PhoneRuns, PTL

(* When gr_flip returns and the driver shows its buffer, the display shows *)
(* what was drawn last.                                                    *)
THEOREM FlipsDisplayed == Spec => FlipShows
  <1>1. Flip!Spec => [][Flip!Flipped]_Flip!vars
    BY DisplayAssumption, Flip!FlipDisplays DEF Flip!FlipShows
  <1>2. Text!Spec => [][Text!Flipped]_Text!vars
    BY DisplayAssumption, Text!FlipDisplays DEF Text!FlipShows
  <1> DEFINE flips == program = "flip" => Flip!Flipped
             texts == program = "text" => Text!Flipped
  <1>3. [Flip!Flipped]_Flip!vars => [flips]_vars
    BY DEF vars, graphics, Flip!vars, Flip!files, Flip!buffers, Flip!surface, Flip!Flipped
  <1>4. [Text!Flipped]_Text!vars => [texts]_vars
    BY DEF vars, graphics, Text!vars, Text!files, Text!buffers, Text!surface, Text!Flipped
  <1>5. /\ program # "flip" => [flips]_vars
        /\ program # "text" => [texts]_vars
    OBVIOUS
  <1>6. [flips]_vars /\ [texts]_vars =>
          [/\ program = "flip" => Flip!Flipped
           /\ program = "text" => Text!Flipped]_vars
    OBVIOUS
  <1> HIDE DEF flips, texts
  <1>7. QED BY <1>1, <1>2, <1>3, <1>4, <1>5, <1>6, FlipRuns, TextRuns, PTL DEF FlipShows

(* Rejecting a waiting call, when every change has been told, ends that    *)
(* call and no other.                                                      *)
THEOREM WaitingCallRejected == Spec => WaitingRejected
  <1>1. Power!Phone!Spec => [][Power!Phone!Rejected]_Power!Phone!vars
    BY Power!WaitingCallRejected DEF Power!Phone!WaitingRejected
  <1>2. [Power!Phone!Rejected]_Power!Phone!vars =>
          [program = "phone" => Power!Phone!Rejected]_vars
    BY DEF vars, phone, Power!Phone!vars, Power!Phone!Rejected
  <1>3. program # "phone" => [program = "phone" => Power!Phone!Rejected]_vars
    OBVIOUS
  <1>4. QED BY <1>1, <1>2, <1>3, PhoneRuns, PTL DEF WaitingRejected
=============================================================================
