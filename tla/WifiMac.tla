------------------------------ MODULE WifiMac ------------------------------
(***************************************************************************)
(* The Wi-Fi configuration with the device's MAC address: wlan-precheck,   *)
(* which init starts once per boot, and wifimac (wifi/wifimac/getmac.c),   *)
(* which reads the address from the NVRAM partition and writes             *)
(* /data/misc/wifi/config.  The device may be switched off or lose power   *)
(* between any two steps.                                                  *)
(***************************************************************************)
EXTENDS Integers

CONSTANTS Nvrams,     \* contents the six bytes of the NVRAM may have
          Random,     \* what rand() % 255 gives: the generator is never seeded
          NvramFails, \* opening or reading the partition may fail
          OpenFails,  \* fopen of the configuration may fail
          PowerLoss,  \* what is not written back yet is lost with the power
          MaxBoots    \* bound: boots of one behaviour

Bytes == 0..255

WifiMacAssumption ==
    /\ Nvrams \subseteq [1..6 -> Bytes]
    /\ Random \in 0..254
    /\ {NvramFails, OpenFails, PowerLoss} \subseteq BOOLEAN
    /\ MaxBoots \in Nat

VARIABLES
    nvram,
    pc,      \* "off", or where the precheck and wifimac are
    macaddr, \* the address wifimac has read
    file,    \* the configuration as programs see it
    disk,    \* the configuration as a reboot finds it after a loss of power
    first,   \* the first address the configuration ever had
    boots

vars == <<nvram, pc, macaddr, file, disk, first, boots>>

Zero == [i \in 1..6 |-> 0]
None == Zero  \* no address yet

Absent == [kind |-> "absent", mac |-> None]
Empty == [kind |-> "empty", mac |-> None]
Full(m) == [kind |-> "full", mac |-> m]

Init ==
    /\ nvram \in Nvrams
    /\ pc = "off" /\ macaddr = None
    /\ file = Absent /\ disk = Absent
    /\ first = None /\ boots = 0

-----------------------------------------------------------------------------
Boot ==
    /\ pc = "off" /\ boots < MaxBoots
    /\ boots' = boots + 1
    /\ pc' = "check"
    /\ UNCHANGED <<nvram, macaddr, file, disk, first>>

(* Mutant: a file that exists is not written again.                        *)
NeededAbsent == file.kind = "absent"

(* wlan-precheck: [ ! -s config ], absent or empty.                        *)
Needed == file.kind # "full"

Precheck ==
    /\ pc = "check"
    /\ pc' = IF Needed THEN "open" ELSE "done"
    /\ UNCHANGED <<nvram, macaddr, file, disk, first, boots>>

(* fopen truncates the file.  A failure is not checked: fprintf ends the   *)
(* program.                                                                *)
Open ==
    /\ pc = "open"
    /\ \/ file' = Empty /\ pc' = "read"
       \/ OpenFails /\ pc' = "done" /\ UNCHANGED file
    /\ UNCHANGED <<nvram, macaddr, disk, first, boots>>

(* Each byte is set to 0 before it is read; failures are not checked.      *)
BytesRead ==
    IF NvramFails
    THEN {[i \in 1..6 |-> IF i \in bad THEN 0 ELSE nvram[i]] : bad \in SUBSET (1..6)}
    ELSE {nvram}

Read ==
    /\ pc = "read"
    /\ macaddr' \in BytesRead
    /\ pc' = "format"
    /\ UNCHANGED <<nvram, file, disk, first, boots>>

(* Mutants: a generator seeded by the time; a sum that wraps at 8 bits.    *)
FallbackSeeded == <<11, 173, 192, 255, 238, (Random + 2 * boots) % 254>>
AllZero8(m) == (m[1] + m[2] + m[3] + m[4] + m[5] + m[6]) % 256 = 0

(* The address of a device without one, 0b:ad:c0:ff:ee and an even byte.   *)
Fallback == <<11, 173, 192, 255, 238, Random - (Random % 2)>>
AllZero(m) == m[1] + m[2] + m[3] + m[4] + m[5] + m[6] = 0

Format ==
    /\ pc = "format"
    /\ macaddr' = IF AllZero(macaddr) THEN Fallback ELSE macaddr
    /\ pc' = "write"
    /\ UNCHANGED <<nvram, file, disk, first, boots>>

(* fprintf fills the buffer of the stream, fclose writes it in one piece.  *)
Close ==
    /\ pc = "write"
    /\ file' = Full(macaddr)
    /\ first' = IF first = None THEN macaddr ELSE first
    /\ pc' = "done"
    /\ UNCHANGED <<nvram, macaddr, disk, boots>>

(* The kernel writes the file back, whenever it likes.                     *)
WriteBack ==
    /\ disk # file
    /\ disk' = file
    /\ UNCHANGED <<nvram, pc, macaddr, file, first, boots>>

(* The device goes down, in good order or without.                         *)
Down ==
    /\ pc # "off" /\ boots < MaxBoots
    /\ pc' = "off" /\ macaddr' = None
    /\ \/ disk' = file /\ UNCHANGED file
       \/ PowerLoss /\ file' = disk /\ UNCHANGED disk
    /\ UNCHANGED <<nvram, first, boots>>

Service == Boot \/ Precheck \/ Open \/ Read \/ Format \/ Close

Next == Service \/ WriteBack \/ Down

Spec == Init /\ [][Next]_vars

(* init starts the service at each boot, and the programs run.             *)
FairSpec == Spec /\ WF_vars(Service)

-----------------------------------------------------------------------------
(* Properties.                                                             *)

TypeOK ==
    /\ nvram \in Nvrams
    /\ pc \in {"off", "check", "open", "read", "format", "write", "done"}
    /\ {macaddr, first} \subseteq [1..6 -> Bytes]
    /\ {file, disk} \subseteq [kind : {"absent", "empty", "full"}, mac : [1..6 -> Bytes]]
    /\ boots \in 0..MaxBoots

(* Once the configuration has had an address, it never has another one,    *)
(* whenever the device goes down: a configuration written again gets the   *)
(* same address, also on a device that has none of its own.                *)
MacKept == file.kind = "full" => file.mac = first

(* A device with an address in the NVRAM gets that address.                *)
MacOfDevice == file.kind = "full" /\ nvram # Zero => file.mac = nvram

(* "least significant bit must be off, else it's multicast" (getmac.c):    *)
(* the fallback address is not a multicast address, which is told by the   *)
(* lowest bit of the first byte of an address.                             *)
FallbackUnicast == file.kind = "full" /\ nvram = Zero => file.mac[1] % 2 = 0

(* After the last boot the configuration has an address, wherever earlier  *)
(* boots were cut short.                                                   *)
Configured == file.kind = "full"
ConfigWritten == <>[]Configured
=============================================================================
