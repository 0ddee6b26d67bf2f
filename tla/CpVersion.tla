----------------------------- MODULE CpVersion -----------------------------
(***************************************************************************)
(* bbversion/cpversion.c: the answer of the modem to AT%SWOV is in a       *)
(* buffer of Size bytes; two loops find the line after the echoed one,     *)
(* which becomes the baseband version.                                     *)
(*                                                                         *)
(* sync_buf[i], counted from 0, is a character that ends a line or another *)
(* one; what read did not fill is whatever the stack held.  A step beyond  *)
(* the end of the buffer leads to "wild", where the model stops.           *)
(***************************************************************************)
EXTENDS Integers, Sequences

CONSTANTS Size,   \* sizeof(sync_buf), 256
          Others  \* characters other than the end of a line

NL == "nl"
CR == "cr"
NUL == "nul"
Chars == Others \cup {NL, CR, NUL}

CpVersionAssumption ==
    /\ Size \in Nat \ {0}
    /\ Others \cap {NL, CR, NUL} = {}

VARIABLES
    pc,         \* where main is
    sync_buf,
    bytes,      \* what read returned: -1, or the number of bytes it filled
    readbuf,    \* index of the pointer in sync_buf
    read_bytes,
    result,     \* index of the version
    version     \* the property gsm.version.baseband

vars == <<pc, sync_buf, bytes, readbuf, read_bytes, result, version>>

Init ==
    /\ pc = "read"
    /\ sync_buf \in [0..(Size - 1) -> Chars]
    /\ bytes = 0 /\ readbuf = 0 /\ read_bytes = 0 /\ result = 0
    /\ version = <<>>

(* The non-blocking read, one second after the command was written.        *)
Read(n) ==
    /\ pc = "read"
    /\ bytes' = n /\ read_bytes' = n
    /\ pc' = IF n = 0 THEN "nothing" ELSE "echo"
    /\ UNCHANGED <<sync_buf, readbuf, result, version>>

(* Mutant: the count moves by two.                                         *)
AdvanceTwo ==
    /\ readbuf' = readbuf + 1 /\ read_bytes' = read_bytes - 2

Advance ==
    /\ readbuf' = readbuf + 1 /\ read_bytes' = read_bytes - 1

InBuffer == readbuf < Size
Char == sync_buf[readbuf]

(* Mutant: the carriage return ends the echoed line too.                   *)
EchoGoesOnCR == Char \notin {NL, CR, NUL}

EchoGoesOn == Char \notin {NL, NUL}

(* "Skip first echoed line"                                                *)
SkipEcho ==
    /\ pc = "echo"
    /\ IF read_bytes = 0
       THEN pc' = "left" /\ UNCHANGED <<readbuf, read_bytes>>
       ELSE IF ~InBuffer
       THEN pc' = "wild" /\ UNCHANGED <<readbuf, read_bytes>>
       ELSE IF EchoGoesOn
       THEN Advance /\ UNCHANGED pc
       ELSE pc' = "left" /\ UNCHANGED <<readbuf, read_bytes>>
    /\ UNCHANGED <<sync_buf, bytes, result, version>>

AfterBreak == IF read_bytes - 1 = 0 THEN "nothing" ELSE "line"

(* "Skip line break", unless nothing is left before or after it.           *)
SkipBreak ==
    /\ pc = "left"
    /\ IF read_bytes = 0
       THEN pc' = "nothing" /\ UNCHANGED <<readbuf, read_bytes, result>>
       ELSE Advance /\ result' = readbuf + 1 /\ pc' = AfterBreak
    /\ UNCHANGED <<sync_buf, bytes, version>>

(* Mutant: the count is not looked at.                                     *)
LineGoesOnUncounted == Char \notin {CR, NL, NUL}

LineGoesOn == Char \notin {CR, NL, NUL} /\ read_bytes # 0

(* The loop over the version looks at the character before the count.      *)
ScanLine ==
    /\ pc = "line"
    /\ IF ~InBuffer
       THEN pc' = "wild" /\ UNCHANGED <<readbuf, read_bytes>>
       ELSE IF LineGoesOn
       THEN Advance /\ UNCHANGED pc
       ELSE pc' = "terminate" /\ UNCHANGED <<readbuf, read_bytes>>
    /\ UNCHANGED <<sync_buf, bytes, result, version>>

Terminate ==
    /\ pc = "terminate"
    /\ sync_buf' = [sync_buf EXCEPT ![readbuf] = NUL]
    /\ pc' = "set"
    /\ UNCHANGED <<bytes, readbuf, read_bytes, result, version>>

(* "Chop off first and last chars" if there are more than two.             *)
Chopped(s) == IF Len(s) > 2 THEN SubSeq(s, 2, Len(s) - 1) ELSE s

SetVersion ==
    /\ pc = "set"
    /\ version' = Chopped([i \in 1..(readbuf - result) |-> sync_buf[result + i - 1]])
    /\ pc' = "done"
    /\ UNCHANGED <<sync_buf, bytes, readbuf, read_bytes, result>>

Next ==
    \/ \E n \in -1..Size : Read(n)
    \/ SkipEcho \/ SkipBreak \/ ScanLine \/ Terminate \/ SetVersion

Spec == Init /\ [][Next]_vars

-----------------------------------------------------------------------------
(* Properties.                                                             *)

TypeOK ==
    /\ pc \in {"read", "echo", "left", "line", "terminate", "set", "done", "nothing",
               "wild"}
    /\ sync_buf \in [0..(Size - 1) -> Chars]
    /\ bytes \in -1..Size
    /\ readbuf \in 0..Size
    /\ read_bytes \in (-1 - Size)..Size
    /\ result \in 0..Size

(* The loops stay in the buffer for every answer shorter than the buffer,  *)
(* whatever the rest of it holds.  They leave it only if read fails (-1    *)
(* counts down from there) or fills the buffer to the last byte.           *)
InBounds == pc = "wild" => bytes \in {-1, Size}

(* What the modem answered, as a sequence, up to the terminator.           *)
Ends(s, from, chars) == {i \in from..Len(s) : s[i] \in chars}
FirstOf(S, else) == IF S = {} THEN else ELSE CHOOSE i \in S : \A j \in S : i <= j

(* The version is the line after the first line feed or NUL, without its   *)
(* first and last characters: nothing of the echo, of the lines after it   *)
(* or of the stack is in it.                                               *)
SecondLine(s) ==
    LET break == FirstOf(Ends(s, 1, {NL, NUL}), Len(s))
        end == FirstOf(Ends(s, break + 1, {CR, NL, NUL}), Len(s) + 1)
    IN SubSeq(s, break + 1, end - 1)

VersionIsSecondLine ==
    LET line == SecondLine([i \in 1..bytes |-> sync_buf[i - 1]])
    IN pc = "done" /\ bytes > 0 =>
         version = SubSeq(line, IF Len(line) > 2 THEN 2 ELSE 1,
                          IF Len(line) > 2 THEN Len(line) - 1 ELSE Len(line))
=============================================================================
