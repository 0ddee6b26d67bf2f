-------------------------- MODULE CpVersionProofs --------------------------
(***************************************************************************)
(* The two loops of cpversion.c stay in the buffer, for a buffer of any    *)
(* size and any answer that is shorter, and what they find is the second   *)
(* line of the answer.                                                     *)
(***************************************************************************)
EXTENDS CpVersion, SequenceTheorems, TLAPS

(* The pointer and the count move together: what is left of the answer     *)
(* starts at the pointer, and without an error the count stays above 0.    *)
Counted ==
    /\ pc = "read" => readbuf = 0 /\ bytes = 0 /\ read_bytes = 0
    /\ readbuf + read_bytes = bytes
    /\ bytes = -1 \/ read_bytes >= 0

(* Where a character is skipped or written there is one.                   *)
Pointed ==
    /\ pc = "left" /\ read_bytes # 0 => readbuf < Size
    /\ pc = "terminate" => readbuf < Size

IInv == TypeOK /\ Counted /\ Pointed /\ InBounds

LEMMA SizePositive == ASSUME CpVersionAssumption PROVE Size \in Nat /\ Size > 0
  BY DEF CpVersionAssumption

LEMMA InitIInv == ASSUME CpVersionAssumption PROVE Init => IInv
  BY SizePositive DEF Init, IInv, TypeOK, Counted, Pointed, InBounds

LEMMA ReadIInv ==
    ASSUME CpVersionAssumption, IInv, NEW n \in -1..Size, Read(n)
    PROVE  IInv'
  BY SizePositive DEF Read, IInv, TypeOK, Counted, Pointed, InBounds

LEMMA SkipEchoIInv == ASSUME CpVersionAssumption, IInv, SkipEcho PROVE IInv'
  <1>1. CASE read_bytes = 0
    BY <1>1, SizePositive DEF SkipEcho, IInv, TypeOK, Counted, Pointed, InBounds
  <1>2. CASE read_bytes # 0 /\ ~InBuffer
    BY <1>2, SizePositive
       DEF SkipEcho, IInv, TypeOK, Counted, Pointed, InBounds, InBuffer
  <1>3. CASE read_bytes # 0 /\ InBuffer
    <2>1. /\ UNCHANGED <<sync_buf, bytes, result, version>> /\ pc = "echo"
          /\ \/ /\ pc' = "echo" /\ readbuf' = readbuf + 1 /\ read_bytes' = read_bytes - 1
             \/ /\ pc' = "left" /\ readbuf' = readbuf /\ read_bytes' = read_bytes
      BY <1>3 DEF SkipEcho, Advance
    <2>2. /\ Size \in Nat /\ readbuf \in 0..Size /\ readbuf < Size /\ bytes \in -1..Size
          /\ read_bytes \in (-1 - Size)..Size /\ readbuf + read_bytes = bytes
          /\ bytes = -1 \/ read_bytes >= 0
      BY <1>3, SizePositive DEF IInv, TypeOK, Counted, InBuffer
    <2>3. TypeOK'
      BY <2>1, <2>2 DEF IInv, TypeOK
    <2>4. Counted'
      BY <1>3, <2>1, <2>2 DEF Counted
    <2>5. QED BY <2>1, <2>2, <2>3, <2>4 DEF IInv, Pointed, InBounds
  <1>4. QED BY <1>1, <1>2, <1>3

LEMMA SkipBreakIInv == ASSUME CpVersionAssumption, IInv, SkipBreak PROVE IInv'
  <1>1. CASE read_bytes = 0
    BY <1>1 DEF SkipBreak, IInv, TypeOK, Counted, Pointed, InBounds
  <1>2. CASE read_bytes # 0
    <2>1. /\ UNCHANGED <<sync_buf, bytes, version>> /\ pc = "left"
          /\ readbuf' = readbuf + 1 /\ read_bytes' = read_bytes - 1
          /\ result' = readbuf + 1 /\ pc' \in {"nothing", "line"}
      BY <1>2 DEF SkipBreak, Advance, AfterBreak
    <2>2. /\ Size \in Nat /\ readbuf \in 0..Size /\ readbuf < Size /\ bytes \in -1..Size
          /\ read_bytes \in (-1 - Size)..Size /\ readbuf + read_bytes = bytes
          /\ bytes = -1 \/ read_bytes >= 0
      BY <1>2, <2>1, SizePositive DEF IInv, TypeOK, Counted, Pointed
    <2>3. TypeOK'
      BY <2>1, <2>2 DEF IInv, TypeOK
    <2>4. Counted'
      BY <1>2, <2>1, <2>2 DEF Counted
    <2>5. QED BY <2>1, <2>3, <2>4 DEF IInv, Pointed, InBounds
  <1>3. QED BY <1>1, <1>2

LEMMA ScanLineIInv == ASSUME CpVersionAssumption, IInv, ScanLine PROVE IInv'
  <1>1. CASE ~InBuffer
    BY <1>1, SizePositive
       DEF ScanLine, IInv, TypeOK, Counted, Pointed, InBounds, InBuffer
  <1>2. CASE InBuffer /\ LineGoesOn
    <2>1. /\ pc = "line" /\ pc' = "line" /\ read_bytes # 0 /\ readbuf < Size
          /\ readbuf' = readbuf + 1 /\ read_bytes' = read_bytes - 1
          /\ UNCHANGED <<sync_buf, bytes, result, version>>
      BY <1>2 DEF ScanLine, Advance, LineGoesOn, InBuffer
    <2>2. Counted'
      BY <2>1 DEF IInv, TypeOK, Counted
    <2>3. TypeOK'
      BY <2>1, SizePositive DEF IInv, TypeOK, Counted
    <2>4. Pointed' /\ InBounds'
      BY <2>1 DEF Pointed, InBounds
    <2>5. QED BY <2>2, <2>3, <2>4 DEF IInv
  <1>3. CASE InBuffer /\ ~LineGoesOn
    <2>1. /\ pc = "line" /\ pc' = "terminate" /\ readbuf < Size
          /\ UNCHANGED <<sync_buf, bytes, readbuf, read_bytes, result, version>>
      BY <1>3 DEF ScanLine, InBuffer
    <2>2. QED BY <2>1 DEF IInv, TypeOK, Counted, Pointed, InBounds
  <1>4. QED BY <1>1, <1>2, <1>3

LEMMA TerminateIInv == ASSUME CpVersionAssumption, IInv, Terminate PROVE IInv'
  <1>1. sync_buf' \in [0..(Size - 1) -> Chars]
    BY DEF Terminate, IInv, TypeOK, Chars
  <1>2. QED
    BY <1>1, SizePositive DEF Terminate, IInv, TypeOK, Counted, Pointed, InBounds

LEMMA SetVersionIInv == ASSUME CpVersionAssumption, IInv, SetVersion PROVE IInv'
  BY SizePositive DEF SetVersion, IInv, TypeOK, Counted, Pointed, InBounds

LEMMA NextIInv == ASSUME CpVersionAssumption, IInv, [Next]_vars PROVE IInv'
  <1>1. CASE UNCHANGED vars
    BY <1>1 DEF vars, IInv, TypeOK, Counted, Pointed, InBounds
  <1>2. CASE Next
    BY <1>2, ReadIInv, SkipEchoIInv, SkipBreakIInv, ScanLineIInv, TerminateIInv,
       SetVersionIInv DEF Next
  <1>3. QED BY <1>1, <1>2

(* Whatever the modem answers, and whatever the stack held in the buffer,  *)
(* main of cpversion.c looks beyond the buffer only if read failed or      *)
(* filled it to the last byte.                                             *)
THEOREM StaysInBuffer == ASSUME CpVersionAssumption PROVE Spec => []InBounds
  <1>1. Init => IInv
    BY InitIInv
  <1>2. IInv /\ [Next]_vars => IInv'
    BY NextIInv
  <1>3. IInv => InBounds
    BY DEF IInv
  <1>4. QED BY <1>1, <1>2, <1>3, PTL DEF Spec

-----------------------------------------------------------------------------
(* The line that is found.                                                 *)

(* No character before n ends the echoed line.                             *)
Echo(n) == \A j \in 0..(n - 1) : sync_buf[j] \notin {NL, NUL}

(* The line starts at result, behind the first break, and has got as far   *)
(* as the pointer.                                                         *)
Found ==
    /\ result \in 1..readbuf /\ readbuf <= bytes
    /\ Echo(result - 1) /\ sync_buf[result - 1] \in {NL, NUL}
    /\ \A j \in result..(readbuf - 1) : sync_buf[j] \notin {CR, NL, NUL}

Ended == read_bytes = 0 \/ sync_buf[readbuf] \in {CR, NL, NUL}

Line == [i \in 1..(readbuf - result) |-> sync_buf[result + i - 1]]

Scanned ==
    bytes > 0 =>
      /\ pc \in {"echo", "left"} => Echo(readbuf)
      /\ pc = "left" => read_bytes = 0 \/ sync_buf[readbuf] \in {NL, NUL}
      /\ pc \in {"line", "terminate", "set", "done"} => Found
      /\ pc \in {"terminate", "set", "done"} => Ended
      /\ pc = "done" => version = Chopped(Line)

LEMMA SkipEchoScanned ==
    ASSUME CpVersionAssumption, IInv, Scanned, SkipEcho
    PROVE  Scanned'
  <1>1. UNCHANGED <<sync_buf, bytes, result, version>> /\ pc = "echo"
    BY DEF SkipEcho
  <1>2. CASE read_bytes # 0 /\ InBuffer /\ EchoGoesOn
    <2>1. pc' = "echo" /\ readbuf' = readbuf + 1
      BY <1>1, <1>2 DEF SkipEcho, Advance
    <2>2. sync_buf[readbuf] \notin {NL, NUL}
      BY <1>2 DEF EchoGoesOn, Char
    <2>3. bytes > 0 => Echo(readbuf) /\ readbuf \in Nat
      BY <1>1 DEF Scanned, IInv, TypeOK
    <2>4. bytes > 0 => Echo(readbuf)'
      BY <1>1, <2>1, <2>2, <2>3 DEF Echo
    <2>5. QED BY <1>1, <2>1, <2>4 DEF Scanned
  <1>3. CASE ~(read_bytes # 0 /\ InBuffer /\ EchoGoesOn)
    <2>1. /\ readbuf' = readbuf /\ read_bytes' = read_bytes
          /\ pc' \in {"left", "wild"}
          /\ pc' = "left" => read_bytes = 0 \/ sync_buf[readbuf] \in {NL, NUL}
      BY <1>1, <1>3 DEF SkipEcho, EchoGoesOn, Char
    <2>2. bytes > 0 => Echo(readbuf)'
      BY <1>1, <2>1 DEF Scanned, Echo
    <2>3. QED BY <1>1, <2>1, <2>2 DEF Scanned
  <1>4. QED BY <1>2, <1>3

LEMMA SkipBreakScanned ==
    ASSUME CpVersionAssumption, IInv, Scanned, SkipBreak
    PROVE  Scanned'
  <1>1. UNCHANGED <<sync_buf, bytes, version>> /\ pc = "left" /\ pc' \in {"nothing", "line"}
    BY DEF SkipBreak, AfterBreak
  <1>2. CASE pc' = "nothing"
    BY <1>2 DEF Scanned
  <1>3. CASE pc' = "line" /\ bytes > 0
    <2>1. /\ read_bytes # 0 /\ readbuf' = readbuf + 1 /\ result' = readbuf + 1
          /\ read_bytes - 1 # 0
      BY <1>3 DEF SkipBreak, Advance, AfterBreak
    <2>2. /\ readbuf \in Nat /\ read_bytes \in Nat /\ readbuf + read_bytes = bytes
          /\ Echo(readbuf) /\ sync_buf[readbuf] \in {NL, NUL}
      BY <1>1, <1>3, <2>1 DEF IInv, TypeOK, Counted, Scanned
    <2>3. /\ result' \in 1..readbuf' /\ readbuf' <= bytes'
      BY <1>1, <2>1, <2>2
    <2>4. result' - 1 = readbuf
      BY <2>1, <2>2
    <2>5. Echo(result - 1)' /\ sync_buf'[result' - 1] \in {NL, NUL}
      BY <1>1, <2>2, <2>4 DEF Echo
    <2>6. \A j \in result'..(readbuf' - 1) : sync_buf'[j] \notin {CR, NL, NUL}
      BY <2>1, <2>2
    <2>7. Found'
      BY <2>3, <2>5, <2>6 DEF Found
    <2>8. QED BY <1>3, <2>7 DEF Scanned
  <1>4. CASE ~(bytes > 0)
    BY <1>1, <1>4 DEF Scanned
  <1>5. QED BY <1>1, <1>2, <1>3, <1>4

LEMMA ScanLineScanned ==
    ASSUME CpVersionAssumption, IInv, Scanned, ScanLine
    PROVE  Scanned'
  <1>1. UNCHANGED <<sync_buf, bytes, result, version>> /\ pc = "line"
    BY DEF ScanLine
  <1>2. CASE bytes > 0 /\ InBuffer /\ LineGoesOn
    <2>1. /\ pc' = "line" /\ readbuf' = readbuf + 1 /\ read_bytes # 0
          /\ sync_buf[readbuf] \notin {CR, NL, NUL}
      BY <1>1, <1>2 DEF ScanLine, Advance, LineGoesOn, Char
    <2>2. /\ readbuf \in Nat /\ read_bytes \in Nat /\ readbuf + read_bytes = bytes
          /\ result \in Nat /\ Found
      BY <1>1, <1>2 DEF IInv, TypeOK, Counted, Scanned
    <2>3. result' \in 1..readbuf' /\ readbuf' <= bytes'
      BY <1>1, <2>1, <2>2 DEF Found
    <2>4. Echo(result - 1)' /\ sync_buf'[result' - 1] \in {NL, NUL}
      BY <1>1, <2>2 DEF Found, Echo
    <2>5. \A j \in result'..(readbuf' - 1) : sync_buf'[j] \notin {CR, NL, NUL}
      BY <1>1, <2>1, <2>2 DEF Found
    <2>6. Found'
      BY <2>3, <2>4, <2>5 DEF Found
    <2>7. QED BY <1>1, <2>1, <2>6 DEF Scanned
  <1>3. CASE bytes > 0 /\ ~(InBuffer /\ LineGoesOn)
    <2>1. /\ readbuf' = readbuf /\ read_bytes' = read_bytes
          /\ pc' \in {"wild", "terminate"}
          /\ pc' = "terminate" => read_bytes = 0 \/ sync_buf[readbuf] \in {CR, NL, NUL}
      BY <1>1, <1>3 DEF ScanLine, LineGoesOn, Char
    <2>2. Found'
      BY <1>1, <1>3, <2>1 DEF Scanned, Found, Echo
    <2>3. pc' = "terminate" => Ended'
      BY <1>1, <2>1 DEF Ended
    <2>4. QED BY <2>1, <2>2, <2>3 DEF Scanned
  <1>4. CASE ~(bytes > 0)
    BY <1>1, <1>4 DEF Scanned
  <1>5. QED BY <1>2, <1>3, <1>4

LEMMA TerminateScanned ==
    ASSUME CpVersionAssumption, IInv, Scanned, Terminate
    PROVE  Scanned'
  <1>1. /\ UNCHANGED <<bytes, readbuf, read_bytes, result, version>>
        /\ pc = "terminate" /\ pc' = "set"
        /\ sync_buf' = [sync_buf EXCEPT ![readbuf] = NUL]
    BY DEF Terminate
  <1>2. /\ readbuf \in Nat /\ readbuf \in 0..(Size - 1) /\ result \in Nat
        /\ sync_buf \in [0..(Size - 1) -> Chars] /\ Size \in Nat
    BY <1>1, SizePositive DEF IInv, TypeOK, Pointed
  <1>3. /\ sync_buf'[readbuf] = NUL
        /\ \A j \in 0..(readbuf - 1) : sync_buf'[j] = sync_buf[j]
    BY <1>1, <1>2
  <1>4. ASSUME bytes > 0 PROVE Found' /\ Ended'
    <2>1. Found
      BY <1>1, <1>4 DEF Scanned
    <2>2. \A j \in 0..(result - 2) : j \in 0..(readbuf - 1)
      BY <1>2, <2>1 DEF Found
    <2>3. result - 1 \in 0..(readbuf - 1) /\ (result - 1) - 1 = result - 2
      BY <1>2, <2>1 DEF Found
    <2>4. \A j \in result..(readbuf - 1) : j \in 0..(readbuf - 1)
      BY <1>2
    <2>5. Echo(result - 1)'
      BY <1>1, <1>3, <2>1, <2>2, <2>3 DEF Found, Echo
    <2>6. QED BY <1>1, <1>3, <2>1, <2>3, <2>4, <2>5 DEF Found, Ended
  <1>5. QED BY <1>1, <1>4 DEF Scanned

LEMMA SetVersionScanned ==
    ASSUME CpVersionAssumption, IInv, Scanned, SetVersion
    PROVE  Scanned'
  <1>1. /\ UNCHANGED <<sync_buf, bytes, readbuf, read_bytes, result>>
        /\ pc = "set" /\ pc' = "done" /\ version' = Chopped(Line)
    BY DEF SetVersion, Line
  <1>2. Line' = Line
    BY <1>1 DEF Line
  <1>3. Chopped(Line)' = Chopped(Line)
    BY <1>2 DEF Chopped
  <1>4. bytes > 0 => Found' /\ Ended'
    BY <1>1 DEF Scanned, Found, Ended, Echo
  <1>5. QED BY <1>1, <1>3, <1>4 DEF Scanned

LEMMA ScannedInvariance == ASSUME CpVersionAssumption PROVE Spec => [](IInv /\ Scanned)
  <1>1. Init => IInv /\ Scanned
    BY InitIInv DEF Init, Scanned
  <1>2. ASSUME IInv, Scanned, [Next]_vars PROVE (IInv /\ Scanned)'
    <2>1. IInv'
      BY <1>2, NextIInv
    <2>2. CASE UNCHANGED vars
      BY <1>2, <2>1, <2>2 DEF vars, Scanned, Found, Ended, Echo, Line, Chopped
    <2>3. ASSUME NEW n \in -1..Size, Read(n) PROVE Scanned'
      <3>1. readbuf' = 0 /\ pc' \in {"nothing", "echo"}
        BY <1>2, <2>3 DEF Read, IInv, Counted
      <3>2. Echo(readbuf)'
        BY <3>1 DEF Echo
      <3>3. QED BY <3>1, <3>2 DEF Scanned
    <2>4. QED
      BY <1>2, <2>1, <2>2, <2>3, SkipEchoScanned, SkipBreakScanned, ScanLineScanned,
         TerminateScanned, SetVersionScanned DEF Next
  <1>3. QED BY <1>1, <1>2, PTL DEF Spec

(* The least element of a set.                                             *)
LEMMA FirstIs ==
    ASSUME NEW S \in SUBSET Int, NEW x \in S, \A j \in S : x <= j, NEW e
    PROVE  FirstOf(S, e) = x
  <1> DEFINE y == CHOOSE i \in S : \A j \in S : i <= j
  <1>1. y \in S /\ \A j \in S : y <= j
    OBVIOUS
  <1> HIDE DEF y
  <1>2. y = x
    BY <1>1
  <1>3. QED BY <1>2 DEF FirstOf, y

(* A function of a stretch of the numbers from 1 is a sequence.            *)
LEMMA FunctionIsSeq ==
    ASSUME NEW S, NEW n \in Nat, NEW f \in [1..n -> S]
    PROVE  f \in Seq(S) /\ Len(f) = n
  <1>1. f \in Seq(S)
    BY SeqDef
  <1>2. Len(f) \in Nat /\ DOMAIN f = 1..Len(f) /\ DOMAIN f = 1..n
    BY <1>1, LenProperties
  <1>3. Len(f) = n
    BY <1>2, SMT
  <1>4. QED BY <1>1, <1>3

(* What the two loops found, read off the sequence of what was answered.   *)
LEMMA LineIsSecond ==
    ASSUME CpVersionAssumption, IInv, Scanned, pc = "done", bytes > 0
    PROVE  /\ SecondLine([i \in 1..bytes |-> sync_buf[i - 1]]) = Line
           /\ Line \in Seq(Chars)
  <1> DEFINE s == [i \in 1..bytes |-> sync_buf[i - 1]]
  <1>1. /\ bytes \in Nat /\ bytes <= Size /\ Size \in Nat
        /\ readbuf \in Nat /\ read_bytes \in Nat /\ readbuf + read_bytes = bytes
        /\ sync_buf \in [0..(Size - 1) -> Chars]
    BY SizePositive DEF IInv, TypeOK, Counted
  <1>2. Found /\ Ended
    BY DEF Scanned
  <1>3. result \in 1..readbuf /\ result \in Nat /\ result >= 1 /\ readbuf <= bytes
    BY <1>1, <1>2 DEF Found
  <1>4. \A i \in 1..bytes : i - 1 \in 0..(Size - 1) /\ s[i] = sync_buf[i - 1]
    BY <1>1
  <1>5. s \in [1..bytes -> Chars]
    BY <1>1, <1>4
  <1>6. s \in Seq(Chars) /\ Len(s) = bytes
    BY <1>1, <1>5, FunctionIsSeq
  <1> HIDE DEF s
  <1>7. FirstOf(Ends(s, 1, {NL, NUL}), bytes) = result
    <2> DEFINE E == Ends(s, 1, {NL, NUL})
    <2>1. result \in 1..bytes /\ s[result] \in {NL, NUL}
      BY <1>1, <1>2, <1>3, <1>4 DEF Found
    <2>2. E \in SUBSET Int /\ result \in E
      BY <1>6, <2>1 DEF Ends
    <2>3. ASSUME NEW j \in E, j < result PROVE FALSE
      <3>1. j \in 1..bytes /\ s[j] \in {NL, NUL}
        BY <1>6, <2>3 DEF Ends
      <3>2. j - 1 \in 0..((result - 1) - 1)
        BY <1>1, <1>3, <2>3, <3>1
      <3>3. QED BY <1>2, <1>4, <3>1, <3>2 DEF Found, Echo
    <2>4. \A j \in E : result <= j
      BY <1>3, <2>2, <2>3
    <2> HIDE DEF E
    <2>5. FirstOf(E, bytes) = result
      BY <2>2, <2>4, FirstIs
    <2>6. QED BY <2>5 DEF E
  <1>8. FirstOf(Ends(s, result + 1, {CR, NL, NUL}), bytes + 1) = readbuf + 1
    <2> DEFINE E == Ends(s, result + 1, {CR, NL, NUL})
    <2>1. E \in SUBSET Int
      BY <1>1, <1>3, <1>6 DEF Ends
    <2>2. ASSUME NEW j \in E, j < readbuf + 1 PROVE FALSE
      <3>1. j \in 1..bytes /\ j \in (result + 1)..bytes /\ s[j] \in {CR, NL, NUL}
        BY <1>1, <1>3, <1>6, <2>2 DEF Ends
      <3>2. j - 1 \in result..(readbuf - 1)
        BY <1>1, <1>3, <2>2, <3>1
      <3>3. QED BY <1>2, <1>4, <3>1, <3>2 DEF Found
    <2>3. CASE read_bytes = 0
      <3>1. readbuf = bytes
        BY <1>1, <2>3
      <3>2. E = {}
        BY <1>1, <1>3, <1>6, <2>2, <3>1 DEF Ends
      <3>3. QED BY <3>1, <3>2 DEF FirstOf
    <2>4. CASE read_bytes # 0
      <3>1. readbuf + 1 \in 1..bytes /\ readbuf + 1 \in (result + 1)..bytes
            /\ (readbuf + 1) - 1 = readbuf
        BY <1>1, <1>3, <2>4
      <3>2. s[readbuf + 1] \in {CR, NL, NUL}
        BY <1>2, <1>4, <2>4, <3>1 DEF Ended
      <3>3. readbuf + 1 \in E
        BY <1>6, <3>1, <3>2 DEF Ends
      <3> HIDE DEF E
      <3>4. \A j \in E : readbuf + 1 <= j
        <4>1. readbuf \in Nat /\ \A j \in E : j \in Int
          BY <1>1, <2>1
        <4>2. QED BY <2>2, <4>1
      <3>5. FirstOf(E, bytes + 1) = readbuf + 1
        BY <2>1, <3>3, <3>4, FirstIs
      <3>6. QED BY <3>5 DEF E
    <2>5. QED BY <2>3, <2>4
  <1>9. SecondLine(s) = SubSeq(s, result + 1, readbuf)
    <2>1. (readbuf + 1) - 1 = readbuf
      BY <1>1
    <2>2. SecondLine(s) = SubSeq(s, result + 1, (readbuf + 1) - 1)
      BY <1>6, <1>7, <1>8 DEF SecondLine
    <2>3. QED BY <2>1, <2>2
  <1>10. /\ SubSeq(s, result + 1, readbuf) \in Seq(Chars)
         /\ Len(SubSeq(s, result + 1, readbuf)) = readbuf - result
         /\ \A i \in 1..(readbuf - result) :
              SubSeq(s, result + 1, readbuf)[i] = s[(result + 1) + i - 1]
    <2>1. \A i \in (result + 1)..readbuf : i \in 1..bytes
      BY <1>1, <1>3
    <2>2. \A i \in (result + 1)..readbuf : s[i] \in Chars
      BY <1>5, <2>1
    <2>3. result + 1 \in Int /\ readbuf \in Int
          /\ readbuf - (result + 1) + 1 = readbuf - result
          /\ (IF result + 1 <= readbuf THEN readbuf - (result + 1) + 1 ELSE 0)
               = readbuf - result
      BY <1>1, <1>3
    <2>4. QED BY <2>2, <2>3, SubSeqProperties
  <1>11. /\ Line \in Seq(Chars) /\ Len(Line) = readbuf - result
         /\ \A i \in 1..(readbuf - result) : Line[i] = sync_buf[result + i - 1]
    <2>1. readbuf - result \in Nat
      BY <1>1, <1>3
    <2>2. \A i \in 1..(readbuf - result) :
             result + i - 1 \in 0..(Size - 1) /\ Line[i] = sync_buf[result + i - 1]
      BY <1>1, <1>3 DEF Line
    <2>3. Line \in [1..(readbuf - result) -> Chars]
      BY <1>1, <2>2 DEF Line
    <2>4. QED BY <2>1, <2>2, <2>3, FunctionIsSeq
  <1>12. \A i \in 1..(readbuf - result) :
            SubSeq(s, result + 1, readbuf)[i] = Line[i]
    <2>1. \A i \in 1..(readbuf - result) :
             /\ (result + 1) + i - 1 \in 1..bytes
             /\ ((result + 1) + i - 1) - 1 = result + i - 1
      BY <1>1, <1>3
    <2>2. QED BY <1>4, <1>10, <1>11, <2>1
  <1>13. SubSeq(s, result + 1, readbuf) = Line
    BY <1>10, <1>11, <1>12, SeqEqual
  <1>14. QED BY <1>9, <1>11, <1>13 DEF s

(* The baseband version is the line behind the first line feed or NUL of   *)
(* what read returned, without its first and last characters: for a buffer *)
(* of any size and any answer, nothing of the echo, of a later line or of  *)
(* what the stack held in the buffer is in it (the two loops, the          *)
(* terminator and the chop of main in cpversion.c).                        *)
THEOREM VersionFound == ASSUME CpVersionAssumption PROVE Spec => []VersionIsSecondLine
  <1>1. ASSUME IInv, Scanned, pc = "done", bytes > 0
        PROVE  LET line == SecondLine([i \in 1..bytes |-> sync_buf[i - 1]])
               IN  version = SubSeq(line, IF Len(line) > 2 THEN 2 ELSE 1,
                                    IF Len(line) > 2 THEN Len(line) - 1 ELSE Len(line))
    <2> DEFINE line == SecondLine([i \in 1..bytes |-> sync_buf[i - 1]])
    <2>1. line = Line /\ line \in Seq(Chars)
      BY <1>1, LineIsSecond
    <2>2. version = Chopped(line)
      BY <1>1, <2>1 DEF Scanned
    <2> HIDE DEF line
    <2>3. SubSeq(line, 1, Len(line)) = line
      BY <2>1, SubSeqFull
    <2>4. version = SubSeq(line, IF Len(line) > 2 THEN 2 ELSE 1,
                           IF Len(line) > 2 THEN Len(line) - 1 ELSE Len(line))
      BY <2>2, <2>3, Zenon DEF Chopped
    <2>5. QED BY <2>4 DEF line
  <1>2. IInv /\ Scanned => VersionIsSecondLine
    BY <1>1 DEF VersionIsSecondLine
  <1>3. QED BY <1>2, ScannedInvariance, PTL

LEMMA TypeCorrect == ASSUME CpVersionAssumption PROVE Spec => []TypeOK
  <1>1. IInv /\ Scanned => TypeOK
    BY DEF IInv
  <1>2. QED BY <1>1, ScannedInvariance, PTL
=============================================================================
