--------------------------- MODULE ServiceProofs ---------------------------
(***************************************************************************)
(* The programs that serve the rest of the device from boot on: wifimac,   *)
(* which writes the Wi-Fi address once, and two that lag behind what they  *)
(* follow through a queue: init, which sets up the USB gadget of the last  *)
(* configuration, and the RIL, which keeps the highest state of the phone. *)
(* They share nothing; the queue and the count of changes are those of one *)
(* or of the other.                                                        *)
(***************************************************************************)
EXTENDS Integers, Sequences, SequenceTheorems, TLAPS

CONSTANTS
    Nvrams, Random, NvramFails, OpenFails, PowerLoss, MaxBoots,  \* of WifiMac
    MaxConfigs,             \* MaxChanges of UsbConfig
    Calls, MaxCallChanges  \* Calls and MaxChanges of RilCallState

VARIABLES
    pc, nvram, macaddr, file, disk, first, boots,
    queue, changes,
    config, running, gadget,
    call, mCallState, highest, request

Wifi == INSTANCE WifiMac
Usb == INSTANCE UsbConfig WITH MaxChanges <- MaxConfigs
Phone == INSTANCE RilCallState WITH MaxChanges <- MaxCallChanges

-----------------------------------------------------------------------------
(* The Wi-Fi address.                                                      *)

(* The one address wifimac computes on this device.                        *)
Address == IF Wifi!AllZero(nvram) THEN Wifi!Fallback ELSE nvram

Written(f) == f.kind = "full" => f.mac = Address /\ first = Address

(* Every configuration, on the disk too, and every address about to be     *)
(* written is that address.                                                *)
WifiInv ==
    /\ nvram \in Nvrams
    /\ first \in {Wifi!None, Address}
    /\ pc = "format" => macaddr = nvram
    /\ pc = "write" => macaddr = Address
    /\ Written(file) /\ Written(disk)

LEMMA WifiInit == Wifi!Init => WifiInv
  BY DEF Wifi!Init, WifiInv, Written, Wifi!Absent

(* Steps that compute no address, and leave or exchange the two files.     *)
LEMMA MovedInv ==
    ASSUME WifiInv, UNCHANGED <<nvram, first>>,
           pc' = "format" => FALSE, pc' = "write" => FALSE,
           file' \in {file, disk, Wifi!Empty}, disk' \in {file, disk}
    PROVE  WifiInv'
  BY DEF WifiInv, Written, Address, Wifi!Empty

LEMMA ReadInv == ASSUME WifiInv, ~NvramFails, Wifi!Read PROVE WifiInv'
  BY DEF Wifi!Read, Wifi!BytesRead, WifiInv, Written, Address

LEMMA FormatInv == ASSUME WifiInv, Wifi!Format PROVE WifiInv'
  BY DEF Wifi!Format, WifiInv, Written, Address

LEMMA CloseInv == ASSUME WifiInv, Wifi!Close PROVE WifiInv'
  BY DEF Wifi!Close, Wifi!Full, WifiInv, Written, Address

LEMMA WriteBackInv == ASSUME WifiInv, Wifi!WriteBack PROVE WifiInv'
  BY DEF Wifi!WriteBack, WifiInv, Written, Address

LEMMA WifiNextInv == ASSUME ~NvramFails, WifiInv, [Wifi!Next]_Wifi!vars PROVE WifiInv'
  <1>1. CASE Wifi!Boot
    BY <1>1, MovedInv DEF Wifi!Boot
  <1>2. CASE Wifi!Precheck
    BY <1>2, MovedInv DEF Wifi!Precheck
  <1>3. CASE Wifi!Open
    BY <1>3, MovedInv DEF Wifi!Open
  <1>4. CASE Wifi!Down
    BY <1>4, MovedInv DEF Wifi!Down
  <1>5. CASE UNCHANGED Wifi!vars
    BY <1>5 DEF Wifi!vars, WifiInv, Written, Address
  <1>6. QED
    BY <1>1, <1>2, <1>3, <1>4, <1>5, ReadInv, FormatInv, CloseInv, WriteBackInv
       DEF Wifi!Next, Wifi!Service

LEMMA WifiInvariance == ASSUME ~NvramFails PROVE Wifi!Spec => []WifiInv
  <1>1. Wifi!Init => WifiInv
    BY WifiInit
  <1>2. WifiInv /\ [Wifi!Next]_Wifi!vars => WifiInv'
    BY WifiNextInv
  <1>3. QED BY <1>1, <1>2, PTL DEF Wifi!Spec

-----------------------------------------------------------------------------
(* The configuration never gets another address than its first, whenever   *)
(* and however the device goes down.                                       *)
THEOREM AddressKept == ASSUME ~NvramFails PROVE Wifi!Spec => []Wifi!MacKept
  <1>1. WifiInv => Wifi!MacKept
    BY DEF WifiInv, Written, Wifi!MacKept
  <1>2. QED BY <1>1, WifiInvariance, PTL

LEMMA SixZeros ==
    ASSUME NEW a \in Nat, NEW b \in Nat, NEW c \in Nat, NEW d \in Nat, NEW e \in Nat,
           NEW f \in Nat, a + b + c + d + e + f = 0
    PROVE  a = 0 /\ b = 0 /\ c = 0 /\ d = 0 /\ e = 0 /\ f = 0
  OBVIOUS

(* Six bytes that add up to 0 are all 0: only a blank NVRAM is replaced.   *)
LEMMA OnlyBlank ==
    ASSUME NEW m \in [1..6 -> Wifi!Bytes], Wifi!AllZero(m)
    PROVE  m = Wifi!Zero
  <1> DEFINE a == m[1]  b == m[2]  c == m[3]  d == m[4]  e == m[5]  f == m[6]
  <1>1. /\ a \in Nat /\ b \in Nat /\ c \in Nat /\ d \in Nat /\ e \in Nat /\ f \in Nat
        /\ a + b + c + d + e + f = 0
    BY DEF Wifi!Bytes, Wifi!AllZero
  <1>2. m[1] = 0 /\ m[2] = 0 /\ m[3] = 0 /\ m[4] = 0 /\ m[5] = 0 /\ m[6] = 0
    <2> HIDE DEF a, b, c, d, e, f
    <2>1. a = 0 /\ b = 0 /\ c = 0 /\ d = 0 /\ e = 0 /\ f = 0
      BY <1>1, SixZeros
    <2>2. QED BY <2>1 DEF a, b, c, d, e, f
  <1>3. ASSUME NEW i \in 1..6
        PROVE  m[i] = 0
    <2>1. i = 1 \/ i = 2 \/ i = 3 \/ i = 4 \/ i = 5 \/ i = 6
      OBVIOUS
    <2>2. QED BY <1>2, <2>1
  <1>4. QED BY <1>3 DEF Wifi!Zero

(* A device with an address in the NVRAM gets that address and no other.   *)
THEOREM DeviceAddress ==
    ASSUME Wifi!WifiMacAssumption, ~NvramFails PROVE Wifi!Spec => []Wifi!MacOfDevice
  <1>1. WifiInv => Wifi!MacOfDevice
    <2> SUFFICES ASSUME WifiInv, file.kind = "full", nvram # Wifi!Zero PROVE file.mac = nvram
      BY DEF Wifi!MacOfDevice
    <2>1. nvram \in [1..6 -> Wifi!Bytes]
      BY DEF WifiInv, Wifi!WifiMacAssumption
    <2>2. ~Wifi!AllZero(nvram)
      BY <2>1, OnlyBlank
    <2>3. QED BY <2>2 DEF WifiInv, Written, Address
  <1>2. QED BY <1>1, WifiInvariance, PTL

(* When the device is always shut down in good order, a configuration that *)
(* has an address is never opened again, so its address stays, whatever is *)
(* read from the NVRAM.                                                    *)
Opened == pc \in {"open", "read", "format", "write"}

OrderlyInv ==
    /\ Opened \/ file.kind # "full" => first = Wifi!None
    /\ file.kind = "full" => file.mac = first

LEMMA OrderlyInvariance == ASSUME ~PowerLoss PROVE Wifi!Spec => []OrderlyInv
  <1>1. Wifi!Init => OrderlyInv
    BY DEF Wifi!Init, OrderlyInv, Wifi!Absent
  <1>2. ASSUME OrderlyInv, [Wifi!Next]_Wifi!vars PROVE OrderlyInv'
    <2>1. CASE Wifi!Boot
      BY <1>2, <2>1 DEF OrderlyInv, Opened, Wifi!Boot
    <2>2. CASE Wifi!Precheck
      BY <1>2, <2>2 DEF OrderlyInv, Opened, Wifi!Precheck, Wifi!Needed
    <2>3. CASE Wifi!Open
      BY <1>2, <2>3 DEF OrderlyInv, Opened, Wifi!Open, Wifi!Empty
    <2>4. CASE Wifi!Read \/ Wifi!Format
      BY <1>2, <2>4 DEF OrderlyInv, Opened, Wifi!Read, Wifi!Format
    <2>5. CASE Wifi!Close
      BY <1>2, <2>5 DEF OrderlyInv, Opened, Wifi!Close, Wifi!Full
    <2>6. CASE Wifi!WriteBack
      BY <1>2, <2>6 DEF OrderlyInv, Opened, Wifi!WriteBack
    <2>7. CASE Wifi!Down
      BY <1>2, <2>7 DEF OrderlyInv, Opened, Wifi!Down
    <2>8. CASE UNCHANGED Wifi!vars
      BY <1>2, <2>8 DEF OrderlyInv, Opened, Wifi!vars
    <2>9. QED
      BY <1>2, <2>1, <2>2, <2>3, <2>4, <2>5, <2>6, <2>7, <2>8 DEF Wifi!Next, Wifi!Service
  <1>3. QED BY <1>1, <1>2, PTL DEF Wifi!Spec

(* Without losses of power the configuration never gets another address    *)
(* either, although reads of the NVRAM fail now and then.                  *)
THEOREM AddressKeptOrderly == ASSUME ~PowerLoss PROVE Wifi!Spec => []Wifi!MacKept
  <1>1. OrderlyInv => Wifi!MacKept
    BY DEF OrderlyInv, Wifi!MacKept
  <1>2. QED BY <1>1, OrderlyInvariance, PTL

-----------------------------------------------------------------------------
(* The types of wifimac.                                                   *)

LEMMA FallbackAddress ==
    ASSUME Wifi!WifiMacAssumption PROVE Wifi!Fallback \in [1..6 -> Wifi!Bytes]
  <1>1. Random - (Random % 2) \in 0..255
    BY DEF Wifi!WifiMacAssumption
  <1>2. QED BY <1>1 DEF Wifi!Fallback, Wifi!Bytes

LEMMA WifiTypeCorrect ==
    ASSUME Wifi!WifiMacAssumption PROVE Wifi!Spec => []Wifi!TypeOK
  <1> DEFINE Mac == [1..6 -> Wifi!Bytes]
             File == [kind : {"absent", "empty", "full"}, mac : Mac]
  <1>1. Wifi!None \in Mac /\ Wifi!Absent \in File /\ Wifi!Empty \in File
    BY DEF Wifi!None, Wifi!Zero, Wifi!Bytes, Wifi!Absent, Wifi!Empty
  <1>2. \A m \in Mac : Wifi!Full(m) \in File
    BY DEF Wifi!Full
  <1>3. nvram \in Nvrams => Wifi!BytesRead \subseteq Mac
    <2> SUFFICES ASSUME nvram \in Mac PROVE Wifi!BytesRead \subseteq Mac
      BY DEF Wifi!WifiMacAssumption
    <2>1. ASSUME NEW bad \in SUBSET (1..6)
          PROVE  [i \in 1..6 |-> IF i \in bad THEN 0 ELSE nvram[i]] \in Mac
      BY DEF Wifi!Bytes
    <2>2. QED BY <2>1 DEF Wifi!BytesRead
  <1>4. Wifi!TypeOK <=> /\ nvram \in Nvrams /\ boots \in 0..MaxBoots
                        /\ pc \in {"off", "check", "open", "read", "format", "write",
                                   "done"}
                        /\ macaddr \in Mac /\ first \in Mac
                        /\ file \in File /\ disk \in File
    BY DEF Wifi!TypeOK
  <1>5. MaxBoots \in Nat
    BY DEF Wifi!WifiMacAssumption
  <1>6. Wifi!TypeOK' <=> /\ nvram' \in Nvrams /\ boots' \in 0..MaxBoots
                         /\ pc' \in {"off", "check", "open", "read", "format", "write",
                                     "done"}
                         /\ macaddr' \in Mac /\ first' \in Mac
                         /\ file' \in File /\ disk' \in File
    BY DEF Wifi!TypeOK
  <1> HIDE DEF Mac, File
  <1>7. Wifi!Init => Wifi!TypeOK
    BY <1>1, <1>4, <1>5 DEF Wifi!Init
  <1>8. ASSUME Wifi!TypeOK, [Wifi!Next]_Wifi!vars PROVE Wifi!TypeOK'
    <2>1. CASE Wifi!Boot
      BY <1>4, <1>5, <1>6, <1>8, <2>1 DEF Wifi!Boot
    <2>2. CASE Wifi!Precheck \/ Wifi!Open
      BY <1>1, <1>4, <1>6, <1>8, <2>2 DEF Wifi!Precheck, Wifi!Open
    <2>3. CASE Wifi!Read
      BY <1>3, <1>4, <1>6, <1>8, <2>3 DEF Wifi!Read
    <2>4. CASE Wifi!Format
      BY <1>4, <1>6, <1>8, <2>4, FallbackAddress DEF Wifi!Format, Mac
    <2>5. CASE Wifi!Close
      BY <1>2, <1>4, <1>6, <1>8, <2>5 DEF Wifi!Close
    <2>6. CASE Wifi!WriteBack \/ Wifi!Down
      BY <1>1, <1>4, <1>6, <1>8, <2>6 DEF Wifi!WriteBack, Wifi!Down
    <2>7. CASE UNCHANGED Wifi!vars
      BY <1>4, <1>6, <1>8, <2>7 DEF Wifi!vars
    <2>8. QED BY <1>8, <2>1, <2>2, <2>3, <2>4, <2>5, <2>6, <2>7 DEF Wifi!Next, Wifi!Service
  <1>9. QED BY <1>7, <1>8, PTL DEF Wifi!Spec

-----------------------------------------------------------------------------
(* The call state of LGEInfineon.                                          *)

States == {Phone!IDLE, Phone!RINGING, Phone!OFFHOOK}

PhoneTyped ==
    /\ call \in [Calls -> {"none", "ringing", "active"}]
    /\ queue \in Seq(States)
    /\ mCallState \in States /\ highest \in States
    /\ request \in {"none", "HANGUP_WAITING_OR_BACKGROUND", "HANG_UP_CALL"}

(* One call rings at a time, while one is active the phone has been off    *)
(* the hook since it was last idle, and the highest state is at least the  *)
(* state of now.                                                           *)
CallsKept ==
    /\ \A c, d \in Calls : call[c] = "ringing" /\ call[d] = "ringing" => c = d
    /\ Phone!Some(call, "active") => highest = Phone!OFFHOOK
    /\ Phone!PhoneState(call) <= highest
    /\ Phone!PhoneState(call) = Phone!IDLE => highest = Phone!IDLE

(* The phone is idle at one of the states of q from the i-th on.           *)
IdleFrom(q, i) == \E j \in i..Len(q) : q[j] = Phone!IDLE

(* The highest state is the highest of those told since the phone was last *)
(* idle, of which the call state is one if that is not in the queue.       *)
HighestPending ==
    /\ IdleFrom(queue, 1) \/ mCallState <= highest
    /\ \A i \in 1..Len(queue) : IdleFrom(queue, i + 1) \/ queue[i] <= highest
    /\ \/ mCallState = highest /\ ~IdleFrom(queue, 1)
       \/ \E i \in 1..Len(queue) : queue[i] = highest /\ ~IdleFrom(queue, i + 1)

PhoneInv == PhoneTyped /\ CallsKept /\ HighestPending

LEMMA PhoneInit == Phone!Init => PhoneInv
  <1> SUFFICES ASSUME Phone!Init PROVE PhoneInv
    OBVIOUS
  <1>1. /\ call = [c \in Calls |-> "none"] /\ queue = <<>> /\ mCallState = 0
        /\ highest = 0 /\ request = "none"
    BY DEF Phone!Init, Phone!IDLE
  <1>2. Len(queue) = 0 /\ queue \in Seq(States)
    BY <1>1
  <1>3. PhoneTyped
    BY <1>1, <1>2 DEF PhoneTyped, States, Phone!IDLE
  <1>4. CallsKept
    BY <1>1 DEF CallsKept, Phone!Some, Phone!PhoneState, Phone!IDLE
  <1>5. HighestPending
    BY <1>1, <1>2 DEF HighestPending, IdleFrom
  <1>6. QED BY <1>3, <1>4, <1>5 DEF PhoneInv

(* A state that is told behind the others.                                 *)
LEMMA Told ==
    ASSUME PhoneTyped, HighestPending, NEW s \in States, queue' = Append(queue, s),
           mCallState' = mCallState,
           highest' = IF s = Phone!IDLE \/ s > highest THEN s ELSE highest
    PROVE  HighestPending' /\ queue' \in Seq(States)
  <1> DEFINE n == Len(queue)
  <1>1. /\ n \in Nat /\ \A i \in 1..n : queue[i] \in States
        /\ mCallState \in States /\ highest \in States /\ queue \in Seq(States)
    BY LenProperties, ElementOfSeq DEF PhoneTyped
  <1>2. /\ Len(queue') = n + 1 /\ \A i \in 1..n : queue'[i] = queue[i]
        /\ queue'[n + 1] = s /\ queue' \in Seq(States)
    BY <1>1, AppendProperties
  <1> HIDE DEF n
  <1>3. \A i \in 1..(n + 1) : IdleFrom(queue', i) <=> IdleFrom(queue, i) \/ s = Phone!IDLE
    BY <1>1, <1>2 DEF IdleFrom, n
  <1>4. ~IdleFrom(queue', n + 2)
    BY <1>1, <1>2 DEF IdleFrom, n
  <1>5. ~IdleFrom(queue, n + 1)
    BY <1>1 DEF IdleFrom, n
  <1>6. CASE s = Phone!IDLE
    <2>1. highest' = 0 /\ s = 0
      BY <1>6 DEF Phone!IDLE
    <2>2. \A i \in 1..(n + 1) : IdleFrom(queue', i)
      BY <1>3, <1>6
    <2>3. \A i \in 1..n : i + 1 \in 1..(n + 1)
      BY <1>1
    <2>4. n + 1 \in 1..(n + 1) /\ 1 \in 1..(n + 1) /\ (n + 1) + 1 = n + 2
      BY <1>1
    <2>5. \A i \in 1..(n + 1) : i \in 1..n \/ i = n + 1
      BY <1>1
    <2>6. QED BY <1>2, <1>4, <2>1, <2>2, <2>3, <2>4, <2>5 DEF HighestPending
  <1>7. CASE s # Phone!IDLE
    <2>1. highest' = IF s > highest THEN s ELSE highest
      BY <1>7
    <2>2. s <= highest' /\ highest <= highest' /\ highest' \in {s, highest}
      BY <1>1, <2>1 DEF States, Phone!IDLE, Phone!RINGING, Phone!OFFHOOK
    <2>3. \A i \in 1..(n + 1) : IdleFrom(queue', i) <=> IdleFrom(queue, i)
      BY <1>3, <1>7
    <2>4. /\ 1 \in 1..(n + 1) /\ n + 1 \in 1..(n + 1) /\ (n + 1) + 1 = n + 2
          /\ \A i \in 1..n : i + 1 \in 1..(n + 1) /\ i \in 1..(n + 1)
          /\ \A i \in 1..(n + 1) : i \in 1..n \/ i = n + 1
      BY <1>1
    <2>5. IdleFrom(queue', 1) \/ mCallState' <= highest'
      BY <1>1, <2>2, <2>3, <2>4
         DEF HighestPending, States, Phone!IDLE, Phone!RINGING, Phone!OFFHOOK
    <2>6. \A i \in 1..(n + 1) : IdleFrom(queue', i + 1) \/ queue'[i] <= highest'
      <3>1. ASSUME NEW i \in 1..n PROVE IdleFrom(queue', i + 1) \/ queue'[i] <= highest'
        <4>1. IdleFrom(queue', i + 1) \/ queue[i] <= highest
          BY <2>3, <2>4 DEF HighestPending, n
        <4>2. queue[i] \in Int /\ highest \in Int /\ highest' \in Int
          BY <1>1, <2>2 DEF n, States, Phone!IDLE, Phone!RINGING, Phone!OFFHOOK
        <4>3. queue'[i] = queue[i]
          BY <1>2
        <4>4. QED BY <2>2, <4>1, <4>2, <4>3
      <3>2. queue'[n + 1] <= highest'
        BY <1>2, <2>2
      <3>3. QED BY <2>4, <3>1, <3>2
    <2>7. \/ mCallState' = highest' /\ ~IdleFrom(queue', 1)
          \/ \E i \in 1..(n + 1) : queue'[i] = highest' /\ ~IdleFrom(queue', i + 1)
      <3>1. CASE highest' = s
        BY <1>2, <1>4, <2>4, <3>1
      <3>2. CASE highest' = highest
        BY <1>2, <2>3, <2>4, <3>2 DEF HighestPending, n
      <3>3. QED BY <2>2, <3>1, <3>2
    <2>8. QED BY <1>2, <2>5, <2>6, <2>7 DEF HighestPending
  <1>8. QED BY <1>2, <1>6, <1>7

(* The oldest state is told.                                               *)
LEMMA Heard ==
    ASSUME PhoneInv, Phone!onCallStateChanged
    PROVE  PhoneInv'
  <1> DEFINE n == Len(queue)
             h == Head(queue)
  <1>1. /\ queue # <<>> /\ queue' = Tail(queue)
        /\ mCallState' = IF h = Phone!IDLE \/ h > mCallState THEN h ELSE mCallState
        /\ UNCHANGED <<call, highest, request>>
    BY DEF Phone!onCallStateChanged, Phone!Higher
  <1>2. /\ n \in Nat /\ n >= 1 /\ \A i \in 1..n : queue[i] \in States
        /\ mCallState \in States /\ highest \in States /\ queue \in Seq(States)
        /\ h = queue[1] /\ h \in States
    <2>1. queue \in Seq(States) /\ mCallState \in States /\ highest \in States
      BY DEF PhoneInv, PhoneTyped
    <2>2. n \in Nat /\ n # 0 /\ \A i \in 1..n : queue[i] \in States
      BY <1>1, <2>1, LenProperties, ElementOfSeq, EmptySeq
    <2>3. QED BY <1>1, <2>1, <2>2, HeadTailProperties
  <1>3. /\ queue' \in Seq(States) /\ Len(queue') = n - 1
        /\ \A i \in 1..(n - 1) : queue'[i] = queue[i + 1]
    BY <1>1, <1>2, HeadTailProperties
  <1> HIDE DEF n, h
  <1>4. /\ \A i \in 1..n : IdleFrom(queue', i) <=> IdleFrom(queue, i + 1)
        /\ IdleFrom(queue, 1) <=> IdleFrom(queue, 2) \/ h = Phone!IDLE
        /\ 1 \in 1..n /\ \A i \in 1..(n - 1) : i + 1 \in 1..n
        /\ \A i \in 1..n : i = 1 \/ (i - 1 \in 1..(n - 1) /\ (i - 1) + 1 = i)
    <2>1. ASSUME NEW i \in 1..n PROVE IdleFrom(queue', i) <=> IdleFrom(queue, i + 1)
      <3>1. ASSUME IdleFrom(queue', i) PROVE IdleFrom(queue, i + 1)
        BY <1>2, <1>3, <3>1 DEF IdleFrom, n
      <3>2. ASSUME IdleFrom(queue, i + 1) PROVE IdleFrom(queue', i)
        <4>1. PICK j \in (i + 1)..n : queue[j] = Phone!IDLE
          BY <3>2 DEF IdleFrom, n
        <4>2. j - 1 \in i..(n - 1) /\ j - 1 \in 1..(n - 1) /\ (j - 1) + 1 = j
          BY <1>2, <4>1
        <4>3. queue'[j - 1] = Phone!IDLE
          BY <1>3, <4>1, <4>2
        <4>4. QED BY <1>3, <4>2, <4>3 DEF IdleFrom
      <3>3. QED BY <3>1, <3>2
    <2>2. IdleFrom(queue, 1) <=> IdleFrom(queue, 2) \/ h = Phone!IDLE
      BY <1>2 DEF IdleFrom, n
    <2>3. QED BY <1>2, <2>1, <2>2
  <1>5. PhoneTyped'
    BY <1>1, <1>2, <1>3 DEF PhoneInv, PhoneTyped
  <1>6. CallsKept'
    BY <1>1 DEF PhoneInv, CallsKept, Phone!Some, Phone!PhoneState
  <1>7. /\ IdleFrom(queue, 1) \/ mCallState <= highest
        /\ \A i \in 1..n : IdleFrom(queue, i + 1) \/ queue[i] <= highest
        /\ \/ mCallState = highest /\ ~IdleFrom(queue, 1)
           \/ \E i \in 1..n : queue[i] = highest /\ ~IdleFrom(queue, i + 1)
    BY DEF PhoneInv, HighestPending, n
  <1>8. IdleFrom(queue', 1) \/ mCallState' <= highest'
    <2>1. IdleFrom(queue, 2) \/ h <= highest
      BY <1>2, <1>4, <1>7
    <2>2. CASE h = Phone!IDLE \/ h > mCallState
      BY <1>1, <1>4, <2>1, <2>2
    <2>3. CASE ~(h = Phone!IDLE \/ h > mCallState)
      BY <1>1, <1>4, <1>7, <2>3
    <2>4. QED BY <2>2, <2>3
  <1>9. \A i \in 1..(n - 1) : IdleFrom(queue', i + 1) \/ queue'[i] <= highest'
    BY <1>1, <1>3, <1>4, <1>7
  <1>10. \/ mCallState' = highest' /\ ~IdleFrom(queue', 1)
         \/ \E i \in 1..(n - 1) : queue'[i] = highest' /\ ~IdleFrom(queue', i + 1)
    <2>1. CASE mCallState = highest /\ ~IdleFrom(queue, 1)
      <3>1. h # Phone!IDLE /\ ~IdleFrom(queue, 2) /\ h <= highest
        BY <1>2, <1>4, <1>7, <2>1
      <3>2. mCallState' = highest
        BY <1>1, <1>2, <2>1, <3>1 DEF States, Phone!IDLE, Phone!RINGING, Phone!OFFHOOK
      <3>3. QED BY <1>1, <1>4, <3>1, <3>2
    <2>2. CASE queue[1] = highest /\ ~IdleFrom(queue, 2)
      <3>1. h = highest /\ (h = Phone!IDLE \/ mCallState <= highest)
        BY <1>2, <1>4, <1>7, <2>2
      <3>2. mCallState' = highest
        BY <1>1, <1>2, <3>1 DEF States, Phone!IDLE, Phone!RINGING, Phone!OFFHOOK
      <3>3. QED BY <1>1, <1>4, <2>2, <3>2
    <2>3. ASSUME NEW i \in 1..n, i # 1, queue[i] = highest, ~IdleFrom(queue, i + 1)
          PROVE  \E k \in 1..(n - 1) : queue'[k] = highest' /\ ~IdleFrom(queue', k + 1)
      <3>1. i - 1 \in 1..(n - 1) /\ (i - 1) + 1 = i
        BY <1>4, <2>3
      <3>2. queue'[i - 1] = highest' /\ ~IdleFrom(queue', (i - 1) + 1)
        BY <1>1, <1>3, <1>4, <2>3, <3>1
      <3>3. QED BY <3>1, <3>2
    <2>4. QED BY <1>2, <1>7, <2>1, <2>2, <2>3
  <1>11. HighestPending'
    BY <1>3, <1>8, <1>9, <1>10 DEF HighestPending
  <1>12. QED BY <1>5, <1>6, <1>11 DEF PhoneInv

(* A call rings, is dialled, answered or ends.                             *)
LEMMA Changed ==
    ASSUME PhoneInv, NEW c \in Calls, NEW s \in {"none", "ringing", "active"},
           Phone!Change(c, s)
    PROVE  PhoneInv'
  <1> DEFINE after == [call EXCEPT ![c] = s]
             state == Phone!PhoneState(after)
  <1>1. /\ call' = after /\ UNCHANGED <<mCallState, request>>
        /\ queue' = IF state = Phone!PhoneState(call) THEN queue ELSE Append(queue, state)
        /\ highest' = IF state = Phone!IDLE \/ state > highest THEN state ELSE highest
        /\ \/ call[c] = "none" /\ s \in {"ringing", "active"} /\ ~Phone!Some(call, "ringing")
           \/ call[c] = "ringing" /\ s \in {"active", "none"}
           \/ call[c] = "active" /\ s = "none"
    BY DEF Phone!Change
  <1>2. /\ after \in [Calls -> {"none", "ringing", "active"}]
        /\ after[c] = s /\ \A d \in Calls : d # c => after[d] = call[d]
        /\ call \in [Calls -> {"none", "ringing", "active"}]
    BY DEF PhoneInv, PhoneTyped
  <1>3. /\ state \in States /\ Phone!PhoneState(call) \in States
        /\ mCallState \in States /\ highest \in States /\ queue \in Seq(States)
    BY DEF PhoneInv, PhoneTyped, States, Phone!PhoneState
  <1> HIDE DEF after
  <1>4. /\ Phone!Some(after, "ringing") => state = Phone!RINGING
        /\ ~Phone!Some(after, "ringing") /\ Phone!Some(after, "active") => state = Phone!OFFHOOK
        /\ state = Phone!IDLE => ~Phone!Some(after, "active")
        /\ Phone!PhoneState(call) = Phone!IDLE => ~Phone!Some(call, "active")
        /\ Phone!PhoneState(call) = Phone!RINGING <=> Phone!Some(call, "ringing")
        /\ state = Phone!RINGING <=> Phone!Some(after, "ringing")
    BY DEF Phone!PhoneState, Phone!IDLE, Phone!RINGING, Phone!OFFHOOK
  <1> HIDE DEF state
  <1>5. /\ \A a, b \in Calls : after[a] = "ringing" /\ after[b] = "ringing" => a = b
        /\ Phone!Some(after, "active") => highest' = Phone!OFFHOOK
    <2>1. ASSUME NEW a \in Calls, NEW b \in Calls, after[a] = "ringing", after[b] = "ringing"
          PROVE  a = b
      BY <1>1, <1>2, <2>1 DEF PhoneInv, CallsKept, Phone!Some
    <2>2. ASSUME Phone!Some(after, "active") PROVE highest' = Phone!OFFHOOK
      <3>1. CASE Phone!Some(call, "active")
        <4>1. highest = Phone!OFFHOOK /\ state # Phone!IDLE
          BY <1>4, <2>2, <3>1 DEF PhoneInv, CallsKept
        <4>2. QED
          BY <1>1, <1>3, <4>1 DEF States, Phone!IDLE, Phone!RINGING, Phone!OFFHOOK
      <3>2. CASE ~Phone!Some(call, "active")
        <4>1. s = "active" /\ call[c] \in {"none", "ringing"}
          BY <1>2, <2>2, <3>2 DEF Phone!Some
        <4>2. ~Phone!Some(after, "ringing")
          BY <1>1, <1>2, <4>1 DEF PhoneInv, CallsKept, Phone!Some
        <4>3. state = Phone!OFFHOOK
          BY <1>4, <2>2, <4>2
        <4>4. QED
          BY <1>1, <1>3, <4>3 DEF States, Phone!IDLE, Phone!RINGING, Phone!OFFHOOK
      <3>3. QED BY <3>1, <3>2
    <2>3. QED BY <2>1, <2>2
  <1>6. CallsKept'
    <2>1. Phone!Some(call, "active")' <=> Phone!Some(after, "active")
      BY <1>1 DEF Phone!Some
    <2>2. Phone!PhoneState(call)' = state
      BY <1>1 DEF state, Phone!PhoneState, Phone!Some
    <2>3. state <= highest' /\ (state = Phone!IDLE => highest' = Phone!IDLE)
      BY <1>1, <1>3 DEF States, Phone!IDLE, Phone!RINGING, Phone!OFFHOOK
    <2>4. QED BY <1>1, <1>5, <2>1, <2>2, <2>3 DEF CallsKept
  <1>7. HighestPending' /\ queue' \in Seq(States)
    <2>1. CASE state # Phone!PhoneState(call)
      BY <1>1, <1>3, <2>1, Told DEF PhoneInv
    <2>2. CASE state = Phone!PhoneState(call)
      <3>1. highest' = highest
        BY <1>1, <1>3, <2>2
           DEF PhoneInv, CallsKept, States, Phone!IDLE, Phone!RINGING, Phone!OFFHOOK
      <3>2. QED BY <1>1, <1>3, <2>2, <3>1 DEF PhoneInv, HighestPending
    <2>3. QED BY <2>1, <2>2
  <1>8. highest' \in States
    BY <1>1, <1>3
  <1>9. PhoneTyped'
    BY <1>1, <1>2, <1>3, <1>7, <1>8 DEF PhoneInv, PhoneTyped
  <1>10. QED BY <1>6, <1>7, <1>9 DEF PhoneInv

LEMMA PhoneInvariance == Phone!Spec => []PhoneInv
  <1>1. ASSUME PhoneInv, [Phone!Next]_Phone!vars PROVE PhoneInv'
    <2>1. CASE UNCHANGED Phone!vars
      BY <1>1, <2>1
         DEF Phone!vars, PhoneInv, PhoneTyped, CallsKept, HighestPending, IdleFrom,
             Phone!Some, Phone!PhoneState
    <2>2. ASSUME NEW c \in Calls, NEW s \in {"none", "ringing", "active"}, Phone!Change(c, s)
          PROVE  PhoneInv'
      BY <1>1, <2>2, Changed
    <2>3. CASE Phone!onCallStateChanged
      BY <1>1, <2>3, Heard
    <2>4. CASE Phone!hangupWaitingOrBackground
      <3>1. /\ UNCHANGED <<call, queue, mCallState, highest>>
            /\ request' \in {"HANGUP_WAITING_OR_BACKGROUND", "HANG_UP_CALL"}
        BY <2>4 DEF Phone!hangupWaitingOrBackground, Phone!Request
      <3>2. QED
        BY <1>1, <3>1
           DEF PhoneInv, PhoneTyped, CallsKept, HighestPending, IdleFrom, Phone!Some,
               Phone!PhoneState
    <2>5. QED BY <1>1, <2>1, <2>2, <2>3, <2>4 DEF Phone!Next
  <1>2. QED BY <1>1, PhoneInit, PTL DEF Phone!Spec

LEMMA PhoneTypeCorrect == Phone!Spec => []Phone!TypeOK
  <1>1. Phone!Init => changes \in Nat
    BY DEF Phone!Init
  <1>2. ASSUME changes \in Nat, [Phone!Next]_Phone!vars PROVE (changes \in Nat)'
    <2>1. changes' \in {changes, changes + 1}
      BY <1>2 DEF Phone!Next, Phone!vars, Phone!Change, Phone!onCallStateChanged,
                  Phone!hangupWaitingOrBackground
    <2> QED BY <1>2, <2>1
  <1>3. PhoneInv /\ changes \in Nat => Phone!TypeOK
    BY DEF PhoneInv, PhoneTyped, States, Phone!TypeOK, Phone!States
  <1>4. QED BY <1>1, <1>2, <1>3, PhoneInvariance, PTL DEF Phone!Spec

LEMMA NothingPending ==
    ASSUME PhoneInv, queue = <<>>
    PROVE  mCallState = highest
  <1>1. Len(queue) = 0
    OBVIOUS
  <1>2. QED BY <1>1 DEF PhoneInv, HighestPending

(* "Higher state wins, unless going back to idle": when every change has   *)
(* been told, mCallState is the highest state of the phone since it was    *)
(* last idle, for any calls that ring, are answered and end in any order   *)
(* while the notifications lag behind.                                     *)
THEOREM HighestStateKept == Phone!Spec => []Phone!HighestKept
  <1>1. PhoneInv => Phone!HighestKept
    BY NothingPending DEF Phone!HighestKept
  <1>2. QED BY <1>1, PhoneInvariance, PTL

(* hangupWaitingOrBackground never ends the active call in place of the    *)
(* one that waits, when every change has been told, for any calls: an      *)
(* active call keeps the highest state OFFHOOK also while another rings.   *)
THEOREM WaitingCallRejected == Phone!Spec => Phone!WaitingRejected
  <1>1. ASSUME PhoneInv, [Phone!Next]_Phone!vars PROVE [Phone!Rejected]_Phone!vars
    <2>1. ASSUME NEW c \in Calls, NEW s \in {"none", "ringing", "active"}, Phone!Change(c, s)
          PROVE  Phone!Rejected
      BY <2>1 DEF Phone!Change, Phone!Rejected
    <2>2. CASE Phone!onCallStateChanged
      BY <2>2 DEF Phone!onCallStateChanged, Phone!Rejected
    <2>3. CASE Phone!hangupWaitingOrBackground
      <3>1. request' = Phone!Request
        BY <2>3 DEF Phone!hangupWaitingOrBackground
      <3>2. queue = <<>> => mCallState = highest
        BY <1>1, NothingPending
      <3>3. Phone!Some(call, "active") => highest = Phone!OFFHOOK
        BY <1>1 DEF PhoneInv, CallsKept
      <3>4. Phone!RINGING # Phone!OFFHOOK
        BY DEF Phone!RINGING, Phone!OFFHOOK
      <3>5. QED BY <3>1, <3>2, <3>3, <3>4 DEF Phone!Request, Phone!Rejected
    <2>4. QED BY <1>1, <2>1, <2>2, <2>3 DEF Phone!Next
  <1>2. QED BY <1>1, PhoneInvariance, PTL DEF Phone!WaitingRejected, Phone!Spec

-----------------------------------------------------------------------------
(* Sequences of commands.                                                  *)

Nodes == {"enable", "idProduct", "bDeviceClass", "functions", "adbd", "state"}
Values ==
    Usb!Configs \cup {Usb!Product(c) : c \in Usb!Configs}
      \cup {"0", "1", "224", "239", "running", Usb!Expand}
Commands == [node : Nodes, value : Values]

(* No command of q writes node n; the last that does writes v.             *)
Free(q, n) == \A i \in 1..Len(q) : q[i].node # n
LastWrite(q, n, v) ==
    \E i \in 1..Len(q) :
      /\ q[i].node = n /\ q[i].value = v
      /\ \A j \in (i + 1)..Len(q) : q[j].node # n

LEMMA SetOne ==
    ASSUME NEW n \in Nodes, NEW v \in Values
    PROVE  /\ Usb!Set(n, v) \in Seq(Commands)
           /\ LastWrite(Usb!Set(n, v), n, v)
           /\ \A m : m # n => Free(Usb!Set(n, v), m)
  <1> DEFINE c == [node |-> n, value |-> v]
  <1>1. c \in Commands /\ c.node = n /\ c.value = v
    BY DEF Commands
  <1> HIDE DEF c
  <1>2. <<c>> \in Seq(Commands) /\ Len(<<c>>) = 1 /\ <<c>>[1] = c
    BY <1>1
  <1>3. Usb!Set(n, v) = <<c>>
    BY DEF Usb!Set, c
  <1>4. LastWrite(<<c>>, n, v)
    BY <1>1, <1>2 DEF LastWrite
  <1>5. \A m : m # n => Free(<<c>>, m)
    BY <1>1, <1>2 DEF Free
  <1>6. QED BY <1>2, <1>3, <1>4, <1>5

LEMMA Joined ==
    ASSUME NEW q \in Seq(Commands), NEW r \in Seq(Commands), NEW n, NEW v
    PROVE  /\ q \o r \in Seq(Commands)
           /\ LastWrite(r, n, v) => LastWrite(q \o r, n, v)
           /\ LastWrite(q, n, v) /\ Free(r, n) => LastWrite(q \o r, n, v)
           /\ Free(q, n) /\ Free(r, n) => Free(q \o r, n)
  <1> DEFINE s == q \o r
             a == Len(q)
             b == Len(r)
  <1>1. /\ s \in Seq(Commands) /\ a \in Nat /\ b \in Nat /\ Len(s) = a + b
        /\ \A i \in 1..(a + b) : s[i] = IF i <= a THEN q[i] ELSE r[i - a]
    BY ConcatProperties, LenProperties
  <1> HIDE DEF s, a, b
  <1>2. /\ \A i \in 1..a : i \in 1..(a + b) /\ s[i] = q[i]
        /\ \A i \in (a + 1)..(a + b) : i - a \in 1..b /\ s[i] = r[i - a]
        /\ \A i \in 1..(a + b) : i \in 1..a \/ i \in (a + 1)..(a + b)
    BY <1>1
  <1>3. ASSUME LastWrite(r, n, v) PROVE LastWrite(s, n, v)
    <2>1. PICK i \in 1..b : /\ r[i].node = n /\ r[i].value = v
                            /\ \A j \in (i + 1)..b : r[j].node # n
      BY <1>3 DEF LastWrite, b
    <2>2. a + i \in (a + 1)..(a + b) /\ (a + i) - a = i /\ a + i \in 1..(a + b)
      BY <1>1, <2>1
    <2>3. s[a + i].node = n /\ s[a + i].value = v
      BY <1>2, <2>1, <2>2
    <2>4. \A j \in (a + i + 1)..(a + b) : j - a \in (i + 1)..b /\ j \in (a + 1)..(a + b)
      BY <1>1, <2>1
    <2>5. \A j \in (a + i + 1)..(a + b) : s[j].node # n
      BY <1>2, <2>1, <2>4
    <2>6. QED BY <1>1, <2>2, <2>3, <2>5 DEF LastWrite
  <1>4. ASSUME LastWrite(q, n, v), Free(r, n) PROVE LastWrite(s, n, v)
    <2>1. PICK i \in 1..a : /\ q[i].node = n /\ q[i].value = v
                            /\ \A j \in (i + 1)..a : q[j].node # n
      BY <1>4 DEF LastWrite, a
    <2>2. i \in 1..(a + b) /\ s[i].node = n /\ s[i].value = v
      BY <1>2, <2>1
    <2>3. ASSUME NEW j \in (i + 1)..(a + b) PROVE s[j].node # n
      <3>1. CASE j <= a
        <4>1. j \in 1..a /\ j \in (i + 1)..a
          BY <1>1, <2>1, <2>3, <3>1
        <4>2. QED BY <1>2, <2>1, <4>1
      <3>2. CASE ~(j <= a)
        <4>1. j \in (a + 1)..(a + b)
          BY <1>1, <2>1, <2>3, <3>2
        <4>2. QED BY <1>2, <1>4, <4>1 DEF Free, b
      <3>3. QED BY <3>1, <3>2
    <2>4. QED BY <1>1, <2>2, <2>3 DEF LastWrite
  <1>5. ASSUME Free(q, n), Free(r, n) PROVE Free(s, n)
    BY <1>1, <1>2, <1>5 DEF Free, a, b
  <1>6. QED BY <1>1, <1>3, <1>4, <1>5 DEF s

(* The triggers of init.black.usb.rc: whatever a trigger writes first, it  *)
(* leaves the gadget enabled, with the product, functions and state of its *)
(* configuration.                                                          *)
LEMMA Triggers ==
    ASSUME NEW c \in Usb!Configs
    PROVE  /\ Usb!Block(c) \in Seq(Commands)
           /\ LastWrite(Usb!Block(c), "enable", "1")
           /\ LastWrite(Usb!Block(c), "idProduct", Usb!Product(c))
           /\ \/ LastWrite(Usb!Block(c), "functions", Usb!Expand)
              \/ LastWrite(Usb!Block(c), "functions", c)
           /\ LastWrite(Usb!Block(c), "state", Usb!Expand)
  <1> DEFINE zero == Usb!Set("enable", "0")
             product == Usb!Set("idProduct", Usb!Product(c))
             one == Usb!Set("enable", "1")
             state == Usb!Set("state", Usb!Expand)
             functions == Usb!Functions(c)
             adbd == Usb!Adbd(c)
  <1>1. /\ Usb!Product(c) \in Values /\ c \in Values /\ Usb!Expand \in Values
        /\ {"0", "1", "224", "239", "running"} \subseteq Values
    BY DEF Values
  <1>2. /\ zero \in Seq(Commands) /\ product \in Seq(Commands) /\ one \in Seq(Commands)
        /\ state \in Seq(Commands)
        /\ LastWrite(product, "idProduct", Usb!Product(c))
        /\ LastWrite(one, "enable", "1") /\ LastWrite(state, "state", Usb!Expand)
        /\ Free(one, "idProduct") /\ Free(one, "functions")
        /\ Free(state, "enable") /\ Free(state, "idProduct") /\ Free(state, "functions")
    <2>1. /\ zero \in Seq(Commands) /\ one \in Seq(Commands) /\ LastWrite(one, "enable", "1")
          /\ Free(one, "idProduct") /\ Free(one, "functions")
      BY <1>1, SetOne DEF Nodes
    <2>2. product \in Seq(Commands) /\ LastWrite(product, "idProduct", Usb!Product(c))
      BY <1>1, SetOne DEF Nodes
    <2>3. /\ state \in Seq(Commands) /\ LastWrite(state, "state", Usb!Expand)
          /\ Free(state, "enable") /\ Free(state, "idProduct") /\ Free(state, "functions")
      BY <1>1, SetOne DEF Nodes
    <2>4. QED BY <2>1, <2>2, <2>3
  <1>3. /\ functions \in Seq(Commands) /\ Free(functions, "idProduct")
        /\ \/ LastWrite(functions, "functions", Usb!Expand)
           \/ LastWrite(functions, "functions", c)
    <2>1. ASSUME NEW x \in Values, NEW y \in Values
          PROVE  /\ Usb!Set("bDeviceClass", x) \o Usb!Set("functions", y) \in Seq(Commands)
                 /\ Free(Usb!Set("bDeviceClass", x) \o Usb!Set("functions", y), "idProduct")
                 /\ LastWrite(Usb!Set("bDeviceClass", x) \o Usb!Set("functions", y), "functions", y)
                 /\ Usb!Set("functions", y) \o Usb!Set("bDeviceClass", x) \in Seq(Commands)
                 /\ Free(Usb!Set("functions", y) \o Usb!Set("bDeviceClass", x), "idProduct")
                 /\ LastWrite(Usb!Set("functions", y) \o Usb!Set("bDeviceClass", x), "functions", y)
                 /\ Usb!Set("functions", y) \in Seq(Commands)
                 /\ Free(Usb!Set("functions", y), "idProduct")
                 /\ LastWrite(Usb!Set("functions", y), "functions", y)
      <3>1. /\ Usb!Set("bDeviceClass", x) \in Seq(Commands)
            /\ Usb!Set("functions", y) \in Seq(Commands)
            /\ LastWrite(Usb!Set("functions", y), "functions", y)
            /\ Free(Usb!Set("bDeviceClass", x), "functions")
            /\ Free(Usb!Set("bDeviceClass", x), "idProduct")
            /\ Free(Usb!Set("functions", y), "idProduct")
        BY SetOne DEF Nodes
      <3>2. QED BY <3>1, Joined
    <2>2. CASE c = "mtp"
      <3>1. functions = Usb!Set("bDeviceClass", "0") \o Usb!Set("functions", c)
        BY <2>2 DEF Usb!Functions
      <3>2. QED BY <1>1, <2>1, <3>1
    <2>3. CASE c = "mtp,adb"
      <3>1. functions = Usb!Set("bDeviceClass", "239") \o Usb!Set("functions", c)
        BY <2>3 DEF Usb!Functions
      <3>2. QED BY <1>1, <2>1, <3>1
    <2>4. CASE c \in {"rndis", "rndis,adb"}
      <3>1. functions = Usb!Set("functions", Usb!Expand) \o Usb!Set("bDeviceClass", "224")
        BY <2>4 DEF Usb!Functions
      <3>2. QED BY <1>1, <2>1, <3>1
    <2>5. CASE c \notin {"mtp", "mtp,adb", "rndis", "rndis,adb"}
      <3>1. functions = Usb!Set("functions", Usb!Expand)
        BY <2>5 DEF Usb!Functions
      <3>2. QED BY <1>1, <2>1, <3>1
    <2>6. QED BY <2>2, <2>3, <2>4, <2>5
  <1> HIDE DEF functions
  <1>4. /\ adbd \in Seq(Commands)
        /\ \A n \in {"enable", "idProduct", "functions"} : Free(adbd, n)
    <2>1. /\ Usb!Set("adbd", "running") \in Seq(Commands)
          /\ \A n \in {"enable", "idProduct", "functions"} : Free(Usb!Set("adbd", "running"), n)
      BY <1>1, SetOne DEF Nodes
    <2>2. <<>> \in Seq(Commands) /\ \A n : Free(<<>>, n)
      BY EmptySeq DEF Free
    <2>3. QED BY <2>1, <2>2 DEF Usb!Adbd
  <1>5. Usb!Block(c) = zero \o product \o functions \o one \o adbd \o state
    BY DEF Usb!Block, functions
  <1> HIDE DEF zero, product, functions, one, adbd, state
  <1>6. /\ zero \o product \in Seq(Commands)
        /\ LastWrite(zero \o product, "idProduct", Usb!Product(c))
    BY <1>2, Joined
  <1>7. /\ zero \o product \o functions \in Seq(Commands)
        /\ LastWrite(zero \o product \o functions, "idProduct", Usb!Product(c))
        /\ \/ LastWrite(zero \o product \o functions, "functions", Usb!Expand)
           \/ LastWrite(zero \o product \o functions, "functions", c)
    BY <1>3, <1>6, Joined
  <1>8. /\ zero \o product \o functions \o one \in Seq(Commands)
        /\ LastWrite(zero \o product \o functions \o one, "enable", "1")
        /\ LastWrite(zero \o product \o functions \o one, "idProduct", Usb!Product(c))
        /\ \/ LastWrite(zero \o product \o functions \o one, "functions", Usb!Expand)
           \/ LastWrite(zero \o product \o functions \o one, "functions", c)
    BY <1>2, <1>7, Joined
  <1>9. /\ zero \o product \o functions \o one \o adbd \in Seq(Commands)
        /\ LastWrite(zero \o product \o functions \o one \o adbd, "enable", "1")
        /\ LastWrite(zero \o product \o functions \o one \o adbd, "idProduct", Usb!Product(c))
        /\ \/ LastWrite(zero \o product \o functions \o one \o adbd, "functions", Usb!Expand)
           \/ LastWrite(zero \o product \o functions \o one \o adbd, "functions", c)
    BY <1>4, <1>8, Joined
  <1> DEFINE before == zero \o product \o functions \o one \o adbd
  <1>10. Usb!Block(c) = before \o state /\ before \in Seq(Commands)
    BY <1>5, <1>9
  <1>11. LastWrite(before, "enable", "1") /\ LastWrite(before, "idProduct", Usb!Product(c))
         /\ \/ LastWrite(before, "functions", Usb!Expand)
            \/ LastWrite(before, "functions", c)
    BY <1>9
  <1> HIDE DEF before
  <1>12. QED BY <1>2, <1>10, <1>11, Joined

-----------------------------------------------------------------------------
(* init and the gadget.                                                    *)

Value(x, c) == IF x.value = Usb!Expand THEN c ELSE x.value

(* The first k commands of q, run with configuration c, are in the gadget, *)
(* but for what a later one of them wrote over.                            *)
Carried(q, c, g, k) ==
    \A i \in 1..k : \/ g[q[i].node] = Value(q[i], c)
                    \/ \E j \in (i + 1)..k : q[j].node = q[i].node

(* init is somewhere in the trigger of the configuration.  That trigger    *)
(* may wait while an older one runs, of which nothing needs to be known:   *)
(* the waiting one writes over all it leaves.                              *)
Triggered(block, c, g, r) ==
    \E k \in 0..Len(block) :
      r = SubSeq(block, k + 1, Len(block)) /\ Carried(block, c, g, k)

UsbInv ==
    /\ changes \in Nat /\ DOMAIN gadget = Nodes
    /\ changes = 0 => queue = <<>> /\ running = <<>>
    /\ changes > 0 =>
         /\ config \in Usb!Configs
         /\ \/ queue = <<config>>
            \/ queue = <<>> /\ Triggered(Usb!Block(config), config, gadget, running)

LEMMA UsbInit == Usb!Init => UsbInv
  BY DEF Usb!Init, UsbInv, Nodes

LEMMA Ordered ==
    ASSUME UsbInv, NEW c \in Usb!Configs, Usb!SetConfig(c)
    PROVE  UsbInv'
  <1>1. /\ config' = c /\ queue = <<>> /\ queue' = Append(queue, c)
        /\ changes' = changes + 1 /\ UNCHANGED <<running, gadget>>
    BY DEF Usb!SetConfig
  <1>2. queue' = <<config'>>
    BY <1>1
  <1>3. changes' \in Nat /\ changes' > 0 /\ DOMAIN gadget' = Nodes
    BY <1>1 DEF UsbInv
  <1>4. QED BY <1>1, <1>2, <1>3 DEF UsbInv

LEMMA Started ==
    ASSUME UsbInv, Usb!Start
    PROVE  UsbInv'
  <1>1. /\ running' = Usb!Block(Head(queue)) /\ queue # <<>> /\ queue' = Tail(queue)
        /\ UNCHANGED <<config, gadget, changes>>
    BY DEF Usb!Start
  <1>2. changes \in Nat /\ changes > 0 /\ config \in Usb!Configs /\ queue = <<config>>
    BY <1>1 DEF UsbInv
  <1>3. queue' = <<>> /\ running' = Usb!Block(config)
    BY <1>1, <1>2
  <1> DEFINE block == Usb!Block(config)
  <1>4. block \in Seq(Commands) /\ Len(block) \in Nat
    BY <1>2, Triggers, LenProperties
  <1> HIDE DEF block
  <1>5. SubSeq(block, 0 + 1, Len(block)) = block
    BY <1>4, SubSeqFull
  <1>6. /\ running' = SubSeq(block, 0 + 1, Len(block)) /\ 0 \in 0..Len(block)
        /\ \A i \in 1..0 : FALSE
    BY <1>3, <1>4, <1>5 DEF block
  <1>7. Triggered(block, config, gadget, running')
    BY <1>6, Zenon DEF Triggered, Carried
  <1>8. QED BY <1>1, <1>2, <1>3, <1>7 DEF UsbInv, block

(* $sys.usb.config is that of the trigger while no other waits.            *)
LEMMA Commanded ==
    ASSUME UsbInv, Usb!Command
    PROVE  UsbInv'
  <1> DEFINE x == Head(running)
  <1>1. /\ running # <<>> /\ running' = Tail(running)
        /\ gadget' = [gadget EXCEPT ![x.node] = Value(x, config)]
        /\ UNCHANGED <<config, queue, changes>>
    BY DEF Usb!Command, Value
  <1>2. DOMAIN gadget' = Nodes
    BY <1>1 DEF UsbInv
  <1>3. CASE queue # <<>>
    <2>1. changes > 0 /\ changes \in Nat /\ config \in Usb!Configs /\ queue = <<config>>
      BY <1>1, <1>3 DEF UsbInv
    <2>2. queue' = <<config'>> /\ changes' = changes /\ config' = config
      BY <1>1, <2>1
    <2>3. QED BY <1>2, <2>1, <2>2 DEF UsbInv
  <1>4. CASE queue = <<>>
    <2> DEFINE block == Usb!Block(config)
    <2>1. /\ changes > 0 /\ changes \in Nat /\ config \in Usb!Configs
          /\ Triggered(block, config, gadget, running)
      BY <1>1, <1>4 DEF UsbInv
    <2>2. PICK k \in 0..Len(block) :
            running = SubSeq(block, k + 1, Len(block)) /\ Carried(block, config, gadget, k)
      BY <2>1 DEF Triggered
    <2>3. /\ block \in Seq(Commands) /\ Len(block) \in Nat
          /\ \A i \in 1..Len(block) : block[i] \in Commands
      BY <2>1, Triggers, LenProperties, ElementOfSeq
    <2> HIDE DEF block
    <2>4. k \in Nat /\ k < Len(block)
      <3>1. k # Len(block)
        BY <1>1, <2>2, <2>3, SubSeqEmpty
      <3>2. QED BY <2>2, <2>3, <3>1
    <2>5. k + 1 \in 1..Len(block) /\ Len(block) \in (k + 1)..Len(block)
      BY <2>3, <2>4
    <2>6. x = block[k + 1] /\ running' = SubSeq(block, (k + 1) + 1, Len(block))
      BY <1>1, <2>2, <2>3, <2>5, HeadTailOfSubSeq
    <2>7. x \in Commands /\ x.node \in Nodes
      BY <2>3, <2>5, <2>6 DEF Commands
    <2>8. /\ gadget'[x.node] = Value(x, config)
          /\ \A n \in Nodes : n # x.node => gadget'[n] = gadget[n]
      BY <1>1, <2>7 DEF UsbInv
    <2>9. \A i \in 1..(k + 1) :
            \/ gadget'[block[i].node] = Value(block[i], config)
            \/ \E j \in (i + 1)..(k + 1) : block[j].node = block[i].node
      <3>1. ASSUME NEW i \in 1..k
            PROVE  \/ gadget'[block[i].node] = Value(block[i], config)
                   \/ \E j \in (i + 1)..(k + 1) : block[j].node = block[i].node
        <4>1. CASE block[i].node = x.node
          <5>1. k + 1 \in (i + 1)..(k + 1) /\ block[k + 1].node = block[i].node
            BY <2>4, <2>6, <3>1, <4>1
          <5>2. QED BY <5>1
        <4>2. CASE block[i].node # x.node
          <5>1. i \in 1..Len(block) /\ \A j \in (i + 1)..k : j \in (i + 1)..(k + 1)
            BY <2>3, <2>4, <3>1
          <5>2. block[i].node \in Nodes
            BY <2>3, <5>1 DEF Commands
          <5>3. gadget'[block[i].node] = gadget[block[i].node]
            BY <2>8, <4>2, <5>2
          <5>4. \/ gadget[block[i].node] = Value(block[i], config)
                \/ \E j \in (i + 1)..k : block[j].node = block[i].node
            BY <2>2, <3>1 DEF Carried
          <5>5. QED BY <5>1, <5>3, <5>4
        <4>3. QED BY <4>1, <4>2
      <3>2. gadget'[block[k + 1].node] = Value(block[k + 1], config)
        BY <2>6, <2>8
      <3>3. \A i \in 1..(k + 1) : i \in 1..k \/ i = k + 1
        BY <2>4
      <3>4. QED BY <3>1, <3>2, <3>3
    <2>10. Carried(block, config, gadget', k + 1)
      BY <2>9 DEF Carried
    <2>11. k + 1 \in 0..Len(block)
      BY <2>3, <2>4
    <2>12. Triggered(block, config, gadget', running')
      BY <2>6, <2>10, <2>11 DEF Triggered
    <2>13. QED BY <1>1, <1>2, <1>4, <2>1, <2>12 DEF UsbInv, block
  <1>5. QED BY <1>3, <1>4

LEMMA UsbInvariance == Usb!Spec => []UsbInv
  <1>1. ASSUME UsbInv, [Usb!Next]_Usb!vars PROVE UsbInv'
    <2>1. CASE UNCHANGED Usb!vars
      BY <1>1, <2>1 DEF Usb!vars, UsbInv, Triggered, Carried, Value
    <2>2. QED BY <1>1, <2>1, Ordered, Started, Commanded DEF Usb!Next, Usb!Execute
  <1>2. QED BY <1>1, UsbInit, PTL DEF Usb!Spec

(* The variables of init have their types.                                 *)
LEMMA UsbTypeCorrect == Usb!Spec => []Usb!TypeOK
  <1> DEFINE Command == [node : Usb!Nodes, value : Usb!Written \cup {Usb!Expand}]
             Shown == Usb!Written \cup {"none", "stopped"}
  <1>1. Commands = Command
    <2>1. Values = Usb!Written \cup {Usb!Expand}
      BY DEF Values, Usb!Written
    <2> QED BY <2>1 DEF Commands, Nodes, Usb!Nodes
  <1>2. Usb!Init => Usb!TypeOK
    <2> SUFFICES ASSUME Usb!Init PROVE Usb!TypeOK
      OBVIOUS
    <2>1. gadget \in [Usb!Nodes -> Shown]
      BY DEF Usb!Init, Usb!Nodes, Usb!Written
    <2>2. queue \in Seq(Usb!Configs) /\ running \in Seq(Command)
      BY EmptySeq DEF Usb!Init
    <2> QED BY <2>1, <2>2 DEF Usb!Init, Usb!TypeOK
  <1>3. ASSUME Usb!TypeOK, [Usb!Next]_Usb!vars PROVE Usb!TypeOK'
    <2>1. ASSUME NEW c \in Usb!Configs, Usb!SetConfig(c) PROVE Usb!TypeOK'
      BY <1>3, <2>1 DEF Usb!SetConfig, Usb!TypeOK
    <2>2. CASE Usb!Start
      <3>1. Head(queue) \in Usb!Configs /\ Tail(queue) \in Seq(Usb!Configs)
        BY <1>3, <2>2, HeadTailProperties DEF Usb!Start, Usb!TypeOK
      <3>2. Usb!Block(Head(queue)) \in Seq(Command)
        BY <1>1, <3>1, Triggers
      <3> QED BY <1>3, <2>2, <3>1, <3>2 DEF Usb!Start, Usb!TypeOK
    <2>3. CASE Usb!Command
      <3> DEFINE x == Head(running)
                 v == IF x.value = Usb!Expand THEN config ELSE x.value
      <3>1. x \in Command /\ Tail(running) \in Seq(Command)
        BY <1>3, <2>3, HeadTailProperties DEF Usb!Command, Usb!TypeOK
      <3>2. x.node \in Usb!Nodes /\ v \in Shown
        BY <1>3, <3>1 DEF Usb!TypeOK, Usb!Written
      <3>3. gadget' = [gadget EXCEPT ![x.node] = v] /\ running' = Tail(running)
            /\ UNCHANGED <<config, queue, changes>>
        BY <2>3 DEF Usb!Command
      <3> HIDE DEF x, v, Command
      <3>4. gadget' \in [Usb!Nodes -> Shown]
        BY <1>3, <3>2, <3>3 DEF Usb!TypeOK
      <3> QED BY <1>3, <3>1, <3>3, <3>4 DEF Usb!TypeOK, Command
    <2>4. CASE UNCHANGED Usb!vars
      BY <1>3, <2>4 DEF Usb!vars, Usb!TypeOK
    <2> QED BY <1>3, <2>1, <2>2, <2>3, <2>4 DEF Usb!Next, Usb!Execute
  <1>4. QED BY <1>2, <1>3, PTL DEF Usb!Spec

(* When init has nothing left to do, the gadget is enabled and has the     *)
(* functions, product and state of the last configuration, for any number  *)
(* of changes, though commands of an older trigger may have expanded the   *)
(* newer configuration and written it.                                     *)
THEOREM GadgetFollows == Usb!Spec => []Usb!GadgetSettled
  <1>1. UsbInv => Usb!GadgetSettled
    <2> SUFFICES ASSUME UsbInv, queue = <<>>, running = <<>>, changes > 0
                 PROVE  /\ gadget.enable = "1" /\ gadget.state = config
                        /\ gadget.functions = config
                        /\ gadget.idProduct = Usb!Product(config)
      BY DEF Usb!GadgetSettled
    <2> DEFINE block == Usb!Block(config)
    <2>1. /\ config \in Usb!Configs
          /\ Triggered(block, config, gadget, running)
      BY DEF UsbInv
    <2>2. /\ block \in Seq(Commands) /\ Len(block) \in Nat
          /\ \A i \in 1..Len(block) : block[i] \in Commands
      BY <2>1, Triggers, LenProperties, ElementOfSeq
    <2>3. PICK k \in 0..Len(block) :
            running = SubSeq(block, k + 1, Len(block)) /\ Carried(block, config, gadget, k)
      BY <2>1 DEF Triggered
    <2> HIDE DEF block
    <2>4. k = Len(block)
      <3>1. SUFFICES ASSUME k + 1 <= Len(block) PROVE FALSE
        BY <2>2, <2>3
      <3>2. k + 1 \in 1..Len(block) /\ Len(block) \in (k + 1)..Len(block)
        BY <2>2, <2>3, <3>1
      <3>3. running = <<block[k + 1]>> \o SubSeq(block, (k + 1) + 1, Len(block))
        BY <2>2, <2>3, <3>2, SubSeqRecursiveFirst
      <3> DEFINE rest == SubSeq(block, (k + 1) + 1, Len(block))
      <3>4. rest \in Seq(Commands)
        <4>1. \A i \in ((k + 1) + 1)..Len(block) : block[i] \in Commands
          BY <2>2, <2>3
        <4>2. (k + 1) + 1 \in Int /\ Len(block) \in Int
          BY <2>2, <2>3
        <4>3. QED BY <4>1, <4>2, SubSeqProperties
      <3> HIDE DEF rest
      <3>5. <<block[k + 1]>> \in Seq(Commands) /\ Len(<<block[k + 1]>>) = 1
        BY <2>2, <3>2
      <3>6. running = <<block[k + 1]>> \o rest
        BY <3>3 DEF rest
      <3>7. Len(<<block[k + 1]>> \o rest) = 1 + Len(rest) /\ Len(rest) \in Nat
        BY <3>4, <3>5, ConcatProperties, LenProperties
      <3>8. Len(running) = 0
        OBVIOUS
      <3>9. Len(running) = 1 + Len(rest)
        BY <3>6, <3>7, Zenon
      <3>10. QED BY <3>7, <3>8, <3>9
    <2>5. ASSUME NEW n, NEW v, LastWrite(block, n, v)
          PROVE  gadget[n] = IF v = Usb!Expand THEN config ELSE v
      <3>1. PICK i \in 1..Len(block) :
              /\ block[i].node = n /\ block[i].value = v
              /\ \A j \in (i + 1)..Len(block) : block[j].node # n
        BY <2>5 DEF LastWrite
      <3>2. gadget[block[i].node] = Value(block[i], config)
        BY <2>3, <2>4, <3>1 DEF Carried
      <3>3. QED BY <3>1, <3>2 DEF Value
    <2>6. /\ LastWrite(block, "enable", "1")
          /\ LastWrite(block, "idProduct", Usb!Product(config))
          /\ \/ LastWrite(block, "functions", Usb!Expand)
             \/ LastWrite(block, "functions", config)
          /\ LastWrite(block, "state", Usb!Expand)
      BY <2>1, Triggers DEF block
    <2>7. /\ "1" # Usb!Expand /\ Usb!Product(config) # Usb!Expand
      BY <2>1 DEF Usb!Expand, Usb!Product, Usb!Configs
    <2>8. /\ gadget["enable"] = "1" /\ gadget["state"] = config
          /\ gadget["functions"] = config /\ gadget["idProduct"] = Usb!Product(config)
      BY <2>5, <2>6, <2>7
    <2>9. QED BY <2>8
  <1>2. QED BY <1>1, UsbInvariance, PTL
=============================================================================
