--------------------------- MODULE CaptureProofs ---------------------------
(***************************************************************************)
(* The inductive invariants of CaptureFrames, and the theorems they give,  *)
(* for every driver period, resampling ratio, request and effect.          *)
(***************************************************************************)
EXTENDS CaptureFrames, SequenceTheorems, TLAPS

(* Where in_read is, and what is in the buffers then: the room that is     *)
(* left in each, and which of them a path through in_read leaves alone.    *)
Sizes ==
    /\ Len(buf) <= Period
    /\ Len(rs) < Ratio
    /\ Len(proc) <= proc_size
    /\ ref <= ref_size
    /\ Len(out) <= rq

Filling == {"reload", "fetch", "push", "process"}

Places ==
    /\ pc # "idle" => rq > 0
    /\ pc \in {"idle", "direct", "read"} => out = <<>>
    /\ pc \in Filling => effects
    /\ pc \in {"direct", "read"} => ~effects
    /\ pc = "direct" => Ratio = 1
    /\ pc = "read" => Ratio > 1
    /\ standby => pc \in {"idle", "failed"}
    /\ pc = "read" => Len(got) < rq
    /\ pc = "fetch" => Len(proc) + Len(got) < rq /\ rq <= proc_size
    /\ pc = "process" => cnt <= Len(proc)
    /\ pc = "done" => Len(out) = rq

(* Effects that consume what they are given leave a difference only        *)
(* between the reference and their own turn.                               *)
Balanced == LockStep /\ echo => skew = IF pc = "process" THEN cnt ELSE 0

SizeInv == TypeOK /\ Sizes /\ Places /\ Balanced

(* Without effects that come and go, a stream without effects has nothing  *)
(* in their buffers, nor in the driver's if it has no resampler.           *)
Idle ==
    ~Toggle /\ ~effects => fx = <<>> /\ proc = <<>> /\ (Ratio = 1 => buf = <<>>)

(* Only a restart finds frames in the buffers it empties.                  *)
Fresh == standby /\ ~Restarts => buf = <<>> /\ rs = <<>>

(* The delay measured counts the frames that wait now.                     *)
Measured ==
    pc = "process" /\ echo /\ asked.measured =>
      /\ Len(proc) > 0
      /\ asked.delay = asked.kernel + Len(buf) + Len(proc) + Len(rs)

(* The frames of s are in the order of their capture, all before or at m.  *)
Sorted(s) == \A i, j \in 1..Len(s) : i < j => s[i] < s[j]
Rising(s, m) == Sorted(s) /\ \A i \in 1..Len(s) : s[i] <= m

Line == <<last>> \o OnTheWay \o rs \o buf

(* The frames on their way are in the order of their capture.              *)
Ordered == ~Toggle => Rising(Line, cap)

(* Of the frames after b, one in Ratio makes the line w; those of s come   *)
(* next, up to c, and none is missing.                                     *)
Spaced(w, b) == \A i \in 1..Len(w) : w[i] = b + Ratio * (i - 1) + 1
After(w, b) == b + Ratio * Len(w)
Follows(w, s, b, c) ==
    /\ Spaced(w, b)
    /\ After(w, b) <= c
    /\ s = Frames(After(w, b), c - After(w, b))

(* The first frame that the caller does not have yet comes after this one. *)
Delivered == IF last = 0 THEN 0 ELSE last + Ratio - 1

(* And none of the frames since is missing.                                *)
Whole ==
    ~Failures /\ ~Toggle /\ (Restarts => Ratio = 1) =>
      Follows(OnTheWay, rs \o buf, Delivered, cap)

Flow == Idle /\ Fresh /\ Measured /\ Ordered /\ Whole

FrameInv == SizeInv /\ Flow

-----------------------------------------------------------------------------
(* Sequences of frames.                                                    *)

(* The setup of a stream is one of Setups and keeps its bounds.            *)
LEMMA SetupFacts ==
    ASSUME setup \in Setups
    PROVE  /\ Period \in Nat \ {0} /\ Ratio \in Nat \ {0}
           /\ Requests \subseteq Nat \ {0}
           /\ Hold \in Nat /\ Kernel \in Nat /\ MaxSkew \in Nat
           /\ Failures \in BOOLEAN /\ Restarts \in BOOLEAN /\ Toggle \in BOOLEAN
           /\ LockStep \in BOOLEAN
  <1>1. /\ setup.period \in Nat \ {0} /\ setup.ratio \in Nat \ {0}
        /\ setup.requests \subseteq Nat \ {0}
        /\ {setup.hold, setup.kernel, setup.maxframe, setup.maxskew} \subseteq Nat
        /\ {setup.failures, setup.restarts, setup.toggle, setup.lockstep, setup.eager}
             \subseteq BOOLEAN
    BY CaptureAssumption
  <1> QED
    BY <1>1 DEF Period, Ratio, Requests, Hold, Kernel, MaxSkew, Failures, Restarts, Toggle,
                LockStep

(* Frames(m, n) is the n frames after frame m.                             *)
LEMMA FramesFacts ==
    ASSUME NEW m \in Nat, NEW n \in Nat
    PROVE  /\ Frames(m, n) \in Seq(Nat)
           /\ Len(Frames(m, n)) = n
           /\ \A i \in 1..n : Frames(m, n)[i] = m + i
  <1>1. Frames(m, n) \in [1..n -> Nat]
    BY DEF Frames
  <1>2. Frames(m, n) \in Seq(Nat)
    BY <1>1, SeqDef
  <1> QED
    BY <1>1, <1>2 DEF Frames

(* Sequences are joined in any order.                                      *)
LEMMA Joined ==
    ASSUME NEW a \in Seq(Nat), NEW b \in Seq(Nat), NEW c \in Seq(Nat)
    PROVE  (a \o b) \o c = a \o (b \o c)
  BY ConcatAssociative

(* A sequence is its first n elements and the others.                      *)
LEMMA TakeDrop ==
    ASSUME NEW s \in Seq(Nat), NEW n \in 0..Len(s)
    PROVE  /\ Take(s, n) \in Seq(Nat) /\ Len(Take(s, n)) = n
           /\ \A i \in 1..n : Take(s, n)[i] = s[i]
           /\ Drop(s, n) \in Seq(Nat) /\ Len(Drop(s, n)) = Len(s) - n
           /\ \A i \in 1..(Len(s) - n) : Drop(s, n)[i] = s[n + i]
           /\ Take(s, n) \o Drop(s, n) = s
  <1>1. Len(s) \in Nat /\ n \in Nat /\ n <= Len(s) /\ \A i \in 1..Len(s) : s[i] \in Nat
    BY LenProperties, ElementOfSeq
  <1>2. /\ Take(s, n) \in Seq(Nat)
        /\ Len(Take(s, n)) = IF 1 <= n THEN n - 1 + 1 ELSE 0
        /\ \A i \in 1..(n - 1 + 1) : Take(s, n)[i] = s[1 + i - 1]
    <2>1. \A i \in 1..n : s[i] \in Nat
      BY <1>1
    <2> QED
      BY <1>1, <2>1, SubSeqProperties DEF Take
  <1>3. /\ Drop(s, n) \in Seq(Nat)
        /\ Len(Drop(s, n)) = IF n + 1 <= Len(s) THEN Len(s) - (n + 1) + 1 ELSE 0
        /\ \A i \in 1..(Len(s) - (n + 1) + 1) : Drop(s, n)[i] = s[(n + 1) + i - 1]
    <2>1. /\ \A i \in (n + 1)..Len(s) : s[i] \in Nat
          /\ n + 1 \in Int /\ Len(s) \in Int
      BY <1>1
    <2> QED
      BY <2>1, SubSeqProperties DEF Drop
  <1>4. SubSeq(s, 1, n) \o SubSeq(s, n + 1, Len(s)) = SubSeq(s, 1, Len(s))
    <2>1. 1 \in 1..(Len(s) + 1) /\ n \in (1 - 1)..Len(s) /\ Len(s) \in n..Len(s)
      BY <1>1
    <2> QED
      BY <2>1, ConcatAdjacentSubSeq, Zenon
  <1>5. SubSeq(s, 1, Len(s)) = s
    BY SubSeqFull
  <1>6. Take(s, n) \o Drop(s, n) = s
    BY <1>4, <1>5 DEF Take, Drop
  <1>7. ASSUME NEW i \in 1..n
        PROVE  Take(s, n)[i] = s[i]
    <2>1. i \in 1..(n - 1 + 1) /\ 1 + i - 1 = i
      BY <1>1
    <2> QED
      BY <1>2, <2>1, Zenon
  <1>8. ASSUME NEW i \in 1..(Len(s) - n)
        PROVE  Drop(s, n)[i] = s[n + i]
    <2>1. i \in 1..(Len(s) - (n + 1) + 1) /\ (n + 1) + i - 1 = n + i
      BY <1>1
    <2> QED
      BY <1>3, <2>1, Zenon
  <1>9. Len(Take(s, n)) = n /\ Len(Drop(s, n)) = Len(s) - n
    BY <1>1, <1>2, <1>3
  <1> QED
    BY <1>2, <1>3, <1>6, <1>7, <1>8, <1>9, Zenon

(* Division by a ratio.                                                    *)
LEMMA Division ==
    ASSUME NEW a \in Nat, NEW r \in Nat \ {0}
    PROVE  /\ a \div r \in Nat
           /\ r * (a \div r) <= a
           /\ a < r * (a \div r) + r
           /\ r * (a \div r) \in Nat
  OBVIOUS

(* Numbers are compared by their multiples.                                *)
LEMMA Multiples ==
    ASSUME NEW a \in Nat, NEW b \in Nat, NEW r \in Nat \ {0}
    PROVE  /\ r * a \in Nat
           /\ a < b => r * a + r <= r * b
           /\ r * a <= r * b => a <= b
           /\ r * a < r * b => a < b
  OBVIOUS

LEMMA Distributed ==
    ASSUME NEW a \in Int, NEW b \in Int, NEW r \in Nat
    PROVE  r * (a + b) = r * a + b * r
  OBVIOUS

(* What the resampler makes of s, and what it keeps.                       *)
LEMMA ResampledFacts ==
    ASSUME Ratio \in Nat \ {0}, NEW s \in Seq(Nat)
    PROVE  LET q == Len(s) \div Ratio
           IN /\ q \in Nat /\ Ratio * q \in 0..Len(s)
              /\ Resampled(s) \in Seq(Nat) /\ Len(Resampled(s)) = q
              /\ \A i \in 1..q : /\ (i - 1) * Ratio + 1 \in 1..(Ratio * q)
                                 /\ Resampled(s)[i] = s[(i - 1) * Ratio + 1]
              /\ Kept(s) \in Seq(Nat) /\ Len(Kept(s)) = Len(s) - Ratio * q
              /\ Len(Kept(s)) < Ratio
              /\ \A i \in 1..(Len(s) - Ratio * q) : Kept(s)[i] = s[Ratio * q + i]
  <1> DEFINE q == Len(s) \div Ratio
  <1>1. Len(s) \in Nat /\ \A i \in 1..Len(s) : s[i] \in Nat
    BY LenProperties, ElementOfSeq
  <1>2. /\ q \in Nat /\ Ratio * q \in Nat /\ Ratio * q <= Len(s)
        /\ Len(s) < Ratio * q + Ratio
    BY <1>1, Division
  <1>3. ASSUME NEW i \in 1..q
        PROVE  (i - 1) * Ratio + 1 \in 1..(Ratio * q)
    <2>1. i - 1 \in Nat /\ i - 1 < q
      BY <1>2, <1>3
    <2>2. Ratio * (i - 1) \in Nat /\ Ratio * (i - 1) + Ratio <= Ratio * q
      BY <2>1, <1>2, Multiples
    <2>3. (i - 1) * Ratio = Ratio * (i - 1)
      BY <2>1
    <2> HIDE DEF q
    <2> QED
      BY <2>2, <2>3, <1>2
  <1>4. Resampled(s) \in [1..q -> Nat]
    <2>1. \A i \in 1..q : s[(i - 1) * Ratio + 1] \in Nat
      <3> HIDE DEF q
      <3> QED
        BY <1>1, <1>2, <1>3
    <2>2. Resampled(s) = [i \in 1..q |-> s[(i - 1) * Ratio + 1]]
      BY Zenon DEF Resampled
    <2> HIDE DEF q
    <2> QED
      BY <2>1, <2>2
  <1>5. Resampled(s) \in Seq(Nat) /\ Len(Resampled(s)) = q
    <2> HIDE DEF q
    <2> QED
      BY <1>2, <1>4, SeqDef
  <1>6. \A i \in 1..q : Resampled(s)[i] = s[(i - 1) * Ratio + 1]
    BY Zenon DEF Resampled
  <1>7. /\ Kept(s) \in Seq(Nat) /\ Len(Kept(s)) = Len(s) - Ratio * q
        /\ \A i \in 1..(Len(s) - Ratio * q) : Kept(s)[i] = s[Ratio * q + i]
    <2>1. Ratio * q \in 0..Len(s)
      <3> HIDE DEF q
      <3> QED
        BY <1>1, <1>2
    <2>2. Kept(s) = Drop(s, Ratio * q)
      BY Zenon DEF Kept
    <2> HIDE DEF q
    <2> QED
      BY <2>1, <2>2, TakeDrop
  <1> HIDE DEF q
  <1>8. /\ Ratio * q \in 0..Len(s) /\ Len(Kept(s)) < Ratio
    BY <1>1, <1>2, <1>7
  <1> QED
    BY <1>2, <1>3, <1>5, <1>6, <1>7, <1>8 DEF q

(* One turn of the loop of read_frames: of what the resampler and the      *)
(* driver's buffer have, the first h frames go through the resampler.      *)
LEMMA FetchFacts ==
    ASSUME TypeOK, Sizes, NEW missing \in Nat \ {0}, Fetch(missing)
    PROVE  /\ cap' \in Nat
           /\ cap' = IF buf = <<>> THEN cap + Period ELSE cap
           /\ buf' \in Seq(Nat) /\ Len(buf') <= Period
           /\ rs' \in Seq(Nat) /\ Len(rs') < Ratio
           /\ got' \in Seq(Nat) /\ Len(got') <= Len(got) + missing
           /\ Filled \in Seq(Nat)
           /\ \E h \in Seq(Nat) : /\ h \o buf' = rs \o Filled
                                  /\ rs' = Kept(h)
                                  /\ got' = got \o Resampled(h)
  <1> DEFINE needed == Ratio * missing - Len(rs)
             taken == Least(needed, Len(Filled))
             had == rs \o Take(Filled, taken)
  <1>1. Period \in Nat \ {0} /\ Ratio \in Nat \ {0}
    BY SetupFacts DEF TypeOK
  <1>2. /\ cap \in Nat /\ buf \in Seq(Nat) /\ rs \in Seq(Nat) /\ got \in Seq(Nat)
        /\ Len(buf) \in Nat /\ Len(rs) \in Nat /\ Len(got) \in Nat
        /\ Len(buf) <= Period /\ Len(rs) < Ratio
    BY LenProperties DEF TypeOK, Sizes
  <1>3. Filled \in Seq(Nat) /\ Len(Filled) \in Nat /\ Len(Filled) <= Period
    <2>1. CASE buf = <<>>
      <3>1. Filled = Frames(cap, Period)
        BY <2>1 DEF Filled, Exhausted
      <3>2. /\ Frames(cap, Period) \in Seq(Nat) /\ Len(Frames(cap, Period)) = Period
        BY <1>1, <1>2, FramesFacts
      <3> QED
        BY <1>1, <3>1, <3>2
    <2>2. CASE buf # <<>>
      BY <1>2, <2>2 DEF Filled, Exhausted
    <2> QED
      BY <2>1, <2>2
  <1>4. needed \in Nat /\ Len(rs) + needed = Ratio * missing
    <2>1. Ratio * 0 + Ratio <= Ratio * missing /\ Ratio * missing \in Nat
      BY <1>1, Multiples
    <2> DEFINE all == Ratio * missing
    <2>2. all \in Nat /\ Ratio <= all /\ needed = all - Len(rs)
      BY <1>1, <2>1
    <2> HIDE DEF all, needed
    <2>3. needed \in Nat /\ Len(rs) + needed = all
      BY <1>1, <1>2, <2>2
    <2> QED
      BY <2>3 DEF all
  <1>5. taken \in 0..Len(Filled) /\ Len(rs) + taken <= Ratio * missing
    <2> HIDE DEF needed
    <2> QED
      BY <1>2, <1>3, <1>4 DEF Least
  <1>6. /\ cap' = IF Exhausted THEN cap + Period ELSE cap
        /\ buf' = Released(taken) /\ rs' = Kept(had) /\ got' = got \o Resampled(had)
    BY Zenon DEF Fetch
  <1> HIDE DEF needed, taken
  <1>7. /\ Take(Filled, taken) \in Seq(Nat) /\ Len(Take(Filled, taken)) = taken
        /\ buf' \in Seq(Nat) /\ Len(buf') = Len(Filled) - taken
        /\ Take(Filled, taken) \o buf' = Filled
    BY <1>3, <1>5, <1>6, TakeDrop DEF Released
  <1>8. /\ had \in Seq(Nat) /\ Len(had) = Len(rs) + taken
        /\ had \o buf' = rs \o Filled
    <2> DEFINE fed == Take(Filled, taken)
    <2>1. fed \in Seq(Nat) /\ Len(fed) = taken /\ fed \o buf' = Filled
      BY <1>7
    <2> HIDE DEF fed
    <2>2. /\ rs \o fed \in Seq(Nat) /\ Len(rs \o fed) = Len(rs) + taken
      BY <1>2, <2>1, ConcatProperties
    <2>3. (rs \o fed) \o buf' = rs \o (fed \o buf')
      <3>1. rs \in Seq(Nat) /\ fed \in Seq(Nat) /\ buf' \in Seq(Nat)
        BY <1>2, <1>7, <2>1
      <3> QED
        BY <3>1, Joined, ZenonT(40)
    <2> QED
      BY <2>1, <2>2, <2>3 DEF fed
  <1> HIDE DEF had
  <1>9. /\ Len(had) \div Ratio \in Nat /\ Ratio * (Len(had) \div Ratio) \in 0..Len(had)
        /\ Resampled(had) \in Seq(Nat) /\ Len(Resampled(had)) = Len(had) \div Ratio
        /\ Kept(had) \in Seq(Nat) /\ Len(Kept(had)) < Ratio
    BY <1>1, <1>8, ResampledFacts
  <1>10. Len(had) \div Ratio <= missing
    <2>1. /\ Ratio * (Len(had) \div Ratio) \in Nat /\ Ratio * missing \in Nat
          /\ Ratio * (Len(had) \div Ratio) <= Ratio * missing
      BY <1>1, <1>2, <1>5, <1>8, <1>9, Multiples
    <2> QED
      BY <1>1, <1>9, <2>1, Multiples
  <1>11. got' \in Seq(Nat) /\ Len(got') = Len(got) + Len(Resampled(had))
    BY <1>2, <1>6, <1>9, ConcatProperties
  <1>12. /\ cap' \in Nat
         /\ cap' = IF buf = <<>> THEN cap + Period ELSE cap
    BY <1>1, <1>2, <1>6 DEF Exhausted
  <1>13. Len(buf') <= Period /\ Len(got') <= Len(got) + missing
    <2>1. Len(got') <= Len(got) + missing
      <3>1. Len(Resampled(had)) \in Nat /\ Len(Resampled(had)) <= missing
        BY <1>9, <1>10
      <3> QED
        BY <1>2, <1>11, <3>1
    <2>2. Len(buf') <= Period
      BY <1>1, <1>3, <1>5, <1>7
    <2> QED
      BY <2>1, <2>2
  <1> QED
    BY <1>3, <1>6, <1>7, <1>8, <1>9, <1>11, <1>12, <1>13, Zenon

-----------------------------------------------------------------------------
(* Types, room in the buffers, and balance.                                *)

(* What a setup says is the same for good.                                 *)
LEMMA SetupKept ==
    ASSUME setup' = setup
    PROVE  /\ Period' = Period /\ Ratio' = Ratio /\ Requests' = Requests
           /\ Failures' = Failures /\ Restarts' = Restarts /\ Toggle' = Toggle
           /\ LockStep' = LockStep
  BY DEF Period, Ratio, Requests, Failures, Restarts, Toggle, LockStep

(* The types, one variable at a time.                                      *)
LEMMA Typed ==
    ASSUME TypeOK
    PROVE  /\ setup \in Setups /\ rq \in Nat
           /\ cap \in Nat /\ proc_size \in Nat /\ ref \in Nat /\ ref_size \in Nat
           /\ cnt \in Nat /\ last \in Nat
           /\ buf \in Seq(Nat) /\ rs \in Seq(Nat) /\ got \in Seq(Nat)
           /\ proc \in Seq(Nat) /\ fx \in Seq(Nat) /\ out \in Seq(Nat)
           /\ Len(buf) \in Nat /\ Len(rs) \in Nat /\ Len(got) \in Nat
           /\ Len(proc) \in Nat /\ Len(fx) \in Nat /\ Len(out) \in Nat
           /\ effects \in BOOLEAN /\ echo \in BOOLEAN /\ standby \in BOOLEAN
           /\ skew \in Int /\ Period \in Nat \ {0} /\ Ratio \in Nat \ {0}
  <1>1. /\ setup \in Setups /\ Requests \subseteq Nat \ {0}
        /\ Period \in Nat \ {0} /\ Ratio \in Nat \ {0}
    BY SetupFacts DEF TypeOK
  <1>2. rq \in Nat
    BY <1>1 DEF TypeOK
  <1> QED
    BY <1>1, <1>2, LenProperties DEF TypeOK

(* The initial states are of the types, with nothing in the buffers.       *)
LEMMA SizeInit == Init => SizeInv
  <1> SUFFICES ASSUME Init PROVE SizeInv
    OBVIOUS
  <1>1. setup \in Setups /\ Period \in Nat \ {0} /\ Ratio \in Nat \ {0}
    BY SetupFacts DEF Init
  <1>2. <<>> \in Seq(Nat) /\ Len(<<>>) = 0
    BY EmptySeq
  <1>3. TypeOK
    <2>1. {buf, rs, got, proc, fx, out} \subseteq Seq(Nat)
      BY <1>2, Zenon DEF Init
    <2>2. /\ {cap, proc_size, ref, ref_size, cnt, last} \subseteq Nat
          /\ rq \in Requests \cup {0} /\ skew \in Int
          /\ asked \in [measured : BOOLEAN, kernel : Nat, delay : Nat]
      BY DEF Init, NotMeasured
    <2>3. {effects, echo, standby} \subseteq BOOLEAN
      BY DEF Init
    <2> QED
      BY <1>1, <2>1, <2>2, <2>3, Zenon DEF Init, TypeOK
  <1>4. Sizes
    BY <1>1, <1>2 DEF Init, Sizes
  <1>5. Places /\ Balanced
    BY <1>1, <1>2 DEF Init, Places, Balanced, Filling
  <1> QED
    BY <1>3, <1>4, <1>5 DEF SizeInv

(* What keeps the invariant: the next values are of the types, fit, and    *)
(* suit the place that in_read is in then.                                 *)
Suits == Sizes /\ Places /\ Balanced

(* in_read begins.                                                         *)
LEMMA BeginSizes ==
    ASSUME SizeInv, setup' = setup, NEW n \in Requests, Begin(n)
    PROVE  SizeInv'
  <1> USE SetupKept
  <1>1. /\ n \in Nat \ {0} /\ Requests \subseteq Nat \ {0}
    BY SetupFacts DEF SizeInv, TypeOK
  <1>2. TypeOK
    BY DEF SizeInv
  <1>3. /\ buf' \in Seq(Nat) /\ rs' \in Seq(Nat)
        /\ Len(buf') <= Period /\ Len(rs') < Ratio
    <2>1. CASE standby /\ Ratio > 1
      BY <1>2, <2>1, Typed, EmptySeq DEF Begin, StartInput
    <2>2. CASE ~(standby /\ Ratio > 1)
      BY <1>2, <2>2, Typed DEF Begin, StartInput, SizeInv, Sizes
    <2> QED
      BY <2>1, <2>2
  <1>4. /\ standby' \in BOOLEAN /\ echo' \in BOOLEAN /\ skew' \in Int
        /\ skew' = 0 \/ (echo' = echo /\ skew' = skew)
    <2>1. echo \in BOOLEAN /\ effects \in BOOLEAN /\ standby \in BOOLEAN /\ skew \in Int
      BY <1>2, Typed
    <2>2. CASE standby
      <3>1. TakeReference /\ standby' = FALSE
        BY <2>2 DEF Begin, StartInput
      <3>2. echo' \in BOOLEAN /\ standby' \in BOOLEAN
        BY <3>1, Zenon DEF TakeReference
      <3>3. skew' = 0 /\ skew' \in Int
        BY <3>1 DEF TakeReference
      <3> QED
        BY <3>2, <3>3, Zenon
    <2>3. CASE ~standby
      BY <2>1, <2>3 DEF Begin
    <2> QED
      BY <2>2, <2>3
  <1>5. out' = <<>> /\ got' = <<>> /\ <<>> \in Seq(Nat) /\ Len(<<>>) = 0
    BY EmptySeq DEF Begin
  <1>6. /\ rq' = n /\ pc = "idle"
        /\ pc' = IF effects THEN "reload" ELSE IF Ratio > 1 THEN "read" ELSE "direct"
        /\ UNCHANGED <<cap, proc, proc_size, ref, ref_size, asked, fx, cnt, effects, last>>
    BY DEF Begin, Converts
  <1>7. TypeOK'
    <2>1. {buf', rs', got', proc', fx', out'} \subseteq Seq(Nat)
      BY <1>2, <1>3, <1>5, <1>6, Typed
    <2>2. {effects', echo', standby'} \subseteq BOOLEAN
      BY <1>2, <1>4, <1>6, Typed
    <2> QED
      BY <1>2, <1>4, <1>6, <2>1, <2>2 DEF TypeOK
  <1>8. Sizes'
    BY <1>1, <1>2, <1>3, <1>5, <1>6, Typed DEF SizeInv, Sizes
  <1>9. Places'
    <2>1. pc' \in {"reload", "read", "direct"} /\ (effects' <=> pc' = "reload")
      BY <1>2, <1>6, Typed
    <2>2. /\ pc' = "direct" => Ratio' = 1
          /\ pc' = "read" => Len(got') < rq' /\ Ratio' > 1
      BY <1>1, <1>2, <1>5, <1>6, Typed
    <2>3. ~standby'
      <3>1. standby \in BOOLEAN
        BY <1>2, Typed
      <3> QED
        BY <3>1 DEF Begin, StartInput
    <2> QED
      BY <1>1, <1>5, <1>6, <2>1, <2>2, <2>3 DEF Places, Filling
  <1>10. Balanced'
    BY <1>4, <1>6 DEF SizeInv, Balanced
  <1> QED
    BY <1>7, <1>8, <1>9, <1>10 DEF SizeInv

(* in_read cannot start the input.                                         *)
LEMMA StartFailsSizes ==
    ASSUME SizeInv, setup' = setup, NEW n \in Requests, StartFails(n)
    PROVE  SizeInv'
  <1> USE SetupKept
  <1>1. /\ n \in Nat \ {0} /\ Requests \subseteq Nat \ {0} /\ TypeOK
    BY SetupFacts DEF SizeInv, TypeOK
  <1>2. /\ pc = "idle" /\ pc' = "failed" /\ rq' = n /\ skew' = 0
        /\ UNCHANGED <<cap, buf, rs, got, proc, proc_size, ref, ref_size, asked, fx, cnt, out,
                       effects, standby, last>>
    BY DEF StartFails, TakeReference, driver
  <1>3. echo' \in BOOLEAN
    BY Zenon DEF StartFails, TakeReference
  <1>4. TypeOK'
    <2>1. {effects', echo', standby'} \subseteq BOOLEAN
      BY <1>1, <1>2, <1>3, Typed
    <2> QED
      BY <1>1, <1>2, <2>1 DEF TypeOK
  <1>5. out = <<>> /\ Len(<<>>) = 0
    BY <1>2, EmptySeq DEF SizeInv, Places
  <1>6. Sizes' /\ Places' /\ Balanced'
    BY <1>1, <1>2, <1>5 DEF SizeInv, Sizes, Places, Balanced, Filling
  <1> QED
    BY <1>4, <1>6 DEF SizeInv

(* A read without resampler and effects.                                   *)
LEMMA DirectReadSizes ==
    ASSUME SizeInv, setup' = setup, DirectRead
    PROVE  SizeInv'
  <1> USE SetupKept
  <1>1. TypeOK
    BY DEF SizeInv
  <1>2. /\ pc = "direct" /\ pc' = "done" /\ out' = Frames(cap, rq) /\ cap' = cap + rq
        /\ UNCHANGED <<rq, buf, rs, got, proc, proc_size, ref, ref_size, asked, skew, fx, cnt,
                       effects, echo, standby, last>>
    BY DEF DirectRead, reference, setting
  <1>3. out' \in Seq(Nat) /\ Len(out') = rq /\ cap' \in Nat
    <2>1. cap \in Nat /\ rq \in Nat
      BY <1>1, Typed
    <2>2. Frames(cap, rq) \in Seq(Nat) /\ Len(Frames(cap, rq)) = rq
      BY <2>1, FramesFacts
    <2> QED
      BY <1>2, <2>1, <2>2
  <1>4. TypeOK'
    <2>1. {buf', rs', got', proc', fx', out'} \subseteq Seq(Nat)
      BY <1>1, <1>2, <1>3, Typed
    <2> QED
      BY <1>1, <1>2, <1>3, <2>1 DEF TypeOK
  <1>5. Sizes'
    BY <1>1, <1>2, <1>3, Typed DEF SizeInv, Sizes
  <1>6. Places'
    BY <1>1, <1>2, <1>3 DEF SizeInv, Places, Filling
  <1>7. Balanced'
    BY <1>2 DEF SizeInv, Balanced
  <1> QED
    BY <1>4, <1>5, <1>6, <1>7 DEF SizeInv

(* One turn of read_frames into the caller's buffer.                       *)
LEMMA ReadMoreSizes ==
    ASSUME SizeInv, setup' = setup, ReadMore
    PROVE  SizeInv'
  <1> USE SetupKept
  <1>1. TypeOK /\ Sizes
    BY DEF SizeInv
  <1>2. /\ pc = "read" /\ Fetch(rq - Len(got))
        /\ IF Len(got') = rq THEN pc' = "done" /\ out' = got' ELSE pc' = pc /\ out' = out
        /\ UNCHANGED <<rq, proc, proc_size, ref, ref_size, asked, skew, fx, cnt,
                       effects, echo, standby, last>>
    BY DEF ReadMore, reference, setting
  <1>3. rq - Len(got) \in Nat \ {0}
    BY <1>1, <1>2, Typed DEF SizeInv, Places
  <1>4. /\ cap' \in Nat
        /\ buf' \in Seq(Nat) /\ Len(buf') <= Period
        /\ rs' \in Seq(Nat) /\ Len(rs') < Ratio
        /\ got' \in Seq(Nat) /\ Len(got') <= Len(got) + (rq - Len(got))
    BY <1>1, <1>2, <1>3, FetchFacts
  <1>5. out' \in Seq(Nat) /\ Len(got') \in Nat /\ Len(got') <= rq
    <2>1. Len(got') \in Nat
      BY <1>4, LenProperties
    <2>2. Len(got) \in Nat /\ rq \in Nat /\ out \in Seq(Nat)
      BY <1>1, Typed
    <2>3. Len(got') <= rq
      BY <1>4, <2>1, <2>2
    <2>4. out' \in Seq(Nat)
      BY <1>2, <1>4, <2>2
    <2> QED
      BY <2>1, <2>3, <2>4
  <1>6. TypeOK'
    <2>1. {buf', rs', got', proc', fx', out'} \subseteq Seq(Nat)
      BY <1>1, <1>2, <1>4, <1>5, Typed
    <2> QED
      BY <1>1, <1>2, <1>4, <2>1 DEF TypeOK
  <1>7. Sizes'
    BY <1>1, <1>2, <1>4, <1>5, Typed DEF Sizes
  <1>8. Places'
    <2>1. CASE Len(got') = rq
      BY <1>2, <2>1 DEF SizeInv, Places, Filling
    <2>2. CASE Len(got') # rq
      <3>1. rq \in Nat
        BY <1>1, Typed
      <3>2. Len(got') < rq
        BY <1>5, <2>2, <3>1
      <3> QED
        BY <1>2, <2>2, <3>2 DEF SizeInv, Places, Filling
    <2> QED
      BY <2>1, <2>2
  <1>9. Balanced'
    BY <1>2 DEF SizeInv, Balanced
  <1> QED
    BY <1>6, <1>7, <1>8, <1>9 DEF SizeInv

(* A turn of process_frames begins: is proc_buf to be filled?              *)
LEMMA ReloadSizes ==
    ASSUME SizeInv, setup' = setup, Reload
    PROVE  SizeInv'
  <1> USE SetupKept
  <1>1. TypeOK /\ rq \in Nat /\ proc_size \in Nat /\ Len(proc) \in Nat
    BY Typed DEF SizeInv
  <1>2. /\ pc = "reload" /\ got' = <<>>
        /\ UNCHANGED <<rq, cap, buf, rs, proc, ref, ref_size, asked, skew, fx, cnt, out,
                       effects, echo, standby, last>>
    BY DEF Reload, driver, reference, setting
  <1>3. /\ proc_size' \in Nat /\ proc_size <= proc_size'
        /\ \/ pc' = "fetch" /\ Len(proc) < rq /\ rq <= proc_size'
           \/ pc' = "push" /\ rq <= Len(proc)
    <2>1. CASE NotEnough
      <3>1. pc' = "fetch" /\ proc_size' = Most(proc_size, rq)
        BY <2>1 DEF Reload, ProcSize
      <3>2. Len(proc) < rq
        BY <2>1 DEF NotEnough
      <3> QED
        BY <1>1, <3>1, <3>2 DEF Most
    <2>2. CASE ~NotEnough
      BY <1>1, <2>2 DEF Reload, NotEnough
    <2> QED
      BY <2>1, <2>2
  <1>4. <<>> \in Seq(Nat) /\ Len(<<>>) = 0
    BY EmptySeq
  <1>5. TypeOK'
    <2>1. {buf', rs', got', proc', fx', out'} \subseteq Seq(Nat)
      BY <1>1, <1>2, <1>4, Typed
    <2> QED
      BY <1>1, <1>2, <1>3, <2>1 DEF TypeOK
  <1>6. Sizes'
    BY <1>1, <1>2, <1>3 DEF SizeInv, Sizes
  <1>7. Places'
    BY <1>1, <1>2, <1>3, <1>4 DEF SizeInv, Places, Filling
  <1>8. Balanced'
    BY <1>2, <1>3 DEF SizeInv, Balanced
  <1> QED
    BY <1>5, <1>6, <1>7, <1>8 DEF SizeInv

(* One turn of read_frames into proc_buf.                                  *)
LEMMA FetchMoreSizes ==
    ASSUME SizeInv, setup' = setup, FetchMore
    PROVE  SizeInv'
  <1> USE SetupKept
  <1>1. TypeOK /\ Sizes
    BY DEF SizeInv
  <1>2. /\ pc = "fetch" /\ Fetch(rq - Len(proc) - Len(got))
        /\ IF Len(proc) + Len(got') = rq
           THEN pc' = "push" /\ proc' = proc \o got'
           ELSE pc' = pc /\ proc' = proc
        /\ UNCHANGED <<rq, proc_size, ref, ref_size, asked, skew, fx, cnt, out,
                       effects, echo, standby, last>>
    BY DEF FetchMore, reference, setting
  <1>3. /\ rq \in Nat /\ Len(proc) \in Nat /\ Len(got) \in Nat /\ proc \in Seq(Nat)
        /\ proc_size \in Nat /\ Len(proc) + Len(got) < rq /\ rq <= proc_size
    BY <1>1, <1>2, Typed DEF SizeInv, Places
  <1>4. rq - Len(proc) - Len(got) \in Nat \ {0}
    BY <1>3
  <1>5. /\ cap' \in Nat
        /\ buf' \in Seq(Nat) /\ Len(buf') <= Period
        /\ rs' \in Seq(Nat) /\ Len(rs') < Ratio
        /\ got' \in Seq(Nat)
        /\ Len(got') <= Len(got) + (rq - Len(proc) - Len(got))
    BY <1>1, <1>2, <1>4, FetchFacts
  <1>6. Len(got') \in Nat /\ Len(proc) + Len(got') <= rq
    <2>1. Len(got') \in Nat
      BY <1>5, LenProperties
    <2> QED
      BY <1>3, <1>5, <2>1
  <1>7. proc \o got' \in Seq(Nat) /\ Len(proc \o got') = Len(proc) + Len(got')
    BY <1>3, <1>5, ConcatProperties
  <1>8. proc' \in Seq(Nat) /\ Len(proc') <= proc_size /\ pc' \in {"fetch", "push"}
    BY <1>1, <1>2, <1>3, <1>6, <1>7 DEF Sizes
  <1>9. TypeOK'
    <2>1. {buf', rs', got', proc', fx', out'} \subseteq Seq(Nat)
      BY <1>1, <1>2, <1>5, <1>8, Typed
    <2> QED
      BY <1>1, <1>2, <1>5, <1>8, <2>1 DEF TypeOK
  <1>10. Sizes'
    BY <1>1, <1>2, <1>5, <1>8 DEF Sizes
  <1>11. Places'
    <2>1. pc' = "fetch" => Len(proc') + Len(got') < rq
      BY <1>2, <1>3, <1>6
    <2> QED
      BY <1>2, <1>3, <1>8, <2>1 DEF SizeInv, Places, Filling
  <1>12. Balanced'
    BY <1>2, <1>8 DEF SizeInv, Balanced
  <1> QED
    BY <1>9, <1>10, <1>11, <1>12 DEF SizeInv

(* A pcm_read fails.                                                       *)
LEMMA ReadFailsSizes ==
    ASSUME SizeInv, setup' = setup, ReadFails
    PROVE  SizeInv'
  <1> USE SetupKept
  <1>1. /\ pc \in {"read", "fetch", "direct"} /\ pc' = "failed"
        /\ UNCHANGED <<rq, cap, buf, rs, got, proc, proc_size, ref, ref_size, asked, skew, fx,
                       cnt, out, effects, echo, standby, last>>
    BY DEF ReadFails, driver, reference, setting
  <1>2. TypeOK'
    BY <1>1 DEF SizeInv, TypeOK
  <1>3. Sizes' /\ Places' /\ Balanced'
    BY <1>1 DEF SizeInv, Sizes, Places, Balanced, Filling
  <1> QED
    BY <1>2, <1>3 DEF SizeInv

(* What get_capture_delay measures counts the frames of all buffers.       *)
LEMMA DelayMeasured ==
    ASSUME TypeOK, get_capture_delay
    PROVE  /\ asked' \in [measured : BOOLEAN, kernel : Nat, delay : Nat]
           /\ asked'.measured =>
                asked'.delay = asked'.kernel + Len(buf) + Len(proc) + Len(rs)
  <1>1. Kernel \in Nat /\ Len(buf) \in Nat /\ Len(proc) \in Nat /\ Len(rs) \in Nat
    BY SetupFacts, Typed DEF TypeOK
  <1>2. CASE asked' = NotMeasured
    BY <1>2 DEF NotMeasured
  <1>3. ASSUME NEW kernel \in 0..Kernel,
               asked' = [measured |-> TRUE, kernel |-> kernel, delay |-> CaptureDelay(kernel)]
        PROVE  /\ asked' \in [measured : BOOLEAN, kernel : Nat, delay : Nat]
               /\ asked'.delay = asked'.kernel + Len(buf) + Len(proc) + Len(rs)
    <2>1. kernel \in Nat /\ CaptureDelay(kernel) \in Nat
          /\ CaptureDelay(kernel) = kernel + Len(buf) + Len(proc) + Len(rs)
      BY <1>1 DEF CaptureDelay
    <2> QED
      BY <1>3, <2>1
  <1> QED
    BY <1>2, <1>3 DEF get_capture_delay

(* The echo reference is brought up to date and given to the effects.      *)
LEMMA PushSizes ==
    ASSUME SizeInv, setup' = setup, NEW n \in 0..Len(proc), NEW r \in 0..Len(proc), Push(n, r)
    PROVE  SizeInv'
  <1> USE SetupKept
  <1>1. /\ TypeOK /\ Len(proc) \in Nat /\ ref \in Nat /\ ref_size \in Nat /\ skew \in Int
        /\ Len(buf) \in Nat /\ Len(rs) \in Nat /\ ref <= ref_size
    BY Typed DEF SizeInv, Sizes
  <1>2. n \in Nat /\ r \in Nat
    BY <1>1
  <1>3. /\ pc = "push" /\ pc' = "process" /\ echo
        /\ ref' = ref + n - r /\ skew' = skew + r /\ cnt' = r
        /\ UNCHANGED <<rq, cap, buf, rs, got, proc, proc_size, fx, out,
                       effects, echo, standby, last>>
    BY DEF Push, RefLeft, Written, driver, setting
  <1>4. r <= ref + n /\ r <= Len(proc)
    <2>1. r <= Least(ref + n, Len(proc))
      <3>1. CASE Eager
        BY <1>1, <1>2, <3>1 DEF Push, Least
      <3>2. CASE ~Eager
        BY <1>1, <1>2, <3>2 DEF Push, Least
      <3> QED
        BY <3>1, <3>2
    <2> QED
      BY <1>1, <1>2, <2>1 DEF Least
  <1>5. /\ ref_size' \in Nat /\ ref + n <= ref_size'
        /\ asked' \in [measured : BOOLEAN, kernel : Nat, delay : Nat]
    <2>1. CASE Missing > 0
      <3>1. /\ n <= Len(proc) - ref /\ ref_size' = Most(ref_size, Len(proc))
            /\ get_capture_delay
        BY <1>1, <1>2, <2>1 DEF Push, UpdateEchoReference, Missing
      <3>2. asked' \in [measured : BOOLEAN, kernel : Nat, delay : Nat]
        BY <1>1, <3>1, DelayMeasured
      <3>3. ref_size' \in Nat /\ ref + n <= ref_size'
        BY <1>1, <1>2, <3>1 DEF Most
      <3> QED
        BY <3>1, <3>2, <3>3
    <2>2. CASE ~(Missing > 0)
      <3>1. /\ n = 0 /\ ref_size' = ref_size
            /\ asked' = NotMeasured
        BY <2>2 DEF Push, UpdateEchoReference
      <3> QED
        BY <1>1, <3>1 DEF NotMeasured
    <2> QED
      BY <2>1, <2>2
  <1>6. ref' \in Nat /\ ref' <= ref_size'
    BY <1>1, <1>2, <1>3, <1>4, <1>5
  <1>7. TypeOK'
    <2>1. {buf', rs', got', proc', fx', out'} \subseteq Seq(Nat)
      BY <1>1, <1>3, Typed
    <2> QED
      BY <1>1, <1>2, <1>3, <1>5, <1>6, <2>1 DEF TypeOK
  <1>8. Sizes'
    BY <1>3, <1>6 DEF SizeInv, Sizes
  <1>9. Places'
    BY <1>3, <1>4 DEF SizeInv, Places, Filling
  <1>10. Balanced'
    <2>1. LockStep => skew = 0
      BY <1>3 DEF SizeInv, Balanced
    <2>2. LockStep => skew' = cnt'
      BY <1>2, <1>3, <2>1
    <2>3. pc' = "process"
      BY <1>3
    <2> QED
      BY <2>2, <2>3 DEF Balanced
  <1> QED
    BY <1>7, <1>8, <1>9, <1>10 DEF SizeInv

(* Without a reference the effects get all of proc_buf.                    *)
LEMMA NoReferenceSizes ==
    ASSUME SizeInv, setup' = setup, NoReference
    PROVE  SizeInv'
  <1> USE SetupKept
  <1>1. TypeOK /\ Len(proc) \in Nat
    BY Typed DEF SizeInv
  <1>2. /\ pc = "push" /\ pc' = "process" /\ ~echo /\ cnt' = Len(proc)
        /\ UNCHANGED <<rq, cap, buf, rs, got, proc, proc_size, ref, ref_size, asked, skew, fx,
                       out, effects, echo, standby, last>>
    BY DEF NoReference, driver, reference, setting
  <1>3. TypeOK'
    BY <1>1, <1>2 DEF TypeOK
  <1>4. Sizes' /\ Places' /\ Balanced'
    BY <1>1, <1>2 DEF SizeInv, Sizes, Places, Balanced, Filling
  <1> QED
    BY <1>3, <1>4 DEF SizeInv

(* The effects take c frames of proc_buf and give p: what is in them, in   *)
(* proc_buf and in the caller's buffer is the same line of frames.         *)
LEMMA ProcessFacts ==
    ASSUME SizeInv, NEW c \in 0..cnt, NEW p \in 0..rq, Process(c, p)
    PROVE  /\ fx' \in Seq(Nat) /\ proc' \in Seq(Nat) /\ out' \in Seq(Nat)
           /\ Len(proc') <= Len(proc) /\ Len(out') \in Nat /\ Len(out') <= rq
           /\ out' \o fx' \o proc' = out \o fx \o proc
  <1> DEFINE given == Take(proc, c)
             inside == fx \o given
             made == Take(inside, p)
  <1>1. /\ fx \in Seq(Nat) /\ proc \in Seq(Nat) /\ out \in Seq(Nat)
        /\ Len(fx) \in Nat /\ Len(proc) \in Nat /\ Len(out) \in Nat
        /\ cnt \in Nat /\ rq \in Nat /\ Len(out) <= rq
    BY Typed DEF SizeInv, Sizes
  <1>2. /\ pc = "process" /\ p \in 0..Least(Len(inside), rq - Len(out))
        /\ fx' = Drop(inside, p) /\ proc' = Remaining(c, p) /\ out' = out \o made
    BY DEF Process
  <1>3. c \in 0..Len(proc)
    BY <1>1, <1>2 DEF SizeInv, Places
  <1>4. /\ given \in Seq(Nat) /\ proc' \in Seq(Nat) /\ Len(proc') = Len(proc) - c
        /\ given \o proc' = proc
    BY <1>1, <1>2, <1>3, TakeDrop DEF Remaining
  <1> HIDE DEF given
  <1>5. inside \in Seq(Nat) /\ Len(inside) \in Nat
    BY <1>1, <1>4, ConcatProperties, LenProperties
  <1> HIDE DEF inside
  <1>6. p \in 0..Len(inside) /\ p <= rq - Len(out)
    BY <1>1, <1>2, <1>5 DEF Least
  <1>7. /\ made \in Seq(Nat) /\ Len(made) = p
        /\ fx' \in Seq(Nat) /\ made \o fx' = inside
    BY <1>2, <1>5, <1>6, TakeDrop
  <1> HIDE DEF made
  <1>8. out' \in Seq(Nat) /\ Len(out') = Len(out) + p
    BY <1>1, <1>2, <1>7, ConcatProperties
  <1>9. Len(out') \in Nat /\ Len(out') <= rq /\ Len(proc') <= Len(proc)
    BY <1>1, <1>3, <1>4, <1>6, <1>8
  <1>10. out' \o fx' \o proc' = out \o fx \o proc
    <2>1. (out \o made) \o fx' = out \o (made \o fx')
      BY <1>1, <1>7, Joined, ZenonT(40)
    <2>2. (out \o (fx \o given)) \o proc' = ((out \o fx) \o given) \o proc'
      BY <1>1, <1>4, Joined, ZenonT(40)
    <2>3. out \o fx \in Seq(Nat)
      BY <1>1, ConcatProperties
    <2>4. ((out \o fx) \o given) \o proc' = (out \o fx) \o (given \o proc')
      BY <1>4, <2>3, Joined, ZenonT(40)
    <2> QED
      BY <1>2, <1>4, <1>7, <2>1, <2>2, <2>4, Zenon DEF inside
  <1> QED
    BY <1>4, <1>7, <1>8, <1>9, <1>10

(* process().                                                              *)
LEMMA ProcessSizes ==
    ASSUME SizeInv, setup' = setup, NEW c \in 0..cnt, NEW p \in 0..rq, Process(c, p)
    PROVE  SizeInv'
  <1> USE SetupKept
  <1>1. /\ TypeOK /\ cnt \in Nat /\ skew \in Int /\ rq \in Nat
        /\ Len(proc) \in Nat
    BY Typed DEF SizeInv
  <1>2. /\ pc = "process"
        /\ skew' = IF echo THEN skew - c ELSE skew
        /\ pc' = IF Len(out') < rq THEN "reload" ELSE "done"
        /\ LockStep => c = cnt
        /\ asked' = NotMeasured
        /\ UNCHANGED <<rq, cap, buf, rs, got, proc_size, ref, ref_size, cnt, effects,
                       echo, standby, last>>
    BY DEF Process, driver, setting
  <1>3. /\ fx' \in Seq(Nat) /\ proc' \in Seq(Nat) /\ out' \in Seq(Nat)
        /\ Len(proc') <= Len(proc) /\ Len(out') \in Nat /\ Len(out') <= rq
    BY ProcessFacts
  <1>4. skew' \in Int /\ c \in Nat
    BY <1>1, <1>2
  <1>5. TypeOK'
    <2>1. {buf', rs', got', proc', fx', out'} \subseteq Seq(Nat)
      BY <1>1, <1>2, <1>3, Typed
    <2> QED
      BY <1>1, <1>2, <1>4, <2>1 DEF TypeOK, NotMeasured
  <1>6. Sizes'
    <2>1. Len(proc') \in Nat /\ proc_size \in Nat /\ Len(proc') <= proc_size
      <3>1. /\ proc \in Seq(Nat) /\ proc' \in Seq(Nat) /\ proc_size \in Nat
            /\ Len(proc) <= proc_size
        BY <1>1, <1>3, Typed DEF SizeInv, Sizes
      <3> QED
        BY <1>3, <3>1, LenProperties
    <2> QED
      BY <1>2, <1>3, <2>1 DEF SizeInv, Sizes
  <1>7. Places'
    <2>1. pc' = "done" => Len(out') = rq
      BY <1>1, <1>2, <1>3
    <2>2. pc' \in {"reload", "done"} /\ effects /\ rq > 0 /\ ~standby
      BY <1>2 DEF SizeInv, Places, Filling
    <2> QED
      BY <1>2, <2>1, <2>2 DEF Places, Filling
  <1>8. Balanced'
    <2>1. LockStep /\ echo => skew = c
      BY <1>2 DEF SizeInv, Balanced
    <2>2. LockStep /\ echo => skew' = 0
      BY <1>1, <1>2, <1>4, <2>1
    <2>3. pc' # "process" /\ echo' = echo
      BY <1>2
    <2> QED
      BY <2>2, <2>3 DEF Balanced
  <1> QED
    BY <1>5, <1>6, <1>7, <1>8 DEF SizeInv

(* in_read returns, after an error or with all frames.                     *)
LEMMA ReturnSizes ==
    ASSUME SizeInv, setup' = setup, Return \/ Fail
    PROVE  SizeInv'
  <1> USE SetupKept
  <1>1. TypeOK
    BY DEF SizeInv
  <1>2. /\ pc \in {"done", "failed"} /\ pc' = "idle" /\ out' = <<>> /\ got' = <<>>
        /\ UNCHANGED <<rq, cap, buf, rs, proc, proc_size, ref, ref_size, asked, skew, fx, cnt,
                       effects, echo, standby>>
    BY DEF Return, Fail, driver, reference, setting
  <1>3. last' \in Nat
    <2>1. CASE Return
      <3>1. Len(out) = rq /\ rq > 0 /\ last' = out[Len(out)]
        BY <2>1 DEF Return, SizeInv, Places
      <3>2. out \in Seq(Nat) /\ rq \in Nat
        BY <1>1, Typed
      <3>3. Len(out) \in 1..Len(out)
        BY <3>1, <3>2
      <3> QED
        BY <3>1, <3>2, <3>3, ElementOfSeq
    <2>2. CASE Fail
      BY <1>1, <2>2, Typed DEF Fail
    <2> QED
      BY <2>1, <2>2
  <1>4. <<>> \in Seq(Nat) /\ Len(<<>>) = 0
    BY EmptySeq
  <1>5. TypeOK'
    <2>1. {buf', rs', got', proc', fx', out'} \subseteq Seq(Nat)
      BY <1>1, <1>2, <1>4, Typed
    <2> QED
      BY <1>1, <1>2, <1>3, <2>1 DEF TypeOK
  <1>6. Sizes' /\ Places' /\ Balanced'
    <2>1. Len(out') <= rq
      BY <1>1, <1>2, <1>4, Typed
    <2> QED
      BY <1>1, <1>2, <2>1 DEF SizeInv, Sizes, Places, Balanced, Filling
  <1> QED
    BY <1>5, <1>6 DEF SizeInv

(* The stream goes to standby, or effects come or go, between two reads.   *)
LEMMA StandbySizes ==
    ASSUME SizeInv, setup' = setup, Standby
    PROVE  SizeInv'
  <1> USE SetupKept
  <1>1. /\ pc = "idle" /\ standby' = TRUE /\ echo' = FALSE
        /\ UNCHANGED <<pc, rq, cap, buf, rs, got, proc, proc_size, ref, ref_size, asked, skew,
                       fx, cnt, out, effects, last>>
    BY DEF Standby, position, driver, reference
  <1>2. {effects', echo', standby'} \subseteq BOOLEAN
    BY <1>1, Zenon DEF SizeInv, TypeOK
  <1>3. TypeOK'
    BY <1>1, <1>2 DEF SizeInv, TypeOK
  <1>4. Sizes' /\ Places' /\ Balanced'
    BY <1>1 DEF SizeInv, Sizes, Places, Balanced, Filling
  <1> QED
    BY <1>3, <1>4 DEF SizeInv

LEMMA SetEffectsSizes ==
    ASSUME SizeInv, setup' = setup, SetEffects
    PROVE  SizeInv'
  <1> USE SetupKept
  <1>1. /\ pc = "idle" /\ effects' = ~effects /\ fx' = <<>>
        /\ UNCHANGED <<pc, rq, cap, buf, rs, got, proc, proc_size, ref, ref_size, asked, skew,
                       cnt, out, echo, standby, last>>
    BY DEF SetEffects, position, driver, reference
  <1>2. {effects', echo', standby'} \subseteq BOOLEAN
    BY <1>1, Zenon DEF SizeInv, TypeOK
  <1>3. {buf', rs', got', proc', fx', out'} \subseteq Seq(Nat)
    BY <1>1, EmptySeq DEF SizeInv, TypeOK
  <1>4. TypeOK'
    BY <1>1, <1>2, <1>3 DEF SizeInv, TypeOK
  <1>5. Sizes' /\ Places' /\ Balanced'
    BY <1>1 DEF SizeInv, Sizes, Places, Balanced, Filling
  <1> QED
    BY <1>4, <1>5 DEF SizeInv

(* Every step keeps the invariant.                                         *)
LEMMA SizeInductive == SizeInv /\ [Next]_vars => SizeInv'
  <1> SUFFICES ASSUME SizeInv, [Next]_vars PROVE SizeInv'
    OBVIOUS
  <1>1. CASE Next
    <2>1. setup' = setup
      BY <1>1 DEF Next
    <2>2. ASSUME NEW n \in Requests, Begin(n) \/ StartFails(n) PROVE SizeInv'
      BY <2>1, <2>2, BeginSizes, StartFailsSizes
    <2>3. CASE DirectRead \/ ReadMore \/ Reload \/ FetchMore \/ NoReference \/ Return \/ Fail
      BY <2>1, <2>3, DirectReadSizes, ReadMoreSizes, ReloadSizes, FetchMoreSizes,
         NoReferenceSizes, ReturnSizes
    <2>4. ASSUME NEW n \in 0..Len(proc), NEW r \in 0..Len(proc), Push(n, r) PROVE SizeInv'
      BY <2>1, <2>4, PushSizes
    <2>5. ASSUME NEW c \in 0..cnt, NEW p \in 0..rq, Process(c, p) PROVE SizeInv'
      BY <2>1, <2>5, ProcessSizes
    <2>6. CASE ReadFails \/ Standby \/ SetEffects
      BY <2>1, <2>6, ReadFailsSizes, StandbySizes, SetEffectsSizes
    <2> QED
      BY <1>1, <2>2, <2>3, <2>4, <2>5, <2>6, Zenon DEF Next, Step
  <1>2. CASE UNCHANGED vars
    <2>1. /\ setup' = setup
          /\ UNCHANGED <<pc, rq, cap, buf, rs, got, proc, proc_size, ref, ref_size, asked, skew,
                         fx, cnt, out, effects, echo, standby, last>>
      BY <1>2 DEF vars, position, driver, reference, setting
    <2>2. TypeOK'
      BY <2>1, SetupKept DEF SizeInv, TypeOK
    <2>3. Sizes' /\ Places' /\ Balanced'
      BY <2>1, SetupKept DEF SizeInv, Sizes, Places, Balanced, Filling
    <2> QED
      BY <2>2, <2>3 DEF SizeInv
  <1> QED
    BY <1>1, <1>2

LEMMA SizeInvariance == Spec => []SizeInv
  BY SizeInit, SizeInductive, PTL DEF Spec

(* Every variable of the capture pipeline has its type.                    *)
THEOREM TypeCorrect == Spec => []TypeOK
  <1>1. SizeInv => TypeOK
    BY DEF SizeInv
  <1> QED
    BY <1>1, SizeInvariance, PTL

(* For every driver period, ratio, request and behaviour of the effects    *)
(* and of the reference, nothing that process_frames, push_echo_reference  *)
(* or read_frames writes or moves goes past the end of its buffer, and no  *)
(* count of frames goes below zero.                                        *)
THEOREM RoomForFrames == Spec => []BuffersFit
  <1>1. SizeInv => BuffersFit
    <2> SUFFICES ASSUME SizeInv PROVE BuffersFit
      OBVIOUS
    <2>1. /\ Len(got) \in Nat /\ Len(proc) \in Nat /\ proc_size \in Nat /\ rq \in Nat
          /\ ref \in Nat /\ ref_size \in Nat
      BY Typed DEF SizeInv
    <2>2. Sizes /\ Places
      BY DEF SizeInv
    <2>3. ref \in 0..ref_size
      BY <2>1, <2>2 DEF Sizes
    <2>4. pc = "read" => Len(got) <= rq
      BY <2>1, <2>2 DEF Places
    <2>5. pc = "fetch" => Len(proc) + Len(got) <= proc_size
      BY <2>1, <2>2 DEF Places
    <2> QED
      BY <2>2, <2>3, <2>4, <2>5 DEF BuffersFit, Sizes, Places
  <1> QED
    BY <1>1, SizeInvariance, PTL

(* With effects that consume all they are given, the effects have had as   *)
(* many frames of the reference as of the microphone in every state        *)
(* outside their own turn, whatever the reference gives, and across failed *)
(* reads and starts.                                                       *)
THEOREM ReferenceInStep == Spec => []LockStepAligned
  <1>1. SizeInv => LockStepAligned
    BY DEF SizeInv, Balanced, LockStepAligned, EchoAligned
  <1> QED
    BY <1>1, SizeInvariance, PTL

-----------------------------------------------------------------------------
(* Lines of frames.                                                        *)

(* All of s was captured before all of t; t has frames of s only.          *)
Before(s, t) == \A i \in 1..Len(s), j \in 1..Len(t) : s[i] < t[j]
Within(t, s) == \A i \in 1..Len(t) : \E j \in 1..Len(s) : t[i] = s[j]

(* The elements of two sequences joined.                                   *)
LEMMA JoinFacts ==
    ASSUME NEW a \in Seq(Nat), NEW b \in Seq(Nat)
    PROVE  /\ a \o b \in Seq(Nat) /\ Len(a) \in Nat /\ Len(b) \in Nat
           /\ Len(a \o b) = Len(a) + Len(b)
           /\ \A i \in 1..Len(a) : a[i] \in Nat /\ i \in 1..Len(a \o b) /\ (a \o b)[i] = a[i]
           /\ \A i \in 1..Len(b) : /\ b[i] \in Nat /\ Len(a) + i \in 1..Len(a \o b)
                                   /\ (a \o b)[Len(a) + i] = b[i]
           /\ \A i \in 1..Len(a \o b) :
                \/ i \in 1..Len(a) /\ (a \o b)[i] = a[i]
                \/ i - Len(a) \in 1..Len(b) /\ (a \o b)[i] = b[i - Len(a)]
  <1>1. /\ a \o b \in Seq(Nat)
        /\ Len(a \o b) = Len(a) + Len(b)
        /\ \A i \in 1..(Len(a) + Len(b)) :
             (a \o b)[i] = IF i <= Len(a) THEN a[i] ELSE b[i - Len(a)]
    BY ConcatProperties
  <1>2. Len(a) \in Nat /\ Len(b) \in Nat
    BY LenProperties
  <1>3. (\A i \in 1..Len(a) : a[i] \in Nat) /\ (\A i \in 1..Len(b) : b[i] \in Nat)
    BY ElementOfSeq
  <1>4. ASSUME NEW i \in 1..Len(a)
        PROVE  i \in 1..Len(a \o b) /\ (a \o b)[i] = a[i]
    BY <1>1, <1>2
  <1>5. ASSUME NEW i \in 1..Len(b)
        PROVE  Len(a) + i \in 1..Len(a \o b) /\ (a \o b)[Len(a) + i] = b[i]
    <2>1. Len(a) + i \in 1..(Len(a) + Len(b)) /\ ~(Len(a) + i <= Len(a))
          /\ Len(a) + i - Len(a) = i
      BY <1>2
    <2> QED
      BY <1>1, <2>1
  <1>6. ASSUME NEW i \in 1..Len(a \o b)
        PROVE  \/ i \in 1..Len(a) /\ (a \o b)[i] = a[i]
               \/ i - Len(a) \in 1..Len(b) /\ (a \o b)[i] = b[i - Len(a)]
    BY <1>1, <1>2
  <1> QED
    BY <1>1, <1>2, <1>3, <1>4, <1>5, <1>6

(* Two lines make one if the first was captured before the second.         *)
LEMMA RisingJoin ==
    ASSUME NEW a \in Seq(Nat), NEW b \in Seq(Nat), NEW m \in Nat
    PROVE  Rising(a \o b, m) <=> Rising(a, m) /\ Rising(b, m) /\ Before(a, b)
  <1> DEFINE s == a \o b
  <1>1. /\ Len(a) \in Nat /\ Len(b) \in Nat /\ Len(s) = Len(a) + Len(b)
        /\ \A i \in 1..Len(a) : a[i] \in Nat /\ i \in 1..Len(s) /\ s[i] = a[i]
        /\ \A i \in 1..Len(b) : b[i] \in Nat /\ Len(a) + i \in 1..Len(s) /\ s[Len(a) + i] = b[i]
        /\ \A i \in 1..Len(s) :
             \/ i \in 1..Len(a) /\ s[i] = a[i]
             \/ i - Len(a) \in 1..Len(b) /\ s[i] = b[i - Len(a)]
    BY JoinFacts
  <1> HIDE DEF s
  <1>2. ASSUME Rising(s, m) PROVE Rising(a, m) /\ Rising(b, m) /\ Before(a, b)
    <2>1. ASSUME NEW i \in 1..Len(a), NEW j \in 1..Len(a), i < j PROVE a[i] < a[j]
      BY <1>1, <1>2, <2>1 DEF Rising, Sorted
    <2>2. ASSUME NEW i \in 1..Len(b), NEW j \in 1..Len(b), i < j PROVE b[i] < b[j]
      <3>1. Len(a) + i < Len(a) + j
        BY <1>1, <2>2
      <3> QED
        BY <1>1, <1>2, <3>1 DEF Rising, Sorted
    <2>3. ASSUME NEW i \in 1..Len(a), NEW j \in 1..Len(b) PROVE a[i] < b[j]
      <3>1. i < Len(a) + j
        BY <1>1
      <3> QED
        BY <1>1, <1>2, <3>1 DEF Rising, Sorted
    <2>4. (\A i \in 1..Len(a) : a[i] <= m) /\ (\A i \in 1..Len(b) : b[i] <= m)
      BY <1>1, <1>2 DEF Rising
    <2> QED
      BY <2>1, <2>2, <2>3, <2>4 DEF Rising, Sorted, Before
  <1>3. ASSUME Rising(a, m), Rising(b, m), Before(a, b) PROVE Rising(s, m)
    <2>1. ASSUME NEW i \in 1..Len(s), NEW j \in 1..Len(s), i < j PROVE s[i] < s[j]
      <3>1. CASE j \in 1..Len(a) /\ s[j] = a[j]
        <4>1. i \in 1..Len(a)
          BY <1>1, <2>1, <3>1
        <4> QED
          BY <1>1, <1>3, <2>1, <3>1, <4>1 DEF Rising, Sorted
      <3>2. CASE j - Len(a) \in 1..Len(b) /\ s[j] = b[j - Len(a)]
        <4>1. CASE i \in 1..Len(a) /\ s[i] = a[i]
          BY <1>3, <3>2, <4>1 DEF Before
        <4>2. CASE i - Len(a) \in 1..Len(b) /\ s[i] = b[i - Len(a)]
          <5>1. i - Len(a) < j - Len(a)
            BY <1>1, <2>1
          <5> QED
            BY <1>3, <3>2, <4>2, <5>1 DEF Rising, Sorted
        <4> QED
          BY <1>1, <4>1, <4>2
      <3> QED
        BY <1>1, <3>1, <3>2
    <2>2. \A i \in 1..Len(s) : s[i] <= m
      BY <1>1, <1>3 DEF Rising
    <2> QED
      BY <2>1, <2>2 DEF Rising, Sorted
  <1> QED
    BY <1>2, <1>3 DEF s

(* What comes before or after two lines joined does so with each.          *)
LEMMA BeforeJoin ==
    ASSUME NEW a \in Seq(Nat), NEW b \in Seq(Nat), NEW c \in Seq(Nat)
    PROVE  /\ Before(a \o b, c) <=> Before(a, c) /\ Before(b, c)
           /\ Before(c, a \o b) <=> Before(c, a) /\ Before(c, b)
  <1> DEFINE s == a \o b
  <1>1. /\ \A i \in 1..Len(a) : i \in 1..Len(s) /\ s[i] = a[i]
        /\ \A i \in 1..Len(b) : Len(a) + i \in 1..Len(s) /\ s[Len(a) + i] = b[i]
        /\ \A i \in 1..Len(s) :
             \/ i \in 1..Len(a) /\ s[i] = a[i]
             \/ i - Len(a) \in 1..Len(b) /\ s[i] = b[i - Len(a)]
    BY JoinFacts
  <1> HIDE DEF s
  <1>2. Within(a, s) /\ Within(b, s)
    BY <1>1, Zenon DEF Within
  <1>3. Before(s, c) => Before(a, c) /\ Before(b, c)
    BY <1>2 DEF Before, Within
  <1>4. Before(c, s) => Before(c, a) /\ Before(c, b)
    BY <1>2 DEF Before, Within
  <1>5. ASSUME Before(a, c), Before(b, c), NEW i \in 1..Len(s), NEW j \in 1..Len(c)
        PROVE  s[i] < c[j]
    <2>1. CASE i \in 1..Len(a) /\ s[i] = a[i]
      BY <1>5, <2>1 DEF Before
    <2>2. CASE i - Len(a) \in 1..Len(b) /\ s[i] = b[i - Len(a)]
      BY <1>5, <2>2 DEF Before
    <2> QED
      BY <1>1, <2>1, <2>2
  <1>6. ASSUME Before(c, a), Before(c, b), NEW i \in 1..Len(s), NEW j \in 1..Len(c)
        PROVE  c[j] < s[i]
    <2>1. CASE i \in 1..Len(a) /\ s[i] = a[i]
      BY <1>6, <2>1 DEF Before
    <2>2. CASE i - Len(a) \in 1..Len(b) /\ s[i] = b[i - Len(a)]
      BY <1>6, <2>2 DEF Before
    <2> QED
      BY <1>1, <2>1, <2>2
  <1>7. Before(a, c) /\ Before(b, c) => Before(s, c)
    BY <1>5, Zenon DEF Before
  <1>8. Before(c, a) /\ Before(c, b) => Before(c, s)
    BY <1>6, Zenon DEF Before
  <1> QED
    BY <1>3, <1>4, <1>7, <1>8 DEF s

(* A part of a line may be replaced by some of its frames in order.        *)
LEMMA Replaced ==
    ASSUME NEW a \in Seq(Nat), NEW b \in Seq(Nat), NEW c \in Seq(Nat), NEW t \in Seq(Nat),
           NEW m \in Nat, Rising(a \o b \o c, m), Rising(t, m), Within(t, b)
    PROVE  Rising(a \o t \o c, m)
  <1>1. a \o b \in Seq(Nat) /\ a \o t \in Seq(Nat)
    BY JoinFacts
  <1>2. Rising(a \o b, m) /\ Rising(c, m) /\ Before(a \o b, c)
    BY <1>1, RisingJoin
  <1>3. Rising(a, m) /\ Before(a, b) /\ Before(a, c) /\ Before(b, c)
    BY <1>2, RisingJoin, BeforeJoin
  <1>4. Before(a, t) /\ Before(t, c)
    BY <1>3 DEF Before, Within
  <1>5. Rising(a \o t, m) /\ Before(a \o t, c)
    BY <1>3, <1>4, RisingJoin, BeforeJoin
  <1> QED
    BY <1>1, <1>2, <1>5, RisingJoin

(* A line goes on with the next frames of the driver.                      *)
LEMMA RisingFrames ==
    ASSUME NEW a \in Seq(Nat), NEW m \in Nat, NEW n \in Nat, Rising(a, m)
    PROVE  Rising(a \o Frames(m, n), m + n)
  <1> DEFINE f == Frames(m, n)
  <1>1. f \in Seq(Nat) /\ Len(f) = n /\ \A i \in 1..n : f[i] = m + i
    BY FramesFacts
  <1>2. Len(a) \in Nat /\ \A i \in 1..Len(a) : a[i] \in Nat
    BY LenProperties, ElementOfSeq
  <1> HIDE DEF f
  <1>3. Rising(a, m + n)
    BY <1>2 DEF Rising
  <1>4. Rising(f, m + n)
    BY <1>1 DEF Rising, Sorted
  <1>5. Before(a, f)
    BY <1>1, <1>2 DEF Rising, Before
  <1> QED
    BY <1>1, <1>3, <1>4, <1>5, RisingJoin DEF f

(* Every element of two sequences is an element of one of them.            *)
LEMMA WithinJoin ==
    ASSUME NEW a \in Seq(Nat), NEW b \in Seq(Nat), NEW s, Within(a, s), Within(b, s)
    PROVE  Within(a \o b, s)
  <1> SUFFICES ASSUME NEW i \in 1..Len(a \o b)
               PROVE  \E j \in 1..Len(s) : (a \o b)[i] = s[j]
    BY DEF Within
  <1>1. \/ i \in 1..Len(a) /\ (a \o b)[i] = a[i]
        \/ i - Len(a) \in 1..Len(b) /\ (a \o b)[i] = b[i - Len(a)]
    BY JoinFacts
  <1>2. CASE i \in 1..Len(a) /\ (a \o b)[i] = a[i]
    BY <1>2, Zenon DEF Within
  <1>3. CASE i - Len(a) \in 1..Len(b) /\ (a \o b)[i] = b[i - Len(a)]
    <2>1. \E j \in 1..Len(s) : b[i - Len(a)] = s[j]
      BY <1>3 DEF Within
    <2> QED
      BY <1>3, <2>1
  <1> QED
    BY <1>1, <1>2, <1>3

(* The resampler keeps the order of the frames.                            *)
LEMMA RisingResampled ==
    ASSUME Ratio \in Nat \ {0}, NEW h \in Seq(Nat), NEW m \in Nat, Rising(h, m)
    PROVE  Rising(Resampled(h) \o Kept(h), m) /\ Within(Resampled(h) \o Kept(h), h)
  <1> DEFINE q == Len(h) \div Ratio
             u == Ratio * q
             f == Resampled(h)
             k == Kept(h)
  <1>1. /\ q \in Nat /\ u \in 0..Len(h) /\ Len(h) \in Nat
        /\ f \in Seq(Nat) /\ Len(f) = q
        /\ \A i \in 1..q : (i - 1) * Ratio + 1 \in 1..u /\ f[i] = h[(i - 1) * Ratio + 1]
        /\ k \in Seq(Nat) /\ Len(k) = Len(h) - u
        /\ \A i \in 1..(Len(h) - u) : k[i] = h[u + i]
    BY ResampledFacts, LenProperties
  <1>2. \A i \in 1..Len(h) : h[i] \in Nat
    BY ElementOfSeq
  <1> HIDE DEF q, u, f, k
  <1>3. \A i \in 1..q : (i - 1) * Ratio + 1 \in 1..Len(h)
    <2>1. \A x \in 1..u : x \in 1..Len(h)
      BY <1>1
    <2> QED
      BY <1>1, <2>1, Zenon
  <1>4. Within(f, h)
    BY <1>1, <1>3, Zenon DEF Within
  <1>5. Within(k, h)
    <2> SUFFICES ASSUME NEW i \in 1..Len(k) PROVE \E j \in 1..Len(h) : k[i] = h[j]
      BY DEF Within
    <2>1. u + i \in 1..Len(h) /\ k[i] = h[u + i]
      BY <1>1
    <2> QED
      BY <2>1
  <1>6. ASSUME NEW i \in 1..q, NEW j \in 1..q, i < j
        PROVE  f[i] < f[j]
    <2>1. i - 1 \in Nat /\ j - 1 \in Nat /\ i - 1 < j - 1
      BY <1>1, <1>6
    <2>2. /\ Ratio * (i - 1) \in Nat /\ Ratio * (j - 1) \in Nat
          /\ Ratio * (i - 1) + Ratio <= Ratio * (j - 1)
      BY <2>1, Multiples
    <2>3. (i - 1) * Ratio + 1 < (j - 1) * Ratio + 1
      BY <2>1, <2>2
    <2> QED
      BY <1>1, <1>3, <2>3 DEF Rising, Sorted
  <1>7. ASSUME NEW i \in 1..Len(k), NEW j \in 1..Len(k), i < j
        PROVE  k[i] < k[j]
    <2>1. u + i < u + j /\ u + i \in 1..Len(h) /\ u + j \in 1..Len(h)
      BY <1>1, <1>7
    <2> QED
      BY <1>1, <2>1 DEF Rising, Sorted
  <1>8. ASSUME NEW i \in 1..q, NEW j \in 1..Len(k)
        PROVE  f[i] < k[j]
    <2> DEFINE x == (i - 1) * Ratio + 1
    <2>1. x \in 1..u /\ x \in 1..Len(h) /\ f[i] = h[x]
      BY <1>1, <1>3
    <2>2. u + j \in 1..Len(h) /\ k[j] = h[u + j]
      BY <1>1
    <2> HIDE DEF x
    <2>3. x < u + j
      BY <1>1, <2>1
    <2> QED
      BY <2>1, <2>2, <2>3 DEF Rising, Sorted
  <1>9. Rising(f, m) /\ Rising(k, m)
    BY <1>1, <1>4, <1>5, <1>6, <1>7 DEF Rising, Sorted, Within
  <1>10. Before(f, k)
    BY <1>1, <1>8 DEF Before
  <1>11. Rising(f \o k, m) /\ Within(f \o k, h)
    BY <1>1, <1>4, <1>5, <1>9, <1>10, RisingJoin, WithinJoin
  <1> QED
    BY <1>11 DEF f, k

(* Frames m + 1 to m + n and the k after them.                             *)
LEMMA FramesJoined ==
    ASSUME NEW m \in Nat, NEW n \in Nat, NEW k \in Nat
    PROVE  Frames(m, n) \o Frames(m + n, k) = Frames(m, n + k)
  <1> DEFINE a == Frames(m, n)
             b == Frames(m + n, k)
             c == Frames(m, n + k)
             s == a \o b
  <1>1. /\ a \in Seq(Nat) /\ Len(a) = n /\ \A i \in 1..n : a[i] = m + i
        /\ b \in Seq(Nat) /\ Len(b) = k /\ \A i \in 1..k : b[i] = m + n + i
        /\ c \in Seq(Nat) /\ Len(c) = n + k /\ \A i \in 1..(n + k) : c[i] = m + i
    <2>1. m + n \in Nat /\ n + k \in Nat
      OBVIOUS
    <2>2. a \in Seq(Nat) /\ Len(a) = n /\ \A i \in 1..n : a[i] = m + i
      BY FramesFacts
    <2>3. b \in Seq(Nat) /\ Len(b) = k /\ \A i \in 1..k : b[i] = m + n + i
      BY <2>1, FramesFacts
    <2>4. c \in Seq(Nat) /\ Len(c) = n + k /\ \A i \in 1..(n + k) : c[i] = m + i
      BY <2>1, FramesFacts
    <2> QED
      BY <2>2, <2>3, <2>4
  <1> HIDE DEF a, b, c
  <1>2. /\ s \in Seq(Nat) /\ Len(s) = n + k
        /\ \A i \in 1..Len(s) :
             \/ i \in 1..Len(a) /\ s[i] = a[i]
             \/ i - Len(a) \in 1..Len(b) /\ s[i] = b[i - Len(a)]
    BY <1>1, JoinFacts
  <1> HIDE DEF s
  <1>3. ASSUME NEW i \in 1..Len(s)
        PROVE  s[i] = c[i]
    <2>1. CASE i \in 1..Len(a) /\ s[i] = a[i]
      BY <1>1, <1>2, <2>1
    <2>2. CASE i - Len(a) \in 1..Len(b) /\ s[i] = b[i - Len(a)]
      BY <1>1, <1>2, <2>2
    <2> QED
      BY <1>2, <2>1, <2>2
  <1>4. s = c
    BY <1>1, <1>2, <1>3, SeqEqual
  <1> QED
    BY <1>4 DEF a, b, c, s

(* Of h and z, the frames after those that make the line w, the resampler  *)
(* appends to w what it makes of h: nothing is skipped.                    *)
LEMMA SpacedResampled ==
    ASSUME Ratio \in Nat \ {0}, NEW w \in Seq(Nat), NEW h \in Seq(Nat), NEW z \in Seq(Nat),
           NEW b \in Nat, NEW c \in Nat, Follows(w, h \o z, b, c)
    PROVE  Follows(w \o Resampled(h), Kept(h) \o z, b, c)
  <1> DEFINE q == Len(h) \div Ratio
             u == Ratio * q
             l == b + Ratio * Len(w)
             f == Resampled(h)
             k == Kept(h)
             v == w \o f
             m == b + Ratio * Len(v)
             s == h \o z
             t == k \o z
  <1>1. /\ q \in Nat /\ u \in 0..Len(h) /\ Len(h) \in Nat
        /\ f \in Seq(Nat) /\ Len(f) = q
        /\ \A i \in 1..q : (i - 1) * Ratio + 1 \in 1..u /\ f[i] = h[(i - 1) * Ratio + 1]
        /\ k \in Seq(Nat) /\ Len(k) = Len(h) - u
        /\ \A i \in 1..(Len(h) - u) : k[i] = h[u + i]
    BY ResampledFacts, LenProperties
  <1>2. Len(w) \in Nat /\ Len(z) \in Nat /\ l \in Nat /\ c - l \in Nat
    <2>1. Len(w) \in Nat /\ Len(z) \in Nat
      BY LenProperties
    <2>2. l \in Nat
      <3> DEFINE y == Ratio * Len(w)
      <3>1. y \in Nat
        BY <2>1, Multiples
      <3> HIDE DEF y
      <3>2. b + y \in Nat
        BY <3>1
      <3> QED
        BY <3>2 DEF y
    <2>3. l <= c
      BY DEF Follows, After
    <2> HIDE DEF l
    <2> QED
      BY <2>1, <2>2, <2>3
  <1> HIDE DEF f, k
  <1>3. /\ Len(v) = Len(w) + q
        /\ \A i \in 1..Len(v) :
             \/ i \in 1..Len(w) /\ v[i] = w[i]
             \/ i - Len(w) \in 1..q /\ v[i] = f[i - Len(w)]
    <2> HIDE DEF q
    <2> QED
      BY <1>1, JoinFacts
  <1>4. m = l + u
    <2> HIDE DEF q, v
    <2>1. Ratio * (Len(w) + q) = Ratio * Len(w) + Ratio * q
      BY <1>1, <1>2
    <2> QED
      BY <1>1, <1>2, <1>3, <2>1
  <1> HIDE DEF q, u, v, m
  <1>5. /\ Len(s) = c - l /\ \A i \in 1..Len(s) : s[i] = l + i
    <2> HIDE DEF l, s
    <2>1. s = Frames(l, c - l)
      BY DEF Follows, After, l, s
    <2> QED
      BY <1>2, <2>1, FramesFacts
  <1>6. /\ Len(s) = Len(h) + Len(z)
        /\ \A i \in 1..Len(h) : i \in 1..Len(s) /\ s[i] = h[i]
        /\ \A i \in 1..Len(z) : Len(h) + i \in 1..Len(s) /\ s[Len(h) + i] = z[i]
    BY JoinFacts
  <1> HIDE DEF s
  <1>7. /\ \A i \in 1..Len(h) : h[i] = l + i
        /\ \A i \in 1..Len(z) : z[i] = l + (Len(h) + i)
        /\ c - l = Len(h) + Len(z)
    BY <1>5, <1>6
  <1>8. Spaced(v, b)
    <2> SUFFICES ASSUME NEW i \in 1..Len(v) PROVE v[i] = b + Ratio * (i - 1) + 1
      BY DEF Spaced
    <2>1. CASE i \in 1..Len(w) /\ v[i] = w[i]
      BY <2>1 DEF Follows, Spaced
    <2>2. CASE i - Len(w) \in 1..q /\ v[i] = f[i - Len(w)]
      <3> DEFINE j == i - Len(w)
                 x == (j - 1) * Ratio + 1
      <3>1. x \in 1..u /\ v[i] = h[x] /\ j \in 1..q
        BY <1>1, <2>2
      <3>2. x \in 1..Len(h)
        <4> HIDE DEF x
        <4> QED
          BY <1>1, <3>1
      <3>3. v[i] = l + x
        BY <1>7, <3>1, <3>2
      <3>4. i - 1 = Len(w) + (j - 1) /\ j - 1 \in Int /\ i - 1 \in Int
        BY <1>1, <1>2, <1>3, <3>1
      <3> HIDE DEF j
      <3>5. Ratio * (i - 1) = Ratio * Len(w) + (j - 1) * Ratio
        <4>1. Ratio * (Len(w) + (j - 1)) = Ratio * Len(w) + (j - 1) * Ratio
          BY <1>2, <3>4, Distributed
        <4> QED
          BY <3>4, <4>1, Zenon
      <3>6. l + x = b + Ratio * (i - 1) + 1
        <4> DEFINE y == Ratio * Len(w)
                   d == (j - 1) * Ratio
                   e == Ratio * (i - 1)
        <4>1. y \in Int /\ d \in Int /\ e = y + d /\ l = b + y /\ x = d + 1
          BY <1>2, <3>4, <3>5
        <4> HIDE DEF y, d, e, l, x
        <4>2. l + x = b + e + 1
          BY <4>1
        <4> QED
          BY <4>2 DEF e
      <3> QED
        BY <3>3, <3>6
    <2> QED
      BY <1>3, <2>1, <2>2
  <1> HIDE DEF l
  <1>9. m \in Nat /\ m <= c /\ c - m \in Nat /\ c - m = Len(h) - u + Len(z)
    BY <1>1, <1>2, <1>4, <1>7
  <1>10. /\ t \in Seq(Nat) /\ Len(t) = Len(k) + Len(z)
         /\ \A i \in 1..Len(t) :
              \/ i \in 1..Len(k) /\ t[i] = k[i]
              \/ i - Len(k) \in 1..Len(z) /\ t[i] = z[i - Len(k)]
    BY <1>1, JoinFacts
  <1> HIDE DEF t
  <1>11. ASSUME NEW i \in 1..Len(t)
         PROVE  t[i] = m + i
    <2>1. CASE i \in 1..Len(k) /\ t[i] = k[i]
      <3>1. u + i \in 1..Len(h) /\ t[i] = h[u + i]
        <4>1. u \in 0..Len(h) /\ Len(h) \in Nat
          BY <1>1
        <4>2. i \in 1..(Len(h) - u)
          BY <1>1, <2>1
        <4>3. u + i \in 1..Len(h)
          BY <4>1, <4>2
        <4>4. k[i] = h[u + i]
          BY <1>1, <4>2, Zenon
        <4> QED
          BY <2>1, <4>3, <4>4
      <3> QED
        BY <1>1, <1>2, <1>4, <1>7, <3>1
    <2>2. CASE i - Len(k) \in 1..Len(z) /\ t[i] = z[i - Len(k)]
      <3>1. t[i] = l + (Len(h) + (i - Len(k)))
        BY <1>7, <2>2
      <3> QED
        BY <1>1, <1>2, <1>4, <3>1
    <2> QED
      BY <1>10, <2>1, <2>2
  <1>12. t = Frames(m, c - m)
    <2>1. /\ Frames(m, c - m) \in Seq(Nat) /\ Len(Frames(m, c - m)) = c - m
          /\ \A i \in 1..(c - m) : Frames(m, c - m)[i] = m + i
      BY <1>9, FramesFacts
    <2>2. Len(t) = c - m
      BY <1>1, <1>9, <1>10
    <2>3. \A i \in 1..Len(t) : t[i] = Frames(m, c - m)[i]
      BY <1>11, <2>1, <2>2
    <2> QED
      BY <1>10, <2>1, <2>2, <2>3, SeqEqual
  <1> QED
    BY <1>8, <1>9, <1>12, Zenon DEF Follows, After, t, m, v, f, k

-----------------------------------------------------------------------------
(* The frames on their way in each step.                                   *)

(* The parts of the line are sequences of frames.                          *)
LEMMA LineTypes ==
    ASSUME TypeOK
    PROVE  /\ OnTheWay \in Seq(Nat) /\ Len(OnTheWay) \in Nat /\ <<last>> \in Seq(Nat)
           /\ <<last>> \o OnTheWay \in Seq(Nat)
           /\ (<<last>> \o OnTheWay) \o rs \in Seq(Nat)
           /\ Line \in Seq(Nat)
           /\ Delivered \in Nat /\ After(OnTheWay, Delivered) \in Nat
           /\ Len(<<last>>) = 1 /\ <<last>>[1] = last
  <1>1. /\ out \in Seq(Nat) /\ fx \in Seq(Nat) /\ proc \in Seq(Nat) /\ got \in Seq(Nat)
        /\ rs \in Seq(Nat) /\ buf \in Seq(Nat) /\ last \in Nat /\ Ratio \in Nat \ {0}
    BY Typed
  <1>2. OnTheWay \in Seq(Nat)
    <2> DEFINE o == IF pc = "failed" THEN <<>> ELSE out
               g == IF Reading THEN got ELSE <<>>
    <2>1. o \in Seq(Nat) /\ g \in Seq(Nat)
      BY <1>1, EmptySeq
    <2>2. OnTheWay = ((o \o fx) \o proc) \o g
      BY DEF OnTheWay
    <2> HIDE DEF o, g
    <2>3. o \o fx \in Seq(Nat)
      BY <1>1, <2>1, JoinFacts
    <2>4. (o \o fx) \o proc \in Seq(Nat)
      BY <1>1, <2>3, JoinFacts
    <2> QED
      BY <2>1, <2>2, <2>4, JoinFacts
  <1>3. <<last>> \in Seq(Nat) /\ Len(<<last>>) = 1 /\ <<last>>[1] = last
    BY <1>1
  <1>4. <<last>> \o OnTheWay \in Seq(Nat)
    BY <1>2, <1>3, JoinFacts
  <1>5. (<<last>> \o OnTheWay) \o rs \in Seq(Nat)
    BY <1>1, <1>4, JoinFacts
  <1>6. Line \in Seq(Nat)
    BY <1>1, <1>5, JoinFacts DEF Line
  <1>7. Len(OnTheWay) \in Nat
    BY <1>2, LenProperties
  <1>8. Delivered \in Nat
    BY <1>1 DEF Delivered
  <1>9. After(OnTheWay, Delivered) \in Nat
    <2> DEFINE y == Ratio * Len(OnTheWay)
    <2>1. y \in Nat
      BY <1>1, <1>7, Multiples
    <2> HIDE DEF y
    <2>2. Delivered + y \in Nat
      BY <1>8, <2>1
    <2> QED
      BY <2>2 DEF After, y
  <1> QED
    BY <1>2, <1>3, <1>4, <1>5, <1>6, <1>7, <1>8, <1>9

(* Nothing of the line moves.                                              *)
LEMMA LineStays ==
    ASSUME FrameInv, setup' = setup, OnTheWay' = OnTheWay, UNCHANGED <<cap, buf, rs, last>>
    PROVE  Ordered' /\ Whole'
  <1>1. /\ Ratio' = Ratio /\ Restarts' = Restarts /\ Toggle' = Toggle /\ Failures' = Failures
    BY SetupKept
  <1>2. Line' = Line /\ Delivered' = Delivered
    BY <1>1 DEF Line, Delivered
  <1>4. Ordered'
    BY <1>1, <1>2 DEF FrameInv, Flow, Ordered, Rising, Sorted
  <1>5. Whole'
    BY <1>1, <1>2 DEF FrameInv, Flow, Whole, Follows, After, Spaced, Frames
  <1> QED
    BY <1>4, <1>5

(* What is in the middle of a line is in order, and of the line.           *)
LEMMA MiddleOf ==
    ASSUME NEW a \in Seq(Nat), NEW b \in Seq(Nat), NEW c \in Seq(Nat), NEW m \in Nat,
           Rising(a \o b \o c, m)
    PROVE  Rising(b, m) /\ Within(b, a \o b \o c) /\ Rising(a, m) /\ Rising(a \o b, m)
  <1>1. a \o b \in Seq(Nat)
    BY JoinFacts
  <1>2. Rising(a \o b, m) /\ Rising(b, m) /\ Rising(a, m)
    BY <1>1, RisingJoin
  <1>3. ASSUME NEW i \in 1..Len(b)
        PROVE  \E j \in 1..Len(a \o b \o c) : b[i] = (a \o b \o c)[j]
    <2>1. Len(a) + i \in 1..Len(a \o b) /\ (a \o b)[Len(a) + i] = b[i]
      BY JoinFacts
    <2>2. /\ Len(a) + i \in 1..Len((a \o b) \o c)
          /\ ((a \o b) \o c)[Len(a) + i] = (a \o b)[Len(a) + i]
      BY <1>1, <2>1, JoinFacts
    <2> QED
      BY <2>1, <2>2
  <1> QED
    BY <1>2, <1>3 DEF Within

(* One turn of read_frames moves the line by the frames that the resampler *)
(* makes, and by those that the driver gives.                              *)
LEMMA FetchFlow ==
    ASSUME FrameInv, setup' = setup, last' = last,
           NEW missing \in Nat \ {0}, Fetch(missing),
           \A f \in Seq(Nat) : ~Toggle /\ got' = got \o f => OnTheWay' = OnTheWay \o f
    PROVE  Ordered' /\ Whole'
  <1>1. TypeOK /\ Sizes
    BY DEF FrameInv, SizeInv
  <1>2. /\ cap' \in Nat /\ cap' = IF buf = <<>> THEN cap + Period ELSE cap
        /\ buf' \in Seq(Nat) /\ Filled \in Seq(Nat)
        /\ \E h \in Seq(Nat) : /\ h \o buf' = rs \o Filled
                               /\ rs' = Kept(h)
                               /\ got' = got \o Resampled(h)
    BY <1>1, FetchFacts
  <1>3. PICK h \in Seq(Nat) : /\ h \o buf' = rs \o Filled
                              /\ rs' = Kept(h)
                              /\ got' = got \o Resampled(h)
    BY <1>2
  <1>4. /\ cap \in Nat /\ buf \in Seq(Nat) /\ rs \in Seq(Nat)
        /\ Period \in Nat \ {0} /\ Ratio \in Nat \ {0} /\ last \in Nat
    BY <1>1, Typed
  <1>5. /\ OnTheWay \in Seq(Nat) /\ <<last>> \in Seq(Nat)
        /\ <<last>> \o OnTheWay \in Seq(Nat)
        /\ (<<last>> \o OnTheWay) \o rs \in Seq(Nat)
        /\ Line \in Seq(Nat) /\ Delivered \in Nat /\ After(OnTheWay, Delivered) \in Nat
    BY <1>1, LineTypes
  <1>6. /\ Ratio' = Ratio /\ Restarts' = Restarts /\ Toggle' = Toggle /\ Failures' = Failures
    BY SetupKept
  <1> DEFINE k == cap' - cap
             more == Frames(cap, k)
             a == <<last>> \o OnTheWay
             f == Resampled(h)
  <1>7. k \in Nat /\ cap' = cap + k
    BY <1>2, <1>4
  <1>8. more \in Seq(Nat) /\ Filled = buf \o more
    <2>1. more \in Seq(Nat) /\ Len(more) = k
      BY <1>4, <1>7, FramesFacts
    <2>2. CASE buf = <<>>
      <3>1. k = Period
        BY <1>2, <1>4, <2>2
      <3>2. Filled = more
        BY <2>2, <3>1 DEF Filled, Exhausted
      <3>3. <<>> \o more = more
        BY <2>1, ConcatEmptySeq
      <3> QED
        BY <2>1, <2>2, <3>2, <3>3, Zenon
    <2>3. CASE buf # <<>>
      <3>1. k = 0
        BY <1>2, <1>4, <2>3
      <3>2. more = <<>>
        BY <2>1, <3>1, EmptySeq
      <3>3. Filled = buf
        BY <2>3 DEF Filled, Exhausted
      <3>4. buf \o <<>> = buf
        BY <1>4, ConcatEmptySeq
      <3> QED
        BY <2>1, <3>2, <3>3, <3>4, Zenon
    <2> QED
      BY <2>2, <2>3
  <1>9. /\ f \in Seq(Nat) /\ Kept(h) \in Seq(Nat)
        /\ f \o Kept(h) \in Seq(Nat)
    <2>1. f \in Seq(Nat) /\ Kept(h) \in Seq(Nat)
      BY <1>4, ResampledFacts
    <2> QED
      BY <2>1, JoinFacts
  <1>10. ~Toggle => OnTheWay' = OnTheWay \o f
    BY <1>3, <1>9
  <1>a. a \in Seq(Nat) /\ a \o rs \in Seq(Nat)
    BY <1>5
  <1>b. Filled \in Seq(Nat)
    BY <1>2
  <1> HIDE DEF k, more, f, a
  <1>11. ASSUME ~Toggle
         PROVE  Rising(Line', cap')
    <2>1. Rising(Line \o more, cap')
      <3>1. Rising(Line, cap)
        BY <1>11 DEF FrameInv, Flow, Ordered
      <3> QED
        BY <1>4, <1>5, <1>7, <3>1, RisingFrames DEF more
    <2>2. Line \o more = (a \o h) \o buf'
      <3>1. Line = (a \o rs) \o buf
        BY DEF Line, a
      <3>2. ((a \o rs) \o buf) \o more = (a \o rs) \o (buf \o more)
        BY <1>4, <1>a, <1>8, Joined, ZenonT(40)
      <3>3. (a \o rs) \o Filled = a \o (rs \o Filled)
        BY <1>4, <1>a, <1>b, Joined, ZenonT(40)
      <3>4. a \o (h \o buf') = (a \o h) \o buf'
        BY <1>2, <1>3, <1>a, Joined, ZenonT(40)
      <3> QED
        BY <1>3, <1>8, <3>1, <3>2, <3>3, <3>4, Zenon
    <2>3. Rising(a \o h \o buf', cap')
      BY <2>1, <2>2, Zenon
    <2>4. Rising(h, cap')
      BY <1>2, <1>a, <2>3, MiddleOf
    <2>5. Rising(f \o Kept(h), cap') /\ Within(f \o Kept(h), h)
      BY <1>2, <1>4, <2>4, RisingResampled DEF f
    <2>6. Rising(a \o (f \o Kept(h)) \o buf', cap')
      BY <1>2, <1>a, <1>9, <2>3, <2>5, Replaced
    <2>7. a \o (f \o Kept(h)) = (a \o f) \o Kept(h)
      BY <1>a, <1>9, Joined, ZenonT(40)
    <2>8. a \o f = <<last>> \o (OnTheWay \o f)
      <3> DEFINE e == <<last>>
      <3>1. e \in Seq(Nat) /\ a = e \o OnTheWay
        BY <1>5 DEF a
      <3> HIDE DEF e
      <3>2. (e \o OnTheWay) \o f = e \o (OnTheWay \o f)
        BY <1>5, <1>9, <3>1, Joined, ZenonT(40)
      <3> QED
        BY <3>1, <3>2, Zenon DEF e
    <2>9. Line' = ((<<last'>> \o OnTheWay') \o rs') \o buf'
      BY DEF Line
    <2>10. Line' = ((<<last>> \o (OnTheWay \o f)) \o Kept(h)) \o buf'
      BY <1>3, <1>10, <1>11, <2>9, Zenon
    <2> QED
      BY <2>6, <2>7, <2>8, <2>10, Zenon
  <1>12. ASSUME ~Failures, ~Toggle, Restarts => Ratio = 1
         PROVE  Follows(OnTheWay', rs' \o buf', Delivered, cap')
    <2> DEFINE m == After(OnTheWay, Delivered)
    <2>1. Spaced(OnTheWay, Delivered) /\ m <= cap /\ rs \o buf = Frames(m, cap - m)
      BY <1>12 DEF FrameInv, Flow, Whole, Follows
    <2>2. m \in Nat
      BY <1>5
    <2> HIDE DEF m
    <2>3. cap - m \in Nat /\ m + (cap - m) = cap /\ (cap - m) + k = cap' - m /\ m <= cap'
      BY <1>4, <1>7, <2>1, <2>2
    <2>4. rs \o Filled = Frames(m, cap' - m)
      <3>1. (rs \o buf) \o more = rs \o (buf \o more)
        BY <1>4, <1>8, Joined, ZenonT(40)
      <3>2. Frames(m, cap - m) \o Frames(m + (cap - m), k) = Frames(m, (cap - m) + k)
        BY <1>7, <2>2, <2>3, FramesJoined
      <3> QED
        BY <1>8, <2>1, <2>3, <3>1, <3>2, Zenon DEF more
    <2>5. Follows(OnTheWay, h \o buf', Delivered, cap')
      BY <1>3, <2>1, <2>3, <2>4, Zenon DEF Follows, m
    <2>6. Follows(OnTheWay \o f, Kept(h) \o buf', Delivered, cap')
      BY <1>2, <1>4, <1>5, <2>5, SpacedResampled DEF f
    <2> QED
      BY <1>3, <1>10, <1>12, <2>6, Zenon
  <1>13. Ordered'
    BY <1>6, <1>11 DEF Ordered
  <1>14. Whole'
    <2>1. Delivered' = Delivered
      BY <1>6 DEF Delivered
    <2>2. Follows(OnTheWay, rs \o buf, Delivered, cap)' <=>
            Follows(OnTheWay', rs' \o buf', Delivered, cap')
      BY <1>6, <2>1 DEF Follows, After, Spaced, Frames
    <2> QED
      BY <1>6, <1>12, <2>2 DEF Whole
  <1> QED
    BY <1>13, <1>14

(* The line goes on where the resampler and the driver's buffer are empty. *)
LEMMA LineEnds ==
    ASSUME TypeOK, Rising(Line, cap)
    PROVE  /\ Rising(<<last>> \o OnTheWay \o <<>> \o <<>>, cap)
           /\ Rising(<<last>>, cap)
  <1> DEFINE a == <<last>> \o OnTheWay
  <1>1. /\ OnTheWay \in Seq(Nat) /\ <<last>> \in Seq(Nat) /\ a \in Seq(Nat)
        /\ rs \in Seq(Nat) /\ buf \in Seq(Nat) /\ cap \in Nat
    BY LineTypes, Typed
  <1> HIDE DEF a
  <1>2. Rising(a, cap)
    <2>1. Rising(a \o rs \o buf, cap)
      BY DEF Line, a
    <2> QED
      BY <1>1, <2>1, MiddleOf
  <1>3. Rising(<<last>>, cap)
    BY <1>1, <1>2, RisingJoin DEF a
  <1>4. (a \o <<>>) \o <<>> = a
    BY <1>1, ConcatEmptySeq
  <1> QED
    BY <1>2, <1>3, <1>4, Zenon DEF a

LEMMA BeginFlow ==
    ASSUME FrameInv, setup' = setup, NEW n \in Requests, Begin(n)
    PROVE  Flow'
  <1>1. /\ TypeOK /\ Sizes /\ Places /\ Idle /\ Fresh
    BY DEF FrameInv, Flow, SizeInv
  <1>2. /\ fx \in Seq(Nat) /\ proc \in Seq(Nat) /\ got \in Seq(Nat) /\ <<>> \in Seq(Nat)
        /\ standby \in BOOLEAN
    BY <1>1, Typed, EmptySeq
  <1>3. /\ pc = "idle" /\ out = <<>> /\ out' = <<>> /\ got' = <<>>
        /\ pc' \in {"reload", "read", "direct"}
        /\ UNCHANGED <<cap, proc, fx, effects, last>>
    BY <1>1 DEF Begin, Places
  <1>4. OnTheWay' = OnTheWay
    <2>1. OnTheWay = ((<<>> \o fx) \o proc) \o <<>>
      BY <1>3 DEF OnTheWay, Reading
    <2>2. OnTheWay' = ((<<>> \o fx) \o proc) \o <<>>
      BY <1>3 DEF OnTheWay, Reading
    <2> QED
      BY <2>1, <2>2
  <1>5. /\ Ratio' = Ratio /\ Restarts' = Restarts /\ Toggle' = Toggle /\ Failures' = Failures
    BY SetupKept
  <1>6. /\ \/ buf' = <<>> /\ rs' = <<>> /\ Ratio > 1 /\ standby
           \/ buf' = buf /\ rs' = rs
        /\ standby' = FALSE
    <2>1. CASE standby
      BY <2>1 DEF Begin, StartInput
    <2>2. CASE ~standby
      BY <1>2, <2>2 DEF Begin
    <2> QED
      BY <2>1, <2>2
  <1>7. Idle' /\ Fresh' /\ Measured'
    <2>1. Idle'
      BY <1>1, <1>3, <1>5, <1>6 DEF Idle
    <2>2. Fresh' /\ Measured'
      BY <1>3, <1>6 DEF Fresh, Measured
    <2> QED
      BY <2>1, <2>2
  <1>8. CASE buf' = buf /\ rs' = rs
    BY <1>3, <1>4, <1>7, <1>8, LineStays DEF Flow
  <1>9. CASE buf' = <<>> /\ rs' = <<>> /\ Ratio > 1 /\ standby
    <2>1. Ordered'
      <3>1. CASE ~Toggle
        <4>1. Rising(Line, cap)
          BY <3>1 DEF FrameInv, Flow, Ordered
        <4>2. Rising(<<last>> \o OnTheWay \o <<>> \o <<>>, cap)
          BY <1>1, <4>1, LineEnds
        <4>3. Line' = <<last>> \o OnTheWay \o <<>> \o <<>>
          BY <1>3, <1>4, <1>9 DEF Line
        <4>4. Rising(Line', cap)
          BY <4>2, <4>3, Zenon
        <4> QED
          BY <1>3, <4>4 DEF Ordered, Rising, Sorted
      <3>2. CASE Toggle
        BY <1>5, <3>2 DEF Ordered
      <3> QED
        BY <3>1, <3>2
    <2>2. Whole'
      <3>1. CASE Restarts
        <4>1. ~(Restarts' => Ratio' = 1)
          BY <1>1, <1>5, <1>9, <3>1, Typed
        <4> QED
          BY <4>1 DEF Whole
      <3>2. CASE ~Restarts
        <4>1. buf' = buf /\ rs' = rs
          BY <1>1, <1>9, <3>2 DEF Fresh
        <4> QED
          BY <1>3, <1>4, <4>1, LineStays
      <3> QED
        BY <3>1, <3>2
    <2> QED
      BY <1>7, <2>1, <2>2 DEF Flow
  <1> QED
    BY <1>6, <1>8, <1>9

LEMMA StartFailsFlow ==
    ASSUME FrameInv, setup' = setup, NEW n \in Requests, StartFails(n)
    PROVE  Flow'
  <1>1. /\ TypeOK /\ Places /\ Idle /\ Fresh
    BY DEF FrameInv, Flow, SizeInv
  <1>2. /\ fx \in Seq(Nat) /\ proc \in Seq(Nat) /\ got \in Seq(Nat) /\ <<>> \in Seq(Nat)
    BY <1>1, Typed, EmptySeq
  <1>3. /\ pc = "idle" /\ out = <<>> /\ pc' = "failed"
        /\ UNCHANGED <<cap, buf, rs, proc, fx, out, got, effects, standby, last>>
    BY <1>1 DEF StartFails, Places, driver
  <1>4. OnTheWay' = OnTheWay
    <2>1. OnTheWay = ((<<>> \o fx) \o proc) \o <<>>
      BY <1>3 DEF OnTheWay, Reading
    <2>2. OnTheWay' = ((<<>> \o fx) \o proc) \o <<>>
      BY <1>3 DEF OnTheWay, Reading
    <2> QED
      BY <2>1, <2>2
  <1>5. Idle' /\ Fresh' /\ Measured'
    BY <1>1, <1>3, SetupKept DEF Idle, Fresh, Measured
  <1> QED
    BY <1>3, <1>4, <1>5, LineStays DEF Flow

LEMMA DirectReadFlow ==
    ASSUME FrameInv, setup' = setup, DirectRead
    PROVE  Flow'
  <1>1. /\ TypeOK /\ Sizes /\ Places /\ Idle /\ Fresh
    BY DEF FrameInv, Flow, SizeInv
  <1>2. /\ fx \in Seq(Nat) /\ proc \in Seq(Nat) /\ <<>> \in Seq(Nat) /\ got \in Seq(Nat)
        /\ rs \in Seq(Nat) /\ rq \in Nat /\ cap \in Nat
        /\ Len(rs) \in Nat /\ <<last>> \in Seq(Nat) /\ Delivered \in Nat
    BY <1>1, Typed, EmptySeq, LineTypes
  <1>3. /\ pc = "direct" /\ pc' = "done" /\ out = <<>> /\ out' = Frames(cap, rq)
        /\ cap' = cap + rq /\ ~effects /\ Ratio = 1
        /\ UNCHANGED <<buf, rs, got, proc, fx, effects, echo, standby, last>>
    BY <1>1 DEF DirectRead, Places, setting
  <1>4. /\ Ratio' = Ratio /\ Restarts' = Restarts /\ Toggle' = Toggle /\ Failures' = Failures
    BY SetupKept
  <1>5. Idle' /\ Fresh' /\ Measured'
    BY <1>1, <1>3, <1>4 DEF Idle, Fresh, Measured
  <1> DEFINE f == Frames(cap, rq)
  <1>6. f \in Seq(Nat) /\ Len(f) = rq /\ \A i \in 1..rq : f[i] = cap + i
    BY <1>2, FramesFacts
  <1> HIDE DEF f
  <1>7. ASSUME ~Toggle
        PROVE  /\ fx = <<>> /\ proc = <<>> /\ buf = <<>> /\ rs = <<>>
               /\ OnTheWay = <<>> /\ OnTheWay' = f
    <2>1. fx = <<>> /\ proc = <<>> /\ buf = <<>>
      BY <1>1, <1>3, <1>7 DEF Idle
    <2>2. rs = <<>>
      <3>1. Len(rs) = 0
        BY <1>1, <1>2, <1>3 DEF Sizes
      <3> QED
        BY <1>2, <3>1, EmptySeq
    <2>3. OnTheWay = ((<<>> \o <<>>) \o <<>>) \o <<>>
      BY <1>3, <2>1 DEF OnTheWay, Reading
    <2>4. OnTheWay' = ((f \o <<>>) \o <<>>) \o <<>>
      BY <1>3, <2>1 DEF OnTheWay, Reading, f
    <2>5. <<>> \o <<>> = <<>> /\ f \o <<>> = f
      BY <1>2, <1>6, ConcatEmptySeq
    <2> QED
      BY <2>1, <2>2, <2>3, <2>4, <2>5, Zenon
  <1>8. Ordered'
    <2>1. CASE ~Toggle
      <3>1. Rising(<<last>>, cap)
        BY <1>1, <2>1, LineEnds DEF FrameInv, Flow, Ordered
      <3>2. Rising(<<last>> \o f, cap + rq)
        BY <1>2, <3>1, RisingFrames DEF f
      <3>3. Line' = ((<<last>> \o f) \o <<>>) \o <<>>
        BY <1>3, <1>7, <2>1 DEF Line
      <3>4. ((<<last>> \o f) \o <<>>) \o <<>> = <<last>> \o f
        BY <1>2, <1>6, JoinFacts, ConcatEmptySeq
      <3>5. Rising(Line', cap')
        BY <1>3, <3>2, <3>3, <3>4, Zenon
      <3> QED
        BY <3>5 DEF Ordered, Rising, Sorted
    <2>2. CASE Toggle
      BY <1>4, <2>2 DEF Ordered
    <2> QED
      BY <2>1, <2>2
  <1>9. Whole'
    <2>1. ASSUME ~Failures, ~Toggle, Restarts => Ratio = 1
          PROVE  Follows(OnTheWay', rs' \o buf', Delivered, cap')
      <3>1. Follows(<<>>, rs \o buf, Delivered, cap)
        BY <1>7, <2>1 DEF FrameInv, Flow, Whole
      <3>2. rs \o buf = <<>>
        BY <1>2, <1>7, <2>1, ConcatEmptySeq
      <3>3. After(<<>>, Delivered) = Delivered
        BY <1>2, <1>3 DEF After
      <3>4. Delivered <= cap /\ <<>> = Frames(Delivered, cap - Delivered)
        BY <3>1, <3>2, <3>3 DEF Follows
      <3>5. cap = Delivered
        <4>1. cap - Delivered \in Nat
          BY <1>2, <3>4
        <4>2. Len(<<>>) = cap - Delivered
          BY <1>2, <3>4, <4>1, FramesFacts
        <4> QED
          BY <1>2, <4>2, EmptySeq
      <3>6. Spaced(f, Delivered)
        BY <1>2, <1>3, <1>6, <3>5 DEF Spaced
      <3>7. After(f, Delivered) = cap'
        BY <1>2, <1>3, <1>6, <3>5 DEF After
      <3>8. cap' \in Nat /\ cap' - cap' = 0 /\ cap' <= cap'
        BY <1>2, <1>3
      <3>9. Frames(cap', 0) = <<>>
        BY <3>8, FramesFacts, EmptySeq
      <3>10. rs' \o buf' = <<>>
        BY <1>3, <3>2
      <3> QED
        BY <1>7, <2>1, <3>6, <3>7, <3>8, <3>9, <3>10 DEF Follows
    <2>2. Delivered' = Delivered
      BY <1>3, <1>4 DEF Delivered
    <2>3. Follows(OnTheWay, rs \o buf, Delivered, cap)' <=>
            Follows(OnTheWay', rs' \o buf', Delivered, cap')
      BY <1>4, <2>2 DEF Follows, After, Spaced, Frames
    <2> QED
      BY <1>4, <2>1, <2>3 DEF Whole
  <1> QED
    BY <1>5, <1>8, <1>9 DEF Flow

LEMMA ReadMoreFlow ==
    ASSUME FrameInv, setup' = setup, ReadMore
    PROVE  Flow'
  <1>1. /\ TypeOK /\ Places /\ Idle /\ Fresh
    BY DEF FrameInv, Flow, SizeInv
  <1>2. /\ fx \in Seq(Nat) /\ proc \in Seq(Nat) /\ got \in Seq(Nat)
        /\ rq \in Nat /\ Len(got) \in Nat /\ Len(got) < rq
        /\ standby \in BOOLEAN
    BY <1>1, Typed DEF ReadMore, Places
  <1>3. /\ pc = "read" /\ out = <<>> /\ ~effects /\ Fetch(rq - Len(got))
        /\ \/ pc' = "done" /\ out' = got'
           \/ pc' = "read" /\ out' = <<>>
        /\ UNCHANGED <<proc, fx, effects, echo, standby, last>>
    BY <1>1 DEF ReadMore, Places, setting
  <1>4. rq - Len(got) \in Nat \ {0}
    BY <1>2
  <1>5. ASSUME NEW f \in Seq(Nat), ~Toggle, got' = got \o f
        PROVE  OnTheWay' = OnTheWay \o f
    <2>1. fx = <<>> /\ proc = <<>>
      BY <1>1, <1>3, <1>5 DEF Idle
    <2>2. got' \in Seq(Nat)
      BY <1>2, <1>5, JoinFacts
    <2>3. OnTheWay = ((<<>> \o <<>>) \o <<>>) \o got
      BY <1>3, <2>1 DEF OnTheWay, Reading
    <2>4. /\ <<>> \o <<>> = <<>> /\ <<>> \o got = got
          /\ <<>> \o got' = got' /\ got' \o <<>> = got'
      BY <1>2, <2>2, EmptySeq, ConcatEmptySeq
    <2>5. OnTheWay' = got'
      <3>1. CASE pc' = "done" /\ out' = got'
        <4>1. OnTheWay' = ((got' \o <<>>) \o <<>>) \o <<>>
          BY <1>3, <2>1, <3>1 DEF OnTheWay, Reading
        <4> QED
          BY <2>4, <4>1, Zenon
      <3>2. CASE pc' = "read" /\ out' = <<>>
        <4>1. OnTheWay' = ((<<>> \o <<>>) \o <<>>) \o got'
          BY <1>3, <2>1, <3>2 DEF OnTheWay, Reading
        <4> QED
          BY <2>4, <4>1, Zenon
      <3> QED
        BY <1>3, <3>1, <3>2
    <2> QED
      BY <1>5, <2>3, <2>4, <2>5, Zenon
  <1>6. Ordered' /\ Whole'
    BY <1>3, <1>4, <1>5, FetchFlow
  <1>7. Idle'
    <2>1. Ratio # 1
      BY <1>1, <1>3, Typed DEF Places
    <2> QED
      BY <1>1, <1>3, <2>1, SetupKept DEF Idle
  <1>8. Fresh' /\ Measured'
    BY <1>1, <1>3 DEF Places, Fresh, Measured
  <1> QED
    BY <1>6, <1>7, <1>8 DEF Flow

LEMMA FetchMoreFlow ==
    ASSUME FrameInv, setup' = setup, FetchMore
    PROVE  Flow'
  <1>1. /\ TypeOK /\ Places /\ Fresh
    BY DEF FrameInv, Flow, SizeInv
  <1>2. /\ fx \in Seq(Nat) /\ proc \in Seq(Nat) /\ got \in Seq(Nat) /\ out \in Seq(Nat)
        /\ rq \in Nat /\ Len(got) \in Nat /\ Len(proc) \in Nat /\ Len(proc) + Len(got) < rq
    BY <1>1, Typed DEF FetchMore, Places
  <1>3. /\ pc = "fetch" /\ effects /\ ~standby /\ Fetch(rq - Len(proc) - Len(got))
        /\ \/ pc' = "push" /\ proc' = proc \o got'
           \/ pc' = "fetch" /\ proc' = proc
        /\ UNCHANGED <<out, fx, effects, echo, standby, last>>
    BY <1>1 DEF FetchMore, Places, Filling, setting
  <1>4. rq - Len(proc) - Len(got) \in Nat \ {0}
    BY <1>2
  <1>5. ASSUME NEW f \in Seq(Nat), ~Toggle, got' = got \o f
        PROVE  OnTheWay' = OnTheWay \o f
    <2> DEFINE a == out \o fx
               b == (out \o fx) \o proc
    <2>1. a \in Seq(Nat) /\ b \in Seq(Nat) /\ got' \in Seq(Nat) /\ proc \o got' \in Seq(Nat)
      BY <1>2, <1>5, JoinFacts
    <2>2. OnTheWay = b \o got
      BY <1>3 DEF OnTheWay, Reading
    <2>3. OnTheWay' = b \o got'
      <3>1. CASE pc' = "push" /\ proc' = proc \o got'
        <4>1. OnTheWay' = (a \o (proc \o got')) \o <<>>
          BY <1>3, <3>1 DEF OnTheWay, Reading
        <4>2. a \o (proc \o got') \in Seq(Nat)
          BY <2>1, JoinFacts
        <4>3. (a \o (proc \o got')) \o <<>> = a \o (proc \o got')
          BY <4>2, ConcatEmptySeq
        <4> HIDE DEF a
        <4>4. a \in Seq(Nat) /\ proc \in Seq(Nat) /\ got' \in Seq(Nat)
          BY <1>2, <2>1
        <4>5. (a \o proc) \o got' = a \o (proc \o got')
          BY <4>4, Joined, ZenonT(40)
        <4> QED
          BY <4>1, <4>3, <4>5, Zenon DEF a
      <3>2. CASE pc' = "fetch" /\ proc' = proc
        BY <1>3, <3>2 DEF OnTheWay, Reading
      <3> QED
        BY <1>3, <3>1, <3>2
    <2> HIDE DEF b
    <2>4. b \in Seq(Nat) /\ got \in Seq(Nat)
      BY <1>2, <2>1
    <2>5. (b \o got) \o f = b \o (got \o f)
      BY <2>4, Joined, ZenonT(40)
    <2> QED
      BY <1>5, <2>2, <2>3, <2>5, Zenon
  <1>6. Ordered' /\ Whole'
    BY <1>3, <1>4, <1>5, FetchFlow
  <1>7. Idle' /\ Fresh' /\ Measured'
    BY <1>3 DEF Idle, Fresh, Measured
  <1> QED
    BY <1>6, <1>7 DEF Flow

LEMMA ReloadFlow ==
    ASSUME FrameInv, setup' = setup, Reload
    PROVE  Flow'
  <1>1. /\ pc = "reload" /\ pc' \in {"fetch", "push"} /\ got' = <<>>
        /\ UNCHANGED <<cap, buf, rs, proc, fx, out, effects, standby, last>>
    BY DEF Reload, driver, setting
  <1>2. OnTheWay' = OnTheWay
    BY <1>1 DEF OnTheWay, Reading
  <1>3. Idle' /\ Fresh' /\ Measured'
    BY <1>1, SetupKept DEF FrameInv, Flow, Idle, Fresh, Measured
  <1> QED
    BY <1>1, <1>2, <1>3, LineStays DEF Flow

LEMMA ReadFailsFlow ==
    ASSUME FrameInv, setup' = setup, ReadFails
    PROVE  Flow'
  <1>1. TypeOK
    BY DEF FrameInv, SizeInv
  <1>2. /\ pc \in {"read", "fetch", "direct"} /\ pc' = "failed" /\ Failures
        /\ UNCHANGED <<cap, buf, rs, proc, got, fx, out, effects, standby, last>>
    BY DEF ReadFails, driver, setting
  <1>3. /\ Toggle' = Toggle /\ Failures' = Failures
    BY SetupKept
  <1>4. Idle' /\ Fresh' /\ Measured' /\ Whole'
    BY <1>2, <1>3, SetupKept DEF FrameInv, Flow, Idle, Fresh, Measured, Whole
  <1> DEFINE t == fx \o proc
             g == IF Reading THEN got ELSE <<>>
  <1>5. /\ out \in Seq(Nat) /\ fx \in Seq(Nat) /\ proc \in Seq(Nat) /\ g \in Seq(Nat)
        /\ t \in Seq(Nat) /\ cap \in Nat /\ rs \in Seq(Nat) /\ buf \in Seq(Nat)
    BY <1>1, Typed, EmptySeq, JoinFacts
  <1>6. OnTheWay = (out \o t) \o g /\ OnTheWay' = t
    <2>1. OnTheWay = ((out \o fx) \o proc) \o g
      BY <1>2 DEF OnTheWay
    <2>2. (out \o fx) \o proc = out \o t
      <3>1. out \in Seq(Nat) /\ fx \in Seq(Nat) /\ proc \in Seq(Nat)
        BY <1>5
      <3>2. (out \o fx) \o proc = out \o (fx \o proc)
        BY <3>1, Joined, Zenon
      <3> QED
        BY <3>2
    <2>3. OnTheWay' = ((<<>> \o fx) \o proc) \o <<>>
      BY <1>2 DEF OnTheWay, Reading
    <2>4. <<>> \o fx = fx /\ t \o <<>> = t
      BY <1>5, ConcatEmptySeq
    <2> QED
      BY <2>1, <2>2, <2>3, <2>4, Zenon
  <1> DEFINE e == <<last>>
             w == OnTheWay
             z == rs \o buf
  <1>7. e \in Seq(Nat) /\ w \in Seq(Nat) /\ z \in Seq(Nat) /\ w = (out \o t) \o g
    BY <1>1, <1>5, <1>6, LineTypes, JoinFacts
  <1>8. /\ Line = ((e \o w) \o rs) \o buf
        /\ Line' = ((e \o t) \o rs) \o buf
    BY <1>2, <1>6 DEF Line
  <1> HIDE DEF e, w, z, t, g
  <1>9. ASSUME ~Toggle PROVE Rising(Line', cap)
    <2>1. e \o w \in Seq(Nat) /\ e \o t \in Seq(Nat) /\ out \o t \in Seq(Nat)
      BY <1>5, <1>7, JoinFacts
    <2>a. rs \in Seq(Nat) /\ buf \in Seq(Nat) /\ t \in Seq(Nat) /\ cap \in Nat
      BY <1>5
    <2>b. e \in Seq(Nat) /\ w \in Seq(Nat) /\ z \in Seq(Nat) /\ z = rs \o buf
      BY <1>7 DEF z
    <2>2. ((e \o w) \o rs) \o buf = (e \o w) \o z
      <3>1. ((e \o w) \o rs) \o buf = (e \o w) \o (rs \o buf)
        BY <2>1, <2>a, Joined, ZenonT(40)
      <3> QED
        BY <2>b, <3>1, Zenon
    <2>3. ((e \o t) \o rs) \o buf = (e \o t) \o z
      <3>1. ((e \o t) \o rs) \o buf = (e \o t) \o (rs \o buf)
        BY <2>1, <2>a, Joined, ZenonT(40)
      <3> QED
        BY <2>b, <3>1, Zenon
    <2>4. Rising((e \o w) \o z, cap)
      BY <1>8, <1>9, <2>2, Zenon DEF FrameInv, Flow, Ordered
    <2>5. Rising(w, cap)
      BY <2>a, <2>b, <2>4, MiddleOf, ZenonT(40)
    <2>6. Rising(t, cap) /\ Within(t, w)
      BY <1>5, <1>7, <2>5, MiddleOf
    <2>7. Rising((e \o t) \o z, cap)
      BY <1>5, <1>7, <2>4, <2>6, Replaced
    <2> QED
      BY <1>8, <2>3, <2>7, Zenon
  <1>10. Ordered'
    BY <1>2, <1>3, <1>9 DEF Ordered, Rising, Sorted
  <1> QED
    BY <1>4, <1>10 DEF Flow

LEMMA PushFlow ==
    ASSUME FrameInv, setup' = setup, NEW n \in 0..Len(proc), NEW r \in 0..Len(proc), Push(n, r)
    PROVE  Flow'
  <1>1. /\ TypeOK /\ Len(proc) \in Nat /\ ref \in Nat
    BY Typed DEF FrameInv, SizeInv
  <1>2. /\ pc = "push" /\ pc' = "process"
        /\ UNCHANGED <<cap, buf, rs, got, proc, fx, out, effects, echo, standby, last>>
    BY DEF Push, driver, setting
  <1>3. OnTheWay' = OnTheWay
    BY <1>2 DEF OnTheWay, Reading
  <1>4. Measured'
    <2>1. CASE Missing > 0
      <3>1. get_capture_delay
        BY <2>1 DEF Push, UpdateEchoReference
      <3>2. asked'.measured =>
              asked'.delay = asked'.kernel + Len(buf) + Len(proc) + Len(rs)
        BY <1>1, <3>1, DelayMeasured
      <3>3. Len(proc) > 0
        BY <1>1, <2>1 DEF Missing
      <3> QED
        BY <1>2, <3>2, <3>3 DEF Measured
    <2>2. CASE ~(Missing > 0)
      <3>1. asked' = NotMeasured
        BY <2>2 DEF Push, UpdateEchoReference
      <3> QED
        BY <3>1 DEF Measured, NotMeasured
    <2> QED
      BY <2>1, <2>2
  <1>5. Idle' /\ Fresh'
    BY <1>2, SetupKept DEF FrameInv, Flow, Idle, Fresh
  <1> QED
    BY <1>2, <1>3, <1>4, <1>5, LineStays DEF Flow

LEMMA NoReferenceFlow ==
    ASSUME FrameInv, setup' = setup, NoReference
    PROVE  Flow'
  <1>1. /\ pc = "push" /\ pc' = "process" /\ ~echo
        /\ UNCHANGED <<cap, buf, rs, got, proc, fx, out, effects, echo, standby, last>>
    BY DEF NoReference, driver, setting
  <1>2. OnTheWay' = OnTheWay
    BY <1>1 DEF OnTheWay, Reading
  <1>3. Idle' /\ Fresh' /\ Measured'
    BY <1>1, SetupKept DEF FrameInv, Flow, Idle, Fresh, Measured
  <1> QED
    BY <1>1, <1>2, <1>3, LineStays DEF Flow

LEMMA ProcessFlow ==
    ASSUME FrameInv, setup' = setup, NEW c \in 0..cnt, NEW p \in 0..rq, Process(c, p)
    PROVE  Flow'
  <1>1. SizeInv /\ effects
    BY DEF FrameInv, SizeInv, Places, Filling, Process
  <1>2. /\ pc = "process" /\ pc' \in {"reload", "done"}
        /\ UNCHANGED <<cap, buf, rs, got, effects, echo, standby, last>>
    BY DEF Process, driver, setting
  <1>3. OnTheWay' = OnTheWay
    <2>1. out' \o fx' \o proc' = out \o fx \o proc
      BY <1>1, ProcessFacts
    <2>2. OnTheWay = (out \o fx \o proc) \o <<>>
      BY <1>2 DEF OnTheWay, Reading
    <2>3. OnTheWay' = (out' \o fx' \o proc') \o <<>>
      BY <1>2 DEF OnTheWay, Reading
    <2> QED
      BY <2>1, <2>2, <2>3, Zenon
  <1>4. Idle' /\ Fresh' /\ Measured'
    BY <1>1, <1>2, SetupKept DEF FrameInv, Flow, Idle, Fresh, Measured
  <1> QED
    BY <1>2, <1>3, <1>4, LineStays DEF Flow

LEMMA FailFlow ==
    ASSUME FrameInv, setup' = setup, Fail
    PROVE  Flow'
  <1>1. /\ pc = "failed" /\ pc' = "idle" /\ out' = <<>>
        /\ UNCHANGED <<cap, buf, rs, proc, fx, effects, echo, standby, last>>
    BY DEF Fail, driver, setting
  <1>2. OnTheWay' = OnTheWay
    BY <1>1 DEF OnTheWay, Reading
  <1>3. Idle' /\ Fresh' /\ Measured'
    BY <1>1, SetupKept DEF FrameInv, Flow, Idle, Fresh, Measured
  <1> QED
    BY <1>1, <1>2, <1>3, LineStays DEF Flow

LEMMA StandbyFlow ==
    ASSUME FrameInv, setup' = setup, Standby
    PROVE  Flow'
  <1>1. /\ pc = "idle" /\ Restarts
        /\ UNCHANGED <<pc, cap, buf, rs, got, proc, fx, out, effects, last>>
    BY DEF Standby, position, driver
  <1>2. OnTheWay' = OnTheWay
    BY <1>1 DEF OnTheWay, Reading
  <1>3. Idle' /\ Fresh' /\ Measured'
    BY <1>1, SetupKept DEF FrameInv, Flow, Idle, Fresh, Measured
  <1> QED
    BY <1>1, <1>2, <1>3, LineStays DEF Flow

LEMMA SetEffectsFlow ==
    ASSUME FrameInv, setup' = setup, SetEffects
    PROVE  Flow'
  <1>1. /\ Toggle /\ Toggle' /\ pc' = "idle"
        /\ UNCHANGED <<buf, rs, standby>>
    BY SetupKept DEF SetEffects, position, driver
  <1>2. Fresh'
    BY <1>1, SetupKept DEF FrameInv, Flow, Fresh
  <1> QED
    BY <1>1, <1>2 DEF Flow, Idle, Measured, Ordered, Whole

(* in_read returns the frames at the head of the line.                     *)
LEMMA ReturnFlow ==
    ASSUME FrameInv, setup' = setup, Return
    PROVE  Flow'
  <1>1. /\ TypeOK /\ Places
    BY DEF FrameInv, SizeInv
  <1>2. /\ pc = "done" /\ pc' = "idle" /\ last' = out[Len(out)] /\ out' = <<>>
        /\ Len(out) = rq /\ rq > 0
        /\ UNCHANGED <<rq, cap, buf, rs, proc, fx, effects, echo, standby>>
    BY <1>1 DEF Return, Places, driver, setting
  <1>3. /\ Ratio' = Ratio /\ Restarts' = Restarts /\ Toggle' = Toggle /\ Failures' = Failures
    BY SetupKept
  <1>4. Idle' /\ Fresh' /\ Measured'
    BY <1>2, <1>3 DEF FrameInv, Flow, Idle, Fresh, Measured
  <1> DEFINE x == fx \o proc
             w == OnTheWay
             e == <<last>>
             d == <<last'>>
             z == rs \o buf
             y == x \o z
  <1>5. /\ out \in Seq(Nat) /\ fx \in Seq(Nat) /\ proc \in Seq(Nat)
        /\ rs \in Seq(Nat) /\ buf \in Seq(Nat)
    BY <1>1, Typed
  <1>6. rq \in Nat \ {0} /\ cap \in Nat /\ last \in Nat /\ Ratio \in Nat \ {0}
    BY <1>1, <1>2, Typed
  <1>7. x \in Seq(Nat) /\ z \in Seq(Nat)
    BY <1>5, JoinFacts
  <1>8. y \in Seq(Nat)
    BY <1>7, JoinFacts
  <1>9. w = out \o x /\ OnTheWay' = x
    <2>1. OnTheWay = ((out \o fx) \o proc) \o <<>>
      BY <1>2 DEF OnTheWay, Reading
    <2>2. OnTheWay' = ((<<>> \o fx) \o proc) \o <<>>
      BY <1>2 DEF OnTheWay, Reading
    <2>3. (out \o fx) \o proc = out \o x
      <3>1. out \in Seq(Nat) /\ fx \in Seq(Nat) /\ proc \in Seq(Nat)
        BY <1>5
      <3>2. (out \o fx) \o proc = out \o (fx \o proc)
        BY <3>1, Joined, Zenon
      <3> QED
        BY <3>2
    <2>4. out \o x \in Seq(Nat)
      BY <1>5, <1>7, JoinFacts
    <2>5. (out \o x) \o <<>> = out \o x /\ <<>> \o fx = fx /\ x \o <<>> = x
      BY <1>5, <1>7, <2>4, ConcatEmptySeq
    <2> QED
      BY <2>1, <2>2, <2>3, <2>5, Zenon
  <1>10. last' \in Nat /\ Len(out) \in 1..Len(out)
    <2>1. Len(out) \in 1..Len(out)
      BY <1>2, <1>6
    <2> QED
      BY <1>2, <1>5, <2>1, ElementOfSeq
  <1>11. e \in Seq(Nat) /\ d \in Seq(Nat) /\ Len(d) = 1 /\ d[1] = last' /\ w \in Seq(Nat)
    BY <1>1, <1>10, LineTypes
  <1>12. Line = ((e \o w) \o rs) \o buf /\ Line' = ((d \o x) \o rs) \o buf
    BY <1>2, <1>9 DEF Line
  <1> HIDE DEF x, w, e, d, z, y
  <1>13. ASSUME ~Toggle PROVE Rising(Line', cap)
    <2>1. Line = e \o (out \o y)
      <3>1. e \o w \in Seq(Nat)
        BY <1>11, JoinFacts
      <3>2. ((e \o w) \o rs) \o buf = (e \o w) \o (rs \o buf)
        BY <1>5, <3>1, Joined, ZenonT(40)
      <3>3. (e \o w) \o z = e \o (w \o z)
        BY <1>7, <1>11, Joined, ZenonT(40)
      <3>4. (out \o x) \o z = out \o (x \o z)
        BY <1>5, <1>7, Joined, ZenonT(40)
      <3> QED
        BY <1>9, <1>12, <3>2, <3>3, <3>4, Zenon DEF z, y
    <2>2. Line' = d \o y
      <3>1. d \o x \in Seq(Nat)
        BY <1>7, <1>11, JoinFacts
      <3>2. ((d \o x) \o rs) \o buf = (d \o x) \o (rs \o buf)
        BY <1>5, <3>1, Joined, ZenonT(40)
      <3>3. (d \o x) \o z = d \o (x \o z)
        BY <1>7, <1>11, Joined, ZenonT(40)
      <3> QED
        BY <1>12, <3>2, <3>3, Zenon DEF z, y
    <2>3. Rising(Line, cap)
      BY <1>13 DEF FrameInv, Flow, Ordered
    <2>4. out \o y \in Seq(Nat)
      BY <1>5, <1>8, JoinFacts
    <2>5. Rising(out \o y, cap)
      BY <1>6, <1>11, <2>1, <2>3, <2>4, RisingJoin
    <2>6. Rising(out, cap) /\ Rising(y, cap) /\ Before(out, y)
      BY <1>5, <1>6, <1>8, <2>5, RisingJoin
    <2>7. Rising(d, cap) /\ Before(d, y)
      BY <1>2, <1>10, <1>11, <2>6 DEF Rising, Sorted, Before
    <2> QED
      BY <1>6, <1>8, <1>11, <2>2, <2>6, <2>7, RisingJoin
  <1>14. Ordered'
    BY <1>2, <1>3, <1>13 DEF Ordered, Rising, Sorted
  <1>15. ASSUME ~Failures, ~Toggle, Restarts => Ratio = 1
         PROVE  Follows(x, z, Delivered', cap)
    <2> DEFINE b == Delivered
    <2>1. Spaced(w, b) /\ After(w, b) <= cap /\ z = Frames(After(w, b), cap - After(w, b))
      BY <1>15 DEF FrameInv, Flow, Whole, Follows, w, z
    <2>2. b \in Nat
      BY <1>1, LineTypes
    <2> HIDE DEF b
    <2>3. /\ Len(x) \in Nat /\ Len(w) = rq + Len(x)
          /\ \A i \in 1..rq : i \in 1..Len(w) /\ w[i] = out[i]
          /\ \A i \in 1..Len(x) : rq + i \in 1..Len(w) /\ w[rq + i] = x[i]
      <3>1. /\ Len(out \o x) = Len(out) + Len(x)
            /\ \A i \in 1..Len(out) : (out \o x)[i] = out[i]
            /\ \A i \in 1..Len(x) : (out \o x)[Len(out) + i] = x[i]
        BY <1>5, <1>7, JoinFacts
      <3>2. /\ Len(w) = rq + Len(x)
            /\ \A i \in 1..rq : w[i] = out[i]
            /\ \A i \in 1..Len(x) : w[rq + i] = x[i]
        BY <1>2, <1>9, <3>1
      <3>3. Len(x) \in Nat
        BY <1>7
      <3> QED
        BY <1>6, <3>2, <3>3
    <2>4. last' = b + Ratio * (rq - 1) + 1
      BY <1>2, <1>6, <2>1, <2>3 DEF Spaced
    <2>5. Delivered' = b + Ratio * rq
      <3> DEFINE u == Ratio * (rq - 1)
      <3>1. u \in Nat
        BY <1>6, Multiples
      <3>2. Ratio * rq = u + Ratio
        BY <1>6
      <3> HIDE DEF u
      <3>3. last' = b + u + 1
        BY <2>4 DEF u
      <3>4. last' # 0 /\ last' + Ratio - 1 = b + (u + Ratio)
        BY <1>6, <2>2, <3>1, <3>3
      <3> QED
        BY <1>3, <3>2, <3>4 DEF Delivered
    <2>6. ASSUME NEW i \in Nat
          PROVE  b + Ratio * (rq + i) = Delivered' + Ratio * i
      BY <1>6, <2>2, <2>5
    <2>7. Spaced(x, Delivered')
      <3> SUFFICES ASSUME NEW i \in 1..Len(x) PROVE x[i] = Delivered' + Ratio * (i - 1) + 1
        BY DEF Spaced
      <3>1. i - 1 \in Nat /\ (rq + i) - 1 = rq + (i - 1)
        BY <1>6, <2>3
      <3>2. x[i] = b + Ratio * ((rq + i) - 1) + 1
        BY <2>1, <2>3, Zenon DEF Spaced
      <3>3. b + Ratio * (rq + (i - 1)) = Delivered' + Ratio * (i - 1)
        BY <2>6, <3>1
      <3> QED
        BY <3>1, <3>2, <3>3, Zenon
    <2>8. After(x, Delivered') = After(w, b)
      BY <2>3, <2>6 DEF After
    <2> QED
      BY <2>1, <2>7, <2>8 DEF Follows
  <1>16. Whole'
    <2>1. Follows(OnTheWay, rs \o buf, Delivered, cap)' <=> Follows(x, z, Delivered', cap)
      BY <1>2, <1>3, <1>9 DEF Follows, After, Spaced, Frames, z
    <2> QED
      BY <1>3, <1>15, <2>1 DEF Whole
  <1> QED
    BY <1>4, <1>14, <1>16 DEF Flow

-----------------------------------------------------------------------------
(* The order of the frames, and what it says.                              *)

(* At first no frame is on its way.                                        *)
LEMMA FrameInit == Init => FrameInv
  <1> SUFFICES ASSUME Init PROVE FrameInv
    OBVIOUS
  <1>1. SizeInv
    BY SizeInit
  <1>2. /\ pc = "idle" /\ cap = 0 /\ last = 0 /\ echo = FALSE
        /\ buf = <<>> /\ rs = <<>> /\ got = <<>> /\ proc = <<>> /\ fx = <<>> /\ out = <<>>
    BY DEF Init
  <1>3. Idle /\ Fresh /\ Measured
    BY <1>2 DEF Idle, Fresh, Measured
  <1>4. <<>> \in Seq(Nat) /\ <<0>> \in Seq(Nat) /\ Len(<<>>) = 0
        /\ <<>> \o <<>> = <<>> /\ <<0>> \o <<>> = <<0>>
    <2>1. <<>> \in Seq(Nat) /\ <<0>> \in Seq(Nat) /\ Len(<<>>) = 0
      BY EmptySeq
    <2> QED
      BY <2>1, ConcatEmptySeq
  <1>5. OnTheWay = <<>>
    BY <1>2, <1>4 DEF OnTheWay, Reading
  <1>6. Ordered
    <2>1. Line = <<0>>
      BY <1>2, <1>4, <1>5 DEF Line
    <2> QED
      BY <1>2, <2>1 DEF Ordered, Rising, Sorted
  <1>7. Whole
    <2>1. Delivered = 0 /\ Ratio \in Nat
      BY <1>1, <1>2, Typed DEF Delivered, SizeInv
    <2>2. After(OnTheWay, 0) = 0
      BY <1>4, <1>5, <2>1 DEF After
    <2>3. Spaced(OnTheWay, 0)
      BY <1>4, <1>5 DEF Spaced
    <2>4. Frames(0, 0) = <<>>
      BY FramesFacts, EmptySeq
    <2> QED
      BY <1>2, <1>4, <2>1, <2>2, <2>3, <2>4 DEF Whole, Follows
  <1> QED
    BY <1>1, <1>3, <1>6, <1>7 DEF FrameInv, Flow

(* Every step keeps their order.                                           *)
LEMMA FrameInductive == FrameInv /\ [Next]_vars => FrameInv'
  <1> SUFFICES ASSUME FrameInv, [Next]_vars PROVE FrameInv'
    OBVIOUS
  <1>1. SizeInv'
    BY SizeInductive DEF FrameInv
  <1>2. CASE Next
    <2>1. setup' = setup
      BY <1>2 DEF Next
    <2>2. ASSUME NEW n \in Requests, Begin(n) \/ StartFails(n) PROVE Flow'
      BY <2>1, <2>2, BeginFlow, StartFailsFlow
    <2>3. ASSUME DirectRead \/ ReadMore \/ Reload \/ FetchMore \/ NoReference \/ Return \/ Fail
          PROVE  Flow'
      BY <2>1, <2>3, DirectReadFlow, ReadMoreFlow, ReloadFlow, FetchMoreFlow,
         NoReferenceFlow, ReturnFlow, FailFlow
    <2>4. ASSUME NEW n \in 0..Len(proc), NEW r \in 0..Len(proc), Push(n, r) PROVE Flow'
      BY <2>1, <2>4, PushFlow
    <2>5. ASSUME NEW c \in 0..cnt, NEW p \in 0..rq, Process(c, p) PROVE Flow'
      BY <2>1, <2>5, ProcessFlow
    <2>6. ASSUME ReadFails \/ Standby \/ SetEffects PROVE Flow'
      BY <2>1, <2>6, ReadFailsFlow, StandbyFlow, SetEffectsFlow
    <2>7. Flow'
      BY <1>2, <2>2, <2>3, <2>4, <2>5, <2>6, Zenon DEF Next, Step
    <2> QED
      BY <1>1, <2>7 DEF FrameInv
  <1>3. CASE UNCHANGED vars
    <2>1. /\ setup' = setup
          /\ UNCHANGED <<pc, cap, buf, rs, got, proc, fx, out, effects, echo, standby, asked,
                         last>>
      BY <1>3 DEF vars, position, driver, reference, setting
    <2>2. OnTheWay' = OnTheWay
      BY <2>1 DEF OnTheWay, Reading
    <2>3. Ordered' /\ Whole'
      BY <2>1, <2>2, LineStays
    <2>4. Idle' /\ Fresh' /\ Measured'
      BY <2>1, SetupKept DEF FrameInv, Flow, Idle, Fresh, Measured
    <2> QED
      BY <1>1, <2>3, <2>4 DEF FrameInv, Flow
  <1> QED
    BY <1>2, <1>3

LEMMA FrameInvariance == Spec => []FrameInv
  BY FrameInit, FrameInductive, PTL DEF Spec

(* While effects stay, the caller gets the frames in the order of their    *)
(* capture, each at most once, for every period, ratio and request, and    *)
(* across failed reads and restarts.                                       *)
THEOREM InCaptureOrder == Spec => []FramesInOrder
  <1>1. FrameInv => FramesInOrder
    <2> SUFFICES ASSUME FrameInv, ~Toggle
                 PROVE  /\ \A i \in 1..(Len(Line) - 1) : Line[i] < Line[i + 1]
                        /\ Line[Len(Line)] <= cap
      BY DEF FramesInOrder, Line
    <2>1. Rising(Line, cap)
      BY DEF FrameInv, Flow, Ordered
    <2>2. Line \in Seq(Nat) /\ Len(Line) \in Nat /\ Len(Line) > 0
      <3>1. /\ <<last>> \in Seq(Nat) /\ OnTheWay \in Seq(Nat) /\ rs \in Seq(Nat)
            /\ buf \in Seq(Nat) /\ Len(<<last>>) = 1 /\ Line \in Seq(Nat)
            /\ <<last>> \o OnTheWay \in Seq(Nat)
            /\ (<<last>> \o OnTheWay) \o rs \in Seq(Nat)
        BY LineTypes, Typed DEF FrameInv, SizeInv
      <3>2. Len(<<last>> \o OnTheWay) = 1 + Len(OnTheWay) /\ Len(OnTheWay) \in Nat
        BY <3>1, JoinFacts
      <3>3. Len((<<last>> \o OnTheWay) \o rs) = Len(<<last>> \o OnTheWay) + Len(rs)
            /\ Len(rs) \in Nat
        BY <3>1, JoinFacts
      <3>4. Len(Line) = Len((<<last>> \o OnTheWay) \o rs) + Len(buf) /\ Len(buf) \in Nat
        BY <3>1, JoinFacts DEF Line
      <3> QED
        BY <3>1, <3>2, <3>3, <3>4
    <2> QED
      BY <2>1, <2>2 DEF Rising, Sorted
  <1> QED
    BY <1>1, FrameInvariance, PTL

(* Frame i of a line of which the resampler dropped all but one in Ratio.  *)
LEMMA SpacedWhole ==
    ASSUME Ratio \in Nat \ {0}, NEW w \in Seq(Nat), NEW b \in Nat, Spaced(w, b),
           NEW i \in 1..(Ratio * Len(w))
    PROVE  w[((i - 1) \div Ratio) + 1] + ((i - 1) % Ratio) = b + i
  <1> DEFINE q == (i - 1) \div Ratio
             m == (i - 1) % Ratio
             u == Ratio * q
  <1>1. Len(w) \in Nat /\ Ratio * Len(w) \in Nat
    BY LenProperties, Multiples
  <1>2. i - 1 \in Nat /\ i - 1 < Ratio * Len(w)
    BY <1>1
  <1>3. q \in Nat /\ u \in Nat /\ u <= i - 1
    BY <1>2, Division
  <1>4. i - 1 = u + m /\ m \in Nat
    BY <1>2
  <1> HIDE DEF q, m
  <1>5. q < Len(w)
    <2>1. Ratio * q < Ratio * Len(w)
      <3>1. u < Ratio * Len(w)
        <4> HIDE DEF u
        <4> QED
          BY <1>1, <1>2, <1>3
      <3> QED
        BY <3>1 DEF u
    <2> QED
      BY <1>1, <1>3, <2>1, Multiples
  <1>6. q + 1 \in 1..Len(w) /\ (q + 1) - 1 = q
    BY <1>1, <1>3, <1>5
  <1>7. w[q + 1] = b + u + 1
    BY <1>6, Zenon DEF Spaced, u
  <1>8. w[q + 1] + m = b + i
    <2> HIDE DEF u
    <2> QED
      BY <1>3, <1>4, <1>7
  <1> QED
    BY <1>8 DEF q, m

(* While no read fails, no effect comes or goes and no restart resets a    *)
(* resampler, the frames delivered, on their way and still in the driver's *)
(* buffer are all that was captured, for every period and ratio.           *)
THEOREM NothingLost == Spec => []NoFrameLost
  <1> DEFINE w == OnTheWay
             n == Ratio * Len(w)
             b == Delivered
             whole == [i \in 1..n |-> w[((i - 1) \div Ratio) + 1] + ((i - 1) % Ratio)]
  <1>1. ASSUME FrameInv, ~Failures, ~Toggle, Restarts => Ratio = 1
        PROVE  whole \o rs \o buf = Frames(b, cap - b)
    <2>1. /\ Spaced(w, b) /\ b + n <= cap
          /\ rs \o buf = Frames(b + n, cap - (b + n))
      BY <1>1 DEF FrameInv, Flow, Whole, Follows, After
    <2>2. /\ w \in Seq(Nat) /\ b \in Nat /\ rs \in Seq(Nat) /\ buf \in Seq(Nat)
          /\ cap \in Nat /\ Ratio \in Nat \ {0} /\ Len(w) \in Nat
      BY <1>1, LineTypes, Typed DEF FrameInv, SizeInv
    <2> HIDE DEF w, b
    <2>3. n \in Nat
      BY <2>2, Multiples
    <2>4. \A i \in 1..n : w[((i - 1) \div Ratio) + 1] + ((i - 1) % Ratio) = b + i
      BY <2>1, <2>2, SpacedWhole
    <2> HIDE DEF n
    <2>5. whole = Frames(b, n)
      BY <2>4, Zenon DEF Frames
    <2> HIDE DEF whole
    <2>6. whole \in Seq(Nat)
      BY <2>2, <2>3, <2>5, FramesFacts
    <2>7. (whole \o rs) \o buf = whole \o (rs \o buf)
      BY <2>2, <2>6, Joined
    <2>8. cap - (b + n) \in Nat /\ n + (cap - (b + n)) = cap - b
      BY <2>1, <2>2, <2>3
    <2>9. Frames(b, n) \o Frames(b + n, cap - (b + n)) = Frames(b, n + (cap - (b + n)))
      <3>1. b \in Nat /\ n \in Nat /\ cap - (b + n) \in Nat
        BY <2>2, <2>3, <2>8
      <3> QED
        BY <3>1, FramesJoined, Zenon
    <2> QED
      BY <2>1, <2>5, <2>7, <2>8, <2>9, Zenon
  <1>2. FrameInv => NoFrameLost
    BY <1>1 DEF NoFrameLost, Delivered
  <1> QED
    BY <1>2, FrameInvariance, PTL

(* Without a resampler, while no read fails, the delay measured for the    *)
(* echo reference (get_capture_delay) is the age of the first frame the    *)
(* effects are about to process, for every period, whatever the driver     *)
(* still has and whatever the reference gives.                             *)
THEOREM DelayMeasuredIsAge == Spec => []DelayIsAge
  <1> DEFINE a == out \o fx
             b == Delivered
             w == OnTheWay
             d == Len(rs) + Len(buf)
  <1>1. ASSUME FrameInv, Ratio = 1, ~Failures, ~Toggle, pc = "process", echo, asked.measured
        PROVE  asked.delay = cap + asked.kernel + 1 - proc[1]
    <2>1. Spaced(w, b) /\ After(w, b) <= cap
          /\ rs \o buf = Frames(After(w, b), cap - After(w, b))
      BY <1>1 DEF FrameInv, Flow, Whole, Follows
    <2>2. /\ w \in Seq(Nat) /\ b \in Nat /\ rs \in Seq(Nat) /\ buf \in Seq(Nat)
          /\ cap \in Nat /\ Len(w) \in Nat /\ out \in Seq(Nat) /\ fx \in Seq(Nat)
          /\ proc \in Seq(Nat) /\ asked.kernel \in Nat
      BY <1>1, LineTypes, Typed DEF FrameInv, SizeInv, TypeOK
    <2>3. /\ Len(proc) > 0 /\ Len(proc) \in Nat
          /\ asked.delay = asked.kernel + Len(buf) + Len(proc) + Len(rs)
      BY <1>1, <2>2 DEF FrameInv, Flow, Measured
    <2>4. a \in Seq(Nat) /\ Len(a) \in Nat
      BY <2>2, JoinFacts
    <2>5. w = a \o proc
      <3>1. OnTheWay = (a \o proc) \o <<>>
        BY <1>1 DEF OnTheWay, Reading
      <3>2. a \o proc \in Seq(Nat)
        BY <2>2, <2>4, JoinFacts
      <3> QED
        BY <3>1, <3>2, ConcatEmptySeq
    <2> HIDE DEF a, b, w
    <2>6. /\ Len(w) = Len(a) + Len(proc)
          /\ \A i \in 1..Len(proc) : w[Len(a) + i] = proc[i]
      <3>1. /\ Len(a \o proc) = Len(a) + Len(proc)
            /\ \A i \in 1..Len(proc) : (a \o proc)[Len(a) + i] = proc[i]
        BY <2>2, <2>4, JoinFacts
      <3> QED
        BY <2>5, <3>1
    <2>7. proc[1] = b + Len(a) + 1
      <3>1. 1 \in 1..Len(proc) /\ Len(a) + 1 \in 1..Len(w)
        BY <2>3, <2>4, <2>6
      <3>2. w[Len(a) + 1] = b + Ratio * ((Len(a) + 1) - 1) + 1
        BY <2>1, <3>1 DEF Spaced
      <3>3. w[Len(a) + 1] = proc[1]
        BY <2>6, <3>1
      <3> QED
        BY <1>1, <2>2, <2>4, <3>2, <3>3
    <2>8. After(w, b) = b + Len(w) /\ cap - After(w, b) \in Nat
      BY <1>1, <2>1, <2>2 DEF After
    <2>9. d = cap - (b + Len(w)) /\ Len(rs) \in Nat /\ Len(buf) \in Nat
      <3>1. Len(rs \o buf) = d /\ Len(rs) \in Nat /\ Len(buf) \in Nat
        BY <2>2, JoinFacts
      <3>2. b + Len(w) \in Nat /\ cap - (b + Len(w)) \in Nat
        BY <2>2, <2>8
      <3>3. Len(Frames(b + Len(w), cap - (b + Len(w)))) = cap - (b + Len(w))
        BY <3>2, FramesFacts
      <3> QED
        BY <2>1, <2>8, <3>1, <3>3
    <2>10. asked.delay = asked.kernel + d + Len(proc) /\ d \in Nat
      BY <2>2, <2>3, <2>9
    <2>11. b \in Nat /\ cap \in Nat /\ asked.kernel \in Nat
      BY <2>2
    <2> HIDE DEF d
    <2> QED
      BY <2>3, <2>4, <2>6, <2>7, <2>9, <2>10, <2>11
  <1>2. FrameInv => DelayIsAge
    BY <1>1 DEF DelayIsAge
  <1> QED
    BY <1>2, FrameInvariance, PTL
=============================================================================
