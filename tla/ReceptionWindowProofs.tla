----------------------- MODULE ReceptionWindowProofs -----------------------
(***************************************************************************)
(* Duplicate detection is exact, for every window size, counter width and  *)
(* number of wraps, and for the three kinds of window; and a persisted     *)
(* group counter is never handed out twice.                                *)
(*                                                                         *)
(* The argument rests on one lemma about the code's arithmetic             *)
(* (DiffExact): for a message within reach, diff of its wire counter is    *)
(* its true distance from the newest message.  Everything else speaks      *)
(* about distances only.  WindowInv is what BitmapExact needs to be        *)
(* inductive.                                                              *)
(***************************************************************************)
EXTENDS ReceptionWindow, TLAPS

\* max is the wire counter of the newest accepted message; every accepted message
\* was sent, none is newer than hi, none is older than the anchor of an encrypted
\* window; and a secure counter stays in its first lap.
WindowInv ==
    /\ accepted \subseteq sent
    /\ variant = "secure" => next.lap = 0 /\ \A m \in sent : m.lap = 0
    /\ primed = "no" => accepted = {}
    /\ primed = "yes" =>
        /\ max = hi.ctr /\ hi \in accepted /\ first \in accepted
        /\ \A m \in accepted : Dist(m, hi) <= 0 /\ (variant # "unsecured" => Dist(m, first) >= 0)

\* The counter is within a reserve below the mark and in its lap, or past it by less
\* than a turn, so that the test on wire counters (NeedsMark) tells the two apart; what was sent is
\* behind the counter and not past the mark, nor past what the store holds.
GroupInv ==
    variant = "group" =>
        /\ Dist(next, reserved) \in -Reserve..(Size - Reserve - 1) /\ reserved.lap <= next.lap
        /\ Dist(stored, reserved) >= 0
        /\ \A m \in sent : Dist(m, next) < 0 /\ Dist(m, reserved) <= 0

IInv == TypeOK /\ WindowInv /\ GroupInv /\ BitmapExact

-----------------------------------------------------------------------------
\* Multiples of the counter space further apart than one lap differ by more than
\* two counters of one lap can.
LEMMA OneLap ==
    ASSUME NEW k \in Int, NEW S \in Nat, NEW d \in Int,
           d < S, -d < S, d + k * S < S, -(d + k * S) < S
    PROVE  k \in -1..1
  <1>1. ASSUME k >= 2 PROVE FALSE
    <2>1. (k - 2) * S >= 0 BY <1>1
    <2>2. k * S = (k - 2) * S + 2 * S OBVIOUS
    <2>3. k * S >= 2 * S BY <2>1, <2>2
    <2> QED BY <2>3
  <1>2. ASSUME k <= -2 PROVE FALSE
    <2>1. (-2 - k) * S >= 0 BY <1>2
    <2>2. k * S = -((-2 - k) * S) - 2 * S OBVIOUS
    <2>3. k * S <= -(2 * S) BY <2>1, <2>2
    <2> QED BY <2>3
  <1> QED BY <1>1, <1>2

\* The counter space is not empty.
LEMMA SizeType == Size \in Nat /\ Size > 0 /\ Size = CounterMax + 1
  BY WindowAssumption DEF Size

\* A message's fields, and its distance, are integers.
LEMMA DistType ==
    ASSUME NEW m \in Messages, NEW h \in Messages
    PROVE  /\ m.ctr \in Nat /\ m.ctr <= CounterMax /\ m.lap \in Nat
           /\ Dist(m, h) \in Int
           /\ Dist(m, m) = 0
  <1>1. m.ctr \in 0..CounterMax /\ m.lap \in 0..MaxLap /\ h.ctr \in 0..CounterMax /\ h.lap \in 0..MaxLap
    BY DEF Messages, Wire
  <1>2. Dist(m, h) \in Int
    BY <1>1, SizeType, WindowAssumption DEF Dist
  <1>3. Dist(m, m) = 0
    BY <1>1, SizeType, WindowAssumption DEF Dist
  <1> QED BY <1>1, <1>2, <1>3, WindowAssumption

\* Distances add up along the order in which messages were drawn.
LEMMA DistAdds ==
    ASSUME NEW a \in Messages, NEW b \in Messages, NEW c \in Messages
    PROVE  Dist(a, c) = Dist(a, b) + Dist(b, c)
  <1>1. a.ctr \in Int /\ b.ctr \in Int /\ c.ctr \in Int
    BY DistType
  <1>2. a.lap \in Int /\ b.lap \in Int /\ c.lap \in Int
    BY DistType
  <1>3. ASSUME NEW x \in Int, NEW y \in Int, NEW z \in Int, NEW S \in Int
        PROVE  (x - z) * S = (x - y) * S + (y - z) * S
    OBVIOUS
  <1>4. (a.lap - c.lap) * Size = (a.lap - b.lap) * Size + (b.lap - c.lap) * Size
    BY <1>2, <1>3, SizeType
  <1>5. (a.lap - c.lap) * Size \in Int /\ (a.lap - b.lap) * Size \in Int /\ (b.lap - c.lap) * Size \in Int
    BY <1>2, SizeType
  <1> QED BY <1>1, <1>4, <1>5 DEF Dist

\* A message is told by its distance.
LEMMA DistInjective ==
    ASSUME NEW a \in Messages, NEW b \in Messages, Dist(a, b) = 0
    PROVE  a = b
  <1> DEFINE k == a.lap - b.lap
             d == a.ctr - b.ctr
  <1>1. a.ctr \in 0..CounterMax /\ b.ctr \in 0..CounterMax /\ a.lap \in Int /\ b.lap \in Int
    BY DistType, WindowAssumption
  <1>2. k \in Int /\ d \in Int /\ d < Size /\ -d < Size /\ d + k * Size = 0
    BY <1>1, SizeType, WindowAssumption DEF Dist
  <1>3. k \in -1..1
    <2> HIDE DEF k, d
    <2> QED BY <1>2, OneLap, SizeType
  <1>4. k = 0 /\ d = 0
    <2> HIDE DEF k, d
    <2>1. CASE k = 0 BY <2>1, <1>2, SizeType
    <2>2. CASE k = 1 BY <2>2, <1>2, SizeType
    <2>3. CASE k = -1 BY <2>3, <1>2, SizeType
    <2> QED BY <1>3, <2>1, <2>2, <2>3
  <1>5. a.lap = b.lap /\ a.ctr = b.ctr
    BY <1>1, <1>4
  <1> QED BY <1>5 DEF Messages

\* The arithmetic of Window.diff: within reach, the folded difference of two wire
\* counters is the distance of the messages, on either side of the wrap.
LEMMA DiffExact ==
    ASSUME NEW m \in Messages, hi \in Messages, max = hi.ctr, InReach(m),
           variant \in Variants, variant = "secure" => m.lap = hi.lap
    PROVE  diff(m.ctr) = Dist(m, hi)
  <1> DEFINE k == m.lap - hi.lap
             d == m.ctr - max
  <1>1. m.ctr \in 0..CounterMax /\ max \in 0..CounterMax /\ m.lap \in Int /\ hi.lap \in Int
    BY DistType, WindowAssumption
  <1>2. k \in Int /\ d \in Int /\ d < Size /\ -d < Size /\ Dist(m, hi) = d + k * Size
    BY <1>1, SizeType, WindowAssumption DEF Dist
  <1>3. /\ WindowSize \in Nat /\ 2 * WindowSize < CounterMax /\ CounterMax \in Nat
        /\ Half \in Nat /\ 2 * Half <= Size /\ Size <= 2 * Half + 1
    BY WindowAssumption DEF Half, Size
  <1>4. CASE variant = "secure"
    <2>1. k = 0 BY <1>1, <1>4
    <2>2. Dist(m, hi) = d BY <1>2, <2>1, SizeType
    <2> QED BY <1>4, <2>2 DEF diff
  <1>5. CASE variant = "group"
    <2>1. d + k * Size \in -Half..(Half - 1)
      BY <1>2, <1>5 DEF InReach
    <2>2. diff(m.ctr) = IF d > 0 /\ d >= Half THEN d - Size
                        ELSE IF d < 0 /\ d < -Half THEN d + Size ELSE d
      BY <1>5 DEF diff
    <2> HIDE DEF k, d
    <2>3. k \in -1..1 BY <1>2, <1>3, <2>1, OneLap, SizeType
    <2>4. CASE k = 0 BY <2>4, <2>1, <2>2, <1>2, <1>3, SizeType
    <2>5. CASE k = 1 BY <2>5, <2>1, <2>2, <1>2, <1>3, SizeType
    <2>6. CASE k = -1 BY <2>6, <2>1, <2>2, <1>2, <1>3, SizeType
    <2> QED BY <2>3, <2>4, <2>5, <2>6
  <1>6. CASE variant = "unsecured"
    <2>1. d + k * Size \in -WindowSize..(CounterMax - WindowSize)
      BY <1>2, <1>6 DEF InReach
    <2>2. diff(m.ctr) = IF d > 0 /\ CounterMax - d < WindowSize THEN d - Size
                        ELSE IF d < -WindowSize THEN d + Size ELSE d
      BY <1>6 DEF diff
    <2> HIDE DEF k, d
    <2>3. k \in -1..1 BY <1>2, <1>3, <2>1, OneLap, SizeType
    <2>4. CASE k = 0 BY <2>4, <2>1, <2>2, <1>2, <1>3, SizeType
    <2>5. CASE k = 1 BY <2>5, <2>1, <2>2, <1>2, <1>3, SizeType
    <2>6. CASE k = -1 BY <2>6, <2>1, <2>2, <1>2, <1>3, SizeType
    <2> QED BY <2>3, <2>4, <2>5, <2>6
  <1> QED BY <1>4, <1>5, <1>6, WindowAssumption

\* A message with the newest wire counter is the newest message.
LEMMA SameCounter ==
    ASSUME NEW m \in Messages, hi \in Messages, max = hi.ctr, InReach(m),
           variant \in Variants, variant = "secure" => m.lap = hi.lap,
           m.ctr = max
    PROVE  m = hi
  <1>1. diff(m.ctr) = Dist(m, hi)
    BY DiffExact
  <1>2. max \in Nat /\ max - max = 0
    BY DistType
  <1>3. diff(max) = 0
    BY <1>2, WindowAssumption DEF diff, Half
  <1> QED BY <1>1, <1>3, DistInjective

-----------------------------------------------------------------------------
\* What every arrival starts from: the message's type, and its distance from the
\* newest one as the code computes it.
LEMMA Arrival ==
    ASSUME IInv, NEW m \in sent, primed = "yes", InReach(m)
    PROVE  /\ m \in Messages /\ hi \in Messages /\ first \in Messages
           /\ hi \in accepted /\ first \in accepted /\ max = hi.ctr
           /\ Dist(m, hi) \in Int
           /\ diff(m.ctr) = Dist(m, hi)
           /\ m.ctr = max => m = hi
           /\ Dist(m, hi) = 0 => m = hi
  <1>1. m \in Messages /\ hi \in Messages /\ first \in Messages /\ variant \in Variants
    BY DEF IInv, TypeOK
  <1>2. hi \in accepted /\ first \in accepted /\ max = hi.ctr /\ hi \in sent
    BY DEF IInv, WindowInv
  <1>3. variant = "secure" => m.lap = hi.lap
    BY <1>2 DEF IInv, WindowInv
  <1>4. diff(m.ctr) = Dist(m, hi)
    BY <1>1, <1>2, <1>3, DiffExact
  <1>5. m.ctr = max => m = hi
    BY <1>1, <1>2, <1>3, SameCounter
  <1>6. Dist(m, hi) \in Int
    BY <1>1, DistType
  <1>7. Dist(m, hi) = 0 => m = hi
    BY <1>1, DistInjective
  <1> QED BY <1>1, <1>2, <1>4, <1>5, <1>6, <1>7

\* The receiver does not touch the sender.
LEMMA GroupInvKept ==
    ASSUME IInv, UNCHANGED sender
    PROVE  GroupInv'
  BY DEF IInv, GroupInv, sender, marks, Dist

\* The first message primes the window.
LEMMA PrimeKeeps ==
    ASSUME IInv, NEW m \in sent, Prime(m), UNCHANGED sender
    PROVE  IInv'
  <1> USE DEF Prime, sender, marks
  <1>1. m \in Messages /\ Dist(m, m) = 0
    BY DistType DEF IInv, TypeOK
  <1>2. TypeOK'
    BY <1>1, WindowAssumption DEF IInv, TypeOK, InitialBitmap, Bits, Messages
  <1>3. WindowInv'
    BY <1>1 DEF IInv, WindowInv, Dist
  <1>4. BitmapExact'
    <2> SUFFICES ASSUME NEW n \in Messages, Dist(n, m) \in -WindowSize..(-1)
                 PROVE  -Dist(n, m) - 1 \in InitialBitmap
                            <=> n \in {m} \/ (variant # "unsecured" /\ Dist(n, m) < 0)
      BY DEF BitmapExact, Dist
    <2>1. n # m
      BY <1>1
    <2>2. -Dist(n, m) - 1 \in Bits
      BY WindowAssumption DEF Bits
    <2> QED BY <2>1, <2>2 DEF InitialBitmap
  <1> QED BY <1>2, <1>3, <1>4, GroupInvKept DEF IInv

\* A message behind the newest sets its own bit and no other.
LEMMA FillInKeeps ==
    ASSUME IInv, NEW m \in sent, FillIn(m), InReach(m), UNCHANGED sender
    PROVE  IInv'
  <1> DEFINE d == Dist(m, hi)
  <1>1. /\ m \in Messages /\ hi \in Messages /\ first \in Messages
        /\ diff(m.ctr) = d /\ d \in Int /\ max = hi.ctr /\ hi \in accepted
    BY Arrival DEF FillIn
  <1>2. d < 0 /\ d >= -WindowSize /\ -d - 1 \notin bitmap /\ primed = "yes"
    BY <1>1, WindowAssumption DEF FillIn, IsDuplicate
  <1>3. bitmap' = bitmap \cup {-d - 1} /\ accepted' = accepted \cup {m}
    BY <1>1 DEF FillIn
  <1>4. UNCHANGED <<variant, primed, max, hi, first, next, reserved, stored, sent>> /\ verdict' = "fresh"
    BY DEF FillIn, sender, marks
  <1>5. -d - 1 \in Bits
    BY <1>1, <1>2, WindowAssumption DEF Bits
  <1>6. TypeOK'
    BY <1>1, <1>3, <1>4, <1>5 DEF IInv, TypeOK
  <1>7. m \notin accepted /\ (variant # "unsecured" => Dist(m, first) >= 0)
    <2>1. d \in -WindowSize..(-1)
      BY <1>1, <1>2, WindowAssumption
    <2>2. ~(m \in accepted \/ (variant # "unsecured" /\ Dist(m, first) < 0))
      BY <1>1, <1>2, <2>1 DEF IInv, BitmapExact
    <2>3. Dist(m, first) \in Int
      BY <1>1, DistType
    <2> QED BY <2>2, <2>3
  <1>8. WindowInv'
    <2>1. \A n \in accepted : Dist(n, hi) <= 0 /\ (variant # "unsecured" => Dist(n, first) >= 0)
      BY <1>2 DEF IInv, WindowInv
    <2>2. \A n \in accepted' : Dist(n, hi) <= 0 /\ (variant # "unsecured" => Dist(n, first) >= 0)
      BY <2>1, <1>1, <1>2, <1>3, <1>7
    <2>3. \A n : Dist(n, hi)' = Dist(n, hi) /\ Dist(n, first)' = Dist(n, first)
      BY <1>4 DEF Dist
    <2> QED BY <2>2, <2>3, <1>2, <1>3, <1>4 DEF IInv, WindowInv, Dist
  <1>9. BitmapExact'
    <2> SUFFICES ASSUME NEW n \in Messages, Dist(n, hi) \in -WindowSize..(-1)
                 PROVE  -Dist(n, hi) - 1 \in bitmap'
                            <=> n \in accepted' \/ (variant # "unsecured" /\ Dist(n, first) < 0)
      BY <1>4 DEF BitmapExact, Dist
    <2>1. -Dist(n, hi) - 1 \in bitmap
              <=> n \in accepted \/ (variant # "unsecured" /\ Dist(n, first) < 0)
      BY <1>2 DEF IInv, BitmapExact
    <2>2. CASE n = m
      BY <2>2, <1>3
    <2>3. CASE n # m
      <3>1. Dist(n, hi) = Dist(n, m) + d
        BY <1>1, DistAdds
      <3>2. Dist(n, m) # 0 /\ Dist(n, m) \in Int
        BY <1>1, <2>3, DistInjective, DistType
      <3>3. -Dist(n, hi) - 1 # -d - 1
        BY <3>1, <3>2, <1>1
      <3> QED BY <3>3, <2>1, <2>3, <1>3
    <2> QED BY <2>2, <2>3
  <1> QED BY <1>6, <1>8, <1>9, GroupInvKept DEF IInv

\* A message ahead shifts the bitmap by its distance and records the old maximum.
LEMMA AdvanceKeeps ==
    ASSUME IInv, NEW m \in sent, Advance(m), InReach(m), UNCHANGED sender
    PROVE  IInv'
  <1> DEFINE d == Dist(m, hi)
  <1>1. /\ m \in Messages /\ hi \in Messages /\ first \in Messages /\ first \in accepted
        /\ diff(m.ctr) = d /\ d \in Int /\ max = hi.ctr /\ hi \in accepted
        /\ d = 0 => m = hi
    BY Arrival DEF Advance
  <1>2. d > 0 /\ primed = "yes" /\ m # hi
    <2>1. d >= 0 /\ primed = "yes" /\ m.ctr # max
      BY <1>1 DEF Advance, IsDuplicate
    <2>2. m # hi
      BY <2>1, <1>1
    <2> QED BY <2>1, <2>2, <1>1
  <1>3. bitmap' = Shifted(d) /\ accepted' = accepted \cup {m} /\ max' = m.ctr /\ hi' = m
    BY <1>1 DEF Advance
  <1>4. UNCHANGED <<variant, primed, first, next, reserved, stored, sent>> /\ verdict' = "fresh"
    BY DEF Advance, sender, marks
  <1>5. \A n \in accepted : Dist(n, hi) <= 0 /\ (variant # "unsecured" => Dist(n, first) >= 0)
    BY <1>2 DEF IInv, WindowInv
  <1>6. TypeOK'
    <2>1. Shifted(d) \subseteq Bits
      BY <1>1, <1>2, WindowAssumption DEF Shifted, Bits
    <2>2. m.ctr \in Wire
      BY <1>1 DEF Messages
    <2> QED BY <2>1, <2>2, <1>1, <1>3, <1>4 DEF IInv, TypeOK
  <1>7. m \notin accepted
    BY <1>5, <1>1, <1>2
  <1>8. variant # "unsecured" => Dist(hi, first) >= 0
    BY <1>5, <1>1
  <1>9. WindowInv'
    <2>1. accepted \subseteq Messages
      BY DEF IInv, TypeOK
    <2>2. ASSUME NEW n \in accepted PROVE Dist(n, m) <= 0
      <3>1. Dist(n, hi) = Dist(n, m) + d /\ Dist(n, m) \in Int
        BY <2>1, <1>1, DistAdds, DistType
      <3> QED BY <3>1, <1>1, <1>2, <1>5
    <2>3. variant # "unsecured" => Dist(m, first) >= 0
      <3>1. Dist(m, first) = d + Dist(hi, first) /\ Dist(hi, first) \in Int
        BY <1>1, DistAdds, DistType
      <3> QED BY <3>1, <1>1, <1>2, <1>8
    <2>4. Dist(m, m) = 0
      BY <1>1, DistType
    <2>5. \A n \in accepted' : Dist(n, m) <= 0 /\ (variant # "unsecured" => Dist(n, first) >= 0)
      BY <2>2, <2>3, <2>4, <1>3, <1>5
    <2>6. \A n : Dist(n, hi)' = Dist(n, m) /\ Dist(n, first)' = Dist(n, first)
      BY <1>3, <1>4 DEF Dist
    <2> QED BY <2>5, <2>6, <1>1, <1>2, <1>3, <1>4 DEF IInv, WindowInv, Dist
  <1>10. BitmapExact'
    <2> SUFFICES ASSUME NEW n \in Messages, Dist(n, m) \in -WindowSize..(-1)
                 PROVE  -Dist(n, m) - 1 \in Shifted(d)
                            <=> n \in accepted \cup {m} \/ (variant # "unsecured" /\ Dist(n, first) < 0)
      BY <1>3, <1>4 DEF BitmapExact, Dist
    <2> DEFINE e == Dist(n, m)
    <2>1. Dist(n, hi) = e + d /\ e \in Int /\ e >= -WindowSize /\ e <= -1
      BY <1>1, DistAdds, WindowAssumption
    <2>2. n # m
      BY <1>1, <2>1, DistType
    <2>3. Dist(n, first) = Dist(n, hi) + Dist(hi, first) /\ Dist(hi, first) \in Int
      BY <1>1, DistAdds, DistType
    <2>4. bitmap \subseteq Bits
      BY DEF IInv, TypeOK
    <2>5. CASE e + d > 0
      <3>1. n \notin accepted
        BY <2>5, <2>1, <1>5, <1>1
      <3>2. ~(variant # "unsecured" /\ Dist(n, first) < 0)
        BY <2>5, <2>1, <2>3, <1>1, <1>8
      <3>3. -e - 1 \notin Shifted(d)
        BY <2>5, <2>1, <2>4, <1>1, WindowAssumption DEF Shifted, Bits
      <3> QED BY <3>1, <3>2, <3>3, <2>2
    <2>6. CASE e + d = 0
      <3>1. n = hi
        BY <2>6, <2>1, <1>1, DistInjective
      <3>2. -e - 1 \in Shifted(d)
        BY <2>6, <2>1, <1>1, WindowAssumption DEF Shifted
      <3> QED BY <3>1, <3>2, <1>1
    <2>7. CASE e + d < 0
      <3>1. Dist(n, hi) \in -WindowSize..(-1)
        BY <2>7, <2>1, <1>1, <1>2, WindowAssumption
      <3>2. -(e + d) - 1 \in bitmap
                <=> n \in accepted \/ (variant # "unsecured" /\ Dist(n, first) < 0)
        BY <3>1, <2>1, <1>2 DEF IInv, BitmapExact
      <3>3. -e - 1 \in Shifted(d) <=> -(e + d) - 1 \in bitmap
        <4>1. -e - 1 \in Bits /\ -e - 1 # d - 1
          BY <2>7, <2>1, <1>1, WindowAssumption DEF Bits
        <4>2. ASSUME -(e + d) - 1 \in bitmap PROVE -e - 1 \in Shifted(d)
          <5>1. -(e + d) - 1 + d = -e - 1
            BY <2>1, <1>1
          <5> QED BY <4>1, <4>2, <5>1 DEF Shifted
        <4>3. ASSUME -e - 1 \in Shifted(d) PROVE -(e + d) - 1 \in bitmap
          <5>1. PICK i \in bitmap : -e - 1 = i + d
            BY <4>1, <4>3 DEF Shifted
          <5>2. i = -(e + d) - 1
            BY <5>1, <2>1, <2>4, <1>1, WindowAssumption DEF Bits
          <5> QED BY <5>1, <5>2
        <4> QED BY <4>2, <4>3
      <3> QED BY <3>2, <3>3, <2>2
    <2> QED BY <2>1, <2>5, <2>6, <2>7, <1>1
  <1> QED BY <1>6, <1>9, <1>10, GroupInvKept DEF IInv

\* A step of the sender that leaves the sent messages typed, and a secure counter in
\* its lap, keeps all but GroupInv: the window does not change.
LEMMA WindowKept ==
    ASSUME IInv, UNCHANGED <<variant, window, hi, first, accepted, verdict>>,
           next' \in Messages, reserved' \in Messages, stored' \in Messages,
           sent' = sent \/ sent' = sent \cup {next},
           variant = "secure" => next'.lap = next.lap
    PROVE  TypeOK' /\ WindowInv' /\ BitmapExact'
  <1>1. next \in Messages
    BY DEF IInv, TypeOK
  <1>2. TypeOK'
    BY <1>1 DEF IInv, TypeOK, window
  <1>3. WindowInv' /\ BitmapExact'
    BY DEF IInv, WindowInv, BitmapExact, Dist, window
  <1> QED BY <1>2, <1>3

\* The message after m is one further, within the bound on laps.
LEMMA FollowingType ==
    ASSUME NEW m \in Messages, m.ctr = CounterMax => m.lap < MaxLap
    PROVE  /\ Following(m) \in Messages /\ Dist(Following(m), m) = 1
           /\ m.ctr # CounterMax => Following(m).lap = m.lap
           /\ Following(m).lap >= m.lap
  <1>1. m.ctr \in 0..CounterMax /\ m.lap \in 0..MaxLap
    BY DEF Messages, Wire
  <1>2. CASE m.ctr = CounterMax
    <2>1. Following(m) = [lap |-> m.lap + 1, ctr |-> 0]
      BY <1>2 DEF Following
    <2>2. Following(m) \in Messages
      BY <2>1, <1>1, <1>2, WindowAssumption DEF Messages, Wire
    <2>3. (m.lap + 1 - m.lap) * Size = Size
      BY <1>1, SizeType, WindowAssumption
    <2>4. Dist(Following(m), m) = 1
      BY <2>1, <2>3, <1>1, <1>2, SizeType, WindowAssumption DEF Dist
    <2> QED BY <2>1, <2>2, <2>4, <1>1, <1>2, WindowAssumption
  <1>3. CASE m.ctr # CounterMax
    <2>1. Following(m) = [lap |-> m.lap, ctr |-> m.ctr + 1]
      BY <1>3 DEF Following, Messages
    <2>2. Following(m) \in Messages
      BY <2>1, <1>1, <1>3, WindowAssumption DEF Messages, Wire
    <2>3. Dist(Following(m), m) = 1
      BY <2>1, <1>1, SizeType, WindowAssumption DEF Dist
    <2> QED BY <2>1, <2>2, <2>3, <1>1, WindowAssumption
  <1> QED BY <1>2, <1>3

\* A mark lies at most a reserve ahead of the message it is made for.
LEMMA MarkType ==
    ASSUME NEW m \in Messages
    PROVE  Mark(m) \in Messages /\ Dist(Mark(m), m) \in 0..Reserve /\ Mark(m).lap = m.lap
  <1> DEFINE c == IF m.ctr + Reserve <= CounterMax THEN m.ctr + Reserve ELSE CounterMax
  <1>1. m.ctr \in 0..CounterMax /\ m.lap \in 0..MaxLap
    BY DEF Messages, Wire
  <1>2. Mark(m) = [lap |-> m.lap, ctr |-> c]
    BY DEF Mark, Messages
  <1>3. c \in 0..CounterMax /\ c - m.ctr \in 0..Reserve
    BY <1>1, WindowAssumption
  <1>4. (m.lap - m.lap) * Size = 0
    BY <1>1, SizeType, WindowAssumption
  <1> HIDE DEF c
  <1>5. Dist(Mark(m), m) = c - m.ctr
    BY <1>1, <1>2, <1>3, <1>4, WindowAssumption DEF Dist
  <1> QED BY <1>1, <1>2, <1>3, <1>5 DEF Messages, Wire

\* What dataCounter.next tests on wire counters: whether the counter has come to the
\* mark, on either side of the wrap.
LEMMA NeedsMarkExact ==
    ASSUME next \in Messages, reserved \in Messages, reserved.lap <= next.lap,
           Dist(next, reserved) \in -Reserve..(Size - Reserve - 1)
    PROVE  NeedsMark(next.ctr) <=> Dist(next, reserved) >= 0
  <1> DEFINE k == next.lap - reserved.lap
             d == next.ctr - reserved.ctr
  <1>1. next.ctr \in 0..CounterMax /\ reserved.ctr \in 0..CounterMax /\ next.lap \in Int /\ reserved.lap \in Int
    BY DistType, WindowAssumption
  <1>2. k \in Int /\ d \in Int /\ d < Size /\ -d < Size /\ Dist(next, reserved) = d + k * Size
    BY <1>1, SizeType, WindowAssumption DEF Dist
  <1>3. NeedsMark(next.ctr) <=> d >= 0 \/ d + Reserve < 0
    BY <1>1, WindowAssumption DEF NeedsMark
  <1>4. Reserve \in Nat /\ Reserve > 0 /\ Reserve < Size
    BY WindowAssumption, SizeType
  <1>5. d + k * Size >= -Reserve /\ d + k * Size <= Size - Reserve - 1
    BY <1>2, <1>4, SizeType
  <1> HIDE DEF k, d
  <1>6. k \in 0..1
    <2>1. k \in -1..1 BY <1>2, <1>4, <1>5, OneLap, SizeType
    <2>2. k >= 0 BY <1>1 DEF k
    <2> QED BY <2>1, <2>2
  <1>7. CASE k = 0 BY <1>7, <1>2, <1>3, <1>4, <1>5, SizeType
  <1>8. CASE k = 1 BY <1>8, <1>2, <1>3, <1>4, <1>5, SizeType
  <1> QED BY <1>6, <1>7, <1>8

\* Counter.Next and NextNoRollover, and the restart of an unsecured sender, draw from
\* the next lap only after the wrap.
LEMMA SenderKeeps ==
    ASSUME IInv, Send \/ Restart
    PROVE  IInv'
  <1>1. UNCHANGED <<variant, window, hi, first, accepted, verdict>> /\ UNCHANGED marks
    BY DEF Send, Restart
  <1>2. next \in Messages /\ next.ctr \in 0..CounterMax /\ next.lap \in 0..MaxLap
    BY DEF IInv, TypeOK, Messages, Wire
  <1>3. variant # "group" /\ (sent' = sent \/ sent' = sent \cup {next})
    BY DEF Send, Restart
  <1>4. next' \in Messages /\ (variant = "secure" => next'.lap = next.lap)
    <2>1. CASE Send
      <3>1. next.ctr = CounterMax => variant # "secure" /\ next.lap < MaxLap
        BY <2>1 DEF Send
      <3>2. next' = Following(next)
        BY <2>1 DEF Send
      <3> QED BY <3>1, <3>2, <1>2, FollowingType
    <2>2. CASE Restart
      <3>1. PICK c \in Seeds :
                LET lap == IF c < next.ctr THEN next.lap + 1 ELSE next.lap
                IN  lap <= MaxLap /\ next' = [lap |-> lap, ctr |-> c]
        BY <2>2 DEF Restart
      <3>2. next' \in Messages
        BY <3>1, <1>2, WindowAssumption DEF Messages, Wire
      <3> QED BY <3>2, <2>2 DEF Restart
    <2> QED BY <2>1, <2>2
  <1>5. reserved' \in Messages /\ stored' \in Messages
    BY <1>1 DEF marks, IInv, TypeOK
  <1>6. TypeOK' /\ WindowInv' /\ BitmapExact'
    BY <1>1, <1>3, <1>4, <1>5, WindowKept
  <1>7. GroupInv'
    BY <1>1, <1>3 DEF GroupInv
  <1> QED BY <1>6, <1>7 DEF IInv

\* The dataCounter of group messages: a value handed out, one lost to a failed write,
\* and a restart from the store.
LEMMA GroupSenderKeeps ==
    ASSUME IInv, SendGroup \/ ReserveFails \/ RestartGroup
    PROVE  IInv'
  <1>1. UNCHANGED <<variant, window, hi, first, accepted, verdict>> /\ variant = "group"
    BY DEF SendGroup, ReserveFails, RestartGroup
  <1>2. /\ next \in Messages /\ reserved \in Messages /\ stored \in Messages
        /\ sent \subseteq Messages
    BY DEF IInv, TypeOK
  <1>3. /\ Dist(next, reserved) \in -Reserve..(Size - Reserve - 1) /\ reserved.lap <= next.lap
        /\ Dist(stored, reserved) >= 0
        /\ \A m \in sent : Dist(m, next) < 0 /\ Dist(m, reserved) <= 0
    BY <1>1 DEF IInv, GroupInv
  <1>4. Reserve \in Nat /\ Reserve > 0 /\ Reserve < CounterMax /\ CounterMax \in Nat /\ Size = CounterMax + 1
    BY WindowAssumption, SizeType
  <1>5. CASE SendGroup
    <2>1. next' = Following(next) /\ sent' = sent \cup {next}
      BY <1>5 DEF SendGroup
    <2>2. Following(next) \in Messages /\ Dist(Following(next), next) = 1 /\ Following(next).lap >= next.lap
      BY <1>2, <1>5, FollowingType DEF SendGroup
    <2>3. Mark(next) \in Messages /\ Dist(Mark(next), next) \in 0..Reserve /\ Mark(next).lap = next.lap
      BY <1>2, MarkType
    <2>4. NeedsMark(next.ctr) <=> Dist(next, reserved) >= 0
      BY <1>2, <1>3, NeedsMarkExact
    <2>5. Dist(next, reserved) \in Int /\ Dist(stored, reserved) \in Int
      BY <1>2, DistType
    <2>6. ASSUME NEW r \in Messages, NEW t \in Messages,
                 reserved' = r, stored' = t,
                 Dist(Following(next), r) \in -Reserve..(Size - Reserve - 1),
                 r.lap <= Following(next).lap,
                 Dist(t, r) >= 0,
                 \A m \in sent \cup {next} : Dist(m, r) <= 0
          PROVE  IInv'
      <3>1. TypeOK' /\ WindowInv' /\ BitmapExact'
        BY <1>1, <2>1, <2>2, <2>6, WindowKept
      <3>2. ASSUME NEW m \in sent \cup {next} PROVE Dist(m, Following(next)) < 0
        <4>1. m \in Messages /\ Dist(m, next) \in Int /\ Dist(m, next) <= 0
          BY <1>2, <1>3, DistType
        <4>2. Dist(m, Following(next)) \in Int
          BY <4>1, <2>2, DistType
        <4>3. Dist(m, next) = Dist(m, Following(next)) + Dist(Following(next), next)
          BY <4>1, <1>2, <2>2, DistAdds
        <4> QED BY <4>1, <4>2, <4>3, <2>2
      <3>3. GroupInv'
        BY <3>2, <2>1, <2>6 DEF GroupInv, Dist
      <3> QED BY <3>1, <3>3 DEF IInv
    <2>7. CASE NeedsMark(next.ctr)
      <3>1. reserved' = Mark(next) /\ stored' = Mark(next)
        BY <1>5, <2>7 DEF SendGroup
      <3>2. Dist(Following(next), Mark(next)) \in -Reserve..(Size - Reserve - 1)
        <4>1. Dist(Following(next), next) = Dist(Following(next), Mark(next)) + Dist(Mark(next), next)
          BY <1>2, <2>2, <2>3, DistAdds
        <4>2. Dist(Following(next), Mark(next)) \in Int
          BY <2>2, <2>3, DistType
        <4> QED BY <4>1, <4>2, <2>2, <2>3, <1>4
      <3>3. Dist(Mark(next), Mark(next)) >= 0
        BY <2>3, DistType
      <3>4. ASSUME NEW m \in sent \cup {next} PROVE Dist(m, Mark(next)) <= 0
        <4>1. m \in Messages /\ Dist(m, next) \in Int /\ Dist(m, next) <= 0
          BY <1>2, <1>3, DistType
        <4>2. Dist(m, Mark(next)) \in Int
          BY <4>1, <2>3, DistType
        <4>3. Dist(m, next) = Dist(m, Mark(next)) + Dist(Mark(next), next)
          BY <4>1, <1>2, <2>3, DistAdds
        <4> QED BY <4>1, <4>2, <4>3, <2>3, <1>4
      <3>5. Mark(next).lap <= Following(next).lap
        BY <2>2, <2>3
      <3> QED BY <3>1, <3>2, <3>3, <3>4, <3>5, <2>3, <2>6
    <2>8. CASE ~NeedsMark(next.ctr)
      <3>1. reserved' = reserved /\ stored' = stored
        BY <1>5, <2>8 DEF SendGroup, marks
      <3>2. Dist(next, reserved) < 0
        BY <2>4, <2>5, <2>8
      <3>3. Dist(Following(next), reserved) = 1 + Dist(next, reserved)
        BY <1>2, <2>2, DistAdds
      <3>4. Dist(Following(next), reserved) \in -Reserve..(Size - Reserve - 1)
        BY <3>2, <3>3, <2>5, <1>3, <1>4
      <3>5. \A m \in sent \cup {next} : Dist(m, reserved) <= 0
        BY <1>3, <2>5, <3>2
      <3>6. reserved.lap <= Following(next).lap
        <4>1. reserved.lap \in Nat /\ next.lap \in Nat /\ Following(next).lap \in Nat
          BY <1>2, <2>2, DistType
        <4> QED BY <4>1, <1>3, <2>2
      <3> QED BY <3>1, <3>4, <3>5, <3>6, <1>2, <1>3, <2>6
    <2> QED BY <2>7, <2>8
  <1>6. CASE ReserveFails
    <2>1. next' = Following(next) /\ sent' = sent /\ reserved' = reserved /\ stored' \in {stored, Mark(next)}
      BY <1>6 DEF ReserveFails
    <2>2. /\ Following(next) \in Messages /\ Dist(Following(next), next) = 1
          /\ Dist(Following(next), reserved) < Size - Reserve
          /\ Following(next).lap >= next.lap
      BY <1>2, <1>6, FollowingType DEF ReserveFails
    <2>3. Mark(next) \in Messages /\ Dist(Mark(next), next) \in 0..Reserve
      BY <1>2, MarkType
    <2>4. Dist(next, reserved) >= 0 /\ Dist(next, reserved) \in Int
      BY <1>2, <1>3, <1>6, NeedsMarkExact, DistType DEF ReserveFails
    <2>5. Dist(Following(next), reserved) \in -Reserve..(Size - Reserve - 1)
      <3>1. Dist(Following(next), reserved) = 1 + Dist(next, reserved)
        BY <1>2, <2>2, DistAdds
      <3> QED BY <3>1, <2>2, <2>4, <1>4
    <2>6. Dist(Mark(next), reserved) >= 0
      <3>1. Dist(Mark(next), reserved) = Dist(Mark(next), next) + Dist(next, reserved)
        BY <1>2, <2>3, DistAdds
      <3> QED BY <3>1, <2>3, <2>4, <1>4
    <2>7. stored' \in Messages /\ Dist(stored', reserved) >= 0
      BY <2>1, <2>3, <2>6, <1>2, <1>3
    <2>8. TypeOK' /\ WindowInv' /\ BitmapExact'
      BY <1>1, <1>2, <2>1, <2>2, <2>7, WindowKept
    <2>9. ASSUME NEW m \in sent PROVE Dist(m, Following(next)) < 0
      <3>1. m \in Messages /\ Dist(m, next) \in Int /\ Dist(m, next) < 0
        BY <1>2, <1>3, DistType
      <3>2. Dist(m, Following(next)) \in Int
        BY <3>1, <2>2, DistType
      <3>3. Dist(m, next) = Dist(m, Following(next)) + Dist(Following(next), next)
        BY <3>1, <1>2, <2>2, DistAdds
      <3> QED BY <3>1, <3>2, <3>3, <2>2
    <2>10. reserved.lap <= Following(next).lap
      <3>1. reserved.lap \in Nat /\ next.lap \in Nat /\ Following(next).lap \in Nat
        BY <1>2, <2>2, DistType
      <3> QED BY <3>1, <1>3, <2>2
    <2>11. GroupInv'
      BY <2>1, <2>5, <2>7, <2>9, <2>10, <1>3 DEF GroupInv, Dist
    <2> QED BY <2>8, <2>11 DEF IInv
  <1>7. CASE RestartGroup
    <2>1. next' = Following(stored) /\ sent' = sent /\ reserved' = Mark(stored) /\ stored' = Mark(stored)
      BY <1>7 DEF RestartGroup
    <2>2. Following(stored) \in Messages /\ Dist(Following(stored), stored) = 1 /\ Following(stored).lap >= stored.lap
      BY <1>2, <1>7, FollowingType DEF RestartGroup
    <2>3. Mark(stored) \in Messages /\ Dist(Mark(stored), stored) \in 0..Reserve /\ Mark(stored).lap = stored.lap
      BY <1>2, MarkType
    <2>4. TypeOK' /\ WindowInv' /\ BitmapExact'
      BY <1>1, <1>2, <2>1, <2>2, <2>3, WindowKept
    <2>5. Dist(Following(stored), Mark(stored)) \in -Reserve..(Size - Reserve - 1)
      <3>1. Dist(Following(stored), stored) = Dist(Following(stored), Mark(stored)) + Dist(Mark(stored), stored)
        BY <1>2, <2>2, <2>3, DistAdds
      <3>2. Dist(Following(stored), Mark(stored)) \in Int
        BY <2>2, <2>3, DistType
      <3> QED BY <3>1, <3>2, <2>2, <2>3, <1>4
    <2>6. Dist(Mark(stored), Mark(stored)) >= 0
      BY <2>3, DistType
    <2>7. ASSUME NEW m \in sent
          PROVE  Dist(m, Following(stored)) < 0 /\ Dist(m, Mark(stored)) <= 0
      <3>1. m \in Messages /\ Dist(m, reserved) \in Int /\ Dist(m, reserved) <= 0
        BY <1>2, <1>3, DistType
      <3>2. /\ Dist(m, stored) \in Int /\ Dist(stored, reserved) \in Int
            /\ Dist(m, Following(stored)) \in Int /\ Dist(m, Mark(stored)) \in Int
        BY <3>1, <1>2, <2>2, <2>3, DistType
      <3>3. Dist(m, reserved) = Dist(m, stored) + Dist(stored, reserved)
        BY <3>1, <1>2, DistAdds
      <3>4. Dist(m, stored) = Dist(m, Following(stored)) + Dist(Following(stored), stored)
        BY <3>1, <1>2, <2>2, DistAdds
      <3>5. Dist(m, stored) = Dist(m, Mark(stored)) + Dist(Mark(stored), stored)
        BY <3>1, <1>2, <2>3, DistAdds
      <3> QED BY <3>1, <3>2, <3>3, <3>4, <3>5, <1>3, <1>4, <2>2, <2>3
    <2>8. GroupInv'
      BY <2>1, <2>2, <2>3, <2>5, <2>6, <2>7 DEF GroupInv, Dist
    <2> QED BY <2>4, <2>8 DEF IInv
  <1> QED BY <1>5, <1>6, <1>7

\* A session starts with an unprimed window and nothing sent.
LEMMA InitIInv == Init => IInv
  <1> SUFFICES ASSUME Init PROVE IInv
    OBVIOUS
  <1>1. PICK c \in Seeds :
            LET seed == [lap |-> 0, ctr |-> c]
            IN  /\ next = IF variant = "group" THEN Following(seed) ELSE seed
                /\ reserved = Mark(seed)
    BY DEF Init
  <1> DEFINE seed == [lap |-> 0, ctr |-> c]
  <1>2. seed \in Messages /\ seed.ctr # CounterMax /\ seed.lap = 0
    BY WindowAssumption DEF Messages, Wire
  <1> HIDE DEF seed
  <1>3. Following(seed) \in Messages /\ Dist(Following(seed), seed) = 1 /\ Following(seed).lap = 0
    BY <1>2, FollowingType
  <1>4. Mark(seed) \in Messages /\ Dist(Mark(seed), seed) \in 0..Reserve /\ Mark(seed).lap = 0
    BY <1>2, MarkType
  <1>5. /\ next = IF variant = "group" THEN Following(seed) ELSE seed
        /\ reserved = Mark(seed) /\ stored = Mark(seed)
    BY <1>1 DEF Init, seed
  <1>6. next \in Messages /\ next.lap = 0
    BY <1>2, <1>3, <1>5
  <1>7. TypeOK
    BY <1>4, <1>5, <1>6, WindowAssumption DEF Init, TypeOK, Wire, Bits
  <1>8. WindowInv /\ BitmapExact
    BY <1>6 DEF Init, WindowInv, BitmapExact
  <1>9. GroupInv
    <2>1. Dist(Following(seed), seed) = Dist(Following(seed), Mark(seed)) + Dist(Mark(seed), seed)
      BY <1>2, <1>3, <1>4, DistAdds
    <2>2. Dist(Following(seed), Mark(seed)) \in Int /\ Dist(Mark(seed), Mark(seed)) = 0
      BY <1>3, <1>4, DistType
    <2>3. Dist(Following(seed), Mark(seed)) \in -Reserve..(Size - Reserve - 1)
      BY <2>1, <2>2, <1>3, <1>4, WindowAssumption, SizeType
    <2> QED BY <2>2, <2>3, <1>3, <1>4, <1>5 DEF Init, GroupInv
  <1> QED BY <1>7, <1>8, <1>9 DEF IInv

\* Every step of the sender and every call of Accept keeps the invariant.
LEMMA NextIInv == IInv /\ [Next]_vars => IInv'
  <1> SUFFICES ASSUME IInv, [Next]_vars PROVE IInv'
    OBVIOUS
  <1>1. CASE Send \/ Restart
    BY <1>1, SenderKeeps
  <1>2. CASE SendGroup \/ ReserveFails \/ RestartGroup
    BY <1>2, GroupSenderKeeps
  <1>3. ASSUME NEW m \in sent, Receive(m) PROVE IInv'
    <2>1. UNCHANGED sender /\ (primed = "yes" => InReach(m))
      BY <1>3 DEF Receive
    <2>2. CASE Prime(m)
      BY <2>1, <2>2, PrimeKeeps
    <2>3. CASE Drop(m)
      <3>1. UNCHANGED <<variant, next, reserved, stored, sent, primed, max, bitmap, hi, first, accepted>> /\ verdict' = "duplicate"
        BY <2>1, <2>3 DEF Drop, window, sender, marks
      <3> QED BY <3>1 DEF IInv, TypeOK, WindowInv, GroupInv, BitmapExact, Dist
    <2>4. CASE FillIn(m)
      <3>1. primed = "yes" BY <2>4 DEF FillIn
      <3> QED BY <2>1, <2>4, <3>1, FillInKeeps
    <2>5. CASE Advance(m)
      <3>1. primed = "yes" BY <2>5 DEF Advance
      <3> QED BY <2>1, <2>5, <3>1, AdvanceKeeps
    <2> QED BY <1>3, <2>2, <2>3, <2>4, <2>5 DEF Receive
  <1>4. CASE UNCHANGED vars
    BY <1>4 DEF vars, IInv, TypeOK, WindowInv, GroupInv, BitmapExact, Dist
  <1> QED BY <1>1, <1>2, <1>3, <1>4 DEF Next

\* The invariant holds of every session.
LEMMA Invariance == Spec => []IInv
  BY InitIInv, NextIInv, PTL DEF Spec

-----------------------------------------------------------------------------
\* Every variable keeps its type; in particular Accept's shifts never set a bit
\* beyond the bitmap's width.
THEOREM TypeCorrect == Spec => []TypeOK
  <1>1. IInv => TypeOK
    BY DEF IInv
  <1> QED BY <1>1, Invariance, PTL

\* dataCounter never hands out a group counter twice, nor one behind another, whenever
\* the node restarts and whichever writes of the mark fail, on either side of the wrap.
THEOREM GroupCounterNeverReused == Spec => []GroupCounterFresh
  <1>1. ASSUME IInv PROVE GroupCounterFresh
    <2> SUFFICES ASSUME variant = "group", NEW m \in sent
                 PROVE  Dist(m, next) < 0 /\ Dist(m, stored) <= 0
      BY DEF GroupCounterFresh
    <2>1. /\ Dist(m, next) < 0 /\ Dist(m, reserved) <= 0 /\ Dist(stored, reserved) >= 0
      BY <1>1 DEF IInv, GroupInv
    <2>2. m \in Messages /\ reserved \in Messages /\ stored \in Messages
      BY <1>1 DEF IInv, TypeOK
    <2>3. /\ Dist(m, reserved) = Dist(m, stored) + Dist(stored, reserved)
          /\ Dist(m, stored) \in Int /\ Dist(stored, reserved) \in Int
      BY <2>2, DistAdds, DistType
    <2> QED BY <2>1, <2>3
  <1> QED BY <1>1, Invariance, PTL

\* Bit i of Window.bitmap is set exactly for a message that was accepted, or lies
\* below the anchor of an encrypted window, whatever order Accept saw them in.
THEOREM BitmapIsExact == Spec => []BitmapExact
  <1>1. IInv => BitmapExact
    BY DEF IInv
  <1> QED BY <1>1, Invariance, PTL

\* Accept returns true at most once for a message, for any loss, delay, reordering
\* and repetition.
THEOREM NoMessageTwice == Spec => NeverTwice
  <1>1. ASSUME IInv, NEW m \in sent, Receive(m), verdict' = "fresh"
        PROVE  m \notin accepted
    <2>1. primed = "yes" => InReach(m)
      BY <1>1 DEF Receive
    <2>2. CASE Prime(m)
      BY <1>1, <2>2 DEF Prime, IInv, WindowInv
    <2>3. CASE Drop(m)
      BY <1>1, <2>3 DEF Drop
    <2>4. CASE FillIn(m)
      <3>1. primed = "yes" /\ diff(m.ctr) < 0 /\ ~IsDuplicate(m.ctr)
        BY <2>4 DEF FillIn
      <3>2. m \in Messages /\ diff(m.ctr) = Dist(m, hi) /\ Dist(m, hi) \in Int
        BY <1>1, <2>1, <3>1, Arrival
      <3>3. Dist(m, hi) \in -WindowSize..(-1) /\ -Dist(m, hi) - 1 \notin bitmap
        BY <3>1, <3>2, WindowAssumption DEF IsDuplicate
      <3> QED BY <1>1, <3>1, <3>2, <3>3 DEF IInv, BitmapExact
    <2>5. CASE Advance(m)
      <3>1. primed = "yes" /\ diff(m.ctr) >= 0 /\ m.ctr # max
        BY <2>5 DEF Advance, IsDuplicate
      <3>2. /\ diff(m.ctr) = Dist(m, hi) /\ Dist(m, hi) \in Int /\ max = hi.ctr
            /\ Dist(m, hi) = 0 => m = hi
        BY <1>1, <2>1, <3>1, Arrival
      <3>3. Dist(m, hi) > 0
        BY <3>1, <3>2
      <3> QED BY <1>1, <3>1, <3>2, <3>3 DEF IInv, WindowInv
    <2> QED BY <1>1, <2>2, <2>3, <2>4, <2>5 DEF Receive
  <1>2. ASSUME IInv
        PROVE  [\A m \in sent : Receive(m) /\ verdict' = "fresh" => m \notin accepted]_vars
    BY <1>1, <1>2
  <1> QED BY <1>2, Invariance, PTL DEF NeverTwice

\* Accept refuses a message only if it accepted it before, or it is more than a
\* window behind, or it lies below the anchor of an encrypted window.
THEOREM NoMessageRefused == Spec => NoFalseDrop
  <1>1. ASSUME IInv, NEW m \in sent, Receive(m), verdict' = "duplicate"
        PROVE  \/ m \in accepted
               \/ Dist(m, hi) < -WindowSize
               \/ variant # "unsecured" /\ Dist(m, first) < 0
    <2>1. Drop(m)
      BY <1>1 DEF Receive, Prime, FillIn, Advance
    <2>2. primed = "yes" /\ IsDuplicate(m.ctr) /\ InReach(m)
      BY <1>1, <2>1 DEF Receive, Drop
    <2>3. /\ m \in Messages /\ hi \in accepted
          /\ diff(m.ctr) = Dist(m, hi) /\ Dist(m, hi) \in Int
          /\ m.ctr = max => m = hi
      BY <1>1, <2>2, Arrival
    <2>4. CASE m.ctr = max
      BY <2>3, <2>4
    <2>5. CASE m.ctr # max /\ Dist(m, hi) >= -WindowSize
      <3>1. Dist(m, hi) \in -WindowSize..(-1) /\ -Dist(m, hi) - 1 \in bitmap
        BY <2>2, <2>3, <2>5, WindowAssumption DEF IsDuplicate
      <3> QED BY <1>1, <2>2, <2>3, <3>1 DEF IInv, BitmapExact
    <2> QED BY <2>3, <2>4, <2>5, WindowAssumption
  <1>2. ASSUME IInv
        PROVE  [\A m \in sent : Receive(m) /\ verdict' = "duplicate" =>
                  \/ m \in accepted
                  \/ Dist(m, hi) < -WindowSize
                  \/ variant # "unsecured" /\ Dist(m, first) < 0]_vars
    BY <1>1, <1>2
  <1> QED BY <1>2, Invariance, PTL DEF NoFalseDrop
=============================================================================
