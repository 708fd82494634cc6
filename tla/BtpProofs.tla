----------------------------- MODULE BtpProofs ------------------------------
(***************************************************************************)
(* For any modulus, window, segment size and messages: two BTP sessions    *)
(* never close each other for a protocol error (PeersAgree), keep the      *)
(* window, lose no wakeup, cannot come to a standoff, and are a FIFO.      *)
(*                                                                         *)
(* Three things carry it.  The numbers of what one side has sent lie on an *)
(* arc of the circle of sequence numbers: what the sender knows to be      *)
(* acknowledged, what the receiver has acknowledged, what it has received, *)
(* what was sent last (Arc); the packets on the wire are the last piece.   *)
(* The two windows are never full at the same time and never both empty    *)
(* (Tension).  And the packets on the wire lead from where the receiver is *)
(* in the messages sent to where the sender is (Stream).                   *)
(***************************************************************************)
EXTENDS Btp, SequenceTheorems, TLAPS

Nums == SeqNumbers \cup {-1}
Octets == Seq(Nat \X Nat)
Entry == [data : Octets, off : Nat]
Packet == [seq : SeqNumbers, ack : Nums, data : Octets, begin : BOOLEAN, end : BOOLEAN, length : Nat]
Session ==
    [ active : BOOLEAN, fresh : BOOLEAN, inSeq : SeqNumbers, inAck : Nums, seq : Nums, acked : Nums,
      queue : Seq(Entry), out : Seq(Packet), by : {"handler", "other"},
      incoming : Octets, want : Nat, sendAck : BOOLEAN, ackReceive : BOOLEAN,
      handler : {"idle", "message", "queue", "immediate"} ]

\* The packet a session is writing is the one it numbered last.
Writing(s) == Len(s.out) <= 1 /\ (s.out # <<>> => s.out[1].seq = s.seq)

Types ==
    /\ ses \in [Sides -> Session]
    /\ wire \in [Sides -> Seq(Packet)]
    /\ link \in {"up", "down"}
    /\ sent \in [Sides -> Seq(Octets)]
    /\ delivered \in [Sides -> Seq(Octets)]
    /\ \A x \in Sides :
          /\ Writing(ses[x]) /\ Len(ses[x].incoming) <= ses[x].want
          /\ \A m \in 1 .. Len(sent[x]) : sent[x][m] # <<>>
    /\ link = "down" => \A x \in Sides : ~ses[x].active

\* What s has sent to r, in the order of the circle: acknowledged as far as s knows,
\* acknowledged by r, received by r, sent.
Arc(s, r) ==
    /\ ModularDistance(s.inAck, r.acked) + ModularDistance(r.acked, r.inSeq)
           + ModularDistance(r.inSeq, s.seq) = ModularDistance(s.inAck, s.seq)
    /\ ModularDistance(s.inAck, s.seq) <= WindowSize
    /\ ModularDistance(r.acked, r.inSeq) = 0 => r.acked = r.inSeq

\* The packets w from s to r are the ones r has yet to receive.
Numbered(s, r, w) ==
    /\ Len(w) <= ModularDistance(r.inSeq, s.seq)
    /\ r.active => /\ Len(w) = ModularDistance(r.inSeq, s.seq)
                   /\ \A j \in 1 .. Len(w) : ModularDistance(r.inSeq, w[j].seq) = j

\* The acks in v, from r to s, are ever newer, and the last one is all that r has
\* acknowledged.
Acks(s, r, v) ==
    s.active =>
        /\ \A j \in 1 .. Len(v) : v[j].ack # NoAck =>
              ModularDistance(v[j].ack, r.acked) <= ModularDistance(s.inAck, r.acked)
        /\ \A j, l \in 1 .. Len(v) : j < l /\ v[j].ack # NoAck /\ v[l].ack # NoAck =>
              ModularDistance(v[l].ack, r.acked) <= ModularDistance(v[j].ack, r.acked)
        /\ ModularDistance(s.inAck, r.acked) # 0 => \E j \in 1 .. Len(v) : v[j].ack = r.acked /\ v[j].ack # NoAck

\* What r has not acknowledged of s.
Open(s, r) == ModularDistance(r.acked, s.seq)

\* Some packet waits for its ack, and the two windows are not both full.
Tension(s, r) == Open(s, r) + Open(r, s) \in 1 .. 2 * WindowSize - 1

Numbers(s, r, w, v) ==
    /\ Arc(s, r) /\ Numbered(s, r, w) /\ Acks(s, r, v)
    /\ Arc(r, s) /\ Numbered(r, s, v) /\ Acks(r, s, w)
    /\ Tension(s, r)

\* Packet p takes its receiver from place a in the messages S to place b; a place is a
\* message and how much of it there has been.
Carries(S, p, a, b) ==
    IF p.data = <<>> THEN ~p.begin /\ ~p.end /\ b = a
    ELSE /\ a[1] \in 1 .. Len(S)
         /\ p.begin <=> a[2] = 0
         /\ p.begin => p.length = Len(S[a[1]])
         /\ a[2] + Len(p.data) <= Len(S[a[1]])
         /\ \A i \in 1 .. Len(p.data) : p.data[i] = S[a[1]][a[2] + i]
         /\ p.end <=> a[2] + Len(p.data) = Len(S[a[1]])
         /\ b = IF p.end THEN <<a[1] + 1, 0>> ELSE <<a[1], a[2] + Len(p.data)>>

\* Receiver r, to whom D has been delivered, is at place a.
ReceiverAt(S, r, D, a) ==
    /\ a = <<Len(D) + 1, Len(r.incoming)>>
    /\ IF r.incoming = <<>> THEN r.want = 0
       ELSE /\ a[1] \in 1 .. Len(S)
            /\ r.want = Len(S[a[1]]) /\ a[2] < r.want
            /\ \A i \in 1 .. Len(r.incoming) : r.incoming[i] = S[a[1]][i]

\* The queue of s holds the messages that are not sent; the first may be under way, and
\* is all sent only while its last segment is being written.
Queue(S, s) ==
    /\ Len(s.queue) <= Len(S)
    /\ \A j \in 1 .. Len(s.queue) : s.queue[j].data = S[Len(S) - Len(s.queue) + j]
    /\ \A j \in 2 .. Len(s.queue) : s.queue[j].off = 0
    /\ s.queue # <<>> => s.queue[1].off <= Len(s.queue[1].data)
    /\ s.out # <<>> /\ s.out[1].data # <<>> => s.queue # <<>>
    /\ s.out # <<>> /\ s.out[1].end => s.out[1].data # <<>>
    /\ s.queue # <<>> =>
          (s.queue[1].off = Len(s.queue[1].data) <=> s.out # <<>> /\ s.out[1].end)

\* Where sender s is.
Place(S, s) ==
    IF s.queue = <<>> THEN <<Len(S) + 1, 0>>
    ELSE IF s.queue[1].off = Len(s.queue[1].data) THEN <<Len(S) - Len(s.queue) + 2, 0>>
    ELSE <<Len(S) - Len(s.queue) + 1, s.queue[1].off>>

\* The packets w lead from where r is to where s is.
Leads(S, s, r, w, D, f) ==
    /\ ReceiverAt(S, r, D, f[0])
    /\ \A j \in 1 .. Len(w) : Carries(S, w[j], f[j - 1], f[j])
    /\ s.active => f[Len(w)] = Place(S, s)

Stream(S, s, r, w, D) ==
    /\ s.active => Queue(S, s)
    /\ r.active => \E f \in [0 .. Len(w) -> Nat \X Nat] : Leads(S, s, r, w, D, f)

\* No goroutine leaves a queue that the window admits.
Awake(s) ==
    s.active /\ s.out = <<>> /\ s.handler = "idle" /\ s.queue # <<>> => ~CanSend(s, Owes(s))

\* The inductive invariant.
IInv ==
    /\ Types
    /\ \A x \in Sides :
          /\ Numbers(ses[x], ses[Peer(x)], wire[x], wire[Peer(x)])
          /\ Stream(sent[x], ses[x], ses[Peer(x)], wire[x], delivered[Peer(x)])
          /\ Awake(ses[x])

-----------------------------------------------------------------------------

\* The constants, as the proofs use them.
LEMMA Constants ==
    /\ Mod \in Nat /\ Mod > 1 /\ WindowSize \in Nat /\ WindowSize > 0 /\ WindowSize < Mod
    /\ FragmentSize \in Nat /\ FragmentSize > 5
<1>1. Mod \in Nat /\ WindowSize \in 1 .. Mod - 1 /\ FragmentSize \in Nat /\ FragmentSize > 5
  BY BtpAssumption
<1> QED
  BY <1>1

\* The remainder of what a difference of two numbers of the circle can be.
LEMMA Folded ==
    ASSUME NEW M \in Nat, M > 0, NEW k \in Int, k >= 0, k <= 2 * M
    PROVE  k % M = IF k < M THEN k ELSE IF k < 2 * M THEN k - M ELSE 0
<1>1. CASE k < M
  BY <1>1
<1>2. CASE k >= M /\ k < 2 * M
  BY <1>2
<1>3. CASE k = 2 * M
  BY <1>3
<1> QED
  BY <1>1, <1>2, <1>3

\* modularDistance without the remainder.
LEMMA Distance ==
    ASSUME NEW a \in Nums, NEW b \in Nums
    PROVE  /\ a \in Int /\ a >= -1 /\ a < Mod /\ b \in Int /\ b >= -1 /\ b < Mod
           /\ ModularDistance(a, b) = IF b - a = Mod \/ a - b = Mod THEN 0
                                      ELSE IF b >= a THEN b - a ELSE b - a + Mod
           /\ ModularDistance(a, b) \in 0 .. Mod - 1
<1>1. a \in Int /\ a >= -1 /\ a < Mod /\ b \in Int /\ b >= -1 /\ b < Mod
  BY Constants DEF Nums, SeqNumbers
<1>2. b - a + Mod \in Int /\ b - a + Mod >= 0 /\ b - a + Mod <= 2 * Mod
  BY <1>1, Constants
<1>3. ModularDistance(a, b) = IF b - a + Mod < Mod THEN b - a + Mod
                              ELSE IF b - a + Mod < 2 * Mod THEN b - a ELSE 0
  <2>1. (b - a + Mod) % Mod = IF b - a + Mod < Mod THEN b - a + Mod
              ELSE IF b - a + Mod < 2 * Mod THEN b - a + Mod - Mod ELSE 0
    <3> DEFINE k == b - a + Mod
    <3>1. k \in Int /\ k >= 0 /\ k <= 2 * Mod /\ Mod \in Nat /\ Mod > 0
      BY <1>2, Constants
    <3> HIDE DEF k
    <3>2. k % Mod = IF k < Mod THEN k ELSE IF k < 2 * Mod THEN k - Mod ELSE 0
      BY ONLY <3>1, Folded
    <3> QED
      BY <1>1, <3>1, <3>2 DEF k
  <2> QED
    BY <1>1, <2>1, Constants DEF ModularDistance
<1> QED
  BY <1>1, <1>3, Constants

\* A piece of the circle may be cut at any number in it.
LEMMA Cut ==
    ASSUME NEW a \in Nums, NEW b \in Nums, NEW c \in Nums,
           \/ ModularDistance(a, b) + ModularDistance(b, c) < Mod
           \/ ModularDistance(a, b) <= ModularDistance(a, c)
           \/ ModularDistance(b, c) <= ModularDistance(a, c)
    PROVE  ModularDistance(a, b) + ModularDistance(b, c) = ModularDistance(a, c)
BY Distance, Constants

\* The number after the last one is one further away.
LEMMA OneMore ==
    ASSUME NEW a \in Nums, NEW s \in Session, ModularDistance(a, s.seq) + 1 < Mod
    PROVE  /\ NextSequenceNumber(s) \in SeqNumbers
           /\ ModularDistance(a, NextSequenceNumber(s)) = ModularDistance(a, s.seq) + 1
<1>1. s.seq \in Nums
  BY DEF Session
<1> DEFINE n == NextSequenceNumber(s)
<1>2. n = IF s.seq + 1 = Mod THEN 0 ELSE s.seq + 1
  BY DEF NextSequenceNumber
<1>3. n \in SeqNumbers /\ n \in Nums
  BY <1>1, <1>2, Constants DEF Nums, SeqNumbers
<1> HIDE DEF n
<1>4. ModularDistance(a, n) = ModularDistance(a, s.seq) + 1
  <2> DEFINE q == s.seq
             m == ModularDistance(a, q)
  <2>1. /\ a \in Int /\ a >= -1 /\ a < Mod /\ q \in Int /\ q >= -1 /\ q < Mod
        /\ m = IF q - a = Mod \/ a - q = Mod THEN 0 ELSE IF q >= a THEN q - a ELSE q - a + Mod
    BY <1>1, Distance
  <2>2. ModularDistance(a, n) = IF n - a = Mod \/ a - n = Mod THEN 0 ELSE IF n >= a THEN n - a ELSE n - a + Mod
    BY <1>3, Distance
  <2>3. n = IF q + 1 = Mod THEN 0 ELSE q + 1
    BY <1>2
  <2> HIDE DEF q, m
  <2>4. m + 1 < Mod
    BY DEF m, q
  <2> QED
    BY <2>1, <2>2, <2>3, <2>4, Constants DEF m, q
<1> QED
  BY <1>3, <1>4 DEF n

\* Distance 0 and 1 on the circle.
LEMMA Near ==
    ASSUME NEW a \in SeqNumbers, NEW b \in SeqNumbers
    PROVE  /\ ModularDistance(a, b) = 0 <=> a = b
           /\ ModularDistance(a, b) = 1 => b = (a + 1) % Mod
<1>1. a \in Nums /\ b \in Nums /\ a \in Nat /\ b \in Nat
  BY Constants DEF Nums, SeqNumbers
<1>2. ModularDistance(a, b) = 0 <=> a = b
  BY <1>1, Distance, Constants
<1>3. ASSUME ModularDistance(a, b) = 1 PROVE b = (a + 1) % Mod
  <2>1. b = IF a + 1 = Mod THEN 0 ELSE a + 1
    BY <1>1, <1>3, Distance, Constants
  <2>2. a + 1 \in Int /\ a + 1 >= 0 /\ a + 1 <= Mod
    BY <1>1, Distance, Constants
  <2>3. (a + 1) % Mod = IF a + 1 < Mod THEN a + 1 ELSE IF a + 1 < 2 * Mod THEN a + 1 - Mod ELSE 0
    <3> DEFINE k == a + 1
    <3>1. k \in Int /\ k >= 0 /\ k <= 2 * Mod /\ Mod \in Nat /\ Mod > 0
      BY <2>2, Constants
    <3> HIDE DEF k
    <3>2. k % Mod = IF k < Mod THEN k ELSE IF k < 2 * Mod THEN k - Mod ELSE 0
      BY ONLY <3>1, Folded
    <3> QED
      BY <1>1, <3>1, <3>2 DEF k
  <2> QED
    BY <1>1, <2>1, <2>2, <2>3, Constants
<1> QED
  BY <1>2, <1>3

-----------------------------------------------------------------------------
\* The numbers.

\* A distance is a natural number below the modulus.
LEMMA DistanceType ==
    \A a, b \in Nums : ModularDistance(a, b) \in Nat /\ ModularDistance(a, b) < Mod
BY Distance, Constants

\* The fields of a session that hold sequence numbers.
LEMMA Fields ==
    ASSUME NEW s \in Session
    PROVE  /\ s.inSeq \in SeqNumbers /\ s.inSeq \in Nums /\ s.inAck \in Nums
           /\ s.seq \in Nums /\ s.acked \in Nums /\ s.active \in BOOLEAN
BY DEF Session, Nums

\* Both directions are treated alike.
LEMMA Mirror ==
    ASSUME NEW s \in Session, NEW r \in Session, NEW w, NEW v, Numbers(s, r, w, v)
    PROVE  Numbers(r, s, v, w)
<1>1. Open(s, r) \in Nat /\ Open(r, s) \in Nat
  BY Fields, DistanceType DEF Open
<1>2. Tension(r, s)
  BY <1>1 DEF Numbers, Tension
<1> QED
  BY <1>2 DEF Numbers

\* What a step must leave as it is.
LEMMA Undisturbed ==
    ASSUME NEW s, NEW t, NEW r, NEW w, NEW v, Numbers(s, r, w, v), t.active => s.active,
           t.seq = s.seq, t.acked = s.acked, t.inSeq = s.inSeq, t.inAck = s.inAck
    PROVE  Numbers(t, r, w, v)
BY DEF Numbers, Arc, Numbered, Acks, Tension, Open

\* r's part of the arc has room: what is open is at most the window.
LEMMA Parts ==
    ASSUME NEW s \in Session, NEW r \in Session, Arc(s, r)
    PROVE  /\ Open(s, r) = ModularDistance(r.acked, r.inSeq) + ModularDistance(r.inSeq, s.seq)
           /\ ModularDistance(s.inAck, r.acked) + Open(s, r) = ModularDistance(s.inAck, s.seq)
           /\ Open(s, r) \in Nat /\ Open(s, r) <= WindowSize
<1> DEFINE A == ModularDistance(s.inAck, r.acked)
           B == ModularDistance(r.acked, r.inSeq)
           C == ModularDistance(r.inSeq, s.seq)
           W == ModularDistance(s.inAck, s.seq)
<1>1. A \in Nat /\ B \in Nat /\ C \in Nat /\ W \in Nat
  BY Fields, DistanceType
<1>2. A + B + C = W /\ W <= WindowSize
  BY DEF Arc
<1>3. B + C < Mod
  BY <1>1, <1>2, Constants
<1>4. B + C = Open(s, r)
  BY <1>3, Fields, Cut DEF Open
<1> QED
  BY <1>1, <1>2, <1>4, Constants

\* A packet p from s to r, with the ack that s owes, keeps the numbers.
LEMMA Emission ==
    ASSUME NEW s \in Session, NEW t \in Session, NEW r \in Session,
           NEW w \in Seq(Packet), NEW v \in Seq(Packet), NEW p \in Packet,
           Numbers(s, r, w, v), s.active, t.active, CanSend(s, Owes(s)),
           t.seq = NextSequenceNumber(s), t.acked = s.inSeq, t.inSeq = s.inSeq, t.inAck = s.inAck,
           p.seq = t.seq, p.ack = IF Owes(s) THEN s.inSeq ELSE NoAck
    PROVE  Numbers(t, r, w \o <<p>>, v)
<1> DEFINE W == w \o <<p>>
           a == ModularDistance(s.inAck, r.acked)
           b == ModularDistance(r.acked, r.inSeq)
           c == ModularDistance(r.inSeq, s.seq)
           q == ModularDistance(s.inAck, s.seq)
           d == ModularDistance(r.inAck, s.acked)
           e == ModularDistance(s.acked, s.inSeq)
           f == ModularDistance(s.inSeq, r.seq)
           g == ModularDistance(r.inAck, r.seq)
<1>1. /\ W \in Seq(Packet) /\ Len(W) = Len(w) + 1 /\ W[Len(w) + 1] = p
      /\ \A j \in 1 .. Len(w) : W[j] = w[j]
      /\ Len(w) \in Nat
  OBVIOUS
<1>2. /\ a \in Nat /\ b \in Nat /\ c \in Nat /\ q \in Nat
      /\ d \in Nat /\ e \in Nat /\ f \in Nat /\ g \in Nat
      /\ Open(s, r) \in Nat /\ Open(r, s) \in Nat
  BY Fields, DistanceType DEF Open
<1>3. /\ a + b + c = q /\ q <= WindowSize /\ (b = 0 => r.acked = r.inSeq)
      /\ d + e + f = g /\ g <= WindowSize /\ (e = 0 => s.acked = s.inSeq)
  BY DEF Numbers, Arc
<1>4. q < WindowSize /\ (q + 1 < WindowSize \/ Owes(s))
  BY <1>2, Constants DEF CanSend, RemoteWindowFreeSlots, WindowNoAckSendThreshold
<1>5. /\ ModularDistance(s.inAck, t.seq) = q + 1
      /\ ModularDistance(r.inSeq, t.seq) = c + 1
      /\ t.seq \in SeqNumbers
  <2>1. q + 1 < Mod /\ c + 1 < Mod
    <3> HIDE DEF a, b, c, q
    <3>1. c <= q
      BY <1>2, <1>3
    <3> QED
      BY <1>2, <1>4, <3>1, Constants
  <2>2. s.inAck \in Nums /\ r.inSeq \in Nums
    BY Fields
  <2>3. NextSequenceNumber(s) \in SeqNumbers /\ ModularDistance(s.inAck, NextSequenceNumber(s)) = q + 1
    BY <2>1, <2>2, OneMore
  <2>4. ModularDistance(r.inSeq, NextSequenceNumber(s)) = c + 1
    BY <2>1, <2>2, OneMore
  <2> QED
    BY <2>3, <2>4
<1>6. Open(t, r) = Open(s, r) + 1
  <2>1. a + Open(s, r) = q
    BY Parts DEF Numbers
  <2>2. Open(s, r) + 1 < Mod
    <3> HIDE DEF a, q
    <3> QED
      BY <1>2, <1>4, <2>1, Constants
  <2>3. r.acked \in Nums
    BY Fields
  <2> QED
    BY <2>2, <2>3, OneMore DEF Open
<1>7. Arc(t, r)
  <2>1. /\ ModularDistance(t.inAck, r.acked) = a /\ ModularDistance(r.acked, r.inSeq) = b
        /\ ModularDistance(r.inSeq, t.seq) = c + 1 /\ ModularDistance(t.inAck, t.seq) = q + 1
    BY <1>5
  <2> HIDE DEF a, b, c, q
  <2>2. a + b + (c + 1) = q + 1 /\ q + 1 <= WindowSize
    BY <1>2, <1>3, <1>4, Constants
  <2>3. b = 0 => r.acked = r.inSeq
    BY <1>3
  <2> QED
    BY <2>1, <2>2, <2>3 DEF Arc
<1>8. /\ ModularDistance(t.acked, t.inSeq) = 0 /\ t.acked = t.inSeq
      /\ ModularDistance(r.inAck, t.acked) = d + e
      /\ Open(r, t) = f
  <2>1. ModularDistance(s.inSeq, s.inSeq) = 0
    BY Fields, Near
  <2>2. ModularDistance(r.inAck, s.inSeq) = d + e
    <3>1. d + e < Mod
      <4> HIDE DEF d, e, f, g
      <4>1. d + e <= g
        BY <1>2, <1>3
      <4> QED
        BY <1>2, <1>3, <4>1, Constants
    <3>2. r.inAck \in Nums /\ s.acked \in Nums /\ s.inSeq \in Nums
      BY Fields
    <3> QED
      BY <3>1, <3>2, Cut
  <2> QED
    BY <2>1, <2>2 DEF Open
<1>9. Arc(r, t)
  BY <1>2, <1>3, <1>8 DEF Arc
<1> HIDE DEF W, a, b, c, d, e, f, g, q
<1>10. Numbered(t, r, W)
  <2>1. Len(w) <= c /\ (r.active => Len(w) = c /\ \A j \in 1 .. Len(w) : ModularDistance(r.inSeq, w[j].seq) = j)
    BY DEF Numbers, Numbered, c
  <2>2. Len(W) <= ModularDistance(r.inSeq, t.seq)
    BY <1>1, <1>2, <1>5, <2>1
  <2>3. ASSUME r.active, NEW j \in 1 .. Len(W) PROVE ModularDistance(r.inSeq, W[j].seq) = j
    <3>1. CASE j = Len(w) + 1
      BY <1>1, <1>2, <1>5, <2>1, <2>3, <3>1
    <3>2. CASE j \in 1 .. Len(w)
      BY <1>1, <2>1, <2>3, <3>2
    <3> QED
      BY <1>1, <3>1, <3>2
  <2>4. r.active => Len(W) = ModularDistance(r.inSeq, t.seq)
    BY <1>1, <1>2, <1>5, <2>1
  <2> QED
    BY <2>2, <2>3, <2>4 DEF Numbered
<1>11. Numbered(r, t, v) /\ Acks(t, r, v)
  BY DEF Numbers, Numbered, Acks
<1>12. Acks(r, t, W)
  <2> SUFFICES ASSUME r.active PROVE Acks(r, t, W)
    BY DEF Acks
  <2>1. /\ \A j \in 1 .. Len(w) : w[j].ack # NoAck => ModularDistance(w[j].ack, s.acked) <= d
        /\ \A j, l \in 1 .. Len(w) : j < l /\ w[j].ack # NoAck /\ w[l].ack # NoAck =>
              ModularDistance(w[l].ack, s.acked) <= ModularDistance(w[j].ack, s.acked)
        /\ d # 0 => \E j \in 1 .. Len(w) : w[j].ack = s.acked /\ w[j].ack # NoAck
    BY DEF Numbers, Acks, d
  <2>2. \A j \in 1 .. Len(w) : w[j].ack \in Nums
    <3>1. \A j \in 1 .. Len(w) : w[j] \in Packet
      OBVIOUS
    <3> QED
      BY <3>1 DEF Packet
  <2>3. ASSUME NEW j \in 1 .. Len(w), w[j].ack # NoAck
        PROVE  ModularDistance(w[j].ack, t.acked) = ModularDistance(w[j].ack, s.acked) + e
    <3>1. ModularDistance(w[j].ack, s.acked) \in Nat
      BY <2>2, Fields, DistanceType
    <3>2. ModularDistance(w[j].ack, s.acked) + e < Mod
      BY <1>2, <1>3, <2>1, <2>3, <3>1, Constants
    <3> QED
      BY <2>2, <3>2, Fields, Cut DEF e
  <2>4. \A j \in 1 .. Len(w) : ModularDistance(w[j].ack, s.acked) \in Nat
    BY <2>2, Fields, DistanceType
  <2>5. CASE Owes(s)
    <3>1. p.ack = t.acked /\ p.ack # NoAck
      BY <2>5, Fields, Constants DEF NoAck, SeqNumbers
    <3>2. ModularDistance(p.ack, t.acked) = 0
      BY <1>8, <3>1
    <3>3. ASSUME NEW j \in 1 .. Len(W), W[j].ack # NoAck
          PROVE  ModularDistance(W[j].ack, t.acked) <= d + e
      <4>1. CASE j = Len(w) + 1
        BY <1>1, <1>2, <3>2, <4>1
      <4>2. CASE j \in 1 .. Len(w)
        <5>1. W[j] = w[j] /\ w[j].ack # NoAck
          BY <1>1, <3>3, <4>2
        <5>2. /\ ModularDistance(w[j].ack, t.acked) = ModularDistance(w[j].ack, s.acked) + e
              /\ ModularDistance(w[j].ack, s.acked) <= d /\ ModularDistance(w[j].ack, s.acked) \in Nat
          BY <2>1, <2>3, <2>4, <4>2, <5>1
        <5> QED
          BY <1>2, <5>1, <5>2
      <4> QED
        BY <1>1, <4>1, <4>2
    <3>4. ASSUME NEW j \in 1 .. Len(W), NEW l \in 1 .. Len(W), j < l, W[j].ack # NoAck, W[l].ack # NoAck
          PROVE  ModularDistance(W[l].ack, t.acked) <= ModularDistance(W[j].ack, t.acked)
      <4>1. j \in 1 .. Len(w) /\ W[j] = w[j]
        BY <1>1, <3>4
      <4>2. CASE l = Len(w) + 1
        BY <1>1, <1>2, <2>3, <2>4, <3>2, <3>4, <4>1, <4>2
      <4>3. CASE l \in 1 .. Len(w)
        <5>1. W[l] = w[l] /\ w[l].ack # NoAck /\ w[j].ack # NoAck
          BY <1>1, <3>4, <4>1, <4>3
        <5>2. ModularDistance(w[l].ack, s.acked) <= ModularDistance(w[j].ack, s.acked)
          BY <2>1, <3>4, <4>1, <4>3, <5>1
        <5>3. /\ ModularDistance(w[l].ack, t.acked) = ModularDistance(w[l].ack, s.acked) + e
              /\ ModularDistance(w[j].ack, t.acked) = ModularDistance(w[j].ack, s.acked) + e
          BY <2>3, <4>1, <4>3, <5>1
        <5> QED
          BY <1>2, <2>4, <4>1, <4>3, <5>1, <5>2, <5>3
      <4> QED
        BY <1>1, <4>2, <4>3
    <3>5. \E j \in 1 .. Len(W) : W[j].ack = t.acked /\ W[j].ack # NoAck
      BY <1>1, <3>1
    <3> QED
      BY <1>8, <3>3, <3>4, <3>5 DEF Acks
  <2>6. CASE ~Owes(s)
    <3>1. p.ack = NoAck /\ s.acked = s.inSeq
      BY <2>6 DEF Owes
    <3>2. t.acked = s.acked
      BY <3>1
    <3>3. \A j \in 1 .. Len(W) : W[j].ack # NoAck => j \in 1 .. Len(w) /\ W[j] = w[j]
      BY <1>1, <3>1
    <3>4. \A j \in 1 .. Len(w) : j \in 1 .. Len(W) /\ W[j] = w[j]
      BY <1>1
    <3>5. ASSUME NEW j \in 1 .. Len(W), W[j].ack # NoAck
          PROVE  ModularDistance(W[j].ack, t.acked) <= d
      BY <2>1, <3>2, <3>3, <3>5
    <3>6. ASSUME NEW j \in 1 .. Len(W), NEW l \in 1 .. Len(W), j < l, W[j].ack # NoAck, W[l].ack # NoAck
          PROVE  ModularDistance(W[l].ack, t.acked) <= ModularDistance(W[j].ack, t.acked)
      BY <2>1, <3>2, <3>3, <3>6
    <3>7. d # 0 => \E j \in 1 .. Len(W) : W[j].ack = t.acked /\ W[j].ack # NoAck
      BY <2>1, <3>2, <3>4
    <3>8. ModularDistance(r.inAck, t.acked) = d
      BY <3>2 DEF d
    <3> QED
      BY <3>5, <3>6, <3>7, <3>8 DEF Acks
  <2> QED
    BY <2>5, <2>6
<1>13. Tension(t, r)
  <2>1. Open(s, r) + Open(r, s) \in 1 .. 2 * WindowSize - 1 /\ Open(r, s) = e + f /\ Open(s, r) <= q
    <3>1. Open(r, s) = e + f
      BY Parts DEF Numbers, e, f
    <3>2. a + Open(s, r) = q
      BY Parts DEF Numbers, a, q
    <3> QED
      BY <1>2, <3>1, <3>2 DEF Numbers, Tension
  <2>2. CASE q + 1 < WindowSize
    BY <1>2, <1>3, <1>6, <1>8, <2>1, <2>2, Constants DEF Tension
  <2>3. CASE Owes(s)
    <3>1. e # 0
      BY <1>3, <2>3 DEF Owes
    <3> QED
      BY <1>2, <1>3, <1>4, <1>6, <1>8, <2>1, <3>1, Constants DEF Tension
  <2> QED
    BY <1>4, <2>2, <2>3
<1> QED
  BY <1>7, <1>9, <1>10, <1>11, <1>12, <1>13 DEF Numbers, W

\* The next packet passes the checks of the numbers.
LEMMA NumbersAgree ==
    ASSUME NEW s \in Session, NEW r \in Session, NEW w \in Seq(Packet), NEW v \in Seq(Packet),
           Numbers(s, r, w, v), s.active, v # <<>>
    PROVE  Head(v).seq = (s.inSeq + 1) % Mod /\ AckInOutstanding(s, Head(v))
<1> DEFINE p == Head(v)
<1>1. p \in Packet /\ p = v[1] /\ 1 \in 1 .. Len(v)
  OBVIOUS
<1>2. p.seq \in SeqNumbers /\ p.ack \in Nums
  BY <1>1 DEF Packet
<1>3. ModularDistance(s.inSeq, p.seq) = 1
  BY <1>1 DEF Numbers, Numbered
<1>4. ASSUME p.ack # NoAck
      PROVE  ModularDistance(s.inAck, p.ack) <= ModularDistance(s.inAck, s.seq)
  <2> DEFINE a == ModularDistance(s.inAck, r.acked)
             b == ModularDistance(p.ack, r.acked)
  <2>1. b <= a
    BY <1>1, <1>4 DEF Numbers, Acks
  <2>2. ModularDistance(s.inAck, p.ack) + b = a
    BY <1>2, <2>1, Fields, Cut
  <2>3. a + Open(s, r) = ModularDistance(s.inAck, s.seq) /\ Open(s, r) \in Nat
    BY Parts DEF Numbers
  <2>4. a \in Nat /\ b \in Nat /\ ModularDistance(s.inAck, p.ack) \in Nat
    BY <1>2, Fields, DistanceType
  <2> QED
    BY <2>2, <2>3, <2>4
<1>5. p.seq = (s.inSeq + 1) % Mod
  BY <1>2, <1>3, Fields, Near
<1> QED
  BY <1>4, <1>5 DEF AckInOutstanding

\* A session that takes the next packet keeps the numbers.
LEMMA Reception ==
    ASSUME NEW s \in Session, NEW t \in Session, NEW r \in Session,
           NEW w \in Seq(Packet), NEW v \in Seq(Packet),
           Numbers(s, r, w, v), s.active, v # <<>>,
           t.seq = s.seq, t.acked = s.acked, t.inSeq = Head(v).seq,
           t.inAck = IF Head(v).ack = NoAck THEN s.inAck ELSE Head(v).ack
    PROVE  Numbers(t, r, w, Tail(v))
<1> DEFINE p == Head(v)
           V == Tail(v)
           a == ModularDistance(s.inAck, r.acked)
           b == ModularDistance(t.inAck, r.acked)
           d == ModularDistance(r.inAck, s.acked)
           e == ModularDistance(s.acked, s.inSeq)
           f == ModularDistance(s.inSeq, r.seq)
           g == ModularDistance(r.inAck, r.seq)
<1>1. /\ p \in Packet /\ p = v[1] /\ V \in Seq(Packet) /\ Len(v) \in Nat /\ Len(V) = Len(v) - 1
      /\ Len(v) > 0 /\ \A j \in 1 .. Len(V) : V[j] = v[j + 1] /\ j + 1 \in 1 .. Len(v)
  OBVIOUS
<1>2. p.seq \in SeqNumbers /\ p.seq \in Nums /\ p.ack \in Nums
  BY <1>1 DEF Packet, Nums
<1>3. \A j \in 1 .. Len(v) : v[j].seq \in Nums /\ v[j].ack \in Nums
  <2>1. \A j \in 1 .. Len(v) : v[j] \in Packet
    OBVIOUS
  <2> QED
    BY <2>1 DEF Packet, Nums
<1>4. /\ a \in Nat /\ b \in Nat /\ d \in Nat /\ e \in Nat /\ f \in Nat /\ g \in Nat
      /\ d + e + f = g /\ g <= WindowSize
  <2>1. a \in Nat /\ b \in Nat /\ d \in Nat /\ e \in Nat /\ f \in Nat /\ g \in Nat
    BY Fields, DistanceType
  <2> QED
    BY <2>1 DEF Numbers, Arc
<1>5. /\ f = Len(v)
      /\ \A j \in 1 .. Len(v) : ModularDistance(s.inSeq, v[j].seq) = j
  BY DEF Numbers, Numbered
<1>6. ModularDistance(s.inSeq, p.seq) = 1
  BY <1>1, <1>5
<1>7. ModularDistance(s.acked, p.seq) = e + 1
  <2>1. e + 1 < Mod
    BY <1>1, <1>4, <1>5, Constants
  <2> QED
    BY <1>2, <1>6, <2>1, Fields, Cut
<1>8. ModularDistance(p.seq, r.seq) = f - 1
  <2>0. r.seq \in Nums
    BY Fields
  <2>1. 1 <= f /\ ModularDistance(p.seq, r.seq) \in Nat
    <3>1. ModularDistance(p.seq, r.seq) \in Nat
      BY <1>2, <2>0, DistanceType
    <3> QED
      BY <1>1, <1>5, <3>1
  <2>2. 1 + ModularDistance(p.seq, r.seq) = f
    BY <1>2, <1>6, <2>1, Fields, Cut
  <2> QED
    BY <1>4, <2>1, <2>2
<1>9. Arc(r, t)
  BY <1>4, <1>7, <1>8 DEF Arc
<1>10. Numbered(r, t, V)
  <2>1. ASSUME NEW j \in 1 .. Len(V) PROVE ModularDistance(p.seq, V[j].seq) = j
    <3>1. ModularDistance(s.inSeq, v[j + 1].seq) = j + 1 /\ v[j + 1].seq \in Nums /\ j \in Nat
      BY <1>1, <1>3, <1>5
    <3>2. ModularDistance(p.seq, v[j + 1].seq) \in Nat
      BY <1>2, <3>1, DistanceType
    <3>3. 1 + ModularDistance(p.seq, v[j + 1].seq) = j + 1
      BY <1>2, <1>6, <3>1, Fields, Cut
    <3> QED
      BY <1>1, <3>1, <3>2, <3>3
  <2>2. Len(V) = ModularDistance(p.seq, r.seq)
    BY <1>1, <1>4, <1>5, <1>8
  <2> HIDE DEF V
  <2> QED
    BY <1>1, <2>1, <2>2 DEF Numbered
<1>11. b <= a /\ ModularDistance(t.inAck, s.seq) = b + Open(s, r)
  <2>1. Open(s, r) \in Nat /\ a + Open(s, r) = ModularDistance(s.inAck, s.seq) /\ ModularDistance(s.inAck, s.seq) <= WindowSize
    BY Parts DEF Numbers, Arc
  <2>2. CASE p.ack = NoAck
    BY <1>4, <2>1, <2>2
  <2>3. CASE p.ack # NoAck
    <3>1. b <= a
      BY <1>1, <2>3 DEF Numbers, Acks
    <3>2. b + Open(s, r) < Mod
      BY <1>4, <2>1, <3>1, Constants
    <3> QED
      BY <3>1, <3>2, Fields, Cut DEF Open
  <2> QED
    BY <2>2, <2>3
<1>12. Arc(t, r)
  <2>1. /\ Open(s, r) = ModularDistance(r.acked, r.inSeq) + ModularDistance(r.inSeq, s.seq)
        /\ a + Open(s, r) = ModularDistance(s.inAck, s.seq) /\ Open(s, r) \in Nat
        /\ ModularDistance(s.inAck, s.seq) <= WindowSize
        /\ ModularDistance(r.acked, r.inSeq) = 0 => r.acked = r.inSeq
    BY Parts DEF Numbers, Arc
  <2>2. ModularDistance(r.acked, r.inSeq) \in Nat /\ ModularDistance(r.inSeq, s.seq) \in Nat
    BY Fields, DistanceType
  <2> DEFINE x == ModularDistance(r.acked, r.inSeq)
             y == ModularDistance(r.inSeq, s.seq)
             z == ModularDistance(s.inAck, s.seq)
             o == Open(s, r)
  <2>3. /\ ModularDistance(t.inAck, r.acked) = b /\ t.seq = s.seq
        /\ ModularDistance(t.inAck, s.seq) = b + o
    BY <1>11
  <2>4. x \in Nat /\ y \in Nat /\ o \in Nat /\ o = x + y /\ a + o = z /\ z <= WindowSize
        /\ (x = 0 => r.acked = r.inSeq)
    BY <2>1, <2>2
  <2> HIDE DEF a, b, o, x, y, z
  <2>5. b + x + y = b + o /\ b + o <= WindowSize
    BY <1>4, <1>11, <2>4, Constants
  <2> QED
    BY <2>3, <2>4, <2>5 DEF Arc, x, y
<1>13. Acks(t, r, V)
  <2>1. /\ \A j \in 1 .. Len(v) : v[j].ack # NoAck => ModularDistance(v[j].ack, r.acked) <= a
        /\ \A j, l \in 1 .. Len(v) : j < l /\ v[j].ack # NoAck /\ v[l].ack # NoAck =>
              ModularDistance(v[l].ack, r.acked) <= ModularDistance(v[j].ack, r.acked)
        /\ a # 0 => \E j \in 1 .. Len(v) : v[j].ack = r.acked /\ v[j].ack # NoAck
    BY DEF Numbers, Acks
  <2> HIDE DEF V, a
  <2>2. ASSUME NEW j \in 1 .. Len(V), V[j].ack # NoAck PROVE ModularDistance(V[j].ack, r.acked) <= b
    <3>1. CASE p.ack = NoAck
      BY <1>1, <2>1, <2>2, <3>1 DEF a
    <3>2. CASE p.ack # NoAck
      <4>1. 1 < j + 1 /\ 1 \in 1 .. Len(v) /\ j + 1 \in 1 .. Len(v) /\ v[j + 1].ack # NoAck /\ v[1].ack # NoAck
        BY <1>1, <2>2, <3>2
      <4>2. ModularDistance(v[j + 1].ack, r.acked) <= ModularDistance(v[1].ack, r.acked)
        BY <2>1, <4>1
      <4> QED
        BY <1>1, <3>2, <4>2
    <3> QED
      BY <3>1, <3>2
  <2>3. ASSUME NEW j \in 1 .. Len(V), NEW l \in 1 .. Len(V), j < l, V[j].ack # NoAck, V[l].ack # NoAck
        PROVE  ModularDistance(V[l].ack, r.acked) <= ModularDistance(V[j].ack, r.acked)
    <3>1. j + 1 < l + 1 /\ j + 1 \in 1 .. Len(v) /\ l + 1 \in 1 .. Len(v) /\ V[j] = v[j + 1] /\ V[l] = v[l + 1]
      BY <1>1, <2>3
    <3>2. v[j + 1].ack # NoAck /\ v[l + 1].ack # NoAck
      BY <2>3, <3>1
    <3> QED
      BY <2>1, <3>1, <3>2
  <2>4. ASSUME b # 0 PROVE \E j \in 1 .. Len(V) : V[j].ack = r.acked /\ V[j].ack # NoAck
    <3>1. a # 0
      BY <1>4, <1>11, <2>4
    <3>2. PICK j \in 1 .. Len(v) : v[j].ack = r.acked /\ v[j].ack # NoAck
      BY <2>1, <3>1
    <3>3. j # 1
      <4> SUFFICES ASSUME j = 1 PROVE FALSE
        OBVIOUS
      <4>1. t.inAck = r.acked /\ r.acked # NoAck /\ r.acked \in Nums
        BY <1>1, <3>2, Fields
      <4>2. r.acked \in SeqNumbers
        BY <4>1 DEF NoAck, Nums
      <4> QED
        BY <2>4, <4>1, <4>2, Near
    <3>4. j - 1 \in 1 .. Len(V) /\ V[j - 1] = v[j]
      BY <1>1, <3>3
    <3> QED
      BY <3>2, <3>4
  <2> QED
    BY <2>2, <2>3, <2>4 DEF Acks
<1>14. Numbered(t, r, w) /\ Acks(r, t, w) /\ Tension(t, r)
  BY DEF Numbers, Numbered, Acks, Tension, Open
<1> QED
  BY <1>9, <1>10, <1>12, <1>13, <1>14 DEF Numbers

\* So does a suspended session that drops it.
LEMMA Dropping ==
    ASSUME NEW s \in Session, NEW r \in Session, NEW w \in Seq(Packet), NEW v \in Seq(Packet),
           Numbers(s, r, w, v), ~s.active, v # <<>>
    PROVE  Numbers(s, r, w, Tail(v))
<1>1. Len(Tail(v)) = Len(v) - 1 /\ Len(v) \in Nat
  OBVIOUS
<1>2. ModularDistance(s.inSeq, r.seq) \in Nat
  BY Fields, DistanceType
<1>3. Numbered(r, s, Tail(v)) /\ Acks(s, r, Tail(v))
  BY <1>1, <1>2 DEF Numbers, Numbered, Acks
<1> QED
  BY <1>3 DEF Numbers

\* The two sides.
LEMMA TwoSides ==
    /\ Peer("central") = "peripheral" /\ Peer("peripheral") = "central"
    /\ \A x \in Sides : Peer(x) \in Sides /\ Peer(x) # x /\ Peer(Peer(x)) = x
                        /\ \A y \in Sides : y = x \/ y = Peer(x)
<1>1. \A x \in Sides : Peer(x) \in Sides /\ Peer(x) # x
  <2> SUFFICES ASSUME NEW x \in Sides PROVE Peer(x) \in Sides /\ Peer(x) # x
    OBVIOUS
  <2>1. \E y \in Sides : y # x
    BY DEF Sides
  <2> QED
    BY <2>1 DEF Peer
<1>2. "central" \in Sides /\ "peripheral" \in Sides /\ \A x \in Sides : x = "central" \/ x = "peripheral"
  BY DEF Sides
<1> QED
  BY <1>1, <1>2

\* Two sessions start with the numbers in order, active or not.
LEMMA FirstNumbers ==
    ASSUME NEW s \in Session, NEW r \in Session,
           s.inSeq = 0, s.inAck = -1, s.seq = -1, s.acked = -1,
           r.inSeq = Mod - 1, r.inAck = -1, r.seq = 0, r.acked = Mod - 1
    PROVE  Numbers(s, r, <<>>, <<>>)
<1>1. -1 \in Nums /\ 0 \in Nums /\ Mod - 1 \in Nums
  BY Constants DEF Nums, SeqNumbers
<1>2. /\ ModularDistance(-1, -1) = 0 /\ ModularDistance(-1, 0) = 1 /\ ModularDistance(0, 0) = 0
      /\ ModularDistance(-1, Mod - 1) = 0 /\ ModularDistance(Mod - 1, -1) = 0
      /\ ModularDistance(Mod - 1, Mod - 1) = 0
  <2>1. \A a, b \in Nums : ModularDistance(a, b) = IF b - a = Mod \/ a - b = Mod THEN 0
                                                  ELSE IF b >= a THEN b - a ELSE b - a + Mod
    BY Distance
  <2>2. ModularDistance(-1, -1) = 0
    BY <1>1, <2>1, Constants
  <2>3. ModularDistance(-1, 0) = 1
    BY <1>1, <2>1, Constants
  <2>4. ModularDistance(0, 0) = 0
    BY <1>1, <2>1, Constants
  <2>5. ModularDistance(-1, Mod - 1) = 0
    BY <1>1, <2>1, Constants
  <2>6. ModularDistance(Mod - 1, -1) = 0
    BY <1>1, <2>1, Constants
  <2>7. ModularDistance(Mod - 1, Mod - 1) = 0
    BY <1>1, <2>1, Constants
  <2> QED
    BY <2>2, <2>3, <2>4, <2>5, <2>6, <2>7
<1>3. Arc(s, r) /\ Arc(r, s)
  BY <1>2, Constants DEF Arc
<1>4. Numbered(s, r, <<>>) /\ Numbered(r, s, <<>>) /\ Acks(s, r, <<>>) /\ Acks(r, s, <<>>)
  BY <1>2 DEF Numbered, Acks
<1>5. Tension(s, r)
  BY <1>2, Constants DEF Tension, Open
<1> QED
  BY <1>3, <1>4, <1>5 DEF Numbers

-----------------------------------------------------------------------------
\* What the code does to a session until its next write.

\* The sessions differ in timers, in who writes and in what the handler is at.
Same(s, t) ==
    /\ t.active = s.active /\ t.inSeq = s.inSeq /\ t.inAck = s.inAck /\ t.seq = s.seq
    /\ t.acked = s.acked /\ t.queue = s.queue /\ t.out = s.out
    /\ t.incoming = s.incoming /\ t.want = s.want

\* p is an ack by itself.
Bare(s, t, p) == p.data = <<>> /\ ~p.begin /\ ~p.end /\ t.queue = s.queue

\* p has the next part of the first message of the queue.
Loaded(s, t, p) ==
    LET m == Head(s.queue)
        n == Len(p.data)
    IN /\ s.queue # <<>> /\ p.data # <<>> /\ m.off + n <= Len(m.data)
       /\ \A i \in 1 .. n : p.data[i] = m.data[m.off + i]
       /\ p.begin <=> m.off = 0
       /\ p.begin => p.length = Len(m.data)
       /\ p.end <=> m.off + n = Len(m.data)
       /\ t.queue = <<[m EXCEPT !.off = m.off + n]>> \o Tail(s.queue)

\* s begins to write p.
Emits(s, t, p) ==
    /\ s.active /\ t.active /\ s.out = <<>> /\ CanSend(s, Owes(s))
    /\ t.seq = NextSequenceNumber(s) /\ t.acked = s.inSeq
    /\ t.inSeq = s.inSeq /\ t.inAck = s.inAck
    /\ t.incoming = s.incoming /\ t.want = s.want
    /\ t.out = <<p>> /\ p.seq = t.seq /\ p.ack = IF Owes(s) THEN s.inSeq ELSE NoAck
    /\ Bare(s, t, p) \/ Loaded(s, t, p)

\* Nothing that could be sent is left.
Settled(s) == s.active /\ s.out = <<>> /\ s.queue # <<>> => ~CanSend(s, Owes(s))

Result(s, t) ==
    /\ t \in Session
    /\ \/ Same(s, t) /\ Settled(t)
       \/ \E p \in Packet : Emits(s, t, p)

\* There is something of the first message to send, unless it is being written.
Ready(s) == s.active /\ s.out = <<>> /\ s.queue # <<>> => s.queue[1].off < Len(s.queue[1].data)

\* Only the fields that Same compares matter.
LEMMA SameResult ==
    ASSUME NEW s, NEW u, NEW t, Same(s, u), Result(u, t)
    PROVE  Result(s, t)
<1>1. /\ Owes(u) = Owes(s) /\ NextSequenceNumber(u) = NextSequenceNumber(s)
      /\ \A c : CanSend(u, c) = CanSend(s, c)
  BY DEF Same, Owes, NextSequenceNumber, CanSend, RemoteWindowFreeSlots
<1>2. ASSUME Same(u, t) PROVE Same(s, t)
  BY <1>2 DEF Same
<1>3. ASSUME NEW p \in Packet, Emits(u, t, p) PROVE Emits(s, t, p)
  BY <1>1, <1>3 DEF Same, Emits, Bare, Loaded
<1> QED
  BY <1>2, <1>3 DEF Result

\* The number of what is written next, in a window with room.
LEMMA NextType ==
    ASSUME NEW s \in Session
    PROVE  NextSequenceNumber(s) \in SeqNumbers
<1>1. s.seq \in Nums
  BY Fields
<1> QED
  BY <1>1, Constants DEF NextSequenceNumber, Nums, SeqNumbers

\* A stand-alone ack that is due.
LEMMA AckResult ==
    ASSUME NEW s \in Session, s.active, s.out = <<>>, AckDue(s), NEW who \in {"handler", "other"}
    PROVE  Result(s, SendStandaloneAck(s, who))
<1> DEFINE p == [seq |-> NextSequenceNumber(s), ack |-> s.inSeq, data |-> <<>>,
                 begin |-> FALSE, end |-> FALSE, length |-> 0]
           t == SendStandaloneAck(s, who)
<1>1. t = [s EXCEPT !.seq = NextSequenceNumber(s), !.acked = s.inSeq, !.by = who, !.out = <<p>>]
  BY DEF SendStandaloneAck
<1>2. p \in Packet
  BY NextType, Fields DEF Packet, Octets, Nums
<1>3. NextSequenceNumber(s) \in Nums /\ s.inSeq \in Nums
  BY NextType, Fields DEF Nums
<1> HIDE DEF p
<1>4. <<p>> \in Seq(Packet)
  BY <1>2
<1>5. p.seq = NextSequenceNumber(s) /\ p.ack = s.inSeq /\ p.data = <<>> /\ ~p.begin /\ ~p.end
  BY DEF p
<1> HIDE DEF t
<1>6. t \in Session
  <2> DEFINE k == NextSequenceNumber(s)
             i == s.inSeq
             o == <<p>>
  <2>1. t = [s EXCEPT !.seq = k, !.acked = i, !.by = who, !.out = o]
    BY <1>1
  <2>2. k \in Nums /\ i \in Nums /\ o \in Seq(Packet)
    BY <1>3, <1>4
  <2> HIDE DEF k, i, o
  <2> QED
    BY <2>1, <2>2 DEF Session
<1>7. /\ t.active = s.active /\ t.seq = NextSequenceNumber(s) /\ t.acked = s.inSeq /\ t.inSeq = s.inSeq
      /\ t.inAck = s.inAck /\ t.incoming = s.incoming /\ t.want = s.want /\ t.out = <<p>>
      /\ t.queue = s.queue
  BY <1>1 DEF Session
<1>8. Emits(s, t, p)
  <2>1. Owes(s) /\ CanSend(s, Owes(s))
    BY DEF AckDue, CanSend
  <2> QED
    BY <1>5, <1>7, <2>1 DEF Emits, Bare
<1> QED
  BY <1>2, <1>6, <1>8 DEF Result, t

\* A segment that is due.
LEMMA SegmentResult ==
    ASSUME NEW s \in Session, s.active, s.out = <<>>, SegmentDue(s), Ready(s), NEW who \in {"handler", "other"}
    PROVE  Result(s, EmitSegment(s, who))
<1> DEFINE m == Head(s.queue)
           ack == Owes(s)
           begin == m.off = 0
           room == FragmentSize - 2 - (IF begin THEN 2 ELSE 0) - (IF ack THEN 1 ELSE 0)
           left == Len(m.data) - m.off
           n == IF room < left THEN room ELSE left
           d == Segment(m, n)
           p == [seq |-> NextSequenceNumber(s), ack |-> IF ack THEN s.inSeq ELSE NoAck,
                 data |-> d, begin |-> begin, end |-> left <= room,
                 length |-> IF begin THEN left ELSE 0]
           q == <<[m EXCEPT !.off = m.off + n]>> \o Tail(s.queue)
           t == EmitSegment(s, who)
<1>1. t = [s EXCEPT !.seq = NextSequenceNumber(s), !.acked = s.inSeq, !.sendAck = s.sendAck /\ ~ack,
                    !.queue = q, !.by = who, !.out = <<p>>]
  BY DEF EmitSegment
<1>2. s.queue \in Seq(Entry) /\ s.queue # <<>>
  BY DEF Session, SegmentDue
<1>3. m = s.queue[1] /\ m \in Entry /\ Tail(s.queue) \in Seq(Entry)
  BY <1>2, HeadTailProperties
<1>4. m.data \in Octets /\ m.off \in Nat /\ Len(m.data) \in Nat /\ m.off < Len(m.data)
  BY <1>2, <1>3 DEF Ready, Octets, Entry
<1>5. left \in Nat /\ left > 0 /\ room \in Nat /\ room > 0
  BY <1>4, Constants
<1>6. n \in Nat /\ n > 0 /\ n <= left /\ (left <= room <=> n = left)
  BY <1>5
<1> HIDE DEF n, room
<1>7. d \in Octets /\ Len(d) = n /\ \A i \in 1 .. n : d[i] = m.data[m.off + i]
  <2> DEFINE D == m.data
             o == m.off
  <2>1. D \in Seq(Nat \X Nat) /\ o \in Nat /\ n \in Nat /\ o + n <= Len(D)
    BY <1>4, <1>6 DEF Octets
  <2>2. d = SubSeq(D, o + 1, o + n)
    BY DEF Segment
  <2> HIDE DEF D, o, d
  <2>3. d \in Seq(Nat \X Nat) /\ Len(d) = n /\ \A i \in 1 .. n : d[i] = D[o + i]
    <3> DEFINE a == o + 1
               z == o + n
               E == Nat \X Nat
    <3>1. (\A i \in a .. z : D[i] \in E) /\ a \in Int /\ z \in Int
      BY <2>1
    <3>2. d = SubSeq(D, a, z)
      BY <2>2
    <3> HIDE DEF a, z, E
    <3>3. /\ d \in Seq(E) /\ Len(d) = IF a <= z THEN z - a + 1 ELSE 0
          /\ \A i \in 1 .. z - a + 1 : d[i] = D[a + i - 1]
      BY <3>1, <3>2, SubSeqProperties
    <3> QED
      BY <1>6, <2>1, <3>3 DEF a, z, E
  <2> QED
    BY <2>3 DEF D, o, Octets
<1> HIDE DEF d
<1>8. d # <<>>
  BY <1>6, <1>7 DEF Octets
<1>9. p \in Packet
  <2>1. NextSequenceNumber(s) \in SeqNumbers /\ (IF ack THEN s.inSeq ELSE NoAck) \in Nums
    BY NextType, Fields DEF Nums, NoAck
  <2>2. (IF begin THEN left ELSE 0) \in Nat /\ begin \in BOOLEAN /\ (left <= room) \in BOOLEAN
    BY <1>5
  <2> QED
    BY <1>7, <2>1, <2>2 DEF Packet
<1>10. /\ p.seq = NextSequenceNumber(s) /\ p.ack = (IF ack THEN s.inSeq ELSE NoAck) /\ p.data = d
       /\ p.begin = begin /\ p.end = (left <= room) /\ p.length = (IF begin THEN left ELSE 0)
  OBVIOUS
<1> HIDE DEF p
<1>11. [m EXCEPT !.off = m.off + n] \in Entry
  <2> DEFINE o == m.off + n
  <2>1. o \in Nat
    BY <1>4, <1>6
  <2> HIDE DEF o, m
  <2>2. [m EXCEPT !.off = o] \in Entry
    BY <1>3, <2>1 DEF Entry
  <2> QED
    BY <2>2 DEF o
<1>12. q \in Seq(Entry)
  BY <1>3, <1>11
<1> HIDE DEF q
<1>13. NextSequenceNumber(s) \in Nums /\ s.inSeq \in Nums /\ <<p>> \in Seq(Packet)
  BY <1>9, NextType, Fields DEF Nums
<1> DEFINE k == s.sendAck /\ ~ack
<1>14. t = [s EXCEPT !.seq = NextSequenceNumber(s), !.acked = s.inSeq, !.sendAck = k,
                     !.queue = q, !.by = who, !.out = <<p>>]
       /\ k \in BOOLEAN
  BY <1>1
<1> HIDE DEF t, k
<1>15. t \in Session
  BY <1>12, <1>13, <1>14 DEF Session
<1>16. /\ t.active = s.active /\ t.seq = NextSequenceNumber(s) /\ t.acked = s.inSeq /\ t.inSeq = s.inSeq
       /\ t.inAck = s.inAck /\ t.incoming = s.incoming /\ t.want = s.want /\ t.out = <<p>>
       /\ t.queue = q
  BY <1>14 DEF Session
<1>17. Loaded(s, t, p)
  <2>1. /\ m.off + Len(p.data) <= Len(m.data)
        /\ p.end <=> m.off + Len(p.data) = Len(m.data)
        /\ p.begin => p.length = Len(m.data)
        /\ p.begin <=> m.off = 0
    <3>1. Len(p.data) = n /\ (p.end <=> left <= room) /\ (p.begin <=> m.off = 0)
      BY <1>7, <1>10
    <3>2. m.off + n <= Len(m.data) /\ (n = left <=> m.off + n = Len(m.data))
      BY <1>4, <1>6
    <3>3. ASSUME p.begin PROVE p.length = Len(m.data)
      <4>1. m.off = 0
        BY <3>1, <3>3
      <4>2. p.length = left
        BY <1>10, <4>1
      <4> QED
        BY <1>4, <4>1, <4>2
    <3> QED
      BY <1>6, <3>1, <3>2, <3>3
  <2>2. p.data # <<>> /\ \A i \in 1 .. Len(p.data) : p.data[i] = m.data[m.off + i]
    BY <1>7, <1>8, <1>10
  <2>3. t.queue = <<[m EXCEPT !.off = m.off + Len(p.data)]>> \o Tail(s.queue)
    BY <1>7, <1>10, <1>16 DEF q
  <2> QED
    BY <1>2, <2>1, <2>2, <2>3 DEF Loaded
<1>18. Emits(s, t, p)
  BY <1>10, <1>16, <1>17 DEF Emits, SegmentDue
<1> QED
  BY <1>9, <1>18, <1>15 DEF Result, t

\* Setting timers, the writer and the stage of the handler changes nothing that matters.
LEMMA FlagsOnly ==
    ASSUME NEW s \in Session, NEW h \in {"idle", "message", "queue", "immediate"}
    PROVE  [s EXCEPT !.handler = h] \in Session /\ Same(s, [s EXCEPT !.handler = h])
BY DEF Session, Same

\* A session that differs from s only in what Same leaves out.
LEMMA SameFacts ==
    ASSUME NEW s, NEW t, Same(s, t)
    PROVE  /\ Owes(t) = Owes(s) /\ AckDue(t) = AckDue(s) /\ SegmentDue(t) = SegmentDue(s)
           /\ Settled(t) = Settled(s) /\ Ready(t) = Ready(s)
BY DEF Same, Owes, AckDue, SegmentDue, Settled, Ready, CanSend, RemoteWindowFreeSlots

\* A pass of processSendQueueLocked's loop.
LEMMA LoopResult ==
    ASSUME NEW s \in Session, s.active, s.out = <<>>, Ready(s), NEW who \in {"handler", "other"}
    PROVE  Result(s, SendLoop(s, who))
<1>1. CASE SegmentDue(s)
  BY <1>1, SegmentResult DEF SendLoop
<1>2. CASE ~SegmentDue(s) /\ AckDue(s)
  BY <1>2, AckResult DEF SendLoop
<1>3. CASE ~SegmentDue(s) /\ ~AckDue(s)
  <2>1. SendLoop(s, who) = s
    BY <1>3 DEF SendLoop, SendStandaloneAck
  <2>2. Settled(s)
    BY <1>3 DEF Settled, SegmentDue
  <2> QED
    BY <2>1, <2>2 DEF Result, Same
<1> QED
  BY <1>1, <1>2, <1>3

\* processSendQueueLocked.
LEMMA QueueResult ==
    ASSUME NEW s \in Session, Ready(s), NEW who \in {"handler", "other"}
    PROVE  Result(s, ProcessSendQueue(s, who))
<1>1. CASE QueueDue(s)
  BY <1>1, LoopResult DEF ProcessSendQueue, QueueDue
<1>2. CASE ~QueueDue(s)
  BY <1>2 DEF ProcessSendQueue, QueueDue, Result, Same, Settled
<1> QED
  BY <1>1, <1>2

\* sendImmediateAckIfWindowLow.
LEMMA ImmediateResult ==
    ASSUME NEW s \in Session, Settled(s)
    PROVE  Result(s, SendImmediateAckIfWindowLow(s))
<1>1. CASE ImmediateAckDue(s)
  <2> DEFINE u == [s EXCEPT !.handler = "immediate"]
  <2>1. u \in Session /\ Same(s, u)
    BY FlagsOnly
  <2>2. u.active /\ u.out = <<>> /\ AckDue(u)
    BY <1>1, <2>1, SameFacts DEF Same, ImmediateAckDue
  <2>3. SendImmediateAckIfWindowLow(s) = SendStandaloneAck(u, "handler")
    BY <1>1 DEF SendImmediateAckIfWindowLow
  <2> HIDE DEF u
  <2>4. Result(u, SendStandaloneAck(u, "handler"))
    BY <2>1, <2>2, AckResult
  <2> QED
    BY <2>1, <2>3, <2>4, SameResult
<1>2. CASE ~ImmediateAckDue(s)
  <2>1. SendImmediateAckIfWindowLow(s) = [s EXCEPT !.handler = "idle"]
    BY <1>2 DEF SendImmediateAckIfWindowLow
  <2> QED
    BY <2>1, FlagsOnly, SameFacts DEF Result
<1> QED
  BY <1>1, <1>2

\* The end of handleIncomingLocked.
LEMMA FlushResult ==
    ASSUME NEW s \in Session, Ready(s)
    PROVE  Result(s, Flush(s))
<1>1. CASE QueueDue(s) /\ (SegmentDue(s) \/ AckDue(s))
  <2> DEFINE u == [s EXCEPT !.handler = "queue"]
  <2>1. u \in Session /\ Same(s, u)
    BY FlagsOnly
  <2>2. u.active /\ u.out = <<>> /\ Ready(u)
    BY <1>1, <2>1, SameFacts DEF Same, QueueDue
  <2>3. Flush(s) = SendLoop(u, "handler")
    BY <1>1 DEF Flush
  <2> HIDE DEF u
  <2>4. Result(u, SendLoop(u, "handler"))
    BY <2>1, <2>2, LoopResult
  <2> QED
    BY <2>1, <2>3, <2>4, SameResult
<1>2. CASE ~(QueueDue(s) /\ (SegmentDue(s) \/ AckDue(s)))
  <2>1. Settled(s)
    BY <1>2 DEF Settled, QueueDue, SegmentDue
  <2>2. Flush(s) = SendImmediateAckIfWindowLow(s)
    BY <1>2 DEF Flush
  <2> QED
    BY <2>1, <2>2, ImmediateResult
<1> QED
  BY <1>1, <1>2

\* An active session once the packet it has written is out of the way.
Popped(s) ==
    [s EXCEPT !.out = <<>>, !.queue = IF s.out[1].data # <<>> /\ s.out[1].end THEN Tail(@) ELSE @]

\* What follows a write, to the next write or the end of the call.
LEMMA WrittenResult ==
    ASSUME NEW s \in Session, s.active, s.out # <<>>, Popped(s) \in Session, Ready(Popped(s))
    PROVE  Result(Popped(s), ChainEnds(Resume([s EXCEPT !.out = <<>>], s.out[1])))
<1> DEFINE p == s.out[1]
           e == [s EXCEPT !.out = <<>>]
           u == Popped(s)
           t == Resume(e, p)
<1>1. s.by \in {"handler", "other"} /\ e.by = s.by
  BY DEF Session
<1>2. Result(u, t)
  <2>1. CASE p.data # <<>>
    <3> DEFINE a == [e EXCEPT !.ackReceive = TRUE, !.queue = IF p.end THEN Tail(@) ELSE @]
    <3>1. t = SendLoop(a, e.by)
      BY <2>1 DEF Resume
    <3>2. a = [u EXCEPT !.ackReceive = TRUE]
      BY <2>1 DEF Popped, Session
    <3>3. a \in Session /\ Same(u, a)
      BY <3>2 DEF Session, Same
    <3>4. a.active /\ a.out = <<>> /\ Ready(a)
      <4>1. u.active /\ u.out = <<>>
        BY DEF Popped, Session
      <4> HIDE DEF a, u
      <4>2. Ready(a) = Ready(u)
        BY <3>3, SameFacts
      <4>3. Ready(a)
        BY <4>2 DEF u
      <4> QED
        BY <3>3, <4>1, <4>3 DEF Same
    <3> HIDE DEF a, u, e, t
    <3> QED
      BY <1>1, <3>1, <3>3, <3>4, LoopResult, SameResult
  <2>2. CASE p.data = <<>>
    <3> DEFINE a == [e EXCEPT !.sendAck = FALSE, !.ackReceive = TRUE]
    <3>1. t = ProcessSendQueue(a, e.by)
      BY <2>2 DEF Resume
    <3>2. a = [u EXCEPT !.sendAck = FALSE, !.ackReceive = TRUE]
      BY <2>2 DEF Popped, Session
    <3>3. a \in Session /\ Same(u, a)
      BY <3>2 DEF Session, Same
    <3>4. Ready(a)
      BY <3>3, SameFacts
    <3> HIDE DEF a, u, e, t
    <3> QED
      BY <1>1, <3>1, <3>3, <3>4, QueueResult, SameResult
  <2> QED
    BY <2>1, <2>2
<1> HIDE DEF t, u
<1>3. CASE t.out # <<>> \/ t.by = "other"
  BY <1>2, <1>3 DEF ChainEnds, t, u
<1>4. CASE t.out = <<>> /\ t.by # "other"
  <2>1. Same(u, t) /\ Settled(t) /\ t \in Session
    BY <1>2, <1>4 DEF Result, Emits
  <2>2. CASE t.handler = "queue"
    <3>1. ChainEnds(t) = SendImmediateAckIfWindowLow(t)
      BY <1>4, <2>2 DEF ChainEnds
    <3> QED
      BY <2>1, <3>1, ImmediateResult, SameResult DEF t, u
  <2>3. CASE t.handler # "queue"
    <3>1. ChainEnds(t) = [t EXCEPT !.handler = "idle"]
      BY <1>4, <2>3 DEF ChainEnds
    <3>2. Result(t, ChainEnds(t))
      BY <2>1, <3>1, FlagsOnly, SameFacts DEF Result
    <3> QED
      BY <2>1, <3>2, SameResult DEF t, u
  <2> QED
    BY <2>2, <2>3
<1> QED
  BY <1>3, <1>4

-----------------------------------------------------------------------------
\* The stream of segments.

\* A queue that is being written from has something left to send.
LEMMA QueueReady ==
    ASSUME NEW S, NEW s \in Session, s.active => Queue(S, s)
    PROVE  Ready(s)
<1> SUFFICES ASSUME s.active, s.out = <<>>, s.queue # <<>>
             PROVE  s.queue[1].off < Len(s.queue[1].data)
  BY DEF Ready
<1>1. s.queue[1] \in Entry
  BY DEF Session
<1>2. s.queue[1].off \in Nat /\ Len(s.queue[1].data) \in Nat
  BY <1>1 DEF Entry, Octets
<1>3. s.queue[1].off <= Len(s.queue[1].data) /\ s.queue[1].off # Len(s.queue[1].data)
  BY DEF Queue
<1> QED
  BY <1>2, <1>3

\* Setting timers and the like, or ending, on the sender's side.
LEMMA SenderSame ==
    ASSUME NEW S, NEW s, NEW t, NEW r, NEW w, NEW D, Stream(S, s, r, w, D),
           t.active => s.active, t.active => t.queue = s.queue /\ t.out = s.out
    PROVE  Stream(S, t, r, w, D)
<1>1. t.active => Queue(S, t)
  BY DEF Stream, Queue
<1>2. ASSUME NEW f \in [0 .. Len(w) -> Nat \X Nat], Leads(S, s, r, w, D, f)
      PROVE  Leads(S, t, r, w, D, f)
  BY <1>2 DEF Leads, Place
<1> QED
  BY <1>1, <1>2 DEF Stream

\* And on the receiver's.
LEMMA ReceiverSame ==
    ASSUME NEW S, NEW s, NEW t, NEW r, NEW v, NEW E, Stream(S, r, s, v, E),
           t.active => s.active, t.incoming = s.incoming, t.want = s.want
    PROVE  Stream(S, r, t, v, E)
<1>1. ASSUME NEW f \in [0 .. Len(v) -> Nat \X Nat], Leads(S, r, s, v, E, f)
      PROVE  Leads(S, r, t, v, E, f)
  BY <1>1 DEF Leads, ReceiverAt
<1> QED
  BY <1>1 DEF Stream

\* One more packet, from where the sender was to where it is.
LEMMA Longer ==
    ASSUME NEW S, NEW s, NEW t, NEW r, NEW w \in Seq(Packet), NEW D, NEW p \in Packet,
           Stream(S, s, r, w, D), s.active, Place(S, t) \in Nat \X Nat, Queue(S, t),
           Carries(S, p, Place(S, s), Place(S, t))
    PROVE  Stream(S, t, r, w \o <<p>>, D)
<1> SUFFICES ASSUME r.active
             PROVE  \E g \in [0 .. Len(w \o <<p>>) -> Nat \X Nat] : Leads(S, t, r, w \o <<p>>, D, g)
  BY DEF Stream
<1>1. PICK f \in [0 .. Len(w) -> Nat \X Nat] : Leads(S, s, r, w, D, f)
  BY DEF Stream
<1> DEFINE W == w \o <<p>>
           P == Place(S, t)
           g == [j \in 0 .. Len(W) |-> IF j <= Len(w) THEN f[j] ELSE P]
<1>2. /\ Len(w) \in Nat /\ Len(W) = Len(w) + 1 /\ W[Len(w) + 1] = p
      /\ \A j \in 1 .. Len(w) : W[j] = w[j]
  OBVIOUS
<1> HIDE DEF W, P
<1>3. g \in [0 .. Len(W) -> Nat \X Nat]
  BY <1>2 DEF P
<1>4. g[0] = f[0] /\ g[Len(W)] = P /\ \A j \in 0 .. Len(w) : g[j] = f[j]
  BY <1>2
<1> HIDE DEF g
<1>5. ASSUME NEW j \in 1 .. Len(W) PROVE Carries(S, W[j], g[j - 1], g[j])
  <2>1. CASE j = Len(W)
    <3>1. g[j - 1] = f[Len(w)] /\ W[j] = p /\ g[j] = P
      BY <1>2, <1>4, <2>1
    <3>2. f[Len(w)] = Place(S, s)
      BY <1>1 DEF Leads
    <3> QED
      BY <3>1, <3>2 DEF P
  <2>2. CASE j # Len(W)
    <3>1. j \in 1 .. Len(w) /\ j - 1 \in 0 .. Len(w) /\ j \in 0 .. Len(w)
      BY <1>2, <2>2
    <3>2. W[j] = w[j] /\ g[j - 1] = f[j - 1] /\ g[j] = f[j]
      BY <1>2, <1>4, <3>1
    <3>3. Carries(S, w[j], f[j - 1], f[j])
      BY <1>1, <3>1 DEF Leads
    <3> QED
      BY <3>2, <3>3
  <2> QED
    BY <2>1, <2>2
<1>6. ReceiverAt(S, r, D, g[0])
  BY <1>1, <1>4 DEF Leads
<1>7. Leads(S, t, r, W, D, g)
  BY <1>4, <1>5, <1>6 DEF Leads, P
<1> QED
  BY <1>3, <1>7 DEF W

\* A packet that is begun continues the stream.
LEMMA StreamEmits ==
    ASSUME NEW S \in Seq(Octets), NEW s \in Session, NEW t \in Session, NEW r, NEW w \in Seq(Packet), NEW D,
           NEW p \in Packet, Stream(S, s, r, w, D), Emits(s, t, p)
    PROVE  Stream(S, t, r, w \o <<p>>, D)
<1>1. s.active /\ s.out = <<>> /\ t.out = <<p>> /\ Queue(S, s)
  BY DEF Emits, Stream
<1>2. /\ s.queue \in Seq(Entry) /\ Len(s.queue) \in Nat /\ Len(S) \in Nat /\ Len(s.queue) <= Len(S)
      /\ p.data \in Octets /\ Len(p.data) \in Nat /\ p.end \in BOOLEAN
  BY <1>1 DEF Session, Queue, Packet, Octets
<1>3. CASE Bare(s, t, p)
  <2>1. t.queue = s.queue /\ p.data = <<>> /\ ~p.end /\ ~p.begin
    BY <1>3 DEF Bare
  <2>2. Queue(S, t)
    <3>1. t.out # <<>> /\ t.out[1] = p
      BY <1>1
    <3> QED
      BY <1>1, <2>1, <3>1 DEF Queue
  <2>3. Place(S, t) = Place(S, s)
    BY <2>1 DEF Place
  <2>4. Place(S, t) \in Nat \X Nat
    <3> DEFINE q == s.queue
               k == Len(S) - Len(q)
    <3>1. k \in Nat /\ Len(S) + 1 \in Nat /\ k + 1 \in Nat /\ k + 2 \in Nat
      BY <1>2
    <3>2. CASE q = <<>>
      BY <2>1, <3>1, <3>2 DEF Place
    <3>3. CASE q # <<>>
      <4>1. q[1] \in Entry
        BY <1>2, <3>3
      <4>2. q[1].off \in Nat
        BY <4>1 DEF Entry
      <4> QED
        BY <2>1, <3>1, <3>3, <4>2 DEF Place
    <3> QED
      BY <3>2, <3>3
  <2>5. Carries(S, p, Place(S, s), Place(S, t))
    BY <2>1, <2>3 DEF Carries
  <2> QED
    BY <1>1, <2>2, <2>4, <2>5, Longer
<1>4. CASE Loaded(s, t, p)
  <2> DEFINE q == s.queue
             m == q[1]
             n == Len(p.data)
             k == Len(S) - Len(q) + 1
  <2>1. q # <<>> /\ m = Head(q) /\ m \in Entry
    BY <1>2, <1>4 DEF Loaded
  <2>2. m.data \in Octets /\ m.off \in Nat /\ Len(m.data) \in Nat
    BY <2>1 DEF Entry, Octets
  <2>3. /\ p.data # <<>> /\ m.off + n <= Len(m.data)
        /\ \A i \in 1 .. n : p.data[i] = m.data[m.off + i]
        /\ p.begin <=> m.off = 0
        /\ p.begin => p.length = Len(m.data)
        /\ p.end <=> m.off + n = Len(m.data)
        /\ t.queue = <<[m EXCEPT !.off = m.off + n]>> \o Tail(q)
    BY <1>4, <2>1 DEF Loaded
  <2>4. n > 0 /\ n \in Nat
    BY <1>2, <2>3 DEF Octets
  <2>5. k \in 1 .. Len(S) /\ m.data = S[k] /\ m.off # Len(m.data) /\ Len(q) > 0
    <3>1. Len(q) > 0 /\ 1 \in 1 .. Len(q)
      BY <1>2, <2>1
    <3>2. m.data = S[k]
      BY <1>1, <3>1 DEF Queue
    <3>3. m.off # Len(m.data)
      BY <1>1, <2>1 DEF Queue
    <3>4. k \in 1 .. Len(S)
      <4> DEFINE a == Len(S)
                 b == Len(q)
      <4>1. a \in Nat /\ b \in Nat /\ b <= a /\ b > 0
        BY <1>2, <3>1
      <4> HIDE DEF a, b
      <4>2. a - b + 1 \in 1 .. a
        BY <4>1
      <4> QED
        BY <4>2 DEF a, b
    <3> QED
      BY <3>1, <3>2, <3>3, <3>4
  <2>6. /\ Len(t.queue) = Len(q)
        /\ t.queue[1].data = m.data /\ t.queue[1].off = m.off + n
        /\ \A j \in 2 .. Len(q) : t.queue[j] = q[j]
    <3> DEFINE e == [m EXCEPT !.off = m.off + n]
    <3>1. e.data = m.data /\ e.off = m.off + n
      BY <2>1 DEF Entry
    <3> HIDE DEF e
    <3>2. Tail(q) \in Seq(Entry) /\ Len(Tail(q)) = Len(q) - 1 /\ \A i \in 1 .. Len(Tail(q)) : Tail(q)[i] = q[i + 1]
      BY <1>2, <2>1, HeadTailProperties
    <3> DEFINE T == Tail(q)
    <3>3. t.queue = <<e>> \o T
      BY <2>3 DEF e
    <3> HIDE DEF q, T, m
    <3>4. T \in Seq(Entry) /\ Len(T) = Len(q) - 1 /\ \A i \in 1 .. Len(T) : T[i] = q[i + 1]
      BY <3>2 DEF T
    <3>5. Len(<<e>> \o T) = 1 + Len(T) /\ (<<e>> \o T)[1] = e /\ \A j \in 2 .. 1 + Len(T) : (<<e>> \o T)[j] = T[j - 1]
      BY <3>4
    <3>6. Len(q) \in Nat /\ Len(q) > 0
      BY <1>2, <2>5 DEF q
    <3> QED
      BY <3>1, <3>3, <3>4, <3>5, <3>6
  <2>7. t.queue # <<>>
    BY <1>2, <2>5, <2>6
  <2>8. Queue(S, t)
    <3>1. \A j \in 1 .. Len(t.queue) : t.queue[j].data = S[Len(S) - Len(t.queue) + j]
      <4>1. \A j \in 1 .. Len(q) : q[j].data = S[Len(S) - Len(q) + j]
        BY <1>1 DEF Queue
      <4>2. \A j \in 1 .. Len(q) : t.queue[j].data = q[j].data
        BY <1>2, <2>6
      <4> QED
        BY <2>6, <4>1, <4>2
    <3>2. \A j \in 2 .. Len(t.queue) : t.queue[j].off = 0
      BY <1>1, <2>6 DEF Queue
    <3>3. t.queue[1].off <= Len(t.queue[1].data) /\ (t.queue[1].off = Len(t.queue[1].data) <=> p.end)
      BY <2>2, <2>3, <2>6
    <3>4. t.out # <<>> /\ t.out[1] = p
      BY <1>1
    <3> QED
      BY <1>2, <2>3, <2>6, <2>7, <3>1, <3>2, <3>3, <3>4 DEF Queue
  <2>9. Place(S, s) = <<k, m.off>>
    BY <2>1, <2>5 DEF Place
  <2>10. Place(S, t) = IF p.end THEN <<k + 1, 0>> ELSE <<k, m.off + n>>
    <3>1. Len(S) - Len(q) + 2 = k + 1
      BY <1>2
    <3>2. t.queue[1].off = Len(t.queue[1].data) <=> p.end
      BY <2>2, <2>3, <2>6
    <3> QED
      BY <2>6, <2>7, <3>1, <3>2 DEF Place
  <2>11. Place(S, t) \in Nat \X Nat
    <3>1. k \in Nat /\ k + 1 \in Nat /\ m.off + n \in Nat
      BY <2>2, <2>4, <2>5
    <3> HIDE DEF k, n, m
    <3> QED
      BY <2>10, <3>1
  <2> HIDE DEF k, n, m, q
  <2>12. Carries(S, p, <<k, m.off>>, Place(S, t))
    BY <2>3, <2>5, <2>10 DEF Carries, n
  <2> QED
    BY <1>1, <2>8, <2>9, <2>11, <2>12, Longer
<1> QED
  BY <1>3, <1>4 DEF Emits

\* The sender's place is all that its queue means to the stream.
LEMMA SamePlace ==
    ASSUME NEW S, NEW s, NEW t, NEW r, NEW w, NEW D, Stream(S, s, r, w, D), s.active,
           Queue(S, t), Place(S, t) = Place(S, s)
    PROVE  Stream(S, t, r, w, D)
<1>1. ASSUME NEW f \in [0 .. Len(w) -> Nat \X Nat], Leads(S, s, r, w, D, f)
      PROVE  Leads(S, t, r, w, D, f)
  BY <1>1 DEF Leads
<1> QED
  BY <1>1 DEF Stream

\* The end of a write leaves the sender where it is.
LEMMA StreamPopped ==
    ASSUME NEW S \in Seq(Octets), \A m \in 1 .. Len(S) : S[m] # <<>>,
           NEW s \in Session, s.active, s.out # <<>>, NEW r, NEW w, NEW D, Stream(S, s, r, w, D)
    PROVE  Popped(s) \in Session /\ Stream(S, Popped(s), r, w, D)
<1> DEFINE q == s.queue
           p == s.out[1]
           T == IF p.data # <<>> /\ p.end THEN Tail(q) ELSE q
           u == Popped(s)
           k == Len(S) - Len(q)
<1>1. q \in Seq(Entry) /\ Len(q) \in Nat /\ Len(S) \in Nat /\ Queue(S, s) /\ Len(q) <= Len(S)
  BY DEF Session, Stream, Queue
<1>2. T \in Seq(Entry)
  <2>1. p.data # <<>> => q # <<>>
    BY <1>1 DEF Queue
  <2> QED
    BY <1>1, <2>1, HeadTailProperties
<1>3. u = [s EXCEPT !.out = <<>>, !.queue = T]
  BY DEF Popped
<1> HIDE DEF T, u
<1>4. u \in Session
  <2>1. <<>> \in Seq(Packet)
    OBVIOUS
  <2> QED
    BY <1>2, <1>3, <2>1 DEF Session
<1>5. u.out = <<>> /\ u.queue = T /\ u.active = s.active
  BY <1>3 DEF Session
<1>6. CASE ~(p.data # <<>> /\ p.end)
  <2>1. T = q /\ ~p.end
    BY <1>1, <1>6 DEF T, Queue
  <2>2. Queue(S, u)
    BY <1>1, <1>5, <2>1 DEF Queue
  <2>3. Place(S, u) = Place(S, s)
    BY <1>5, <2>1 DEF Place
  <2> QED
    BY <1>4, <2>2, <2>3, SamePlace DEF u
<1>7. CASE p.data # <<>> /\ p.end
  <2>1. T = Tail(q) /\ q # <<>> /\ Len(q) > 0 /\ q[1].off = Len(q[1].data)
    BY <1>1, <1>7 DEF T, Queue
  <2>2. Len(T) = Len(q) - 1 /\ \A j \in 1 .. Len(T) : T[j] = q[j + 1] /\ j + 1 \in 2 .. Len(q)
    BY <1>1, <2>1, HeadTailProperties
  <2>3. ASSUME NEW j \in 1 .. Len(T)
        PROVE  /\ T[j].data = S[Len(S) - Len(T) + j] /\ T[j].off = 0
               /\ Len(T[j].data) \in Nat /\ Len(T[j].data) # 0
    <3>1. T[j] = q[j + 1] /\ j + 1 \in 2 .. Len(q) /\ j + 1 \in 1 .. Len(q) /\ j \in Nat
      BY <1>1, <2>2
    <3>2. q[j + 1].data = S[k + (j + 1)] /\ q[j + 1].off = 0
      BY <1>1, <3>1 DEF Queue
    <3>3. k + (j + 1) = Len(S) - Len(T) + j
      BY <1>1, <2>2, <3>1
    <3>4. k + (j + 1) \in 1 .. Len(S)
      BY <1>1, <3>1
    <3>5. \A i \in 1 .. Len(S) : Len(S[i]) \in Nat /\ Len(S[i]) # 0
      <4> SUFFICES ASSUME NEW i \in 1 .. Len(S) PROVE Len(S[i]) \in Nat /\ Len(S[i]) # 0
        OBVIOUS
      <4>1. S[i] \in Octets /\ S[i] # <<>>
        OBVIOUS
      <4> QED
        BY <4>1 DEF Octets
    <3>6. Len(S[k + (j + 1)]) \in Nat /\ Len(S[k + (j + 1)]) # 0
      BY <3>4, <3>5
    <3> QED
      BY <3>1, <3>2, <3>3, <3>6
  <2>4. Len(T) \in Nat /\ (T # <<>> => 1 \in 1 .. Len(T)) /\ (T = <<>> <=> Len(q) = 1)
    <3>1. Len(T) \in Nat /\ (T = <<>> <=> Len(T) = 0)
      BY <1>2
    <3>2. Len(T) = Len(q) - 1 /\ Len(q) \in Nat
      BY <1>1, <2>2
    <3> HIDE DEF q
    <3> QED
      BY <3>1, <3>2
  <2>5. Queue(S, u)
    <3>1. Len(T) <= Len(S)
      BY <1>1, <2>2
    <3>2. \A j \in 2 .. Len(T) : T[j].off = 0
      BY <2>3, <2>4
    <3>3. T # <<>> => T[1].off <= Len(T[1].data) /\ T[1].off # Len(T[1].data)
      BY <2>3, <2>4
    <3> QED
      BY <1>5, <2>3, <3>1, <3>2, <3>3 DEF Queue
  <2>6. Place(S, s) = <<k + 2, 0>>
    BY <2>1 DEF Place
  <2>7. Place(S, u) = <<k + 2, 0>>
    <3>1. CASE T = <<>>
      <4>1. Len(S) + 1 = k + 2
        <5>1. Len(q) = 1 /\ Len(S) \in Nat
          BY <1>1, <2>4, <3>1
        <5> QED
          BY <5>1
      <4> QED
        BY <1>5, <3>1, <4>1 DEF Place
    <3>2. CASE T # <<>>
      <4>1. T[1].off = 0 /\ T[1].off # Len(T[1].data)
        BY <2>3, <2>4, <3>2
      <4>2. Len(S) - Len(T) + 1 = k + 2
        BY <1>1, <2>2
      <4> QED
        BY <1>5, <3>2, <4>1, <4>2 DEF Place
    <3> QED
      BY <3>1, <3>2
  <2> QED
    BY <1>4, <2>5, <2>6, <2>7, SamePlace DEF u
<1> QED
  BY <1>6, <1>7

\* A message that joins the queue is the next one of the stream.
LEMMA StreamQueued ==
    ASSUME NEW S \in Seq(Octets), NEW m \in Octets, m # <<>>,
           NEW s \in Session, s.active, NEW r, NEW w, NEW D, Stream(S, s, r, w, D),
           NEW t, t.out = s.out, t.queue = Append(s.queue, [data |-> m, off |-> 0])
    PROVE  Stream(Append(S, m), t, r, w, D)
<1> DEFINE q == s.queue
           Q == t.queue
           X == Append(S, m)
           e == [data |-> m, off |-> 0]
           k == Len(S) - Len(q)
<1>1. q \in Seq(Entry) /\ Len(q) \in Nat /\ Len(S) \in Nat /\ Queue(S, s) /\ Len(q) <= Len(S)
  BY DEF Session, Stream, Queue
<1>2. Len(X) = Len(S) + 1 /\ X[Len(S) + 1] = m /\ \A j \in 1 .. Len(S) : X[j] = S[j]
  OBVIOUS
<1>3. e \in Entry /\ e.data = m /\ e.off = 0 /\ Len(m) \in Nat /\ Len(m) # 0
  BY DEF Entry, Octets
<1> HIDE DEF e, X
<1>4. Q = Append(q, e)
  BY DEF e
<1> HIDE DEF q, Q
<1>5. Len(Q) = Len(q) + 1 /\ Q[Len(q) + 1] = e /\ (\A j \in 1 .. Len(q) : Q[j] = q[j]) /\ Q # <<>>
  BY <1>1, <1>3, <1>4
<1>6. Len(X) - Len(Q) = k /\ k \in Nat
  BY <1>1, <1>2, <1>5
<1>7. q = <<>> => ~(s.out # <<>> /\ s.out[1].end)
  BY <1>1 DEF Queue, q
<1>8. q = <<>> <=> Len(q) = 0
  BY <1>1
<1>9. Queue(X, t)
  <2>1. Len(Q) <= Len(X)
    BY <1>1, <1>2, <1>5
  <2>2. ASSUME NEW j \in 1 .. Len(Q) PROVE Q[j].data = X[k + j]
    <3>1. CASE j \in 1 .. Len(q)
      <4>1. q[j].data = S[k + j]
        BY <1>1, <3>1 DEF Queue, q
      <4>2. k + j \in 1 .. Len(S)
        BY <1>1, <3>1
      <4> QED
        BY <1>2, <1>5, <3>1, <4>1, <4>2
    <3>2. CASE j = Len(q) + 1
      BY <1>1, <1>2, <1>3, <1>5, <3>2
    <3> QED
      BY <1>1, <1>5, <3>1, <3>2
  <2>3. ASSUME NEW j \in 2 .. Len(Q) PROVE Q[j].off = 0
    <3>1. CASE j \in 2 .. Len(q)
      <4>1. q[j].off = 0
        BY <1>1, <3>1 DEF Queue, q
      <4>2. Q[j] = q[j]
        BY <1>1, <1>5, <3>1
      <4> QED
        BY <4>1, <4>2
    <3>2. CASE j = Len(q) + 1
      BY <1>3, <1>5, <3>2
    <3> QED
      BY <1>1, <1>5, <3>1, <3>2
  <2>4. Q[1].off <= Len(Q[1].data) /\ (Q[1].off = Len(Q[1].data) <=> s.out # <<>> /\ s.out[1].end)
    <3>1. CASE q = <<>>
      BY <1>3, <1>5, <1>7, <1>8, <3>1
    <3>2. CASE q # <<>>
      <4>1. Q[1] = q[1]
        BY <1>1, <1>5, <1>8, <3>2
      <4> QED
        BY <1>1, <3>2, <4>1 DEF Queue, q
    <3> QED
      BY <3>1, <3>2
  <2>5. s.out # <<>> /\ s.out[1].end => s.out[1].data # <<>>
    BY <1>1 DEF Queue
  <2> QED
    BY <1>5, <1>6, <2>1, <2>2, <2>3, <2>4, <2>5 DEF Queue, Q
<1>10. Place(X, t) = Place(S, s)
  <2>1. CASE q = <<>>
    <3>1. k = Len(S) /\ Q[1].off = 0 /\ Q[1].off # Len(Q[1].data)
      BY <1>1, <1>3, <1>5, <1>8, <2>1
    <3>2. Place(X, t) = <<k + 1, 0>>
      BY <1>5, <1>6, <3>1 DEF Place, Q
    <3> QED
      BY <2>1, <3>1, <3>2 DEF Place, q
  <2>2. CASE q # <<>>
    <3>1. Q[1] = q[1]
      BY <1>1, <1>5, <1>8, <2>2
    <3> QED
      BY <1>5, <1>6, <2>2, <3>1 DEF Place, Q, q
  <2> QED
    BY <2>1, <2>2
<1>11. ASSUME r.active, NEW f \in [0 .. Len(w) -> Nat \X Nat], Leads(S, s, r, w, D, f)
       PROVE  Leads(X, t, r, w, D, f)
  <2>1. ReceiverAt(X, r, D, f[0])
    <3>1. ReceiverAt(S, r, D, f[0])
      BY <1>11 DEF Leads
    <3>2. f[0][1] \in 1 .. Len(S) => f[0][1] \in 1 .. Len(X) /\ X[f[0][1]] = S[f[0][1]]
      BY <1>1, <1>2
    <3> QED
      BY <3>1, <3>2 DEF ReceiverAt
  <2>2. ASSUME NEW j \in 1 .. Len(w) PROVE Carries(X, w[j], f[j - 1], f[j])
    <3>1. Carries(S, w[j], f[j - 1], f[j])
      BY <1>11 DEF Leads
    <3>2. f[j - 1][1] \in 1 .. Len(S) => f[j - 1][1] \in 1 .. Len(X) /\ X[f[j - 1][1]] = S[f[j - 1][1]]
      BY <1>1, <1>2
    <3> QED
      BY <3>1, <3>2 DEF Carries
  <2>3. f[Len(w)] = Place(X, t)
    BY <1>10, <1>11 DEF Leads
  <2> QED
    BY <2>1, <2>2, <2>3 DEF Leads
<1> QED
  BY <1>9, <1>11 DEF Stream, X

\* The first packet on the wire, from the receiver's place.
LEMMA FirstCarries ==
    ASSUME NEW S \in Seq(Octets), NEW s \in Session, s.active, NEW r, NEW v \in Seq(Packet), v # <<>>,
           NEW E \in Seq(Octets), NEW f \in [0 .. Len(v) -> Nat \X Nat], Leads(S, r, s, v, E, f)
    PROVE  /\ f[0] = <<Len(E) + 1, Len(s.incoming)>> /\ ReceiverAt(S, s, E, f[0])
           /\ Carries(S, Head(v), f[0], f[1])
           /\ Len(E) \in Nat /\ Len(s.incoming) \in Nat /\ s.incoming \in Octets
           /\ Head(v).data \in Octets /\ Len(Head(v).data) \in Nat
           /\ (s.incoming = <<>> <=> Len(s.incoming) = 0)
           /\ (Head(v).data = <<>> <=> Len(Head(v).data) = 0)
<1>1. ReceiverAt(S, s, E, f[0]) /\ f[0] = <<Len(E) + 1, Len(s.incoming)>>
  BY DEF Leads, ReceiverAt
<1>2. 1 \in 1 .. Len(v) /\ v[1] = Head(v) /\ Head(v) \in Packet
  OBVIOUS
<1>3. Carries(S, v[1], f[1 - 1], f[1])
  BY <1>2 DEF Leads
<1>4. f[1 - 1] = f[0]
  OBVIOUS
<1>5. s.incoming \in Octets /\ Head(v).data \in Octets
  BY <1>2 DEF Session, Packet
<1>6. /\ Len(s.incoming) \in Nat /\ Len(Head(v).data) \in Nat
      /\ (s.incoming = <<>> <=> Len(s.incoming) = 0)
      /\ (Head(v).data = <<>> <=> Len(Head(v).data) = 0)
  BY <1>5 DEF Octets
<1> QED
  BY <1>1, <1>2, <1>3, <1>4, <1>5, <1>6

\* It passes the checks of reassembly, and what it completes is the next message sent.
LEMMA StreamAgrees ==
    ASSUME NEW S \in Seq(Octets), NEW s \in Session, s.active, NEW r, NEW v \in Seq(Packet), v # <<>>,
           NEW E \in Seq(Octets), Stream(S, r, s, v, E)
    PROVE  /\ SegmentInPlace(s, Head(v)) /\ WholeAtEnd(s, Head(v))
           /\ Head(v).end => Len(E) < Len(S) /\ s.incoming \o Head(v).data = S[Len(E) + 1]
<1> DEFINE p == Head(v)
           d == p.data
           c == s.incoming
           k == Len(E) + 1
<1>1. PICK f \in [0 .. Len(v) -> Nat \X Nat] : Leads(S, r, s, v, E, f)
  BY DEF Stream
<1>2. /\ f[0] = <<k, Len(c)>> /\ ReceiverAt(S, s, E, f[0]) /\ Carries(S, p, f[0], f[1])
      /\ Len(E) \in Nat /\ Len(c) \in Nat /\ c \in Octets
      /\ d \in Octets /\ Len(d) \in Nat
      /\ (c = <<>> <=> Len(c) = 0)
      /\ (d = <<>> <=> Len(d) = 0)
  BY <1>1, FirstCarries
<1>3. CASE d = <<>>
  BY <1>2, <1>3 DEF Carries, SegmentInPlace, WholeAtEnd
<1>4. CASE d # <<>>
  <2>1. /\ k \in 1 .. Len(S)
        /\ p.begin <=> Len(c) = 0
        /\ p.begin => p.length = Len(S[k])
        /\ Len(c) + Len(d) <= Len(S[k])
        /\ \A i \in 1 .. Len(d) : d[i] = S[k][Len(c) + i]
        /\ p.end <=> Len(c) + Len(d) = Len(S[k])
    <3>1. f[0][1] = k /\ f[0][2] = Len(c)
      BY <1>2
    <3> HIDE DEF k, c, d
    <3> QED
      BY <1>2, <1>4, <3>1 DEF Carries, d
  <2>2. IF c = <<>> THEN s.want = 0
        ELSE s.want = Len(S[k]) /\ Len(c) < s.want /\ \A i \in 1 .. Len(c) : c[i] = S[k][i]
    BY <1>2 DEF ReceiverAt
  <2>3. S[k] \in Octets /\ Len(S[k]) \in Nat
    BY <2>1 DEF Octets
  <2>4. SegmentInPlace(s, p)
    <3>1. p.begin => s.want = 0
      BY <1>2, <2>1, <2>2
    <3>2. ~p.begin => s.want # 0 /\ Len(c) + Len(d) <= s.want
      <4> HIDE DEF k, c, d
      <4> QED
        BY <1>2, <2>1, <2>2, <2>3
    <3> QED
      BY <3>1, <3>2 DEF SegmentInPlace
  <2>5. Len(c \o d) = Len(c) + Len(d)
    BY <1>2 DEF Octets
  <2>6. WholeAtEnd(s, p)
    BY <1>2, <2>1, <2>2, <2>3, <2>5 DEF WholeAtEnd
  <2>7. ASSUME p.end PROVE Len(E) < Len(S) /\ c \o d = S[k]
    <3>1. Len(E) < Len(S)
      BY <1>2, <2>1
    <3> DEFINE a == c \o d
               m == S[k]
               O == Nat \X Nat
    <3>2. c \in Seq(O) /\ d \in Seq(O) /\ m \in Seq(O)
      BY <1>2, <2>3 DEF Octets
    <3> HIDE DEF O, m, c, d
    <3>3. a \in Seq(O) /\ Len(a) = Len(m)
      BY <2>1, <2>5, <2>7, <3>2 DEF m
    <3>4. \A i \in 1 .. Len(c) : a[i] = c[i]
      BY <3>2
    <3>5. \A i \in 1 .. Len(d) : a[Len(c) + i] = d[i]
      BY <3>2
    <3>6. \A i \in 1 .. Len(c) : c[i] = m[i]
      BY <1>2, <2>2 DEF m
    <3>7. \A i \in 1 .. Len(d) : d[i] = m[Len(c) + i]
      BY <2>1 DEF m
    <3>8. ASSUME NEW i \in 1 .. Len(m) PROVE a[i] = m[i]
      <4>0. i \in Nat /\ Len(m) = Len(c) + Len(d)
        BY <2>1, <2>7 DEF m
      <4>1. CASE i \in 1 .. Len(c)
        BY <3>4, <3>6, <4>1
      <4>2. CASE i > Len(c)
        <5>1. i - Len(c) \in 1 .. Len(d) /\ Len(c) + (i - Len(c)) = i
          BY <1>2, <4>0, <4>2, <3>8
        <5> QED
          BY <3>5, <3>7, <5>1
      <4> QED
        BY <1>2, <4>0, <4>1, <4>2
    <3> HIDE DEF a
    <3>9. a = m
      BY <3>2, <3>3, <3>8, SeqEqual
    <3> QED
      BY <3>1, <3>9 DEF a, m
  <2> QED
    BY <2>4, <2>6, <2>7
<1> QED
  BY <1>3, <1>4

\* The receiver moves on by a packet.
LEMMA StreamTaken ==
    ASSUME NEW S \in Seq(Octets), NEW s \in Session, s.active, NEW r, NEW v \in Seq(Packet), v # <<>>,
           NEW E \in Seq(Octets), Stream(S, r, s, v, E), NEW t, NEW F,
           t.incoming = IF Head(v).end THEN <<>> ELSE s.incoming \o Head(v).data,
           t.want = IF Head(v).end THEN 0 ELSE IF Head(v).begin THEN Head(v).length ELSE s.want,
           F = IF Head(v).end THEN Append(E, s.incoming \o Head(v).data) ELSE E
    PROVE  Stream(S, r, t, Tail(v), F)
<1> DEFINE p == Head(v)
           V == Tail(v)
           d == p.data
           c == s.incoming
           k == Len(E) + 1
<1>1. PICK f \in [0 .. Len(v) -> Nat \X Nat] : Leads(S, r, s, v, E, f)
  BY DEF Stream
<1>2. /\ f[0] = <<k, Len(c)>> /\ ReceiverAt(S, s, E, f[0]) /\ Carries(S, p, f[0], f[1])
      /\ Len(E) \in Nat /\ Len(c) \in Nat /\ c \in Octets
      /\ d \in Octets /\ Len(d) \in Nat
      /\ (c = <<>> <=> Len(c) = 0)
      /\ (d = <<>> <=> Len(d) = 0)
  BY ONLY S \in Seq(Octets), s \in Session, s.active, v \in Seq(Packet), v # <<>>,
          E \in Seq(Octets), f \in [0 .. Len(v) -> Nat \X Nat], <1>1, FirstCarries
<1>3. /\ Len(V) = Len(v) - 1 /\ Len(v) \in Nat /\ Len(v) > 0
      /\ \A j \in 1 .. Len(V) : V[j] = v[j + 1]
  BY HeadTailProperties
<1>4. ReceiverAt(S, t, F, f[1])
  <2>1. CASE d = <<>>
    <3>1. ~p.begin /\ ~p.end /\ f[1] = f[0]
      BY <1>2, <2>1 DEF Carries
    <3>2. c \o d = c
      BY <1>2, <2>1, ConcatEmptySeq DEF Octets
    <3>3. t.incoming = c /\ t.want = s.want /\ F = E
      BY <3>1, <3>2
    <3> QED
      BY <1>2, <3>1, <3>3 DEF ReceiverAt
  <2>2. CASE d # <<>> /\ p.end
    <3>1. t.incoming = <<>> /\ t.want = 0 /\ Len(F) = k /\ Len(t.incoming) = 0
      BY <1>2, <2>2
    <3>2. f[1] = <<k + 1, 0>>
      BY <1>2, <2>2 DEF Carries
    <3> QED
      BY <3>1, <3>2 DEF ReceiverAt
  <2>3. CASE d # <<>> /\ ~p.end
    <3>1. /\ k \in 1 .. Len(S)
          /\ p.begin <=> Len(c) = 0
          /\ p.begin => p.length = Len(S[k])
          /\ Len(c) + Len(d) <= Len(S[k])
          /\ \A i \in 1 .. Len(d) : d[i] = S[k][Len(c) + i]
          /\ Len(c) + Len(d) # Len(S[k])
          /\ f[1] = <<k, Len(c) + Len(d)>>
      <4>1. f[0][1] = k /\ f[0][2] = Len(c)
        BY <1>2
      <4> HIDE DEF k, c, d
      <4> QED
        BY <1>2, <2>3, <4>1 DEF Carries, d
    <3>2. IF c = <<>> THEN s.want = 0
          ELSE s.want = Len(S[k]) /\ Len(c) < s.want /\ \A i \in 1 .. Len(c) : c[i] = S[k][i]
      BY <1>2 DEF ReceiverAt
    <3>3. S[k] \in Octets /\ Len(S[k]) \in Nat
      BY <3>1 DEF Octets
    <3>4. t.incoming = c \o d /\ F = E /\ t.want = Len(S[k])
      BY <1>2, <2>3, <3>1, <3>2
    <3> DEFINE a == c \o d
    <3>5. /\ Len(a) = Len(c) + Len(d) /\ a # <<>>
          /\ \A i \in 1 .. Len(c) : a[i] = c[i]
          /\ \A i \in 1 .. Len(d) : a[Len(c) + i] = d[i]
      <4> DEFINE O == Nat \X Nat
      <4>1. c \in Seq(O) /\ d \in Seq(O) /\ d # <<>>
        BY <1>2, <2>3 DEF Octets
      <4> HIDE DEF O, c, d
      <4> QED
        BY <4>1
    <3> HIDE DEF a, c, d
    <3>6. \A i \in 1 .. Len(c) : c[i] = S[k][i]
      BY <1>2, <3>2
    <3>7. ASSUME NEW i \in 1 .. Len(a) PROVE a[i] = S[k][i]
      <4>0. i \in Nat /\ i <= Len(c) + Len(d)
        BY <1>2, <3>5
      <4>1. CASE i \in 1 .. Len(c)
        BY <3>5, <3>6, <4>1
      <4>2. CASE i > Len(c)
        <5>1. i - Len(c) \in 1 .. Len(d) /\ Len(c) + (i - Len(c)) = i
          BY <1>2, <4>0, <4>2
        <5>2. a[Len(c) + (i - Len(c))] = d[i - Len(c)]
          BY <3>5, <5>1
        <5>3. d[i - Len(c)] = S[k][Len(c) + (i - Len(c))]
          BY <3>1, <5>1
        <5> QED
          BY <5>1, <5>2, <5>3
      <4> QED
        BY <1>2, <4>0, <4>1, <4>2
    <3>8. t.incoming = a
      BY <3>4 DEF a, c, d
    <3> HIDE DEF k
    <3>9. Len(a) < Len(S[k])
      <4> DEFINE x == Len(c)
                 y == Len(d)
                 z == Len(S[k])
      <4>1. x \in Nat /\ y \in Nat /\ z \in Nat /\ x + y <= z /\ x + y # z
        BY <1>2, <3>1, <3>3
      <4> HIDE DEF x, y, z
      <4>2. x + y < z
        BY <4>1
      <4> QED
        BY <3>5, <4>2 DEF x, y, z
    <3>10. f[1][1] = k /\ f[1][2] = Len(a) /\ f[1] = <<k, Len(a)>>
      BY <3>1, <3>5
    <3>11. k = Len(F) + 1
      BY <3>4 DEF k
    <3>12. f[1] = <<Len(F) + 1, Len(t.incoming)>> /\ t.incoming # <<>>
      BY <3>5, <3>8, <3>10, <3>11
    <3>13. f[1][1] \in 1 .. Len(S) /\ t.want = Len(S[f[1][1]]) /\ f[1][2] < t.want
      BY <3>1, <3>4, <3>9, <3>10
    <3>14. \A i \in 1 .. Len(t.incoming) : t.incoming[i] = S[f[1][1]][i]
      BY <3>7, <3>8, <3>10
    <3> QED
      BY <3>12, <3>13, <3>14 DEF ReceiverAt
  <2> QED
    BY <2>1, <2>2, <2>3
<1> DEFINE g == [j \in 0 .. Len(V) |-> f[j + 1]]
<1> HIDE DEF V
<1>5. g \in [0 .. Len(V) -> Nat \X Nat]
  BY <1>3
<1>6. \A j \in 0 .. Len(V) : g[j] = f[j + 1]
  OBVIOUS
<1> HIDE DEF g
<1>7. Leads(S, r, t, V, F, g)
  <2>1. g[0] = f[1] /\ g[Len(V)] = f[Len(v)]
    BY <1>3, <1>6
  <2>2. ASSUME NEW j \in 1 .. Len(V) PROVE Carries(S, V[j], g[j - 1], g[j])
    <3>1. V[j] = v[j + 1] /\ g[j - 1] = f[j] /\ g[j] = f[j + 1] /\ j + 1 \in 1 .. Len(v) /\ (j + 1) - 1 = j
      BY <1>3, <1>6
    <3>2. Carries(S, v[j + 1], f[(j + 1) - 1], f[j + 1])
      BY <1>1, <3>1 DEF Leads
    <3> QED
      BY <3>1, <3>2
  <2>3. r.active => g[Len(V)] = Place(S, r)
    BY <1>1, <2>1 DEF Leads
  <2> QED
    BY <1>4, <2>1, <2>2, <2>3 DEF Leads
<1> QED
  BY <1>5, <1>7 DEF Stream, V

-----------------------------------------------------------------------------
\* The invariant.

\* The parts of the invariant that concern session x and its peer.
LEMMA Seen ==
    ASSUME IInv, NEW x \in Sides
    PROVE  /\ ses[x] \in Session /\ ses[Peer(x)] \in Session
           /\ wire[x] \in Seq(Packet) /\ wire[Peer(x)] \in Seq(Packet)
           /\ sent[x] \in Seq(Octets) /\ sent[Peer(x)] \in Seq(Octets)
           /\ delivered[x] \in Seq(Octets) /\ delivered[Peer(x)] \in Seq(Octets)
           /\ Writing(ses[x]) /\ Len(ses[x].incoming) <= ses[x].want
           /\ \A m \in 1 .. Len(sent[x]) : sent[x][m] # <<>>
           /\ Numbers(ses[x], ses[Peer(x)], wire[x], wire[Peer(x)])
           /\ Stream(sent[x], ses[x], ses[Peer(x)], wire[x], delivered[Peer(x)])
           /\ Stream(sent[Peer(x)], ses[Peer(x)], ses[x], wire[Peer(x)], delivered[x])
           /\ Awake(ses[x]) /\ Ready(ses[x])
<1>1. Peer(x) \in Sides /\ Peer(Peer(x)) = x
  BY TwoSides
<1>2. Types
  BY DEF IInv
<1>3. /\ ses[x] \in Session /\ ses[Peer(x)] \in Session
      /\ wire[x] \in Seq(Packet) /\ wire[Peer(x)] \in Seq(Packet)
      /\ sent[x] \in Seq(Octets) /\ sent[Peer(x)] \in Seq(Octets)
      /\ delivered[x] \in Seq(Octets) /\ delivered[Peer(x)] \in Seq(Octets)
  BY <1>1, <1>2 DEF Types
<1>4. /\ Writing(ses[x]) /\ Len(ses[x].incoming) <= ses[x].want
      /\ \A m \in 1 .. Len(sent[x]) : sent[x][m] # <<>>
  BY <1>2 DEF Types
<1>5. /\ Numbers(ses[x], ses[Peer(x)], wire[x], wire[Peer(x)])
      /\ Stream(sent[x], ses[x], ses[Peer(x)], wire[x], delivered[Peer(x)])
      /\ Awake(ses[x])
  BY DEF IInv
<1>6. Stream(sent[Peer(x)], ses[Peer(x)], ses[x], wire[Peer(x)], delivered[x])
  <2>1. Stream(sent[Peer(x)], ses[Peer(x)], ses[Peer(Peer(x))], wire[Peer(x)], delivered[Peer(Peer(x))])
    BY <1>1 DEF IInv
  <2> QED
    BY <1>1, <2>1
<1>7. Ready(ses[x])
  BY <1>3, <1>5, QueueReady DEF Stream
<1> QED
  BY <1>3, <1>4, <1>5, <1>6, <1>7

\* A step of session x, put together.
LEMMA Assembled ==
    ASSUME IInv, NEW x \in Sides, NEW t \in Session, Writing(t), Len(t.incoming) <= t.want, Awake(t),
           ses' = [ses EXCEPT ![x] = t], link' = "up",
           wire' \in [Sides -> Seq(Packet)],
           sent' \in [Sides -> Seq(Octets)], sent'[Peer(x)] = sent[Peer(x)],
           delivered' \in [Sides -> Seq(Octets)], delivered'[Peer(x)] = delivered[Peer(x)],
           \A m \in 1 .. Len(sent'[x]) : sent'[x][m] # <<>>,
           Numbers(t, ses[Peer(x)], wire'[x], wire'[Peer(x)]),
           Stream(sent'[x], t, ses[Peer(x)], wire'[x], delivered[Peer(x)]),
           Stream(sent[Peer(x)], ses[Peer(x)], t, wire'[Peer(x)], delivered'[x])
    PROVE  IInv'
<1> DEFINE y == Peer(x)
<1>1. y \in Sides /\ y # x /\ Peer(y) = x /\ \A z \in Sides : z = x \/ z = y
  BY TwoSides
<1>2. Types
  BY DEF IInv
<1>3. ses'[x] = t /\ ses'[y] = ses[y] /\ ses' \in [Sides -> Session] /\ ses[y] \in Session
  BY <1>1, <1>2 DEF Types
<1>4. /\ Writing(ses[y]) /\ Len(ses[y].incoming) <= ses[y].want /\ Awake(ses[y])
      /\ \A m \in 1 .. Len(sent[y]) : sent[y][m] # <<>>
  BY <1>1, <1>2 DEF Types, IInv
<1> HIDE DEF y
<1>5. \A z \in Sides : /\ Writing(ses'[z]) /\ Len(ses'[z].incoming) <= ses'[z].want
                       /\ \A m \in 1 .. Len(sent'[z]) : sent'[z][m] # <<>>
  <2>1. sent'[y] = sent[y]
    BY DEF y
  <2> QED
    BY <1>1, <1>3, <1>4, <2>1
<1>6. Types'
  BY <1>3, <1>5 DEF Types, Writing
<1>7. Numbers(t, ses[y], wire'[x], wire'[y]) /\ Numbers(ses[y], t, wire'[y], wire'[x])
  BY <1>3, Mirror DEF y
<1>8. /\ Stream(sent'[x], t, ses[y], wire'[x], delivered'[y])
      /\ Stream(sent'[y], ses[y], t, wire'[y], delivered'[x])
  BY DEF y
<1>9. ASSUME NEW z \in Sides
      PROVE  /\ Numbers(ses'[z], ses'[Peer(z)], wire'[z], wire'[Peer(z)])
             /\ Stream(sent'[z], ses'[z], ses'[Peer(z)], wire'[z], delivered'[Peer(z)])
             /\ Awake(ses'[z])
  <2>1. CASE z = x
    BY <1>3, <1>7, <1>8, <2>1 DEF y
  <2>2. CASE z = y
    BY <1>1, <1>3, <1>4, <1>7, <1>8, <2>2
  <2> QED
    BY <1>1, <2>1, <2>2
<1>10. (\A z \in Sides :
          /\ Numbers(ses[z], ses[Peer(z)], wire[z], wire[Peer(z)])
          /\ Stream(sent[z], ses[z], ses[Peer(z)], wire[z], delivered[Peer(z)])
          /\ Awake(ses[z]))'
  BY <1>9 DEF Peer
<1> QED
  BY <1>6, <1>10 DEF IInv

\* What a session becomes in the code's way keeps its part; o is what it was writing.
LEMMA ResultKeeps ==
    ASSUME NEW u \in Session, NEW r \in Session, NEW w \in Seq(Packet), NEW v \in Seq(Packet),
           NEW S \in Seq(Octets), NEW D, NEW T, NEW E,
           Numbers(u, r, w, v), Stream(S, u, r, w, D), Stream(T, r, u, v, E),
           Writing(u), Len(u.incoming) <= u.want, NEW t, Result(u, t),
           NEW o \in Seq(Packet), o = u.out \/ (u.out = <<>> /\ (o # <<>> => o[1].seq = u.seq)),
           NEW b, b = IF t.out # o THEN t.out ELSE <<>>
    PROVE  /\ t \in Session /\ Writing(t) /\ Len(t.incoming) <= t.want /\ Awake(t)
           /\ w \o b \in Seq(Packet)
           /\ Numbers(t, r, w \o b, v) /\ Stream(S, t, r, w \o b, D) /\ Stream(T, r, t, v, E)
<1>1. t \in Session
  BY DEF Result
<1>2. CASE Same(u, t) /\ Settled(t)
  <2>1. b = <<>>
    BY <1>2 DEF Same
  <2>2. w \o b = w
    BY <2>1, ConcatEmptySeq
  <2>3. Writing(t) /\ Len(t.incoming) <= t.want /\ Awake(t)
    BY <1>2 DEF Same, Writing, Settled, Awake
  <2>4. Numbers(t, r, w, v)
    BY <1>2, Undisturbed DEF Same
  <2>5. Stream(S, t, r, w, D) /\ Stream(T, r, t, v, E)
    BY <1>2, SenderSame, ReceiverSame DEF Same
  <2> QED
    BY <1>1, <2>2, <2>3, <2>4, <2>5
<1>3. CASE \E p \in Packet : Emits(u, t, p)
  <2>1. PICK p \in Packet : Emits(u, t, p)
    BY <1>3
  <2>2. /\ t.out = <<p>> /\ p.seq = t.seq /\ u.out = <<>> /\ t.seq = NextSequenceNumber(u)
        /\ t.active = u.active /\ t.incoming = u.incoming /\ t.want = u.want
    BY <2>1, Fields, <1>1 DEF Emits
  <2>3. NextSequenceNumber(u) # u.seq
    <3>1. u.seq \in Nums
      BY Fields
    <3>2. u.seq \in Int
      BY <3>1, Distance
    <3> QED
      BY <3>2, Constants DEF NextSequenceNumber
  <2>4. b = <<p>>
    <3>1. t.out # o
      <4>1. CASE o = <<>>
        BY <2>2, <4>1
      <4>2. CASE o # <<>>
        <5>1. o[1].seq = u.seq
          BY <2>2, <4>2
        <5>2. t.out[1].seq # u.seq
          BY <2>2, <2>3
        <5> QED
          BY <5>1, <5>2
      <4> QED
        BY <4>1, <4>2
    <3> QED
      BY <2>2, <3>1
  <2>5. Writing(t) /\ Len(t.incoming) <= t.want /\ Awake(t)
    BY <2>2 DEF Writing, Awake
  <2>6. Numbers(t, r, w \o <<p>>, v)
    BY <1>1, <2>1, Emission DEF Emits
  <2>7. Stream(S, t, r, w \o <<p>>, D)
    BY <1>1, <2>1, StreamEmits
  <2>8. Stream(T, r, t, v, E)
    BY <2>2, ReceiverSame
  <2>9. w \o <<p>> \in Seq(Packet)
    OBVIOUS
  <2> QED
    BY <1>1, <2>4, <2>5, <2>6, <2>7, <2>8, <2>9
<1> QED
  BY <1>2, <1>3 DEF Result

\* A new session, active or ended.
LEMMA NewTypes ==
    ASSUME NEW x \in Sides
    PROVE  /\ NewSession(x) \in Session /\ Ended(NewSession(x)) \in Session
           /\ NewSession(x).out = <<>> /\ NewSession(x).queue = <<>> /\ NewSession(x).incoming = <<>>
           /\ NewSession(x).want = 0
           /\ Ended(NewSession(x)).out = <<>> /\ Ended(NewSession(x)).incoming = <<>>
           /\ Ended(NewSession(x)).want = 0 /\ ~Ended(NewSession(x)).active
<1>1. /\ (IF x = "central" THEN 0 ELSE Mod - 1) \in SeqNumbers /\ -1 \in Nums
      /\ (IF x = "central" THEN -1 ELSE 0) \in Nums /\ (IF x = "central" THEN -1 ELSE Mod - 1) \in Nums
  BY Constants DEF SeqNumbers, Nums
<1>2. <<>> \in Seq(Entry) /\ <<>> \in Seq(Packet) /\ <<>> \in Octets
  BY DEF Octets
<1>3. (x = "central") \in BOOLEAN /\ (x = "peripheral") \in BOOLEAN
  OBVIOUS
<1>4. NewSession(x) \in Session
  BY <1>1, <1>2, <1>3 DEF NewSession, Session
<1>5. /\ NewSession(x).out = <<>> /\ NewSession(x).queue = <<>> /\ NewSession(x).incoming = <<>>
      /\ NewSession(x).want = 0
  BY DEF NewSession
<1>6. Ended(NewSession(x)) \in Session
  BY <1>4 DEF Ended, Session
<1>7. /\ Ended(NewSession(x)).out = <<>> /\ Ended(NewSession(x)).incoming = <<>>
      /\ Ended(NewSession(x)).want = 0 /\ ~Ended(NewSession(x)).active
  BY DEF Ended, NewSession
<1> QED
  BY <1>4, <1>5, <1>6, <1>7

\* The numbers of two new sessions.
LEMMA NewNumbers ==
    ASSUME NEW x \in Sides
    PROVE  /\ Numbers(NewSession(x), NewSession(Peer(x)), <<>>, <<>>)
           /\ Numbers(Ended(NewSession(x)), Ended(NewSession(Peer(x))), <<>>, <<>>)
<1> DEFINE c == NewSession("central")
           p == NewSession("peripheral")
<1>1. c \in Session /\ p \in Session /\ Ended(c) \in Session /\ Ended(p) \in Session
  BY NewTypes DEF Sides
<1>2. /\ c.inSeq = 0 /\ c.inAck = -1 /\ c.seq = -1 /\ c.acked = -1
      /\ p.inSeq = Mod - 1 /\ p.inAck = -1 /\ p.seq = 0 /\ p.acked = Mod - 1
  BY DEF NewSession
<1>3. /\ Ended(c).inSeq = 0 /\ Ended(c).inAck = -1 /\ Ended(c).seq = -1 /\ Ended(c).acked = -1
      /\ Ended(p).inSeq = Mod - 1 /\ Ended(p).inAck = -1 /\ Ended(p).seq = 0 /\ Ended(p).acked = Mod - 1
  BY DEF NewSession, Ended
<1> HIDE DEF c, p
<1>4. Numbers(c, p, <<>>, <<>>) /\ Numbers(Ended(c), Ended(p), <<>>, <<>>)
  BY <1>1, <1>2, <1>3, FirstNumbers
<1>5. Numbers(p, c, <<>>, <<>>) /\ Numbers(Ended(p), Ended(c), <<>>, <<>>)
  BY <1>1, <1>4, Mirror
<1> QED
  BY <1>4, <1>5, TwoSides DEF c, p, Sides

\* It holds when the handshake ends.
LEMMA InitIInv == Init => IInv
<1> SUFFICES ASSUME Init PROVE IInv
  OBVIOUS
<1>1. /\ ses = [x \in Sides |-> NewSession(x)] /\ wire = [x \in Sides |-> <<>>] /\ link = "up"
      /\ sent = [x \in Sides |-> <<>>] /\ delivered = [x \in Sides |-> <<>>]
  BY DEF Init
<1>2. <<>> \in Seq(Packet) /\ <<>> \in Seq(Octets) /\ Len(<<>>) = 0
  OBVIOUS
<1>3. Types
  <2>1. ses \in [Sides -> Session]
    BY <1>1, NewTypes
  <2>2. ASSUME NEW x \in Sides
        PROVE  /\ Writing(ses[x]) /\ Len(ses[x].incoming) <= ses[x].want
               /\ \A m \in 1 .. Len(sent[x]) : sent[x][m] # <<>>
    BY <1>1, NewTypes DEF Writing
  <2> QED
    BY <1>1, <1>2, <2>1, <2>2 DEF Types
<1>4. ASSUME NEW x \in Sides
      PROVE  /\ Numbers(ses[x], ses[Peer(x)], wire[x], wire[Peer(x)])
             /\ Stream(sent[x], ses[x], ses[Peer(x)], wire[x], delivered[Peer(x)])
             /\ Awake(ses[x])
  <2>1. Peer(x) \in Sides
    BY TwoSides
  <2> DEFINE s == NewSession(x)
             r == NewSession(Peer(x))
  <2>2. /\ s.out = <<>> /\ s.queue = <<>> /\ r.incoming = <<>> /\ r.want = 0
    BY <2>1, NewTypes
  <2>3. Numbers(s, r, <<>>, <<>>)
    BY NewNumbers
  <2> HIDE DEF s, r
  <2>4. Queue(<<>>, s) /\ Awake(s) /\ Place(<<>>, s) = <<1, 0>>
    BY <2>2 DEF Queue, Awake, Place
  <2>5. Stream(<<>>, s, r, <<>>, <<>>)
    <3> DEFINE f == [j \in 0 .. Len(<<>>) |-> <<1, 0>>]
    <3>1. f \in [0 .. Len(<<>>) -> Nat \X Nat] /\ f[0] = <<1, 0>> /\ f[Len(<<>>)] = <<1, 0>>
      OBVIOUS
    <3> HIDE DEF f
    <3>2. ReceiverAt(<<>>, r, <<>>, f[0])
      BY <2>2, <3>1 DEF ReceiverAt
    <3>3. Leads(<<>>, s, r, <<>>, <<>>, f)
      BY <2>4, <3>1, <3>2 DEF Leads
    <3> QED
      BY <2>4, <3>1, <3>3 DEF Stream
  <2> QED
    BY <1>1, <2>1, <2>3, <2>4, <2>5 DEF s, r
<1> QED
  BY <1>3, <1>4 DEF IInv

\* Nothing is left of a connection that is gone.
LEMMA DisconnectKeeps ==
    ASSUME IInv, Disconnect
    PROVE  IInv'
<1>1. /\ ses' = [x \in Sides |-> Ended(NewSession(x))] /\ wire' = [x \in Sides |-> <<>>] /\ link' = "down"
      /\ sent' = sent /\ delivered' = delivered
  BY DEF Disconnect
<1>2. <<>> \in Seq(Packet) /\ Len(<<>>) = 0
  OBVIOUS
<1>3. Types'
  <2>1. ses' \in [Sides -> Session] /\ wire' \in [Sides -> Seq(Packet)]
    BY <1>1, <1>2, NewTypes
  <2>2. ASSUME NEW x \in Sides
        PROVE  /\ Writing(ses'[x]) /\ Len(ses'[x].incoming) <= ses'[x].want /\ ~ses'[x].active
               /\ \A m \in 1 .. Len(sent'[x]) : sent'[x][m] # <<>>
    BY <1>1, NewTypes DEF Writing, IInv, Types
  <2>3. sent' \in [Sides -> Seq(Octets)] /\ delivered' \in [Sides -> Seq(Octets)]
    BY <1>1 DEF IInv, Types
  <2> QED
    BY <1>1, <2>1, <2>2, <2>3 DEF Types, Writing
<1>4. ASSUME NEW x \in Sides
      PROVE  /\ Numbers(ses'[x], ses'[Peer(x)], wire'[x], wire'[Peer(x)])
             /\ Stream(sent'[x], ses'[x], ses'[Peer(x)], wire'[x], delivered'[Peer(x)])
             /\ Awake(ses'[x])
  <2>1. Peer(x) \in Sides
    BY TwoSides
  <2>2. ~ses'[x].active /\ ~ses'[Peer(x)].active
    BY <1>1, <2>1, NewTypes
  <2>3. Numbers(ses'[x], ses'[Peer(x)], wire'[x], wire'[Peer(x)])
    BY <1>1, <2>1, NewNumbers
  <2> QED
    BY <2>2, <2>3 DEF Stream, Awake
<1>5. (\A z \in Sides :
          /\ Numbers(ses[z], ses[Peer(z)], wire[z], wire[Peer(z)])
          /\ Stream(sent[z], ses[z], ses[Peer(z)], wire[z], delivered[Peer(z)])
          /\ Awake(ses[z]))'
  BY <1>4 DEF Peer
<1> QED
  BY <1>3, <1>5 DEF IInv

\* Session x becomes t, a result of u, which is x's session or what a step made of it first.
LEMMA BecomeKeeps ==
    ASSUME IInv, NEW x \in Sides, NEW u \in Session, NEW t, Result(u, t), Become(x, t),
           link = "up", link' = link, delivered' = delivered,
           sent' \in [Sides -> Seq(Octets)], sent'[Peer(x)] = sent[Peer(x)],
           \A m \in 1 .. Len(sent'[x]) : sent'[x][m] # <<>>,
           Numbers(u, ses[Peer(x)], wire[x], wire[Peer(x)]),
           Stream(sent'[x], u, ses[Peer(x)], wire[x], delivered[Peer(x)]),
           u.incoming = ses[x].incoming, u.want = ses[x].want, u.active => ses[x].active,
           u.seq = ses[x].seq, u.out \in {<<>>, ses[x].out}
    PROVE  IInv'
<1> DEFINE y == Peer(x)
           b == Begun(x)
<1>1. y \in Sides /\ y # x
  BY TwoSides
<1>2. /\ ses[x] \in Session /\ ses[y] \in Session /\ wire[x] \in Seq(Packet) /\ wire[y] \in Seq(Packet)
      /\ Writing(ses[x]) /\ Len(ses[x].incoming) <= ses[x].want
      /\ Stream(sent[y], ses[y], ses[x], wire[y], delivered[x])
  BY Seen
<1>3. ses' = [ses EXCEPT ![x] = t] /\ wire' = [wire EXCEPT ![x] = @ \o b]
  BY DEF Become
<1>4. ses \in [Sides -> Session] /\ wire \in [Sides -> Seq(Packet)] /\ delivered \in [Sides -> Seq(Octets)]
  BY DEF IInv, Types
<1>5. b = IF t.out # ses[x].out THEN t.out ELSE <<>>
  BY <1>3, <1>4 DEF Begun
<1> HIDE DEF b, y
<1>6. Stream(sent[y], ses[y], u, wire[y], delivered[x])
  BY <1>2, ReceiverSame
<1>7. Writing(u) /\ ses[x].out \in Seq(Packet)
      /\ (ses[x].out = u.out \/ (u.out = <<>> /\ (ses[x].out # <<>> => ses[x].out[1].seq = u.seq)))
  BY <1>2 DEF Writing, Session
<1>8. sent'[x] \in Seq(Octets)
  OBVIOUS
<1>9. /\ t \in Session /\ Writing(t) /\ Len(t.incoming) <= t.want /\ Awake(t)
      /\ wire[x] \o b \in Seq(Packet)
      /\ Numbers(t, ses[y], wire[x] \o b, wire[y])
      /\ Stream(sent'[x], t, ses[y], wire[x] \o b, delivered[y])
      /\ Stream(sent[y], ses[y], t, wire[y], delivered[x])
  <2>1. /\ Numbers(u, ses[y], wire[x], wire[y]) /\ Stream(sent'[x], u, ses[y], wire[x], delivered[y])
        /\ Len(u.incoming) <= u.want
    BY <1>2 DEF y
  <2> DEFINE r == ses[y]
             w == wire[x]
             v == wire[y]
             S == sent'[x]
             D == delivered[y]
             T == sent[y]
             E == delivered[x]
             o == ses[x].out
  <2>2. /\ r \in Session /\ w \in Seq(Packet) /\ v \in Seq(Packet) /\ S \in Seq(Octets)
        /\ Numbers(u, r, w, v) /\ Stream(S, u, r, w, D) /\ Stream(T, r, u, v, E)
        /\ Writing(u) /\ Len(u.incoming) <= u.want
        /\ o \in Seq(Packet) /\ (o = u.out \/ (u.out = <<>> /\ (o # <<>> => o[1].seq = u.seq)))
        /\ b = IF t.out # o THEN t.out ELSE <<>>
    BY <1>2, <1>5, <1>6, <1>7, <1>8, <2>1
  <2> HIDE DEF r, w, v, S, D, T, E, o
  <2>3. /\ t \in Session /\ Writing(t) /\ Len(t.incoming) <= t.want /\ Awake(t)
        /\ w \o b \in Seq(Packet)
        /\ Numbers(t, r, w \o b, v) /\ Stream(S, t, r, w \o b, D) /\ Stream(T, r, t, v, E)
    BY ONLY u \in Session, Result(u, t), <2>2, ResultKeeps
  <2> QED
    BY <2>3 DEF r, w, v, S, D, T, E, o
<1>10. wire'[x] = wire[x] \o b /\ wire'[y] = wire[y] /\ wire' \in [Sides -> Seq(Packet)]
  BY <1>1, <1>3, <1>4, <1>9
<1>11. delivered' \in [Sides -> Seq(Octets)] /\ delivered'[x] = delivered[x]
  BY <1>4
<1> QED
  BY <1>3, <1>9, <1>10, <1>11, Assembled DEF y

\* Session x changes in what concerns the session alone.
LEMMA QuietKeeps ==
    ASSUME IInv, NEW x \in Sides, NEW t \in Session, ses' = [ses EXCEPT ![x] = t],
           wire' = wire, link = "up", link' = link, sent' = sent, delivered' = delivered,
           t.active => ses[x].active, t.seq = ses[x].seq, t.acked = ses[x].acked,
           t.inSeq = ses[x].inSeq, t.inAck = ses[x].inAck,
           t.incoming = ses[x].incoming, t.want = ses[x].want,
           t.active => t.queue = ses[x].queue /\ t.out = ses[x].out /\ t.handler = ses[x].handler,
           t.out \in {<<>>, ses[x].out}
    PROVE  IInv'
<1> DEFINE y == Peer(x)
<1>1. /\ ses[x] \in Session /\ ses[y] \in Session /\ wire[x] \in Seq(Packet) /\ wire[y] \in Seq(Packet)
      /\ Writing(ses[x]) /\ Len(ses[x].incoming) <= ses[x].want /\ Awake(ses[x])
      /\ \A m \in 1 .. Len(sent[x]) : sent[x][m] # <<>>
      /\ Numbers(ses[x], ses[y], wire[x], wire[y])
      /\ Stream(sent[x], ses[x], ses[y], wire[x], delivered[y])
      /\ Stream(sent[y], ses[y], ses[x], wire[y], delivered[x])
  BY Seen
<1>2. wire \in [Sides -> Seq(Packet)] /\ delivered \in [Sides -> Seq(Octets)] /\ sent \in [Sides -> Seq(Octets)]
  BY DEF IInv, Types
<1>3. Writing(t) /\ Len(t.incoming) <= t.want
  BY <1>1 DEF Writing
<1>4. Awake(t)
  <2>1. Owes(t) = Owes(ses[x]) /\ CanSend(t, Owes(t)) = CanSend(ses[x], Owes(ses[x]))
    BY DEF Owes, CanSend, RemoteWindowFreeSlots
  <2> QED
    BY <1>1, <2>1 DEF Awake
<1>5. Numbers(t, ses[y], wire[x], wire[y])
  BY <1>1, Undisturbed
<1>6. Stream(sent[x], t, ses[y], wire[x], delivered[y]) /\ Stream(sent[y], ses[y], t, wire[y], delivered[x])
  BY <1>1, SenderSame, ReceiverSame
<1> QED
  BY <1>1, <1>2, <1>3, <1>4, <1>5, <1>6, Assembled

-----------------------------------------------------------------------------
\* The actions.

\* Send.
LEMMA SendKeeps ==
    ASSUME IInv, NEW x \in Sides, NEW len \in Lengths, Send(x, len)
    PROVE  IInv'
<1> DEFINE y == Peer(x)
           m == Message(x, len)
           e == [data |-> m, off |-> 0]
           s == ses[x]
           u == [s EXCEPT !.queue = Append(@, e)]
           t == ProcessSendQueue(u, "other")
<1>1. /\ link = "up" /\ s.active /\ sent' = [sent EXCEPT ![x] = Append(@, m)]
      /\ Become(x, t) /\ link' = link /\ delivered' = delivered
  BY DEF Send
<1>2. /\ s \in Session /\ sent[x] \in Seq(Octets) /\ sent[y] \in Seq(Octets)
      /\ \A i \in 1 .. Len(sent[x]) : sent[x][i] # <<>>
      /\ Numbers(s, ses[y], wire[x], wire[y])
      /\ Stream(sent[x], s, ses[y], wire[x], delivered[y])
  BY Seen
<1>3. m \in Octets /\ m # <<>>
  <2>1. len \in Nat /\ len # 0 /\ Len(sent[x]) + 1 \in Nat
    BY <1>2, BtpAssumption
  <2>2. m = [i \in 1 .. len |-> <<Len(sent[x]) + 1, i>>]
    BY DEF Message
  <2>3. \A i \in 1 .. len : <<Len(sent[x]) + 1, i>> \in Nat \X Nat
    BY <2>1
  <2>4. m \in [1 .. len -> Nat \X Nat]
    BY <2>2, <2>3
  <2> HIDE DEF m
  <2>5. m \in Seq(Nat \X Nat) /\ Len(m) = len
    BY <2>1, <2>4
  <2> QED
    BY <2>1, <2>5 DEF Octets
<1> HIDE DEF m
<1>4. e \in Entry
  BY <1>3 DEF Entry
<1> HIDE DEF e
<1>5. /\ u \in Session /\ u.queue = Append(s.queue, e) /\ u.out = s.out /\ u.active = s.active
      /\ u.incoming = s.incoming /\ u.want = s.want /\ u.seq = s.seq
      /\ u.acked = s.acked /\ u.inSeq = s.inSeq /\ u.inAck = s.inAck
  <2>1. s.queue \in Seq(Entry)
    BY <1>2 DEF Session
  <2>2. Append(s.queue, e) \in Seq(Entry)
    BY <1>4, <2>1
  <2> DEFINE q == Append(s.queue, e)
  <2> HIDE DEF q
  <2>3. u = [s EXCEPT !.queue = q]
    BY DEF q
  <2>4. q \in Seq(Entry)
    BY <2>2 DEF q
  <2> HIDE DEF u, s
  <2>5. /\ u \in Session /\ u.queue = q /\ u.out = s.out /\ u.active = s.active
        /\ u.incoming = s.incoming /\ u.want = s.want /\ u.seq = s.seq
        /\ u.acked = s.acked /\ u.inSeq = s.inSeq /\ u.inAck = s.inAck
    BY <1>2, <2>3, <2>4 DEF Session
  <2> QED
    BY <2>5 DEF q
<1> HIDE DEF u
<1>6. /\ sent'[x] = Append(sent[x], m) /\ sent'[y] = sent[y] /\ sent' \in [Sides -> Seq(Octets)]
      /\ \A i \in 1 .. Len(sent'[x]) : sent'[x][i] # <<>>
  <2>1. y # x /\ y \in Sides /\ sent \in [Sides -> Seq(Octets)]
    BY TwoSides DEF IInv, Types
  <2>2. Append(sent[x], m) \in Seq(Octets)
    BY <1>2, <1>3
  <2>3. sent'[x] = Append(sent[x], m) /\ sent'[y] = sent[y] /\ sent' \in [Sides -> Seq(Octets)]
    BY <1>1, <2>1, <2>2
  <2> QED
    BY <1>2, <1>3, <2>3
<1>7. Stream(sent'[x], u, ses[y], wire[x], delivered[y])
  <2>1. Stream(Append(sent[x], m), u, ses[y], wire[x], delivered[y])
    BY <1>1, <1>2, <1>3, <1>5, StreamQueued DEF e
  <2> QED
    BY <1>6, <2>1
<1>8. Numbers(u, ses[y], wire[x], wire[y])
  BY <1>2, <1>5, Undisturbed
<1>9. Result(u, t)
  <2>1. Ready(u)
    BY <1>5, <1>7, QueueReady DEF Stream
  <2> QED
    BY <1>5, <2>1, QueueResult
<1> HIDE DEF t
<1> QED
  BY <1>1, <1>5, <1>6, <1>7, <1>8, <1>9, BecomeKeeps

\* A write that returns.
LEMMA WrittenKeeps ==
    ASSUME IInv, NEW x \in Sides, Written(x)
    PROVE  IInv'
<1> DEFINE y == Peer(x)
           s == ses[x]
           p == s.out[1]
           e == [s EXCEPT !.out = <<>>]
           a == IF e.active THEN Resume(e, p) ELSE [e EXCEPT !.queue = IF p.data # <<>> THEN <<>> ELSE @]
           t == ChainEnds(a)
<1>1. /\ link = "up" /\ s.out # <<>> /\ Become(x, t)
      /\ link' = link /\ sent' = sent /\ delivered' = delivered
  BY DEF Written
<1>2. /\ s \in Session /\ ses[y] \in Session /\ wire[x] \in Seq(Packet) /\ wire[y] \in Seq(Packet)
      /\ sent[x] \in Seq(Octets) /\ Writing(s)
      /\ \A i \in 1 .. Len(sent[x]) : sent[x][i] # <<>>
      /\ Numbers(s, ses[y], wire[x], wire[y])
      /\ Stream(sent[x], s, ses[y], wire[x], delivered[y])
  BY Seen
<1>3. /\ sent \in [Sides -> Seq(Octets)] /\ wire \in [Sides -> Seq(Packet)] /\ ses \in [Sides -> Session]
  BY DEF IInv, Types
<1>4. e.active = s.active /\ e \in Session
  <2>1. <<>> \in Seq(Packet)
    OBVIOUS
  <2> QED
    BY <1>2, <2>1 DEF Session
<1>5. CASE s.active
  <2> DEFINE u == Popped(s)
  <2>1. u \in Session /\ Stream(sent[x], u, ses[y], wire[x], delivered[y])
    BY <1>1, <1>2, <1>5, StreamPopped
  <2>2. /\ u.out = <<>> /\ u.active = s.active /\ u.incoming = s.incoming /\ u.want = s.want
        /\ u.seq = s.seq /\ u.acked = s.acked /\ u.inSeq = s.inSeq /\ u.inAck = s.inAck
    BY <1>2 DEF Popped, Session
  <2>3. Ready(u)
    BY <2>1, QueueReady DEF Stream
  <2>4. t = ChainEnds(Resume(e, p))
    BY <1>4, <1>5
  <2>5. Result(u, ChainEnds(Resume(e, p)))
    BY <1>1, <1>2, <1>5, <2>1, <2>3, WrittenResult
  <2> HIDE DEF u, t
  <2>6. Numbers(u, ses[y], wire[x], wire[y])
    BY <1>2, <2>2, Undisturbed
  <2>7. Result(u, t)
    BY <2>4, <2>5
  <2> QED
    BY <1>1, <1>2, <1>3, <2>1, <2>2, <2>6, <2>7, BecomeKeeps
<1>6. CASE ~s.active
  <2> DEFINE q == IF p.data # <<>> THEN <<>> ELSE s.queue
             h == IF s.by = "other" THEN s.handler ELSE "idle"
  <2>1. a = [s EXCEPT !.out = <<>>, !.queue = q]
    BY <1>2, <1>4, <1>6 DEF Session
  <2>2. q \in Seq(Entry) /\ h \in {"idle", "message", "queue", "immediate"} /\ <<>> \in Seq(Packet)
    BY <1>2 DEF Session
  <2> HIDE DEF q, h, a
  <2>3. /\ a \in Session /\ a.out = <<>> /\ a.by = s.by /\ ~a.active /\ a.handler = s.handler
    BY <1>2, <1>6, <2>1, <2>2 DEF Session
  <2>4. ~ImmediateAckDue(a)
    BY <2>3 DEF ImmediateAckDue
  <2>5. t = [s EXCEPT !.out = <<>>, !.queue = q, !.handler = h]
    <3>1. t = [a EXCEPT !.handler = h]
      <4>1. CASE a.by = "other"
        <5>1. t = a /\ h = a.handler
          BY <2>3, <4>1 DEF ChainEnds, h
        <5> QED
          BY <2>3, <5>1 DEF Session
      <4>2. CASE a.by # "other"
        BY <2>3, <2>4, <4>2 DEF ChainEnds, SendImmediateAckIfWindowLow, h
      <4> QED
        BY <4>1, <4>2
    <3> QED
      BY <1>2, <2>1, <3>1 DEF Session
  <2> HIDE DEF t
  <2>6. /\ t \in Session /\ t.out = <<>> /\ ~t.active /\ t.incoming = s.incoming /\ t.want = s.want
        /\ t.seq = s.seq /\ t.acked = s.acked /\ t.inSeq = s.inSeq /\ t.inAck = s.inAck
    BY <1>2, <1>6, <2>2, <2>5 DEF Session
  <2>7. ses' = [ses EXCEPT ![x] = t] /\ wire' = [wire EXCEPT ![x] = @ \o Begun(x)]
    BY <1>1 DEF Become
  <2>8. Begun(x) = <<>>
    <3>1. ses'[x].out = <<>>
      BY <1>3, <2>6, <2>7
    <3> QED
      BY <3>1 DEF Begun
  <2>9. wire' = wire
    <3>1. wire[x] \o <<>> = wire[x]
      BY <1>2, ConcatEmptySeq
    <3> QED
      BY <1>3, <2>7, <2>8, <3>1
  <2> QED
    BY <1>1, <2>6, <2>7, <2>9, QuietKeeps
<1> QED
  BY <1>5, <1>6

\* A write that fails.
LEMMA WriteFailsKeeps ==
    ASSUME IInv, NEW x \in Sides, WriteFails(x)
    PROVE  IInv'
<1>1. CASE Disconnect
  BY <1>1, DisconnectKeeps
<1>2. CASE ~Disconnect
  <2> DEFINE s == ses[x]
             h == IF s.by = "handler" THEN "idle" ELSE s.handler
             t == [s EXCEPT !.out = <<>>, !.queue = <<>>, !.handler = h]
  <2>1. /\ link = "up" /\ ~s.active /\ wire' = wire /\ link' = link /\ sent' = sent /\ delivered' = delivered
        /\ ses' = [ses EXCEPT ![x] = [@ EXCEPT !.out = <<>>, !.queue = <<>>,
                            !.handler = IF ses[x].by = "handler" THEN "idle" ELSE ses[x].handler]]
    BY <1>2 DEF WriteFails
  <2>2. ses' = [ses EXCEPT ![x] = t]
    BY <2>1
  <2>3. s \in Session
    BY Seen
  <2>4. h \in {"idle", "message", "queue", "immediate"} /\ <<>> \in Seq(Packet) /\ <<>> \in Seq(Entry)
    BY <2>3 DEF Session
  <2> HIDE DEF h
  <2>5. /\ t \in Session /\ t.out = <<>> /\ ~t.active /\ t.incoming = s.incoming /\ t.want = s.want
        /\ t.seq = s.seq /\ t.acked = s.acked /\ t.inSeq = s.inSeq /\ t.inAck = s.inAck
    BY <2>1, <2>3, <2>4 DEF Session
  <2> HIDE DEF t
  <2> QED
    BY <2>1, <2>2, <2>5, QuietKeeps
<1> QED
  BY <1>1, <1>2

\* What a session has collected is less than what it waits for.
LEMMA ReceiverFits ==
    ASSUME NEW S, NEW s, NEW r, NEW v, NEW E, s.active, Stream(S, r, s, v, E)
    PROVE  Len(s.incoming) <= s.want
<1>1. PICK f \in [0 .. Len(v) -> Nat \X Nat] : Leads(S, r, s, v, E, f)
  BY DEF Stream
<1>2. ReceiverAt(S, s, E, f[0])
  BY <1>1 DEF Leads
<1>3. f[0] = <<Len(E) + 1, Len(s.incoming)>>
  BY <1>2 DEF ReceiverAt
<1>4. CASE s.incoming = <<>>
  BY <1>2, <1>4 DEF ReceiverAt
<1>5. CASE s.incoming # <<>>
  BY <1>2, <1>3, <1>5 DEF ReceiverAt
<1> QED
  BY <1>4, <1>5

\* The handler that flushes has left the Message callback.
LEMMA FlushHandler ==
    ASSUME NEW s \in Session
    PROVE  Flush(s).handler # "message"
<1>1. ASSUME NEW h \in {"queue", "immediate"}, NEW who, NEW z, z = [s EXCEPT !.handler = h]
      PROVE  z.handler = h /\ EmitSegment(z, who).handler = h /\ SendStandaloneAck(z, who).handler = h
  <2>1. z \in Session /\ z.handler = h
    BY <1>1, FlagsOnly DEF Session
  <2> QED
    BY <2>1 DEF EmitSegment, SendStandaloneAck, Session
<1>2. SendLoop([s EXCEPT !.handler = "queue"], "handler").handler = "queue"
  BY <1>1 DEF SendLoop
<1>3. SendStandaloneAck([s EXCEPT !.handler = "immediate"], "handler").handler = "immediate"
  BY <1>1
<1>4. [s EXCEPT !.handler = "idle"].handler = "idle"
  BY DEF Session
<1> QED
  BY <1>2, <1>3, <1>4 DEF Flush, SendImmediateAckIfWindowLow

\* An active session after it has taken packet p.
Taken(s, p) == TakeSegment(TakeAck(TakeSequence(s, p), p), p)

\* Its fields.
LEMMA TakenFields ==
    ASSUME NEW s \in Session, NEW p \in Packet
    PROVE  /\ Taken(s, p) \in Session
           /\ Taken(s, p).active = s.active /\ Taken(s, p).seq = s.seq /\ Taken(s, p).acked = s.acked
           /\ Taken(s, p).inSeq = p.seq
           /\ Taken(s, p).inAck = IF p.ack = NoAck THEN s.inAck ELSE p.ack
           /\ Taken(s, p).queue = s.queue /\ Taken(s, p).out = s.out
           /\ Taken(s, p).incoming = IF p.end THEN <<>> ELSE s.incoming \o p.data
           /\ Taken(s, p).want = IF p.end THEN 0 ELSE IF p.begin THEN p.length ELSE s.want
<1> DEFINE a == TakeSequence(s, p)
           b == TakeAck(a, p)
           c == TakeSegment(b, p)
<1>1. /\ p.seq \in SeqNumbers /\ p.ack \in Nums /\ p.data \in Octets /\ p.length \in Nat
      /\ p.end \in BOOLEAN /\ p.begin \in BOOLEAN
  BY DEF Packet
<1>2. /\ a \in Session /\ a.active = s.active /\ a.seq = s.seq /\ a.acked = s.acked /\ a.inSeq = p.seq
      /\ a.inAck = s.inAck /\ a.queue = s.queue /\ a.out = s.out /\ a.incoming = s.incoming /\ a.want = s.want
  BY <1>1 DEF TakeSequence, Session
<1> HIDE DEF a
<1>3. /\ b \in Session /\ b.active = a.active /\ b.seq = a.seq /\ b.acked = a.acked /\ b.inSeq = a.inSeq
      /\ b.inAck = (IF p.ack = NoAck THEN a.inAck ELSE p.ack)
      /\ b.queue = a.queue /\ b.out = a.out /\ b.incoming = a.incoming /\ b.want = a.want
  <2>1. CASE p.ack = NoAck
    BY <1>2, <2>1 DEF TakeAck
  <2>2. CASE p.ack # NoAck
    <3> DEFINE k == p.ack # a.seq
    <3>1. b = [a EXCEPT !.inAck = p.ack, !.ackReceive = k] /\ k \in BOOLEAN
      BY <2>2 DEF TakeAck
    <3> HIDE DEF b, k
    <3> QED
      BY <1>1, <1>2, <2>2, <3>1 DEF Session
  <2> QED
    BY <2>1, <2>2
<1> HIDE DEF b
<1>4. /\ c \in Session /\ c.active = b.active /\ c.seq = b.seq /\ c.acked = b.acked /\ c.inSeq = b.inSeq
      /\ c.inAck = b.inAck /\ c.queue = b.queue /\ c.out = b.out
      /\ c.incoming = (IF p.end THEN <<>> ELSE b.incoming \o p.data)
      /\ c.want = (IF p.end THEN 0 ELSE IF p.begin THEN p.length ELSE b.want)
  <2> DEFINE i == IF p.end THEN <<>> ELSE b.incoming \o p.data
             w == IF p.end THEN 0 ELSE IF p.begin THEN p.length ELSE b.want
  <2>1. c = [b EXCEPT !.incoming = i, !.want = w]
    BY <1>3 DEF TakeSegment, Session
  <2>2. i \in Octets
    <3>1. b.incoming \in Octets
      BY <1>3 DEF Session
    <3> QED
      BY <1>1, <3>1 DEF Octets
  <2>3. w \in Nat
    BY <1>1, <1>3 DEF Session
  <2> HIDE DEF c, i, w
  <2>4. /\ c \in Session /\ c.active = b.active /\ c.seq = b.seq /\ c.acked = b.acked /\ c.inSeq = b.inSeq
        /\ c.inAck = b.inAck /\ c.queue = b.queue /\ c.out = b.out /\ c.incoming = i /\ c.want = w
    BY <1>3, <2>1, <2>2, <2>3 DEF Session
  <2> QED
    BY <2>4 DEF i, w
<1>5. c = Taken(s, p)
  BY DEF Taken, a, b
<1> HIDE DEF c
<1> QED
  BY <1>2, <1>3, <1>4, <1>5

\* The next packet of the peer passes every check.
LEMMA NextAgrees ==
    ASSUME IInv, NEW x \in Sides, ses[x].active, wire[Peer(x)] # <<>>
    PROVE  Acceptable(ses[x], Head(wire[Peer(x)]))
<1> DEFINE y == Peer(x)
<1>1. /\ ses[x] \in Session /\ ses[y] \in Session /\ wire[x] \in Seq(Packet) /\ wire[y] \in Seq(Packet)
      /\ sent[y] \in Seq(Octets) /\ delivered[x] \in Seq(Octets)
      /\ Numbers(ses[x], ses[y], wire[x], wire[y])
      /\ Stream(sent[y], ses[y], ses[x], wire[y], delivered[x])
  BY Seen
<1> HIDE DEF y
<1>2. wire[y] # <<>>
  BY DEF y
<1>3. Head(wire[y]).seq = (ses[x].inSeq + 1) % Mod /\ AckInOutstanding(ses[x], Head(wire[y]))
  BY <1>1, <1>2, NumbersAgree
<1>4. SegmentInPlace(ses[x], Head(wire[y])) /\ WholeAtEnd(ses[x], Head(wire[y]))
  BY <1>1, <1>2, StreamAgrees
<1> QED
  BY <1>3, <1>4 DEF Acceptable, y

\* A packet arrives.
LEMMA HandleIncomingKeeps ==
    ASSUME IInv, NEW x \in Sides, HandleIncoming(x)
    PROVE  IInv'
<1> DEFINE y == Peer(x)
           s == ses[x]
           r == ses[y]
           w == wire[x]
           v == wire[y]
           p == Head(v)
           u == Taken(s, p)
           b == Begun(x)
           F == IF p.end THEN Append(delivered[x], s.incoming \o p.data) ELSE delivered[x]
           t == ses'[x]
<1>1. /\ s \in Session /\ r \in Session /\ w \in Seq(Packet) /\ v \in Seq(Packet)
      /\ sent[x] \in Seq(Octets) /\ sent[y] \in Seq(Octets)
      /\ delivered[x] \in Seq(Octets) /\ delivered[y] \in Seq(Octets)
      /\ Writing(s) /\ Len(s.incoming) <= s.want
      /\ \A m \in 1 .. Len(sent[x]) : sent[x][m] # <<>>
      /\ Numbers(s, r, w, v)
      /\ Stream(sent[x], s, r, w, delivered[y]) /\ Stream(sent[y], r, s, v, delivered[x])
      /\ Awake(s)
  BY Seen
<1>2. link = "up" /\ v # <<>> /\ s.handler = "idle"
  BY DEF HandleIncoming
<1>3. ~(s.active /\ ~Acceptable(s, p))
  BY <1>2, NextAgrees
<1>4. /\ ses' = [ses EXCEPT ![x] = IF ~s.active THEN s
                                   ELSE IF p.end THEN [u EXCEPT !.handler = "message"] ELSE Flush(u)]
      /\ wire' = [wire EXCEPT ![y] = Tail(@), ![x] = @ \o b]
      /\ delivered' = IF t.handler = "message"
                      THEN [delivered EXCEPT ![x] = Append(@, s.incoming \o p.data)] ELSE delivered
      /\ link' = link /\ sent' = sent
  BY <1>3 DEF HandleIncoming, Taken
<1>5. /\ y \in Sides /\ y # x /\ ses \in [Sides -> Session] /\ wire \in [Sides -> Seq(Packet)]
      /\ sent \in [Sides -> Seq(Octets)] /\ delivered \in [Sides -> Seq(Octets)]
  BY TwoSides DEF IInv, Types
<1>6. /\ t = IF ~s.active THEN s ELSE IF p.end THEN [u EXCEPT !.handler = "message"] ELSE Flush(u)
      /\ ses' = [ses EXCEPT ![x] = t]
  BY <1>4, <1>5
<1>7. b = IF t.out # s.out THEN t.out ELSE <<>>
  BY DEF Begun
<1>8. Tail(v) \in Seq(Packet) /\ p \in Packet
  BY <1>1, <1>2, HeadTailProperties
<1>9. ASSUME t \in Session, Writing(t), Len(t.incoming) <= t.want, Awake(t), w \o b \in Seq(Packet),
             NEW E \in Seq(Octets), delivered' = [delivered EXCEPT ![x] = E],
             Numbers(t, r, w \o b, Tail(v)), Stream(sent[x], t, r, w \o b, delivered[y]),
             Stream(sent[y], r, t, Tail(v), E)
      PROVE  IInv'
  <2>1. wire' \in [Sides -> Seq(Packet)] /\ wire'[x] = w \o b /\ wire'[y] = Tail(v)
    BY <1>4, <1>5, <1>8, <1>9
  <2>2. delivered' \in [Sides -> Seq(Octets)] /\ delivered'[x] = E /\ delivered'[y] = delivered[y]
    BY <1>5, <1>9
  <2>3. link' = "up" /\ sent' = sent
    BY <1>2, <1>4
  <2> HIDE DEF t, b
  <2> QED
    BY <1>1, <1>5, <1>6, <1>9, <2>1, <2>2, <2>3, Assembled
<1>10. CASE ~s.active
  <2>1. t = s /\ b = <<>> /\ delivered' = delivered
    BY <1>2, <1>4, <1>6, <1>7, <1>10
  <2>2. w \o b = w
    BY <1>1, <2>1, ConcatEmptySeq
  <2>3. Numbers(s, r, w, Tail(v))
    BY <1>1, <1>2, <1>10, Dropping
  <2>4. Stream(sent[y], r, s, Tail(v), delivered[x])
    BY <1>1, <1>10 DEF Stream
  <2>5. delivered' = [delivered EXCEPT ![x] = delivered[x]]
    BY <1>5, <2>1
  <2> QED
    BY <1>1, <1>9, <2>1, <2>2, <2>3, <2>4, <2>5
<1>11. CASE s.active
  <2>1. /\ u \in Session /\ u.active = s.active /\ u.seq = s.seq /\ u.acked = s.acked
        /\ u.inSeq = p.seq /\ u.inAck = (IF p.ack = NoAck THEN s.inAck ELSE p.ack)
        /\ u.queue = s.queue /\ u.out = s.out
        /\ u.incoming = (IF p.end THEN <<>> ELSE s.incoming \o p.data)
        /\ u.want = (IF p.end THEN 0 ELSE IF p.begin THEN p.length ELSE s.want)
    BY <1>1, <1>8, TakenFields
  <2> HIDE DEF u
  <2>2. Numbers(u, r, w, Tail(v))
    BY <1>1, <1>2, <1>11, <2>1, Reception
  <2>3. Stream(sent[x], u, r, w, delivered[y])
    BY <1>1, <2>1, SenderSame
  <2>4. Stream(sent[y], r, u, Tail(v), F)
    BY <1>1, <1>2, <1>11, <2>1, StreamTaken
  <2>5. Len(u.incoming) <= u.want
    BY <1>11, <2>1, <2>4, ReceiverFits
  <2>6. Writing(u)
    BY <1>1, <2>1 DEF Writing
  <2>7. F \in Seq(Octets)
    <3>1. s.incoming \in Octets /\ p.data \in Octets
      BY <1>1, <1>8 DEF Session, Packet
    <3>2. s.incoming \o p.data \in Octets
      BY <3>1 DEF Octets
    <3> QED
      BY <1>1, <3>2
  <2>8. CASE p.end
    <3>1. t = [u EXCEPT !.handler = "message"]
      BY <1>6, <1>11, <2>8
    <3> HIDE DEF t
    <3>2. t \in Session /\ Same(u, t) /\ t.handler = "message"
      BY <2>1, <3>1, FlagsOnly DEF Session
    <3>3. b = <<>>
      BY <1>7, <2>1, <3>2 DEF Same
    <3>4. w \o b = w
      BY <1>1, <3>3, ConcatEmptySeq
    <3>5. Writing(t) /\ Len(t.incoming) <= t.want /\ Awake(t)
      BY <2>5, <2>6, <3>2 DEF Same, Writing, Awake
    <3>6. Numbers(t, r, w, Tail(v))
      BY <2>2, <3>2, Undisturbed DEF Same
    <3>7. Stream(sent[x], t, r, w, delivered[y]) /\ Stream(sent[y], r, t, Tail(v), F)
      BY <2>3, <2>4, <3>2, SenderSame, ReceiverSame DEF Same
    <3>8. delivered' = [delivered EXCEPT ![x] = F]
      BY <1>4, <2>8, <3>2
    <3> QED
      BY <1>1, <1>9, <2>7, <3>2, <3>4, <3>5, <3>6, <3>7, <3>8
  <2>9. CASE ~p.end
    <3>1. t = Flush(u)
      BY <1>6, <1>11, <2>9
    <3>2. Ready(u)
      BY <2>1, <2>3, QueueReady DEF Stream
    <3>3. Result(u, t) /\ t.handler # "message"
      BY <2>1, <3>1, <3>2, FlushResult, FlushHandler
    <3>4. delivered' = [delivered EXCEPT ![x] = F]
      BY <1>4, <1>5, <2>9, <3>3
    <3> DEFINE V == Tail(v)
               S == sent[x]
               D == delivered[y]
               T == sent[y]
               o == s.out
               E == F
    <3>5. /\ u \in Session /\ r \in Session /\ w \in Seq(Packet)
          /\ V \in Seq(Packet) /\ S \in Seq(Octets)
          /\ Numbers(u, r, w, V) /\ Stream(S, u, r, w, D) /\ Stream(T, r, u, V, E)
          /\ Writing(u) /\ Len(u.incoming) <= u.want /\ Result(u, t)
          /\ o \in Seq(Packet) /\ (o = u.out \/ (u.out = <<>> /\ (o # <<>> => o[1].seq = u.seq)))
          /\ b = IF t.out # o THEN t.out ELSE <<>>
      <4>1. o \in Seq(Packet)
        BY <1>1 DEF Session
      <4> HIDE DEF t, b, F, p
      <4> QED
        BY <1>1, <1>7, <1>8, <2>1, <2>2, <2>3, <2>4, <2>5, <2>6, <3>3, <4>1
    <3>6. delivered' = [delivered EXCEPT ![x] = E] /\ E \in Seq(Octets)
      BY <2>7, <3>4
    <3> HIDE DEF s, r, w, v, p, V, S, D, T, o, E, F, t, b
    <3>7. /\ t \in Session /\ Writing(t) /\ Len(t.incoming) <= t.want /\ Awake(t)
          /\ w \o b \in Seq(Packet)
          /\ Numbers(t, r, w \o b, V) /\ Stream(S, t, r, w \o b, D) /\ Stream(T, r, t, V, E)
      BY ONLY <3>5, ResultKeeps
    <3> QED
      BY <1>9, <3>6, <3>7 DEF V, S, D, T
  <2> QED
    BY <2>8, <2>9
<1> QED
  BY <1>10, <1>11

\* The Message callback returns.
LEMMA MessageReturnsKeeps ==
    ASSUME IInv, NEW x \in Sides, MessageReturns(x)
    PROVE  IInv'
<1>1. CASE Disconnect
  BY <1>1, DisconnectKeeps
<1>2. CASE ~Disconnect
  <2> DEFINE t == Flush(ses[x])
  <2>1. link = "up" /\ Become(x, t) /\ link' = link /\ sent' = sent /\ delivered' = delivered
    BY <1>2 DEF MessageReturns
  <2>2. /\ ses[x] \in Session /\ Ready(ses[x]) /\ Numbers(ses[x], ses[Peer(x)], wire[x], wire[Peer(x)])
        /\ Stream(sent[x], ses[x], ses[Peer(x)], wire[x], delivered[Peer(x)])
        /\ \A m \in 1 .. Len(sent[x]) : sent[x][m] # <<>>
    BY Seen
  <2>3. Result(ses[x], t)
    BY <2>2, FlushResult
  <2>4. sent' \in [Sides -> Seq(Octets)]
    BY <2>1 DEF IInv, Types
  <2> HIDE DEF t
  <2> QED
    BY <2>1, <2>2, <2>3, <2>4, BecomeKeeps
<1> QED
  BY <1>1, <1>2

\* A session that writes nothing new puts nothing on the wire.
LEMMA NothingBegun ==
    ASSUME IInv, NEW x \in Sides, NEW t, Become(x, t), t.out = ses[x].out
    PROVE  ses' = [ses EXCEPT ![x] = t] /\ wire' = wire
<1>1. ses' = [ses EXCEPT ![x] = t] /\ wire' = [wire EXCEPT ![x] = @ \o Begun(x)]
  BY DEF Become
<1>2. ses \in [Sides -> Session] /\ wire \in [Sides -> Seq(Packet)]
  BY DEF IInv, Types
<1>3. Begun(x) = <<>>
  BY <1>1, <1>2 DEF Begun
<1>4. wire[x] \o <<>> = wire[x]
  BY <1>2, ConcatEmptySeq
<1> QED
  BY <1>1, <1>2, <1>3, <1>4

\* The send-ack timer.
LEMMA SendAckTimeoutKeeps ==
    ASSUME IInv, NEW x \in Sides, SendAckTimeout(x)
    PROVE  IInv'
<1> DEFINE s == ses[x]
           u == [s EXCEPT !.sendAck = FALSE]
           t == SendStandaloneAck(u, "other")
<1>1. link = "up" /\ Become(x, t) /\ link' = link /\ sent' = sent /\ delivered' = delivered
  BY DEF SendAckTimeout
<1>2. /\ s \in Session /\ Numbers(s, ses[Peer(x)], wire[x], wire[Peer(x)])
      /\ Stream(sent[x], s, ses[Peer(x)], wire[x], delivered[Peer(x)])
      /\ \A m \in 1 .. Len(sent[x]) : sent[x][m] # <<>>
  BY Seen
<1>3. u \in Session /\ Same(s, u) /\ u.handler = s.handler
  BY <1>2 DEF Session, Same
<1> HIDE DEF u
<1>4. CASE u.out # <<>> \/ ~u.active \/ ~AckDue(u)
  <2>1. t = u
    BY <1>4 DEF SendStandaloneAck
  <2>2. ses' = [ses EXCEPT ![x] = u] /\ wire' = wire
    BY <1>1, <1>3, <2>1, NothingBegun DEF Same
  <2> QED
    BY <1>1, <1>3, <2>2, QuietKeeps DEF Same
<1>5. CASE ~(u.out # <<>> \/ ~u.active \/ ~AckDue(u))
  <2>1. Result(u, t)
    BY <1>3, <1>5, AckResult
  <2>2. sent' \in [Sides -> Seq(Octets)]
    BY <1>1 DEF IInv, Types
  <2>3. Result(s, t)
    BY <1>3, <2>1, SameResult
  <2> HIDE DEF t
  <2> QED
    BY <1>1, <1>2, <2>2, <2>3, BecomeKeeps
<1> QED
  BY <1>4, <1>5

\* The ack-received timer.
LEMMA AckTimeoutKeeps ==
    ASSUME IInv, NEW x \in Sides, AckTimeout(x)
    PROVE  IInv'
<1>1. CASE Disconnect
  BY <1>1, DisconnectKeeps
<1>2. CASE ~Disconnect
  <2> DEFINE s == [ses[x] EXCEPT !.ackReceive = FALSE]
             t == IF s.inAck = s.seq THEN s ELSE Ended([s EXCEPT !.fresh = FALSE])
  <2>1. link = "up" /\ Become(x, t) /\ link' = link /\ sent' = sent /\ delivered' = delivered
    BY <1>2 DEF AckTimeout
  <2>2. ses[x] \in Session
    BY Seen
  <2>3. s \in Session /\ Same(ses[x], s) /\ s.handler = ses[x].handler
    BY <2>2 DEF Session, Same
  <2>4. /\ Ended([s EXCEPT !.fresh = FALSE]) \in Session
        /\ ~Ended([s EXCEPT !.fresh = FALSE]).active
        /\ \A f \in {"inSeq", "inAck", "seq", "acked", "queue", "out", "incoming", "want"} :
              Ended([s EXCEPT !.fresh = FALSE])[f] = s[f]
    BY <2>3 DEF Ended, Session
  <2>5. /\ t \in Session /\ t.inSeq = ses[x].inSeq /\ t.inAck = ses[x].inAck /\ t.seq = ses[x].seq
        /\ t.acked = ses[x].acked /\ t.out = ses[x].out /\ t.incoming = ses[x].incoming
        /\ t.want = ses[x].want
        /\ t.active => ses[x].active /\ t.queue = ses[x].queue /\ t.handler = ses[x].handler
    BY <2>3, <2>4 DEF Same
  <2> HIDE DEF t
  <2>6. ses' = [ses EXCEPT ![x] = t] /\ wire' = wire
    BY <2>1, <2>5, NothingBegun
  <2> QED
    BY <2>1, <2>5, <2>6, QuietKeeps
<1> QED
  BY <1>1, <1>2

\* The invariant is inductive.
LEMMA NextIInv == IInv /\ [Next]_vars => IInv'
<1> SUFFICES ASSUME IInv, [Next]_vars PROVE IInv'
  OBVIOUS
<1>1. ASSUME NEW x \in Sides, NEW len \in Lengths, Send(x, len) PROVE IInv'
  BY <1>1, SendKeeps
<1>2. ASSUME NEW x \in Sides, Written(x) PROVE IInv'
  BY <1>2, WrittenKeeps
<1>3. ASSUME NEW x \in Sides, WriteFails(x) PROVE IInv'
  BY <1>3, WriteFailsKeeps
<1>4. ASSUME NEW x \in Sides, HandleIncoming(x) PROVE IInv'
  BY <1>4, HandleIncomingKeeps
<1>5. ASSUME NEW x \in Sides, MessageReturns(x) PROVE IInv'
  BY <1>5, MessageReturnsKeeps
<1>6. ASSUME NEW x \in Sides, SendAckTimeout(x) PROVE IInv'
  BY <1>6, SendAckTimeoutKeeps
<1>7. ASSUME NEW x \in Sides, AckTimeout(x) PROVE IInv'
  BY <1>7, AckTimeoutKeeps
<1>8. CASE LinkLost
  BY <1>8, DisconnectKeeps DEF LinkLost
<1>9. CASE UNCHANGED vars
  BY <1>9 DEF vars, IInv, Types, Peer
<1> QED
  BY <1>1, <1>2, <1>3, <1>4, <1>5, <1>6, <1>7, <1>8, <1>9 DEF Next


-----------------------------------------------------------------------------
\* Theorems.

\* The invariant holds.
LEMMA InvHolds == Spec => []IInv
BY InitIInv, NextIInv, PTL DEF Spec

\* The fields of a session keep their ranges: sequence numbers wrap within 0 .. Mod - 1, at
\* most one packet is being written, and reassembly never holds more than the message is long.
THEOREM TypeOKHolds == Spec => []TypeOK
<1>1. IInv => TypeOK
  <2> SUFFICES ASSUME IInv, NEW x \in Sides
               PROVE  LET s == ses[x] IN
                        /\ s.inSeq \in SeqNumbers /\ s.inAck \in SeqNumbers \cup {-1}
                        /\ s.seq \in SeqNumbers \cup {-1} /\ s.acked \in SeqNumbers \cup {-1}
                        /\ Len(s.out) <= 1 /\ s.by \in {"handler", "other"}
                        /\ s.handler \in {"idle", "message", "queue", "immediate"}
                        /\ s.want \in Nat /\ Len(s.incoming) <= s.want
    BY DEF TypeOK, IInv, Types
  <2>1. ses[x] \in Session /\ Writing(ses[x]) /\ Len(ses[x].incoming) <= ses[x].want
    BY Seen
  <2> QED
    BY <2>1 DEF Session, Nums, Writing
<1> QED
  BY <1>1, InvHolds, PTL

\* Two sessions never close each other for a protocol error: the next packet passes every
\* check of handleIncomingLocked.
THEOREM PeersAgreeHolds == Spec => []PeersAgree
<1>1. IInv => PeersAgree
  BY NextAgrees DEF PeersAgree
<1> QED
  BY <1>1, InvHolds, PTL

\* What is on the way to a session and what it has not acknowledged stay within the window
\* it announced.
THEOREM WindowKeptHolds == Spec => []WindowKept
<1>1. ASSUME IInv, NEW x \in Sides
      PROVE  ModularDistance(ses[x].acked, ses[x].inSeq) + Len(wire[Peer(x)]) <= WindowSize
  <2> DEFINE s == ses[x]
             r == ses[Peer(x)]
             v == wire[Peer(x)]
             B == ModularDistance(s.acked, s.inSeq)
             C == ModularDistance(s.inSeq, r.seq)
  <2>1. s \in Session /\ r \in Session /\ v \in Seq(Packet) /\ Numbers(s, r, wire[x], v)
    BY <1>1, Seen
  <2>2. Arc(r, s) /\ Len(v) <= C /\ Len(v) \in Nat
    BY <2>1 DEF Numbers, Numbered
  <2>3. Open(r, s) = B + C /\ Open(r, s) <= WindowSize
    BY <2>1, <2>2, Parts
  <2>4. B \in Nat /\ C \in Nat
    BY <2>1, Fields, DistanceType
  <2> QED
    BY <2>2, <2>3, <2>4, Constants
<1>2. IInv => WindowKept
  BY <1>1 DEF WindowKept
<1> QED
  BY <1>2, InvHolds, PTL

\* No wakeup is lost: a message that stays queued while nobody writes is one the window
\* does not admit.
THEOREM NoLostWakeupHolds == Spec => []NoLostWakeup
<1>1. IInv => NoLostWakeup
  BY DEF IInv, Awake, NoLostWakeup, Quiet
<1> QED
  BY <1>1, InvHolds, PTL

\* When nothing is on the way, all that a side has open is what its peer owes an ack for.
LEMMA AtRest ==
    ASSUME NEW s \in Session, NEW r \in Session, s.active, r.active,
           Arc(s, r), Numbered(s, r, <<>>), Acks(s, r, <<>>)
    PROVE  /\ Open(s, r) = ModularDistance(s.inAck, s.seq)
           /\ Open(s, r) = ModularDistance(r.acked, r.inSeq)
<1>1. ModularDistance(s.inAck, r.acked) = 0
  <2>1. \A j \in 1 .. Len(<<>>) : FALSE
    OBVIOUS
  <2> QED
    BY <2>1 DEF Acks
<1>2. ModularDistance(r.inSeq, s.seq) = 0
  BY DEF Numbered
<1>3. /\ ModularDistance(r.acked, r.inSeq) \in Nat /\ ModularDistance(s.inAck, s.seq) \in Nat
  BY Fields, DistanceType
<1> QED
  BY <1>1, <1>2, <1>3, Parts

\* There is no standoff: when nothing is on the way and a side waits for window space, the
\* other owes it an ack and may send it in the reserved slot.
THEOREM NoStandoffHolds == Spec => []NoStandoff
<1>1. ASSUME IInv, NEW x \in Sides, \A y \in Sides : Quiet(y) /\ wire[y] = <<>>, ses[x].queue # <<>>
      PROVE  Owes(ses[Peer(x)]) /\ CanSend(ses[Peer(x)], TRUE)
  <2> DEFINE s == ses[x]
             r == ses[Peer(x)]
             a == Open(s, r)
             b == Open(r, s)
  <2>1. Peer(x) \in Sides
    BY TwoSides
  <2>2. /\ s \in Session /\ r \in Session /\ s.active /\ r.active /\ Awake(s)
        /\ Numbers(s, r, <<>>, <<>>) /\ s.out = <<>> /\ s.handler = "idle"
    BY <1>1, <2>1, Seen DEF Quiet
  <2> HIDE DEF s, r
  <2>3. /\ a = ModularDistance(s.inAck, s.seq) /\ a = ModularDistance(r.acked, r.inSeq)
        /\ b = ModularDistance(r.inAck, r.seq) /\ b = ModularDistance(s.acked, s.inSeq)
    BY <2>2, AtRest DEF Numbers
  <2>4. a \in Nat /\ b \in Nat /\ a <= WindowSize /\ b <= WindowSize /\ a + b \in 1 .. 2 * WindowSize - 1
    BY <2>2, Parts DEF Numbers, Tension
  <2>5. ~CanSend(s, Owes(s))
    BY <1>1, <2>2 DEF Awake, s
  <2>6. Owes(s) \/ b = 0
    <3>1. s.inSeq \in SeqNumbers
      BY <2>2, Fields
    <3> QED
      BY <2>3, <3>1, Near DEF Owes
  <2>7. a # 0 => Owes(r)
    <3>1. r.inSeq \in SeqNumbers
      BY <2>2, Fields
    <3> QED
      BY <2>3, <3>1, Near DEF Owes
  <2> HIDE DEF a, b
  <2>8. a >= WindowSize \/ (~Owes(s) /\ a >= WindowSize - 1)
    BY <2>3, <2>4, <2>5, Constants DEF CanSend, RemoteWindowFreeSlots, WindowNoAckSendThreshold
  <2>9. a # 0 /\ b < WindowSize
    BY <2>4, <2>6, <2>8, Constants
  <2>10. CanSend(r, TRUE)
    BY <2>3, <2>4, <2>9, Constants DEF CanSend, RemoteWindowFreeSlots
  <2> QED
    BY <2>7, <2>9, <2>10 DEF r
<1>2. IInv => NoStandoff
  BY <1>1 DEF NoStandoff
<1> QED
  BY <1>2, InvHolds, PTL


-----------------------------------------------------------------------------
\* The session is a FIFO.

\* Nothing that sends makes a session active or ends it.
LEMMA SendsActive ==
    ASSUME NEW s, "active" \in DOMAIN s, NEW who
    PROVE  /\ SendStandaloneAck(s, who).active = s.active /\ "active" \in DOMAIN SendStandaloneAck(s, who)
           /\ SendLoop(s, who).active = s.active /\ "active" \in DOMAIN SendLoop(s, who)
           /\ ProcessSendQueue(s, who).active = s.active /\ "active" \in DOMAIN ProcessSendQueue(s, who)
<1>1. SendStandaloneAck(s, who).active = s.active /\ "active" \in DOMAIN SendStandaloneAck(s, who)
  BY DEF SendStandaloneAck
<1>2. EmitSegment(s, who).active = s.active /\ "active" \in DOMAIN EmitSegment(s, who)
  BY DEF EmitSegment
<1>3. SendLoop(s, who).active = s.active /\ "active" \in DOMAIN SendLoop(s, who)
  BY <1>1, <1>2 DEF SendLoop
<1> QED
  BY <1>1, <1>3 DEF ProcessSendQueue

\* Nor does what the handler and a finished write do.
LEMMA HandlerActive ==
    ASSUME NEW s, "active" \in DOMAIN s
    PROVE  /\ SendImmediateAckIfWindowLow(s).active = s.active
           /\ Flush(s).active = s.active /\ ChainEnds(s).active = s.active
<1> DEFINE i == [s EXCEPT !.handler = "immediate"]
           q == [s EXCEPT !.handler = "queue"]
<1>1. i.active = s.active /\ "active" \in DOMAIN i /\ q.active = s.active /\ "active" \in DOMAIN q
      /\ [s EXCEPT !.handler = "idle"].active = s.active
  OBVIOUS
<1>2. SendStandaloneAck(i, "handler").active = s.active /\ SendLoop(q, "handler").active = s.active
  BY <1>1, SendsActive
<1>3. SendImmediateAckIfWindowLow(s).active = s.active
  BY <1>1, <1>2 DEF SendImmediateAckIfWindowLow
<1> QED
  BY <1>1, <1>2, <1>3 DEF Flush, ChainEnds

\* The receiver still receives.
Connected(y) == link = "up" /\ ses[y].active

\* A step of Fifo from x to its peer, or none.
FifoStep(x) ==
    \/ /\ Len(sent'[x]) = Len(sent[x]) + 1 /\ SubSeq(sent'[x], 1, Len(sent[x])) = sent[x]
       /\ delivered'[Peer(x)] = delivered[Peer(x)] /\ (Connected(Peer(x))' <=> Connected(Peer(x)))
    \/ /\ Connected(Peer(x)) /\ Len(delivered[Peer(x)]) < Len(sent[x])
       /\ delivered'[Peer(x)] = Append(delivered[Peer(x)], sent[x][Len(delivered[Peer(x)]) + 1])
       /\ sent'[x] = sent[x] /\ (Connected(Peer(x))' <=> Connected(Peer(x)))
    \/ /\ Connected(Peer(x)) /\ ~Connected(Peer(x))'
       /\ sent'[x] = sent[x] /\ delivered'[Peer(x)] = delivered[Peer(x)]
    \/ /\ sent'[x] = sent[x] /\ delivered'[Peer(x)] = delivered[Peer(x)]
       /\ (Connected(Peer(x))' <=> Connected(Peer(x)))

\* A step that leaves the messages and ends at most some sessions.
LEMMA EndsOrStays ==
    ASSUME IInv, NEW x \in Sides, sent' = sent, delivered' = delivered,
           \A z \in Sides : Connected(z)' => Connected(z)
    PROVE  FifoStep(x)
BY TwoSides DEF FifoStep

\* The session of x becomes one that is as active.
LEMMA BecomesCalm ==
    ASSUME IInv, NEW x \in Sides, NEW t, ses' = [ses EXCEPT ![x] = t],
           t.active => ses[x].active, link' = link
    PROVE  \A z \in Sides : /\ Connected(z)' => Connected(z)
                            /\ t.active = ses[x].active => (Connected(z)' <=> Connected(z))
<1>1. ses \in [Sides -> Session]
  BY DEF IInv, Types
<1> QED
  BY <1>1 DEF Connected

\* The connection is gone.
LEMMA DisconnectSteps ==
    ASSUME IInv, NEW x \in Sides, Disconnect
    PROVE  FifoStep(x)
<1>1. sent' = sent /\ delivered' = delivered /\ \A z \in Sides : ~Connected(z)'
  BY DEF Disconnect, Connected
<1> QED
  BY <1>1, EndsOrStays

\* Sending: the messages grow by one.
LEMMA SendSteps ==
    ASSUME IInv, NEW x \in Sides, NEW z \in Sides, NEW len \in Lengths, Send(z, len)
    PROVE  FifoStep(x)
<1> DEFINE m == Message(z, len)
           u == [ses[z] EXCEPT !.queue = Append(@, [data |-> m, off |-> 0])]
           t == ProcessSendQueue(u, "other")
<1>1. /\ ses' = [ses EXCEPT ![z] = t] /\ sent' = [sent EXCEPT ![z] = Append(@, m)]
      /\ link' = link /\ delivered' = delivered
  BY DEF Send, Become
<1>2. sent \in [Sides -> Seq(Octets)] /\ ses[z] \in Session
  BY Seen DEF IInv, Types
<1>3. u.active = ses[z].active /\ "active" \in DOMAIN u
  <2>1. "active" \in DOMAIN ses[z]
    BY <1>2 DEF Session
  <2> QED
    BY <2>1
<1> HIDE DEF u
<1>4. t.active = ses[z].active
  BY <1>3, SendsActive
<1> HIDE DEF t, m
<1>5. Connected(Peer(x))' <=> Connected(Peer(x))
  BY <1>1, <1>4, BecomesCalm, TwoSides
<1>6. CASE z = x
  <2>1. sent'[x] = Append(sent[x], m) /\ sent[x] \in Seq(Octets)
    BY <1>1, <1>2, <1>6
  <2>2. Len(sent'[x]) = Len(sent[x]) + 1
    BY <2>1
  <2>3. SubSeq(sent'[x], 1, Len(sent[x])) = sent[x]
    BY <2>1
  <2> QED
    BY <1>1, <1>5, <2>2, <2>3 DEF FifoStep
<1>7. CASE z # x
  BY <1>1, <1>2, <1>5, <1>7 DEF FifoStep
<1> QED
  BY <1>6, <1>7

\* A packet arrives: the message it completes is the next one.
LEMMA HandleIncomingSteps ==
    ASSUME IInv, NEW x \in Sides, NEW z \in Sides, HandleIncoming(z)
    PROVE  FifoStep(x)
<1> DEFINE y == Peer(z)
           s == ses[z]
           v == wire[y]
           p == Head(v)
           u == Taken(s, p)
           t == ses'[z]
<1>1. /\ s \in Session /\ v \in Seq(Packet) /\ ses \in [Sides -> Session]
      /\ sent[y] \in Seq(Octets) /\ delivered[z] \in Seq(Octets) /\ delivered \in [Sides -> Seq(Octets)]
      /\ Stream(sent[y], ses[y], s, v, delivered[z])
  BY Seen DEF IInv, Types
<1>2. v # <<>> /\ link = "up" /\ s.handler = "idle"
  BY DEF HandleIncoming
<1>3. ~(s.active /\ ~Acceptable(s, p))
  BY <1>2, NextAgrees
<1>4. /\ ses' = [ses EXCEPT ![z] = IF ~s.active THEN s
                                   ELSE IF p.end THEN [u EXCEPT !.handler = "message"] ELSE Flush(u)]
      /\ delivered' = IF t.handler = "message"
                      THEN [delivered EXCEPT ![z] = Append(@, s.incoming \o p.data)] ELSE delivered
      /\ link' = link /\ sent' = sent
  BY <1>3 DEF HandleIncoming, Taken
<1>5. /\ t = IF ~s.active THEN s ELSE IF p.end THEN [u EXCEPT !.handler = "message"] ELSE Flush(u)
      /\ ses' = [ses EXCEPT ![z] = t]
  BY <1>1, <1>4
<1>6. p \in Packet
  BY <1>1, <1>2, HeadTailProperties
<1>7. u \in Session /\ u.active = s.active
  BY <1>1, <1>6, TakenFields
<1> HIDE DEF u, t
<1>8. t.active = s.active
  <2>1. "active" \in DOMAIN u
    BY <1>7 DEF Session
  <2>2. Flush(u).active = s.active /\ [u EXCEPT !.handler = "message"].active = s.active
    BY <1>7, <2>1, HandlerActive
  <2> QED
    BY <1>5, <2>2
<1>9. \A w \in Sides : Connected(w)' <=> Connected(w)
  BY <1>4, <1>5, <1>8, BecomesCalm
<1>10. CASE t.handler # "message"
  BY <1>4, <1>9, <1>10, TwoSides DEF FifoStep
<1>11. CASE t.handler = "message"
  <2>1. s.active /\ p.end
    BY <1>2, <1>5, <1>7, <1>11, FlushHandler
  <2>2. Len(delivered[z]) < Len(sent[y]) /\ s.incoming \o p.data = sent[y][Len(delivered[z]) + 1]
    <3> DEFINE S == sent[y]
               E == delivered[z]
               r == ses[y]
    <3>1. S \in Seq(Octets) /\ E \in Seq(Octets) /\ Stream(S, r, s, v, E)
      BY <1>1
    <3> HIDE DEF S, E, r, s, v
    <3>2. Head(v).end => Len(E) < Len(S) /\ s.incoming \o Head(v).data = S[Len(E) + 1]
      BY <1>1, <1>2, <2>1, <3>1, StreamAgrees
    <3> QED
      BY <2>1, <3>2 DEF S, E
  <2>3. delivered' = [delivered EXCEPT ![z] = Append(@, sent[y][Len(delivered[z]) + 1])]
    BY <1>4, <1>11, <2>2
  <2>4. Connected(z)
    BY <1>2, <2>1 DEF Connected
  <2>5. CASE x = y
    <3>1. Peer(x) = z
      BY <2>5, TwoSides
    <3>2. delivered'[z] = Append(delivered[z], sent[y][Len(delivered[z]) + 1])
      BY <1>1, <2>3
    <3> QED
      BY <1>4, <1>9, <2>2, <2>4, <2>5, <3>1, <3>2 DEF FifoStep
  <2>6. CASE x # y
    <3>1. Peer(x) # z /\ Peer(x) \in Sides
      BY <2>6, TwoSides
    <3>2. delivered'[Peer(x)] = delivered[Peer(x)]
      BY <1>1, <2>3, <3>1
    <3> QED
      BY <1>4, <1>9, <3>1, <3>2 DEF FifoStep
  <2> QED
    BY <2>5, <2>6
<1> QED
  BY <1>10, <1>11


\* A write returns.
LEMMA WrittenSteps ==
    ASSUME IInv, NEW x \in Sides, NEW z \in Sides, Written(z)
    PROVE  FifoStep(x)
<1> DEFINE s == ses[z]
           p == s.out[1]
           e == [s EXCEPT !.out = <<>>]
           a == [e EXCEPT !.ackReceive = TRUE, !.queue = IF p.end THEN Tail(@) ELSE @]
           c == [e EXCEPT !.sendAck = FALSE, !.ackReceive = TRUE]
           d == [e EXCEPT !.queue = IF p.data # <<>> THEN <<>> ELSE @]
           t == IF e.active THEN Resume(e, p) ELSE d
<1>1. ses' = [ses EXCEPT ![z] = ChainEnds(t)] /\ link' = link /\ sent' = sent /\ delivered' = delivered
  BY DEF Written, Become
<1>2. s \in Session
  BY Seen
<1>3. "active" \in DOMAIN s
  BY <1>2 DEF Session
<1> HIDE DEF s, p
<1>4. e.active = s.active /\ "active" \in DOMAIN e
  BY <1>3
<1> HIDE DEF e
<1>5. /\ a.active = s.active /\ "active" \in DOMAIN a /\ c.active = s.active /\ "active" \in DOMAIN c
      /\ d.active = s.active /\ "active" \in DOMAIN d
  BY <1>4
<1>6. Resume(e, p) = IF p.data # <<>> THEN SendLoop(a, e.by) ELSE ProcessSendQueue(c, e.by)
  BY DEF Resume
<1> HIDE DEF a, c, d
<1>7. t.active = s.active /\ "active" \in DOMAIN t
  BY <1>5, <1>6, SendsActive
<1> HIDE DEF t
<1>8. ChainEnds(t).active = ses[z].active
  BY <1>7, HandlerActive DEF s
<1>9. \A w \in Sides : Connected(w)' => Connected(w)
  BY <1>1, <1>8, BecomesCalm
<1> QED
  BY <1>1, <1>9, EndsOrStays

\* A write fails.
LEMMA WriteFailsSteps ==
    ASSUME IInv, NEW x \in Sides, NEW z \in Sides, WriteFails(z)
    PROVE  FifoStep(x)
<1>1. CASE Disconnect
  BY <1>1, DisconnectSteps
<1>2. CASE ~Disconnect
  <2> DEFINE t == [ses[z] EXCEPT !.out = <<>>, !.queue = <<>>,
                      !.handler = IF ses[z].by = "handler" THEN "idle" ELSE ses[z].handler]
  <2>1. /\ ses' = [ses EXCEPT ![z] = [@ EXCEPT !.out = <<>>, !.queue = <<>>,
                      !.handler = IF ses[z].by = "handler" THEN "idle" ELSE ses[z].handler]]
        /\ link' = link /\ sent' = sent /\ delivered' = delivered
    BY <1>2 DEF WriteFails
  <2>2. ses' = [ses EXCEPT ![z] = t]
    BY <2>1
  <2>3. ses[z] \in Session
    BY Seen
  <2>4. t.active = ses[z].active
    BY <2>3 DEF Session
  <2> HIDE DEF t
  <2>5. \A w \in Sides : Connected(w)' => Connected(w)
    BY <2>1, <2>2, <2>4, BecomesCalm
  <2> QED
    BY <2>1, <2>5, EndsOrStays
<1> QED
  BY <1>1, <1>2

\* The Message callback returns.
LEMMA MessageReturnsSteps ==
    ASSUME IInv, NEW x \in Sides, NEW z \in Sides, MessageReturns(z)
    PROVE  FifoStep(x)
<1>1. CASE Disconnect
  BY <1>1, DisconnectSteps
<1>2. CASE ~Disconnect
  <2>1. ses' = [ses EXCEPT ![z] = Flush(ses[z])] /\ link' = link /\ sent' = sent /\ delivered' = delivered
    BY <1>2 DEF MessageReturns, Become
  <2>2. ses[z] \in Session
    BY Seen
  <2>3. "active" \in DOMAIN ses[z]
    BY <2>2 DEF Session
  <2>4. Flush(ses[z]).active = ses[z].active
    BY <2>3, HandlerActive
  <2>5. \A w \in Sides : Connected(w)' => Connected(w)
    BY <2>1, <2>4, BecomesCalm
  <2> QED
    BY <2>1, <2>5, EndsOrStays
<1> QED
  BY <1>1, <1>2

\* The timers: the ack-received timer may suspend the session.
LEMMA TimersSteps ==
    ASSUME IInv, NEW x \in Sides, NEW z \in Sides, SendAckTimeout(z) \/ AckTimeout(z)
    PROVE  FifoStep(x)
<1>1. ses[z] \in Session
  BY Seen
<1>2. CASE Disconnect
  BY <1>2, DisconnectSteps
<1>3. CASE SendAckTimeout(z)
  <2> DEFINE u == [ses[z] EXCEPT !.sendAck = FALSE]
             t == SendStandaloneAck(u, "other")
  <2>1. ses' = [ses EXCEPT ![z] = t] /\ link' = link /\ sent' = sent /\ delivered' = delivered
    BY <1>3 DEF SendAckTimeout, Become
  <2>2. u.active = ses[z].active /\ "active" \in DOMAIN u
    BY <1>1 DEF Session
  <2> HIDE DEF u
  <2>3. t.active = ses[z].active
    BY <2>2, SendsActive
  <2> HIDE DEF t
  <2>4. \A w \in Sides : Connected(w)' => Connected(w)
    BY <2>1, <2>3, BecomesCalm
  <2> QED
    BY <2>1, <2>4, EndsOrStays
<1>4. CASE AckTimeout(z) /\ ~Disconnect
  <2> DEFINE s == [ses[z] EXCEPT !.ackReceive = FALSE]
             t == IF s.inAck = s.seq THEN s ELSE Ended([s EXCEPT !.fresh = FALSE])
  <2>1. ses' = [ses EXCEPT ![z] = t] /\ link' = link /\ sent' = sent /\ delivered' = delivered
    BY <1>4 DEF AckTimeout, Become
  <2>2. t.active => ses[z].active
    BY <1>1 DEF Session, Ended
  <2> HIDE DEF t
  <2>3. \A w \in Sides : Connected(w)' => Connected(w)
    BY <2>1, <2>2, BecomesCalm
  <2> QED
    BY <2>1, <2>3, EndsOrStays
<1> QED
  BY <1>2, <1>3, <1>4

\* Every step is a step of Fifo in each direction, or none.
LEMMA NextFifo ==
    ASSUME IInv, [Next]_vars, NEW x \in Sides
    PROVE  FifoStep(x)
<1>1. ASSUME NEW z \in Sides, NEW len \in Lengths, Send(z, len) PROVE FifoStep(x)
  BY <1>1, SendSteps
<1>2. ASSUME NEW z \in Sides, Written(z) \/ WriteFails(z) PROVE FifoStep(x)
  BY <1>2, WrittenSteps, WriteFailsSteps
<1>3. ASSUME NEW z \in Sides, HandleIncoming(z) \/ MessageReturns(z) PROVE FifoStep(x)
  BY <1>3, HandleIncomingSteps, MessageReturnsSteps
<1>4. ASSUME NEW z \in Sides, SendAckTimeout(z) \/ AckTimeout(z) PROVE FifoStep(x)
  BY <1>4, TimersSteps
<1>5. CASE LinkLost
  BY <1>5, DisconnectSteps DEF LinkLost
<1>6. CASE UNCHANGED vars
  <2>1. sent' = sent /\ delivered' = delivered /\ ses' = ses /\ link' = link
    BY <1>6 DEF vars
  <2> QED
    BY <2>1, EndsOrStays DEF Connected
<1> QED
  BY <1>1, <1>2, <1>3, <1>4, <1>5, <1>6 DEF Next

\* What Send takes on either side reaches the other side's Message callback whole, once and
\* in order, until the receiver's session ends: the safety of FifoBothWays.
THEOREM FifoSafetyHolds == Spec => ToPeripheral!Safety /\ ToCentral!Safety
<1>1. Init => ToPeripheral!Init /\ ToCentral!Init
  BY DEF Init, ToPeripheral!Init, ToCentral!Init, NewSession, Sides
<1>2. IInv /\ [Next]_vars => [ToPeripheral!Next]_(ToPeripheral!vars)
  <2> SUFFICES ASSUME IInv, [Next]_vars PROVE [ToPeripheral!Next]_(ToPeripheral!vars)
    OBVIOUS
  <2>1. FifoStep("central") /\ Peer("central") = "peripheral"
    BY NextFifo, TwoSides DEF Sides
  <2> QED
    BY <2>1 DEF FifoStep, Connected, ToPeripheral!Next, ToPeripheral!vars, ToPeripheral!Submit,
                ToPeripheral!Deliver, ToPeripheral!End
<1>3. IInv /\ [Next]_vars => [ToCentral!Next]_(ToCentral!vars)
  <2> SUFFICES ASSUME IInv, [Next]_vars PROVE [ToCentral!Next]_(ToCentral!vars)
    OBVIOUS
  <2>1. FifoStep("peripheral") /\ Peer("peripheral") = "central"
    BY NextFifo, TwoSides DEF Sides
  <2> QED
    BY <2>1 DEF FifoStep, Connected, ToCentral!Next, ToCentral!vars, ToCentral!Submit,
                ToCentral!Deliver, ToCentral!End
<1> QED
  BY <1>1, <1>2, <1>3, InvHolds, PTL DEF Spec, ToPeripheral!Safety, ToCentral!Safety
=============================================================================
