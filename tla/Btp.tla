-------------------------------- MODULE Btp ---------------------------------
(***************************************************************************)
(* The BLE transport protocol: two btp.Session values, the GATT client     *)
(* (central) and the GATT server (peripheral), over one BLE connection.    *)
(*                                                                         *)
(* Every packet takes a sequence number modulo Mod and a slot of the       *)
(* receiver's window until it is acknowledged, stand-alone acks included.  *)
(* A session's mutex is released exactly around the Write, Message and     *)
(* Disconnect callbacks, so a step here is what runs between two of them:  *)
(* while one goroutine is in a Write, others send, receive and time out.   *)
(* The model starts where the handshake ends: the peripheral's response    *)
(* was its sequence number 0 and waits for its ack.  It follows the        *)
(* sessions while the connection lasts: once it is gone nothing one side   *)
(* does reaches the other, and each is closed when it notices (watch).     *)
(***************************************************************************)
EXTENDS Integers, Sequences, SequencesExt

CONSTANTS
    Mod,            \* sequence numbers are modulo Mod (256 in the code)
    WindowSize,     \* negotiated window (1..255 in the code)
    ImmediateAckWindowThreshold, \* free slots at which an ack goes out at once (2 in the code)
    FragmentSize,   \* negotiated segment size, header included
    Lengths,        \* lengths of the messages sent
    MaxSent,        \* bound: messages each side sends
    CanStall        \* a stall observer is set and the segment size above the minimum

ASSUME BtpAssumption ==
    /\ Mod \in Nat /\ WindowSize \in 1 .. Mod - 1 /\ ImmediateAckWindowThreshold \in Nat
    /\ FragmentSize \in Nat /\ FragmentSize > 5
    /\ Lengths \subseteq Nat \ {0} /\ CanStall \in BOOLEAN
    /\ MaxSent \in [{"central", "peripheral"} -> Nat]

Sides == {"central", "peripheral"}
Peer(x) == CHOOSE y \in Sides : y # x

WindowNoAckSendThreshold == 1
NoAck == -1

VARIABLES
    ses,        \* the two sessions
    wire,       \* per sender, packets on their way, in order
    link,       \* the BLE connection: "up" or "down"
    sent,       \* per sender, the messages Send took
    delivered   \* per receiver, the messages handed to the Message callback

vars == <<ses, wire, link, sent, delivered>>

\* newSession.  The peripheral's timer waits for the ack of its response, the
\* central owes that ack.
NewSession(x) ==
    [ active |-> TRUE, fresh |-> TRUE,          \* fresh: nothing received yet (pendingLive)
      inSeq  |-> IF x = "central" THEN 0 ELSE Mod - 1,
      inAck  |-> -1,
      seq    |-> IF x = "central" THEN -1 ELSE 0,
      acked  |-> IF x = "central" THEN -1 ELSE Mod - 1,
      queue  |-> <<>>,                          \* messages with what is left of each
      out    |-> <<>>, by |-> "other",          \* the packet being written, by whom
      incoming |-> <<>>, want |-> 0,            \* reassembly; want = 0: none under way
      sendAck |-> x = "central", ackReceive |-> x = "peripheral",
      handler |-> "idle" ]                      \* what HandleIncoming is at

Init ==
    /\ ses = [x \in Sides |-> NewSession(x)]
    /\ wire = [x \in Sides |-> <<>>]
    /\ link = "up"
    /\ sent = [x \in Sides |-> <<>>]
    /\ delivered = [x \in Sides |-> <<>>]

-----------------------------------------------------------------------------
\* Window arithmetic.

ModularDistance(from, to) == (to - from + Mod) % Mod

\* mutant: one slot more than was negotiated
RemoteWindowFreeSlotsOneMore(s) == WindowSize + 1 - ModularDistance(s.inAck, s.seq)

RemoteWindowFreeSlots(s) == WindowSize - ModularDistance(s.inAck, s.seq)

LocalWindowFreeSlots(s) == WindowSize - ModularDistance(s.acked, s.inSeq)

Owes(s) == s.inSeq # s.acked

CanSend(s, carriesAck) ==
    /\ RemoteWindowFreeSlots(s) > 0
    /\ RemoteWindowFreeSlots(s) > WindowNoAckSendThreshold \/ carriesAck

-----------------------------------------------------------------------------
\* Sending.  Each operator maps a session to the session after the code has run up to
\* its next Write (out is then the packet) or to the end of the call (out stays empty).

\* mutant: no wrap
NextSequenceNumberUnwrapped(s) == s.seq + 1

NextSequenceNumber(s) == IF s.seq + 1 = Mod THEN 0 ELSE s.seq + 1

Segment(m, n) == SubSeq(m.data, m.off + 1, m.off + n)

\* The body of processSendQueueLocked's loop up to the write.
EmitSegment(s, who) ==
    LET m        == Head(s.queue)
        ack      == Owes(s)
        begin    == m.off = 0
        room     == FragmentSize - 2 - (IF begin THEN 2 ELSE 0) - (IF ack THEN 1 ELSE 0)
        left     == Len(m.data) - m.off
        n        == IF room < left THEN room ELSE left
    IN [s EXCEPT !.seq = NextSequenceNumber(s),
                 !.acked = s.inSeq,
                 !.sendAck = s.sendAck /\ ~ack,
                 !.queue = <<[m EXCEPT !.off = m.off + n]>> \o Tail(s.queue),
                 !.by = who,
                 !.out = <<[seq |-> NextSequenceNumber(s), ack |-> IF ack THEN s.inSeq ELSE NoAck,
                            data |-> Segment(m, n), begin |-> begin,
                            end |-> left <= room, length |-> IF begin THEN left ELSE 0]>>]

\* A stand-alone ack is possible: one is owed and the window has room.
AckDue(s) == Owes(s) /\ CanSend(s, TRUE)

SendStandaloneAck(s, who) ==
    IF s.out # <<>> \/ ~s.active \/ ~AckDue(s) THEN s
    ELSE [s EXCEPT !.seq = NextSequenceNumber(s), !.acked = s.inSeq, !.by = who,
                   !.out = <<[seq |-> NextSequenceNumber(s), ack |-> s.inSeq, data |-> <<>>,
                              begin |-> FALSE, end |-> FALSE, length |-> 0]>>]

SegmentDue(s) == s.queue # <<>> /\ CanSend(s, Owes(s))

SendLoop(s, who) == IF SegmentDue(s) THEN EmitSegment(s, who) ELSE SendStandaloneAck(s, who)

QueueDue(s) == s.out = <<>> /\ s.active /\ s.queue # <<>>

ProcessSendQueue(s, who) == IF QueueDue(s) THEN SendLoop(s, who) ELSE s

ImmediateAckDue(s) ==
    /\ s.queue = <<>> /\ s.out = <<>> /\ s.active /\ AckDue(s)
    /\ LocalWindowFreeSlots(s) <= ImmediateAckWindowThreshold

\* The end of handleIncomingLocked; a handler whose goroutine is in a Write takes no
\* further packet.
SendImmediateAckIfWindowLow(s) ==
    IF ImmediateAckDue(s) THEN SendStandaloneAck([s EXCEPT !.handler = "immediate"], "handler")
    ELSE [s EXCEPT !.handler = "idle"]

Flush(s) ==
    IF QueueDue(s) /\ (SegmentDue(s) \/ AckDue(s))
    THEN SendLoop([s EXCEPT !.handler = "queue"], "handler")
    ELSE SendImmediateAckIfWindowLow(s)

\* The packet session x has begun to write in this step.
Begun(x) == IF ses'[x].out # ses[x].out THEN ses'[x].out ELSE <<>>

\* Session x becomes s; a packet it has begun to write goes on the wire.
Become(x, s) ==
    /\ ses' = [ses EXCEPT ![x] = s]
    /\ wire' = [wire EXCEPT ![x] = @ \o Begun(x)]

-----------------------------------------------------------------------------
\* Operations.

Message(x, len) == [i \in 1 .. len |-> <<Len(sent[x]) + 1, i>>]

Send(x, len) ==
    /\ link = "up" /\ ses[x].active
    /\ Len(sent[x]) < MaxSent[x]
    /\ sent' = [sent EXCEPT ![x] = Append(@, Message(x, len))]
    /\ Become(x, ProcessSendQueue([ses[x] EXCEPT !.queue =
                     Append(@, [data |-> Message(x, len), off |-> 0])], "other"))
    /\ UNCHANGED <<link, delivered>>

\* mutant: the queue is not looked at again after a stand-alone ack
ResumeAckOnly(s, p) ==
    IF p.data # <<>>
    THEN SendLoop([s EXCEPT !.ackReceive = TRUE, !.queue = IF p.end THEN Tail(@) ELSE @], s.by)
    ELSE [s EXCEPT !.sendAck = FALSE, !.ackReceive = TRUE]

\* mutant: what was sent is not watched by the ack-received timer
ResumeUnwatched(s, p) ==
    IF p.data # <<>>
    THEN SendLoop([s EXCEPT !.queue = IF p.end THEN Tail(@) ELSE @], s.by)
    ELSE ProcessSendQueue([s EXCEPT !.sendAck = FALSE], s.by)

\* mutant: the ack is committed after the write instead of before it
ResumeCommitsAck(s, p) ==
    IF p.data # <<>>
    THEN SendLoop([s EXCEPT !.ackReceive = TRUE, !.acked = IF p.ack # NoAck THEN s.inSeq ELSE @,
                            !.queue = IF p.end THEN Tail(@) ELSE @], s.by)
    ELSE ProcessSendQueue([s EXCEPT !.sendAck = FALSE, !.ackReceive = TRUE, !.acked = s.inSeq], s.by)

\* What follows a Write of p on an active session: out is empty again.
Resume(s, p) ==
    IF p.data # <<>>
    THEN SendLoop([s EXCEPT !.ackReceive = TRUE, !.queue = IF p.end THEN Tail(@) ELSE @], s.by)
    ELSE ProcessSendQueue([s EXCEPT !.sendAck = FALSE, !.ackReceive = TRUE], s.by)

\* The call chain of a write has ended without another write: the handler goes on.
ChainEnds(s) ==
    IF s.out # <<>> \/ s.by = "other" THEN s
    ELSE IF s.handler = "queue" THEN SendImmediateAckIfWindowLow(s)
    ELSE [s EXCEPT !.handler = "idle"]

\* A Write returns without an error; a session suspended meanwhile drops what it had queued.
Written(x) ==
    /\ link = "up" /\ ses[x].out # <<>>
    /\ LET p == ses[x].out[1]
           s == [ses[x] EXCEPT !.out = <<>>]
       IN \E t \in {IF s.active THEN Resume(s, p)
                     ELSE [s EXCEPT !.queue = IF p.data # <<>> THEN <<>> ELSE @]} :
             Become(x, ChainEnds(t))
    /\ UNCHANGED <<link, sent, delivered>>

\* stopTimersLocked and active cleared.
Ended(s) == [s EXCEPT !.active = FALSE, !.sendAck = FALSE, !.ackReceive = FALSE]

\* The connection is gone, dropped by a Close of one side or lost by the radio: both
\* sessions end with what was on the way.  Errors close a session just after its lock is
\* released; what another goroutine sends in between belongs to a session already lost.
Disconnect ==
    /\ link' = "down"
    /\ ses' = [x \in Sides |-> Ended(NewSession(x))]
    /\ wire' = [x \in Sides |-> <<>>]
    /\ UNCHANGED <<sent, delivered>>

\* A Write fails: an active session closes, a suspended one drops what it had queued.
WriteFails(x) ==
    /\ link = "up" /\ ses[x].out # <<>>
    /\ \/ ses[x].active /\ Disconnect
       \/ /\ ~ses[x].active
          /\ ses' = [ses EXCEPT ![x] = [@ EXCEPT !.out = <<>>, !.queue = <<>>,
                            !.handler = IF ses[x].by = "handler" THEN "idle" ELSE ses[x].handler]]
          /\ UNCHANGED <<wire, link, sent, delivered>>

\* The checks of handleIncomingLocked that a packet of the peer's session could fail.
\* mutant: the ack of the packet sent last is refused
AckInOutstandingStrict(s, p) ==
    p.ack # NoAck => ModularDistance(s.inAck, p.ack) < ModularDistance(s.inAck, s.seq)

AckInOutstanding(s, p) ==
    p.ack # NoAck => ModularDistance(s.inAck, p.ack) <= ModularDistance(s.inAck, s.seq)

SegmentInPlace(s, p) ==
    IF p.begin THEN s.want = 0
    ELSE p.data # <<>> => s.want # 0 /\ Len(s.incoming) + Len(p.data) <= s.want

WholeAtEnd(s, p) ==
    p.end => Len(s.incoming \o p.data) = (IF p.begin THEN p.length ELSE s.want)

Acceptable(s, p) ==
    /\ p.seq = (s.inSeq + 1) % Mod
    /\ AckInOutstanding(s, p) /\ SegmentInPlace(s, p) /\ WholeAtEnd(s, p)

TakeSequence(s, p) == [s EXCEPT !.inSeq = p.seq, !.fresh = FALSE, !.sendAck = TRUE]

TakeAck(s, p) ==
    IF p.ack = NoAck THEN s ELSE [s EXCEPT !.inAck = p.ack, !.ackReceive = p.ack # s.seq]

TakeSegment(s, p) ==
    [s EXCEPT !.incoming = IF p.end THEN <<>> ELSE @ \o p.data,
              !.want = IF p.end THEN 0 ELSE IF p.begin THEN p.length ELSE @]

\* HandleIncoming of the next packet: ignored by a suspended session, and on an error the
\* session closes.  A message that is complete goes to the Message callback with the lock
\* released.
HandleIncoming(x) ==
    LET s == ses[x]
        p == Head(wire[Peer(x)])
    IN /\ link = "up" /\ wire[Peer(x)] # <<>>
       /\ s.handler = "idle"
       /\ IF s.active /\ ~Acceptable(s, p) THEN Disconnect
          ELSE /\ \E t \in {TakeSegment(TakeAck(TakeSequence(s, p), p), p)} :
                     ses' = [ses EXCEPT ![x] = IF ~s.active THEN s
                                               ELSE IF p.end THEN [t EXCEPT !.handler = "message"]
                                               ELSE Flush(t)]
               /\ wire' = [wire EXCEPT ![Peer(x)] = Tail(@), ![x] = @ \o Begun(x)]
               /\ delivered' = IF ses'[x].handler = "message"
                               THEN [delivered EXCEPT ![x] = Append(@, s.incoming \o p.data)]
                               ELSE delivered
               /\ UNCHANGED <<link, sent>>

\* The Message callback returns, without an error or with one.
MessageReturns(x) ==
    /\ link = "up" /\ ses[x].handler = "message"
    /\ \/ Become(x, Flush(ses[x])) /\ UNCHANGED <<link, sent, delivered>>
       \/ ses[x].active /\ Disconnect

\* The send-ack timer fires.
SendAckTimeout(x) ==
    /\ link = "up" /\ ses[x].sendAck
    /\ Become(x, SendStandaloneAck([ses[x] EXCEPT !.sendAck = FALSE], "other"))
    /\ UNCHANGED <<link, sent, delivered>>

\* The central had no packet although it sent data: the session is suspended, not closed.
Stalls(x) == CanStall /\ x = "central" /\ ses[x].fresh /\ sent[x] # <<>>

\* The ack-received timer fires: nothing when all is acknowledged by now, else the
\* session is suspended for a renegotiation, or closed.
AckTimeout(x) ==
    LET s == [ses[x] EXCEPT !.ackReceive = FALSE]
    IN /\ link = "up" /\ ses[x].ackReceive
       /\ \/ /\ s.inAck = s.seq \/ Stalls(x)
             /\ Become(x, IF s.inAck = s.seq THEN s ELSE Ended([s EXCEPT !.fresh = FALSE]))
             /\ UNCHANGED <<link, sent, delivered>>
          \/ s.inAck # s.seq /\ ~Stalls(x) /\ Disconnect

\* The application or the central's idle timer closes a session, or the radio link is lost.
LinkLost == link = "up" /\ Disconnect

Next ==
    \/ \E x \in Sides :
          \/ \E len \in Lengths : Send(x, len)
          \/ Written(x) \/ WriteFails(x)
          \/ HandleIncoming(x) \/ MessageReturns(x)
          \/ SendAckTimeout(x) \/ AckTimeout(x)
    \/ LinkLost

Spec == Init /\ [][Next]_vars

\* Writes and callbacks return, indications are delivered, timers fire.
FairSpec ==
    /\ Spec
    /\ \A x \in Sides :
          /\ WF_vars(Written(x) \/ WriteFails(x))
          /\ WF_vars(HandleIncoming(x) \/ MessageReturns(x))
          /\ WF_vars(SendAckTimeout(x))
          /\ WF_vars(AckTimeout(x))

-----------------------------------------------------------------------------
\* Properties.

SeqNumbers == 0 .. Mod - 1

\* The session's fields keep the ranges newSession and the wrap of nextSequenceNumber give
\* them, one packet at a time is being written, and only a message under way has collected segments.
TypeOK ==
    /\ link \in {"up", "down"}
    /\ \A x \in Sides :
          LET s == ses[x] IN
          /\ s.inSeq \in SeqNumbers /\ s.inAck \in SeqNumbers \cup {-1}
          /\ s.seq \in SeqNumbers \cup {-1} /\ s.acked \in SeqNumbers \cup {-1}
          /\ Len(s.out) <= 1 /\ s.by \in {"handler", "other"}
          /\ s.handler \in {"idle", "message", "queue", "immediate"}
          /\ s.want \in Nat /\ Len(s.incoming) <= s.want

\* The next packet of the peer's session passes every check handleIncomingLocked makes
\* (sequence number, ack in the outstanding interval, segment order and length): two
\* sessions never close each other for a protocol error, whatever their sends, timers and
\* callbacks do in between.
PeersAgree ==
    \A x \in Sides :
        wire[Peer(x)] # <<>> /\ ses[x].active => Acceptable(ses[x], Head(wire[Peer(x)]))

\* What is on the way to a session and what it has not acknowledged never exceed the
\* window it announced (canSend), ack-bearing packets in the reserved slot included.
WindowKept ==
    \A x \in Sides :
        ModularDistance(ses[x].acked, ses[x].inSeq) + Len(wire[Peer(x)]) <= WindowSize

Quiet(x) == ses[x].active /\ ses[x].out = <<>> /\ ses[x].handler = "idle"

\* No lost wakeup in the hand-over of sendInProgress: when no goroutine is in a write or
\* in the handler, a message still queued is one the window does not admit; an ack that
\* reopened the window during a write has been used.
NoLostWakeup ==
    \A x \in Sides :
        Quiet(x) /\ ses[x].queue # <<>> => ~CanSend(ses[x], Owes(ses[x]))

\* The reserved last slot prevents a standoff: when nothing is on the way and a side waits
\* for window space, the other owes it an ack and may send it.
NoStandoff ==
    \A x \in Sides :
        ( /\ link = "up" /\ \A y \in Sides : Quiet(y) /\ wire[y] = <<>>
          /\ ses[x].queue # <<>> )
        => Owes(ses[Peer(x)]) /\ CanSend(ses[Peer(x)], TRUE)

\* The session is a FIFO in each direction: messages arrive whole, once, in order, and
\* while the receiver is connected each one does arrive.
ToPeripheral == INSTANCE Fifo WITH
    Limit <- MaxSent["central"], sent <- sent["central"],
    delivered <- delivered["peripheral"], open <- link = "up" /\ ses["peripheral"].active
ToCentral == INSTANCE Fifo WITH
    Limit <- MaxSent["peripheral"], sent <- sent["peripheral"],
    delivered <- delivered["central"], open <- link = "up" /\ ses["central"].active

\* Refinement: what Send takes on either side reaches the other side's Message callback
\* as through Fifo, over every interleaving of writes, callbacks and timers.
FifoBothWays == ToPeripheral!Spec /\ ToCentral!Spec

=============================================================================
