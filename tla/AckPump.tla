------------------------------ MODULE AckPump ------------------------------
(***************************************************************************)
(* Acknowledging reliable messages: the bridge's receive path, its reply   *)
(* handlers, mrp.AckTracker, the table of reply routes and the ack pump.   *)
(*                                                                         *)
(* A reliable message that arrives leaves an obligation for its exchange.  *)
(* A reply carries the acknowledgement along and cancels the obligation;   *)
(* otherwise the pump sends a standalone one over the exchange's route.    *)
(* The messages of one secure session are handled one at a time (rx), but  *)
(* a chunked answer gives up its turn while it waits for the peer          *)
(* (stream), and the pump runs beside both.  The tracker is locked per     *)
(* call, the routes are a sync.Map: every call is a step of its own.       *)
(***************************************************************************)
EXTENDS FiniteSets, Naturals

CONSTANTS
    Messages,     \* reliable messages the peer has to send
    Exchanges,    \* exchanges, with our role, of one secure session
    ExchangeOf,   \* the exchange of each message
    Kind,         \* what each message is, see Kinds
    Pipelined,    \* whether the peer opens a message before the last is acked
    None

\* A request answered at once; one with SuppressResponse; a chunked one (a Read or an
\* Invoke with a long answer, or a Subscribe), answered in two messages with a
\* StatusResponse of the peer between; a StatusResponse on the peer's exchange; one
\* that ends a report of ours.
Kinds == {"request", "suppressed", "chunked", "status", "reported"}

ASSUME AckAssumption ==
    /\ ExchangeOf \in [Messages -> Exchanges] /\ Kind \in [Messages -> Kinds]
    /\ Pipelined \in BOOLEAN /\ None \notin Messages

Emitters == {"pump", "rx"}

VARIABLES
    peer,       \* the peer's view of each message: "new", "waiting" or "acked"
    seen,       \* messages the session's window has accepted
    pending,    \* AckTracker.pending: the message owed per exchange, or None
    due,        \* exchanges whose pending obligation has reached its DueAt
    displaced,  \* AckTracker.displaced
    route,      \* exchanges with an entry in exchangeSrcs
    rx,         \* the datagram being handled: its message, step and freshness
    stream,     \* the chunked answer: its request, step, ack counter and the answer
                \* it is armed for (statusResponseWaits)
    work,       \* obligations each emitter took from Due and has yet to emit
    emit,       \* the obligation each emitter is at, and its step
    acked,      \* history: messages an acknowledgement was sent for
    lost        \* history: messages whose obligation ended without one, and why

tracker == <<pending, due, displaced>>
vars == <<peer, seen, pending, due, displaced, route,
          rx, stream, work, emit, acked, lost>>

IdleRx == [step |-> "idle", msg |-> None, dup |-> "no"]
NoStream == [step |-> "off", op |-> "none", msg |-> None, ctr |-> None, part |-> 0, answer |-> "no"]
IdleEmit == [step |-> "idle", msg |-> None]

Init ==
    /\ peer = [m \in Messages |-> "new"] /\ seen = {}
    /\ pending = [x \in Exchanges |-> None] /\ due = {} /\ displaced = {}
    /\ route = {}
    /\ rx = IdleRx /\ stream = NoStream
    /\ work = [a \in Emitters |-> {}] /\ emit = [a \in Emitters |-> IdleEmit]
    /\ acked = {} /\ lost = {}

-----------------------------------------------------------------------------
(* The peer and the network *)

\* A peer that does not pipeline has one unacknowledged message per exchange.
Send(m) ==
    /\ peer[m] = "new"
    /\ Pipelined \/ \A n \in Messages : ExchangeOf[n] = ExchangeOf[m] => peer[n] # "waiting"
    /\ peer' = [peer EXCEPT ![m] = "waiting"]
    /\ UNCHANGED <<seen, tracker, route, rx, stream, work, emit, acked, lost>>

\* An acknowledgement of m leaves, in a reply or alone; it arrives or is lost.
SendAck(m) ==
    /\ peer' \in {peer, [peer EXCEPT ![m] = "acked"]}
    /\ acked' = acked \cup {m}

\* The reasons for which an obligation may end without an acknowledgement.
Reasons == {"suppressed", "chunked", "unsent", "unrouted", "unemitted"}
Settled(m) == m \in acked \/ \E why \in Reasons : <<m, why>> \in lost

\* The obligation of m ends without an acknowledgement; the first reason is kept.
LoseAck(m, why) == lost' = IF Settled(m) THEN lost ELSE lost \cup {<<m, why>>}

-----------------------------------------------------------------------------
(* mrp.AckTracker: one critical section each *)

OweForgets(x, m) ==   \* mutant: a newer message's obligation replaces the older one
    /\ pending' = [pending EXCEPT ![x] = m] /\ due' = due \ {x} /\ UNCHANGED displaced
Owe(x, m) ==
    /\ pending' = [pending EXCEPT ![x] = m]
    /\ due' = IF pending[x] = m THEN due ELSE due \ {x}
    /\ displaced' = IF pending[x] \in {None, m} THEN displaced ELSE displaced \cup {pending[x]}

Discharge(x) ==
    /\ pending' = [pending EXCEPT ![x] = None] /\ due' = due \ {x}
    /\ UNCHANGED displaced

ExpediteDue(x) ==
    /\ due' = IF pending[x] = None THEN due ELSE due \cup {x}
    /\ UNCHANGED <<pending, displaced>>

\* Due hands the displaced obligations and the due ones to emitter a.
Due(a) ==
    /\ work' = [work EXCEPT ![a] = displaced \cup {pending[x] : x \in due}]
    /\ pending' = [x \in Exchanges |-> IF x \in due THEN None ELSE pending[x]]
    /\ due' = {} /\ displaced' = {}

\* The grace window of a pending obligation ends.
Elapse(x) ==
    /\ pending[x] # None /\ x \notin due
    /\ due' = due \cup {x}
    /\ UNCHANGED <<peer, seen, pending, displaced, route, rx, stream, work, emit, acked, lost>>

-----------------------------------------------------------------------------
(* The receive path: dispatch, on the session's turn *)

\* A copy of a message arrives: the first, a retransmission or one long delayed.
\* Decryption marks the counter as seen; owedInboundAck stores the route first.
Arrive(m) ==
    /\ rx.step = "idle" /\ peer[m] # "new"
    /\ rx' = [step |-> "owe", msg |-> m, dup |-> IF m \in seen THEN "yes" ELSE "no"]
    /\ seen' = seen \cup {m} /\ route' = route \cup {ExchangeOf[m]}
    /\ UNCHANGED <<peer, tracker, stream, work, emit, acked, lost>>

OweInboundFirstOnly ==   \* mutant: a duplicate is dropped before it is owed an acknowledgement
    /\ rx.step = "owe"
    /\ \/ rx.dup = "no" /\ Owe(ExchangeOf[rx.msg], rx.msg) /\ rx' = [rx EXCEPT !.step = "handle"]
       \/ rx.dup = "yes" /\ rx' = IdleRx /\ UNCHANGED tracker
    /\ UNCHANGED <<peer, seen, route, stream, work, emit, acked, lost>>
OweInbound ==
    /\ rx.step = "owe"
    /\ Owe(ExchangeOf[rx.msg], rx.msg)
    /\ rx' = [rx EXCEPT !.step = IF rx.dup = "yes" THEN "expedite" ELSE "handle"]
    /\ UNCHANGED <<peer, seen, route, stream, work, emit, acked, lost>>

\* A duplicate is acknowledged at once, and not handled again.
Expedite ==
    /\ rx.step = "expedite"
    /\ ExpediteDue(ExchangeOf[rx.msg])
    /\ rx' = [rx EXCEPT !.step = "drain"]
    /\ UNCHANGED <<peer, seen, route, stream, work, emit, acked, lost>>

RunAckPumpOnce ==
    /\ rx.step = "drain"
    /\ Due("rx")
    /\ rx' = [rx EXCEPT !.step = "emit"]
    /\ UNCHANGED <<peer, seen, route, stream, emit, acked, lost>>

DrainDone ==
    /\ rx.step = "emit" /\ work["rx"] = {} /\ emit["rx"] = IdleEmit
    /\ rx' = IdleRx
    /\ UNCHANGED <<peer, seen, tracker, route, stream, work, emit, acked, lost>>

\* The StatusResponse a stream is armed for is handed to it; any other on the peer's
\* exchange is answered like a request.
Awaited(m) == stream.answer = "armed" /\ ExchangeOf[stream.msg] = ExchangeOf[m]

\* A reply carries the acknowledgement, and its handler then discharges it; a reply
\* that cannot be sent leaves the obligation to the pump.
ReplyOrNot ==   \* mutant: a failed send does not return early
    /\ rx.step = "handle"
    /\ Kind[rx.msg] = "request" \/ (Kind[rx.msg] = "status" /\ ~Awaited(rx.msg))
    /\ rx' = [rx EXCEPT !.step = "discharge"]
    /\ SendAck(rx.msg) \/ UNCHANGED <<peer, acked>>
    /\ UNCHANGED <<seen, tracker, route, stream, work, emit, lost>>
Reply ==
    /\ rx.step = "handle"
    /\ Kind[rx.msg] = "request" \/ (Kind[rx.msg] = "status" /\ ~Awaited(rx.msg))
    /\ \/ SendAck(rx.msg) /\ rx' = [rx EXCEPT !.step = "discharge"]
       \/ rx' = IdleRx /\ UNCHANGED <<peer, acked>>
    /\ UNCHANGED <<seen, tracker, route, stream, work, emit, lost>>

\* suppressStatus and its like: no reply, and the obligation is discharged.
Suppress ==
    /\ rx.step = "handle" /\ Kind[rx.msg] = "suppressed"
    /\ rx' = [rx EXCEPT !.step = "discharge"]
    /\ UNCHANGED <<peer, seen, tracker, route, stream, work, emit, acked, lost>>

\* The StatusResponse that ends a report of ours: nothing follows to carry its ack.
ReportAnswered ==
    /\ rx.step = "handle" /\ Kind[rx.msg] = "reported"
    /\ rx' = [rx EXCEPT !.step = "expedite"]
    /\ UNCHANGED <<peer, seen, tracker, route, stream, work, emit, acked, lost>>

\* signalStatusResponseRX: the obligation is left to the stream's next message.
Signal ==
    /\ rx.step = "handle" /\ Kind[rx.msg] = "status" /\ Awaited(rx.msg)
    /\ stream' \in {[stream EXCEPT !.answer = "success"], [stream EXCEPT !.answer = "failure"]}
    /\ rx' = IdleRx
    /\ UNCHANGED <<peer, seen, tracker, route, work, emit, acked, lost>>

\* dischargeOwedAck: the obligation of the exchange, whichever message's it is, ...
Unowed(x) == {pending[x]} \ ({None} \cup acked)

DischargeReplied ==
    /\ rx.step = "discharge"
    /\ Discharge(ExchangeOf[rx.msg])
    /\ lost' = lost \cup {<<m, Kind[rx.msg]>> : m \in Unowed(ExchangeOf[rx.msg])}
    /\ rx' = [rx EXCEPT !.step = "unroute"]
    /\ UNCHANGED <<peer, seen, route, stream, work, emit, acked>>

\* ... and then the route.
Unroute ==
    /\ rx.step = "unroute"
    /\ route' = route \ {ExchangeOf[rx.msg]}
    /\ rx' = IdleRx
    /\ UNCHANGED <<peer, seen, tracker, stream, work, emit, acked, lost>>

-----------------------------------------------------------------------------
(* A chunked answer *)

\* A Subscribe leaves the session's turn before its first message, ...
StartStream ==
    /\ rx.step = "handle" /\ Kind[rx.msg] = "chunked" /\ stream = NoStream
    /\ \E op \in {"read", "subscribe"} :
        /\ stream' = [NoStream EXCEPT !.step = "arm", !.op = op, !.msg = rx.msg, !.part = 1]
        /\ rx' = IF op = "read" THEN [rx EXCEPT !.step = "stream"] ELSE IdleRx
    /\ UNCHANGED <<peer, seen, tracker, route, work, emit, acked, lost>>

ArmStatusResponseWait ==
    /\ stream.step = "arm"
    /\ stream' = [stream EXCEPT !.step = "refresh", !.answer = "armed"]
    /\ UNCHANGED <<peer, seen, tracker, route, rx, work, emit, acked, lost>>

\* LookupAndDischarge: the next message carries the newest obligation, if any.
Refresh ==
    /\ stream.step = "refresh"
    /\ LET x == ExchangeOf[stream.msg] IN
        /\ stream' = [stream EXCEPT !.step = "send",
                                    !.ctr = IF pending[x] = None THEN stream.msg ELSE pending[x]]
        /\ Discharge(x)
    /\ UNCHANGED <<peer, seen, route, rx, work, emit, acked, lost>>

\* ... a Read once it is out (leaveSessionOrder).
LeaveTurn == rx' = IF rx.step = "stream" THEN IdleRx ELSE rx

SendPart ==
    /\ stream.step = "send"
    /\ SendAck(stream.ctr)
    /\ stream' = IF stream.part = 1 THEN [stream EXCEPT !.step = "await"]
                 ELSE IF stream.op = "read" THEN [stream EXCEPT !.step = "discharge"]
                 ELSE NoStream
    /\ LeaveTurn
    /\ UNCHANGED <<seen, tracker, route, work, emit, lost>>

\* A part that cannot be sent: the obligation Refresh took is gone.
SendPartFails ==
    /\ stream.step = "send"
    /\ LoseAck(stream.ctr, "unsent")
    /\ stream' = NoStream
    /\ LeaveTurn
    /\ UNCHANGED <<peer, seen, tracker, route, work, emit, acked>>

AwaitAnswered ==
    /\ stream.step = "await" /\ stream.answer \in {"success", "failure"}
    /\ stream' = IF stream.answer = "failure" THEN NoStream
                 ELSE [stream EXCEPT !.step = "refresh", !.part = 2, !.answer = "no"]
    /\ UNCHANGED <<peer, seen, tracker, route, rx, work, emit, acked, lost>>

AwaitTimesOut ==
    /\ stream.step = "await"
    /\ stream' = NoStream
    /\ UNCHANGED <<peer, seen, tracker, route, rx, work, emit, acked, lost>>

DischargeStreamed ==
    /\ stream.step = "discharge"
    /\ Discharge(ExchangeOf[stream.msg])
    /\ lost' = lost \cup {<<m, "chunked">> : m \in Unowed(ExchangeOf[stream.msg])}
    /\ stream' = [stream EXCEPT !.step = "unroute"]
    /\ UNCHANGED <<peer, seen, route, rx, work, emit, acked>>

UnrouteStreamed ==
    /\ stream.step = "unroute"
    /\ route' = route \ {ExchangeOf[stream.msg]}
    /\ stream' = NoStream
    /\ UNCHANGED <<peer, seen, tracker, rx, work, emit, acked, lost>>

-----------------------------------------------------------------------------
(* Emitting: the pump's tick, and the drain of the receive path *)

PumpTick ==
    /\ work["pump"] = {} /\ emit["pump"] = IdleEmit
    /\ displaced # {} \/ due # {}
    /\ Due("pump")
    /\ UNCHANGED <<peer, seen, route, rx, stream, emit, acked, lost>>

\* emitStandaloneAck: without a route the acknowledgement is dropped, ...
LoadRoute(a, m) ==
    /\ emit[a] = IdleEmit /\ m \in work[a]
    /\ work' = [work EXCEPT ![a] = @ \ {m}]
    /\ \/ ExchangeOf[m] \in route /\ emit' = [emit EXCEPT ![a] = [step |-> "owes", msg |-> m]] /\ UNCHANGED lost
       \/ ExchangeOf[m] \notin route /\ LoseAck(m, "unrouted") /\ UNCHANGED emit
    /\ UNCHANGED <<peer, seen, tracker, route, rx, stream, acked>>

\* ... the route goes unless another obligation needs it, ...
AskOwes(a) ==
    /\ emit[a].step = "owes"
    /\ emit' = [emit EXCEPT ![a].step = IF pending[ExchangeOf[emit[a].msg]] = None THEN "delete" ELSE "send"]
    /\ UNCHANGED <<peer, seen, tracker, route, rx, stream, work, acked, lost>>

DeleteRoute(a) ==
    /\ emit[a].step = "delete"
    /\ route' = route \ {ExchangeOf[emit[a].msg]}
    /\ emit' = [emit EXCEPT ![a].step = "send"]
    /\ UNCHANGED <<peer, seen, tracker, rx, stream, work, acked, lost>>

\* ... and the acknowledgement leaves.
EmitAck(a) ==
    /\ emit[a].step = "send"
    /\ SendAck(emit[a].msg)
    /\ emit' = [emit EXCEPT ![a] = IdleEmit]
    /\ UNCHANGED <<seen, tracker, route, rx, stream, work, lost>>

\* It does not: the route has no address, the listener or the session is gone, or
\* encryption or the send fails.  The obligation, taken from the tracker before, is
\* not put back.
EmitAckFails(a) ==
    /\ emit[a].step = "send"
    /\ LoseAck(emit[a].msg, "unemitted")
    /\ emit' = [emit EXCEPT ![a] = IdleEmit]
    /\ UNCHANGED <<peer, seen, tracker, route, rx, stream, work, acked>>

-----------------------------------------------------------------------------
Receive ==
    \/ \E m \in Messages : Arrive(m)
    \/ OweInbound \/ Expedite \/ RunAckPumpOnce \/ DrainDone
    \/ Reply \/ Suppress \/ ReportAnswered \/ Signal
    \/ DischargeReplied \/ Unroute \/ StartStream
Stream ==
    \/ ArmStatusResponseWait \/ Refresh \/ SendPart \/ SendPartFails
    \/ AwaitAnswered \/ AwaitTimesOut
    \/ DischargeStreamed \/ UnrouteStreamed
Emit(a) ==
    \/ \E m \in Messages : LoadRoute(a, m)
    \/ AskOwes(a) \/ DeleteRoute(a) \/ EmitAck(a) \/ EmitAckFails(a)

Next ==
    \/ \E m \in Messages : Send(m)
    \/ \E x \in Exchanges : Elapse(x)
    \/ Receive \/ Stream \/ PumpTick
    \/ \E a \in Emitters : Emit(a)

\* The goroutines run, timers fire, the pump ticks.  The peer repeats a message it
\* has no acknowledgement of, and the network does not lose every copy, nor every
\* acknowledgement, nor deliver late copies of acknowledged messages for ever.
\* Nobody has to send.
AckReaches(m) ==
    /\ Reply \/ SendPart \/ \E a \in Emitters : EmitAck(a)
    /\ peer[m] = "waiting" /\ peer'[m] = "acked"
Fairness ==
    /\ WF_vars(Receive /\ rx.step # "idle") /\ WF_vars(Stream) /\ WF_vars(PumpTick)
    /\ \A x \in Exchanges : WF_vars(Elapse(x))
    /\ \A a \in Emitters : WF_vars(Emit(a))
    /\ \A m \in Messages : SF_vars(Arrive(m) /\ peer[m] = "waiting") /\ SF_vars(AckReaches(m))
    /\ <>[][\A m \in Messages : Arrive(m) => peer[m] = "waiting"]_vars

Spec == Init /\ [][Next]_vars
FairSpec == Spec /\ Fairness

-----------------------------------------------------------------------------
LostFor(why) == {m \in Messages : <<m, why>> \in lost}

\* The acknowledgement of m is still under way: about to be owed, owed, displaced,
\* with an emitter, or taken by the next part of a chunked answer.
UnderWay(m) ==
    \/ rx.msg = m /\ rx.step = "owe"
    \/ pending[ExchangeOf[m]] = m
    \/ m \in displaced
    \/ \E a \in Emitters : m \in work[a] \/ emit[a].msg = m
    \/ stream.ctr = m /\ stream.step = "send"

\* Between owedInboundAck, the reply handlers and the pump an acknowledgement is lost
\* in five places only: a suppressed answer, a chunked answer's final discharge, a
\* chunk that could not be sent, a route deleted under an emitter, and a standalone
\* acknowledgement that emitStandaloneAck could not send.
AckedOrOwed == \A m \in seen : Settled(m) \/ UnderWay(m)

\* A handler that replied cancels the obligation of the message it replied to and
\* no other's: the session's turn keeps every other message away until it is done.
RepliesCancelTheirOwn == LostFor("request") = {} /\ LostFor("status") = {}

\* A message the peer repeats is acknowledged in the end, whatever became of the
\* obligation of an earlier copy.
RepeatedIsAcked == \A m \in Messages : peer[m] = "waiting" ~> peer[m] = "acked"
=============================================================================
