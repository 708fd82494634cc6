--------------------------- MODULE AckPumpProofs ---------------------------
(***************************************************************************)
(* For any messages, exchanges and kinds of messages, and a peer that      *)
(* pipelines or not: an acknowledgement that is owed is lost in the five   *)
(* places AckedOrOwed names only, and a reply cancels its own obligation.  *)
(*                                                                         *)
(* Beyond the types the argument needs three facts.  An exchange that is   *)
(* due owes something, and owes it for a message of its own (Obligations), *)
(* or the pump would hand out nothing.  The emitter of the receive path    *)
(* has nothing in hand before it drains (Drained), or the drain would      *)
(* overwrite it.  And from the moment the message being handled is owed,   *)
(* its exchange owes that message or nothing (OwnTurn): only the receive   *)
(* path adds obligations, one message at a time.                           *)
(***************************************************************************)
EXTENDS AckPump, TLAPS

RxSteps == {"idle", "owe", "handle", "expedite", "drain", "emit", "discharge", "unroute", "stream"}
StreamSteps == {"off", "arm", "refresh", "send", "await", "discharge", "unroute"}
SomeMessage == Messages \cup {None}

RxType == [step : RxSteps, msg : SomeMessage, dup : {"yes", "no"}]
StreamType == [step : StreamSteps, op : {"none", "read", "subscribe"}, msg : SomeMessage,
               ctr : SomeMessage, part : 0 .. 2, answer : {"no", "armed", "success", "failure"}]
EmitType == [step : {"idle", "owes", "delete", "send"}, msg : SomeMessage]

Types ==
    /\ peer \in [Messages -> {"new", "waiting", "acked"}]
    /\ seen \subseteq Messages /\ acked \subseteq Messages
    /\ rx \in RxType /\ (rx.step # "idle" => rx.msg \in Messages)
    /\ stream \in StreamType /\ (stream.step # "off" => stream.msg \in Messages)
    /\ stream.step = "send" => stream.ctr \in Messages
    /\ work \in [Emitters -> SUBSET Messages] /\ emit \in [Emitters -> EmitType]
    /\ \A a \in Emitters : emit[a].step = "idle" <=> emit[a].msg = None

Obligations ==
    /\ pending \in [Exchanges -> SomeMessage] /\ due \subseteq Exchanges /\ displaced \subseteq Messages
    /\ \A x \in Exchanges : pending[x] # None => ExchangeOf[pending[x]] = x
    /\ \A x \in due : pending[x] # None

Drained == rx.step # "emit" => work["rx"] = {} /\ emit["rx"] = IdleEmit

OwnTurn ==
    /\ rx.step \in {"handle", "discharge"} => pending[ExchangeOf[rx.msg]] \in {None, rx.msg}
    /\ rx.step = "discharge" => \/ Kind[rx.msg] = "suppressed"
                                \/ Kind[rx.msg] \in {"request", "status"} /\ rx.msg \in acked

IInv == Types /\ Obligations /\ Drained /\ OwnTurn /\ AckedOrOwed /\ RepliesCancelTheirOwn

-----------------------------------------------------------------------------
\* The records the steps write.

\* Of the receive path.
LEMMA RxRecords ==
    /\ IdleRx \in RxType /\ IdleRx.step = "idle" /\ IdleRx.msg = None
    /\ \A r \in RxType, s \in RxSteps :
          /\ [r EXCEPT !.step = s] \in RxType /\ [r EXCEPT !.step = s].step = s
          /\ [r EXCEPT !.step = s].msg = r.msg
  BY DEF IdleRx, RxType, RxSteps, SomeMessage

\* Of the chunked answer.
LEMMA StreamRecords ==
    /\ NoStream \in StreamType /\ NoStream.step = "off"
    /\ \A r \in StreamType, s \in StreamSteps :
          /\ [r EXCEPT !.step = s] \in StreamType /\ [r EXCEPT !.step = s].step = s
          /\ [r EXCEPT !.step = s].msg = r.msg /\ [r EXCEPT !.step = s].ctr = r.ctr
    /\ \A r \in StreamType, a \in {"no", "armed", "success", "failure"} :
          /\ [r EXCEPT !.answer = a] \in StreamType /\ [r EXCEPT !.answer = a].step = r.step
          /\ [r EXCEPT !.answer = a].msg = r.msg /\ [r EXCEPT !.answer = a].ctr = r.ctr
<1>1. NoStream \in StreamType /\ NoStream.step = "off"
  BY DEF NoStream, StreamType, StreamSteps, SomeMessage
<1> QED
  BY <1>1 DEF StreamType

\* Of an emitter.
LEMMA EmitRecords ==
    /\ IdleEmit \in EmitType /\ IdleEmit.step = "idle" /\ IdleEmit.msg = None
    /\ \A r \in EmitType, s \in {"idle", "owes", "delete", "send"} :
          /\ [r EXCEPT !.step = s] \in EmitType /\ [r EXCEPT !.step = s].step = s
          /\ [r EXCEPT !.step = s].msg = r.msg
  BY DEF IdleEmit, EmitType, SomeMessage

\* An acknowledgement leaves the peer's view well formed.
LEMMA AckTypes ==
    ASSUME Types, NEW m \in Messages, SendAck(m)
    PROVE  /\ peer' \in [Messages -> {"new", "waiting", "acked"}]
           /\ acked' = acked \cup {m} /\ acked' \subseteq Messages
  BY DEF SendAck, Types

\* A recorded loss settles its message, and is none of a handler that replied.
LEMMA LossRecorded ==
    ASSUME IInv, NEW m \in Messages, NEW why \in Reasons, LoseAck(m, why), acked' = acked
    PROVE  lost \subseteq lost' /\ RepliesCancelTheirOwn' /\ Settled(m)'
<1>1. lost \subseteq lost' /\ (lost' = lost \/ lost' = lost \cup {<<m, why>>})
  BY DEF LoseAck
<1>2. RepliesCancelTheirOwn'
  BY <1>1 DEF IInv, RepliesCancelTheirOwn, LostFor, Reasons
<1>3. Settled(m)'
  <2>1. m \in acked' \/ \E w \in Reasons : <<m, w>> \in lost'
    BY DEF LoseAck, Settled
  <2> QED
    BY <2>1 DEF Settled
<1> QED
  BY <1>1, <1>2, <1>3

\* What is settled stays settled; what was under way must stay so or be settled.
LEMMA StillOwed ==
    ASSUME AckedOrOwed, acked \subseteq acked', lost \subseteq lost',
           \A m \in seen' : m \in seen \/ UnderWay(m)',
           \A m \in seen : UnderWay(m) => UnderWay(m)' \/ Settled(m)'
    PROVE  AckedOrOwed'
<1>1. \A m \in seen : Settled(m) \/ UnderWay(m)
  BY DEF AckedOrOwed
<1>2. \A m : Settled(m) => Settled(m)'
  BY DEF Settled
<1>3. \A m \in seen' : Settled(m)' \/ UnderWay(m)'
  BY <1>1, <1>2
<1> QED
  BY <1>3 DEF AckedOrOwed

\* No message is None.
LEMMA NoneIsNone == None \notin Messages
  BY AckAssumption

-----------------------------------------------------------------------------
\* The peer, the grace window.

\* Send and Elapse disturb no obligation.
LEMMA OutsideStep ==
    ASSUME IInv, (\E m \in Messages : Send(m)) \/ (\E x \in Exchanges : Elapse(x))
    PROVE  IInv'
<1>1. UNCHANGED <<seen, pending, displaced, route, rx, stream, work, emit, acked, lost>>
  BY DEF Send, Elapse, tracker
<1>2. peer' \in [Messages -> {"new", "waiting", "acked"}]
  BY DEF Send, Elapse, IInv, Types
<1>3. Types'
  BY <1>1, <1>2 DEF IInv, Types
<1>4. Obligations'
  BY <1>1 DEF Send, Elapse, tracker, IInv, Obligations
<1>5. Drained' /\ OwnTurn' /\ RepliesCancelTheirOwn'
  BY <1>1 DEF IInv, Drained, OwnTurn, RepliesCancelTheirOwn, LostFor
<1>6. AckedOrOwed'
  BY <1>1 DEF IInv, AckedOrOwed, UnderWay, Settled
<1> QED
  BY <1>3, <1>4, <1>5, <1>6 DEF IInv

-----------------------------------------------------------------------------
\* The receive path.

\* A message arrives and is about to be owed.
LEMMA ArriveStep == ASSUME IInv, NEW m \in Messages, Arrive(m) PROVE IInv'
<1>1. /\ UNCHANGED <<peer, pending, due, displaced, stream, work, emit, acked, lost>>
      /\ seen' = seen \cup {m} /\ rx.step = "idle"
  BY DEF Arrive, tracker
<1>2. rx' \in RxType /\ rx'.step = "owe" /\ rx'.msg = m
  BY DEF Arrive, RxType, RxSteps, SomeMessage
<1>3. Types'
  BY <1>1, <1>2 DEF IInv, Types
<1>4. Obligations' /\ Drained' /\ OwnTurn' /\ RepliesCancelTheirOwn'
  BY <1>1, <1>2 DEF IInv, Obligations, Drained, OwnTurn, RepliesCancelTheirOwn, LostFor
<1>5. AckedOrOwed'
  <2>1. \A n \in seen' : n \in seen \/ UnderWay(n)'
    BY <1>1, <1>2 DEF UnderWay
  <2>2. \A n \in seen : UnderWay(n) => UnderWay(n)'
    BY <1>1 DEF UnderWay
  <2> QED
    BY <1>1, <2>1, <2>2, StillOwed DEF IInv
<1> QED
  BY <1>3, <1>4, <1>5 DEF IInv

\* Owe displaces what the exchange owed before, and forgets nothing.
LEMMA OweStep == ASSUME IInv, OweInbound PROVE IInv'
<1> DEFINE m == rx.msg
           x == ExchangeOf[rx.msg]
<1>0. m \in Messages /\ x \in Exchanges /\ m # None /\ rx \in RxType
  BY AckAssumption DEF IInv, Types, OweInbound
<1>1. /\ UNCHANGED <<peer, seen, stream, work, emit, acked, lost>> /\ rx.step = "owe"
      /\ pending' = [pending EXCEPT ![x] = m]
      /\ due' = IF pending[x] = m THEN due ELSE due \ {x}
      /\ displaced' = IF pending[x] \in {None, m} THEN displaced ELSE displaced \cup {pending[x]}
  BY DEF OweInbound, Owe
<1>2. rx' \in RxType /\ rx'.step \in {"expedite", "handle"} /\ rx'.msg = m
  <2>1. rx' = [rx EXCEPT !.step = "expedite"] \/ rx' = [rx EXCEPT !.step = "handle"]
    BY DEF OweInbound
  <2>2. CASE rx' = [rx EXCEPT !.step = "expedite"]
    BY <1>0, <2>2, RxRecords DEF RxSteps
  <2>3. CASE rx' = [rx EXCEPT !.step = "handle"]
    BY <1>0, <2>3, RxRecords DEF RxSteps
  <2> QED
    BY <2>1, <2>2, <2>3
<1>3. pending \in [Exchanges -> SomeMessage] /\ pending'[x] = m
  BY <1>0, <1>1 DEF IInv, Obligations
<1> HIDE DEF m, x
<1>4. Types'
  BY <1>0, <1>1, <1>2 DEF IInv, Types
<1>5. Obligations'
  BY <1>0, <1>1, <1>3 DEF IInv, Obligations, SomeMessage, x, m
<1>6. Drained' /\ RepliesCancelTheirOwn'
  BY <1>1, <1>2 DEF IInv, Drained, RepliesCancelTheirOwn, LostFor
<1>7. OwnTurn'
  BY <1>2, <1>3 DEF OwnTurn, x, m
<1>8. AckedOrOwed'
  <2>1. ASSUME NEW n \in seen, UnderWay(n) PROVE UnderWay(n)'
    <3>0. n \in Messages /\ ExchangeOf[n] \in Exchanges /\ n # None
      BY AckAssumption DEF IInv, Types
    <3>1. CASE n = m
      BY <1>3, <3>1 DEF UnderWay, x, m
    <3>2. CASE n # m /\ pending[ExchangeOf[n]] = n
      BY <1>0, <1>1, <1>3, <3>0, <3>2 DEF UnderWay
    <3>3. CASE n # m /\ pending[ExchangeOf[n]] # n
      BY <1>1, <2>1, <3>3 DEF UnderWay, m
    <3> QED
      BY <3>1, <3>2, <3>3
  <2> QED
    BY <1>1, <2>1, StillOwed DEF IInv
<1> QED
  BY <1>4, <1>5, <1>6, <1>7, <1>8 DEF IInv

\* A step of the receive path that touches nothing but its own progress, the peer's view
\* and the acknowledgements that left.
LEMMA RxMoves ==
    ASSUME IInv, rx' \in RxType, rx'.step # "idle" => rx'.msg = rx.msg, rx.step # "idle",
           rx.step # "owe", rx'.step # "owe",
           rx.step # "emit" \/ (work["rx"] = {} /\ emit["rx"] = IdleEmit), OwnTurn',
           peer' \in [Messages -> {"new", "waiting", "acked"}], acked \subseteq acked',
           acked' \subseteq Messages,
           UNCHANGED <<seen, pending, displaced, work, emit, lost>>,
           due' \subseteq Exchanges, \A x \in due' : pending[x] # None,
           stream' \in StreamType, stream'.step # "off" => stream'.msg \in Messages,
           stream'.step = "send" <=> stream.step = "send", stream'.ctr = stream.ctr
    PROVE  IInv'
<1>1. rx.msg \in Messages
  BY DEF IInv, Types
<1>2. Types'
  BY <1>1 DEF IInv, Types
<1>3. Obligations' /\ Drained' /\ RepliesCancelTheirOwn'
  BY DEF IInv, Obligations, Drained, RepliesCancelTheirOwn, LostFor
<1>4. AckedOrOwed'
  <2>1. \A n \in seen : UnderWay(n) => UnderWay(n)'
    BY DEF UnderWay
  <2> QED
    BY <2>1, StillOwed DEF IInv
<1> QED
  BY <1>2, <1>3, <1>4 DEF IInv

\* A duplicate, or the end of a report, makes the obligation due at once.
LEMMA ExpediteStep == ASSUME IInv, Expedite PROVE IInv'
<1>0. rx \in RxType /\ rx.msg \in Messages /\ ExchangeOf[rx.msg] \in Exchanges
  BY AckAssumption DEF IInv, Types, Expedite
<1>1. rx' \in RxType /\ rx'.step = "drain" /\ rx'.msg = rx.msg
  BY <1>0, RxRecords DEF Expedite, RxSteps
<1>2. due' \subseteq Exchanges /\ \A x \in due' : pending[x] # None
  BY <1>0 DEF Expedite, ExpediteDue, IInv, Obligations
<1>3. UNCHANGED <<peer, seen, pending, displaced, stream, work, emit, acked, lost>> /\ rx.step = "expedite"
  BY DEF Expedite, ExpediteDue
<1>4. OwnTurn'
  BY <1>1 DEF OwnTurn
<1> QED
  BY <1>1, <1>2, <1>3, <1>4, RxMoves DEF IInv, Types

\* The handlers of a message, up to the discharge.
LEMMA HandleStep ==
    ASSUME IInv, Reply \/ Suppress \/ ReportAnswered \/ Signal \/ DrainDone PROVE IInv'
<1>0. /\ rx \in RxType /\ stream \in StreamType /\ due \subseteq Exchanges
      /\ \A x \in due : pending[x] # None
      /\ peer \in [Messages -> {"new", "waiting", "acked"}] /\ acked \subseteq Messages
      /\ stream.step # "off" => stream.msg \in Messages
  BY DEF IInv, Types, Obligations
<1>1. UNCHANGED <<seen, pending, due, displaced, work, emit, lost>>
  BY DEF Reply, Suppress, ReportAnswered, Signal, DrainDone, tracker
<1>2. CASE Reply
  <2>0. rx.msg \in Messages /\ Kind[rx.msg] \in {"request", "status"} /\ stream' = stream
        /\ rx.step = "handle"
    BY <1>2 DEF Reply, IInv, Types
  <2>1. CASE SendAck(rx.msg) /\ rx' = [rx EXCEPT !.step = "discharge"]
    <3>1. rx' \in RxType /\ rx'.step = "discharge" /\ rx'.msg = rx.msg
      BY <1>0, <2>1, RxRecords DEF RxSteps
    <3>2. /\ peer' \in [Messages -> {"new", "waiting", "acked"}] /\ rx.msg \in acked'
          /\ acked \subseteq acked' /\ acked' \subseteq Messages
      BY <2>0, <2>1, AckTypes DEF IInv
    <3>3. OwnTurn'
      BY <1>1, <2>0, <3>1, <3>2 DEF OwnTurn, IInv
    <3> QED
      BY <1>0, <1>1, <2>0, <3>1, <3>2, <3>3, RxMoves
  <2>2. CASE rx' = IdleRx /\ UNCHANGED <<peer, acked>>
    <3>1. OwnTurn' /\ rx' \in RxType /\ rx'.step = "idle"
      BY <2>2, RxRecords DEF OwnTurn
    <3> QED
      BY <1>0, <1>1, <2>0, <2>2, <3>1, RxMoves
  <2> QED
    BY <1>2, <2>1, <2>2 DEF Reply
<1>3. CASE Suppress
  <2>1. rx' \in RxType /\ rx'.step = "discharge" /\ rx'.msg = rx.msg
    BY <1>0, <1>3, RxRecords DEF RxSteps, Suppress
  <2>2. UNCHANGED <<peer, acked, stream>> /\ Kind[rx.msg] = "suppressed" /\ rx.step = "handle"
    BY <1>3 DEF Suppress
  <2>3. OwnTurn'
    BY <1>1, <2>1, <2>2 DEF OwnTurn, IInv
  <2> QED
    BY <1>0, <1>1, <2>1, <2>2, <2>3, RxMoves
<1>4. CASE ReportAnswered
  <2>1. rx' \in RxType /\ rx'.step = "expedite" /\ rx'.msg = rx.msg
    BY <1>0, <1>4, RxRecords DEF RxSteps, ReportAnswered
  <2>2. UNCHANGED <<peer, acked, stream>> /\ rx.step = "handle"
    BY <1>4 DEF ReportAnswered
  <2>3. OwnTurn'
    BY <2>1 DEF OwnTurn
  <2> QED
    BY <1>0, <1>1, <2>1, <2>2, <2>3, RxMoves
<1>5. CASE Signal
  <2>1. rx' \in RxType /\ rx'.step = "idle" /\ OwnTurn'
    BY <1>5, RxRecords DEF Signal, OwnTurn
  <2>2. UNCHANGED <<peer, acked>> /\ rx.step = "handle"
    BY <1>5 DEF Signal
  <2>3. stream' \in StreamType /\ stream'.step = stream.step /\ stream'.msg = stream.msg
        /\ stream'.ctr = stream.ctr
    <3>1. stream \in StreamType
      BY <1>0
    <3>2. CASE stream' = [stream EXCEPT !.answer = "success"]
      BY <3>1, <3>2 DEF StreamType
    <3>3. CASE stream' = [stream EXCEPT !.answer = "failure"]
      BY <3>1, <3>3 DEF StreamType
    <3> QED
      BY <1>5, <3>2, <3>3 DEF Signal
  <2> QED
    BY <1>0, <1>1, <2>1, <2>2, <2>3, RxMoves
<1>6. CASE DrainDone
  <2>1. rx' \in RxType /\ rx'.step = "idle" /\ OwnTurn'
    BY <1>6, RxRecords DEF DrainDone, OwnTurn
  <2>2. UNCHANGED <<peer, acked, stream>> /\ rx.step = "emit"
        /\ work["rx"] = {} /\ emit["rx"] = IdleEmit
    BY <1>6 DEF DrainDone
  <2> QED
    BY <1>0, <1>1, <2>1, <2>2, RxMoves
<1> QED
  BY <1>2, <1>3, <1>4, <1>5, <1>6

\* Due moves obligations to an emitter that has none in hand.
LEMMA DueStep ==
    ASSUME IInv, NEW a \in Emitters, Due(a), work[a] = {}, emit' = emit, stream' = stream,
           UNCHANGED <<peer, seen, acked, lost>>,
           rx' = rx \/ (rx.step = "drain" /\ rx' = [rx EXCEPT !.step = "emit"]),
           a = "rx" => rx.step = "drain" /\ rx' = [rx EXCEPT !.step = "emit"]
    PROVE  IInv'
<1>0. /\ pending \in [Exchanges -> SomeMessage] /\ due \subseteq Exchanges /\ displaced \subseteq Messages
      /\ \A x \in Exchanges : pending[x] # None => ExchangeOf[pending[x]] = x
      /\ \A x \in due : pending[x] \in Messages
      /\ work \in [Emitters -> SUBSET Messages]
  BY DEF IInv, Obligations, Types, SomeMessage
<1>1. /\ work' = [work EXCEPT ![a] = displaced \cup {pending[x] : x \in due}]
      /\ pending' = [x \in Exchanges |-> IF x \in due THEN None ELSE pending[x]]
      /\ due' = {} /\ displaced' = {}
  BY DEF Due
<1>2. rx' \in RxType /\ rx'.msg = rx.msg /\ (rx'.step = rx.step \/ (rx.step = "drain" /\ rx'.step = "emit"))
  <2>0. rx \in RxType
    BY DEF IInv, Types
  <2>1. CASE rx' = rx
    BY <2>0, <2>1
  <2>2. CASE rx.step = "drain" /\ rx' = [rx EXCEPT !.step = "emit"]
    BY <2>0, <2>2, RxRecords DEF RxSteps
  <2> QED
    BY <2>1, <2>2
<1>3. /\ work' \in [Emitters -> SUBSET Messages]
      /\ work'[a] = displaced \cup {pending[x] : x \in due}
      /\ \A b \in Emitters \ {a} : work'[b] = work[b]
  BY <1>0, <1>1
<1>4. Types'
  BY <1>2, <1>3 DEF IInv, Types
<1>5. Obligations'
  BY <1>0, <1>1 DEF Obligations, SomeMessage
<1>6. Drained'
  <2>1. CASE a = "rx"
    <3>1. rx' = [rx EXCEPT !.step = "emit"] /\ rx \in RxType
      BY <2>1 DEF IInv, Types
    <3>2. rx'.step = "emit"
      BY <3>1, RxRecords DEF RxSteps
    <3> QED
      BY <3>2 DEF Drained
  <2>2. CASE a # "rx"
    <3>1. work'["rx"] = work["rx"]
      BY <1>3, <2>2 DEF Emitters
    <3> QED
      BY <1>2, <3>1 DEF IInv, Drained
  <2> QED
    BY <2>1, <2>2
<1>7. OwnTurn'
  <2>1. rx'.step \in {"handle", "discharge"} => rx.step = rx'.step /\ rx.msg \in Messages
    BY <1>2 DEF IInv, Types
  <2>2. rx.msg \in Messages => ExchangeOf[rx.msg] \in Exchanges
    BY AckAssumption
  <2> QED
    BY <1>0, <1>1, <1>2, <2>1, <2>2 DEF IInv, OwnTurn
<1>8. RepliesCancelTheirOwn'
  BY DEF IInv, RepliesCancelTheirOwn, LostFor
<1>9. AckedOrOwed'
  <2>1. ASSUME NEW n \in seen, UnderWay(n) PROVE UnderWay(n)'
    <3>0. n \in Messages /\ ExchangeOf[n] \in Exchanges
      BY AckAssumption DEF IInv, Types
    <3>1. CASE pending[ExchangeOf[n]] = n
      BY <1>1, <1>3, <3>0, <3>1 DEF UnderWay
    <3>2. CASE n \in displaced
      BY <1>3, <3>2 DEF UnderWay
    <3>3. CASE \E b \in Emitters : n \in work[b] \/ emit[b].msg = n
      BY <1>3, <3>3 DEF UnderWay
    <3>4. CASE (rx.msg = n /\ rx.step = "owe") \/ (stream.ctr = n /\ stream.step = "send")
      BY <1>2, <3>4 DEF UnderWay
    <3> QED
      BY <2>1, <3>1, <3>2, <3>3, <3>4 DEF UnderWay
  <2> QED
    BY <2>1, StillOwed DEF IInv
<1> QED
  BY <1>4, <1>5, <1>6, <1>7, <1>8, <1>9 DEF IInv

\* The pump's tick, and the drain of the receive path.
LEMMA DrainStep == ASSUME IInv, RunAckPumpOnce \/ PumpTick PROVE IInv'
<1>1. CASE RunAckPumpOnce
  <2>1. work["rx"] = {} /\ rx.step = "drain" /\ "rx" \in Emitters
    BY <1>1 DEF RunAckPumpOnce, IInv, Drained, Emitters
  <2> QED
    BY <1>1, <2>1, DueStep DEF RunAckPumpOnce
<1>2. CASE PumpTick
  <2>1. "pump" \in Emitters /\ "pump" # "rx"
    BY DEF Emitters
  <2> QED
    BY <1>2, <2>1, DueStep DEF PumpTick
<1> QED
  BY <1>1, <1>2

\* What Discharge leaves of the obligations.
LEMMA DischargeLeaves ==
    ASSUME IInv, NEW x \in Exchanges, Discharge(x)
    PROVE  /\ Obligations' /\ displaced' = displaced /\ pending'[x] = None
           /\ \A y \in Exchanges \ {x} : pending'[y] = pending[y]
           /\ \A m \in Messages : pending[ExchangeOf[m]] = m /\ ExchangeOf[m] # x =>
                                     pending'[ExchangeOf[m]] = m
<1>0. /\ pending \in [Exchanges -> SomeMessage] /\ due \subseteq Exchanges /\ displaced \subseteq Messages
      /\ \A y \in Exchanges : pending[y] # None => ExchangeOf[pending[y]] = y
      /\ \A y \in due : pending[y] # None
  BY DEF IInv, Obligations
<1>1. pending' = [pending EXCEPT ![x] = None] /\ due' = due \ {x} /\ displaced' = displaced
  BY DEF Discharge
<1>2. \A m \in Messages : ExchangeOf[m] \in Exchanges
  BY AckAssumption
<1>3. pending'[x] = None /\ \A y \in Exchanges \ {x} : pending'[y] = pending[y]
  BY <1>0, <1>1
<1>4. Obligations'
  BY <1>0, <1>1 DEF Obligations, SomeMessage
<1> QED
  BY <1>1, <1>2, <1>3, <1>4

\* The receive path discharges: what it cancels besides its own message it records.
LEMMA DischargeRepliedStep == ASSUME IInv, DischargeReplied PROVE IInv'
<1> DEFINE x == ExchangeOf[rx.msg]
<1>0. /\ rx \in RxType /\ rx.msg \in Messages /\ x \in Exchanges /\ rx.step = "discharge"
      /\ pending[x] \in {None, rx.msg} /\ None \notin Messages
      /\ \/ Kind[rx.msg] = "suppressed"
         \/ Kind[rx.msg] \in {"request", "status"} /\ rx.msg \in acked
  BY AckAssumption DEF IInv, Types, OwnTurn, DischargeReplied
<1>1. /\ UNCHANGED <<peer, seen, stream, work, emit, acked>>
      /\ lost' = lost \cup {<<m, Kind[rx.msg]>> : m \in Unowed(x)}
  BY DEF DischargeReplied
<1>2. rx' \in RxType /\ rx'.step = "unroute" /\ rx'.msg = rx.msg
  BY <1>0, RxRecords DEF DischargeReplied, RxSteps
<1>3. /\ Obligations' /\ displaced' = displaced
      /\ \A m \in Messages : pending[ExchangeOf[m]] = m /\ ExchangeOf[m] # x =>
                                pending'[ExchangeOf[m]] = m
  BY <1>0, DischargeLeaves DEF DischargeReplied
<1>4. Types' /\ Drained' /\ OwnTurn'
  BY <1>0, <1>1, <1>2 DEF IInv, Types, Drained, OwnTurn
<1>5. RepliesCancelTheirOwn'
  <2>1. Kind[rx.msg] = "suppressed" \/ Unowed(x) = {}
    BY <1>0 DEF Unowed
  <2>2. \A m : <<m, "request">> \in lost' => <<m, "request">> \in lost
    BY <1>1, <2>1
  <2>3. \A m : <<m, "status">> \in lost' => <<m, "status">> \in lost
    BY <1>1, <2>1
  <2> QED
    BY <2>2, <2>3 DEF IInv, RepliesCancelTheirOwn, LostFor
<1>6. AckedOrOwed'
  <2>1. ASSUME NEW n \in seen, UnderWay(n) PROVE UnderWay(n)' \/ Settled(n)'
    <3>0. n \in Messages
      BY DEF IInv, Types
    <3>1. CASE pending[ExchangeOf[n]] = n /\ ExchangeOf[n] # x
      BY <1>3, <3>0, <3>1 DEF UnderWay
    <3>2. CASE pending[ExchangeOf[n]] = n /\ ExchangeOf[n] = x
      <4>1. n = rx.msg
        BY <1>0, <3>0, <3>2
      <4>2. CASE n \in acked
        BY <1>1, <4>2 DEF Settled
      <4>3. CASE n \notin acked
        <5>1. Kind[rx.msg] = "suppressed" /\ n \in Unowed(x)
          BY <1>0, <3>0, <3>2, <4>1, <4>3 DEF Unowed
        <5>2. <<n, "suppressed">> \in lost'
          BY <1>1, <5>1
        <5> QED
          BY <3>0, <5>2 DEF Settled, Reasons
      <4> QED
        BY <4>2, <4>3
    <3>3. CASE pending[ExchangeOf[n]] # n
      BY <1>0, <1>1, <1>2, <1>3, <2>1, <3>3 DEF UnderWay
    <3> QED
      BY <3>1, <3>2, <3>3
  <2> QED
    BY <1>1, <2>1, StillOwed DEF IInv
<1> QED
  BY <1>3, <1>4, <1>5, <1>6 DEF IInv

\* The route goes, and the message is done with.
LEMMA UnrouteStep == ASSUME IInv, Unroute PROVE IInv'
<1>1. /\ UNCHANGED <<peer, seen, pending, due, displaced, stream, work, emit, acked, lost>>
      /\ rx.step = "unroute" /\ rx' = IdleRx
  BY DEF Unroute, tracker
<1>2. rx' \in RxType /\ rx'.step = "idle" /\ OwnTurn'
  BY <1>1, RxRecords DEF OwnTurn
<1> QED
  BY <1>1, <1>2, RxMoves DEF IInv, Types, Obligations

\* A chunked answer starts; a Subscribe's has left the turn already.
LEMMA StartStreamStep == ASSUME IInv, StartStream PROVE IInv'
<1>0. /\ rx \in RxType /\ rx.msg \in Messages /\ rx.step = "handle"
      /\ stream.step = "off" /\ NoStream \in StreamType
  BY StreamRecords DEF IInv, Types, StartStream
<1>1. UNCHANGED <<peer, seen, pending, due, displaced, work, emit, acked, lost>>
  BY DEF StartStream, tracker
<1>2. stream = NoStream /\ stream' \in StreamType /\ stream'.step = "arm" /\ stream'.msg = rx.msg
      /\ stream'.ctr = stream.ctr
  <2>1. PICK op \in {"read", "subscribe"} :
            stream' = [NoStream EXCEPT !.step = "arm", !.op = op, !.msg = rx.msg, !.part = 1]
    BY DEF StartStream
  <2>2. stream' = [step |-> "arm", op |-> op, msg |-> rx.msg, ctr |-> None, part |-> 1, answer |-> "no"]
    BY <2>1 DEF NoStream
  <2>3. stream' \in StreamType
    BY <1>0, <2>2 DEF StreamType, StreamSteps, SomeMessage
  <2> QED
    BY <2>2, <2>3 DEF StartStream, NoStream
<1>3. rx' \in RxType /\ rx'.step \in {"stream", "idle"} /\ (rx'.step # "idle" => rx'.msg = rx.msg)
  <2>1. rx' = IdleRx \/ rx' = [rx EXCEPT !.step = "stream"]
    BY DEF StartStream
  <2>2. CASE rx' = IdleRx
    BY <2>2, RxRecords
  <2>3. CASE rx' = [rx EXCEPT !.step = "stream"]
    BY <1>0, <2>3, RxRecords DEF RxSteps
  <2> QED
    BY <2>1, <2>2, <2>3
<1>4. OwnTurn'
  BY <1>3 DEF OwnTurn
<1> QED
  BY <1>0, <1>1, <1>2, <1>3, <1>4, RxMoves DEF IInv, Types, Obligations

-----------------------------------------------------------------------------
\* The chunked answer.

\* The turn of a Read ends when its first part is out.
LEMMA LeaveTurnTypes ==
    ASSUME IInv, LeaveTurn
    PROVE  /\ rx' \in RxType /\ (rx'.step # "idle" => rx'.msg \in Messages)
           /\ rx' = rx \/ (rx'.step = "idle" /\ rx.step = "stream")
<1>1. CASE rx.step = "stream"
  BY <1>1, RxRecords DEF LeaveTurn
<1>2. CASE rx.step # "stream"
  BY <1>2 DEF LeaveTurn, IInv, Types
<1> QED
  BY <1>1, <1>2

\* A step of the stream that leaves the obligations alone: if it held one, it is settled.
LEMMA StreamMoves ==
    ASSUME IInv, stream' \in StreamType, stream'.step # "off" => stream'.msg \in Messages,
           stream'.step # "send",
           rx' \in RxType, rx'.step # "idle" => rx'.msg \in Messages,
           rx' = rx \/ (rx'.step = "idle" /\ rx.step = "stream"),
           peer' \in [Messages -> {"new", "waiting", "acked"}],
           acked \subseteq acked', acked' \subseteq Messages, lost \subseteq lost',
           RepliesCancelTheirOwn',
           \A n \in Messages : stream.step = "send" /\ stream.ctr = n => Settled(n)',
           UNCHANGED <<seen, pending, due, displaced, work, emit>>
    PROVE  IInv'
<1>1. Types'
  BY DEF IInv, Types
<1>2. Obligations' /\ Drained'
  BY DEF IInv, Obligations, Drained
<1>3. OwnTurn'
  BY DEF IInv, OwnTurn
<1>4. AckedOrOwed'
  <2>1. seen \subseteq Messages
    BY DEF IInv, Types
  <2>2. \A n \in seen : UnderWay(n) => UnderWay(n)' \/ Settled(n)'
    BY <2>1 DEF UnderWay
  <2> QED
    BY <2>2, StillOwed DEF IInv
<1> QED
  BY <1>1, <1>2, <1>3, <1>4 DEF IInv

\* Arming, waiting and the end of the route.
LEMMA WaitStep ==
    ASSUME IInv, ArmStatusResponseWait \/ AwaitAnswered \/ AwaitTimesOut \/ UnrouteStreamed
    PROVE  IInv'
<1>0. stream \in StreamType /\ (stream.step # "off" => stream.msg \in Messages)
      /\ stream.step # "send" /\ stream.step # "off"
  BY DEF IInv, Types, ArmStatusResponseWait, AwaitAnswered, AwaitTimesOut, UnrouteStreamed
<1>1. UNCHANGED <<peer, seen, pending, due, displaced, rx, work, emit, acked, lost>>
  BY DEF ArmStatusResponseWait, AwaitAnswered, AwaitTimesOut, UnrouteStreamed, tracker
<1>2. \/ stream' = NoStream \/ stream' = [stream EXCEPT !.step = "refresh", !.answer = "armed"]
      \/ stream' = [stream EXCEPT !.step = "refresh", !.part = 2, !.answer = "no"]
  BY DEF ArmStatusResponseWait, AwaitAnswered, AwaitTimesOut, UnrouteStreamed
<1>3. stream' \in StreamType /\ stream'.step \in {"off", "refresh"}
      /\ (stream'.step # "off" => stream'.msg = stream.msg)
  <2>1. CASE stream' = NoStream
    BY <2>1, StreamRecords
  <2>2. CASE stream' = [stream EXCEPT !.step = "refresh", !.answer = "armed"]
    BY <1>0, <2>2 DEF StreamType, StreamSteps
  <2>3. CASE stream' = [stream EXCEPT !.step = "refresh", !.part = 2, !.answer = "no"]
    <3>1. 2 \in 0 .. 2 /\ "refresh" \in StreamSteps
      BY DEF StreamSteps
    <3> QED
      BY <1>0, <2>3, <3>1 DEF StreamType
  <2> QED
    BY <1>2, <2>1, <2>2, <2>3
<1>4. RepliesCancelTheirOwn'
  BY <1>1 DEF IInv, RepliesCancelTheirOwn, LostFor
<1> QED
  BY <1>0, <1>1, <1>3, <1>4, StreamMoves DEF IInv, Types

\* A part leaves with the acknowledgement it took, or fails and the loss is recorded.
LEMMA PartStep == ASSUME IInv, SendPart \/ SendPartFails PROVE IInv'
<1>0. /\ stream \in StreamType /\ stream.step = "send" /\ stream.ctr \in Messages
      /\ stream.msg \in Messages
  BY DEF IInv, Types, SendPart, SendPartFails
<1>1. UNCHANGED <<seen, pending, due, displaced, work, emit>> /\ LeaveTurn
  BY DEF SendPart, SendPartFails, tracker
<1>2. stream' \in StreamType /\ stream'.step # "send" /\ (stream'.step # "off" => stream'.msg \in Messages)
  <2>1. \/ stream' = NoStream \/ stream' = [stream EXCEPT !.step = "await"]
        \/ stream' = [stream EXCEPT !.step = "discharge"]
    BY DEF SendPart, SendPartFails
  <2>2. CASE stream' = NoStream
    BY <2>2, StreamRecords
  <2>3. CASE stream' = [stream EXCEPT !.step = "await"]
    BY <1>0, <2>3, StreamRecords DEF StreamSteps
  <2>4. CASE stream' = [stream EXCEPT !.step = "discharge"]
    BY <1>0, <2>4, StreamRecords DEF StreamSteps
  <2> QED
    BY <2>1, <2>2, <2>3, <2>4
<1>3. CASE SendPart
  <2>1. /\ peer' \in [Messages -> {"new", "waiting", "acked"}] /\ lost' = lost
        /\ acked' = acked \cup {stream.ctr} /\ acked' \subseteq Messages
    BY <1>0, <1>3, AckTypes DEF SendPart, IInv
  <2>2. RepliesCancelTheirOwn'
    BY <2>1 DEF IInv, RepliesCancelTheirOwn, LostFor
  <2>3. \A n \in Messages : stream.step = "send" /\ stream.ctr = n => Settled(n)'
    BY <2>1 DEF Settled
  <2> QED
    BY <1>0, <1>1, <1>2, <2>1, <2>2, <2>3, LeaveTurnTypes, StreamMoves
<1>4. CASE SendPartFails
  <2>0. PICK m \in Messages : stream.ctr = m
    BY <1>0
  <2>1. peer' = peer /\ acked' = acked /\ LoseAck(m, "unsent")
    BY <1>4, <2>0 DEF SendPartFails, LoseAck, Settled
  <2>2. lost \subseteq lost' /\ RepliesCancelTheirOwn' /\ Settled(m)'
    BY <2>1, LossRecorded DEF Reasons
  <2>3. \A n \in Messages : stream.step = "send" /\ stream.ctr = n => Settled(n)'
    BY <2>0, <2>2
  <2> QED
    BY <1>0, <1>1, <1>2, <2>1, <2>2, <2>3, LeaveTurnTypes, StreamMoves DEF IInv, Types
<1> QED
  BY <1>3, <1>4

\* LookupAndDischarge: the obligation moves into the next part.
LEMMA RefreshStep == ASSUME IInv, Refresh PROVE IInv'
<1> DEFINE x == ExchangeOf[stream.msg]
           c == IF pending[x] = None THEN stream.msg ELSE pending[x]
<1>0. /\ stream \in StreamType /\ stream.step = "refresh" /\ stream.msg \in Messages /\ x \in Exchanges
      /\ pending \in [Exchanges -> SomeMessage]
  BY AckAssumption DEF IInv, Types, Refresh, Obligations
<1>1. UNCHANGED <<peer, seen, rx, work, emit, acked, lost>> /\ Discharge(x)
  BY DEF Refresh
<1>2. c \in Messages
  BY <1>0 DEF SomeMessage
<1>3. stream' = [stream EXCEPT !.step = "send", !.ctr = c]
  BY DEF Refresh
<1>4. pending[x] \in Messages => c = pending[x]
  BY AckAssumption
<1> HIDE DEF c
<1>5. stream' \in StreamType /\ stream'.step = "send" /\ stream'.msg = stream.msg /\ stream'.ctr = c
  BY <1>0, <1>2, <1>3 DEF StreamType, StreamSteps, SomeMessage
<1>6. /\ Obligations' /\ displaced' = displaced /\ pending'[x] = None
      /\ \A y \in Exchanges \ {x} : pending'[y] = pending[y]
      /\ \A m \in Messages : pending[ExchangeOf[m]] = m /\ ExchangeOf[m] # x =>
                                pending'[ExchangeOf[m]] = m
  BY <1>0, <1>1, DischargeLeaves
<1>7. Types'
  BY <1>0, <1>1, <1>2, <1>5 DEF IInv, Types
<1>8. Drained' /\ RepliesCancelTheirOwn'
  BY <1>1 DEF IInv, Drained, RepliesCancelTheirOwn, LostFor
<1>9. OwnTurn'
  <2>1. rx.step \in {"handle", "discharge"} => ExchangeOf[rx.msg] \in Exchanges
    BY AckAssumption DEF IInv, Types
  <2> QED
    BY <1>1, <1>6, <2>1 DEF IInv, OwnTurn
<1>10. AckedOrOwed'
  <2>1. ASSUME NEW n \in seen, UnderWay(n) PROVE UnderWay(n)'
    <3>0. n \in Messages
      BY DEF IInv, Types
    <3>1. CASE pending[ExchangeOf[n]] = n /\ ExchangeOf[n] # x
      BY <1>6, <3>0, <3>1 DEF UnderWay
    <3>2. CASE pending[ExchangeOf[n]] = n /\ ExchangeOf[n] = x
      BY <1>4, <1>5, <3>0, <3>2 DEF UnderWay
    <3>3. CASE pending[ExchangeOf[n]] # n
      BY <1>0, <1>1, <1>6, <2>1, <3>3 DEF UnderWay
    <3> QED
      BY <3>1, <3>2, <3>3
  <2> QED
    BY <1>1, <2>1, StillOwed DEF IInv
<1> QED
  BY <1>6, <1>7, <1>8, <1>9, <1>10 DEF IInv

\* The end of a Read's answer cancels what came in meanwhile, and that is recorded.
LEMMA DischargeStreamedStep == ASSUME IInv, DischargeStreamed PROVE IInv'
<1> DEFINE x == ExchangeOf[stream.msg]
<1>0. /\ stream \in StreamType /\ stream.step = "discharge" /\ stream.msg \in Messages
      /\ x \in Exchanges /\ None \notin Messages
  BY AckAssumption DEF IInv, Types, DischargeStreamed
<1>1. /\ UNCHANGED <<peer, seen, rx, work, emit, acked>> /\ Discharge(x)
      /\ lost' = lost \cup {<<m, "chunked">> : m \in Unowed(x)}
  BY DEF DischargeStreamed
<1>2. stream' \in StreamType /\ stream'.step = "unroute" /\ stream'.msg = stream.msg
  BY <1>0, StreamRecords DEF DischargeStreamed, StreamSteps
<1>3. /\ Obligations' /\ displaced' = displaced /\ pending'[x] = None
      /\ \A y \in Exchanges \ {x} : pending'[y] = pending[y]
      /\ \A m \in Messages : pending[ExchangeOf[m]] = m /\ ExchangeOf[m] # x =>
                                pending'[ExchangeOf[m]] = m
  BY <1>0, <1>1, DischargeLeaves
<1>4. Types'
  BY <1>0, <1>1, <1>2 DEF IInv, Types
<1>5. Drained' /\ RepliesCancelTheirOwn'
  BY <1>1 DEF IInv, Drained, RepliesCancelTheirOwn, LostFor
<1>6. OwnTurn'
  <2>1. rx.step \in {"handle", "discharge"} => ExchangeOf[rx.msg] \in Exchanges
    BY AckAssumption DEF IInv, Types
  <2> QED
    BY <1>1, <1>3, <2>1 DEF IInv, OwnTurn
<1>7. AckedOrOwed'
  <2>1. ASSUME NEW n \in seen, UnderWay(n) PROVE UnderWay(n)' \/ Settled(n)'
    <3>0. n \in Messages
      BY DEF IInv, Types
    <3>1. CASE pending[ExchangeOf[n]] = n /\ ExchangeOf[n] # x
      BY <1>3, <3>0, <3>1 DEF UnderWay
    <3>2. CASE pending[ExchangeOf[n]] = n /\ ExchangeOf[n] = x
      <4>1. n \in acked' \/ <<n, "chunked">> \in lost'
        BY <1>0, <1>1, <3>0, <3>2 DEF Unowed
      <4> QED
        BY <3>0, <4>1 DEF Settled, Reasons
    <3>3. CASE pending[ExchangeOf[n]] # n
      BY <1>0, <1>1, <1>3, <2>1, <3>3 DEF UnderWay
    <3> QED
      BY <3>1, <3>2, <3>3
  <2> QED
    BY <1>1, <2>1, StillOwed DEF IInv
<1> QED
  BY <1>3, <1>4, <1>5, <1>6, <1>7 DEF IInv

-----------------------------------------------------------------------------
\* The emitters.

\* A step of emitter a that takes m out of its hands, or keeps what it has.
LEMMA EmitMoves ==
    ASSUME IInv, NEW a \in Emitters, NEW w \in SUBSET work[a], NEW r \in EmitType,
           work' = [work EXCEPT ![a] = w], emit' = [emit EXCEPT ![a] = r],
           r.step = "idle" <=> r.msg = None,
           emit[a] # IdleEmit \/ work[a] # {},
           peer' \in [Messages -> {"new", "waiting", "acked"}],
           acked \subseteq acked', acked' \subseteq Messages, lost \subseteq lost',
           RepliesCancelTheirOwn',
           \A n \in Messages : n \in work[a] \/ emit[a].msg = n =>
                                  n \in w \/ r.msg = n \/ Settled(n)',
           UNCHANGED <<seen, pending, due, displaced, rx, stream>>
    PROVE  IInv'
<1>0. work \in [Emitters -> SUBSET Messages] /\ emit \in [Emitters -> EmitType] /\ seen \subseteq Messages
  BY DEF IInv, Types
<1>1. /\ work'[a] = w /\ emit'[a] = r
      /\ \A b \in Emitters \ {a} : work'[b] = work[b] /\ emit'[b] = emit[b]
      /\ work' \in [Emitters -> SUBSET Messages] /\ emit' \in [Emitters -> EmitType]
  BY <1>0
<1>2. Types'
  BY <1>1 DEF IInv, Types
<1>3. Obligations' /\ OwnTurn'
  BY DEF IInv, Obligations, OwnTurn
<1>4. Drained'
  <2>1. CASE a = "rx"
    BY <2>1 DEF IInv, Drained
  <2>2. CASE a # "rx"
    BY <1>1, <2>2 DEF IInv, Drained, Emitters
  <2> QED
    BY <2>1, <2>2
<1>5. AckedOrOwed'
  <2>1. ASSUME NEW n \in seen, UnderWay(n) PROVE UnderWay(n)' \/ Settled(n)'
    <3>0. n \in Messages
      BY <1>0
    <3>1. CASE n \in work[a] \/ emit[a].msg = n
      BY <1>1, <3>0, <3>1 DEF UnderWay
    <3>2. CASE ~(n \in work[a] \/ emit[a].msg = n)
      BY <1>1, <2>1, <3>2 DEF UnderWay
    <3> QED
      BY <3>1, <3>2
  <2> QED
    BY <2>1, StillOwed DEF IInv
<1> QED
  BY <1>2, <1>3, <1>4, <1>5 DEF IInv

\* The next obligation in hand goes on if there is a route, and is recorded if not.
LEMMA LoadRouteStep ==
    ASSUME IInv, NEW a \in Emitters, NEW m \in Messages, LoadRoute(a, m) PROVE IInv'
<1>0. /\ work \in [Emitters -> SUBSET Messages] /\ emit \in [Emitters -> EmitType]
      /\ peer \in [Messages -> {"new", "waiting", "acked"}] /\ acked \subseteq Messages
      /\ emit[a] = IdleEmit /\ m \in work[a] /\ m # None
  BY NoneIsNone DEF IInv, Types, LoadRoute
<1>1. /\ work' = [work EXCEPT ![a] = work[a] \ {m}]
      /\ UNCHANGED <<peer, seen, pending, due, displaced, rx, stream, acked>>
  BY DEF LoadRoute, tracker
<1>2. emit[a].msg = None
  BY <1>0, EmitRecords
<1>3. CASE emit' = [emit EXCEPT ![a] = [step |-> "owes", msg |-> m]] /\ UNCHANGED lost
  <2> DEFINE r == [step |-> "owes", msg |-> m]
  <2>1. r \in EmitType /\ r.step = "owes" /\ r.msg = m
    BY DEF EmitType, SomeMessage
  <2>2. emit' = [emit EXCEPT ![a] = r]
    BY <1>3
  <2> HIDE DEF r
  <2>3. RepliesCancelTheirOwn'
    BY <1>3 DEF IInv, RepliesCancelTheirOwn, LostFor
  <2>4. \A n \in Messages : n \in work[a] \/ emit[a].msg = n => n \in work[a] \ {m} \/ r.msg = n
    BY <1>2, <2>1, NoneIsNone
  <2> QED
    BY <1>0, <1>1, <1>3, <2>1, <2>2, <2>3, <2>4, EmitMoves
<1>4. CASE LoseAck(m, "unrouted") /\ UNCHANGED emit
  <2>1. emit' = [emit EXCEPT ![a] = IdleEmit]
    BY <1>0, <1>4
  <2>2. lost \subseteq lost' /\ RepliesCancelTheirOwn' /\ Settled(m)'
    BY <1>1, <1>4, LossRecorded DEF Reasons
  <2>4. \A n \in Messages : n \in work[a] \/ emit[a].msg = n => n \in work[a] \ {m} \/ Settled(n)'
    BY <1>2, <2>2, NoneIsNone
  <2>5. IdleEmit \in EmitType /\ (IdleEmit.step = "idle" <=> IdleEmit.msg = None)
    BY EmitRecords
  <2>6. work[a] \ {m} \in SUBSET work[a] /\ work[a] # {} /\ acked \subseteq acked' /\ acked' \subseteq Messages
    BY <1>0, <1>1
  <2> QED
    BY <1>0, <1>1, <2>1, <2>2, <2>4, <2>5, <2>6, EmitMoves
<1> QED
  BY <1>3, <1>4 DEF LoadRoute

\* It asks whether the route is still needed, deletes it if not, and sends or gives up.
LEMMA EmitStep ==
    ASSUME IInv, NEW a \in Emitters,
           AskOwes(a) \/ DeleteRoute(a) \/ EmitAck(a) \/ EmitAckFails(a)
    PROVE  IInv'
<1>0. /\ work \in [Emitters -> SUBSET Messages] /\ emit \in [Emitters -> EmitType]
      /\ peer \in [Messages -> {"new", "waiting", "acked"}] /\ acked \subseteq Messages
      /\ emit[a].step # "idle" /\ emit[a].msg # None /\ emit[a] \in EmitType
  BY DEF IInv, Types, AskOwes, DeleteRoute, EmitAck, EmitAckFails
<1>1. /\ UNCHANGED <<seen, pending, due, displaced, rx, stream, work>>
      /\ work' = [work EXCEPT ![a] = work[a]]
  BY <1>0 DEF AskOwes, DeleteRoute, EmitAck, EmitAckFails, tracker
<1>2. emit[a] # IdleEmit /\ emit[a].msg \in Messages
  BY <1>0, EmitRecords DEF EmitType, SomeMessage
<1>3. ASSUME UNCHANGED lost PROVE RepliesCancelTheirOwn'
  BY <1>3 DEF IInv, RepliesCancelTheirOwn, LostFor
<1>4. CASE AskOwes(a) \/ DeleteRoute(a)
  <2>1. PICK s \in {"delete", "send"} : emit' = [emit EXCEPT ![a] = [emit[a] EXCEPT !.step = s]]
    BY <1>4 DEF AskOwes, DeleteRoute
  <2> DEFINE r == [emit[a] EXCEPT !.step = s]
  <2>2. r \in EmitType /\ r.step # "idle" /\ r.msg = emit[a].msg
    <3>1. s \in {"idle", "owes", "delete", "send"} /\ s # "idle"
      OBVIOUS
    <3>2. \A e \in EmitType : /\ [e EXCEPT !.step = s] \in EmitType /\ [e EXCEPT !.step = s].step = s
                              /\ [e EXCEPT !.step = s].msg = e.msg
      BY <3>1, EmitRecords
    <3> QED
      BY <1>0, <3>1, <3>2
  <2>3. emit' = [emit EXCEPT ![a] = r] /\ UNCHANGED <<peer, acked, lost>>
    BY <1>4, <2>1 DEF AskOwes, DeleteRoute
  <2> HIDE DEF r
  <2>4. r.step = "idle" <=> r.msg = None
    BY <1>0, <2>2
  <2>5. \A n \in Messages : n \in work[a] \/ emit[a].msg = n => n \in work[a] \/ r.msg = n \/ Settled(n)'
    BY <2>2
  <2>6. /\ acked \subseteq acked' /\ acked' \subseteq Messages /\ lost \subseteq lost'
        /\ peer' \in [Messages -> {"new", "waiting", "acked"}] /\ work[a] \in SUBSET work[a]
    BY <1>0, <2>3
  <2> QED
    BY <1>1, <1>2, <1>3, <2>2, <2>3, <2>4, <2>5, <2>6, EmitMoves
<1>5. CASE EmitAck(a)
  <2>1. /\ peer' \in [Messages -> {"new", "waiting", "acked"}]
        /\ acked' = acked \cup {emit[a].msg} /\ acked' \subseteq Messages
    BY <1>2, <1>5, AckTypes DEF EmitAck, IInv
  <2>2. emit' = [emit EXCEPT ![a] = IdleEmit] /\ UNCHANGED lost
    BY <1>5 DEF EmitAck
  <2>3. \A n \in Messages : n \in work[a] \/ emit[a].msg = n => n \in work[a] \/ Settled(n)'
    BY <2>1 DEF Settled
  <2> QED
    BY <1>0, <1>1, <1>2, <1>3, <2>1, <2>2, <2>3, EmitRecords, EmitMoves
<1>6. CASE EmitAckFails(a)
  <2>0. PICK m \in Messages : emit[a].msg = m
    BY <1>2
  <2>1. /\ peer' = peer /\ acked' = acked /\ emit' = [emit EXCEPT ![a] = IdleEmit]
        /\ LoseAck(m, "unemitted")
    BY <1>6, <2>0 DEF EmitAckFails, LoseAck, Settled
  <2>2. lost \subseteq lost' /\ RepliesCancelTheirOwn' /\ Settled(m)'
    BY <2>1, LossRecorded DEF Reasons
  <2>3. \A n \in Messages : n \in work[a] \/ emit[a].msg = n => n \in work[a] \/ Settled(n)'
    BY <2>0, <2>2
  <2>4. /\ acked \subseteq acked' /\ acked' \subseteq Messages /\ lost \subseteq lost'
        /\ peer' \in [Messages -> {"new", "waiting", "acked"}] /\ work[a] \in SUBSET work[a]
    BY <1>0, <2>1, <2>2
  <2> QED
    BY <1>0, <1>1, <1>2, <2>1, <2>2, <2>3, <2>4, EmitRecords, EmitMoves
<1> QED
  BY <1>4, <1>5, <1>6

-----------------------------------------------------------------------------

\* Nothing is owed at first.
LEMMA InitIInv == Init => IInv
<1> SUFFICES ASSUME Init PROVE IInv
  OBVIOUS
<1>1. Types
  BY RxRecords, StreamRecords, EmitRecords DEF Init, Types
<1>2. Obligations
  BY DEF Init, Obligations, SomeMessage
<1>3. Drained
  BY DEF Init, Drained, Emitters
<1>4. OwnTurn
  BY RxRecords DEF Init, OwnTurn
<1>5. AckedOrOwed /\ RepliesCancelTheirOwn
  BY DEF Init, AckedOrOwed, RepliesCancelTheirOwn, LostFor
<1> QED
  BY <1>1, <1>2, <1>3, <1>4, <1>5 DEF IInv

\* Every step keeps the obligations accounted for.
LEMMA StepIInv == IInv /\ [Next]_vars => IInv'
<1> SUFFICES ASSUME IInv, [Next]_vars PROVE IInv'
  OBVIOUS
<1>1. CASE UNCHANGED vars
  BY <1>1 DEF vars, IInv, Types, Obligations, Drained, OwnTurn, AckedOrOwed, UnderWay,
     RepliesCancelTheirOwn, LostFor, Settled
<1>2. CASE Receive
  BY <1>2, ArriveStep, OweStep, ExpediteStep, DrainStep, HandleStep, DischargeRepliedStep,
     UnrouteStep, StartStreamStep DEF Receive
<1>3. CASE Stream
  BY <1>3, WaitStep, RefreshStep, PartStep, DischargeStreamedStep DEF Stream
<1>4. CASE \E a \in Emitters : Emit(a)
  BY <1>4, LoadRouteStep, EmitStep DEF Emit
<1> QED
  BY <1>1, <1>2, <1>3, <1>4, OutsideStep, DrainStep DEF Next

\* The invariant holds throughout, whatever the fairness.
LEMMA IInvHolds == Spec => []IInv
  BY InitIInv, StepIInv, PTL DEF Spec

\* The acknowledgement of every reliable message that was accepted has left, is under way,
\* or was lost in one of the five places AckedOrOwed names: between owedInboundAck, the
\* AckTracker, the reply handlers, a stream and two emitters there is no sixth.
THEOREM AckedOrOwedHolds == Spec => []AckedOrOwed
<1>1. IInv => AckedOrOwed
  BY DEF IInv
<1> QED
  BY IInvHolds, <1>1, PTL

\* dischargeOwedAck names an exchange, not a message: after a reply it cancels nothing
\* but the obligation of the message that was replied to.
THEOREM RepliesCancelTheirOwnHolds == Spec => []RepliesCancelTheirOwn
<1>1. IInv => RepliesCancelTheirOwn
  BY DEF IInv
<1> QED
  BY IInvHolds, <1>1, PTL
=============================================================================
