-------------------------- MODULE OutboundReliable --------------------------
(***************************************************************************)
(* Reliable messages the bridge sends: outboundReliableTracker and its     *)
(* callers.                                                                *)
(*                                                                         *)
(* A message is tracked under (session, counter), then sent.  The peer's   *)
(* ack takes it out; a Tick of the ack pump sends it again when it is due  *)
(* and gives it up when its retransmissions are spent, which ends the      *)
(* subscription a report belongs to and, when nothing was heard on an      *)
(* exchange this node opened, every session of the peer.  Senders, the     *)
(* receive path and the pump's Ticks run beside each other; the tracker    *)
(* is locked per call and never while a datagram is sent.                  *)
(***************************************************************************)
EXTENDS FiniteSets, Naturals

CONSTANTS
    Messages,            \* reliable messages the bridge has to send
    Kind,                \* "report", "initiated" or "sigma2", per message
    Session,             \* its session; Unsecured (0) for a handshake's
    Counter,             \* its message counter, unique within a session only
    Exchange,            \* its exchange id, unique within a session only
    Owner,               \* the subscription of a report, None for the others
    Subs,                \* subscriptions
    SubSession,          \* the session of each subscription
    Sessions,            \* secure sessions
    Peer,                \* the peer of each session
    Unsecured, None,
    MaxRetransmissions,  \* mrp.MaxRetransmissions
    SendErrorRetryLimit, \* sendErrorRetryLimit
    MaxMessages          \* bound: messages sent in a behaviour

ASSUME OutboundAssumption ==
    /\ Kind \in [Messages -> {"report", "initiated", "sigma2"}]
    /\ Session \in [Messages -> Sessions \cup {Unsecured}] /\ Unsecured \notin Sessions
    /\ Owner \in [Messages -> Subs \cup {None}] /\ None \notin Messages \cup Subs
    /\ SubSession \in [Subs -> Sessions] /\ DOMAIN Peer = Sessions
    /\ \A m \in Messages : Kind[m] = "report" =>
          Owner[m] \in Subs /\ Session[m] = SubSession[Owner[m]]
    /\ \A m \in Messages : Kind[m] = "sigma2" <=> Session[m] = Unsecured
    /\ \A m, n \in Messages : Session[m] = Session[n] /\ Counter[m] = Counter[n] => m = n
    /\ MaxRetransmissions \in Nat /\ SendErrorRetryLimit \in Nat /\ MaxMessages \in Nat

\* Ticks that can overlap: the pump's own, and the one RunAckPumpOnce runs on the
\* receive path.
Ticks == {"pump", "rx"}

VARIABLES
    phase,      \* how far each message's sender is
    pending,    \* the tracker's pending entries
    retries,    \* outboundEntry.retries
    sent,       \* transmissions of each message that left
    acking,     \* per session, the acked message whose owner is yet to be released
    tick,       \* per Tick: entries to send again, results of given-up entries
    sending,    \* per Tick: the entry past its re-check
    owner,      \* messages in reportCounterOwner
    origin,     \* messages in reportExchangeOrigins
    latest,     \* subReportExchange: the last report of each subscription
    errors,     \* subSendErrorCount
    live,       \* subscriptions in the manager
    open,       \* sessions in the registry
    initiated,  \* messages whose exchange is still in resumption.initiated
    acked, lost, abandoned, failed   \* history: how each entry left the tracker

tables == <<owner, origin, latest, errors, live, open, initiated>>
history == <<acked, lost, abandoned, failed>>
vars == <<phase, pending, retries, sent, acking, tick, sending, tables, history>>

IdleTick == [todo |-> {}, spent |-> {}]
Key(m) == <<Session[m], Counter[m]>>

Init ==
    /\ phase = [m \in Messages |-> "new"]
    /\ pending = {} /\ retries = [m \in Messages |-> 0] /\ sent = [m \in Messages |-> 0]
    /\ acking = [s \in Sessions \cup {Unsecured} |-> None]
    /\ tick = [k \in Ticks |-> IdleTick] /\ sending = [k \in Ticks |-> None]
    /\ owner = {} /\ origin = {} /\ latest = [s \in Subs |-> None]
    /\ errors = [s \in Subs |-> 0] /\ live = Subs /\ open = Sessions
    /\ initiated = {m \in Messages : Kind[m] = "initiated"}
    /\ acked = {} /\ lost = {} /\ abandoned = {} /\ failed = {}

-----------------------------------------------------------------------------
(* Sending *)

\* A sender finds its session (and a report its route) and registers the message
\* before it sends it.
Track(m) ==
    /\ phase[m] = "new" /\ Cardinality({n \in Messages : phase[n] # "new"}) < MaxMessages
    /\ Session[m] \in open \cup {Unsecured}
    /\ Kind[m] = "report" => Owner[m] \in live
    /\ phase' = [phase EXCEPT ![m] = "tracked"]
    /\ pending' = pending \cup {m}
    /\ UNCHANGED <<retries, sent, acking, tick, sending, tables, history>>

Send(m) ==
    /\ phase[m] = "tracked"
    /\ \/ /\ sent' = [sent EXCEPT ![m] = @ + 1]
          /\ phase' = [phase EXCEPT ![m] = IF Kind[m] = "report" THEN "sent" ELSE "done"]
       \/ phase' = [phase EXCEPT ![m] = "unsent"] /\ UNCHANGED sent
    /\ UNCHANGED <<pending, retries, acking, tick, sending, tables, history>>

\* The subscriptions S are reaped: forgetReportExchange, Manager.Close and, for one
\* that was live, its observer releaseSubscriptionRouting.
CloseSubscriptions(S, owned) ==
    /\ live' = live \ S
    /\ owner' = {m \in owned : Owner[m] \notin S \cap live}
    /\ origin' = origin \ {latest[s] : s \in S}
    /\ latest' = [s \in Subs |-> IF s \in S THEN None ELSE latest[s]]

\* The send failed: Untrack, and for a report noteSubscriptionSendError.
Untrack(m) ==
    /\ phase[m] = "unsent"
    /\ phase' = [phase EXCEPT ![m] = "done"]
    /\ pending' = pending \ {m} /\ failed' = failed \cup {m}
    /\ LET s == Owner[m]
           counted == Kind[m] = "report" /\ s \in live
           reap == counted /\ errors[s] + 1 > SendErrorRetryLimit
       IN  /\ errors' = IF counted THEN [errors EXCEPT ![s] = IF reap THEN 0 ELSE @ + 1]
                                   ELSE errors
           /\ CloseSubscriptions(IF reap THEN {s} ELSE {}, owner)
    /\ UNCHANGED <<retries, sent, acking, tick, sending, open, initiated, acked, lost, abandoned>>

\* firstSent: the report's counter gets its subscription, its exchange its origin.
FirstSent(m) ==
    /\ phase[m] = "sent"
    /\ phase' = [phase EXCEPT ![m] = "owned"]
    /\ owner' = owner \cup {m} /\ origin' = origin \cup {m}
    /\ UNCHANGED <<pending, retries, sent, acking, tick, sending,
                   latest, errors, live, open, initiated, history>>

\* The end of reportSubscription: the counter is stored (again) and the report's
\* exchange takes the place of the previous one's.
ReportSent(m) ==
    /\ phase[m] = "owned"
    /\ phase' = [phase EXCEPT ![m] = "done"]
    /\ errors' = [errors EXCEPT ![Owner[m]] = 0]
    /\ owner' = owner \cup {m}
    /\ latest' = [latest EXCEPT ![Owner[m]] = m]
    /\ origin' = origin \ ({latest[Owner[m]]} \ {m})
    /\ UNCHANGED <<pending, retries, sent, acking, tick, sending, live, open, initiated, history>>

\* The caller of an exchange this node opened is done with it.
CloseExchange(m) ==
    /\ m \in initiated /\ phase[m] = "done"
    /\ initiated' = initiated \ {m}
    /\ UNCHANGED <<phase, pending, retries, sent, acking, tick, sending,
                   owner, origin, latest, errors, live, open, history>>

-----------------------------------------------------------------------------
(* The receive path *)

AckedEntriesOfAnySession(m) ==   \* mutant: the pending map is keyed on the counter alone
    {n \in pending : Counter[n] = Counter[m]}
AckedEntries(m) == {n \in pending : Key(n) = Key(m)}

\* An ack of m arrives, for any of its transmissions: early, late or duplicated.  Only
\* one that finds an entry goes on to releaseReportCounter.
Ack(m) ==
    /\ sent[m] > 0 /\ Session[m] \in open \cup {Unsecured}
    /\ acking[Session[m]] = None
    /\ AckedEntries(m) # {}
    /\ pending' = pending \ AckedEntries(m) /\ acked' = acked \cup AckedEntries(m)
    /\ acking' = [acking EXCEPT ![Session[m]] = m]
    /\ UNCHANGED <<phase, retries, sent, tick, sending, tables, lost, abandoned, failed>>

ReleaseReportCounter(s) ==
    /\ acking[s] # None
    /\ owner' = owner \ {acking[s]}
    /\ acking' = [acking EXCEPT ![s] = None]
    /\ UNCHANGED <<phase, pending, retries, sent, tick, sending,
                   origin, latest, errors, live, open, initiated, history>>

\* Sigma3 answers a Sigma2: AbandonExchange drops every entry with its exchange id.
AbandonExchange(m) ==
    /\ Kind[m] = "sigma2" /\ sent[m] > 0
    /\ LET same == {n \in pending : Exchange[n] = Exchange[m]}
       IN  /\ same # {}
           /\ pending' = pending \ same /\ abandoned' = abandoned \cup same
    /\ UNCHANGED <<phase, retries, sent, acking, tick, sending, tables, acked, lost, failed>>

-----------------------------------------------------------------------------
(* Tick *)

SpentOneLate(m) ==   \* mutant: one retransmission too many before the entry is given up
    retries[m] > MaxRetransmissions
Spent(m) == retries[m] >= MaxRetransmissions

\* The due entries are swept under the lock.  The schedule of an entry's transmissions
\* outlasts the map stores that follow its first send: none is given up before.
SweepKeepsSpent(k, due) ==   \* mutant: a given-up entry stays until its result is handled
    /\ tick[k] = IdleTick /\ sending[k] = None
    /\ due # {} /\ \A m \in due : Spent(m) => phase[m] = "done"
    /\ LET spent == {m \in due : Spent(m)}
       IN  /\ UNCHANGED pending /\ lost' = lost \cup spent
           /\ retries' = [m \in Messages |-> IF m \in due \ spent THEN retries[m] + 1 ELSE retries[m]]
           /\ tick' = [tick EXCEPT ![k] = [todo |-> due \ spent, spent |-> spent]]
    /\ UNCHANGED <<phase, sent, acking, sending, tables, acked, abandoned, failed>>
Sweep(k, due) ==
    /\ tick[k] = IdleTick /\ sending[k] = None
    /\ due # {} /\ \A m \in due : Spent(m) => phase[m] = "done"
    /\ LET spent == {m \in due : Spent(m)}
       IN  /\ pending' = pending \ spent /\ lost' = lost \cup spent
           /\ retries' = [m \in Messages |-> IF m \in due \ spent THEN retries[m] + 1 ELSE retries[m]]
           /\ tick' = [tick EXCEPT ![k] = [todo |-> due \ spent, spent |-> spent]]
    /\ UNCHANGED <<phase, sent, acking, sending, tables, acked, abandoned, failed>>

\* Whether the entry is still pending is read again under the lock ...
RecheckKeepsTodo(k, m) ==   \* mutant: an entry is not ticked off once it is sent
    /\ m \in tick[k].todo /\ sending[k] = None
    /\ IF m \in pending THEN UNCHANGED tick ELSE tick' = [tick EXCEPT ![k].todo = @ \ {m}]
    /\ sending' = [sending EXCEPT ![k] = IF m \in pending THEN m ELSE None]
    /\ UNCHANGED <<phase, pending, retries, sent, acking, tables, history>>
Recheck(k, m) ==
    /\ m \in tick[k].todo /\ sending[k] = None
    /\ tick' = [tick EXCEPT ![k].todo = @ \ {m}]
    /\ sending' = [sending EXCEPT ![k] = IF m \in pending THEN m ELSE None]
    /\ UNCHANGED <<phase, pending, retries, sent, acking, tables, history>>

\* ... and the datagram leaves, or fails to, after it is released.
ResendUncounted(k) ==   \* mutant: a failed send does not spend the retry budget
    /\ sending[k] # None
    /\ \/ sent' = [sent EXCEPT ![sending[k]] = @ + 1] /\ UNCHANGED retries
       \/ UNCHANGED sent /\ retries' = [retries EXCEPT ![sending[k]] = @ - 1]
    /\ sending' = [sending EXCEPT ![k] = None]
    /\ UNCHANGED <<phase, pending, acking, tick, tables, history>>
Resend(k) ==
    /\ sending[k] # None
    /\ \/ sent' = [sent EXCEPT ![sending[k]] = @ + 1]
       \/ UNCHANGED sent
    /\ sending' = [sending EXCEPT ![k] = None]
    /\ UNCHANGED <<phase, pending, retries, acking, tick, tables, history>>

\* The peer of m is lost: an open exchange of this node's, or one of a report on which
\* nothing was heard.  handleInitiatedPeerLoss looks for the exchange, whichever of its
\* messages is spent; an exchange has one here.
PeerLost(m) == m \in initiated \/ (m \in owner /\ m \in origin)

\* closeLostPeer: every session with that peer.
LostSessions(m) ==
    IF PeerLost(m) /\ Session[m] \in open
    THEN {s \in open : Peer[s] = Peer[Session[m]]} ELSE {}

\* The subscriptions that go: the report's own (closeSubscriptionByCounter) and, with
\* the lost sessions, theirs.
ReapedSubs(m) ==
    (IF m \in owner THEN {Owner[m]} ELSE {})
        \cup {s \in live : SubSession[s] \in LostSessions(m)}

\* tickOutboundReliable handles a given-up entry.
GiveUp(k, m) ==
    /\ tick[k].todo = {} /\ sending[k] = None /\ m \in tick[k].spent
    /\ tick' = [tick EXCEPT ![k].spent = @ \ {m}]
    /\ open' = open \ LostSessions(m)
    /\ CloseSubscriptions(ReapedSubs(m), owner \ {m})
    /\ errors' = [s \in Subs |-> IF s \in ReapedSubs(m) THEN 0 ELSE errors[s]]
    /\ UNCHANGED <<phase, pending, retries, sent, acking, sending, initiated, history>>

-----------------------------------------------------------------------------

Next ==
    \/ \E m \in Messages :
          Track(m) \/ Send(m) \/ Untrack(m) \/ FirstSent(m) \/ ReportSent(m)
             \/ CloseExchange(m) \/ Ack(m) \/ AbandonExchange(m)
    \/ \E s \in Sessions \cup {Unsecured} : ReleaseReportCounter(s)
    \/ \E k \in Ticks :
          \/ \E due \in SUBSET pending : Sweep(k, due)
          \/ \E m \in Messages : Recheck(k, m) \/ GiveUp(k, m)
          \/ Resend(k)

\* Goroutines under way go on.  The pump ticks forever and a Tick takes every entry
\* that is due, so an entry that stays pending is swept again and again.
Fairness ==
    /\ \A m \in Messages :
          /\ WF_vars(Send(m) \/ Untrack(m) \/ FirstSent(m) \/ ReportSent(m))
          /\ SF_vars(\E due \in SUBSET pending : m \in due /\ Sweep("pump", due))
    /\ \A k \in Ticks : WF_vars(Resend(k) \/ \E m \in Messages : Recheck(k, m) \/ GiveUp(k, m))

Spec == Init /\ [][Next]_vars
FairSpec == Spec /\ Fairness

-----------------------------------------------------------------------------
(* Properties *)

\* Every variable keeps its type; an entry's retransmissions stay within the maximum.
TypeOK ==
    /\ phase \in [Messages -> {"new", "tracked", "sent", "unsent", "owned", "done"}]
    /\ pending \subseteq Messages
    /\ retries \in [Messages -> 0 .. MaxRetransmissions] /\ sent \in [Messages -> Nat]
    /\ acking \in [Sessions \cup {Unsecured} -> Messages \cup {None}]
    /\ tick \in [Ticks -> [todo : SUBSET Messages, spent : SUBSET Messages]]
    /\ sending \in [Ticks -> Messages \cup {None}]
    /\ owner \subseteq Messages /\ origin \subseteq Messages
    /\ latest \in [Subs -> Messages \cup {None}] /\ errors \in [Subs -> 0 .. SendErrorRetryLimit]
    /\ live \subseteq Subs /\ open \subseteq Sessions /\ initiated \subseteq Messages
    /\ acked \subseteq Messages /\ lost \subseteq Messages
    /\ abandoned \subseteq Messages /\ failed \subseteq Messages

\* Only an ack of the message itself takes it out of the tracker: one whose first
\* datagram has not left, or whose session is another, is not cleared by an ack for
\* an equal counter.
AckedWasSent == \A m \in acked : sent[m] > 0

\* However Ticks overlap, a message leaves at most MaxRetransmissions + 1 times.
BudgetKept == \A m \in Messages : sent[m] <= MaxRetransmissions + 1

\* A subscription is reaped for a cause: a report of its own, or the first message of
\* an exchange this node opened with its peer, went unacknowledged to the end and its
\* ack was not taken meanwhile; or more sends of its reports failed than the limit.
ReapedForCause ==
    \A s \in Subs \ live :
        \/ \E m \in lost \ acked :
              \/ Owner[m] = s
              \/ Kind[m] # "sigma2" /\ Peer[Session[m]] = Peer[SubSession[s]]
        \/ Cardinality({m \in failed : Owner[m] = s}) > SendErrorRetryLimit

\* A report in the tracker is acknowledged, or its send failed, or its subscription is
\* reaped, or it was dropped with a handshake's exchange: no report is retransmitted or
\* waited for without end while its subscription stays.
ReportResolved ==
    \A m \in Messages :
        (Kind[m] = "report" /\ m \in pending)
            ~> (m \in acked \cup failed \cup abandoned \/ Owner[m] \notin live)
=============================================================================
