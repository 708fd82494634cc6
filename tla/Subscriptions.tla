---------------------------- MODULE Subscriptions ----------------------------
(***************************************************************************)
(* A node's subscriptions: the manager's table, the report engine and the  *)
(* bridge's handlers around them.                                          *)
(*                                                                         *)
(* An attribute that every subscription covers takes the values 0, 1, ...; *)
(* events are numbered by the log.  The setter of an attribute and the     *)
(* emitter of an event tell the subscriptions afterwards, one by one, and  *)
(* the subscription only notes what it owes; reports read the value and    *)
(* the log when they are sent.  Meanwhile requests admit and prime         *)
(* subscriptions, the engine's tick and a fabric's flush drain and report, *)
(* sends fail, and subscriptions are closed.  A step is what runs under    *)
(* one lock.  Intervals are left to nondeterminism: a drain finds its      *)
(* interval over or not.  A report that was sent arrives (its loss ends    *)
(* the subscription, see OutboundReliable).                                *)
(***************************************************************************)
EXTENDS Naturals, Sequences, FiniteSets, FiniteSetsExt

CONSTANTS
    Subs,       \* subscription ids; each is requested once
    Former,     \* the ones of the previous run, to be re-established
    Peers, PeerOf,              \* the controllers, and whose each subscription is
    MaxSubscriptionsPerFabric,  \* quota; the peers are of one fabric
    Setters,    \* goroutines that change the attribute
    Kinds,      \* kinds of events: "critical", "info", "other" (selected by no subscription)
    MaxChanges  \* bound: changes of the attribute and events together

ASSUME SubscriptionsAssumption ==
    /\ Former \subseteq Subs
    /\ PeerOf \in [Subs -> Peers]
    /\ MaxSubscriptionsPerFabric \in Nat
    /\ Kinds \subseteq {"critical", "info", "other"}
    /\ MaxChanges \in Nat

sendErrorRetryLimit == 2

VARIABLES
    value,      \* the attribute
    note,       \* per setter: the subscriptions it has yet to mark dirty
    log,        \* the events' kinds; an event's number is its place
    fire,       \* the emitter that holds emitMu
    sub,        \* the subscriptions
    perFabric,  \* the manager's count of them
    req,        \* the handlers of the requests
    rep,        \* the report claimed for each subscription (reporting)
    flush,      \* the flush before the fabric leaves
    stored,     \* persisted subscriptions
    undeleted,  \* history: terminated ones whose record could not be deleted
    told        \* what each subscription's peer was told: the value, and the events

vars == <<value, note, log, fire, sub, perFabric, req, rep, flush, stored, undeleted, told>>

NewSub ==
    [ state |-> "none",         \* "in" the table, "leaving" it, "closed"
      priming |-> FALSE, dirty |-> FALSE,
      pending |-> FALSE, min |-> 0, urgent |-> FALSE, reported |-> 0,   \* the events owed
      term |-> FALSE,           \* closed for good
      target |-> FALSE,         \* the bridge has its route (subTargets)
      errors |-> 0 ]            \* consecutive failed reports (subSendErrorCount)

NewReq == [at |-> "idle", wait |-> {}, val |-> 0, events |-> {}]

NotTold == [val |-> 0, events |-> {}]

NoReport == [at |-> "idle", attrs |-> FALSE, events |-> {}, val |-> 0, flushed |-> FALSE]

Init ==
    /\ value = 0 /\ log = <<>> /\ perFabric = 0 /\ stored = {} /\ undeleted = {}
    /\ note = [g \in Setters |-> [at |-> "idle", todo |-> {}]]
    /\ fire = [at |-> "idle", todo |-> {}]
    /\ sub = [s \in Subs |-> NewSub]
    /\ req = [s \in Subs |-> NewReq]
    /\ rep = [s \in Subs |-> NoReport]
    /\ flush = [at |-> "idle", todo |-> {}, upto |-> 0, missed |-> {}]
    /\ told = [s \in Subs |-> NotTold]

Table == {s \in Subs : sub[s].state = "in"}
Open(s) == sub[s].state \in {"in", "leaving"}
\* The peer is told t; of a closed subscription nothing is kept.
Tell(s, t) == told' = [told EXCEPT ![s] = IF Open(s) THEN t ELSE @]

Selected(from) == {n \in from .. Len(log) : log[n] # "other"}

-----------------------------------------------------------------------------
\* Changes and events.

\* mutant: a change during priming is not noted
MarkDirtyUnlessPriming(r) ==
    IF r.state \in {"in", "leaving"} /\ ~r.priming THEN [r EXCEPT !.dirty = TRUE] ELSE r

MarkDirty(r) == IF r.state \in {"in", "leaving"} THEN [r EXCEPT !.dirty = TRUE] ELSE r

SetValue(g) ==
    /\ value + Len(log) < MaxChanges /\ note[g].at = "idle"
    /\ value' = value + 1
    /\ note' = [note EXCEPT ![g].at = "set"]
    /\ UNCHANGED <<log, fire, sub, perFabric, req, rep, flush, stored, undeleted, told>>

\* OnAttributeChanged: the table is read once, ...
OnAttributeChanged(g) ==
    /\ note[g].at = "set"
    /\ note' = [note EXCEPT ![g] = [at |-> IF Table = {} THEN "idle" ELSE "mark", todo |-> Table]]
    /\ UNCHANGED <<value, log, fire, sub, perFabric, req, rep, flush, stored, undeleted, told>>

\* ... and each subscription marked on its own.
Mark(g, s) ==
    /\ s \in note[g].todo
    /\ sub' = [sub EXCEPT ![s] = MarkDirty(@)]
    /\ note' = [note EXCEPT ![g] = [at |-> IF @.todo = {s} THEN "idle" ELSE "mark",
                                    todo |-> @.todo \ {s}]]
    /\ UNCHANGED <<value, log, fire, perFabric, req, rep, flush, stored, undeleted, told>>

\* recordAndFanOut: emitMu is held from the append to the last queueEvent.
\* mutant: emitMu is not held over the fan-out
AppendRecordUnlocked(k) ==
    /\ value + Len(log) < MaxChanges
    /\ log' = Append(log, k)
    /\ fire' = [fire EXCEPT !.at = "appended"]
    /\ UNCHANGED <<value, note, sub, perFabric, req, rep, flush, stored, undeleted, told>>

AppendRecord(k) ==
    /\ value + Len(log) < MaxChanges /\ fire.at = "idle"
    /\ log' = Append(log, k)
    /\ fire' = [fire EXCEPT !.at = "appended"]
    /\ UNCHANGED <<value, note, sub, perFabric, req, rep, flush, stored, undeleted, told>>

OnEventFired ==
    /\ fire.at = "appended"
    /\ LET matches == IF log[Len(log)] = "other" THEN {} ELSE Table
       IN fire' = [at |-> IF matches = {} THEN "idle" ELSE "queue", todo |-> matches]
    /\ UNCHANGED <<value, note, log, sub, perFabric, req, rep, flush, stored, undeleted, told>>

QueueEvent(r, n) ==
    IF r.state = "closed" \/ n <= r.reported THEN r
    ELSE [r EXCEPT !.pending = TRUE,
                   !.min = IF r.pending /\ r.min < n THEN @ ELSE n,
                   !.urgent = @ \/ log[n] = "critical"]

FanOut(s) ==
    /\ s \in fire.todo
    /\ sub' = [sub EXCEPT ![s] = QueueEvent(@, Len(log))]
    /\ fire' = [at |-> IF fire.todo = {s} THEN "idle" ELSE "queue", todo |-> fire.todo \ {s}]
    /\ UNCHANGED <<value, note, log, perFabric, req, rep, flush, stored, undeleted, told>>

-----------------------------------------------------------------------------
\* Closing: subscriptions leave the table together, then each is finished on its own.

\* mutant: the count is not brought down
LeaveUncounted(victims, term) ==
    /\ sub' = [s \in Subs |-> IF s \in victims THEN [sub[s] EXCEPT !.state = "leaving", !.term = term]
                              ELSE sub[s]]
    /\ perFabric' = perFabric

Leave(victims, term) ==
    /\ sub' = [s \in Subs |-> IF s \in victims THEN [sub[s] EXCEPT !.state = "leaving", !.term = term]
                              ELSE sub[s]]
    /\ perFabric' = perFabric - Cardinality(victims)

\* mutant: the table is not looked at
CloseOneUnchecked(s, term) == Leave({s}, term)

\* closeOne of a subscription, if it is in the table.
CloseOne(s, term) == Leave({s} \cap Table, term)

\* The record of a subscription that ended for good is deleted; a delete that fails or
\* times out, or persistence switched off, is not tried again.
ForgetPersistedSubscription(s) ==
    \/ stored' = stored \ {s} /\ UNCHANGED undeleted
    \/ UNCHANGED stored /\ undeleted' = undeleted \cup ({s} \cap stored)

\* What a closed subscription still owes is dropped; it is not looked at again.
FinishClose(s) ==
    /\ sub[s].state = "leaving"
    /\ sub' = [sub EXCEPT ![s] = [NewSub EXCEPT !.state = "closed", !.term = sub[s].term]]
    /\ IF sub[s].term THEN ForgetPersistedSubscription(s) ELSE UNCHANGED <<stored, undeleted>>
    /\ told' = [told EXCEPT ![s] = NotTold]
    /\ UNCHANGED <<value, note, log, fire, perFabric, req, rep, flush>>

\* The session of a peer closes.
CloseSession(p) ==
    /\ \E s \in Table : PeerOf[s] = p
    /\ Leave({s \in Table : PeerOf[s] = p}, FALSE)
    /\ UNCHANGED <<value, note, log, fire, req, rep, flush, stored, undeleted, told>>

\* The peer answers a report with an error, or stops acknowledging it: its route goes
\* first, ...
PeerEnds(s) ==
    /\ s \in Table /\ ~sub[s].priming /\ sub[s].target
    /\ sub' = [sub EXCEPT ![s] = [@ EXCEPT !.target = FALSE, !.errors = 0]]
    /\ UNCHANGED <<value, note, log, fire, perFabric, req, rep, flush, stored, undeleted, told>>

\* ... then the subscription.
CloseUnrouted(s) ==
    /\ s \in Table /\ ~sub[s].target /\ req[s].at # "target"
    /\ CloseOne(s, TRUE)
    /\ UNCHANGED <<value, note, log, fire, req, rep, flush, stored, undeleted, told>>

-----------------------------------------------------------------------------
\* Requests.

\* KeepSubscriptions is false: the peer's other subscriptions go first.
ClosePeer(s) ==
    /\ req[s].at = "idle" /\ s \notin Former
    /\ LET victims == {v \in Table : PeerOf[v] = PeerOf[s]}
       IN /\ Leave(victims, TRUE)
          /\ req' = [req EXCEPT ![s] = [@ EXCEPT !.at = "admit", !.wait = victims]]
    /\ UNCHANGED <<value, note, log, fire, rep, flush, stored, undeleted, told>>

\* Subscribe, and Restore of a former subscription, which is not priming; refused at
\* the quota.
Admit(s) ==
    /\ req[s].at \in {"idle", "admit"} /\ \A v \in req[s].wait : sub[v].state = "closed"
    /\ IF perFabric >= MaxSubscriptionsPerFabric
       THEN req' = [req EXCEPT ![s] = [NewReq EXCEPT !.at = "done"]] /\ UNCHANGED <<sub, perFabric>>
       ELSE /\ sub' = [sub EXCEPT ![s] = [@ EXCEPT !.state = "in", !.priming = s \notin Former]]
            /\ perFabric' = perFabric + 1
            /\ req' = [req EXCEPT ![s] = [@ EXCEPT !.at = "target", !.wait = {}]]
    /\ UNCHANGED <<value, note, log, fire, rep, flush, stored, undeleted, told>>

CaptureSubTarget(s) ==
    /\ req[s].at = "target"
    /\ sub' = [sub EXCEPT ![s].target = TRUE]
    /\ req' = [req EXCEPT ![s].at = "build"]
    /\ UNCHANGED <<value, note, log, fire, perFabric, rep, flush, stored, undeleted, told>>

\* The data of the priming report is read.
BuildInitialReport(s) ==
    /\ req[s].at = "build"
    /\ req' = [req EXCEPT ![s] = [@ EXCEPT !.at = "stream", !.val = value, !.events = Selected(1)]]
    /\ UNCHANGED <<value, note, log, fire, sub, perFabric, rep, flush, stored, undeleted, told>>

\* The peer has taken every chunk of it.
Stream(s) ==
    /\ req[s].at = "stream"
    /\ Tell(s, [val |-> req[s].val, events |-> told[s].events \cup req[s].events])
    /\ req' = [req EXCEPT ![s] = [NewReq EXCEPT !.at = IF s \in Former THEN "persist" ELSE "respond"]]
    /\ UNCHANGED <<value, note, log, fire, sub, perFabric, rep, flush, stored, undeleted>>

\* The SubscribeResponse is out: reports may follow.
SendSubscribeResponse(s) ==
    /\ req[s].at = "respond"
    /\ sub' = [sub EXCEPT ![s].priming = IF s \in Table THEN FALSE ELSE @]
    /\ req' = [req EXCEPT ![s].at = "persist"]
    /\ UNCHANGED <<value, note, log, fire, perFabric, rep, flush, stored, undeleted, told>>

\* Nothing matches, or the peer does not answer: the subscription is closed again.
AbandonPriming(s) ==
    /\ req[s].at \in {"stream", "respond"}
    /\ CloseOne(s, s \notin Former)
    /\ req' = [req EXCEPT ![s] = [NewReq EXCEPT !.at = "done"]]
    /\ UNCHANGED <<value, note, log, fire, rep, flush, stored, undeleted, told>>

\* mutant: the table is not looked at again before the save
PersistUnchecked(s) ==
    /\ req[s].at = "persist"
    /\ stored' = stored \cup {s}
    /\ req' = [req EXCEPT ![s].at = "done"]
    /\ UNCHANGED <<value, note, log, fire, sub, perFabric, rep, flush, undeleted, told>>

\* The subscription is saved if it is in the table, looked at under the lock that the
\* forgetting takes too; not if its route is gone by then, or the store fails.
PersistSubscription(s) ==
    /\ req[s].at = "persist"
    /\ stored' \in {stored, stored \cup ({s} \cap Table)}
    /\ req' = [req EXCEPT ![s].at = "done"]
    /\ UNCHANGED <<value, note, log, fire, sub, perFabric, rep, flush, undeleted, told>>

-----------------------------------------------------------------------------
\* Reports.

\* The subscription after drainEvents of what is owed.
DrainEvents(r) ==
    IF r.pending THEN [r EXCEPT !.pending = FALSE, !.min = 0, !.urgent = FALSE,
                                 !.reported = Len(log)] ELSE r

\* The events drainEvents hands out.
Drained(r) == IF r.pending THEN Selected(r.min) ELSE {}

\* A tick claims the subscription; events are looked at first.  due: the minimum
\* interval is over and no deferral runs.
Tick(s, due) ==
    /\ Open(s) /\ ~sub[s].priming /\ rep[s].at = "idle"
    /\ LET drains == sub[s].urgent \/ due
           events == IF drains THEN Drained(sub[s]) ELSE {}
       IN /\ sub' = [sub EXCEPT ![s] = IF drains THEN DrainEvents(@) ELSE @]
          /\ rep' = [rep EXCEPT ![s] = [NoReport EXCEPT
                        !.at = IF events = {} THEN "claimed" ELSE "report", !.events = events]]
    /\ UNCHANGED <<value, note, log, fire, perFabric, req, flush, stored, undeleted, told>>

\* No event to report: a change whose interval is over.
DrainDirty(s) ==
    /\ rep[s].at = "claimed" /\ sub[s].dirty
    /\ sub' = [sub EXCEPT ![s].dirty = FALSE]
    /\ rep' = [rep EXCEPT ![s] = [@ EXCEPT !.at = "report", !.attrs = TRUE]]
    /\ UNCHANGED <<value, note, log, fire, perFabric, req, flush, stored, undeleted, told>>

\* Nothing is due, or the send interval is over and an empty report goes out.
Heartbeat(s) ==
    /\ rep[s].at = "claimed"
    /\ \E at \in {"idle"} \cup IF sub[s].dirty THEN {} ELSE {"report"} :
          rep' = [rep EXCEPT ![s].at = at]
    /\ UNCHANGED <<value, note, log, fire, sub, perFabric, req, flush, stored, undeleted, told>>

\* The report after one of its two parts, events first, is dealt with.
EventsDone(r) == IF r.attrs THEN [r EXCEPT !.at = "report", !.events = {}] ELSE NoReport
PartDone(r) == IF r.events # {} THEN EventsDone(r) ELSE NoReport

\* The reporter finds its route and reads what it is to send, or there is none any more.
Read(s) ==
    /\ rep[s].at = "report"
    /\ rep' = [rep EXCEPT ![s] = IF sub[s].target THEN [@ EXCEPT !.at = "send", !.val = IF rep[s].attrs THEN value ELSE 0]
                                 ELSE PartDone(@)]
    /\ UNCHANGED <<value, note, log, fire, sub, perFabric, req, flush, stored, undeleted, told>>

Sent(s) ==
    /\ rep[s].at = "send"
    /\ Tell(s, IF rep[s].events # {} THEN [told[s] EXCEPT !.events = @ \cup rep[s].events]
               ELSE IF rep[s].attrs THEN [told[s] EXCEPT !.val = rep[s].val] ELSE told[s])
    /\ sub' = [sub EXCEPT ![s].errors = 0]
    /\ rep' = [rep EXCEPT ![s] = PartDone(@)]
    /\ UNCHANGED <<value, note, log, fire, perFabric, req, flush, stored, undeleted>>

RequeueEvents(r, n) ==
    IF r.state = "closed" THEN r
    ELSE [r EXCEPT !.pending = TRUE, !.min = IF r.pending /\ r.min < n THEN @ ELSE n,
                   !.reported = IF @ >= n THEN n - 1 ELSE @]

\* mutant: the attributes of a failed report are not owed again
RequeueEventsOnly(s) ==
    IF rep[s].events # {} THEN RequeueEvents(sub[s], Min(rep[s].events)) ELSE sub[s]

\* What a failed report carried is owed again.
Requeue(s) ==
    IF rep[s].events # {} THEN RequeueEvents(sub[s], Min(rep[s].events))
    ELSE IF rep[s].attrs THEN MarkDirty(sub[s]) ELSE sub[s]

\* The third failure in a row closes the subscription (noteSubscriptionSendError).
SendFails(s) ==
    /\ rep[s].at = "send"
    /\ LET r    == Requeue(s)
           reap == r.target /\ r.errors + 1 > sendErrorRetryLimit
           gone == reap /\ s \in Table
       IN /\ sub' = [sub EXCEPT ![s] =
                       IF ~r.target THEN r
                       ELSE [r EXCEPT !.errors = IF reap THEN 0 ELSE @ + 1, !.target = ~reap,
                                      !.state = IF gone THEN "leaving" ELSE @,
                                      !.term = @ \/ gone]]
          /\ perFabric' = IF gone THEN perFabric - 1 ELSE perFabric
    /\ flush' = IF rep[s].flushed THEN [flush EXCEPT !.missed = @ \cup {s}] ELSE flush
    /\ rep' = [rep EXCEPT ![s] = PartDone(@)]
    /\ UNCHANGED <<value, note, log, fire, req, stored, undeleted, told>>

-----------------------------------------------------------------------------
\* The fabric leaves: its Leave event is out, its subscriptions are flushed, then closed.

FlushFabric ==
    /\ flush.at = "idle"
    /\ \E upto \in {IF fire.at = "idle" THEN Len(log) ELSE Len(log) - 1} :
          /\ upto > 0
          /\ flush' = [flush EXCEPT !.at = "run", !.todo = Table, !.upto = upto]
    /\ UNCHANGED <<value, note, log, fire, sub, perFabric, req, rep, stored, undeleted, told>>

Skipped(s) == ~Open(s) \/ sub[s].priming

\* mutant: a subscription whose report is in flight is skipped
FlushOneSkipsClaimed(s) ==
    /\ flush.at = "run" /\ s \in flush.todo
    /\ flush' = [flush EXCEPT !.todo = @ \ {s},
                              !.missed = IF sub[s].priming THEN @ \cup {s} ELSE @]
    /\ IF Skipped(s) \/ rep[s].at # "idle" THEN UNCHANGED <<sub, rep>>
       ELSE /\ sub' = [sub EXCEPT ![s] = [DrainEvents(@) EXCEPT !.dirty = FALSE]]
            /\ rep' = [rep EXCEPT ![s] = [NoReport EXCEPT
                 !.at = IF Drained(sub[s]) = {} /\ ~sub[s].dirty THEN "idle" ELSE "report",
                 !.events = Drained(sub[s]), !.attrs = sub[s].dirty, !.flushed = TRUE]]
    /\ UNCHANGED <<value, note, log, fire, perFabric, req, stored, undeleted, told>>

\* claimReport waits for a report in flight; then both kinds are drained, whatever the interval.
FlushOne(s) ==
    /\ flush.at = "run" /\ s \in flush.todo
    /\ Skipped(s) \/ rep[s].at = "idle"
    /\ flush' = [flush EXCEPT !.todo = @ \ {s},
                              !.missed = IF sub[s].priming THEN @ \cup {s} ELSE @]
    /\ IF Skipped(s) THEN UNCHANGED <<sub, rep>>
       ELSE /\ sub' = [sub EXCEPT ![s] = [DrainEvents(@) EXCEPT !.dirty = FALSE]]
            /\ rep' = [rep EXCEPT ![s] = [NoReport EXCEPT
                 !.at = IF Drained(sub[s]) = {} /\ ~sub[s].dirty THEN "idle" ELSE "report",
                 !.events = Drained(sub[s]), !.attrs = sub[s].dirty, !.flushed = TRUE]]
    /\ UNCHANGED <<value, note, log, fire, perFabric, req, stored, undeleted, told>>

FlushReturns ==
    /\ flush.at = "run" /\ flush.todo = {}
    /\ \A s \in Subs : rep[s].at # "idle" => ~rep[s].flushed
    /\ flush' = [flush EXCEPT !.at = "done"]
    /\ UNCHANGED <<value, note, log, fire, sub, perFabric, req, rep, stored, undeleted, told>>

\* CloseFabric with the fabric's sessions.
CloseFabric ==
    /\ flush.at = "done" /\ Table # {}
    /\ Leave(Table, TRUE) /\ perFabric' = 0
    /\ UNCHANGED <<value, note, log, fire, req, rep, flush, stored, undeleted, told>>

-----------------------------------------------------------------------------
Next ==
    \/ \E g \in Setters : SetValue(g) \/ OnAttributeChanged(g) \/ \E s \in Subs : Mark(g, s)
    \/ \E k \in Kinds : AppendRecord(k)
    \/ OnEventFired
    \/ \E p \in Peers : CloseSession(p)
    \/ \E s \in Subs :
          \/ FanOut(s) \/ FinishClose(s) \/ PeerEnds(s) \/ CloseUnrouted(s)
          \/ ClosePeer(s) \/ Admit(s) \/ CaptureSubTarget(s) \/ BuildInitialReport(s)
          \/ Stream(s) \/ SendSubscribeResponse(s) \/ AbandonPriming(s) \/ PersistSubscription(s)
          \/ \E due \in BOOLEAN : Tick(s, due)
          \/ DrainDirty(s) \/ Heartbeat(s) \/ Read(s) \/ Sent(s) \/ SendFails(s)
          \/ FlushOne(s)
    \/ FlushFabric \/ FlushReturns \/ CloseFabric

Spec == Init /\ [][Next]_vars

\* The code's scheduling: goroutines run on, a send ends, the engine ticks, and a
\* minimum interval or a deferral that runs ends before some tick.
FairSpec ==
    /\ Spec
    /\ \A g \in Setters : WF_vars(OnAttributeChanged(g)) /\ WF_vars(\E s \in Subs : Mark(g, s))
    /\ WF_vars(OnEventFired) /\ WF_vars(\E s \in Subs : FanOut(s))
    /\ \A s \in Subs :
          /\ WF_vars(FinishClose(s)) /\ WF_vars(CloseUnrouted(s))
          /\ SF_vars(Tick(s, TRUE)) /\ SF_vars(DrainDirty(s)) /\ WF_vars(Heartbeat(s))
          /\ WF_vars(Read(s)) /\ WF_vars(Sent(s) \/ SendFails(s))

-----------------------------------------------------------------------------
\* Properties.

\* The state is of the expected shape: no counter of subscriptions, owed events or
\* failed sends leaves its range.
TypeOK ==
    /\ value \in 0 .. MaxChanges
    /\ note \in [Setters -> [at : {"idle", "set", "mark"}, todo : SUBSET Subs]]
    /\ value + Len(log) <= MaxChanges
    /\ fire \in [at : {"idle", "appended", "queue"}, todo : SUBSET Subs]
    /\ \A s \in Subs :
          /\ sub[s] \in [state : {"none", "in", "leaving", "closed"}, priming : BOOLEAN,
                         dirty : BOOLEAN, pending : BOOLEAN, min : 0 .. MaxChanges,
                         urgent : BOOLEAN, reported : 0 .. MaxChanges, term : BOOLEAN,
                         target : BOOLEAN, errors : 0 .. sendErrorRetryLimit]
          /\ rep[s] \in [at : {"idle", "claimed", "report", "send"}, attrs : BOOLEAN,
                         events : SUBSET (1 .. MaxChanges), val : 0 .. MaxChanges,
                         flushed : BOOLEAN]
          /\ told[s] \in [val : 0 .. MaxChanges, events : SUBSET (1 .. MaxChanges)]
    /\ perFabric \in 0 .. MaxSubscriptionsPerFabric
    /\ stored \subseteq Subs /\ undeleted \subseteq Subs

\* However closes of the same subscription race (its peer, its session, its fabric, a
\* failed report, an abandoned priming), the manager's count that the quota is checked
\* against is the number of subscriptions in its table.
QuotaExact == perFabric = Cardinality(Table)

\* The peer has the priming report, and reports find their way to it.
Established(s) ==
    s \in Table /\ sub[s].target /\ ~sub[s].priming /\ req[s].at \in {"persist", "done"}

\* The peer has the attribute's value, or will be sent it: the subscription is dirty, a
\* report in flight carries the value or has yet to read it, or a setter has yet to mark.
Informed(s) ==
    \/ told[s].val = value \/ sub[s].dirty
    \/ rep[s].attrs /\ (rep[s].at = "report" \/ rep[s].events # {} \/ rep[s].val = value)
    \/ \E g \in Setters : note[g].at = "set" \/ s \in note[g].todo

\* No change is lost between the priming report, the marks and the reports, failed ones
\* included: a requested subscription's peer has the attribute's value or is owed it.
NoLostUpdate == \A s \in Subs \ Former : Established(s) => Informed(s)

\* No event is lost between the log, the fan-out and the reports: an event that an
\* established subscription selects was sent to its peer, is owed, is in the report in
\* flight, or is being fanned out to it.
NoLostEvent ==
    \A s \in Subs : Established(s) =>
       \A n \in Selected(1) :
          \/ n \in told[s].events \cup rep[s].events
          \/ sub[s].pending /\ n >= sub[s].min
          \/ n = Len(log) /\ (fire.at = "appended" \/ s \in fire.todo)

\* A subscription that ended for good is not re-established after a restart: however the
\* save of a new subscription races its end, no record of it is left, but for one whose
\* delete failed (forgetPersistedSubscription only logs that).
TerminatedForgotten ==
    \A s \in Subs \ undeleted : sub[s].state = "closed" /\ sub[s].term => s \notin stored

\* When the flush before a fabric's removal returns, every established subscription that
\* was not priming when it was looked at, and whose report did not fail, has the events
\* up to the Leave event.
LeaveReported ==
    flush.at = "done" =>
       \A s \in Subs \ flush.missed :
          Established(s) => {n \in Selected(1) : n <= flush.upto} \subseteq told[s].events

\* A change reaches the peer of an established subscription, or the subscription ends,
\* whatever fails: the third failure in a row ends it.
ChangeReported ==
    \A s \in Subs \ Former :
       (Established(s) /\ told[s].val # value) ~> (told[s].val = value \/ ~Established(s))
=============================================================================
