------------------------- MODULE SubscriptionsProofs -------------------------
(***************************************************************************)
(* What the subscriptions guarantee for every set of subscriptions, peers  *)
(* and setters and every length of the log: the quota's count is exact, no *)
(* change and no event is lost on the way to an established peer, a flush  *)
(* reports what it should, and an ended subscription is forgotten.         *)
(***************************************************************************)
EXTENDS Subscriptions, FiniteSetTheorems, WellFoundedInduction, TLAPS

SubRecord ==
    [state : {"none", "in", "leaving", "closed"}, priming : BOOLEAN,
     dirty : BOOLEAN, pending : BOOLEAN, min : 0 .. MaxChanges,
     urgent : BOOLEAN, reported : 0 .. MaxChanges, term : BOOLEAN,
     target : BOOLEAN, errors : 0 .. sendErrorRetryLimit]

Events == SUBSET (1 .. MaxChanges)

ReportRecord ==
    [at : {"idle", "claimed", "report", "send"}, attrs : BOOLEAN, events : Events,
     val : 0 .. MaxChanges, flushed : BOOLEAN]

RequestRecord ==
    [at : {"idle", "admit", "target", "build", "stream", "respond", "persist", "done"},
     wait : SUBSET Subs, val : 0 .. MaxChanges, events : Events]

Types ==
    /\ value \in Nat /\ log \in Seq(Kinds) /\ value + Len(log) <= MaxChanges
    /\ note \in [Setters -> [at : {"idle", "set", "mark"}, todo : SUBSET Subs]]
    /\ fire \in [at : {"idle", "appended", "queue"}, todo : SUBSET Subs]
    /\ sub \in [Subs -> SubRecord]
    /\ rep \in [Subs -> ReportRecord]
    /\ req \in [Subs -> RequestRecord]
    /\ told \in [Subs -> [val : 0 .. MaxChanges, events : Events]]
    /\ flush \in [at : {"idle", "run", "done"}, todo : SUBSET Subs, upto : Nat,
                  missed : SUBSET Subs]
    /\ stored \subseteq Subs /\ undeleted \subseteq Subs

\* The count of the quota; the manager's table is finite.
Counted == IsFiniteSet(Table) /\ perFabric = Cardinality(Table)
           /\ perFabric <= MaxSubscriptionsPerFabric

\* A notifier that is not going round has no one left to tell.
Rounds ==
    /\ \A g \in Setters : note[g].at \in {"idle", "set"} => note[g].todo = {}
    /\ fire.at \in {"idle", "appended"} => fire.todo = {}

\* The course of one subscription: its id is used once, nothing is reported before it
\* is primed, and a report begins with nothing in it.
Course(s) ==
    /\ req[s].at \in {"idle", "admit"} => sub[s].state = "none"
    /\ sub[s].state = "none" \/ sub[s].priming => rep[s].at = "idle"
    /\ rep[s].at \in {"idle", "claimed"} => ~rep[s].attrs /\ rep[s].events = {}
    /\ s \notin Former /\ Open(s) /\ req[s].at \in {"target", "build", "stream", "respond"}
           => sub[s].priming

\* The events owed begin somewhere in the log, and those of a report are in it.
Owes(s) ==
    /\ sub[s].pending => sub[s].min \in 1 .. Len(log)
    /\ sub[s].reported <= Len(log)
    /\ rep[s].events \subseteq 1 .. Len(log)

\* Values reach the peer of a requested subscription in the order in which they were set.
InOrder(s) ==
    /\ req[s].val <= value /\ told[s].val <= value /\ rep[s].val <= value
    /\ s \notin Former /\ rep[s].at = "send" /\ rep[s].attrs => told[s].val <= rep[s].val

\* A subscription whose priming report has been read, while it has its route.
Primed(s) ==
    s \in Table /\ sub[s].target /\ req[s].at \in {"stream", "respond", "persist", "done"}

\* The peer has the value or will have it.
HasValue(s) ==
    \/ IF req[s].at = "stream" THEN req[s].val = value ELSE told[s].val = value
    \/ sub[s].dirty
    \/ rep[s].attrs /\ (rep[s].at = "report" \/ rep[s].events # {} \/ rep[s].val = value)
    \/ \E g \in Setters : note[g].at = "set" \/ s \in note[g].todo

\* The peer has event n, or the priming or the report in flight has it.
Carried(s, n) ==
    n \in told[s].events \cup rep[s].events \/ (req[s].at = "stream" /\ n \in req[s].events)

\* ..., or it is owed, or it is on its way and not yet passed over.
Held(s, n) ==
    \/ Carried(s, n)
    \/ sub[s].pending /\ n >= sub[s].min
    \/ n = Len(log) /\ n > sub[s].reported /\ (fire.at = "appended" \/ s \in fire.todo)

\* What a flush has seen to.
Flushed(s, n) ==
    \/ n \in told[s].events
    \/ rep[s].flushed /\ n \in rep[s].events
    \/ req[s].at = "stream" /\ n \in req[s].events

\* No event of the log is lost on its way to an established peer.
EventsHeld(s) == Primed(s) => \A n \in Selected(1) : Held(s, n)
ValueHeld(s) == s \notin Former /\ Primed(s) => HasValue(s)

\* What the flush has passed by is reported, unless it is known to have been missed.
FlushHeld(s) ==
    /\ flush.at # "idle" /\ s \notin flush.todo \cup flush.missed /\ Primed(s) =>
           \A n \in Selected(1) : n <= flush.upto => Flushed(s, n)
    /\ flush.at = "done" /\ rep[s].at # "idle" => ~rep[s].flushed

Forgotten(s) ==
    s \notin undeleted /\ sub[s].state = "closed" /\ sub[s].term => s \notin stored

\* The flush is for events that have been handed to every subscription.
FlushRange ==
    /\ flush.at # "idle" => flush.upto <= Len(log)
    /\ flush.at # "idle" /\ fire.at # "idle" => flush.upto < Len(log)
    /\ flush.at = "done" => flush.todo = {}

One(s) ==
    /\ Course(s) /\ Owes(s) /\ InOrder(s) /\ Forgotten(s)
    /\ ValueHeld(s) /\ EventsHeld(s) /\ FlushHeld(s)

IInv == Types /\ Counted /\ Rounds /\ FlushRange /\ \A s \in Subs : One(s)

-----------------------------------------------------------------------------
(* The records *)

\* What the operations on a subscription's record make of it.
LEMMA MarkDirtyRecord ==
    ASSUME NEW r \in SubRecord
    PROVE  /\ MarkDirty(r) \in SubRecord
           /\ MarkDirty(r).state = r.state /\ MarkDirty(r).priming = r.priming
           /\ MarkDirty(r).pending = r.pending /\ MarkDirty(r).min = r.min
           /\ MarkDirty(r).reported = r.reported /\ MarkDirty(r).term = r.term
           /\ MarkDirty(r).target = r.target /\ MarkDirty(r).errors = r.errors
           /\ r.dirty => MarkDirty(r).dirty
           /\ r.state \in {"in", "leaving"} => MarkDirty(r).dirty
BY DEF MarkDirty, SubRecord

\* An event that is not behind what was reported is owed, and what was owed stays so.
LEMMA QueueEventRecord ==
    ASSUME NEW r \in SubRecord, NEW n \in 0 .. MaxChanges
    PROVE  LET q == QueueEvent(r, n) IN
           /\ q \in SubRecord
           /\ q.state = r.state /\ q.priming = r.priming /\ q.dirty = r.dirty
           /\ q.reported = r.reported /\ q.term = r.term /\ q.target = r.target
           /\ r.pending => q.pending /\ q.min <= r.min
           /\ n > r.reported /\ r.state # "closed" => q.pending /\ q.min <= n
           /\ q.pending => (r.pending /\ q.min = r.min) \/ (q.min = n /\ n > r.reported)
<1> DEFINE q == QueueEvent(r, n)
<1>1. CASE r.state = "closed" \/ n <= r.reported
    BY <1>1 DEF QueueEvent, SubRecord
<1>2. CASE ~(r.state = "closed" \/ n <= r.reported)
  <2> DEFINE m == IF r.pending /\ r.min < n THEN r.min ELSE n
             b == r.urgent \/ log[n] = "critical"
  <2>1. q = [r EXCEPT !.pending = TRUE, !.min = m, !.urgent = b]
    BY <1>2 DEF QueueEvent
  <2>2. m \in 0 .. MaxChanges /\ m <= n /\ (r.pending => m <= r.min)
        /\ ((r.pending /\ m = r.min) \/ m = n) /\ n > r.reported
    BY <1>2 DEF SubRecord
  <2>3. b \in BOOLEAN
    OBVIOUS
  <2> HIDE DEF m, b, q
  <2>4. /\ q \in SubRecord /\ q.pending = TRUE /\ q.min = m
        /\ q.state = r.state /\ q.priming = r.priming /\ q.dirty = r.dirty
        /\ q.reported = r.reported /\ q.term = r.term /\ q.target = r.target
    BY <2>1, <2>2, <2>3 DEF SubRecord
  <2>5. q.pending /\ q.min <= n /\ (r.pending => q.min <= r.min)
        /\ ((r.pending /\ q.min = r.min) \/ (q.min = n /\ n > r.reported))
    BY <2>2, <2>4
  <2> QED BY <2>4, <2>5 DEF q
<1> QED BY <1>1, <1>2

\* Events handed back are owed from the first of them on, and not counted as reported.
LEMMA RequeueRecord ==
    ASSUME NEW r \in SubRecord, NEW n \in 1 .. MaxChanges
    PROVE  LET q == RequeueEvents(r, n) IN
           /\ q \in SubRecord
           /\ q.state = r.state /\ q.priming = r.priming /\ q.dirty = r.dirty
           /\ q.term = r.term /\ q.target = r.target /\ q.errors = r.errors
           /\ q.reported <= r.reported
           /\ r.pending => q.pending /\ q.min <= r.min
           /\ r.state # "closed" => q.pending /\ q.min <= n
           /\ q.pending => (r.pending /\ q.min = r.min) \/ q.min = n
<1> DEFINE q == RequeueEvents(r, n)
<1>1. CASE r.state = "closed"
    BY <1>1 DEF RequeueEvents, SubRecord
<1>2. CASE r.state # "closed"
  <2> DEFINE m == IF r.pending /\ r.min < n THEN r.min ELSE n
             k == IF r.reported >= n THEN n - 1 ELSE r.reported
  <2>1. q = [r EXCEPT !.pending = TRUE, !.min = m, !.reported = k]
    BY <1>2 DEF RequeueEvents
  <2>2. m \in 0 .. MaxChanges /\ m <= n /\ (r.pending => m <= r.min)
        /\ ((r.pending /\ m = r.min) \/ m = n)
    BY DEF SubRecord
  <2>3. k \in 0 .. MaxChanges /\ k <= r.reported
    <3>1. r.reported \in 0 .. MaxChanges
        BY DEF SubRecord
    <3> QED BY <3>1, SubscriptionsAssumption
  <2> HIDE DEF m, k, q
  <2>4. /\ q \in SubRecord /\ q.pending = TRUE /\ q.min = m /\ q.reported = k
        /\ q.state = r.state /\ q.priming = r.priming /\ q.dirty = r.dirty
        /\ q.term = r.term /\ q.target = r.target /\ q.errors = r.errors
    BY <2>1, <2>2, <2>3 DEF SubRecord
  <2> QED BY <2>2, <2>3, <2>4 DEF q
<1> QED BY <1>1, <1>2

\* After a drain no event is owed, and those in the log count as reported if any was.
LEMMA DrainRecord ==
    ASSUME NEW r \in SubRecord, Len(log) \in 0 .. MaxChanges
    PROVE  LET q == DrainEvents(r) IN
           /\ q \in SubRecord
           /\ q.state = r.state /\ q.priming = r.priming /\ q.dirty = r.dirty
           /\ q.term = r.term /\ q.target = r.target /\ q.errors = r.errors
           /\ ~q.pending
           /\ q.reported = IF r.pending THEN Len(log) ELSE r.reported
<1> DEFINE q == DrainEvents(r)
<1>1. CASE r.pending
  <2>1. q = [r EXCEPT !.pending = FALSE, !.min = 0, !.urgent = FALSE, !.reported = Len(log)]
    BY <1>1 DEF DrainEvents
  <2> HIDE DEF q
  <2>2. 0 \in 0 .. MaxChanges
    BY SubscriptionsAssumption
  <2>3. /\ q \in SubRecord /\ q.pending = FALSE /\ q.reported = Len(log)
        /\ q.state = r.state /\ q.priming = r.priming /\ q.dirty = r.dirty
        /\ q.term = r.term /\ q.target = r.target /\ q.errors = r.errors
    BY <2>1, <2>2 DEF SubRecord
  <2> QED BY <1>1, <2>3 DEF q
<1>2. CASE ~r.pending
    BY <1>2 DEF DrainEvents
<1> QED BY <1>1, <1>2

\* The records in the beginning.
LEMMA NewRecords ==
    /\ NewSub \in SubRecord /\ NoReport \in ReportRecord /\ NewReq \in RequestRecord
    /\ NotTold \in [val : 0 .. MaxChanges, events : Events]
BY SubscriptionsAssumption DEF NewSub, NoReport, NewReq, NotTold, SubRecord, ReportRecord, RequestRecord,
       Events, sendErrorRetryLimit

\* What is left of a report when a part of it is dealt with.
LEMMA PartDoneRecord ==
    ASSUME NEW r \in ReportRecord
    PROVE  LET q == PartDone(r) IN
           /\ q \in ReportRecord
           /\ q.events = {}
           /\ q.at = "report" \/ q = NoReport
           /\ r.attrs /\ r.events # {} => q.at = "report" /\ q.attrs
           /\ q.attrs => r.attrs /\ r.events # {}
           /\ q.flushed => r.flushed
           /\ q.val \in {0, r.val}
<1> DEFINE q == PartDone(r)
<1>1. NoReport \in ReportRecord
    BY NewRecords
<1>2. NoReport.events = {} /\ NoReport.attrs = FALSE /\ NoReport.flushed = FALSE /\ NoReport.val = 0
    BY DEF NoReport
<1>3. CASE r.events # {} /\ r.attrs
  <2>1. q = [r EXCEPT !.at = "report", !.events = {}]
    BY <1>3 DEF PartDone, EventsDone
  <2> HIDE DEF q
  <2>2. /\ q \in ReportRecord /\ q.events = {} /\ q.at = "report"
        /\ q.attrs = r.attrs /\ q.flushed = r.flushed /\ q.val = r.val
    BY <2>1 DEF ReportRecord, Events
  <2> QED BY <1>3, <2>2 DEF q
<1>4. CASE ~(r.events # {} /\ r.attrs)
  <2>1. q = NoReport
    BY <1>4 DEF PartDone, EventsDone
  <2> HIDE DEF q
  <2> QED BY <1>1, <1>2, <1>4, <2>1 DEF q
<1> QED BY <1>3, <1>4

\* A set of naturals with a member has a least one.
LEMMA Least ==
    ASSUME NEW S \in SUBSET Nat, S # {}
    PROVE  \E x \in S : \A y \in S : x <= y
<1>1. \E x \in S : \A y \in S : ~(<<y, x>> \in OpToRel(<, Nat))
    BY WFMin, NatLessThanWellFounded, Zenon
<1>2. \A x, y \in Nat : y < x => <<y, x>> \in OpToRel(<, Nat)
    BY DEF OpToRel
<1>3. \A x, y \in Nat : ~(y < x) => x <= y
    OBVIOUS
<1> QED BY <1>1, <1>2, <1>3

\* The first of some events is one of them.
LEMMA FirstEvent ==
    ASSUME NEW E \in Events, E # {}
    PROVE  Min(E) \in E /\ \A n \in E : Min(E) <= n
<1>1. E \in SUBSET Nat
    BY DEF Events
<1>2. PICK x \in E : \A y \in E : x <= y
    BY <1>1, Least
<1> QED BY <1>2 DEF Min

-----------------------------------------------------------------------------
(* One subscription moves, the others see it go by *)

\* Everything of u is as it was.
Same(u) == sub'[u] = sub[u] /\ rep'[u] = rep[u] /\ req'[u] = req[u] /\ told'[u] = told[u]

\* What u depends on besides: the value and the log, the notifiers that are to come to
\* it, the flush, and its record in the store.
Around(u) ==
    /\ UNCHANGED <<value, log>>
    /\ (\E g \in Setters : note[g].at = "set" \/ u \in note[g].todo)
           => (\E g \in Setters : note'[g].at = "set" \/ u \in note'[g].todo)
    /\ fire.at = "appended" \/ u \in fire.todo => fire'.at = "appended" \/ u \in fire'.todo
    /\ flush'.at = flush.at /\ flush'.upto = flush.upto
    /\ u \in flush'.todo \cup flush'.missed <=> u \in flush.todo \cup flush.missed
    /\ (u \in stored' => u \in stored) /\ undeleted \subseteq undeleted'

\* A subscription that nothing happens to.
LEMMA Bystander ==
    ASSUME NEW u \in Subs, One(u), Same(u), Around(u)
    PROVE  One(u)'
<1> USE DEF One, Same, Around
<1>1. Course(u)' /\ Owes(u)' /\ InOrder(u)' /\ Forgotten(u)'
    BY DEF Course, Owes, InOrder, Forgotten, Open
<1>2. Primed(u)' <=> Primed(u)
    BY DEF Primed, Table
<1>3. ValueHeld(u)'
    BY <1>2 DEF ValueHeld, HasValue
<1>4. Selected(1)' = Selected(1)
    BY DEF Selected
<1>5. EventsHeld(u)'
    BY <1>2, <1>4 DEF EventsHeld, Held, Carried
<1>6. FlushHeld(u)'
    BY <1>2, <1>4 DEF FlushHeld, Flushed
<1> QED BY <1>1, <1>3, <1>5, <1>6

\* A subscription that is not to be reported to any more: only its course is of interest.
LEMMA Unprimed ==
    ASSUME NEW s \in Subs, Course(s)', Owes(s)', InOrder(s)', Forgotten(s)', ~Primed(s)',
           flush'.at = "done" /\ rep'[s].at # "idle" => ~rep'[s].flushed
    PROVE  One(s)'
BY DEF One, ValueHeld, EventsHeld, FlushHeld

\* The step is of s, and for the others all is as it was.
Only(s) == \A u \in Subs \ {s} : Same(u) /\ Around(u)

\* What is shared but not of any one subscription.
Shared == Types /\ Counted /\ Rounds /\ FlushRange

\* The invariant after a step of s.
LEMMA StepOfOne ==
    ASSUME IInv, NEW s \in Subs, Only(s), Shared', One(s)'
    PROVE  IInv'
<1>1. \A u \in Subs \ {s} : One(u)'
    BY Bystander DEF IInv, Only
<1> QED BY <1>1 DEF IInv, Shared

\* The frame of a step of s: the notifiers, the flush, the value and the log are left
\* alone, and the store changes at most for s.
LEMMA Frame ==
    ASSUME NEW s \in Subs, UNCHANGED <<value, note, log, fire, flush>>,
           stored' \ {s} \subseteq stored, undeleted \subseteq undeleted',
           \A u \in Subs \ {s} : Same(u)
    PROVE  Only(s)
BY DEF Only, Around

\* The count when no subscription enters or leaves the table.
LEMMA TableSame ==
    ASSUME Counted, perFabric' = perFabric, \A u \in Subs : sub'[u].state = sub[u].state
    PROVE  Table' = Table /\ Counted'
<1>1. Table' = Table
    BY DEF Table
<1> QED BY <1>1 DEF Counted

\* Subscriptions leave the table together, and the count follows.
LEMMA LeaveCounts ==
    ASSUME Types, Counted, NEW V \in SUBSET Table, NEW t \in BOOLEAN, Leave(V, t)
    PROVE  /\ sub' \in [Subs -> SubRecord]
           /\ Counted'
           /\ \A u \in V : /\ sub'[u] = [sub[u] EXCEPT !.state = "leaving", !.term = t]
                           /\ sub'[u].state = "leaving" /\ sub'[u].priming = sub[u].priming
                           /\ sub'[u].pending = sub[u].pending /\ sub'[u].min = sub[u].min
                           /\ sub'[u].reported = sub[u].reported
           /\ \A u \in Subs \ V : sub'[u] = sub[u]
<1>1. sub \in [Subs -> SubRecord] /\ V \subseteq Subs
    BY DEF Types, Table
<1>2. \A u \in V : sub'[u] = [sub[u] EXCEPT !.state = "leaving", !.term = t]
    BY <1>1 DEF Leave
<1>3. \A u \in Subs \ V : sub'[u] = sub[u]
    BY <1>1 DEF Leave
<1>4. \A u \in V : /\ sub'[u] \in SubRecord
                   /\ sub'[u].state = "leaving" /\ sub'[u].priming = sub[u].priming
                   /\ sub'[u].pending = sub[u].pending /\ sub'[u].min = sub[u].min
                   /\ sub'[u].reported = sub[u].reported
  <2>1. ASSUME NEW r \in SubRecord, NEW q, q = [r EXCEPT !.state = "leaving", !.term = t]
        PROVE  /\ q \in SubRecord /\ q.state = "leaving" /\ q.priming = r.priming
               /\ q.pending = r.pending /\ q.min = r.min /\ q.reported = r.reported
    BY <2>1 DEF SubRecord
  <2> TAKE u \in V
  <2>2. sub[u] \in SubRecord
    BY <1>1
  <2> QED BY <1>2, <2>1, <2>2
<1>5. sub' \in [Subs -> SubRecord]
  <2>1. \A u \in Subs : sub'[u] \in SubRecord
    BY <1>1, <1>3, <1>4
  <2>2. sub' = [u \in Subs |-> sub'[u]]
    BY DEF Leave
  <2> QED BY <2>1, <2>2
<1>6. Table' = Table \ V
    BY <1>1, <1>3, <1>4 DEF Table
<1>7. IsFiniteSet(Table) /\ IsFiniteSet(V) /\ Cardinality(Table) \in Nat /\ Cardinality(V) \in Nat
    BY FS_Subset, FS_CardinalityType DEF Counted
<1>8. IsFiniteSet(Table \ V) /\ Cardinality(Table \ V) = Cardinality(Table) - Cardinality(Table \cap V)
    BY <1>7, FS_Difference
<1>9. Table \cap V = V
    OBVIOUS
<1>10. perFabric' = perFabric - Cardinality(V)
    BY DEF Leave
<1>11. Counted'
  <2>1. perFabric = Cardinality(Table) /\ perFabric <= MaxSubscriptionsPerFabric
    BY DEF Counted
  <2>2. IsFiniteSet(Table') /\ perFabric' = Cardinality(Table')
    BY <1>6, <1>7, <1>8, <1>9, <1>10, <2>1
  <2>3. perFabric' <= MaxSubscriptionsPerFabric
    BY <1>7, <1>10, <2>1, SubscriptionsAssumption
  <2> QED BY <2>2, <2>3 DEF Counted
<1> QED BY <1>2, <1>3, <1>4, <1>5, <1>11

\* A subscription that leaves the table, whatever the other steps then make of it.
LEMMA Left ==
    ASSUME NEW u \in Subs, Types, One(u), sub'[u].state = "leaving", u \in Table,
           sub'[u].priming = sub[u].priming, sub'[u].pending = sub[u].pending,
           sub'[u].min = sub[u].min, sub'[u].reported = sub[u].reported,
           rep'[u] = rep[u], told'[u] = told[u],
           req'[u] = req[u] \/ (req'[u].at = "done" /\ req'[u].val = 0),
           UNCHANGED <<value, log, flush>>
    PROVE  One(u)'
<1>1. Course(u)'
    BY DEF One, Course, Open, Table
<1>2. Owes(u)' /\ Forgotten(u)' /\ ~Primed(u)'
    BY DEF One, Owes, Forgotten, Primed, Table
<1>3. InOrder(u)'
    BY DEF One, InOrder, Types
<1> QED BY <1>1, <1>2, <1>3, Unprimed DEF One, FlushHeld

-----------------------------------------------------------------------------
(* Closing *)

\* Subscriptions leave together: each of them, and each of the others whose request is
\* where it was, keeps its part of the invariant.
LEMMA LeaveStep ==
    ASSUME IInv, NEW V \in SUBSET Table, NEW t \in BOOLEAN, Leave(V, t),
           UNCHANGED <<value, note, log, fire, rep, flush, stored, undeleted, told>>,
           req' \in [Subs -> RequestRecord]
    PROVE  /\ Shared'
           /\ \A u \in V : req'[u] = req[u] \/ (req'[u].at = "done" /\ req'[u].val = 0) => One(u)'
           /\ \A u \in Subs \ V : req'[u] = req[u] => One(u)'
<1>1. Types /\ Counted /\ Rounds /\ FlushRange /\ V \subseteq Subs
    BY DEF IInv, Table
<1>2. /\ sub' \in [Subs -> SubRecord]
      /\ Counted'
      /\ \A u \in V : /\ sub'[u].state = "leaving" /\ sub'[u].priming = sub[u].priming
                      /\ sub'[u].pending = sub[u].pending /\ sub'[u].min = sub[u].min
                      /\ sub'[u].reported = sub[u].reported
      /\ \A u \in Subs \ V : sub'[u] = sub[u]
    BY <1>1, LeaveCounts
<1>3. Shared'
    BY <1>1, <1>2 DEF Shared, Types, Rounds, FlushRange
<1>4. ASSUME NEW u \in V, req'[u] = req[u] \/ (req'[u].at = "done" /\ req'[u].val = 0)
      PROVE  One(u)'
  <2>1. One(u) /\ u \in Subs /\ u \in Table /\ rep'[u] = rep[u] /\ told'[u] = told[u]
    BY <1>1 DEF IInv
  <2> QED BY <1>1, <1>2, <1>4, <2>1, Left
<1>5. ASSUME NEW u \in Subs \ V, req'[u] = req[u]
      PROVE  One(u)'
  <2>1. Same(u) /\ Around(u)
    BY <1>2, <1>5 DEF Same, Around
  <2>2. One(u)
    BY DEF IInv
  <2> QED BY <2>1, <2>2, Bystander
<1> QED BY <1>3, <1>4, <1>5

\* CloseSession and CloseFabric, and the requests they find as they are.
LEMMA LeaveAll ==
    ASSUME IInv, NEW V \in SUBSET Table, NEW t \in BOOLEAN, Leave(V, t),
           UNCHANGED <<value, note, log, fire, req, rep, flush, stored, undeleted, told>>
    PROVE  IInv'
<1>1. req' \in [Subs -> RequestRecord] /\ \A u \in Subs : req'[u] = req[u]
    BY DEF IInv, Types
<1>2. Shared' /\ (\A u \in V : One(u)') /\ (\A u \in Subs \ V : One(u)')
  <2>1. V \subseteq Subs
    BY DEF Table
  <2> QED BY <1>1, <2>1, LeaveStep
<1> QED BY <1>2 DEF Shared, IInv

\* The session of a peer closes.
LEMMA CloseSessionStep ==
    ASSUME IInv, NEW p \in Peers, CloseSession(p)
    PROVE  IInv'
<1> DEFINE V == {s \in Table : PeerOf[s] = p}
<1>1. V \in SUBSET Table /\ FALSE \in BOOLEAN /\ Leave(V, FALSE)
    BY DEF CloseSession
<1>2. UNCHANGED <<value, note, log, fire, req, rep, flush, stored, undeleted, told>>
    BY DEF CloseSession
<1> HIDE DEF V
<1> QED BY <1>1, <1>2, LeaveAll

\* The fabric's subscriptions close.
LEMMA CloseFabricStep ==
    ASSUME IInv, CloseFabric
    PROVE  IInv'
<1>1. Table \in SUBSET Table /\ TRUE \in BOOLEAN /\ Leave(Table, TRUE)
    BY DEF CloseFabric
<1>2. UNCHANGED <<value, note, log, fire, req, rep, flush, stored, undeleted, told>>
    BY DEF CloseFabric
<1> QED BY <1>1, <1>2, LeaveAll

\* A subscription without a route is closed.
LEMMA CloseUnroutedStep ==
    ASSUME IInv, NEW s \in Subs, CloseUnrouted(s)
    PROVE  IInv'
<1>1. {s} \cap Table \in SUBSET Table /\ TRUE \in BOOLEAN /\ Leave({s} \cap Table, TRUE)
    BY DEF CloseUnrouted, CloseOne
<1>2. UNCHANGED <<value, note, log, fire, req, rep, flush, stored, undeleted, told>>
    BY DEF CloseUnrouted
<1> QED BY <1>1, <1>2, LeaveAll

\* The peer's other subscriptions close; the one that is asked for has not begun.
LEMMA ClosePeerStep ==
    ASSUME IInv, NEW s \in Subs, ClosePeer(s)
    PROVE  IInv'
<1> DEFINE V == {v \in Table : PeerOf[v] = PeerOf[s]}
<1>1. V \in SUBSET Table /\ TRUE \in BOOLEAN /\ Leave(V, TRUE)
    BY DEF ClosePeer
<1>2. UNCHANGED <<value, note, log, fire, rep, flush, stored, undeleted, told>>
    BY DEF ClosePeer
<1>3. Types /\ One(s) /\ req[s].at = "idle"
    BY DEF IInv, ClosePeer
<1>4. /\ req' \in [Subs -> RequestRecord]
      /\ req'[s].at = "admit" /\ req'[s].val = req[s].val
      /\ \A u \in Subs \ {s} : req'[u] = req[u]
  <2>1. req' = [req EXCEPT ![s] = [req[s] EXCEPT !.at = "admit", !.wait = V]]
    BY DEF ClosePeer
  <2>2. V \in SUBSET Subs /\ req[s] \in RequestRecord /\ req \in [Subs -> RequestRecord]
    BY <1>3 DEF Types, Table
  <2> HIDE DEF V
  <2>3. [req[s] EXCEPT !.at = "admit", !.wait = V] \in RequestRecord
    BY <2>2 DEF RequestRecord
  <2>4. req'[s] = [req[s] EXCEPT !.at = "admit", !.wait = V]
    BY <2>1, <2>2
  <2>5. req'[s].at = "admit" /\ req'[s].val = req[s].val
    BY <2>2, <2>4 DEF RequestRecord
  <2> QED BY <2>1, <2>2, <2>3, <2>5
<1>5. sub[s].state = "none" /\ s \notin V
    BY <1>3 DEF One, Course, Table
<1> HIDE DEF V
<1>6. Shared' /\ (\A u \in V : One(u)') /\ (\A u \in (Subs \ V) \ {s} : One(u)')
  <2>1. V \subseteq Subs
    BY <1>1 DEF Table
  <2> QED BY <1>1, <1>2, <1>4, <1>5, <2>1, LeaveStep
<1>7. sub'[s] = sub[s]
    BY <1>1, <1>3, <1>5, LeaveCounts DEF IInv
<1>8. One(s)'
  <2>1. Course(s)' /\ Owes(s)' /\ Forgotten(s)' /\ ~Primed(s)'
    BY <1>2, <1>3, <1>4, <1>5, <1>7 DEF One, Course, Owes, Forgotten, Primed, Table, Open
  <2>2. InOrder(s)'
    BY <1>2, <1>3, <1>4 DEF One, InOrder
  <2> QED BY <1>2, <1>3, <2>1, <2>2, Unprimed DEF One, FlushHeld
<1> QED BY <1>6, <1>8 DEF Shared, IInv

\* Priming is given up.
LEMMA AbandonPrimingStep ==
    ASSUME IInv, NEW s \in Subs, AbandonPriming(s)
    PROVE  IInv'
<1> DEFINE V == {s} \cap Table
           t == s \notin Former
<1>1. V \in SUBSET Table /\ t \in BOOLEAN /\ Leave(V, t)
    BY DEF AbandonPriming, CloseOne
<1>2. UNCHANGED <<value, note, log, fire, rep, flush, stored, undeleted, told>>
    BY DEF AbandonPriming
<1>3. Types /\ One(s)
    BY DEF IInv
<1>4. /\ req' \in [Subs -> RequestRecord]
      /\ req'[s].at = "done" /\ req'[s].val = 0
      /\ \A u \in Subs \ {s} : req'[u] = req[u]
  <2>1. req' = [req EXCEPT ![s] = [NewReq EXCEPT !.at = "done"]]
    BY DEF AbandonPriming
  <2>2. [NewReq EXCEPT !.at = "done"] \in RequestRecord
    BY NewRecords DEF RequestRecord
  <2>3. [NewReq EXCEPT !.at = "done"].at = "done" /\ [NewReq EXCEPT !.at = "done"].val = 0
    BY DEF NewReq
  <2> QED BY <1>3, <2>1, <2>2, <2>3 DEF Types
<1>5. V \subseteq Subs /\ (s \in V <=> s \in Table) /\ \A u \in V : u = s
    BY DEF Table
<1> HIDE DEF t
<1>6. Shared' /\ (\A u \in V : One(u)') /\ (\A u \in (Subs \ V) \ {s} : One(u)')
  <2> HIDE DEF V
  <2> QED BY <1>1, <1>2, <1>4, <1>5, LeaveStep
<1>7. CASE s \in Table
    BY <1>6, <1>7 DEF Shared, IInv
<1>8. CASE s \notin Table
  <2>1. sub'[s] = sub[s]
    BY <1>1, <1>3, <1>8, LeaveCounts DEF IInv
  <2>2. Course(s)' /\ Owes(s)' /\ Forgotten(s)' /\ ~Primed(s)'
    BY <1>2, <1>3, <1>4, <1>8, <2>1 DEF One, Course, Owes, Forgotten, Primed, Table, Open
  <2>3. InOrder(s)'
    BY <1>2, <1>3, <1>4 DEF One, InOrder, Types
  <2>4. One(s)'
    BY <1>2, <1>3, <2>2, <2>3, Unprimed DEF One, FlushHeld
  <2> QED BY <1>6, <2>4 DEF Shared, IInv
<1> QED BY <1>7, <1>8

\* A subscription that has left the table is finished.
LEMMA FinishCloseStep ==
    ASSUME IInv, NEW s \in Subs, FinishClose(s)
    PROVE  IInv'
<1> DEFINE r == [NewSub EXCEPT !.state = "closed", !.term = sub[s].term]
<1>1. Types /\ Counted /\ Rounds /\ FlushRange /\ One(s) /\ sub[s] \in SubRecord
    BY DEF IInv, Types
<1>2. /\ r \in SubRecord /\ r.state = "closed" /\ ~r.priming /\ ~r.pending /\ r.reported = 0
      /\ r.term = sub[s].term
  <2>1. NewSub \in SubRecord /\ sub[s].term \in BOOLEAN
    BY <1>1, NewRecords DEF SubRecord
  <2>2. r \in SubRecord
    BY <2>1 DEF SubRecord
  <2> QED BY <2>2 DEF NewSub
<1> HIDE DEF r
<1>3. /\ sub[s].state = "leaving"
      /\ sub' = [sub EXCEPT ![s] = r]
      /\ sub[s].term => s \notin stored' \/ s \in undeleted'
      /\ stored' \subseteq stored /\ undeleted \subseteq undeleted' /\ undeleted' \subseteq undeleted \cup {s}
      /\ told' = [told EXCEPT ![s] = NotTold]
      /\ UNCHANGED <<value, note, log, fire, perFabric, req, rep, flush>>
    BY DEF FinishClose, ForgetPersistedSubscription, r
<1>4. /\ sub'[s] = r /\ told'[s] = NotTold
      /\ \A u \in Subs \ {s} : sub'[u] = sub[u] /\ told'[u] = told[u]
    BY <1>1, <1>3 DEF Types
<1>5. Only(s)
  <2>1. \A u \in Subs \ {s} : Same(u)
    BY <1>3, <1>4 DEF Same
  <2> QED BY <1>3, <1>4, <2>1, Frame
<1>6. Types'
    BY <1>1, <1>2, <1>3, <1>4, NewRecords DEF Types
<1>7. Counted'
  <2>1. Table' = Table
    BY <1>2, <1>3, <1>4 DEF Table
  <2> QED BY <1>1, <1>3, <2>1 DEF Counted
<1>8. Shared'
    BY <1>1, <1>3, <1>6, <1>7 DEF Shared, Rounds, FlushRange
<1>9. Course(s)' /\ Forgotten(s)' /\ ~Primed(s)'
    BY <1>1, <1>2, <1>3, <1>4 DEF One, Course, Forgotten, Primed, Table, Open
<1>10. Owes(s)'
    BY <1>1, <1>2, <1>3, <1>4 DEF One, Owes, Types
<1>11. InOrder(s)'
  <2>1. NotTold.val = 0 /\ rep[s].val \in Nat /\ value \in Nat
    BY <1>1 DEF NotTold, Types, ReportRecord
  <2> QED BY <1>1, <1>3, <1>4, <2>1 DEF One, InOrder
<1>12. One(s)'
    BY <1>1, <1>3, <1>9, <1>10, <1>11, Unprimed DEF One, FlushHeld
<1> QED BY <1>5, <1>8, <1>12, StepOfOne

\* The peer ends the subscription: its route goes.
LEMMA PeerEndsStep ==
    ASSUME IInv, NEW s \in Subs, PeerEnds(s)
    PROVE  IInv'
<1> DEFINE r == [sub[s] EXCEPT !.target = FALSE, !.errors = 0]
<1>1. Types /\ Counted /\ Rounds /\ FlushRange /\ One(s) /\ sub[s] \in SubRecord
    BY DEF IInv, Types
<1>2. /\ r \in SubRecord /\ r.state = sub[s].state /\ r.priming = sub[s].priming
      /\ r.pending = sub[s].pending /\ r.min = sub[s].min /\ r.reported = sub[s].reported
      /\ ~r.target /\ r.term = sub[s].term
  <2>1. 0 \in 0 .. sendErrorRetryLimit
    BY DEF sendErrorRetryLimit
  <2> QED BY <1>1, <2>1 DEF SubRecord
<1> HIDE DEF r
<1>3. /\ sub' = [sub EXCEPT ![s] = r]
      /\ UNCHANGED <<value, note, log, fire, perFabric, req, rep, flush, stored, undeleted, told>>
    BY DEF PeerEnds, r
<1>4. sub'[s] = r /\ \A u \in Subs \ {s} : sub'[u] = sub[u]
    BY <1>1, <1>3 DEF Types
<1>5. Only(s)
  <2>1. \A u \in Subs \ {s} : Same(u)
    BY <1>3, <1>4 DEF Same
  <2> QED BY <1>3, <2>1, Frame
<1>6. Types'
    BY <1>1, <1>2, <1>3 DEF Types
<1>7. Counted'
    BY <1>1, <1>2, <1>3, <1>4, TableSame
<1>8. Shared'
    BY <1>1, <1>3, <1>6, <1>7 DEF Shared, Rounds, FlushRange
<1>9. Course(s)' /\ Owes(s)' /\ InOrder(s)' /\ Forgotten(s)' /\ ~Primed(s)'
    BY <1>1, <1>2, <1>3, <1>4 DEF One, Course, Owes, InOrder, Forgotten, Primed, Open
<1>10. One(s)'
    BY <1>1, <1>3, <1>9, Unprimed DEF One, FlushHeld
<1> QED BY <1>5, <1>8, <1>10, StepOfOne

-----------------------------------------------------------------------------
(* Requests *)

\* A subscription is admitted, or refused at the quota.
LEMMA AdmitStep ==
    ASSUME IInv, NEW s \in Subs, Admit(s)
    PROVE  IInv'
<1>1. Types /\ Counted /\ Rounds /\ FlushRange /\ One(s) /\ sub[s] \in SubRecord
      /\ req[s] \in RequestRecord
    BY DEF IInv, Types
<1>2. /\ req[s].at \in {"idle", "admit"}
      /\ UNCHANGED <<value, note, log, fire, rep, flush, stored, undeleted, told>>
    BY DEF Admit
<1>3. sub[s].state = "none" /\ s \notin Table /\ rep[s].at = "idle"
    BY <1>1, <1>2 DEF One, Course, Table
<1>4. CASE perFabric >= MaxSubscriptionsPerFabric
  <2> DEFINE q == [NewReq EXCEPT !.at = "done"]
  <2>1. req' = [req EXCEPT ![s] = q] /\ UNCHANGED <<sub, perFabric>>
    BY <1>4 DEF Admit
  <2>2. q \in RequestRecord /\ q.at = "done" /\ q.val = 0
    BY NewRecords DEF RequestRecord, NewReq
  <2> HIDE DEF q
  <2>3. req'[s] = q /\ \A u \in Subs \ {s} : req'[u] = req[u]
    BY <1>1, <2>1 DEF Types
  <2>4. Only(s)
    <3>1. \A u \in Subs \ {s} : Same(u)
        BY <1>2, <2>1, <2>3 DEF Same
    <3> QED BY <1>2, <3>1, Frame
  <2>5. Types'
    BY <1>1, <1>2, <2>1, <2>2 DEF Types
  <2>6. Counted'
    BY <1>1, <2>1, TableSame
  <2>7. Shared'
    BY <1>1, <1>2, <2>5, <2>6 DEF Shared, Rounds, FlushRange
  <2>8. Course(s)' /\ Owes(s)' /\ Forgotten(s)' /\ ~Primed(s)'
    BY <1>1, <1>2, <1>3, <2>1, <2>2, <2>3 DEF One, Course, Owes, Forgotten, Primed, Table, Open
  <2>9. InOrder(s)'
    BY <1>1, <1>2, <2>2, <2>3 DEF One, InOrder, Types
  <2>10. One(s)'
    BY <1>1, <1>2, <2>8, <2>9, Unprimed DEF One, FlushHeld
  <2> QED BY <2>4, <2>7, <2>10, StepOfOne
<1>5. CASE ~(perFabric >= MaxSubscriptionsPerFabric)
  <2> DEFINE q == [req[s] EXCEPT !.at = "target", !.wait = {}]
             r == [sub[s] EXCEPT !.state = "in", !.priming = s \notin Former]
  <2>1. /\ req' = [req EXCEPT ![s] = q] /\ sub' = [sub EXCEPT ![s] = r]
        /\ perFabric' = perFabric + 1
    BY <1>5 DEF Admit
  <2>2. q \in RequestRecord /\ q.at = "target" /\ q.val = req[s].val
    BY <1>1 DEF RequestRecord
  <2>3. /\ r \in SubRecord /\ r.state = "in" /\ (s \notin Former => r.priming)
        /\ r.pending = sub[s].pending /\ r.min = sub[s].min /\ r.reported = sub[s].reported
    BY <1>1 DEF SubRecord
  <2> HIDE DEF q, r
  <2>4. /\ req'[s] = q /\ \A u \in Subs \ {s} : req'[u] = req[u]
        /\ sub'[s] = r /\ \A u \in Subs \ {s} : sub'[u] = sub[u]
    BY <1>1, <2>1 DEF Types
  <2>5. Only(s)
    <3>1. \A u \in Subs \ {s} : Same(u)
        BY <1>2, <2>1, <2>4 DEF Same
    <3> QED BY <1>2, <3>1, Frame
  <2>6. Types'
    BY <1>1, <1>2, <2>1, <2>2, <2>3 DEF Types
  <2>7. Counted'
    <3>1. Table' = Table \cup {s}
        BY <2>3, <2>4 DEF Table
    <3>2. IsFiniteSet(Table) /\ Cardinality(Table) \in Nat /\ perFabric = Cardinality(Table)
        BY <1>1, FS_CardinalityType DEF Counted
    <3>3. IsFiniteSet(Table \cup {s}) /\ Cardinality(Table \cup {s}) = Cardinality(Table) + 1
        BY <1>3, <3>2, FS_AddElement
    <3>4. perFabric + 1 <= MaxSubscriptionsPerFabric
        BY <1>5, <3>2, SubscriptionsAssumption
    <3> QED BY <2>1, <3>1, <3>2, <3>3, <3>4 DEF Counted
  <2>8. Shared'
    BY <1>1, <1>2, <2>6, <2>7 DEF Shared, Rounds, FlushRange
  <2>9. Course(s)' /\ Owes(s)' /\ Forgotten(s)' /\ ~Primed(s)'
    BY <1>1, <1>2, <1>3, <2>2, <2>3, <2>4 DEF One, Course, Owes, Forgotten, Primed, Table, Open
  <2>10. InOrder(s)'
    BY <1>1, <1>2, <2>2, <2>4 DEF One, InOrder
  <2>11. One(s)'
    BY <1>1, <1>2, <2>9, <2>10, Unprimed DEF One, FlushHeld
  <2> QED BY <2>5, <2>8, <2>11, StepOfOne
<1> QED BY <1>4, <1>5

\* The route is noted.
LEMMA CaptureSubTargetStep ==
    ASSUME IInv, NEW s \in Subs, CaptureSubTarget(s)
    PROVE  IInv'
<1> DEFINE q == [req[s] EXCEPT !.at = "build"]
           r == [sub[s] EXCEPT !.target = TRUE]
<1>1. Types /\ Counted /\ Rounds /\ FlushRange /\ One(s) /\ sub[s] \in SubRecord
      /\ req[s] \in RequestRecord
    BY DEF IInv, Types
<1>2. q \in RequestRecord /\ q.at = "build" /\ q.val = req[s].val
    BY <1>1 DEF RequestRecord
<1>3. /\ r \in SubRecord /\ r.state = sub[s].state /\ r.priming = sub[s].priming
      /\ r.pending = sub[s].pending /\ r.min = sub[s].min /\ r.reported = sub[s].reported
      /\ r.term = sub[s].term
    BY <1>1 DEF SubRecord
<1>4. /\ req[s].at = "target" /\ req' = [req EXCEPT ![s] = q] /\ sub' = [sub EXCEPT ![s] = r]
      /\ UNCHANGED <<value, note, log, fire, perFabric, rep, flush, stored, undeleted, told>>
    BY DEF CaptureSubTarget
<1> HIDE DEF q, r
<1>5. /\ req'[s] = q /\ \A u \in Subs \ {s} : req'[u] = req[u]
      /\ sub'[s] = r /\ \A u \in Subs \ {s} : sub'[u] = sub[u]
    BY <1>1, <1>4 DEF Types
<1>6. Only(s)
  <2>1. \A u \in Subs \ {s} : Same(u)
    BY <1>4, <1>5 DEF Same
  <2> QED BY <1>4, <2>1, Frame
<1>7. Types'
    BY <1>1, <1>2, <1>3, <1>4 DEF Types
<1>8. Counted'
    BY <1>1, <1>3, <1>4, <1>5, TableSame
<1>9. Shared'
    BY <1>1, <1>4, <1>7, <1>8 DEF Shared, Rounds, FlushRange
<1>10. Course(s)' /\ Owes(s)' /\ InOrder(s)' /\ Forgotten(s)' /\ ~Primed(s)'
    BY <1>1, <1>2, <1>3, <1>4, <1>5 DEF One, Course, Owes, InOrder, Forgotten, Primed, Open
<1>11. One(s)'
    BY <1>1, <1>4, <1>10, Unprimed DEF One, FlushHeld
<1> QED BY <1>6, <1>9, <1>11, StepOfOne

\* The events of the log are events.
LEMMA SelectedEvents ==
    ASSUME Types, NEW from \in Nat \ {0}
    PROVE  Selected(from) \in Events
<1>1. Len(log) \in Nat /\ Len(log) <= MaxChanges
    BY SubscriptionsAssumption DEF Types
<1> QED BY <1>1, SubscriptionsAssumption DEF Selected, Events

\* The priming report is read: it has the value, and every event.
LEMMA BuildInitialReportStep ==
    ASSUME IInv, NEW s \in Subs, BuildInitialReport(s)
    PROVE  IInv'
<1> DEFINE q == [req[s] EXCEPT !.at = "stream", !.val = value, !.events = Selected(1)]
<1>1. Types /\ Counted /\ Rounds /\ FlushRange /\ One(s) /\ req[s] \in RequestRecord
    BY DEF IInv, Types
<1>2. q \in RequestRecord /\ q.at = "stream" /\ q.val = value /\ q.events = Selected(1)
  <2>1. value \in 0 .. MaxChanges
    BY <1>1, SubscriptionsAssumption DEF Types
  <2>2. Selected(1) \in Events
    BY <1>1, SelectedEvents
  <2> QED BY <1>1, <2>1, <2>2 DEF RequestRecord
<1>3. /\ req[s].at = "build" /\ req' = [req EXCEPT ![s] = q]
      /\ UNCHANGED <<value, note, log, fire, sub, perFabric, rep, flush, stored, undeleted, told>>
    BY DEF BuildInitialReport
<1> HIDE DEF q
<1>4. req'[s] = q /\ \A u \in Subs \ {s} : req'[u] = req[u]
    BY <1>1, <1>3 DEF Types
<1>5. Only(s)
  <2>1. \A u \in Subs \ {s} : Same(u)
    BY <1>3, <1>4 DEF Same
  <2> QED BY <1>3, <2>1, Frame
<1>6. Types'
    BY <1>1, <1>2, <1>3 DEF Types
<1>7. Counted'
    BY <1>1, <1>3, TableSame
<1>8. Shared'
    BY <1>1, <1>3, <1>6, <1>7 DEF Shared, Rounds, FlushRange
<1>9. Course(s)' /\ Owes(s)' /\ Forgotten(s)'
    BY <1>1, <1>2, <1>3, <1>4 DEF One, Course, Owes, Forgotten, Open
<1>10. InOrder(s)'
    BY <1>1, <1>2, <1>3, <1>4 DEF One, InOrder, Types
<1>11. ValueHeld(s)'
    BY <1>2, <1>3, <1>4 DEF ValueHeld, HasValue
<1>12. Selected(1)' = Selected(1)
    BY <1>3 DEF Selected
<1>13. EventsHeld(s)'
    BY <1>2, <1>4, <1>12 DEF EventsHeld, Held, Carried
<1>14. FlushHeld(s)'
    BY <1>1, <1>2, <1>3, <1>4, <1>12 DEF One, FlushHeld, Flushed
<1>15. One(s)'
    BY <1>9, <1>10, <1>11, <1>13, <1>14 DEF One
<1> QED BY <1>5, <1>8, <1>15, StepOfOne

\* The peer has the priming report.
LEMMA StreamStep ==
    ASSUME IInv, NEW s \in Subs, Stream(s)
    PROVE  IInv'
<1> DEFINE q == [NewReq EXCEPT !.at = IF s \in Former THEN "persist" ELSE "respond"]
           t == [val |-> req[s].val, events |-> told[s].events \cup req[s].events]
<1>1. Types /\ Counted /\ Rounds /\ FlushRange /\ One(s)
      /\ req[s] \in RequestRecord /\ told[s] \in [val : 0 .. MaxChanges, events : Events]
    BY DEF IInv, Types
<1>2. /\ q \in RequestRecord /\ q.val = 0 /\ q.at \in {"persist", "respond"}
      /\ (s \in Former <=> q.at = "persist")
    BY NewRecords DEF RequestRecord, NewReq
<1>3. /\ t \in [val : 0 .. MaxChanges, events : Events]
      /\ t.val = req[s].val /\ t.events = told[s].events \cup req[s].events
    BY <1>1 DEF RequestRecord, Events
<1>4. /\ req[s].at = "stream" /\ req' = [req EXCEPT ![s] = q]
      /\ told' = [told EXCEPT ![s] = IF Open(s) THEN t ELSE @]
      /\ UNCHANGED <<value, note, log, fire, sub, perFabric, rep, flush, stored, undeleted>>
    BY DEF Stream, Tell
<1> HIDE DEF q, t
<1>5. /\ req'[s] = q /\ \A u \in Subs \ {s} : req'[u] = req[u]
      /\ told'[s] = (IF Open(s) THEN t ELSE told[s]) /\ \A u \in Subs \ {s} : told'[u] = told[u]
    BY <1>1, <1>4 DEF Types
<1>6. Only(s)
  <2>1. \A u \in Subs \ {s} : Same(u)
    BY <1>4, <1>5 DEF Same
  <2> QED BY <1>4, <2>1, Frame
<1>7. Types'
    BY <1>1, <1>2, <1>3, <1>4 DEF Types
<1>8. Counted'
    BY <1>1, <1>4, TableSame
<1>9. Shared'
    BY <1>1, <1>4, <1>7, <1>8 DEF Shared, Rounds, FlushRange
<1>10. Course(s)' /\ Owes(s)' /\ Forgotten(s)'
    BY <1>1, <1>2, <1>4, <1>5 DEF One, Course, Owes, Forgotten, Open
<1>11. InOrder(s)'
  <2>1. s \notin Former /\ Open(s) => rep[s].at = "idle"
    BY <1>1, <1>4 DEF One, Course
  <2>2. value \in Nat
    BY <1>1 DEF Types
  <2> QED BY <1>1, <1>2, <1>3, <1>4, <1>5, <2>1, <2>2 DEF One, InOrder
<1>12. Primed(s)' => Primed(s) /\ Open(s)
    BY <1>4, <1>5 DEF Primed, Table, Open
<1>13. ValueHeld(s)'
    BY <1>1, <1>2, <1>3, <1>4, <1>5, <1>12 DEF One, ValueHeld, HasValue
<1>14. Selected(1)' = Selected(1)
    BY <1>4 DEF Selected
<1>15. EventsHeld(s)'
    BY <1>1, <1>2, <1>3, <1>4, <1>5, <1>12, <1>14 DEF One, EventsHeld, Held, Carried
<1>16. FlushHeld(s)'
    BY <1>1, <1>2, <1>3, <1>4, <1>5, <1>12, <1>14 DEF One, FlushHeld, Flushed
<1>17. One(s)'
    BY <1>10, <1>11, <1>13, <1>15, <1>16 DEF One
<1> QED BY <1>6, <1>9, <1>17, StepOfOne

\* The response is out: the subscription is not priming any more.
LEMMA SendSubscribeResponseStep ==
    ASSUME IInv, NEW s \in Subs, SendSubscribeResponse(s)
    PROVE  IInv'
<1> DEFINE q == [req[s] EXCEPT !.at = "persist"]
           b == IF s \in Table THEN FALSE ELSE sub[s].priming
           r == [sub[s] EXCEPT !.priming = b]
<1>1. Types /\ Counted /\ Rounds /\ FlushRange /\ One(s) /\ sub[s] \in SubRecord
      /\ req[s] \in RequestRecord
    BY DEF IInv, Types
<1>2. q \in RequestRecord /\ q.at = "persist" /\ q.val = req[s].val
    BY <1>1 DEF RequestRecord
<1>3. /\ r \in SubRecord /\ r.state = sub[s].state /\ (r.priming => sub[s].priming)
      /\ r.dirty = sub[s].dirty /\ r.target = sub[s].target
      /\ r.pending = sub[s].pending /\ r.min = sub[s].min /\ r.reported = sub[s].reported
      /\ r.term = sub[s].term
  <2>1. b \in BOOLEAN /\ (b => sub[s].priming)
    BY <1>1 DEF SubRecord
  <2> HIDE DEF b
  <2>2. r \in SubRecord /\ r.priming = b
    BY <1>1, <2>1 DEF SubRecord
  <2> QED BY <1>1, <2>1, <2>2 DEF SubRecord
<1>4. /\ req[s].at = "respond" /\ req' = [req EXCEPT ![s] = q] /\ sub' = [sub EXCEPT ![s] = r]
      /\ UNCHANGED <<value, note, log, fire, perFabric, rep, flush, stored, undeleted, told>>
    BY DEF SendSubscribeResponse
<1> HIDE DEF q, r, b
<1>5. /\ req'[s] = q /\ \A u \in Subs \ {s} : req'[u] = req[u]
      /\ sub'[s] = r /\ \A u \in Subs \ {s} : sub'[u] = sub[u]
    BY <1>1, <1>4 DEF Types
<1>6. Only(s)
  <2>1. \A u \in Subs \ {s} : Same(u)
    BY <1>4, <1>5 DEF Same
  <2> QED BY <1>4, <2>1, Frame
<1>7. Types'
    BY <1>1, <1>2, <1>3, <1>4 DEF Types
<1>8. Counted' /\ Table' = Table
    BY <1>1, <1>3, <1>4, <1>5, TableSame
<1>9. Shared'
    BY <1>1, <1>4, <1>7, <1>8 DEF Shared, Rounds, FlushRange
<1>10. Course(s)' /\ Owes(s)' /\ InOrder(s)' /\ Forgotten(s)'
    BY <1>1, <1>2, <1>3, <1>4, <1>5 DEF One, Course, Owes, InOrder, Forgotten, Open
<1>11. Primed(s)' => Primed(s)
    BY <1>3, <1>4, <1>5, <1>8 DEF Primed
<1>12. Selected(1)' = Selected(1)
    BY <1>4 DEF Selected
<1>13. ValueHeld(s)'
    BY <1>1, <1>2, <1>3, <1>4, <1>5, <1>11 DEF One, ValueHeld, HasValue
<1>14. EventsHeld(s)'
    BY <1>1, <1>2, <1>3, <1>4, <1>5, <1>11, <1>12 DEF One, EventsHeld, Held, Carried
<1>15. FlushHeld(s)'
    BY <1>1, <1>2, <1>3, <1>4, <1>5, <1>11, <1>12 DEF One, FlushHeld, Flushed
<1>16. One(s)'
    BY <1>10, <1>13, <1>14, <1>15 DEF One
<1> QED BY <1>6, <1>9, <1>16, StepOfOne

\* The subscription is saved, unless it has left the table.
LEMMA PersistSubscriptionStep ==
    ASSUME IInv, NEW s \in Subs, PersistSubscription(s)
    PROVE  IInv'
<1> DEFINE q == [req[s] EXCEPT !.at = "done"]
<1>1. Types /\ Counted /\ Rounds /\ FlushRange /\ One(s) /\ req[s] \in RequestRecord
    BY DEF IInv, Types
<1>2. q \in RequestRecord /\ q.at = "done" /\ q.val = req[s].val
    BY <1>1 DEF RequestRecord
<1>3. /\ req[s].at = "persist" /\ req' = [req EXCEPT ![s] = q]
      /\ stored' = stored \/ (s \in Table /\ stored' = stored \cup {s})
      /\ UNCHANGED <<value, note, log, fire, sub, perFabric, rep, flush, undeleted, told>>
    BY DEF PersistSubscription
<1> HIDE DEF q
<1>4. req'[s] = q /\ \A u \in Subs \ {s} : req'[u] = req[u]
    BY <1>1, <1>3 DEF Types
<1>5. Only(s)
  <2>1. \A u \in Subs \ {s} : Same(u)
    BY <1>3, <1>4 DEF Same
  <2> QED BY <1>3, <2>1, Frame
<1>6. Types'
    BY <1>1, <1>2, <1>3 DEF Types
<1>7. Counted'
    BY <1>1, <1>3, TableSame
<1>8. Shared'
    BY <1>1, <1>3, <1>6, <1>7 DEF Shared, Rounds, FlushRange
<1>9. Course(s)' /\ Owes(s)' /\ InOrder(s)' /\ Forgotten(s)'
    BY <1>1, <1>2, <1>3, <1>4 DEF One, Course, Owes, InOrder, Forgotten, Open, Table
<1>10. Primed(s)' => Primed(s)
    BY <1>3, <1>4 DEF Primed, Table
<1>11. Selected(1)' = Selected(1)
    BY <1>3 DEF Selected
<1>12. ValueHeld(s)'
    BY <1>1, <1>2, <1>3, <1>4, <1>10 DEF One, ValueHeld, HasValue
<1>13. EventsHeld(s)'
    BY <1>1, <1>2, <1>3, <1>4, <1>10, <1>11 DEF One, EventsHeld, Held, Carried
<1>14. FlushHeld(s)'
    BY <1>1, <1>2, <1>3, <1>4, <1>10, <1>11 DEF One, FlushHeld, Flushed
<1>15. One(s)'
    BY <1>9, <1>12, <1>13, <1>14 DEF One
<1> QED BY <1>5, <1>8, <1>15, StepOfOne

-----------------------------------------------------------------------------
(* Changes and events *)

\* A setter marks a subscription: the others it is to come to, it still is.
LEMMA MarkStep ==
    ASSUME IInv, NEW g \in Setters, NEW s \in Subs, Mark(g, s)
    PROVE  IInv'
<1> DEFINE r == MarkDirty(sub[s])
           m == [at |-> IF note[g].todo = {s} THEN "idle" ELSE "mark", todo |-> note[g].todo \ {s}]
<1>1. Types /\ Counted /\ Rounds /\ FlushRange /\ One(s) /\ sub[s] \in SubRecord
    BY DEF IInv, Types
<1>2. /\ r \in SubRecord /\ r.state = sub[s].state /\ r.priming = sub[s].priming
      /\ r.pending = sub[s].pending /\ r.min = sub[s].min /\ r.reported = sub[s].reported
      /\ r.term = sub[s].term /\ r.target = sub[s].target
      /\ (sub[s].state \in {"in", "leaving"} => r.dirty)
    BY <1>1, MarkDirtyRecord
<1>3. /\ m \in [at : {"idle", "set", "mark"}, todo : SUBSET Subs]
      /\ m.todo = note[g].todo \ {s} /\ (m.at \in {"idle", "set"} => m.todo = {})
    BY <1>1 DEF Types
<1>4. /\ s \in note[g].todo /\ sub' = [sub EXCEPT ![s] = r] /\ note' = [note EXCEPT ![g] = m]
      /\ UNCHANGED <<value, log, fire, perFabric, req, rep, flush, stored, undeleted, told>>
    BY DEF Mark
<1> HIDE DEF r, m
<1>5. /\ sub'[s] = r /\ \A u \in Subs \ {s} : sub'[u] = sub[u]
      /\ note'[g] = m /\ \A h \in Setters \ {g} : note'[h] = note[h]
    BY <1>1, <1>4 DEF Types
<1>6. note[g].at # "set"
    BY <1>1, <1>4 DEF Rounds
<1>7. Only(s)
  <2> SUFFICES ASSUME NEW u \in Subs \ {s}
               PROVE  Same(u) /\ Around(u)
    BY DEF Only
  <2>1. Same(u)
    BY <1>4, <1>5 DEF Same
  <2>2. ASSUME NEW h \in Setters, note[h].at = "set" \/ u \in note[h].todo
        PROVE  note'[h].at = "set" \/ u \in note'[h].todo
    <3>1. CASE h = g
        BY <1>3, <1>5, <1>6, <2>2, <3>1
    <3>2. CASE h # g
        BY <1>5, <2>2, <3>2
    <3> QED BY <3>1, <3>2
  <2> QED BY <1>4, <2>1, <2>2 DEF Around
<1>8. Types'
    BY <1>1, <1>2, <1>3, <1>4 DEF Types
<1>9. Counted' /\ Table' = Table
    BY <1>1, <1>2, <1>4, <1>5, TableSame
<1>10. Rounds'
    BY <1>1, <1>3, <1>4, <1>5 DEF Rounds
<1>11. Shared'
    BY <1>1, <1>4, <1>8, <1>9, <1>10 DEF Shared, FlushRange
<1>12. Course(s)' /\ Owes(s)' /\ InOrder(s)' /\ Forgotten(s)'
    BY <1>1, <1>2, <1>4, <1>5 DEF One, Course, Owes, InOrder, Forgotten, Open
<1>13. Primed(s)' => Primed(s) /\ sub[s].state = "in"
    BY <1>2, <1>4, <1>5, <1>9 DEF Primed, Table
<1>14. Selected(1)' = Selected(1)
    BY <1>4 DEF Selected
<1>15. ValueHeld(s)'
    BY <1>2, <1>5, <1>13 DEF ValueHeld, HasValue
<1>16. EventsHeld(s)'
    BY <1>1, <1>2, <1>4, <1>5, <1>13, <1>14 DEF One, EventsHeld, Held, Carried
<1>17. FlushHeld(s)'
    BY <1>1, <1>4, <1>13, <1>14 DEF One, FlushHeld, Flushed
<1>18. One(s)'
    BY <1>12, <1>15, <1>16, <1>17 DEF One
<1> QED BY <1>7, <1>11, <1>18, StepOfOne

\* An event is queued for a subscription.
LEMMA FanOutStep ==
    ASSUME IInv, NEW s \in Subs, FanOut(s)
    PROVE  IInv'
<1> DEFINE r == QueueEvent(sub[s], Len(log))
           f == [at |-> IF fire.todo = {s} THEN "idle" ELSE "queue", todo |-> fire.todo \ {s}]
<1>1. Types /\ Counted /\ Rounds /\ FlushRange /\ One(s) /\ sub[s] \in SubRecord
    BY DEF IInv, Types
<1>2. Len(log) \in Nat /\ Len(log) \in 0 .. MaxChanges /\ sub[s].reported \in Nat /\ sub[s].min \in Nat
    BY <1>1, SubscriptionsAssumption DEF Types, SubRecord
<1>3. /\ r \in SubRecord /\ r.state = sub[s].state /\ r.priming = sub[s].priming
      /\ r.dirty = sub[s].dirty /\ r.reported = sub[s].reported
      /\ r.term = sub[s].term /\ r.target = sub[s].target
      /\ (sub[s].pending => r.pending /\ r.min <= sub[s].min)
      /\ (Len(log) > sub[s].reported /\ sub[s].state # "closed" => r.pending /\ r.min <= Len(log))
      /\ (r.pending => (sub[s].pending /\ r.min = sub[s].min)
                       \/ (r.min = Len(log) /\ Len(log) > sub[s].reported))
    BY <1>1, <1>2, QueueEventRecord
<1>4. /\ f \in [at : {"idle", "appended", "queue"}, todo : SUBSET Subs]
      /\ f.todo = fire.todo \ {s} /\ (f.at \in {"idle", "appended"} => f.todo = {})
      /\ f.at # "appended"
    BY <1>1 DEF Types
<1>5. /\ s \in fire.todo /\ sub' = [sub EXCEPT ![s] = r] /\ fire' = f
      /\ UNCHANGED <<value, note, log, perFabric, req, rep, flush, stored, undeleted, told>>
    BY DEF FanOut
<1> HIDE DEF r, f
<1>6. sub'[s] = r /\ \A u \in Subs \ {s} : sub'[u] = sub[u]
    BY <1>1, <1>5 DEF Types
<1>7. fire.at \notin {"idle", "appended"}
    BY <1>1, <1>5 DEF Rounds
<1>8. Only(s)
  <2> SUFFICES ASSUME NEW u \in Subs \ {s}
               PROVE  Same(u) /\ Around(u)
    BY DEF Only
  <2>1. Same(u)
    BY <1>5, <1>6 DEF Same
  <2> QED BY <1>4, <1>5, <1>7, <2>1 DEF Around
<1>9. Types'
    BY <1>1, <1>3, <1>4, <1>5 DEF Types
<1>10. Counted' /\ Table' = Table
    BY <1>1, <1>3, <1>5, <1>6, TableSame
<1>11. Rounds'
    BY <1>1, <1>4, <1>5 DEF Rounds
<1>12. FlushRange'
    BY <1>1, <1>5, <1>7 DEF FlushRange
<1>13. Shared'
    BY <1>9, <1>10, <1>11, <1>12 DEF Shared
<1>14. Course(s)' /\ InOrder(s)' /\ Forgotten(s)'
    BY <1>1, <1>3, <1>5, <1>6 DEF One, Course, InOrder, Forgotten, Open
<1>15. Owes(s)'
    BY <1>1, <1>2, <1>3, <1>5, <1>6 DEF One, Owes
<1>16. Primed(s)' => Primed(s) /\ sub[s].state = "in"
    BY <1>3, <1>5, <1>6, <1>10 DEF Primed, Table
<1>17. Selected(1)' = Selected(1)
    BY <1>5 DEF Selected
<1>18. ValueHeld(s)'
    BY <1>1, <1>3, <1>5, <1>6, <1>16 DEF One, ValueHeld, HasValue
<1>19. EventsHeld(s)'
  <2> SUFFICES ASSUME Primed(s)', NEW n \in Selected(1)
               PROVE  Held(s, n)'
    BY <1>17 DEF EventsHeld
  <2>1. Held(s, n) /\ n \in Nat
    BY <1>1, <1>2, <1>16 DEF One, EventsHeld, Selected
  <2>2. CASE Carried(s, n)
    BY <1>5, <2>2 DEF Held, Carried
  <2>3. CASE sub[s].pending /\ n >= sub[s].min
    <3>1. r.min \in Nat
        BY <1>3, SubscriptionsAssumption DEF SubRecord
    <3> QED BY <1>2, <1>3, <1>6, <2>1, <2>3, <3>1 DEF Held
  <2>4. CASE n = Len(log) /\ n > sub[s].reported
    BY <1>3, <1>6, <1>16, <2>4 DEF Held
  <2> QED BY <2>1, <2>2, <2>3, <2>4 DEF Held
<1>20. FlushHeld(s)'
    BY <1>1, <1>5, <1>16, <1>17 DEF One, FlushHeld, Flushed
<1>21. One(s)'
    BY <1>14, <1>15, <1>18, <1>19, <1>20 DEF One
<1> QED BY <1>8, <1>13, <1>21, StepOfOne

\* The attribute changes: the setter has yet to tell everyone.
LEMMA SetValueStep ==
    ASSUME IInv, NEW g \in Setters, SetValue(g)
    PROVE  IInv'
<1>1. Types /\ Counted /\ Rounds /\ FlushRange
    BY DEF IInv
<1>2. /\ value + Len(log) < MaxChanges /\ note[g].at = "idle" /\ value' = value + 1
      /\ note' = [note EXCEPT ![g].at = "set"]
      /\ UNCHANGED <<log, fire, sub, perFabric, req, rep, flush, stored, undeleted, told>>
    BY DEF SetValue
<1>3. value \in Nat /\ value' \in Nat /\ Len(log) \in Nat /\ value' + Len(log) <= MaxChanges
    BY <1>1, <1>2, SubscriptionsAssumption DEF Types
<1>4. /\ note' \in [Setters -> [at : {"idle", "set", "mark"}, todo : SUBSET Subs]]
      /\ note'[g].at = "set" /\ note'[g].todo = note[g].todo
      /\ \A h \in Setters \ {g} : note'[h] = note[h]
    BY <1>1, <1>2 DEF Types
<1>5. Types'
    BY <1>1, <1>2, <1>3, <1>4 DEF Types
<1>6. Counted'
    BY <1>1, <1>2, TableSame
<1>7. Rounds'
    BY <1>1, <1>2, <1>4 DEF Rounds
<1>8. FlushRange'
    BY <1>1, <1>2 DEF FlushRange
<1>9. ASSUME NEW u \in Subs
      PROVE  One(u)'
  <2>1. One(u)
    BY DEF IInv
  <2>2. Course(u)' /\ Owes(u)' /\ Forgotten(u)'
    BY <1>2, <2>1 DEF One, Course, Owes, Forgotten, Open
  <2>3. InOrder(u)'
    <3>1. req[u].val \in Nat /\ rep[u].val \in Nat /\ told[u].val \in Nat
        BY <1>1 DEF Types, RequestRecord, ReportRecord
    <3> QED BY <1>2, <1>3, <2>1, <3>1 DEF One, InOrder
  <2>4. ValueHeld(u)'
    BY <1>4 DEF ValueHeld, HasValue
  <2>5. Selected(1)' = Selected(1) /\ (Primed(u)' <=> Primed(u))
    BY <1>2 DEF Selected, Primed, Table
  <2>6. EventsHeld(u)' /\ FlushHeld(u)'
    BY <1>2, <2>1, <2>5 DEF One, EventsHeld, Held, Carried, FlushHeld, Flushed
  <2> QED BY <2>2, <2>3, <2>4, <2>6 DEF One
<1> QED BY <1>5, <1>6, <1>7, <1>8, <1>9 DEF IInv

\* The setter reads the table.
LEMMA OnAttributeChangedStep ==
    ASSUME IInv, NEW g \in Setters, OnAttributeChanged(g)
    PROVE  IInv'
<1> DEFINE m == [at |-> IF Table = {} THEN "idle" ELSE "mark", todo |-> Table]
<1>1. Types /\ Counted /\ Rounds /\ FlushRange
    BY DEF IInv
<1>2. /\ note[g].at = "set" /\ note' = [note EXCEPT ![g] = m]
      /\ UNCHANGED <<value, log, fire, sub, perFabric, req, rep, flush, stored, undeleted, told>>
    BY DEF OnAttributeChanged
<1>3. /\ m \in [at : {"idle", "set", "mark"}, todo : SUBSET Subs]
      /\ m.todo = Table /\ (m.at \in {"idle", "set"} => m.todo = {})
    BY DEF Table
<1> HIDE DEF m
<1>4. note'[g] = m /\ \A h \in Setters \ {g} : note'[h] = note[h]
    BY <1>1, <1>2 DEF Types
<1>5. Types'
    BY <1>1, <1>2, <1>3 DEF Types
<1>6. Counted'
    BY <1>1, <1>2, TableSame
<1>7. Rounds'
    BY <1>1, <1>2, <1>3, <1>4 DEF Rounds
<1>8. FlushRange'
    BY <1>1, <1>2 DEF FlushRange
<1>9. ASSUME NEW u \in Subs
      PROVE  One(u)'
  <2>1. One(u)
    BY DEF IInv
  <2>2. Course(u)' /\ Owes(u)' /\ InOrder(u)' /\ Forgotten(u)'
    BY <1>2, <2>1 DEF One, Course, Owes, InOrder, Forgotten, Open
  <2>3. Selected(1)' = Selected(1) /\ (Primed(u)' <=> Primed(u))
    BY <1>2 DEF Selected, Primed, Table
  <2>4. ValueHeld(u)'
    <3>1. Primed(u) => u \in note'[g].todo
        BY <1>3, <1>4 DEF Primed
    <3> QED BY <2>3, <3>1 DEF ValueHeld, HasValue
  <2>5. EventsHeld(u)' /\ FlushHeld(u)'
    BY <1>2, <2>1, <2>3 DEF One, EventsHeld, Held, Carried, FlushHeld, Flushed
  <2> QED BY <2>2, <2>4, <2>5 DEF One
<1> QED BY <1>5, <1>6, <1>7, <1>8, <1>9 DEF IInv

\* An event is appended to the log: no other is being fanned out.
LEMMA AppendRecordStep ==
    ASSUME IInv, NEW k \in Kinds, AppendRecord(k)
    PROVE  IInv'
<1>1. Types /\ Counted /\ Rounds /\ FlushRange
    BY DEF IInv
<1>2. /\ value + Len(log) < MaxChanges /\ fire.at = "idle" /\ log' = Append(log, k)
      /\ fire' = [fire EXCEPT !.at = "appended"]
      /\ UNCHANGED <<value, note, sub, perFabric, req, rep, flush, stored, undeleted, told>>
    BY DEF AppendRecord
<1>3. /\ value \in Nat /\ Len(log) \in Nat /\ log' \in Seq(Kinds) /\ Len(log') = Len(log) + 1
      /\ value + Len(log') <= MaxChanges /\ \A n \in 1 .. Len(log) : log'[n] = log[n]
    BY <1>1, <1>2, SubscriptionsAssumption DEF Types
<1>4. /\ fire' \in [at : {"idle", "appended", "queue"}, todo : SUBSET Subs]
      /\ fire'.at = "appended" /\ fire'.todo = fire.todo /\ fire.todo = {}
    BY <1>1, <1>2 DEF Types, Rounds
<1>5. Types'
    BY <1>1, <1>2, <1>3, <1>4 DEF Types
<1>6. Counted'
    BY <1>1, <1>2, TableSame
<1>7. Rounds'
    BY <1>1, <1>2, <1>4 DEF Rounds
<1>8. FlushRange'
    BY <1>1, <1>2, <1>3 DEF FlushRange, Types
<1>9. \A n \in Selected(1)' : n \in Selected(1) \/ n = Len(log')
  <2>1. \A n \in 1 .. Len(log') : n \in 1 .. Len(log) \/ n = Len(log')
    BY <1>3
  <2> QED BY <1>3, <2>1 DEF Selected
<1>10. ASSUME NEW u \in Subs
       PROVE  One(u)'
  <2>1. One(u)
    BY DEF IInv
  <2>2. Course(u)' /\ InOrder(u)' /\ Forgotten(u)'
    BY <1>2, <2>1 DEF One, Course, InOrder, Forgotten, Open
  <2>3. sub[u].reported \in Nat /\ sub[u].min \in Nat
    BY <1>1 DEF Types, SubRecord
  <2>4. Owes(u)' /\ Len(log') > sub[u].reported
    BY <1>2, <1>3, <2>1, <2>3 DEF One, Owes
  <2>5. ValueHeld(u)' /\ (Primed(u)' <=> Primed(u))
    BY <1>2, <2>1 DEF One, ValueHeld, HasValue, Primed, Table
  <2>6. EventsHeld(u)'
    <3> SUFFICES ASSUME Primed(u)', NEW n \in Selected(1)'
                 PROVE  Held(u, n)'
        BY DEF EventsHeld
    <3>1. CASE n = Len(log')
        BY <1>2, <1>4, <2>4, <3>1 DEF Held
    <3>2. CASE n \in Selected(1)
      <4>1. Held(u, n)
        BY <2>1, <2>5, <3>2 DEF One, EventsHeld
      <4>2. Carried(u, n) \/ (sub[u].pending /\ n >= sub[u].min)
        BY <1>2, <1>4, <4>1 DEF Held
      <4> QED BY <1>2, <4>2 DEF Held, Carried
    <3> QED BY <1>9, <3>1, <3>2
  <2>7. FlushHeld(u)'
    <3>1. flush.at # "idle" => flush.upto <= Len(log) /\ flush.upto \in Nat
        BY <1>1 DEF FlushRange, Types
    <3>2. \A n \in Selected(1)' : flush.at # "idle" /\ n <= flush.upto => n \in Selected(1)
        BY <1>3, <1>9, <3>1
    <3> QED BY <1>2, <2>1, <2>5, <3>2 DEF One, FlushHeld, Flushed
  <2> QED BY <2>2, <2>4, <2>5, <2>6, <2>7 DEF One
<1> QED BY <1>5, <1>6, <1>7, <1>8, <1>10 DEF IInv

\* The emitter reads the table.
LEMMA OnEventFiredStep ==
    ASSUME IInv, OnEventFired
    PROVE  IInv'
<1> DEFINE M == IF log[Len(log)] = "other" THEN {} ELSE Table
           f == [at |-> IF M = {} THEN "idle" ELSE "queue", todo |-> M]
<1>1. Types /\ Counted /\ Rounds /\ FlushRange
    BY DEF IInv
<1>2. /\ fire.at = "appended" /\ fire' = f
      /\ UNCHANGED <<value, note, log, sub, perFabric, req, rep, flush, stored, undeleted, told>>
    BY DEF OnEventFired
<1>3. /\ f \in [at : {"idle", "appended", "queue"}, todo : SUBSET Subs]
      /\ (log[Len(log)] # "other" => f.todo = Table)
      /\ (f.at \in {"idle", "appended"} => f.todo = {})
  <2>1. M \in SUBSET Subs
    BY DEF Table
  <2> QED BY <2>1
<1> HIDE DEF f, M
<1>4. Types'
    BY <1>1, <1>2, <1>3 DEF Types
<1>5. Counted'
    BY <1>1, <1>2, TableSame
<1>6. Rounds'
    BY <1>1, <1>2, <1>3 DEF Rounds
<1>7. FlushRange'
    BY <1>1, <1>2 DEF FlushRange
<1>8. ASSUME NEW u \in Subs
      PROVE  One(u)'
  <2>1. One(u)
    BY DEF IInv
  <2>2. Course(u)' /\ Owes(u)' /\ InOrder(u)' /\ Forgotten(u)'
    BY <1>2, <2>1 DEF One, Course, Owes, InOrder, Forgotten, Open
  <2>3. Selected(1)' = Selected(1) /\ (Primed(u)' <=> Primed(u))
    BY <1>2 DEF Selected, Primed, Table
  <2>4. ValueHeld(u)' /\ FlushHeld(u)'
    BY <1>2, <2>1, <2>3 DEF One, ValueHeld, HasValue, FlushHeld, Flushed
  <2>5. EventsHeld(u)'
    <3> SUFFICES ASSUME Primed(u), NEW n \in Selected(1)
                 PROVE  Held(u, n)'
        BY <2>3 DEF EventsHeld
    <3>1. Held(u, n) /\ log[n] # "other"
        BY <2>1 DEF One, EventsHeld, Selected
    <3>2. n = Len(log) => u \in fire'.todo
        BY <1>2, <1>3, <3>1 DEF Primed
    <3> QED BY <1>2, <3>1, <3>2 DEF Held, Carried
  <2> QED BY <2>2, <2>4, <2>5 DEF One
<1> QED BY <1>4, <1>5, <1>6, <1>7, <1>8 DEF IInv

-----------------------------------------------------------------------------
(* The flush begins and ends *)

\* The fabric's subscriptions are to be flushed.
LEMMA FlushFabricStep ==
    ASSUME IInv, FlushFabric
    PROVE  IInv'
<1> DEFINE upto == IF fire.at = "idle" THEN Len(log) ELSE Len(log) - 1
           f == [flush EXCEPT !.at = "run", !.todo = Table, !.upto = upto]
<1>1. Types /\ Counted /\ Rounds /\ FlushRange
    BY DEF IInv
<1>2. /\ flush.at = "idle" /\ upto > 0 /\ flush' = f
      /\ UNCHANGED <<value, note, log, fire, sub, perFabric, req, rep, stored, undeleted, told>>
    BY DEF FlushFabric
<1>3. Len(log) \in Nat /\ upto \in Nat /\ upto <= Len(log) /\ (fire.at # "idle" => upto < Len(log))
    BY <1>1, <1>2 DEF Types
<1> HIDE DEF upto
<1>4. /\ f \in [at : {"idle", "run", "done"}, todo : SUBSET Subs, upto : Nat, missed : SUBSET Subs]
      /\ f.at = "run" /\ f.todo = Table /\ f.upto = upto
    BY <1>1, <1>3 DEF Types, Table
<1> HIDE DEF f
<1>5. Types'
    BY <1>1, <1>2, <1>4 DEF Types
<1>6. Counted'
    BY <1>1, <1>2, TableSame
<1>7. Rounds'
    BY <1>1, <1>2 DEF Rounds
<1>8. FlushRange'
    BY <1>2, <1>3, <1>4 DEF FlushRange
<1>9. ASSUME NEW u \in Subs
      PROVE  One(u)'
  <2>1. One(u)
    BY DEF IInv
  <2>2. Course(u)' /\ Owes(u)' /\ InOrder(u)' /\ Forgotten(u)'
    BY <1>2, <2>1 DEF One, Course, Owes, InOrder, Forgotten, Open
  <2>3. Selected(1)' = Selected(1) /\ (Primed(u)' <=> Primed(u))
    BY <1>2 DEF Selected, Primed, Table
  <2>4. ValueHeld(u)' /\ EventsHeld(u)'
    BY <1>2, <2>1, <2>3 DEF One, ValueHeld, HasValue, EventsHeld, Held, Carried
  <2>5. FlushHeld(u)'
    BY <1>2, <1>4, <2>3 DEF FlushHeld, Primed
  <2> QED BY <2>2, <2>4, <2>5 DEF One
<1> QED BY <1>5, <1>6, <1>7, <1>8, <1>9 DEF IInv

\* The flush returns: it has been to everyone, and no report of its own is out.
LEMMA FlushReturnsStep ==
    ASSUME IInv, FlushReturns
    PROVE  IInv'
<1> DEFINE f == [flush EXCEPT !.at = "done"]
<1>1. Types /\ Counted /\ Rounds /\ FlushRange
    BY DEF IInv
<1>2. /\ flush.at = "run" /\ flush.todo = {} /\ flush' = f
      /\ \A u \in Subs : rep[u].at # "idle" => ~rep[u].flushed
      /\ UNCHANGED <<value, note, log, fire, sub, perFabric, req, rep, stored, undeleted, told>>
    BY DEF FlushReturns
<1>3. /\ f \in [at : {"idle", "run", "done"}, todo : SUBSET Subs, upto : Nat, missed : SUBSET Subs]
      /\ f.at = "done" /\ f.todo = flush.todo /\ f.upto = flush.upto /\ f.missed = flush.missed
    BY <1>1 DEF Types
<1> HIDE DEF f
<1>4. Types'
    BY <1>1, <1>2, <1>3 DEF Types
<1>5. Counted'
    BY <1>1, <1>2, TableSame
<1>6. Rounds' /\ FlushRange'
    BY <1>1, <1>2, <1>3 DEF Rounds, FlushRange
<1>7. ASSUME NEW u \in Subs
      PROVE  One(u)'
  <2>1. One(u)
    BY DEF IInv
  <2>2. Course(u)' /\ Owes(u)' /\ InOrder(u)' /\ Forgotten(u)'
    BY <1>2, <2>1 DEF One, Course, Owes, InOrder, Forgotten, Open
  <2>3. Selected(1)' = Selected(1) /\ (Primed(u)' <=> Primed(u))
    BY <1>2 DEF Selected, Primed, Table
  <2>4. ValueHeld(u)' /\ EventsHeld(u)'
    BY <1>2, <2>1, <2>3 DEF One, ValueHeld, HasValue, EventsHeld, Held, Carried
  <2>5. FlushHeld(u)'
    BY <1>2, <1>3, <2>1, <2>3 DEF One, FlushHeld, Flushed
  <2> QED BY <2>2, <2>4, <2>5 DEF One
<1> QED BY <1>4, <1>5, <1>6, <1>7 DEF IInv

-----------------------------------------------------------------------------
(* Reports *)

\* What a drain takes is what is owed, and it leaves nothing owed that the log has.
LEMMA DrainTakes ==
    ASSUME Types, NEW s \in Subs, Owes(s)
    PROVE  /\ Drained(sub[s]) \in Events /\ Drained(sub[s]) \subseteq 1 .. Len(log)
           /\ \A n \in Selected(1) : sub[s].pending /\ n >= sub[s].min => n \in Drained(sub[s])
           /\ \A n \in Selected(1) : sub[s].pending /\ n = Len(log) => n \in Drained(sub[s])
<1>1. Len(log) \in Nat /\ Len(log) \in 0 .. MaxChanges
    BY SubscriptionsAssumption DEF Types
<1>2. CASE sub[s].pending
  <2>1. sub[s].min \in 1 .. Len(log) /\ Drained(sub[s]) = Selected(sub[s].min)
    BY <1>2 DEF Owes, Drained
  <2>2. Selected(sub[s].min) \in Events
    BY <1>1, <2>1, SelectedEvents
  <2> QED BY <1>1, <2>1, <2>2 DEF Selected
<1>3. CASE ~sub[s].pending
    BY <1>3 DEF Drained, Events
<1> QED BY <1>2, <1>3

\* A tick claims the subscription, and drains the events that are due.
LEMMA TickStep ==
    ASSUME IInv, NEW s \in Subs, NEW due \in BOOLEAN, Tick(s, due)
    PROVE  IInv'
<1> DEFINE drains == sub[s].urgent \/ due
           E == IF drains THEN Drained(sub[s]) ELSE {}
           r == IF drains THEN DrainEvents(sub[s]) ELSE sub[s]
           p == [NoReport EXCEPT !.at = IF E = {} THEN "claimed" ELSE "report", !.events = E]
<1>1. Types /\ Counted /\ Rounds /\ FlushRange /\ One(s) /\ sub[s] \in SubRecord
    BY DEF IInv, Types
<1>2. Len(log) \in Nat /\ Len(log) \in 0 .. MaxChanges /\ sub[s].reported \in Nat /\ value \in Nat
    BY <1>1, SubscriptionsAssumption DEF Types, SubRecord
<1>3. /\ E \in Events /\ E \subseteq 1 .. Len(log) /\ r \in SubRecord
      /\ r.state = sub[s].state /\ r.priming = sub[s].priming /\ r.dirty = sub[s].dirty
      /\ r.term = sub[s].term /\ r.target = sub[s].target
      /\ \/ r = sub[s]
         \/ /\ ~r.pending /\ E = Drained(sub[s])
            /\ r.reported = IF sub[s].pending THEN Len(log) ELSE sub[s].reported
  <2>1. CASE drains
    <3>1. E = Drained(sub[s]) /\ r = DrainEvents(sub[s])
        BY <2>1
    <3>2. Drained(sub[s]) \in Events /\ Drained(sub[s]) \subseteq 1 .. Len(log)
        BY <1>1, DrainTakes DEF One
    <3> QED BY <1>1, <1>2, <3>1, <3>2, DrainRecord
  <2>2. CASE ~drains
    BY <1>1, <2>2 DEF Events
  <2> QED BY <2>1, <2>2
<1>4. /\ Open(s) /\ ~sub[s].priming /\ rep[s].at = "idle"
      /\ sub' = [sub EXCEPT ![s] = r] /\ rep' = [rep EXCEPT ![s] = p]
      /\ UNCHANGED <<value, note, log, fire, perFabric, req, flush, stored, undeleted, told>>
    BY DEF Tick
<1> HIDE DEF r, E, drains
<1>5. /\ p \in ReportRecord /\ p.events = E /\ p.attrs = FALSE /\ p.flushed = FALSE /\ p.val = 0
      /\ p.at \in {"claimed", "report"} /\ (p.at = "claimed" => E = {})
  <2> DEFINE a == IF E = {} THEN "claimed" ELSE "report"
  <2>1. p = [NoReport EXCEPT !.at = a, !.events = E] /\ NoReport \in ReportRecord
    BY NewRecords
  <2>2. a \in {"claimed", "report"} /\ (a = "claimed" => E = {})
    OBVIOUS
  <2> HIDE DEF p, a
  <2>3. p \in ReportRecord /\ p.at = a /\ p.events = E /\ p.attrs = NoReport.attrs
        /\ p.flushed = NoReport.flushed /\ p.val = NoReport.val
    BY <1>3, <2>1, <2>2 DEF ReportRecord
  <2> QED BY <2>2, <2>3 DEF NoReport
<1> HIDE DEF p
<1>6. /\ sub'[s] = r /\ \A u \in Subs \ {s} : sub'[u] = sub[u]
      /\ rep'[s] = p /\ \A u \in Subs \ {s} : rep'[u] = rep[u]
    BY <1>1, <1>4 DEF Types
<1>7. Only(s)
  <2>1. \A u \in Subs \ {s} : Same(u)
    BY <1>4, <1>6 DEF Same
  <2> QED BY <1>4, <2>1, Frame
<1>8. Types'
    BY <1>1, <1>3, <1>4, <1>5 DEF Types
<1>9. Counted' /\ Table' = Table
    BY <1>1, <1>3, <1>4, <1>6, TableSame
<1>10. Shared'
    BY <1>1, <1>4, <1>8, <1>9 DEF Shared, Rounds, FlushRange
<1>11. ~rep[s].attrs /\ rep[s].events = {}
    BY <1>1, <1>4 DEF One, Course
<1>12. Course(s)' /\ Forgotten(s)'
    BY <1>1, <1>3, <1>4, <1>5, <1>6 DEF One, Course, Forgotten, Open
<1>13. Owes(s)'
    BY <1>1, <1>2, <1>3, <1>4, <1>5, <1>6 DEF One, Owes
<1>14. InOrder(s)'
    BY <1>1, <1>2, <1>4, <1>5, <1>6 DEF One, InOrder
<1>15. Primed(s)' => Primed(s)
    BY <1>3, <1>4, <1>6, <1>9 DEF Primed
<1>16. Selected(1)' = Selected(1)
    BY <1>4 DEF Selected
<1>17. ValueHeld(s)'
    BY <1>1, <1>3, <1>4, <1>6, <1>11, <1>15 DEF One, ValueHeld, HasValue
<1>18. EventsHeld(s)'
  <2> SUFFICES ASSUME Primed(s), NEW n \in Selected(1)
               PROVE  Held(s, n)'
    BY <1>15, <1>16 DEF EventsHeld
  <2>1. Held(s, n)
    BY <1>1 DEF One, EventsHeld
  <2>2. CASE Carried(s, n)
    BY <1>4, <1>11, <2>2 DEF Held, Carried
  <2>3. CASE ~Carried(s, n) /\ r = sub[s]
    BY <1>4, <1>6, <2>1, <2>3 DEF Held
  <2>4. CASE ~Carried(s, n) /\ r # sub[s]
    <3>1. /\ E = Drained(sub[s])
          /\ r.reported = IF sub[s].pending THEN Len(log) ELSE sub[s].reported
        BY <1>3, <2>4
    <3>2. CASE n \in E
        BY <1>5, <1>6, <3>2 DEF Held, Carried
    <3>3. CASE n \notin E
      <4>1. n = Len(log) /\ n > sub[s].reported /\ (fire.at = "appended" \/ s \in fire.todo)
            /\ ~sub[s].pending
        BY <1>1, <2>1, <2>4, <3>1, <3>3, DrainTakes DEF One, Held
      <4> QED BY <1>4, <1>6, <3>1, <4>1 DEF Held
    <3> QED BY <3>2, <3>3
  <2> QED BY <2>2, <2>3, <2>4
<1>19. FlushHeld(s)'
    BY <1>1, <1>4, <1>5, <1>6, <1>11, <1>15, <1>16 DEF One, FlushHeld, Flushed
<1>20. One(s)'
    BY <1>12, <1>13, <1>14, <1>17, <1>18, <1>19 DEF One
<1> QED BY <1>7, <1>10, <1>20, StepOfOne

\* A change is to be reported: the report has yet to read the value.
LEMMA DrainDirtyStep ==
    ASSUME IInv, NEW s \in Subs, DrainDirty(s)
    PROVE  IInv'
<1> DEFINE r == [sub[s] EXCEPT !.dirty = FALSE]
           p == [rep[s] EXCEPT !.at = "report", !.attrs = TRUE]
<1>1. Types /\ Counted /\ Rounds /\ FlushRange /\ One(s) /\ sub[s] \in SubRecord
      /\ rep[s] \in ReportRecord
    BY DEF IInv, Types
<1>2. /\ r \in SubRecord /\ r.state = sub[s].state /\ r.priming = sub[s].priming
      /\ r.pending = sub[s].pending /\ r.min = sub[s].min /\ r.reported = sub[s].reported
      /\ r.term = sub[s].term /\ r.target = sub[s].target
    BY <1>1 DEF SubRecord
<1>3. /\ p \in ReportRecord /\ p.at = "report" /\ p.attrs /\ p.events = rep[s].events
      /\ p.val = rep[s].val /\ p.flushed = rep[s].flushed
    BY <1>1 DEF ReportRecord
<1>4. /\ rep[s].at = "claimed" /\ sub' = [sub EXCEPT ![s] = r] /\ rep' = [rep EXCEPT ![s] = p]
      /\ UNCHANGED <<value, note, log, fire, perFabric, req, flush, stored, undeleted, told>>
    BY DEF DrainDirty
<1> HIDE DEF r, p
<1>5. /\ sub'[s] = r /\ \A u \in Subs \ {s} : sub'[u] = sub[u]
      /\ rep'[s] = p /\ \A u \in Subs \ {s} : rep'[u] = rep[u]
    BY <1>1, <1>4 DEF Types
<1>6. Only(s)
  <2>1. \A u \in Subs \ {s} : Same(u)
    BY <1>4, <1>5 DEF Same
  <2> QED BY <1>4, <2>1, Frame
<1>7. Types'
    BY <1>1, <1>2, <1>3, <1>4 DEF Types
<1>8. Counted' /\ Table' = Table
    BY <1>1, <1>2, <1>4, <1>5, TableSame
<1>9. Shared'
    BY <1>1, <1>4, <1>7, <1>8 DEF Shared, Rounds, FlushRange
<1>10. Course(s)' /\ Owes(s)' /\ InOrder(s)' /\ Forgotten(s)'
    BY <1>1, <1>2, <1>3, <1>4, <1>5 DEF One, Course, Owes, InOrder, Forgotten, Open
<1>11. Primed(s)' => Primed(s)
    BY <1>2, <1>4, <1>5, <1>8 DEF Primed
<1>12. Selected(1)' = Selected(1)
    BY <1>4 DEF Selected
<1>13. ValueHeld(s)'
    BY <1>3, <1>5 DEF ValueHeld, HasValue
<1>14. EventsHeld(s)'
    BY <1>1, <1>2, <1>3, <1>4, <1>5, <1>11, <1>12 DEF One, EventsHeld, Held, Carried
<1>15. FlushHeld(s)'
    BY <1>1, <1>3, <1>4, <1>5, <1>11, <1>12 DEF One, FlushHeld, Flushed
<1>16. One(s)'
    BY <1>10, <1>13, <1>14, <1>15 DEF One
<1> QED BY <1>6, <1>9, <1>16, StepOfOne

\* Nothing is due, or an empty report is.
LEMMA HeartbeatStep ==
    ASSUME IInv, NEW s \in Subs, Heartbeat(s)
    PROVE  IInv'
<1>1. Types /\ Counted /\ Rounds /\ FlushRange /\ One(s) /\ rep[s] \in ReportRecord
    BY DEF IInv, Types
<1>2. PICK at \in {"idle", "report"} : rep' = [rep EXCEPT ![s].at = at]
    BY DEF Heartbeat
<1> DEFINE p == [rep[s] EXCEPT !.at = at]
<1>3. /\ p \in ReportRecord /\ p.at = at /\ p.attrs = rep[s].attrs /\ p.events = rep[s].events
      /\ p.val = rep[s].val /\ p.flushed = rep[s].flushed
    BY <1>1 DEF ReportRecord
<1>4. /\ rep[s].at = "claimed" /\ rep' = [rep EXCEPT ![s] = p]
      /\ UNCHANGED <<value, note, log, fire, sub, perFabric, req, flush, stored, undeleted, told>>
    BY <1>2 DEF Heartbeat
<1> HIDE DEF p
<1>5. rep'[s] = p /\ \A u \in Subs \ {s} : rep'[u] = rep[u]
    BY <1>1, <1>4 DEF Types
<1>6. Only(s)
  <2>1. \A u \in Subs \ {s} : Same(u)
    BY <1>4, <1>5 DEF Same
  <2> QED BY <1>4, <2>1, Frame
<1>7. Types'
    BY <1>1, <1>3, <1>4 DEF Types
<1>8. Counted'
    BY <1>1, <1>4, TableSame
<1>9. Shared'
    BY <1>1, <1>4, <1>7, <1>8 DEF Shared, Rounds, FlushRange
<1>10. ~rep[s].attrs /\ rep[s].events = {}
    BY <1>1, <1>4 DEF One, Course
<1>11. Course(s)' /\ Owes(s)' /\ InOrder(s)' /\ Forgotten(s)'
    BY <1>1, <1>3, <1>4, <1>5, <1>10 DEF One, Course, Owes, InOrder, Forgotten, Open
<1>12. Selected(1)' = Selected(1) /\ (Primed(s)' <=> Primed(s))
    BY <1>4 DEF Selected, Primed, Table
<1>13. ValueHeld(s)'
    BY <1>1, <1>3, <1>4, <1>5, <1>10, <1>12 DEF One, ValueHeld, HasValue
<1>14. EventsHeld(s)'
    BY <1>1, <1>3, <1>4, <1>5, <1>12 DEF One, EventsHeld, Held, Carried
<1>15. FlushHeld(s)'
    BY <1>1, <1>3, <1>4, <1>5, <1>12 DEF One, FlushHeld, Flushed
<1>16. One(s)'
    BY <1>11, <1>13, <1>14, <1>15 DEF One
<1> QED BY <1>6, <1>9, <1>16, StepOfOne

\* The reporter reads the value, or finds that it has no route.
LEMMA ReadStep ==
    ASSUME IInv, NEW s \in Subs, Read(s)
    PROVE  IInv'
<1> DEFINE v == IF rep[s].attrs THEN value ELSE 0
           p == IF sub[s].target THEN [rep[s] EXCEPT !.at = "send", !.val = v] ELSE PartDone(rep[s])
<1>1. Types /\ Counted /\ Rounds /\ FlushRange /\ One(s) /\ rep[s] \in ReportRecord
    BY DEF IInv, Types
<1>2. v \in 0 .. MaxChanges /\ v <= value /\ value \in Nat
    BY <1>1, SubscriptionsAssumption DEF Types
<1>3. v = value \/ ~rep[s].attrs
    OBVIOUS
<1>4. /\ rep[s].at = "report" /\ rep' = [rep EXCEPT ![s] = p]
      /\ UNCHANGED <<value, note, log, fire, sub, perFabric, req, flush, stored, undeleted, told>>
    BY DEF Read
<1> HIDE DEF v
<1>5. /\ p \in ReportRecord /\ (p.flushed => rep[s].flushed)
      /\ (sub[s].target => /\ p.at = "send" /\ p.val = v /\ p.attrs = rep[s].attrs
                           /\ p.events = rep[s].events /\ p.flushed = rep[s].flushed)
      /\ (~sub[s].target => /\ p.at = "report" \/ p = NoReport
                            /\ p.events = {} /\ p.val \in {0, rep[s].val})
  <2>1. CASE sub[s].target
    <3>1. p = [rep[s] EXCEPT !.at = "send", !.val = v]
        BY <2>1
    <3> HIDE DEF p
    <3>2. /\ p \in ReportRecord /\ p.at = "send" /\ p.val = v /\ p.attrs = rep[s].attrs
          /\ p.events = rep[s].events /\ p.flushed = rep[s].flushed
        BY <1>1, <1>2, <3>1 DEF ReportRecord
    <3> QED BY <2>1, <3>2
  <2>2. CASE ~sub[s].target
    <3>1. p = PartDone(rep[s])
        BY <2>2
    <3> HIDE DEF p
    <3> QED BY <1>1, <2>2, <3>1, PartDoneRecord
  <2> QED BY <2>1, <2>2
<1> HIDE DEF p
<1>6. rep'[s] = p /\ \A u \in Subs \ {s} : rep'[u] = rep[u]
    BY <1>1, <1>4 DEF Types
<1>7. Only(s)
  <2>1. \A u \in Subs \ {s} : Same(u)
    BY <1>4, <1>6 DEF Same
  <2> QED BY <1>4, <2>1, Frame
<1>8. Types'
    BY <1>1, <1>4, <1>5 DEF Types
<1>9. Counted'
    BY <1>1, <1>4, TableSame
<1>10. Shared'
    BY <1>1, <1>4, <1>8, <1>9 DEF Shared, Rounds, FlushRange
<1>11. sub[s].state # "none" /\ ~sub[s].priming
    BY <1>1, <1>4 DEF One, Course
<1>12. NoReport.at = "idle" /\ ~NoReport.attrs /\ NoReport.events = {}
    BY DEF NoReport
<1>13. Course(s)' /\ Owes(s)' /\ Forgotten(s)'
    BY <1>1, <1>4, <1>5, <1>6, <1>11, <1>12 DEF One, Course, Owes, Forgotten, Open
<1>14. InOrder(s)'
    BY <1>1, <1>2, <1>3, <1>4, <1>5, <1>6, <1>12 DEF One, InOrder
<1>15. flush'.at = "done" /\ rep'[s].at # "idle" => ~rep'[s].flushed
    BY <1>1, <1>4, <1>5, <1>6 DEF One, FlushHeld
<1>16. CASE ~sub[s].target
  <2>1. ~Primed(s)'
    BY <1>4, <1>16 DEF Primed
  <2>2. One(s)'
    BY <1>13, <1>14, <1>15, <2>1, Unprimed
  <2> QED BY <1>7, <1>10, <2>2, StepOfOne
<1>17. CASE sub[s].target
  <2>1. Selected(1)' = Selected(1) /\ (Primed(s)' <=> Primed(s))
    BY <1>4 DEF Selected, Primed, Table
  <2>2. ValueHeld(s)'
    BY <1>1, <1>3, <1>4, <1>5, <1>6, <1>17, <2>1 DEF One, ValueHeld, HasValue
  <2>3. EventsHeld(s)'
    BY <1>1, <1>4, <1>5, <1>6, <1>17, <2>1 DEF One, EventsHeld, Held, Carried
  <2>4. FlushHeld(s)'
    BY <1>1, <1>4, <1>5, <1>6, <1>15, <1>17, <2>1 DEF One, FlushHeld, Flushed
  <2>5. One(s)'
    BY <1>13, <1>14, <2>2, <2>3, <2>4 DEF One
  <2> QED BY <1>7, <1>10, <2>5, StepOfOne
<1> QED BY <1>16, <1>17

\* A part of the report is with the peer.
LEMMA SentStep ==
    ASSUME IInv, NEW s \in Subs, Sent(s)
    PROVE  IInv'
<1> DEFINE t == IF rep[s].events # {}
                THEN [told[s] EXCEPT !.events = told[s].events \cup rep[s].events]
                ELSE IF rep[s].attrs THEN [told[s] EXCEPT !.val = rep[s].val] ELSE told[s]
           r == [sub[s] EXCEPT !.errors = 0]
           p == PartDone(rep[s])
<1>1. Types /\ Counted /\ Rounds /\ FlushRange /\ One(s) /\ sub[s] \in SubRecord
      /\ rep[s] \in ReportRecord /\ told[s] \in [val : 0 .. MaxChanges, events : Events]
    BY DEF IInv, Types
<1>2. /\ r \in SubRecord /\ r.state = sub[s].state /\ r.priming = sub[s].priming
      /\ r.pending = sub[s].pending /\ r.min = sub[s].min /\ r.reported = sub[s].reported
      /\ r.term = sub[s].term /\ r.target = sub[s].target /\ r.dirty = sub[s].dirty
  <2>1. 0 \in 0 .. sendErrorRetryLimit
    BY DEF sendErrorRetryLimit
  <2> QED BY <1>1, <2>1 DEF SubRecord
<1>3. /\ t \in [val : 0 .. MaxChanges, events : Events]
      /\ t.events = told[s].events \cup rep[s].events
      /\ t.val = IF rep[s].events = {} /\ rep[s].attrs THEN rep[s].val ELSE told[s].val
  <2>1. CASE rep[s].events # {}
    <3>1. t = [told[s] EXCEPT !.events = told[s].events \cup rep[s].events]
        BY <2>1
    <3> HIDE DEF t
    <3> QED BY <1>1, <2>1, <3>1 DEF ReportRecord, Events
  <2>2. CASE rep[s].events = {} /\ rep[s].attrs
    <3>1. t = [told[s] EXCEPT !.val = rep[s].val]
        BY <2>2
    <3> HIDE DEF t
    <3> QED BY <1>1, <2>2, <3>1 DEF ReportRecord
  <2>3. CASE rep[s].events = {} /\ ~rep[s].attrs
    BY <1>1, <2>3
  <2> QED BY <2>1, <2>2, <2>3
<1>4. /\ rep[s].at = "send" /\ sub' = [sub EXCEPT ![s] = r] /\ rep' = [rep EXCEPT ![s] = p]
      /\ told' = [told EXCEPT ![s] = IF Open(s) THEN t ELSE @]
      /\ UNCHANGED <<value, note, log, fire, perFabric, req, flush, stored, undeleted>>
    BY DEF Sent, Tell
<1>5. /\ p \in ReportRecord /\ p.events = {} /\ (p.at = "report" \/ p = NoReport)
      /\ (rep[s].attrs /\ rep[s].events # {} => p.at = "report" /\ p.attrs)
      /\ (p.flushed => rep[s].flushed) /\ p.val \in {0, rep[s].val}
    BY <1>1, PartDoneRecord
<1> HIDE DEF r, p, t
<1>6. /\ sub'[s] = r /\ \A u \in Subs \ {s} : sub'[u] = sub[u]
      /\ rep'[s] = p /\ \A u \in Subs \ {s} : rep'[u] = rep[u]
      /\ told'[s] = (IF Open(s) THEN t ELSE told[s]) /\ \A u \in Subs \ {s} : told'[u] = told[u]
    BY <1>1, <1>4 DEF Types
<1>7. Only(s)
  <2>1. \A u \in Subs \ {s} : Same(u)
    BY <1>4, <1>6 DEF Same
  <2> QED BY <1>4, <2>1, Frame
<1>8. Types'
    BY <1>1, <1>2, <1>3, <1>4, <1>5 DEF Types
<1>9. Counted' /\ Table' = Table
    BY <1>1, <1>2, <1>4, <1>6, TableSame
<1>10. Shared'
    BY <1>1, <1>4, <1>8, <1>9 DEF Shared, Rounds, FlushRange
<1>11. NoReport.at = "idle" /\ ~NoReport.attrs /\ NoReport.events = {}
    BY DEF NoReport
<1>12. sub[s].state # "none" /\ ~sub[s].priming
    BY <1>1, <1>4 DEF One, Course
<1>13. Course(s)' /\ Owes(s)' /\ Forgotten(s)'
    BY <1>1, <1>2, <1>4, <1>5, <1>6, <1>11, <1>12 DEF One, Course, Owes, Forgotten, Open
<1>14. InOrder(s)'
  <2>1. value \in Nat
    BY <1>1 DEF Types
  <2> QED BY <1>1, <1>3, <1>4, <1>5, <1>6, <1>11, <2>1 DEF One, InOrder
<1>15. Primed(s)' => Primed(s) /\ Open(s)
    BY <1>2, <1>4, <1>6, <1>9 DEF Primed, Table, Open
<1>16. Selected(1)' = Selected(1)
    BY <1>4 DEF Selected
<1>17. ValueHeld(s)'
  <2> SUFFICES ASSUME s \notin Former, Primed(s)'
               PROVE  HasValue(s)'
    BY DEF ValueHeld
  <2>1. Open(s) /\ HasValue(s) /\ told'[s] = t
    BY <1>1, <1>6, <1>15 DEF One, ValueHeld
  <2>2. req[s].at # "stream"
    BY <1>1, <1>12, <2>1 DEF One, Course
  <2>3. CASE sub[s].dirty \/ \E g \in Setters : note[g].at = "set" \/ s \in note[g].todo
    BY <1>2, <1>4, <1>6, <2>3 DEF HasValue
  <2>4. CASE rep[s].events # {} /\ rep[s].attrs
    BY <1>5, <1>6, <2>4 DEF HasValue
  <2>5. CASE rep[s].events = {} /\ rep[s].attrs /\ (rep[s].val = value \/ told[s].val = value)
    <3>1. rep[s].val = value
      <4>1. told[s].val <= rep[s].val /\ rep[s].val <= value
        BY <1>1, <1>4, <2>5 DEF One, InOrder
      <4>2. rep[s].val \in Nat /\ value \in Nat
        BY <1>1 DEF Types, ReportRecord
      <4> QED BY <2>5, <4>1, <4>2
    <3> QED BY <1>3, <1>4, <2>1, <2>2, <2>5, <3>1 DEF HasValue
  <2>6. CASE ~rep[s].attrs /\ told[s].val = value
    BY <1>3, <1>4, <2>1, <2>2, <2>6 DEF HasValue
  <2> QED BY <1>4, <2>1, <2>2, <2>3, <2>4, <2>5, <2>6 DEF HasValue
<1>18. EventsHeld(s)'
    BY <1>1, <1>2, <1>3, <1>4, <1>6, <1>15, <1>16 DEF One, EventsHeld, Held, Carried
<1>19. FlushHeld(s)'
    BY <1>1, <1>3, <1>4, <1>5, <1>6, <1>15, <1>16 DEF One, FlushHeld, Flushed
<1>20. One(s)'
    BY <1>13, <1>14, <1>17, <1>18, <1>19 DEF One
<1> QED BY <1>7, <1>10, <1>20, StepOfOne

\* What a failed report carried is owed again.
LEMMA RequeueOwes ==
    ASSUME Types, NEW s \in Subs, Owes(s)
    PROVE  LET r == Requeue(s) IN
           /\ r \in SubRecord /\ r.state = sub[s].state /\ r.priming = sub[s].priming
           /\ r.term = sub[s].term /\ r.target = sub[s].target /\ r.errors = sub[s].errors
           /\ r.reported <= sub[s].reported
           /\ (sub[s].dirty => r.dirty)
           /\ (r.pending => r.min \in 1 .. Len(log))
           /\ (sub[s].pending => r.pending /\ r.min <= sub[s].min)
           /\ Open(s) => /\ rep[s].events = {} /\ rep[s].attrs => r.dirty
                         /\ \A n \in rep[s].events : r.pending /\ r.min <= n
<1> DEFINE r == Requeue(s)
<1>1. sub[s] \in SubRecord /\ rep[s] \in ReportRecord /\ rep[s].events \in Events
      /\ sub[s].min \in Nat /\ sub[s].reported \in Nat
    BY DEF Types, ReportRecord, SubRecord
<1>2. CASE rep[s].events # {}
  <2> DEFINE m == Min(rep[s].events)
  <2>1. m \in rep[s].events /\ (\A n \in rep[s].events : m <= n) /\ r = RequeueEvents(sub[s], m)
    BY <1>1, <1>2, FirstEvent DEF Requeue
  <2>2. m \in 1 .. MaxChanges /\ m \in 1 .. Len(log)
    BY <1>1, <2>1 DEF Events, Owes
  <2> HIDE DEF m, r
  <2>3. /\ r \in SubRecord /\ r.state = sub[s].state /\ r.priming = sub[s].priming
        /\ r.dirty = sub[s].dirty
        /\ r.term = sub[s].term /\ r.target = sub[s].target /\ r.errors = sub[s].errors
        /\ r.reported <= sub[s].reported
        /\ (sub[s].pending => r.pending /\ r.min <= sub[s].min)
        /\ (sub[s].state # "closed" => r.pending /\ r.min <= m)
        /\ (r.pending => (sub[s].pending /\ r.min = sub[s].min) \/ r.min = m)
    BY <1>1, <2>1, <2>2, RequeueRecord
  <2>4. r.pending => r.min \in 1 .. Len(log)
    BY <2>2, <2>3 DEF Owes
  <2>5. Open(s) => \A n \in rep[s].events : r.pending /\ r.min <= n
    <3> SUFFICES ASSUME Open(s), NEW n \in rep[s].events
                 PROVE  r.pending /\ r.min <= n
        OBVIOUS
    <3>1. r.pending /\ r.min <= m /\ m <= n /\ n \in Nat /\ m \in Nat /\ r.min \in Nat
        BY <1>1, <2>1, <2>2, <2>3 DEF Open, Events, SubRecord
    <3> QED BY <3>1
  <2> QED BY <1>2, <2>3, <2>4, <2>5 DEF r
<1>3. CASE rep[s].events = {} /\ rep[s].attrs
  <2>1. r = MarkDirty(sub[s])
    BY <1>3 DEF Requeue
  <2> HIDE DEF r
  <2>2. /\ r \in SubRecord /\ r.state = sub[s].state /\ r.priming = sub[s].priming
        /\ r.pending = sub[s].pending /\ r.min = sub[s].min
        /\ r.term = sub[s].term /\ r.target = sub[s].target /\ r.errors = sub[s].errors
        /\ r.reported = sub[s].reported
        /\ (sub[s].dirty => r.dirty)
        /\ (sub[s].state \in {"in", "leaving"} => r.dirty)
    BY <1>1, <2>1, MarkDirtyRecord
  <2> QED BY <1>1, <1>3, <2>2 DEF r, Owes, Open
<1>4. CASE rep[s].events = {} /\ ~rep[s].attrs
  <2>1. r = sub[s]
    BY <1>4 DEF Requeue
  <2> HIDE DEF r
  <2> QED BY <1>1, <1>4, <2>1 DEF r, Owes
<1> QED BY <1>2, <1>3, <1>4

\* A send fails: what it carried is owed again, or the subscription ends with it.
LEMMA SendFailsStep ==
    ASSUME IInv, NEW s \in Subs, SendFails(s)
    PROVE  IInv'
<1> DEFINE r == Requeue(s)
           reap == r.target /\ r.errors + 1 > sendErrorRetryLimit
           gone == reap /\ s \in Table
           q == IF ~r.target THEN r
                ELSE [r EXCEPT !.errors = IF reap THEN 0 ELSE r.errors + 1, !.target = ~reap,
                               !.state = IF gone THEN "leaving" ELSE r.state,
                               !.term = r.term \/ gone]
           p == PartDone(rep[s])
           f == IF rep[s].flushed THEN [flush EXCEPT !.missed = flush.missed \cup {s}] ELSE flush
<1>1. Types /\ Counted /\ Rounds /\ FlushRange /\ One(s) /\ sub[s] \in SubRecord
      /\ rep[s] \in ReportRecord
    BY DEF IInv, Types
<1>2. /\ r \in SubRecord /\ r.state = sub[s].state /\ r.priming = sub[s].priming
      /\ r.term = sub[s].term /\ r.target = sub[s].target /\ r.errors = sub[s].errors
      /\ r.reported <= sub[s].reported
      /\ (sub[s].dirty => r.dirty)
      /\ (r.pending => r.min \in 1 .. Len(log))
      /\ (sub[s].pending => r.pending /\ r.min <= sub[s].min)
      /\ (Open(s) => /\ rep[s].events = {} /\ rep[s].attrs => r.dirty
                     /\ \A n \in rep[s].events : r.pending /\ r.min <= n)
    BY <1>1, RequeueOwes DEF One
<1>3. /\ rep[s].at = "send" /\ sub' = [sub EXCEPT ![s] = q] /\ rep' = [rep EXCEPT ![s] = p]
      /\ perFabric' = (IF gone THEN perFabric - 1 ELSE perFabric) /\ flush' = f
      /\ UNCHANGED <<value, note, log, fire, req, stored, undeleted, told>>
    BY DEF SendFails
<1>4. /\ p \in ReportRecord /\ p.events = {} /\ (p.at = "report" \/ p = NoReport)
      /\ (rep[s].attrs /\ rep[s].events # {} => p.at = "report" /\ p.attrs)
      /\ (p.flushed => rep[s].flushed) /\ p.val \in {0, rep[s].val}
    BY <1>1, PartDoneRecord
<1>5. /\ f \in [at : {"idle", "run", "done"}, todo : SUBSET Subs, upto : Nat, missed : SUBSET Subs]
      /\ f.at = flush.at /\ f.todo = flush.todo /\ f.upto = flush.upto
      /\ f.missed \subseteq flush.missed \cup {s} /\ flush.missed \subseteq f.missed
      /\ (rep[s].flushed => s \in f.missed)
    BY <1>1 DEF Types
<1> HIDE DEF r, p, f
<1>6. /\ q \in SubRecord /\ q.priming = r.priming /\ q.dirty = r.dirty /\ q.pending = r.pending
      /\ q.min = r.min /\ q.reported = r.reported
      /\ q.state = (IF gone THEN "leaving" ELSE r.state)
      /\ (q.target => r.target)
      /\ (gone \/ q.term = r.term)
  <2>1. CASE ~r.target
    BY <1>2, <2>1
  <2>2. CASE r.target
    <3> DEFINE e == IF reap THEN 0 ELSE r.errors + 1
               a == IF gone THEN "leaving" ELSE r.state
               b == r.term \/ gone
               c == ~reap
    <3>1. q = [r EXCEPT !.errors = e, !.target = c, !.state = a, !.term = b]
        BY <2>2
    <3>2. e \in 0 .. sendErrorRetryLimit
      <4>1. r.errors \in 0 .. 2
        BY <1>2 DEF SubRecord, sendErrorRetryLimit
      <4> QED BY <2>2, <4>1 DEF sendErrorRetryLimit
    <3>3. a \in {"none", "in", "leaving", "closed"} /\ b \in BOOLEAN /\ c \in BOOLEAN
          /\ (gone \/ b = r.term)
        BY <1>2 DEF SubRecord
    <3> HIDE DEF q, e, b, c, gone, reap
    <3>4. q \in SubRecord /\ q.state = a /\ q.term = b
          /\ q.priming = r.priming /\ q.dirty = r.dirty /\ q.pending = r.pending
          /\ q.min = r.min /\ q.reported = r.reported
      <4> HIDE DEF a
      <4> QED BY <1>2, <3>1, <3>2, <3>3 DEF SubRecord
    <3> QED BY <2>2, <3>3, <3>4
  <2> QED BY <2>1, <2>2
<1>7. gone => s \in Table /\ ~q.target
  <2>1. ASSUME gone PROVE ~q.target
    <3>1. r.target /\ reap /\ r \in SubRecord
        BY <1>2, <2>1
    <3> HIDE DEF reap
    <3> QED BY <3>1 DEF SubRecord
  <2> QED BY <2>1
<1> HIDE DEF q, reap, gone
<1>8. /\ sub'[s] = q /\ \A u \in Subs \ {s} : sub'[u] = sub[u]
      /\ rep'[s] = p /\ \A u \in Subs \ {s} : rep'[u] = rep[u]
    BY <1>1, <1>3 DEF Types
<1>9. Only(s)
  <2> SUFFICES ASSUME NEW u \in Subs \ {s}
               PROVE  Same(u) /\ Around(u)
    BY DEF Only
  <2>1. Same(u)
    BY <1>3, <1>8 DEF Same
  <2> QED BY <1>3, <1>5, <2>1 DEF Around
<1>10. Types'
    BY <1>1, <1>3, <1>4, <1>5, <1>6 DEF Types
<1>11. Counted'
  <2>1. CASE gone
    <3>1. Table' = Table \ {s}
        BY <1>6, <1>8, <2>1 DEF Table
    <3>2. IsFiniteSet(Table) /\ Cardinality(Table) \in Nat /\ perFabric = Cardinality(Table)
          /\ perFabric <= MaxSubscriptionsPerFabric
        BY <1>1, FS_CardinalityType DEF Counted
    <3>3. IsFiniteSet(Table \ {s}) /\ Cardinality(Table \ {s}) = Cardinality(Table) - 1
        BY <1>7, <2>1, <3>2, FS_RemoveElement
    <3>4. perFabric - 1 <= MaxSubscriptionsPerFabric
        BY <3>2, SubscriptionsAssumption
    <3> QED BY <1>3, <2>1, <3>1, <3>2, <3>3, <3>4 DEF Counted
  <2>2. CASE ~gone
    BY <1>1, <1>2, <1>3, <1>6, <1>8, <2>2, TableSame
  <2> QED BY <2>1, <2>2
<1>12. Shared'
    BY <1>1, <1>3, <1>5, <1>10, <1>11 DEF Shared, Rounds, FlushRange
<1>13. NoReport.at = "idle" /\ ~NoReport.attrs /\ NoReport.events = {}
    BY DEF NoReport
<1>14. sub[s].state # "none" /\ ~sub[s].priming
    BY <1>1, <1>3 DEF One, Course
<1>15. Course(s)' /\ Forgotten(s)'
  <2>1. CASE gone
    BY <1>1, <1>2, <1>3, <1>4, <1>6, <1>7, <1>8, <1>13, <1>14, <2>1
       DEF One, Course, Forgotten, Open, Table
  <2>2. CASE ~gone
    BY <1>1, <1>2, <1>3, <1>4, <1>6, <1>8, <1>13, <1>14, <2>2 DEF One, Course, Forgotten, Open
  <2> QED BY <2>1, <2>2
<1>16. Owes(s)'
  <2>1. Len(log) \in Nat /\ sub[s].reported \in Nat /\ r.reported \in Nat
    BY <1>1, <1>2 DEF Types, SubRecord
  <2> QED BY <1>1, <1>2, <1>3, <1>4, <1>6, <1>8, <2>1 DEF One, Owes
<1>17. InOrder(s)'
  <2>1. value \in Nat
    BY <1>1 DEF Types
  <2> QED BY <1>1, <1>3, <1>4, <1>8, <1>13, <2>1 DEF One, InOrder
<1>18. Primed(s)' => Primed(s) /\ Open(s) /\ ~gone
    BY <1>2, <1>3, <1>6, <1>7, <1>8 DEF Primed, Table, Open
<1>19. Selected(1)' = Selected(1)
    BY <1>3 DEF Selected
<1>20. ValueHeld(s)'
    BY <1>1, <1>2, <1>3, <1>4, <1>6, <1>8, <1>18 DEF One, ValueHeld, HasValue
<1>21. EventsHeld(s)'
  <2> SUFFICES ASSUME Primed(s)', NEW n \in Selected(1)
               PROVE  Held(s, n)'
    BY <1>19 DEF EventsHeld
  <2>1. Held(s, n) /\ Open(s)
    BY <1>1, <1>18 DEF One, EventsHeld
  <2>2. n \in Nat /\ sub[s].min \in Nat /\ r.min \in Nat /\ sub[s].reported \in Nat
        /\ r.reported \in Nat
    BY <1>1, <1>2 DEF Types, Selected, SubRecord
  <2>3. CASE n \in rep[s].events \/ (sub[s].pending /\ n >= sub[s].min)
    <3>1. r.pending /\ n >= r.min
        BY <1>2, <2>1, <2>2, <2>3
    <3> QED BY <1>6, <1>8, <3>1 DEF Held
  <2>4. CASE n \in told[s].events \/ (req[s].at = "stream" /\ n \in req[s].events)
    BY <1>3, <2>4 DEF Held, Carried
  <2>5. CASE n = Len(log) /\ n > sub[s].reported /\ (fire.at = "appended" \/ s \in fire.todo)
    <3>1. n > r.reported
        BY <1>2, <2>2, <2>5
    <3> QED BY <1>3, <1>6, <1>8, <2>5, <3>1 DEF Held
  <2> QED BY <2>1, <2>3, <2>4, <2>5 DEF Held, Carried
<1>22. FlushHeld(s)'
    BY <1>1, <1>3, <1>4, <1>5, <1>8, <1>18, <1>19 DEF One, FlushHeld, Flushed
<1>23. One(s)'
    BY <1>15, <1>16, <1>17, <1>20, <1>21, <1>22 DEF One
<1> QED BY <1>9, <1>12, <1>23, StepOfOne

\* A flush comes to a subscription: what it drains covers what the fabric's leaving is
\* to report.
LEMMA FlushOneStep ==
    ASSUME IInv, NEW s \in Subs, FlushOne(s)
    PROVE  IInv'
<1> DEFINE f == [flush EXCEPT !.todo = flush.todo \ {s},
                              !.missed = IF sub[s].priming THEN flush.missed \cup {s} ELSE flush.missed]
<1>1. Types /\ Counted /\ Rounds /\ FlushRange /\ One(s) /\ sub[s] \in SubRecord
      /\ rep[s] \in ReportRecord
    BY DEF IInv, Types
<1>2. /\ flush.at = "run" /\ s \in flush.todo /\ (Skipped(s) \/ rep[s].at = "idle")
      /\ flush' = f
      /\ UNCHANGED <<value, note, log, fire, perFabric, req, stored, undeleted, told>>
    BY DEF FlushOne
<1>3. /\ f \in [at : {"idle", "run", "done"}, todo : SUBSET Subs, upto : Nat, missed : SUBSET Subs]
      /\ f.at = flush.at /\ f.upto = flush.upto /\ f.todo = flush.todo \ {s}
      /\ f.missed \subseteq flush.missed \cup {s} /\ flush.missed \subseteq f.missed
      /\ (sub[s].priming => s \in f.missed)
  <2> DEFINE m == IF sub[s].priming THEN flush.missed \cup {s} ELSE flush.missed
  <2>1. /\ m \in SUBSET Subs /\ m \subseteq flush.missed \cup {s} /\ flush.missed \subseteq m
        /\ (sub[s].priming => s \in m)
    BY <1>1 DEF Types
  <2>2. f = [flush EXCEPT !.todo = flush.todo \ {s}, !.missed = m]
    OBVIOUS
  <2> HIDE DEF f, m
  <2> QED BY <1>1, <2>1, <2>2 DEF Types
<1> HIDE DEF f
<1>4. FlushRange'
    BY <1>1, <1>2, <1>3 DEF FlushRange
<1>5. Selected(1)' = Selected(1)
    BY <1>2 DEF Selected
<1>6. CASE Skipped(s)
  <2>1. UNCHANGED <<sub, rep>>
    BY <1>6 DEF FlushOne
  <2>2. Only(s)
    BY <1>2, <1>3, <2>1 DEF Only, Same, Around
  <2>3. Types' /\ Counted'
    BY <1>1, <1>2, <1>3, <2>1, TableSame DEF Types
  <2>4. Shared'
    BY <1>1, <1>2, <1>4, <2>3 DEF Shared, Rounds
  <2>5. Course(s)' /\ Owes(s)' /\ InOrder(s)' /\ Forgotten(s)'
    BY <1>1, <1>2, <2>1 DEF One, Course, Owes, InOrder, Forgotten, Open
  <2>6. Primed(s)' => Primed(s) /\ sub[s].priming
    BY <1>2, <1>6, <2>1 DEF Primed, Table, Skipped, Open
  <2>7. ValueHeld(s)' /\ EventsHeld(s)'
    BY <1>1, <1>2, <1>5, <2>1, <2>6 DEF One, ValueHeld, HasValue, EventsHeld, Held, Carried
  <2>8. FlushHeld(s)'
    BY <1>2, <1>3, <2>6 DEF FlushHeld
  <2>9. One(s)'
    BY <2>5, <2>7, <2>8 DEF One
  <2> QED BY <2>2, <2>4, <2>9, StepOfOne
<1>7. CASE ~Skipped(s)
  <2> DEFINE E == Drained(sub[s])
             d == sub[s].dirty
             a == IF E = {} /\ ~d THEN "idle" ELSE "report"
             r == [DrainEvents(sub[s]) EXCEPT !.dirty = FALSE]
             p == [NoReport EXCEPT !.at = a, !.events = E, !.attrs = d, !.flushed = TRUE]
  <2>1. /\ sub' = [sub EXCEPT ![s] = r] /\ rep' = [rep EXCEPT ![s] = p]
        /\ Open(s) /\ ~sub[s].priming /\ rep[s].at = "idle"
    BY <1>2, <1>7 DEF FlushOne, Skipped
  <2>2. Len(log) \in Nat /\ Len(log) \in 0 .. MaxChanges /\ sub[s].reported \in Nat
        /\ value \in Nat /\ d \in BOOLEAN /\ flush.upto \in Nat
    BY <1>1, SubscriptionsAssumption DEF Types, SubRecord
  <2>3. /\ r \in SubRecord
        /\ r.state = sub[s].state /\ r.priming = sub[s].priming /\ ~r.dirty
        /\ r.term = sub[s].term /\ r.target = sub[s].target /\ ~r.pending
        /\ r.reported = IF sub[s].pending THEN Len(log) ELSE sub[s].reported
    <3> DEFINE w == DrainEvents(sub[s])
    <3>1. /\ w \in SubRecord
          /\ w.state = sub[s].state /\ w.priming = sub[s].priming
          /\ w.term = sub[s].term /\ w.target = sub[s].target /\ ~w.pending
          /\ w.reported = IF sub[s].pending THEN Len(log) ELSE sub[s].reported
        BY <1>1, <2>2, DrainRecord
    <3> HIDE DEF w
    <3>2. /\ [w EXCEPT !.dirty = FALSE] \in SubRecord
          /\ [w EXCEPT !.dirty = FALSE].state = w.state
          /\ [w EXCEPT !.dirty = FALSE].priming = w.priming
          /\ [w EXCEPT !.dirty = FALSE].dirty = FALSE
          /\ [w EXCEPT !.dirty = FALSE].term = w.term
          /\ [w EXCEPT !.dirty = FALSE].target = w.target
          /\ [w EXCEPT !.dirty = FALSE].pending = w.pending
          /\ [w EXCEPT !.dirty = FALSE].reported = w.reported
        BY <3>1 DEF SubRecord
    <3> QED BY <3>1, <3>2 DEF w
  <2>4. /\ E \in Events /\ E \subseteq 1 .. Len(log)
        /\ \A n \in Selected(1) : sub[s].pending /\ n >= sub[s].min => n \in E
        /\ \A n \in Selected(1) : sub[s].pending /\ n = Len(log) => n \in E
    BY <1>1, DrainTakes DEF One
  <2>5. a \in {"idle", "report"} /\ (a = "idle" => E = {} /\ ~d)
    OBVIOUS
  <2> HIDE DEF r, E, a
  <2>6. /\ p \in ReportRecord /\ p.at = a /\ p.events = E /\ p.attrs = d /\ p.flushed /\ p.val = 0
    <3>1. NoReport \in ReportRecord /\ NoReport.val = 0
        BY NewRecords DEF NoReport
    <3> HIDE DEF d
    <3> QED BY <2>2, <2>4, <2>5, <3>1 DEF ReportRecord
  <2> HIDE DEF p
  <2>7. /\ sub'[s] = r /\ \A u \in Subs \ {s} : sub'[u] = sub[u]
        /\ rep'[s] = p /\ \A u \in Subs \ {s} : rep'[u] = rep[u]
    BY <1>1, <2>1 DEF Types
  <2>8. Only(s)
    <3> SUFFICES ASSUME NEW u \in Subs \ {s}
                 PROVE  Same(u) /\ Around(u)
        BY DEF Only
    <3>1. Same(u)
        BY <1>2, <2>7 DEF Same
    <3> QED BY <1>2, <1>3, <3>1 DEF Around
  <2>9. Types'
    BY <1>1, <1>2, <1>3, <2>1, <2>3, <2>6 DEF Types
  <2>10. Counted' /\ Table' = Table
    BY <1>1, <1>2, <2>3, <2>7, TableSame
  <2>11. Shared'
    BY <1>1, <1>2, <1>4, <2>9, <2>10 DEF Shared, Rounds
  <2>12. ~rep[s].attrs /\ rep[s].events = {}
    BY <1>1, <2>1 DEF One, Course
  <2>13. Course(s)' /\ Forgotten(s)'
    BY <1>1, <1>2, <2>1, <2>3, <2>5, <2>6, <2>7 DEF One, Course, Forgotten, Open
  <2>14. Owes(s)'
    <3>1. r.reported <= Len(log)
        BY <1>1, <2>2, <2>3 DEF One, Owes
    <3>2. rep'[s].events = E /\ ~sub'[s].pending /\ sub'[s].reported = r.reported /\ log' = log
        BY <1>2, <2>3, <2>6, <2>7
    <3> QED BY <2>4, <3>1, <3>2 DEF Owes
  <2>15. InOrder(s)'
    BY <1>1, <1>2, <2>2, <2>5, <2>6, <2>7 DEF One, InOrder
  <2>16. Primed(s)' => Primed(s)
    BY <1>2, <2>3, <2>7, <2>10 DEF Primed
  <2>17. ValueHeld(s)'
    BY <1>1, <1>2, <2>5, <2>6, <2>7, <2>12, <2>16 DEF One, ValueHeld, HasValue
  <2>18. ASSUME Primed(s), NEW n \in Selected(1)
         PROVE  \/ n \in told[s].events \cup E \/ (req[s].at = "stream" /\ n \in req[s].events)
                \/ /\ n = Len(log) /\ n > sub[s].reported /\ ~sub[s].pending
                   /\ fire.at = "appended" \/ s \in fire.todo
    <3>1. Held(s, n)
        BY <1>1, <2>18 DEF One, EventsHeld
    <3> QED BY <2>4, <2>12, <3>1 DEF Held, Carried
  <2>19. EventsHeld(s)'
    <3> SUFFICES ASSUME Primed(s), NEW n \in Selected(1)
                 PROVE  Held(s, n)'
        BY <1>5, <2>16 DEF EventsHeld
    <3> QED BY <1>2, <2>3, <2>6, <2>7, <2>18 DEF Held, Carried
  <2>20. FlushHeld(s)'
    <3> SUFFICES ASSUME Primed(s), NEW n \in Selected(1), n <= flush.upto
                 PROVE  Flushed(s, n)'
        BY <1>2, <1>3, <1>5, <2>16 DEF FlushHeld
    <3>1. fire.at = "appended" \/ s \in fire.todo => flush.upto < Len(log)
        BY <1>1, <1>2 DEF FlushRange, Rounds
    <3>2. n \in Nat
        BY <2>2 DEF Selected
    <3>3. ~(n = Len(log) /\ (fire.at = "appended" \/ s \in fire.todo))
        BY <2>2, <3>1, <3>2
    <3> QED BY <1>2, <2>6, <2>7, <2>18, <3>3 DEF Flushed
  <2>21. One(s)'
    BY <2>13, <2>14, <2>15, <2>17, <2>19, <2>20 DEF One
  <2> QED BY <2>8, <2>11, <2>21, StepOfOne
<1> QED BY <1>6, <1>7

-----------------------------------------------------------------------------
(* The invariant, and what it says *)

\* In the beginning there is no subscription.
LEMMA InitIInv == Init => IInv
<1> SUFFICES ASSUME Init
             PROVE  IInv
    OBVIOUS
<1>1. /\ NewSub.state = "none" /\ ~NewSub.priming /\ ~NewSub.pending /\ NewSub.reported = 0
      /\ NoReport.at = "idle" /\ ~NoReport.attrs /\ NoReport.events = {} /\ ~NoReport.flushed
      /\ NoReport.val = 0 /\ NewReq.at = "idle" /\ NewReq.val = 0 /\ NotTold.val = 0
    BY DEF NewSub, NoReport, NewReq, NotTold
<1>2. \A s \in Subs : sub[s] = NewSub /\ rep[s] = NoReport /\ req[s] = NewReq /\ told[s] = NotTold
    BY DEF Init
<1>3. Len(log) = 0 /\ value = 0
    BY DEF Init
<1>4. Types
  <2>1. log \in Seq(Kinds) /\ value + Len(log) <= MaxChanges
    BY <1>3, SubscriptionsAssumption DEF Init
  <2>2. /\ sub \in [Subs -> SubRecord] /\ rep \in [Subs -> ReportRecord]
        /\ req \in [Subs -> RequestRecord]
        /\ told \in [Subs -> [val : 0 .. MaxChanges, events : Events]]
    BY NewRecords DEF Init
  <2>3. /\ note \in [Setters -> [at : {"idle", "set", "mark"}, todo : SUBSET Subs]]
        /\ fire \in [at : {"idle", "appended", "queue"}, todo : SUBSET Subs]
        /\ flush \in [at : {"idle", "run", "done"}, todo : SUBSET Subs, upto : Nat,
                      missed : SUBSET Subs]
        /\ stored \subseteq Subs /\ undeleted \subseteq Subs /\ value \in Nat
    BY DEF Init
  <2> QED BY <2>1, <2>2, <2>3 DEF Types
<1>5. Counted
  <2>1. Table = {} /\ perFabric = 0
    BY <1>1, <1>2 DEF Table, Init
  <2> QED BY <2>1, FS_EmptySet, SubscriptionsAssumption DEF Counted
<1>6. Rounds /\ FlushRange
    BY DEF Init, Rounds, FlushRange
<1>7. ASSUME NEW s \in Subs
      PROVE  One(s)
  <2>1. Course(s) /\ Owes(s) /\ InOrder(s) /\ Forgotten(s) /\ ~Primed(s)
    BY <1>1, <1>2, <1>3 DEF Course, Owes, InOrder, Forgotten, Primed, Table, Open
  <2>2. FlushHeld(s)
    BY <2>1 DEF Init, FlushHeld
  <2> QED BY <2>1, <2>2 DEF One, ValueHeld, EventsHeld
<1> QED BY <1>4, <1>5, <1>6, <1>7 DEF IInv

\* Nothing happens.
LEMMA Stutter ==
    ASSUME IInv, UNCHANGED vars
    PROVE  IInv'
<1>1. Types' /\ Counted' /\ Rounds' /\ FlushRange'
    BY DEF IInv, vars, Types, Counted, Table, Rounds, FlushRange
<1>2. ASSUME NEW u \in Subs
      PROVE  One(u)'
  <2>1. Same(u) /\ Around(u) /\ One(u)
    BY DEF vars, Same, Around, IInv
  <2> QED BY <2>1, Bystander
<1> QED BY <1>1, <1>2 DEF IInv

\* Every step keeps the invariant.
LEMMA NextIInv ==
    ASSUME IInv, [Next]_vars
    PROVE  IInv'
<1>1. CASE \E g \in Setters : SetValue(g) \/ OnAttributeChanged(g) \/ \E s \in Subs : Mark(g, s)
    BY <1>1, SetValueStep, OnAttributeChangedStep, MarkStep
<1>2. CASE \/ \E k \in Kinds : AppendRecord(k)
           \/ OnEventFired
           \/ \E p \in Peers : CloseSession(p)
    BY <1>2, AppendRecordStep, OnEventFiredStep, CloseSessionStep
<1>3. ASSUME NEW s \in Subs,
             \/ FanOut(s) \/ FinishClose(s) \/ PeerEnds(s) \/ CloseUnrouted(s)
             \/ ClosePeer(s) \/ Admit(s) \/ CaptureSubTarget(s) \/ BuildInitialReport(s)
             \/ Stream(s) \/ SendSubscribeResponse(s) \/ AbandonPriming(s) \/ PersistSubscription(s)
      PROVE  IInv'
    BY <1>3, FanOutStep, FinishCloseStep, PeerEndsStep, CloseUnroutedStep, ClosePeerStep,
       AdmitStep, CaptureSubTargetStep, BuildInitialReportStep, StreamStep,
       SendSubscribeResponseStep, AbandonPrimingStep, PersistSubscriptionStep
<1>4. ASSUME NEW s \in Subs,
             \/ \E due \in BOOLEAN : Tick(s, due)
             \/ DrainDirty(s) \/ Heartbeat(s) \/ Read(s) \/ Sent(s) \/ SendFails(s)
             \/ FlushOne(s)
      PROVE  IInv'
    BY <1>4, TickStep, DrainDirtyStep, HeartbeatStep, ReadStep, SentStep, SendFailsStep,
       FlushOneStep
<1>5. CASE FlushFabric \/ FlushReturns \/ CloseFabric
    BY <1>5, FlushFabricStep, FlushReturnsStep, CloseFabricStep
<1>6. CASE UNCHANGED vars
    BY <1>6, Stutter
<1> QED BY <1>1, <1>2, <1>3, <1>4, <1>5, <1>6 DEF Next

\* What holds of every reachable state.
LEMMA IInvHolds == Spec => []IInv
BY InitIInv, NextIInv, PTL DEF Spec

\* No counter of subscriptions, owed events or failed sends leaves its range, however
\* long the log and however many subscriptions there are.
THEOREM TypeOKHolds == Spec => []TypeOK
<1>1. IInv => TypeOK
  <2> SUFFICES ASSUME IInv
               PROVE  TypeOK
    OBVIOUS
  <2>1. Types /\ Counted
    BY DEF IInv
  <2>2. value \in 0 .. MaxChanges
    BY <2>1, SubscriptionsAssumption DEF Types
  <2>3. perFabric \in 0 .. MaxSubscriptionsPerFabric
    BY <2>1, FS_CardinalityType, SubscriptionsAssumption DEF Counted
  <2>4. \A s \in Subs : sub[s] \in SubRecord /\ rep[s] \in ReportRecord
                        /\ told[s] \in [val : 0 .. MaxChanges, events : Events]
    BY <2>1 DEF Types
  <2>5. /\ note \in [Setters -> [at : {"idle", "set", "mark"}, todo : SUBSET Subs]]
        /\ value + Len(log) <= MaxChanges /\ stored \subseteq Subs /\ undeleted \subseteq Subs
        /\ fire \in [at : {"idle", "appended", "queue"}, todo : SUBSET Subs]
    BY <2>1 DEF Types
  <2> QED BY ONLY <2>2, <2>3, <2>4, <2>5 DEF TypeOK, SubRecord, ReportRecord, Events
<1> QED BY <1>1, IInvHolds, PTL

\* However closes of the same subscription race, the count that the manager's quota is
\* checked against is the size of its table.
THEOREM QuotaExactHolds == Spec => []QuotaExact
<1>1. IInv => QuotaExact
    BY DEF IInv, Counted, QuotaExact
<1> QED BY <1>1, IInvHolds, PTL

\* No change is lost between the priming report, the marks and the reports, failed ones
\* included.
THEOREM NoLostUpdateHolds == Spec => []NoLostUpdate
<1>1. IInv => NoLostUpdate
  <2> SUFFICES ASSUME IInv, NEW s \in Subs \ Former, Established(s)
               PROVE  Informed(s)
    BY DEF NoLostUpdate
  <2>1. Primed(s) /\ req[s].at # "stream"
    BY DEF Established, Primed
  <2>2. HasValue(s)
    BY <2>1 DEF IInv, One, ValueHeld
  <2> QED BY <2>1, <2>2 DEF HasValue, Informed
<1> QED BY <1>1, IInvHolds, PTL

\* No event is lost between the log, the fan-out and the reports.
THEOREM NoLostEventHolds == Spec => []NoLostEvent
<1>1. IInv => NoLostEvent
  <2> SUFFICES ASSUME IInv, NEW s \in Subs, Established(s), NEW n \in Selected(1)
               PROVE  \/ n \in told[s].events \cup rep[s].events
                      \/ sub[s].pending /\ n >= sub[s].min
                      \/ n = Len(log) /\ (fire.at = "appended" \/ s \in fire.todo)
    BY DEF NoLostEvent
  <2>1. Primed(s) /\ req[s].at # "stream"
    BY DEF Established, Primed
  <2>2. Held(s, n)
    BY <2>1 DEF IInv, One, EventsHeld
  <2> QED BY <2>1, <2>2 DEF Held, Carried
<1> QED BY <1>1, IInvHolds, PTL

\* However the save of a new subscription races its end, no record is left of one that
\* ended for good, but for one that forgetPersistedSubscription failed to delete.
THEOREM TerminatedForgottenHolds == Spec => []TerminatedForgotten
<1>1. IInv => TerminatedForgotten
    BY DEF IInv, One, Forgotten, TerminatedForgotten
<1> QED BY <1>1, IInvHolds, PTL

\* When the flush before a fabric's removal returns, the established subscriptions that
\* it could report to have the events up to the Leave event.
THEOREM LeaveReportedHolds == Spec => []LeaveReported
<1>1. IInv => LeaveReported
  <2> SUFFICES ASSUME IInv, flush.at = "done", NEW s \in Subs \ flush.missed, Established(s),
                      NEW n \in Selected(1), n <= flush.upto
               PROVE  n \in told[s].events
    BY DEF LeaveReported
  <2>1. Primed(s) /\ req[s].at # "stream"
    BY DEF Established, Primed
  <2>2. s \notin flush.todo \cup flush.missed /\ One(s)
    BY DEF IInv, FlushRange
  <2>3. Flushed(s, n) /\ (rep[s].at # "idle" => ~rep[s].flushed)
    BY <2>1, <2>2 DEF One, FlushHeld
  <2>4. rep[s].at = "idle" => rep[s].events = {}
    BY <2>2 DEF One, Course
  <2> QED BY <2>1, <2>3, <2>4 DEF Flushed
<1> QED BY <1>1, IInvHolds, PTL
=============================================================================
