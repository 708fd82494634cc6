# go-fabric in TLA+

TLA+ models of [go-fabric](../src/README.md), a Matter protocol stack in pure Go, with
TLC configurations that check them on small instances and TLAPS proofs that hold for
every instance.  Every definition is translated from the code; `PROJECT.json` maps each
one to the lines it stands for, and lists the hazards the properties are aimed at.

Contents: [the system](#the-system) · [inventory](#inventory) ·
[modules](#modules-and-the-code) · [runs](#runs) · [fairness](#fairness) ·
[proofs](#proofs) · [what is left to TLC](#what-only-tlc-checks) ·
[findings](#findings) · [not modelled](#not-modelled) · [plan](#plan)

## The system

go-fabric is the device (and controller) side of Matter.  One process hosts a *node*:
a tree of endpoints with cluster servers, reached by other nodes over UDP, TCP or BLE.

A request travels up this path, and its answer down again:

    transport/udp, tcp, btp        datagrams; one queue per session keeps them in order
    transport/message              headers
    secure/channel                 decryption; duplicate detection (transport/mrp Window)
    bridge                         receive path: owes an acknowledgement, routes the message
    im                             Interaction Model: read, write, invoke, subscribe, events
    endpoint, cluster/*            the data model; commissioning clusters change the fabric table
    store                          SQLite: fabrics, identities, ACLs, counters

Beside it run goroutines of their own: the *ack pump* (standalone acknowledgements and
retransmissions, every 50 ms), the *subscription engine*, one *fail-safe watcher* per
armed fail-safe, *commissioning window* timers, the session registry's sweeps, and every
chunked answer, which gives up the session's turn while it waits for its peer.  In the
parts modelled here hooks, sends and store writes run after the component's mutex is
released (`docs/guides/concurrency.md` says the same of the dispatcher and its servers).
What can go wrong then lies *between* critical sections, and that decides the granularity
of the models: **one action per critical section**.

## Inventory

For each component: its state; its operations; whom it talks to; what is hard; what makes
it correct.  `PROJECT.json` has the complete list of components, with their files.

**Event log** (`im/eventlog.go`, wired in `node/node.go`).  State: a buffer of records,
the number counter, a ceiling in memory and one in the store.  Operations: append,
harvest, drop on stop, drop a fabric's, query.  Hard: the ceiling is raised with the
log's lock released, so appends, a stop and a crash interleave with the store write;
harvesting at the limit.  Correct when a number is never handed out twice, crashes
included, and records go in the order of their priority.

**Fail-safe and operational credentials** (`cluster/core/general_commissioning.go`,
`operational_credentials.go`, `node/failsafe.go`).  State: the armed window with its
deadline, owner and cumulative limit; the pending CSR, root and the notes of what to roll
back.  Operations: ArmFailSafe, CommissioningComplete, CSRRequest,
AddTrustedRootCertificate, AddNOC, UpdateNOC, RemoveFabric; hooks on arm, expiry,
completion, removal.  Talk to: store, session registry, commissioning window.  Hard: two
mutexes, hooks after release, an expiry goroutine, store writes in several steps that can
each fail, a restart in the middle.  Correct when the store ends with exactly the fabrics
whose commissioning completed.

**Fabric table** (`store/fabric.go`).  State: rows by index and a persisted index
counter.  Hard: allocation past the wrap at 254.  Correct when indexes are unique and in
range.

**Commissioning window** (`bridge/commissioning_window.go`).  State: open or closed, by
whom, its timer, the PASE verifier in use.  Operations: open (own, by an administrator),
revoke, close, time-out.  Hard: checks the fail-safe before taking its mutex, arms it
after releasing.  Correct when it never leaves a fail-safe armed behind it and never
disarms someone else's.

**MRP counters and windows** (`transport/mrp/counter.go`, `window.go`, used by
`secure/channel`; `groups/counter.go` for group messages).  State: a sender's counter, for
groups with a mark stored ahead of it; a receiver's maximum and bitmap.  Hard: reordering
and repetition at the edge of the window and of the 32-bit space; crashes and failed
writes near the wrap.  Correct when no counter is used twice, every message is accepted at
most once and none is refused needlessly.

**MRP acknowledgements** (`transport/mrp/ack.go`, `bridge/ackpump.go`, `receive*.go`,
`subscribe_dispatch.go`).  State: an obligation per exchange, displaced ones, a reply
route per exchange, waits for a StatusResponse.  Hard: pump, receive path and streaming
handlers take, cancel and route obligations in separate steps.  Correct when every
reliable message that was accepted is acknowledged.

**MRP retransmission and reports** (`bridge/outbound_reliable.go`, `ackpump.go`,
`subscribe.go`, `ota_provider_link.go`).  State: unacknowledged messages with their retry
counts; tables tying a report's counter and exchange to its subscription.  Hard: acks race
with the sweep that gives a message up; two sweeps can overlap; counters and exchange ids
are unique per session only.  Correct when an ack clears its own message, the retry budget
holds, no subscription is reaped without cause and none outlives a dead peer.

**BTP** (`transport/btp/session.go`).  State: sequence numbers modulo 256, windows, acks
owed, two timers, a send queue, reassembly.  Operations: send, receive, stand-alone and
immediate acks, timers, close.  Hard: both windows full; the lock is released around
every write and callback.  Correct when it is a FIFO of messages that never stalls.

**Subscriptions** (`im/subscription`, `bridge/subscribe*.go`, `subscription_*.go`).  State:
a table with counts per fabric; per subscription the dirty mark, the events owed and the
claim of a report; the bridge's routes; the stored records.  Operations: admit, prime,
mark, tick, report, requeue, flush, close, save, re-establish.  Hard: a tick claims a
report while a flush or a close runs; a failed report puts its changes back; the save
races the end.  Correct when a change is reported, or its subscription ends.

**Sessions** (`secure/operational/manager.go`).  State: entries by local id, some of them
reservations; activity stamps.  Operations: allocate, release, open, adopt, eviction,
seven ways to close, the reaper among them.  Hard: reservations are reclaimed when ids run out; a
session is ended in four stages after it has left the table.  Correct when an id names one
session, none is lost, and a peer left without one hears of the node again.  **PASE and
CASE** (`secure/spake2`, `secure/sigma`): the handshakes that reserve and open.

**Client side** (`client/exchange`, `peer`, `interaction`, `controller`), **bdx**,
**groups**, **icd**: the initiator's half of the same protocols; file transfer in blocks;
group keys and multicast membership; wake-up schedules.  See the plan.

**Data model** (`endpoint`, `cluster/*`, `schema`, `device`): mostly generated tables and
servers that are a record of attributes behind one mutex.

## Modules and the code

A definition carries the name of the function it models where TLA+ allows it.  A command
that is refused changes nothing, so refusals are guards.  Variables called *history* are
not in the code; no guard of a code action reads them.

### EventLog

`AppendRecord` is five actions: the critical section that finds the ceiling reached, or
appends and harvests (`AppendNeedsCeiling`, `AppendRecord`), and `raiseCeiling` in its
three steps under `ceilingMu` (`RaiseCeiling`, `PersistCeiling`, `CeilingRaised`).
`DropBuffered` and its store write `DropPersist` are the node's stop; `Crash` and `Boot`
keep only the store.  Payloads and timestamps are left out; `Query` changes nothing.  A
store operation may fail `StoreFailures` times, where `node.go` logs and goes on.
Bound: `MaxNumber`.

### Commissioning

GeneralCommissioning, OperationalCredentials, the fabric table, the window and PASE in one
module, because their hooks call each other.  `pc` says where a thread is between two
critical sections, `job` what it carries.  Threads are PASE sessions, CASE sessions (the
fabric index is the session), watchers, and `Host`.

* AddNOC: check (`AddNOC`), the store's AddFabric together with the assignment of
  `pendingInstallFabricIndex` (`AddNOCInstall`), identity and ACL (`AddNOCFinish`) or their
  failure with its cleanup (`AddNOCFail`), re-arm for the new fabric (`AddNOCRearm`).
  AddFabric and the assignment are one step: nothing in between reads either.
* UpdateNOC: check, the note for the rollback with the new identity (`UpdateNOCStore`), its
  end (`UpdateNOCFinish`); or it is refused before the note, after it, or after the identity
  was written (`UpdateNOCFail`).
* Any write of the store can fail.  `AddNOCFail`'s cleanup may leave the row, with or without
  an identity; the rollback (`RevertStore`) may leave out the identity, the removal or both,
  as `revertUpdateNOC` returns at its first error and `revertAddNOC` ignores all of them.
* Host stands for the embedding program and for administrators of any fabric:
  RemoveFabric and the window's commands need nothing of the session they come by.
* Time is `Tick`; `left` is 0 while no fail-safe is armed, when the code reads no deadline.
  A watcher takes its step some time after its deadline, so a re-arm can overtake it.
* A CASE session is live while its fabric is installed with an identity.
* `committed` and `lost` are history.  `lost` notes the four situations in which the code
  can miss a rollback: a window beginning or ending while another command is under way
  (*overlap*), a removal that clears another fabric's pending state (*removal*), a restart
  inside the fail-safe (*restart*), and a failing store (*store*): a write of the rollback
  itself fails, or a command that the store refused halfway left a note which goes without a
  rollback, because another AddNOC replaces it or another fabric completes.
  `AbandonedRolledBack`, `CommittedKept` and `OnePending` speak of the behaviours without
  them (`NoneLost`); `RolledBackDespiteOverlap` lets the first in, and its run shows what it
  costs.  A fifth member, *unclean*, is not an exception: between the refusal of a NOC command
  that had written something and the end of its window it says that the note alone covers
  what is in the store, and the properties hold of these behaviours too.
* Left out: breadcrumb, regulatory configuration, terms and conditions, certificate
  contents, labels, the PASE verifier that a window swaps in and out.
* Bounds: `MaxNoc`, `MaxOpens`, `Restarts`, and the sets of sessions and watchers.

### ReceptionWindow

`Counter.Next`/`NextNoRollover` on one side (`Send`, `Restart` of an unsecured peer), or the
`dataCounter` of group messages: `SendGroup`, with the mark moved when the counter has come
to it (`NeedsMark`), `ReserveFails` when the store reports an error (it may have written
all the same), and `RestartGroup`, a crash at any moment followed by `newDataCounter`.
Failures in a row are fewer than a turn of the counter.  On the other side
is `Window.Accept`, by its branches: `Prime`, `Drop`, `FillIn`, `Advance`.  A
message is its wire counter and the *lap* of the counter space it was drawn in; the code
never sees the lap, the properties judge the code by it.  Any message sent may arrive at
any time and any number of times, as long as it is in reach (`InReach`): an encrypted
window that rolls over tells messages apart within half the space, an unsecured one within
the space less a window, and what is further away is taken for another by design.
Bound: `MaxLap`, at which a sender stops.

### AckPump

One secure session of the device.  `rx` is the session's turn (`udp/ordered.go`,
`bridge/session_order.go`), `stream` the one chunked answer that gave its turn up, of two
messages, `emit` an acknowledgement on its way out of the pump or of the receive path's
own drain (`RunAckPumpOnce`).  `AckTracker`'s calls and each access to the `exchangeSrcs`
map are steps of their own.  An acknowledgement arrives or is lost in the step that sends
it, and a send may fail: of a reply (`Reply`), of a part of a chunked answer
(`SendPartFails`), of a standalone acknowledgement (`EmitAckFails`: no address, listener or
session, encryption, the send; the obligation was taken from the tracker before).  `lost`
(history) says where an obligation ended without an acknowledgement, and the first reason.
Left out: group and unsecured messages, the queue's limits, what handlers compute.

### OutboundReliable

Senders, `Track`/`Untrack`/`Ack`/`AbandonExchange`, and `Tick` with its sweep, its
re-check before each send and the send apart, for two Ticks that can overlap.  Reports
are of one message.

* Which entries are due is left open: a sweep takes any set.
* `Ack(m)` is the arrival of an ack for any transmission of m.
* `GiveUp` is `tickOutboundReliable`'s handling of one given-up entry, with
  `reportPeerLoss`, `closeLostPeer` and `closeSubscriptionByCounter`.
* An entry is given up only after its sender has stored its owner: the whole backoff
  schedule (many seconds) lies between, and only two map stores are left to the sender.
  This is the model's one assumption about time.
* The sessions existed before the exchange was opened.  `WaitForAck` has no caller outside
  tests.
* An exchange of this node's has one reliable message.  `handleInitiatedPeerLoss` acts on any
  spent message of one and then ends the exchange; no property depends on the difference.
* Bound: `MaxMessages`.

### Btp and Fifo

Two `Session` values and the BLE connection between them, from the end of the handshake
(the peripheral's response was its sequence number 0 and waits for its ack).  A session's
mutex is released exactly around Write, Message and Disconnect; a step is what runs
between two of them.  `out` is the packet being written, `by` the goroutine that writes
it (the handler's, or another's), `handler` where `HandleIncoming` is.  Operators map a
session to what it is when the code next releases the lock: `EmitSegment`,
`SendStandaloneAck`, `ProcessSendQueue`, `Acceptable` and the rest carry the functions'
names; actions are the callers: `Send`, `Written`, `WriteFails`, `HandleIncoming`,
`MessageReturns`, the two timeouts, and the end of the connection for whatever reason
(`LinkLost`).  Payloads are
sequences, so that segmentation, reassembly and the size of each header count; other than
that packets are records.  Left out: the handshake, renegotiation after a stall (the
controller's), the codec's bytes.

`Fifo` is the abstract specification of one direction: what was submitted is delivered
whole, once and in order, and does not wait for ever while the connection lasts.  `Btp`
implements it in each direction (`FifoBothWays`; the part without arrival, `Safety`, is
proved as well): `sent` and `delivered` are histories of the calls, the connection is
`open` while the link is up and the receiver's session active.

### Subscriptions

`subscription.Manager`, `Engine` and the bridge around them.  One attribute that all
subscriptions cover takes the values 0, 1, ...; events have a kind.  A setter and the
emitter tell subscriptions one by one after the fact (`OnAttributeChanged`, `Mark`;
`OnEventFired`, `FanOut`, under `emitMu`); a report drains (`Tick`, `DrainDirty`), reads
when it is sent (`Read`), and is `Sent` or fails (`SendFails`, `noteSubscriptionSendError`,
which ends the subscription at the third failure in a row).  A request is admitted, primed,
marked ready and saved in steps of its own; a `Former` subscription is re-established
from its record.  Closes (by peer, session, fabric, abandoned priming) take the entry out
under the lock and finish outside it (`FinishClose`, `CloseUnrouted`).  `flush` is
`FlushFabric` before a fabric leaves; `flush.missed` are the subscriptions it passes over
by design (priming, or whose report failed).

* Intervals are nondeterminism: a drain finds its interval over or not.
* The store may fail, and persistence may be off.  A save happens or not
  (`PersistSubscription`); a terminated subscription's record is deleted or stays
  (`ForgetPersistedSubscription`), and `undeleted` (history) says of which it stayed.
  `forgetFabricSubscriptions`, which deletes a removed fabric's records once more, is left
  out: it can only remove such leftovers.
* Left out: path matching, access control, chunking, `CloseEndpoint`, `CloseFabricExcept`,
  the flush's deadline and excepted session, the eviction of events from the log.
* A report that is sent arrives; its loss is OutboundReliable's subject.
* Bound: `MaxChanges`; each subscription id is requested once.

### Sessions

`operational.Manager`.  A handshake stands for its reservation and its session.
`AllocateID` reserves the next free id, or takes the oldest reservation's; `Open` installs
over the reservation, or over whatever has the id now, evicts beyond the peer's cap, and
displaces; the closes take entries out of the table, and each victim then ends at its own
pace through `NotifyGracefulClose`, `CloseStaleEntry`, `FireOnSessionClose` and
`FireReannounceIfPeerGone`.

* All peers are of one fabric.  Which sessions a cutoff selects (idle time, created before
  a loss) is left open.
* A renewed id is another handshake and a `ReleaseID`.  `OpenFromSigma` and `OpenFromPase`
  without a reserved id have no caller outside tests.
* Closing a reservation runs the hooks for no session, which changes nothing.
* Stamps are kept as orders: `elder` of the reservations by `allocatedAt`, `older` of the
  sessions with traffic (`used`) by their last activity.  The code only compares them.
* `left` is history: the peers that a close left without a session.

## Runs

| run | instance | shows |
|---|---|---|
| `eventlog` | 2 emitters, epoch 2, buffer of 3, numbers to 7; 546 993 states | numbers never reused, stored ceiling covers them, harvest in order of priority and back within the allowance |
| `commissioning` | 1 PASE session, 2 fabric indexes and identities, 1 watcher, host; 3.3 million states | the store ends with what was completed; a completed fabric is never rolled back; one uncompleted fabric at a time |
| `commissioning_ends` | 1 fabric, 1 restart; with fairness | an armed fail-safe ends, however often it is re-armed |
| `commissioning_overlap` | as `commissioning` | **violation**: a window that ends under AddNOC or UpdateNOC |
| `window` | three variants, window of 2 in a space of 8, reserve of 2, one wrap; 252 460 states | group counters never reused, bitmap exact, nothing accepted twice, nothing refused needlessly |
| `ackpump` | chunked request, its StatusResponse, answer to a report, pipelined; 1.3 million states (view) | acknowledgements are lost in five named places only; handlers cancel their own |
| `ackpump_live` | a suppressed and a plain request; with fairness; 22 500 states | what the peer repeats is acknowledged in the end |
| `outbound` | any 2 of 4 messages over 3 sessions, 1 retransmission, 2 overlapping Ticks; 67 226 states | acks clear their own message, budget kept, subscriptions reaped for a cause, every report resolved |
| `btp` | window of 2, 3 sequence numbers, 2 messages of several segments each way; with fairness; 35 195 states | sessions never close each other for a protocol error, windows kept, no lost wakeup, no standoff; implements Fifo both ways |
| `subscriptions` | a requested and a former subscription, quota 1, one change or event; 4.8 million states | quota exact, no change lost, no record of a terminated one but for a failed delete, nothing left behind by the flush |
| `subscriptions_live` | one subscription, two changes or events of three kinds; with fairness; 332 756 states | no event lost; a change is reported or the subscription ends |
| `sessions` | 2 handshakes of a controller, 1 of the node to it, 1 PASE; 2 ids, cap 1; 994 124 states | no session lost from the table, cap kept, a peer left alone is announced to |

*Why the bounds are enough.*  Event log: an epoch of 2 makes every second append raise the
ceiling, two emitters meet in every pair of steps, and seven numbers hold three epochs
with a crash in each; the buffer's limit is passed from every mix of priorities.
Commissioning: two indexes and two identities are the least for "the wrong fabric", and
the index counter wraps; one NOC more than the initial one is what a rollback has to
restore.  Arms are of one tick, and so is the cumulative limit, except in
`commissioning_ends`, where it is two and re-arms run out.  Window: with a window of 2 in a space of 8
there are counters inside the window, just outside it, across the wrap and in reach
beyond it, and a reserve of 2 has marks that are capped at the wrap and marks that are not.  AckPump: three messages on two exchanges give every pair (same exchange, other
exchange) a streaming handler, a drain and the pump.  OutboundReliable: message `h` has the
report's exchange id and counter, `o` its counter on another session of the same peer.
Btp: three sequence numbers are the least for a window of two, they wrap several times in
four messages, the window is full on both sides, and a segment with and one without an ack
differ in length.  Subscriptions: every pair of handler, report, flush, closes and setter
meets on one subscription, and two compete for one place; a second change is what the
liveness run adds, where a report in flight is out of date.  Sessions: four handshakes for
two ids, so that both a reservation and a session lose their id to another.  The proofs
remove the bounds for the safety properties of all eight modules.

`commissioning` is followed until a rollback may have been lost (constraint
`NoneLost`); `commissioning_overlap` goes on from there.  `ackpump` tells states apart by
`StreamView`: to a peer that does not wait, only messages not yet sent differ from the rest,
and of `lost` no step needs more than whether a message is settled.  The fabric
identities of `commissioning`, and the controller's handshakes in `sessions`, are
interchangeable (symmetry): no property distinguishes them.  Deadlock is not checked where the instance has an end: every message
sent, every session closed, the counter at its bound.

Every property has a mutant in `PROJECT.json`: a plausible slip in the code (a dropped
guard, a missing reset, a shift that loses a bit) with which TLC finds it violated.  The
mutants stand beside the definitions they change, marked `mutant:`.

## Fairness

Safety runs use none.  The liveness runs assume no more than this:

* *Goroutines that can go on do* (weak fairness per thread, handler and Tick): Go's
  scheduler, with no lock held across a blocking call.
* *Time passes, timers fire, the pump ticks* (`Tick`, `Elapse`, `PumpTick`,
  `WatchExpiry`): Go timers and the pump's own loop, `runAckPump`.
* `outbound`: *an entry that stays pending is swept again and again by the pump* (strong
  fairness, per entry).  A Tick takes all that is due and never skips one.
* `ackpump_live`: *a message the peer goes on repeating arrives in the end, one of its
  acknowledgements arrives, and copies of acknowledged messages stop coming.*  These are
  about the peer and the network and are what MRP itself presupposes.  They are strong
  fairness on `Arrive` and `AckReaches`.
* `btp`: *writes return, packets on the connection are handled, callbacks return, timers
  fire* (weak fairness per side).  The link may fail at any time; then Fifo's promise ends.
* `subscriptions_live`: *goroutines go on, a send ends well or badly, and the engine comes
  round to a subscription whose interval is over* (strong fairness on `Tick(s, TRUE)` and
  `DrainDirty(s)`: the engine's loop visits every subscription at every tick, and each
  minimum interval ends before some tick).  No fairness on sends succeeding.
* No fairness on anything a client or host may do.  In `commissioning_ends` the owner may
  re-arm for ever; that the window ends is the cumulative deadline's doing.

## Proofs

A component's theorems are in a module of their own (`EventLogProofs` and so on); they
hold for all values of the constants that satisfy the named assumptions of the component's
module, and for no others, unless a theorem states a hypothesis of its own.  There are
about 13 000 obligations.  Every invariant of a passing run is proved, and the safety part
of the refinement.

The proofs go the same way throughout.  An invariant `IInv` that the steps keep is stated
as a conjunction of named parts, each about one thing the code relies on; TLC checked it
on the run's instance first.  There is one lemma per action, and under it one step per
part that the action can disturb.  What follows says which parts the property itself does
not have, because that is where the design is.

**EventLog**: `TypeCorrect` for any number of store failures; `NumbersNeverReused` and
`CeilingCoversIssued` for `StoreFailures = 0`, and for any other value up to the first
failure (`FreshUntilStoreFails`).  `ReuseNeedsFailureAndBoot` says what happens after one:
every step keeps the numbers ascending and below the counter, except the start of a
process once a store operation has failed.  So the error that node.go only logs is
harmless while the process lives, and Findings has the behaviour in which it is not.
That issued numbers lie below the ceiling is not inductive: a
ceiling moves in memory and in the store at different times.  The invariant `IInv` adds
`CeilingCovered` (either the counter has reached its ceiling, so nothing can be handed
out, or the store covers the ceiling), `LockDiscipline` (what the holder of `ceilingMu` is
about to write still fits the counter: nobody can hand out numbers meanwhile) and
`Halted`.  It is where the design is explained: DropBuffered may lower the stored ceiling
*because* it lowers the one in memory first, which forces the next append to raise it.
`BufferBounded` and `CriticalLast` are about the harvest, which selects records by their
rank.  The first assumes that the floors of Debug and Info together fit into the allowance;
`bufferConfig.normalized` does not check that, and without it there may be nothing left to
harvest.

**ReceptionWindow**: `GroupCounterNeverReused` for any reserve below the counter's maximum;
`BitmapIsExact`, `NoMessageTwice` and `NoMessageRefused` for any
window size and counter width with `2 * WindowSize < CounterMax`, and any number of laps.  The
inductive invariant is `TypeOK /\ WindowInv /\ GroupInv /\ BitmapExact`.  `WindowInv` ties
`max` to the newest message `hi` and puts every accepted message at or below it.
`GroupInv` keeps the counter between a reserve below its mark and less than a turn past
it; then the code's test on wrapped values is right about which (`NeedsMarkExact`), and
what was sent is never past the mark.  The key lemma,
`DiffExact`, says that for a message in reach the code's modular difference is the true
distance: the only place where wrapping matters.

**OutboundReliable**: `AckedWasSentHolds`, `BudgetKeptHolds` and `ReapedForCauseHolds` for
any messages, sessions and retry budget.  The budget bound needs `Budgeted`: what has been
sent, plus what each overlapping Tick has yet to send, is within the retries already
counted plus one.  The cause of a reaping has to be known while the sweep still carries
the entry, before anything is reaped.

**AckPump**: `AckedOrOwedHolds` and `RepliesCancelTheirOwnHolds` for any messages on any
exchanges.  The invariant says of each place an obligation can be (the tracker, the
displaced list, an emitter, a handler with the turn, the stream) whose it is and that the
places exclude each other, and that whoever cancels by exchange has the session's turn.
Every loss that a failing send or a missing route causes is recorded for its message
(`LossRecorded`), so that nothing leaves these places unaccounted for.

**Commissioning**: `TypeOKHolds`, `AbandonedRolledBackHolds`, `CommittedKeptHolds` and
`OnePendingHolds` for any sessions, watchers, indexes and identities.  The three are about
states between windows; their invariant, `Rollback`, is about states inside one, as long as
no rollback is lost (`NoneLost`): one window begins, ends or runs a NOC command at a time (`OneBusy`); the
pending state is empty outside a window and in one that has just begun (`Clean`); an
uncommitted fabric is the one that the pending state, or the expiry under way, will roll back
(`Accounted`), and whatever a rollback will remove is uncommitted (`Spared`); UpdateNOC is of
the fabric that has the window (`OwnUpdate`); and a committed fabric is as it was, or the
identity it had is noted (`Kept`).  A refused command breaks the tie between the marks of the
window (`nocWasInvoked`, the owner) and the notes; after one (`Unclean`) `Accounted` and
`OwnUpdate` ask for the note alone, which is what the rollback reads.  The proof uses that PASE sessions,
watchers and the host are different threads (`ConstantsAssumption`).

**Subscriptions**: `TypeOKHolds`, `QuotaExactHolds`, `NoLostUpdateHolds`, `NoLostEventHolds`,
`TerminatedForgottenHolds` and `LeaveReportedHolds` for any subscriptions, peers, setters
and any log.  The properties speak of established subscriptions, the invariant of *primed*
ones, from the moment the priming report is read: `HasValue` and `Held` say where a value or
an event is while the priming is still under way.  `InOrder` (a report never carries an older
value than the peer has) is what makes a sent report safe, and it is false for re-established
subscriptions, as the findings say.  `Held` needs the event on its way to be beyond what was
reported, or `queueEvent` would pass it over; `FlushRange` says that the flush is for
events whose fan-out is over.  Most steps concern one subscription: `Bystander` and
`StepOfOne` deal with the others once and for all.

**Sessions**: `TypeOKHolds`, `NoOrphanHolds`, `PeerCapHolds` and `GoneIsAnnouncedHolds` for
any handshakes, ids and cap.  The cap is a matter of counting: eviction takes the excess by
rank in the order of activity, which must be total, hence the orders in `TypeOK`; then the
ranks of those that stay differ and are at least the excess (`RanksDiffer`).

**Btp**: `TypeOKHolds`, `PeersAgreeHolds`, `WindowKeptHolds`, `NoLostWakeupHolds`,
`NoStandoffHolds` and `FifoSafetyHolds` for any modulus, any window below it, any segment
size that leaves room for a byte, and any messages.  The invariant has four parts.

* `Arc`, `Numbered`: four numbers that two sessions hold of one direction (acknowledged as
  far as the sender knows, acknowledged, received, sent) lie in this order on an arc of the
  circle no longer than the window, and the packets on the wire are its last piece.  Because
  the arc is shorter than the circle, distances on it add up (`Cut`), and this is the only
  place where the wrap matters.
* `Acks`: the acks on the way are ever newer and the last of them is all the receiver has
  acknowledged.  With `Arc` they lie in the outstanding interval when they arrive.
* `Tension`: what the two sides have open is together at least one and less than two
  windows.  The upper bound is what the reserved slot is for: a packet takes the last slot
  only with an ack, which takes at least one packet off what the other direction has open.
  The lower bound comes from the handshake's response, which waits for its ack, and from
  every ack being a packet to acknowledge.  Together they give `NoStandoff`: where nothing is on
  the way, a full window on one side is an ack owed, and not a full window, on the other.
* `Stream`: the packets on the wire lead, each to the place in the messages where the next
  begins, from where the receiver is (messages delivered, octets collected) to where the
  sender is (its queue).  The message a packet completes is then the next one sent, which is
  `Deliver` of Fifo.

`Awake` (no goroutine leaves a queue that the window admits) is inductive by itself, because
every operator ends with the queue empty, a packet begun or the window closed (`Result`).

The event log selects by rank too: in a finite set that is strictly ordered, exactly k elements
have fewer than k others before them (`LowestCount`).

## What only TLC checks

* Liveness (`FailSafeEnds`, `RepeatedIsAcked`, `ReportResolved`, `ChangeReported`): fairness
  and ENABLED are beyond this version of the prover.
* `RolledBackDespiteOverlap`, which is false.
* The part of `FifoBothWays` that says a message does arrive (`Arrives` of Fifo), for the
  same reason; the other part is a theorem.

## Findings

One run ends in a violation of what a document of the repository says (quoted in
`PROJECT.json`): `commissioning_overlap`.  AddNOC and UpdateNOC check the fail-safe once; a
window that ends between the check and the write leaves an abandoned NOC in the store.

Disagreements between code and comments met while modelling, without a run of their own.
Where a property would fail, it is stated of the other behaviours and says so:

* A failed write of the event log's ceiling is logged and the ceiling in memory moves
  (`node.go:386`); after a crash numbers repeat, against `eventlog.go:144-147`.  The model
  takes such failures (`StoreFailures`); the run has none, and `ReuseNeedsFailureAndBoot`
  proves that nothing but a process start after one can make numbers repeat.
* Removing the fabric installed last clears pending state that belongs to another fabric's
  UpdateNOC (`operational_credentials.go:2489`, against the comment at 2475-2478).
* What a fail-safe has to roll back is kept in memory only (`operational_credentials.go:1882`):
  a restart forgets it, against `docs/security.md:26`.
* A store that fails can leave an abandoned NOC behind, against the same line of
  `docs/security.md`.  `OnFailSafeExpiry` clears its notes first
  (`operational_credentials.go:647-650`); then `revertUpdateNOC` returns at an error
  (`:689-691`, `:699-701`) and `revertAddNOC` ignores its three (`:2543-2545`), and nothing
  tries again.  An UpdateNOC is refused after its identity was written when the node id cannot
  be (`:2189-2191`); the CSR and the window stay usable, and when AddNOC of another fabric
  follows and completes, the note goes and the refused NOC stays.  `lost` counts these as
  *store*.
* A transaction that ends silently cancels the acknowledgement it owes (`receive.go:753`,
  against the comment at 734); the peer's retransmission is acknowledged as a duplicate
  (`ackpump_live`).
* BTP stops the send-ack timer after the write of an ack, also when a packet that came in
  during the write has just started it (`session.go:649`): that packet's ack waits for the
  next one, not at most `SendAckTimeout` (`consts.go:60`).  The refinement holds all the same.
* A re-established subscription is not priming when the engine first sees it
  (`subscription_reestablish.go:242`): a newer value can be reported before the older
  priming report.  `NoLostUpdate` is about requested subscriptions.
* `forgetPersistedSubscription` only logs a delete that fails or times out, and returns when
  persistence is off (`subscription_persistence.go:230-239`): the record of a terminated
  subscription is then still there at the next start, which re-establishes it.
  `TerminatedForgotten` excepts these (`undeleted`).
* `FlushFabric`'s comment (`manager.go:575-576`) says a report in flight "is skipped";
  `claimReport` waits for it.
* A session that another displaces at its id ends without the announcement that other
  closes make (`openFromSigma`); the session that takes its place is often the peer's own.
* Close hooks name a session by an id that may have a new holder (`operational/manager.go:246`).
* `captureSubTarget` may store a route after its subscription was closed
  (`subscribe_dispatch.go:304`); the entry is then left behind.
* `AbandonExchange` (`outbound_reliable.go:280`) selects by exchange id alone, although
  ids are unique per session only; a completed handshake can drop another session's
  pending report.  `ReportResolved` names this outcome.
* `reportSubscription` stores a report's owner and exchange after sending
  (`subscribe.go:533`, `:535`): an early ack leaves a stale owner entry, an early error
  StatusResponse is ignored.
* Emission reads the reply route, asks whether the exchange still owes, and deletes the
  route in separate steps (`ackpump.go:465-480`); a displaced obligation's route goes with
  `dischargeOwedAck` (`ackpump.go:213`).  `AckedOrOwed` counts these as "unrouted".
* `emitStandaloneAck` returns without having sent and without putting the obligation back
  when there is no address, listener or session, or encryption or the send fails
  (`ackpump.go:490`, `:498`, `:536-552`, `:563-569`, `:573-579`).  `AckedOrOwed` counts this
  as "unemitted"; the peer's retransmission is owed a new one (`ackpump_live`).
* The pump can take a StatusResponse's obligation just before `refreshAckCounter`
  (`ackpump.go:193`); the chunk then repeats an older counter.
* `ArmFailSafeFor` does not restart the cumulative deadline.

## Not modelled

* Cryptography (SPAKE2+, SIGMA, AES-CCM, certificates): symbolic at most.
* Codecs (TLV, message headers, BTP packets, DNS): bytes to bytes; their tests round-trip.
* The generated data model and the sixty-odd cluster servers: attributes behind one mutex.
* mDNS: schedules on a shared socket, where timing rather than order decides.
* Adapters (BlueZ, ESPHome, Thread border router), utilities, examples.

The remaining components have state worth modelling and are in the plan.

## Plan

Done, in this order: EventLog, Commissioning, ReceptionWindow, AckPump, OutboundReliable
and three proof modules; Btp with Fifo, Subscriptions, Sessions; the group counter; the
invariants of all modules as theorems, and the safety part of Btp's refinement of Fifo.
Next, most important first:

1. **ClientExchange**: the initiator's timers and acknowledgements, composed with AckPump
   as the peer that is now an environment.
2. The handshakes' state machines over Sessions, and Sessions composed with Subscriptions
   through the close hooks.
3. **CommissioningWindow** in full (verifier swap, advertisement) over Commissioning; bdx;
   icd.

The runs stay at a dozen: one passing run per module, with its liveness where it has any,
and a violation run only where a document of the repository is contradicted.
