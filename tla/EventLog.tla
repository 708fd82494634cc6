------------------------------ MODULE EventLog ------------------------------
(***************************************************************************)
(* The node's event log (src/im/eventlog.go): a bounded buffer of event    *)
(* records numbered by one counter that must never hand out a number twice,*)
(* not even across a crash.  The counter is covered by a ceiling kept in   *)
(* the store; the ceiling is raised with the log's own lock (mu) released, *)
(* under a second lock (ceilingMu), so Append, DropBuffered, crashes and   *)
(* restarts interleave between the steps below.                            *)
(*                                                                         *)
(* Every critical section of mu is one action.  The store is the node's    *)
(* metadata counter; a write or the read at boot may fail, StoreFailures   *)
(* times, exactly where src/node/node.go only logs the error.              *)
(***************************************************************************)
EXTENDS Integers, Sequences, FiniteSets

CONSTANTS
    Emitters,            \* goroutines that emit events
    Fabrics,             \* fabric indexes
    NoFabric,            \* owner of a record that is not fabric-sensitive
    Epoch,               \* persistEpoch
    MinEventAllowance, MaxEventAllowance,
    MinInfoAllowance, MinDebugAllowance,
    StoreFailures,       \* how many store operations may fail
    MaxNumber            \* bound: no append starts once its ceiling would pass it

ASSUME EpochAssumption == Epoch \in Nat \ {0}

ASSUME BufferAssumption ==
    /\ MinEventAllowance \in Nat \ {0}
    /\ MaxEventAllowance \in Nat /\ MaxEventAllowance > MinEventAllowance
    /\ MinInfoAllowance \in Nat /\ MinDebugAllowance \in Nat

ASSUME StoreAssumption == StoreFailures \in Nat

ASSUME BoundAssumption == MaxNumber \in Nat

ASSUME OwnerAssumption == NoFabric \notin Fabrics /\ "free" \notin Emitters /\ "stop" \notin Emitters

VARIABLES
    proc,            \* the process is up and node.New has wired the counter
    next,            \* the counter: the last number handed out, or the seed
    occurrences,     \* the buffered records; append order is number order, so a set
    persistCeiling,  \* the ceiling held in memory
    ceilingMu,       \* holder of ceilingMu: an emitter, "stop" or "free"
    pc,              \* where each emitter is in AppendRecord
    rec,             \* the record each emitter is appending
    want,            \* the ceiling each emitter, or "stop", is persisting
    stored,          \* the ceiling in the store (durable)
    failures,        \* store operations that failed so far
    issued           \* history: every number handed out, in that order, ever

vars == <<proc, next, occurrences, persistCeiling, ceilingMu, pc, rec, want,
          stored, failures, issued>>

\* EventPriorityDebug, EventPriorityInfo, EventPriorityCritical
Debug == 0
Info == 1
Critical == 2
Priorities == {Debug, Info, Critical}

Occurrence == [prio : Priorities, fabric : Fabrics \cup {NoFabric}]
Record == [num : Nat, prio : Priorities, fabric : Fabrics \cup {NoFabric}]
NoOccurrence == [prio |-> Debug, fabric |-> NoFabric]

-----------------------------------------------------------------------------
(* harvestLocked *)

Floor == [p \in Priorities |->
             CASE p = Debug -> MinDebugAllowance
               [] p = Info  -> MinInfoAllowance
               [] OTHER     -> 0]

\* The most recent Floor[p] records of class p are out of the harvest's reach.
Protected(S, r) ==
    Cardinality({s \in S : s.prio = r.prio /\ s.num > r.num}) < Floor[r.prio]

\* The order in which records are given up: by class, oldest first.
GoesBeforeByAge(s, r) == s.num < r.num   \* mutant: classes ignored
GoesBefore(s, r) == s.prio < r.prio \/ (s.prio = r.prio /\ s.num < r.num)

Dropped(S, toDrop) ==
    LET reach == {r \in S : ~Protected(S, r)}
    IN  {r \in reach : Cardinality({s \in reach : GoesBefore(s, r)}) < toDrop}

HarvestLate(occ) ==   \* mutant: the harvest starts one record late
    IF Cardinality(occ) <= MaxEventAllowance + 1
    THEN occ
    ELSE occ \ Dropped(occ, Cardinality(occ) - MinEventAllowance)
Harvest(occ) ==
    IF Cardinality(occ) <= MaxEventAllowance
    THEN occ
    ELSE occ \ Dropped(occ, Cardinality(occ) - MinEventAllowance)

-----------------------------------------------------------------------------

Init ==
    /\ proc = "up"
    /\ next = 0
    /\ occurrences = {}
    /\ persistCeiling = 0
    /\ ceilingMu = "free"
    /\ pc = [e \in Emitters |-> "idle"]
    /\ rec = [e \in Emitters |-> NoOccurrence]
    /\ want = [h \in Emitters \cup {"stop"} |-> 0]
    /\ stored = 0
    /\ failures = 0
    /\ issued = <<>>

\* SetMetadataCounter: the store takes the value, or fails and keeps the old one.
StoreWrite(v) ==
    \/ stored' = v /\ UNCHANGED failures
    \/ failures < StoreFailures /\ failures' = failures + 1 /\ UNCHANGED stored

\* AppendRecord is called.
AppendStart(e, o) ==
    /\ proc = "up" /\ pc[e] = "idle"
    /\ next + 1 + Epoch <= MaxNumber
    /\ pc' = [pc EXCEPT ![e] = "append"]
    /\ rec' = [rec EXCEPT ![e] = o]
    /\ UNCHANGED <<proc, next, occurrences, persistCeiling, ceilingMu, want,
                   stored, failures, issued>>

CeilingReached == next + 1 >= persistCeiling

\* The loop leaves mu to raise the ceiling ...
AppendNeedsCeiling(e) ==
    /\ pc[e] = "append"
    /\ CeilingReached
    /\ pc' = [pc EXCEPT ![e] = "raise"]
    /\ UNCHANGED <<proc, next, occurrences, persistCeiling, ceilingMu, rec,
                   want, stored, failures, issued>>

\* ... or finds the next number covered, and hands it out.
AppendRecord(e) ==
    /\ pc[e] = "append"
    /\ ~CeilingReached
    /\ next' = next + 1
    /\ issued' = Append(issued, next + 1)
    /\ occurrences' = Harvest(occurrences \cup
           {[num |-> next + 1, prio |-> rec[e].prio, fabric |-> rec[e].fabric]})
    /\ pc' = [pc EXCEPT ![e] = "idle"]
    /\ rec' = [rec EXCEPT ![e] = NoOccurrence]
    /\ UNCHANGED <<proc, persistCeiling, ceilingMu, want, stored, failures>>

\* mutant: the ceiling in memory moves before the store holds it
RaiseCeilingInMemoryFirst(e) ==
    /\ pc[e] = "raise"
    /\ ceilingMu = "free"
    /\ IF CeilingReached
       THEN /\ ceilingMu' = e
            /\ want' = [want EXCEPT ![e] = next + 1 + Epoch]
            /\ persistCeiling' = next + 1 + Epoch
            /\ pc' = [pc EXCEPT ![e] = "persist"]
       ELSE /\ pc' = [pc EXCEPT ![e] = "append"]
            /\ UNCHANGED <<ceilingMu, want, persistCeiling>>
    /\ UNCHANGED <<proc, next, occurrences, rec, stored, failures, issued>>

\* raiseCeiling up to the persist call.  Another Append may have raised it.
RaiseCeiling(e) ==
    /\ pc[e] = "raise"
    /\ ceilingMu = "free"
    /\ IF CeilingReached
       THEN /\ ceilingMu' = e
            /\ want' = [want EXCEPT ![e] = next + 1 + Epoch]
            /\ pc' = [pc EXCEPT ![e] = "persist"]
       ELSE /\ pc' = [pc EXCEPT ![e] = "append"]
            /\ UNCHANGED <<ceilingMu, want>>
    /\ UNCHANGED <<proc, next, occurrences, persistCeiling, rec, stored,
                   failures, issued>>

\* persistFn, with mu released.
PersistCeiling(e) ==
    /\ pc[e] = "persist"
    /\ StoreWrite(want[e])
    /\ pc' = [pc EXCEPT ![e] = "raised"]
    /\ UNCHANGED <<proc, next, occurrences, persistCeiling, ceilingMu, rec,
                   want, issued>>

\* The ceiling in memory follows; the loop of AppendRecord looks again.
CeilingRaised(e) ==
    /\ pc[e] = "raised"
    /\ persistCeiling' = IF want[e] > persistCeiling THEN want[e] ELSE persistCeiling
    /\ ceilingMu' = "free"
    /\ want' = [want EXCEPT ![e] = 0]
    /\ pc' = [pc EXCEPT ![e] = "append"]
    /\ UNCHANGED <<proc, next, occurrences, rec, stored, failures, issued>>

\* mutants: the ceiling in memory stays where it was; it lands one too low
DropBufferedKeepsCeiling ==
    /\ proc = "up"
    /\ ceilingMu = "free"
    /\ ceilingMu' = "stop"
    /\ want' = [want EXCEPT !["stop"] = next]
    /\ occurrences' = {}
    /\ UNCHANGED <<proc, next, persistCeiling, pc, rec, stored, failures, issued>>
DropBufferedOneTooLow ==
    /\ proc = "up"
    /\ ceilingMu = "free"
    /\ ceilingMu' = "stop"
    /\ persistCeiling' = next - 1
    /\ want' = [want EXCEPT !["stop"] = next - 1]
    /\ occurrences' = {}
    /\ UNCHANGED <<proc, next, pc, rec, stored, failures, issued>>

\* DropBuffered, when the bridge stops: first the lowered ceiling in memory ...
DropBuffered ==
    /\ proc = "up"
    /\ ceilingMu = "free"
    /\ ceilingMu' = "stop"
    /\ persistCeiling' = next
    /\ want' = [want EXCEPT !["stop"] = next]
    /\ occurrences' = {}
    /\ UNCHANGED <<proc, next, pc, rec, stored, failures, issued>>

\* ... then, with mu released, the store.
DropPersist ==
    /\ ceilingMu = "stop"
    /\ StoreWrite(want["stop"])
    /\ ceilingMu' = "free"
    /\ want' = [want EXCEPT !["stop"] = 0]
    /\ UNCHANGED <<proc, next, occurrences, persistCeiling, pc, rec, issued>>

DropFabric(f) ==
    /\ proc = "up"
    /\ \E r \in occurrences : r.fabric = f
    /\ occurrences' = {r \in occurrences : r.fabric # f}
    /\ UNCHANGED <<proc, next, persistCeiling, ceilingMu, pc, rec, want, stored,
                   failures, issued>>

\* The process dies wherever its goroutines are; only the store survives.
Crash ==
    /\ proc = "up"
    /\ proc' = "down"
    /\ next' = 0
    /\ occurrences' = {}
    /\ persistCeiling' = 0
    /\ ceilingMu' = "free"
    /\ pc' = [e \in Emitters |-> "idle"]
    /\ rec' = [e \in Emitters |-> NoOccurrence]
    /\ want' = [h \in Emitters \cup {"stop"} |-> 0]
    /\ UNCHANGED <<stored, failures, issued>>

\* node.New: SeedNumber with the stored ceiling, unless reading it failed, then
\* SetCounterPersistence, which forces a persist before the first number.
Boot ==
    /\ proc = "down"
    /\ proc' = "up"
    /\ \/ next' = stored /\ persistCeiling' = stored /\ UNCHANGED failures
       \/ /\ failures < StoreFailures /\ failures' = failures + 1
          /\ next' = 0 /\ persistCeiling' = 0
    /\ UNCHANGED <<occurrences, ceilingMu, pc, rec, want, stored, issued>>

EmitterStep(e) ==
    \/ AppendNeedsCeiling(e)
    \/ AppendRecord(e)
    \/ RaiseCeiling(e)
    \/ PersistCeiling(e)
    \/ CeilingRaised(e)

Next ==
    \/ \E e \in Emitters, o \in Occurrence : AppendStart(e, o)
    \/ \E e \in Emitters : EmitterStep(e)
    \/ DropBuffered
    \/ DropPersist
    \/ \E f \in Fabrics : DropFabric(f)
    \/ Crash
    \/ Boot

Spec == Init /\ [][Next]_vars

-----------------------------------------------------------------------------

\* Every variable of EventLog, its two locks and the store keeps its type.
TypeOK ==
    /\ proc \in {"up", "down"}
    /\ next \in Nat
    /\ occurrences \in SUBSET Record
    /\ persistCeiling \in Nat
    /\ ceilingMu \in Emitters \cup {"free", "stop"}
    /\ pc \in [Emitters -> {"idle", "append", "raise", "persist", "raised"}]
    /\ rec \in [Emitters -> Occurrence]
    /\ want \in [Emitters \cup {"stop"} -> Nat]
    /\ stored \in Nat
    /\ failures \in 0 .. StoreFailures
    /\ issued \in Seq(Nat)

\* Numbers ascend in the order they are handed out, whatever crashes, restarts
\* and stops lie between (persistCeiling field doc: "skipping at most one epoch
\* of numbers but never reusing one").
EventNumbersNeverReused ==
    \A i, j \in 1 .. Len(issued) : i < j => issued[i] < issued[j]

\* The store's ceiling covers every number ever handed out, also while
\* DropBuffered lowers it and while an Append waits for a raise (ceilingMu
\* field doc: "hand out no number the stored ceiling does not cover").
StoredCeilingCovers ==
    \A i \in 1 .. Len(issued) : issued[i] <= stored

\* The harvest brings the buffer back within its allowance in one pass.  Floors
\* that together exceed MinEventAllowance would leave nothing to harvest.
BufferWithinAllowance == Cardinality(occurrences) <= MaxEventAllowance

\* An append gives up a Critical record only when every Debug and Info record
\* that stays is one of its class's protected most recent ones.
CriticalDroppedLast ==
    [][ (\E e \in Emitters : AppendRecord(e))
        /\ (\E r \in occurrences : r.prio = Critical /\ r \notin occurrences')
        => \A p \in {Debug, Info} :
              Cardinality({r \in occurrences' : r.prio = p}) <= Floor[p] ]_vars

=============================================================================
