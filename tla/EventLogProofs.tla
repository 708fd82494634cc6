--------------------------- MODULE EventLogProofs ---------------------------
(***************************************************************************)
(* Event numbers are never reused, for any number of emitters, any epoch   *)
(* and any buffer sizing, as long as the store does not fail, and then not *)
(* before the next start of the process (ReuseNeedsFailureAndBoot); the    *)
(* harvest keeps the buffer within its allowance and gives up Critical     *)
(* records last.                                                           *)
(*                                                                         *)
(* The properties of the numbers are not inductive.  What carries them is  *)
(* who may move the two ceilings: while the one in memory has room for a   *)
(* number, the store already holds it (CeilingCovered); and whoever holds  *)
(* ceilingMu holds it at a moment when no number can be handed out, so the *)
(* value it read before it released mu is still right when the store has   *)
(* it (LockDiscipline).                                                    *)
(*                                                                         *)
(* What the harvest keeps and gives up does not depend on the store.  It   *)
(* rests on the buffer's records being numbered apart (BufferInv), so that *)
(* the order they are given up in is total and the k that go first are k   *)
(* (LowestCount).                                                          *)
(***************************************************************************)
EXTENDS EventLog, FiniteSetTheorems, TLAPS

\* R is a strict total order of S.
StrictlyOrders(R, S) ==
    /\ \A x \in S : <<x, x>> \notin R
    /\ \A x, y \in S : x # y => <<x, y>> \in R \/ <<y, x>> \in R
    /\ \A x, y, z \in S : <<x, y>> \in R /\ <<y, z>> \in R => <<x, z>> \in R

\* The elements of S before x, and the ones with fewer than k before them.
Below(R, S, x) == {y \in S : <<y, x>> \in R}
Lowest(R, S, k) == {x \in S : Cardinality(Below(R, S, x)) < k}

\* The elements before x are finitely many, and fewer than all.
LEMMA BelowFinite ==
    ASSUME NEW S, IsFiniteSet(S), NEW R, StrictlyOrders(R, S), NEW x \in S
    PROVE  /\ IsFiniteSet(Below(R, S, x)) /\ Cardinality(Below(R, S, x)) \in Nat
           /\ Cardinality(Below(R, S, x)) < Cardinality(S)
<1>1. Below(R, S, x) \in SUBSET S /\ x \notin Below(R, S, x)
  BY DEF Below, StrictlyOrders
<1>2. Below(R, S, x) # S
  BY <1>1
<1>3. Cardinality(S) \in Nat
  BY FS_CardinalityType
<1>4. /\ IsFiniteSet(Below(R, S, x)) /\ Cardinality(Below(R, S, x)) <= Cardinality(S)
      /\ Cardinality(Below(R, S, x)) # Cardinality(S)
  BY <1>1, <1>2, FS_Subset
<1>5. Cardinality(Below(R, S, x)) \in Nat
  BY <1>4, FS_CardinalityType
<1> QED
  BY <1>3, <1>4, <1>5

\* Two elements do not have equally many before them.
LEMMA RanksDiffer ==
    ASSUME NEW S, IsFiniteSet(S), NEW R, StrictlyOrders(R, S), NEW x \in S, NEW y \in S, x # y
    PROVE  Cardinality(Below(R, S, x)) # Cardinality(Below(R, S, y))
<1>1. ASSUME NEW a \in S, NEW b \in S, <<a, b>> \in R
      PROVE  Cardinality(Below(R, S, a)) # Cardinality(Below(R, S, b))
  <2>1. Below(R, S, a) \subseteq Below(R, S, b)
    BY <1>1 DEF Below, StrictlyOrders
  <2>2. a \in Below(R, S, b) /\ a \notin Below(R, S, a)
    BY <1>1 DEF Below, StrictlyOrders
  <2>3. IsFiniteSet(Below(R, S, b))
    BY BelowFinite
  <2>4. Cardinality(Below(R, S, b)) = Cardinality(Below(R, S, a)) => Below(R, S, b) = Below(R, S, a)
    BY <2>1, <2>3, FS_Subset
  <2> QED
    BY <2>2, <2>4
<1>2. <<x, y>> \in R \/ <<y, x>> \in R
  BY DEF StrictlyOrders
<1> QED
  BY <1>1, <1>2

\* Of a set of n elements an order puts k first, for each k up to n.
THEOREM LowestCount ==
    ASSUME NEW S, IsFiniteSet(S), NEW R, StrictlyOrders(R, S),
           NEW k \in Nat, k <= Cardinality(S)
    PROVE  IsFiniteSet(Lowest(R, S, k)) /\ Cardinality(Lowest(R, S, k)) = k
<1> DEFINE n == Cardinality(S)
           rank == [x \in S |-> Cardinality(Below(R, S, x))]
           low == [x \in Lowest(R, S, k) |-> Cardinality(Below(R, S, x))]
<1>1. n \in Nat
  BY FS_CardinalityType
<1>2. \A x \in S : Cardinality(Below(R, S, x)) \in 0 .. n - 1
  BY <1>1, BelowFinite
<1>3. rank \in [S -> 0 .. n - 1]
  BY <1>2
<1>4. \A x, y \in S : rank[x] = rank[y] => x = y
  BY RanksDiffer
<1>5. rank \in Injection(S, 0 .. n - 1)
  BY <1>3, <1>4 DEF Injection, IsInjective
<1>6. IsFiniteSet(0 .. n - 1) /\ Cardinality(0 .. n - 1) = n
  <2> HIDE DEF n
  <2> QED
    BY <1>1, FS_Interval
<1> HIDE DEF rank
<1>7. rank \in Surjection(S, 0 .. n - 1)
  BY <1>5, <1>6, FS_Injection
<1>8. Lowest(R, S, k) \in SUBSET S
  BY DEF Lowest
<1>9. low \in [Lowest(R, S, k) -> 0 .. k - 1]
  <2> SUFFICES ASSUME NEW x \in Lowest(R, S, k) PROVE Cardinality(Below(R, S, x)) \in 0 .. k - 1
    OBVIOUS
  <2>1. Cardinality(Below(R, S, x)) \in 0 .. n - 1 /\ Cardinality(Below(R, S, x)) < k
    BY <1>2 DEF Lowest
  <2> QED
    BY <2>1, <1>1
<1>10. \A x, y \in Lowest(R, S, k) : low[x] = low[y] => x = y
  BY <1>8, RanksDiffer
<1>11. \A j \in 0 .. k - 1 : \E x \in Lowest(R, S, k) : low[x] = j
  <2> SUFFICES ASSUME NEW j \in 0 .. k - 1 PROVE \E x \in Lowest(R, S, k) : low[x] = j
    OBVIOUS
  <2>1. j \in 0 .. n - 1
    BY <1>1
  <2>2. PICK x \in S : rank[x] = j
    BY <2>1, <1>7 DEF Surjection
  <2>3. Cardinality(Below(R, S, x)) = j
    BY <2>2 DEF rank
  <2>4. x \in Lowest(R, S, k)
    BY <2>3 DEF Lowest
  <2> QED
    BY <2>3, <2>4
<1>12. low \in Injection(Lowest(R, S, k), 0 .. k - 1) /\ low \in Surjection(Lowest(R, S, k), 0 .. k - 1)
  BY <1>9, <1>10, <1>11 DEF Injection, IsInjective, Surjection
<1>13. IsFiniteSet(0 .. k - 1) /\ Cardinality(0 .. k - 1) = k
  BY FS_Interval
<1> HIDE DEF low
<1> QED
  BY <1>12, <1>13, FS_Injection

-----------------------------------------------------------------------------

CounterTypeOK ==
    /\ proc \in {"up", "down"}
    /\ next \in Nat
    /\ persistCeiling \in Nat
    /\ ceilingMu \in Emitters \cup {"free", "stop"}
    /\ pc \in [Emitters -> {"idle", "append", "raise", "persist", "raised"}]
    /\ want \in [Emitters \cup {"stop"} -> Nat]
    /\ stored \in Nat
    /\ failures \in Nat
    /\ issued \in Seq(Nat)

IssuedBelowCounter == proc = "up" => \A i \in 1 .. Len(issued) : issued[i] <= next

CeilingCovered == CeilingReached \/ persistCeiling <= stored

LockDiscipline ==
    /\ \A e \in Emitters : pc[e] \in {"persist", "raised"} => ceilingMu = e /\ CeilingReached
    /\ \A e \in Emitters : pc[e] = "persist" => want[e] = next + 1 + Epoch
    /\ \A e \in Emitters : pc[e] = "raised" => want[e] <= stored
    /\ ceilingMu = "stop" => want["stop"] = next /\ CeilingReached

Halted == proc = "down" => ceilingMu = "free" /\ \A e \in Emitters : pc[e] = "idle"

IInv ==
    /\ CounterTypeOK
    /\ IssuedBelowCounter
    /\ CeilingCovered
    /\ LockDiscipline
    /\ Halted
    /\ StoredCeilingCovers
    /\ EventNumbersNeverReused

-----------------------------------------------------------------------------

\* harvestLocked only removes records.
LEMMA HarvestSubset == ASSUME NEW S PROVE Harvest(S) \subseteq S
  BY DEF Harvest

\* Every variable keeps its type, with or without store failures; for the buffer
\* this is that an append's record is well formed and a harvest invents nothing.
THEOREM TypeCorrect == Spec => []TypeOK
  <1> USE EpochAssumption, BufferAssumption, StoreAssumption
  <1>1. Init => TypeOK
    BY DEF Init, TypeOK, NoOccurrence, Occurrence, Priorities, Debug, Record
  <1>2. ASSUME TypeOK, [Next]_vars PROVE TypeOK'
    <2>1. ASSUME NEW e \in Emitters, NEW o \in Occurrence, AppendStart(e, o) PROVE TypeOK'
      BY <1>2, <2>1 DEF TypeOK, AppendStart
    <2>2. ASSUME NEW e \in Emitters, AppendNeedsCeiling(e) PROVE TypeOK'
      BY <1>2, <2>2 DEF TypeOK, AppendNeedsCeiling
    <2>3. ASSUME NEW e \in Emitters, AppendRecord(e) PROVE TypeOK'
      <3> DEFINE r == [num |-> next + 1, prio |-> rec[e].prio, fabric |-> rec[e].fabric]
      <3>1. r \in Record
        BY <1>2 DEF TypeOK, Record, Occurrence
      <3>2. Harvest(occurrences \cup {r}) \in SUBSET Record
        BY <1>2, <3>1, HarvestSubset DEF TypeOK
      <3>3. NoOccurrence \in Occurrence
        BY DEF NoOccurrence, Occurrence, Priorities, Debug
      <3>4. occurrences' \in SUBSET Record
        BY <2>3, <3>2 DEF AppendRecord
      <3>5. rec' \in [Emitters -> Occurrence]
        BY <1>2, <2>3, <3>3 DEF TypeOK, AppendRecord
      <3>6. issued' \in Seq(Nat) /\ next' \in Nat
        BY <1>2, <2>3 DEF TypeOK, AppendRecord
      <3>7. pc' = [pc EXCEPT ![e] = "idle"]
            /\ UNCHANGED <<proc, persistCeiling, ceilingMu, want, stored, failures>>
        BY <2>3 DEF AppendRecord
      <3> QED
        BY <1>2, <3>4, <3>5, <3>6, <3>7 DEF TypeOK
    <2>4. ASSUME NEW e \in Emitters, RaiseCeiling(e) PROVE TypeOK'
      <3>1. CASE CeilingReached
        BY <1>2, <2>4, <3>1 DEF TypeOK, RaiseCeiling
      <3>2. CASE ~CeilingReached
        BY <1>2, <2>4, <3>2 DEF TypeOK, RaiseCeiling
      <3> QED
        BY <3>1, <3>2
    <2>5. ASSUME NEW e \in Emitters, PersistCeiling(e) PROVE TypeOK'
      BY <1>2, <2>5 DEF TypeOK, PersistCeiling, StoreWrite
    <2>6. ASSUME NEW e \in Emitters, CeilingRaised(e) PROVE TypeOK'
      BY <1>2, <2>6 DEF TypeOK, CeilingRaised
    <2>7. CASE DropBuffered
      BY <1>2, <2>7 DEF TypeOK, DropBuffered
    <2>8. CASE DropPersist
      BY <1>2, <2>8 DEF TypeOK, DropPersist, StoreWrite
    <2>9. ASSUME NEW f \in Fabrics, DropFabric(f) PROVE TypeOK'
      BY <1>2, <2>9 DEF TypeOK, DropFabric
    <2>10. CASE Crash
      BY <1>2, <2>10 DEF TypeOK, Crash, NoOccurrence, Occurrence, Priorities, Debug
    <2>11. CASE Boot
      BY <1>2, <2>11 DEF TypeOK, Boot
    <2>12. CASE UNCHANGED vars
      BY <1>2, <2>12 DEF TypeOK, vars
    <2> QED
      BY <1>2, <2>1, <2>2, <2>3, <2>4, <2>5, <2>6, <2>7, <2>8, <2>9, <2>10, <2>11, <2>12
      DEF Next, EmitterStep
  <1> QED
    BY <1>1, <1>2, PTL DEF Spec

-----------------------------------------------------------------------------

\* The initial state satisfies the invariant: nothing is issued or stored.
LEMMA InitIInv == Init => IInv
  BY EpochAssumption, OwnerAssumption
  DEF Init, IInv, CounterTypeOK, IssuedBelowCounter, CeilingCovered, LockDiscipline,
      Halted, StoredCeilingCovers, EventNumbersNeverReused, CeilingReached

\* Handing a number out keeps the invariant: the number lies below the ceiling
\* in memory, hence below the stored one, and above every earlier number.
LEMMA AppendIInv ==
    ASSUME IInv, NEW e \in Emitters, AppendRecord(e)
    PROVE  IInv'
  <1> USE EpochAssumption, OwnerAssumption
  <1>1. next + 1 <= stored /\ ~CeilingReached /\ proc = "up"
    BY DEF IInv, CounterTypeOK, CeilingCovered, AppendRecord, CeilingReached, Halted
  <1>2. CounterTypeOK'
    BY DEF IInv, CounterTypeOK, AppendRecord
  <1>3. Len(issued') = Len(issued) + 1 /\ issued'[Len(issued) + 1] = next + 1
        /\ \A i \in 1 .. Len(issued) : issued'[i] = issued[i]
    BY DEF IInv, CounterTypeOK, AppendRecord
  <1>4. Len(issued) \in Nat /\ \A i \in 1 .. Len(issued) : issued[i] \in Nat
    BY DEF IInv, CounterTypeOK
  <1>5. IssuedBelowCounter' /\ StoredCeilingCovers'
    BY <1>1, <1>3, <1>4
    DEF IInv, CounterTypeOK, AppendRecord, IssuedBelowCounter, StoredCeilingCovers
  <1>6. EventNumbersNeverReused'
    <2> SUFFICES ASSUME NEW i \in 1 .. Len(issued'), NEW j \in 1 .. Len(issued'), i < j
                 PROVE  issued'[i] < issued'[j]
      BY DEF EventNumbersNeverReused
    <2>1. i \in 1 .. Len(issued) /\ issued'[i] = issued[i] /\ issued[i] \in Nat
      BY <1>3, <1>4
    <2>2. issued[i] <= next /\ next \in Nat
      BY <1>1, <2>1 DEF IInv, CounterTypeOK, IssuedBelowCounter
    <2>3. CASE j = Len(issued) + 1
      BY <1>3, <2>1, <2>2, <2>3
    <2>4. CASE j \in 1 .. Len(issued)
      BY <1>3, <2>1, <2>4 DEF IInv, EventNumbersNeverReused
    <2> QED
      BY <1>3, <1>4, <2>3, <2>4
  <1>7. \A f \in Emitters : pc'[f] \notin {"persist", "raised"}
    <2>1. pc' = [pc EXCEPT ![e] = "idle"]
      BY DEF AppendRecord
    <2> QED
      BY <1>1, <2>1 DEF IInv, CounterTypeOK, LockDiscipline
  <1>8. ceilingMu' # "stop"
    BY <1>1 DEF IInv, AppendRecord, LockDiscipline
  <1>9. LockDiscipline'
    BY <1>7, <1>8 DEF LockDiscipline
  <1>10. CeilingCovered' /\ Halted'
    BY <1>1 DEF IInv, CounterTypeOK, AppendRecord, CeilingCovered, Halted, CeilingReached
  <1> QED
    BY <1>2, <1>5, <1>6, <1>9, <1>10 DEF IInv

\* The steps that hand nothing out keep it too, when no store operation fails in them.
LEMMA OtherStepsIInv ==
    ASSUME IInv, failures' = failures, issued' = issued,
           \/ \E e \in Emitters, o \in Occurrence : AppendStart(e, o)
           \/ \E e \in Emitters : \/ AppendNeedsCeiling(e) \/ RaiseCeiling(e)
                                  \/ PersistCeiling(e) \/ CeilingRaised(e)
           \/ DropBuffered \/ DropPersist \/ (\E f \in Fabrics : DropFabric(f))
           \/ Crash \/ Boot \/ UNCHANGED vars
    PROVE  IInv'
  <1> USE EpochAssumption, OwnerAssumption DEF StoreWrite
  <1>0. /\ EventNumbersNeverReused'
        /\ Len(issued) \in Nat /\ \A i \in 1 .. Len(issued) : issued[i] \in Nat
    BY DEF IInv, EventNumbersNeverReused, CounterTypeOK
  <1>1. ASSUME NEW e \in Emitters, NEW o \in Occurrence, AppendStart(e, o) PROVE IInv'
    BY <1>0, <1>1 DEF IInv, CounterTypeOK, AppendStart, IssuedBelowCounter,
      CeilingCovered, LockDiscipline, Halted, StoredCeilingCovers, CeilingReached
  <1>2. ASSUME NEW e \in Emitters, AppendNeedsCeiling(e) PROVE IInv'
    BY <1>0, <1>2 DEF IInv, CounterTypeOK, AppendNeedsCeiling, IssuedBelowCounter,
      CeilingCovered, LockDiscipline, Halted, StoredCeilingCovers, CeilingReached
  <1>3. ASSUME NEW e \in Emitters, RaiseCeiling(e) PROVE IInv'
    <2>1. CASE CeilingReached
      <3>1. /\ ceilingMu = "free" /\ ceilingMu' = e /\ pc' = [pc EXCEPT ![e] = "persist"]
            /\ want' = [want EXCEPT ![e] = next + 1 + Epoch]
            /\ UNCHANGED <<next, persistCeiling, stored, proc, failures>>
        BY <1>3, <2>1 DEF RaiseCeiling
      <3>2. \A f \in Emitters : pc[f] \notin {"persist", "raised"}
        BY <3>1 DEF IInv, LockDiscipline
      <3>3. LockDiscipline'
        BY <2>1, <3>1, <3>2 DEF IInv, CounterTypeOK, LockDiscipline, CeilingReached
      <3>4. CounterTypeOK'
        BY <3>1 DEF IInv, CounterTypeOK
      <3> QED
        BY <1>0, <1>3, <3>1, <3>3, <3>4 DEF IInv, CounterTypeOK, RaiseCeiling,
          IssuedBelowCounter, CeilingCovered, Halted, StoredCeilingCovers, CeilingReached
    <2>2. CASE ~CeilingReached
      BY <1>0, <1>3, <2>2 DEF IInv, CounterTypeOK, RaiseCeiling, IssuedBelowCounter,
        CeilingCovered, LockDiscipline, Halted, StoredCeilingCovers, CeilingReached
    <2> QED
      BY <2>1, <2>2
  <1>4. ASSUME NEW e \in Emitters, PersistCeiling(e) PROVE IInv'
    <2>1. stored' = next + 1 + Epoch /\ next' = next /\ persistCeiling' = persistCeiling
          /\ failures' = failures /\ proc' = proc /\ proc = "up"
      BY <1>4 DEF IInv, CounterTypeOK, LockDiscipline, Halted, PersistCeiling
    <2>2. IssuedBelowCounter' /\ StoredCeilingCovers'
      BY <1>0, <2>1 DEF IInv, CounterTypeOK, IssuedBelowCounter, StoredCeilingCovers
    <2>3. CounterTypeOK' /\ CeilingCovered' /\ LockDiscipline' /\ Halted'
      BY <1>4, <2>1 DEF IInv, CounterTypeOK, PersistCeiling, CeilingCovered,
        LockDiscipline, Halted, CeilingReached
    <2> QED
      BY <1>0, <2>2, <2>3 DEF IInv
  <1>5. ASSUME NEW e \in Emitters, CeilingRaised(e) PROVE IInv'
    BY <1>0, <1>5 DEF IInv, CounterTypeOK, CeilingRaised, IssuedBelowCounter,
      CeilingCovered, LockDiscipline, Halted, StoredCeilingCovers, CeilingReached
  <1>6. CASE DropBuffered
    BY <1>0, <1>6 DEF IInv, CounterTypeOK, DropBuffered, IssuedBelowCounter,
      CeilingCovered, LockDiscipline, Halted, StoredCeilingCovers, CeilingReached
  <1>7. CASE DropPersist
    BY <1>0, <1>7 DEF IInv, CounterTypeOK, DropPersist, IssuedBelowCounter,
      CeilingCovered, LockDiscipline, Halted, StoredCeilingCovers, CeilingReached
  <1>8. ASSUME NEW f \in Fabrics, DropFabric(f) PROVE IInv'
    BY <1>0, <1>8 DEF IInv, CounterTypeOK, DropFabric, IssuedBelowCounter,
      CeilingCovered, LockDiscipline, Halted, StoredCeilingCovers, CeilingReached
  <1>9. CASE Crash
    BY <1>0, <1>9 DEF IInv, CounterTypeOK, Crash, IssuedBelowCounter,
      CeilingCovered, LockDiscipline, Halted, StoredCeilingCovers, CeilingReached
  <1>10. CASE Boot
    BY <1>0, <1>10 DEF IInv, CounterTypeOK, Boot, IssuedBelowCounter,
      CeilingCovered, LockDiscipline, Halted, StoredCeilingCovers, CeilingReached
  <1>11. CASE UNCHANGED vars
    BY <1>0, <1>11 DEF IInv, CounterTypeOK, vars, IssuedBelowCounter,
      CeilingCovered, LockDiscipline, Halted, StoredCeilingCovers, CeilingReached
  <1> QED
    BY <1>1, <1>2, <1>3, <1>4, <1>5, <1>6, <1>7, <1>8, <1>9, <1>10, <1>11

\* A step without an append leaves what was issued, and no step takes back a failure.
LEMMA NothingIssued ==
    ASSUME [Next]_vars, ~ \E e \in Emitters : AppendRecord(e) PROVE issued' = issued
  BY DEF Next, EmitterStep, AppendStart, AppendNeedsCeiling, RaiseCeiling, PersistCeiling,
    CeilingRaised, DropBuffered, DropPersist, DropFabric, Crash, Boot, vars

LEMMA FailuresRemain ==
    ASSUME [Next]_vars PROVE failures' \in {failures, failures + 1}
  BY DEF Next, EmitterStep, AppendStart, AppendNeedsCeiling, AppendRecord, RaiseCeiling,
    PersistCeiling, CeilingRaised, DropBuffered, DropPersist, DropFabric, Crash, Boot,
    StoreWrite, vars

\* Up to the first store operation that fails, the invariant holds.
UntilFailure == failures = 0 => IInv

LEMMA Invariance == Spec => []UntilFailure
  <1>1. TypeOK /\ UntilFailure /\ [Next]_vars => UntilFailure'
    <2> SUFFICES ASSUME TypeOK, UntilFailure, [Next]_vars, failures' = 0 PROVE IInv'
      BY DEF UntilFailure
    <2>0. failures = 0
      BY FailuresRemain DEF TypeOK
    <2>1. IInv
      BY <2>0 DEF UntilFailure
    <2>2. CASE \E e \in Emitters : AppendRecord(e)
      BY <2>1, <2>2, AppendIInv
    <2>3. CASE ~ \E e \in Emitters : AppendRecord(e)
      <3>1. issued' = issued /\ failures' = failures
        BY <2>0, <2>3, NothingIssued
      <3> QED
        BY <2>1, <2>3, <3>1, OtherStepsIInv DEF Next, EmitterStep
    <2> QED
      BY <2>2, <2>3
  <1>2. Init => UntilFailure
    BY InitIInv DEF UntilFailure
  <1> QED
    BY <1>1, <1>2, TypeCorrect, PTL DEF Spec

\* Up to the first store operation that fails, however many may fail after it, no number
\* is handed out twice and the stored ceiling covers every number (node.go's persist
\* callback only logs the error).
THEOREM FreshUntilStoreFails ==
    Spec => [](failures = 0 => EventNumbersNeverReused /\ StoredCeilingCovers)
  <1>1. UntilFailure => (failures = 0 => EventNumbersNeverReused /\ StoredCeilingCovers)
    BY DEF UntilFailure, IInv
  <1> QED
    BY <1>1, Invariance, PTL

\* No event number is handed out twice, across crashes, restarts and stops.
THEOREM NumbersNeverReused ==
    ASSUME StoreFailures = 0 PROVE Spec => []EventNumbersNeverReused
  <1>1. TypeOK /\ UntilFailure => EventNumbersNeverReused
    BY DEF TypeOK, UntilFailure, IInv
  <1> QED
    BY <1>1, Invariance, TypeCorrect, PTL

\* The stored ceiling covers every number handed out, at every moment.
THEOREM CeilingCoversIssued ==
    ASSUME StoreFailures = 0 PROVE Spec => []StoredCeilingCovers
  <1>1. TypeOK /\ UntilFailure => StoredCeilingCovers
    BY DEF TypeOK, UntilFailure, IInv
  <1> QED
    BY <1>1, Invariance, TypeCorrect, PTL

-----------------------------------------------------------------------------
\* The harvest, on the buffers there can be.

\* Finitely many records, told apart by their numbers.
Numbered(S) == S \in SUBSET Record /\ IsFiniteSet(S) /\ \A r, s \in S : r.num = s.num => r = s

\* The records of a class and the protected ones among them, the more recent first; the
\* records within reach, in the order they are given up.
Class(S, p) == {r \in S : r.prio = p}
Recent(S) == {pair \in S \X S : pair[1].num > pair[2].num}
ProtectedOf(S, p) == {r \in Class(S, p) : Protected(S, r)}
Reach(S) == {r \in S : ~Protected(S, r)}
GivenUp(S) == {pair \in S \X S : GoesBefore(pair[1], pair[2])}

\* The floors are numbers.
LEMMA FloorType ==
    /\ Floor[Debug] = MinDebugAllowance /\ Floor[Info] = MinInfoAllowance /\ Floor[Critical] = 0
    /\ \A p \in Priorities : Floor[p] \in Nat
  BY BufferAssumption DEF Floor, Priorities, Debug, Info, Critical

\* The floor of a class protects no more records than it says.
LEMMA ProtectedFew ==
    ASSUME NEW S, Numbered(S), NEW p \in Priorities
    PROVE  /\ IsFiniteSet(ProtectedOf(S, p)) /\ Cardinality(ProtectedOf(S, p)) \in Nat
           /\ Cardinality(ProtectedOf(S, p)) <= Floor[p]
<1> DEFINE C == Class(S, p)
           R == Recent(C)
           L == Lowest(R, C, Floor[p])
<1>1. C \in SUBSET S /\ \A r \in C : r.num \in Nat /\ r.prio = p
  BY DEF Class, Numbered, Record
<1>2. IsFiniteSet(C) /\ Cardinality(C) \in Nat
  <2>1. IsFiniteSet(S)
    BY DEF Numbered
  <2>2. IsFiniteSet(C)
    BY <1>1, <2>1, FS_Subset
  <2> QED
    BY <2>2, FS_CardinalityType
<1>3. \A r, s \in C : <<r, s>> \in R <=> r.num > s.num
  BY DEF Recent
<1>4. StrictlyOrders(R, C)
  <2>1. \A r, s \in C : r # s => r.num # s.num
    BY <1>1 DEF Numbered
  <2> HIDE DEF C, R
  <2> QED
    BY <1>1, <1>3, <2>1 DEF StrictlyOrders
<1>5. \A r \in C : Below(R, C, r) = {s \in S : s.prio = r.prio /\ s.num > r.num}
  <2> SUFFICES ASSUME NEW r \in C PROVE Below(R, C, r) = {s \in S : s.prio = r.prio /\ s.num > r.num}
    OBVIOUS
  <2>1. \A s : s \in C <=> s \in S /\ s.prio = p
    BY DEF Class
  <2>2. r.prio = p
    BY <1>1
  <2> HIDE DEF C, R
  <2> QED
    BY <1>3, <2>1, <2>2 DEF Below
<1>6. ProtectedOf(S, p) = L
  <2>1. \A r \in C : r.prio = p
    BY <1>1
  <2>2. \A r \in C : Protected(S, r) <=> Cardinality(Below(R, C, r)) < Floor[p]
    BY <1>5, <2>1 DEF Protected
  <2> HIDE DEF R
  <2> QED
    BY <2>2 DEF ProtectedOf, Lowest
<1>7. Floor[p] \in Nat
  BY FloorType
<1> HIDE DEF C, R
<1>8. CASE Floor[p] <= Cardinality(C)
  BY <1>2, <1>4, <1>6, <1>7, <1>8, LowestCount
<1>9. CASE ~(Floor[p] <= Cardinality(C))
  <2>1. L \in SUBSET C
    BY DEF Lowest
  <2> HIDE DEF L
  <2>2. IsFiniteSet(L) /\ Cardinality(L) <= Cardinality(C)
    BY <1>2, <2>1, FS_Subset
  <2>3. Cardinality(L) \in Nat
    BY <2>2, FS_CardinalityType
  <2> QED
    BY <1>2, <1>6, <1>7, <1>9, <2>2, <2>3
<1> QED
  BY <1>8, <1>9

\* What is out of reach of the harvest are the protected Debug and Info records.
LEMMA OutOfReach ==
    ASSUME NEW S, Numbered(S)
    PROVE  /\ Reach(S) \in SUBSET S /\ IsFiniteSet(S \ Reach(S)) /\ Cardinality(S \ Reach(S)) \in Nat
           /\ Cardinality(S \ Reach(S)) <= MinDebugAllowance + MinInfoAllowance
<1> DEFINE D == ProtectedOf(S, Debug)
           I == ProtectedOf(S, Info)
<1>1. ProtectedOf(S, Critical) = {}
  <2>1. IsFiniteSet(ProtectedOf(S, Critical)) /\ Cardinality(ProtectedOf(S, Critical)) \in Nat
        /\ Cardinality(ProtectedOf(S, Critical)) <= 0
    BY ProtectedFew, FloorType DEF Priorities
  <2>2. Cardinality(ProtectedOf(S, Critical)) = 0
    BY <2>1
  <2> QED
    BY <2>1, <2>2, FS_EmptySet
<1>2. S \ Reach(S) = D \cup I
  <2>1. \A r \in S : r.prio \in {Debug, Info, Critical}
    BY DEF Numbered, Record, Priorities
  <2>2. \A r \in S : Protected(S, r) => r.prio # Critical
    BY <1>1 DEF ProtectedOf, Class
  <2> QED
    BY <2>1, <2>2 DEF Reach, ProtectedOf, Class
<1>3. /\ IsFiniteSet(D) /\ Cardinality(D) \in Nat /\ Cardinality(D) <= MinDebugAllowance
      /\ IsFiniteSet(I) /\ Cardinality(I) \in Nat /\ Cardinality(I) <= MinInfoAllowance
  BY ProtectedFew, FloorType DEF Priorities
<1> HIDE DEF D, I
<1>4. /\ IsFiniteSet(D \cup I) /\ Cardinality(D \cup I) = Cardinality(D) + Cardinality(I) - Cardinality(D \cap I)
      /\ Cardinality(D \cap I) \in Nat
  BY <1>3, FS_Union, FS_Intersection, FS_CardinalityType
<1>5. Cardinality(D \cup I) \in Nat /\ Cardinality(D \cup I) <= MinDebugAllowance + MinInfoAllowance
  <2>1. Cardinality(D \cup I) \in Nat
    BY <1>4, FS_CardinalityType
  <2> QED
    BY <1>3, <1>4, <2>1, BufferAssumption
<1> QED
  BY <1>2, <1>4, <1>5 DEF Reach

\* The order in which records are given up is one.
LEMMA GivenUpOrders ==
    ASSUME NEW S, Numbered(S), NEW T \in SUBSET S
    PROVE  /\ StrictlyOrders(GivenUp(T), T)
           /\ \A r \in T : Below(GivenUp(T), T, r) = {s \in T : GoesBefore(s, r)}
<1>1. \A r, s \in T : <<r, s>> \in GivenUp(T) <=> GoesBefore(r, s)
  BY DEF GivenUp
<1>2. \A r \in T : r.num \in Nat /\ r.prio \in Int
  BY DEF Numbered, Record, Priorities, Debug, Info, Critical
<1>3. \A r, s \in T : r # s => r.num # s.num
  BY DEF Numbered
<1>4. \A r \in T : ~GoesBefore(r, r)
  BY <1>2 DEF GoesBefore
<1>5. \A r, s \in T : r # s => GoesBefore(r, s) \/ GoesBefore(s, r)
  BY <1>2, <1>3 DEF GoesBefore
<1>6. \A r, s, t \in T : GoesBefore(r, s) /\ GoesBefore(s, t) => GoesBefore(r, t)
  BY <1>2 DEF GoesBefore
<1> QED
  BY <1>1, <1>4, <1>5, <1>6 DEF StrictlyOrders, Below

\* One pass of the harvest is enough, if the floors leave it something to drop.
LEMMA HarvestSuffices ==
    ASSUME MinDebugAllowance + MinInfoAllowance <= MaxEventAllowance, NEW S, Numbered(S)
    PROVE  Cardinality(Harvest(S)) <= MaxEventAllowance
<1> DEFINE n == Cardinality(S)
           T == Reach(S)
           R == GivenUp(T)
           k == n - MinEventAllowance
<1>0. /\ MinEventAllowance \in Nat /\ MaxEventAllowance \in Nat /\ MinEventAllowance < MaxEventAllowance
      /\ MinDebugAllowance \in Nat /\ MinInfoAllowance \in Nat
  BY BufferAssumption
<1>1. IsFiniteSet(S) /\ n \in Nat
  <2>1. IsFiniteSet(S)
    BY DEF Numbered
  <2> QED
    BY <2>1, FS_CardinalityType
<1>2. /\ T \in SUBSET S /\ Cardinality(S \ T) \in Nat
      /\ Cardinality(S \ T) <= MaxEventAllowance
  <2>1. /\ T \in SUBSET S /\ Cardinality(S \ T) \in Nat
        /\ Cardinality(S \ T) <= MinDebugAllowance + MinInfoAllowance
    BY OutOfReach
  <2> HIDE DEF T
  <2> QED
    BY <1>0, <2>1
<1>3. IsFiniteSet(T) /\ Cardinality(T) \in Nat
  <2> HIDE DEF T
  <2>1. IsFiniteSet(T)
    BY <1>1, <1>2, FS_Subset
  <2> QED
    BY <2>1, FS_CardinalityType
<1>4. StrictlyOrders(R, T) /\ \A r \in T : Below(R, T, r) = {s \in T : GoesBefore(s, r)}
  BY <1>2, GivenUpOrders
<1>5. Dropped(S, k) = Lowest(R, T, k)
  BY <1>4 DEF Dropped, Lowest, Reach
<1>6. Harvest(S) = IF n <= MaxEventAllowance THEN S ELSE S \ Lowest(R, T, k)
  BY <1>5 DEF Harvest
<1> HIDE DEF n, T, R
<1>7. CASE n <= MaxEventAllowance
  BY <1>6, <1>7 DEF n
<1>8. CASE ~(n <= MaxEventAllowance)
  <2>0. k \in Nat /\ n - k <= MaxEventAllowance
    BY <1>0, <1>1, <1>8
  <2> HIDE DEF k
  <2>1. CASE k <= Cardinality(T)
    <3>1. IsFiniteSet(Lowest(R, T, k)) /\ Cardinality(Lowest(R, T, k)) = k
      BY <1>3, <1>4, <2>0, <2>1, LowestCount
    <3>2. S \cap Lowest(R, T, k) = Lowest(R, T, k)
      BY <1>2 DEF Lowest
    <3>3. Cardinality(S \ Lowest(R, T, k)) = Cardinality(S) - Cardinality(S \cap Lowest(R, T, k))
      BY <1>1, FS_Difference
    <3> QED
      BY <1>6, <1>8, <2>0, <3>1, <3>2, <3>3 DEF n
  <2>2. CASE ~(k <= Cardinality(T))
    <3>1. \A r \in T : Cardinality(Below(R, T, r)) \in Nat /\ Cardinality(Below(R, T, r)) < Cardinality(T)
      BY <1>3, <1>4, BelowFinite
    <3>2. \A r \in T : Cardinality(Below(R, T, r)) < k
      BY <1>3, <2>0, <2>2, <3>1
    <3>3. Lowest(R, T, k) = T
      BY <3>2 DEF Lowest
    <3> QED
      BY <1>2, <1>6, <1>8, <3>3
  <2> QED
    BY <2>1, <2>2
<1> QED
  BY <1>7, <1>8

\* The buffer's records are numbered, and the next number is new to it: the counter
\* only goes back when the process dies, and the buffer with it.
BufferInv ==
    /\ TypeOK /\ Numbered(occurrences)
    /\ \A r \in occurrences : r.num <= next
    /\ proc = "down" => occurrences = {} /\ \A e \in Emitters : pc[e] = "idle"

\* A step that adds no record.
LEMMA FewerNumbered ==
    ASSUME BufferInv, TypeOK', occurrences' \subseteq occurrences,
           next' >= next \/ occurrences' = {},
           proc' = "down" => occurrences' = {} /\ \A e \in Emitters : pc'[e] = "idle"
    PROVE  BufferInv'
<1>1. occurrences' \in SUBSET occurrences
  OBVIOUS
<1>2. IsFiniteSet(occurrences)
  BY DEF BufferInv, Numbered
<1>3. IsFiniteSet(occurrences')
  BY <1>1, <1>2, FS_Subset
<1>4. Numbered(occurrences')
  BY <1>1, <1>3 DEF BufferInv, Numbered
<1>5. \A r \in occurrences' : r.num <= next'
  <2>1. \A r \in occurrences : r.num \in Nat
    BY DEF BufferInv, TypeOK, Record
  <2> QED
    BY <1>1, <2>1 DEF BufferInv, TypeOK
<1> QED
  BY <1>4, <1>5 DEF BufferInv

\* The buffer an append harvests.
Appended(e) == occurrences \cup {[num |-> next + 1, prio |-> rec[e].prio, fabric |-> rec[e].fabric]}

\* An append's record has a number of its own.
LEMMA AppendNumbered ==
    ASSUME BufferInv, NEW e \in Emitters
    PROVE  Numbered(Appended(e)) /\ \A r \in Appended(e) : r.num <= next + 1
<1> DEFINE new == [num |-> next + 1, prio |-> rec[e].prio, fabric |-> rec[e].fabric]
<1>1. new \in Record /\ new.num = next + 1 /\ next \in Nat
  BY DEF BufferInv, TypeOK, Occurrence, Record
<1> HIDE DEF new
<1>2. IsFiniteSet(occurrences) /\ \A r \in occurrences : r.num \in Nat /\ r.num <= next
  BY DEF BufferInv, TypeOK, Numbered, Record
<1>3. IsFiniteSet(occurrences \cup {new})
  BY <1>2, FS_AddElement
<1>4. \A r, s \in occurrences \cup {new} : r.num = s.num => r = s
  BY <1>1, <1>2 DEF BufferInv, Numbered
<1>5. occurrences \cup {new} \in SUBSET Record
  BY <1>1 DEF BufferInv, Numbered
<1>6. \A r \in occurrences \cup {new} : r.num <= next + 1
  BY <1>1, <1>2
<1> QED
  BY <1>3, <1>4, <1>5, <1>6 DEF Numbered, Appended, new

\* The records of the buffer stay numbered.
LEMMA BufferStep == BufferInv /\ TypeOK' /\ [Next]_vars => BufferInv'
<1> SUFFICES ASSUME BufferInv, TypeOK', [Next]_vars PROVE BufferInv'
  OBVIOUS
<1>0. next \in Nat /\ stored \in Nat
  BY DEF BufferInv, TypeOK
<1>1. ASSUME NEW e \in Emitters, AppendRecord(e) PROVE BufferInv'
  <2>1. /\ next' = next + 1 /\ proc' = proc /\ occurrences' = Harvest(Appended(e))
        /\ pc[e] = "append"
    BY <1>1 DEF AppendRecord, Appended
  <2>2. occurrences' \in SUBSET Appended(e)
    BY <2>1, HarvestSubset
  <2>3. Numbered(Appended(e)) /\ \A r \in Appended(e) : r.num <= next + 1
    BY AppendNumbered
  <2>4. IsFiniteSet(occurrences')
    <3>1. IsFiniteSet(Appended(e))
      BY <2>3 DEF Numbered
    <3> QED
      BY <2>2, <3>1, FS_Subset
  <2>5. Numbered(occurrences') /\ \A r \in occurrences' : r.num <= next'
    BY <2>1, <2>2, <2>3, <2>4 DEF Numbered
  <2>6. proc' = "up"
    BY <1>1, <2>1 DEF BufferInv, TypeOK
  <2> QED
    BY <2>5, <2>6 DEF BufferInv
<1>2. CASE Crash
  BY <1>2, FewerNumbered DEF Crash
<1>3. CASE Boot
  BY <1>3, FewerNumbered DEF Boot, BufferInv
<1>4. CASE DropBuffered
  BY <1>0, <1>4, FewerNumbered DEF DropBuffered
<1>5. ASSUME NEW f \in Fabrics, DropFabric(f) PROVE BufferInv'
  BY <1>0, <1>5, FewerNumbered DEF DropFabric
<1>6. ASSUME UNCHANGED <<next, occurrences, proc>>, proc = "up" \/ UNCHANGED pc PROVE BufferInv'
  BY <1>0, <1>6, FewerNumbered DEF BufferInv
<1>7. ASSUME NEW e \in Emitters, pc[e] # "idle" PROVE proc = "up"
  BY <1>7 DEF BufferInv, TypeOK
<1>8. ASSUME NEW e \in Emitters, NEW o \in Occurrence, AppendStart(e, o) PROVE BufferInv'
  BY <1>6, <1>8 DEF AppendStart
<1>9. ASSUME NEW e \in Emitters,
             AppendNeedsCeiling(e) \/ RaiseCeiling(e) \/ PersistCeiling(e) \/ CeilingRaised(e)
      PROVE  BufferInv'
  BY <1>6, <1>7, <1>9 DEF AppendNeedsCeiling, RaiseCeiling, PersistCeiling, CeilingRaised
<1>10. CASE DropPersist \/ UNCHANGED vars
  BY <1>6, <1>10 DEF DropPersist, vars
<1> QED
  BY <1>1, <1>2, <1>3, <1>4, <1>5, <1>8, <1>9, <1>10 DEF Next, EmitterStep

\* In every reachable state.
LEMMA BufferHolds == Spec => []BufferInv
<1>1. Init => TypeOK
  BY EpochAssumption, BufferAssumption, StoreAssumption
     DEF Init, TypeOK, NoOccurrence, Occurrence, Priorities, Debug, Record
<1>2. Init => Numbered(occurrences)
  BY FS_EmptySet DEF Init, Numbered
<1>3. Init => BufferInv
  BY <1>1, <1>2 DEF Init, BufferInv
<1> QED
  BY <1>3, BufferStep, TypeCorrect, PTL DEF Spec

\* Numbers ascend, and while the process is up the counter is at or above all of them:
\* the next one will be new.
Fresh == EventNumbersNeverReused /\ IssuedBelowCounter

\* An append hands out a number above all earlier ones.
LEMMA AppendFresh ==
    ASSUME BufferInv, Fresh, NEW e \in Emitters, AppendRecord(e) PROVE Fresh'
<1>1. /\ next \in Nat /\ next' = next + 1 /\ issued \in Seq(Nat)
      /\ issued' = Append(issued, next + 1)
  BY DEF BufferInv, TypeOK, AppendRecord
<1>2. proc = "up"
  BY DEF BufferInv, TypeOK, AppendRecord
<1>3. Len(issued') = Len(issued) + 1 /\ issued'[Len(issued) + 1] = next + 1
      /\ \A i \in 1 .. Len(issued) : issued'[i] = issued[i]
  BY <1>1
<1>4. Len(issued) \in Nat /\ \A i \in 1 .. Len(issued) : issued[i] \in Nat
  BY <1>1
<1>5. \A i \in 1 .. Len(issued) : issued[i] <= next
  BY <1>2 DEF Fresh, IssuedBelowCounter
<1>6. \A i \in 1 .. Len(issued') : issued'[i] <= next'
  BY <1>1, <1>3, <1>4, <1>5
<1>7. ASSUME NEW i \in 1 .. Len(issued'), NEW j \in 1 .. Len(issued'), i < j
      PROVE  issued'[i] < issued'[j]
  <2>1. i \in 1 .. Len(issued)
    BY <1>3, <1>4, <1>7
  <2>2. issued'[i] = issued[i] /\ issued[i] <= next /\ issued[i] \in Nat
    BY <1>3, <1>4, <1>5, <2>1
  <2>3. CASE j = Len(issued) + 1
    BY <1>1, <1>3, <2>2, <2>3
  <2>4. CASE j \in 1 .. Len(issued)
    BY <1>3, <1>7, <2>1, <2>2, <2>4 DEF Fresh, EventNumbersNeverReused
  <2> QED
    BY <1>3, <1>4, <2>3, <2>4
<1> QED
  BY <1>6, <1>7 DEF Fresh, IssuedBelowCounter, EventNumbersNeverReused

\* A failed store operation does no harm by itself.  Whatever fails, every step keeps the
\* numbers fresh but one: the start of a process (node.New) after a store operation failed.
THEOREM ReuseNeedsFailureAndBoot ==
    Spec => [][Fresh => Fresh' \/ (Boot /\ failures' > 0)]_vars
<1>1. BufferInv /\ BufferInv' /\ UntilFailure' /\ [Next]_vars
          => [Fresh => Fresh' \/ (Boot /\ failures' > 0)]_vars
  <2> SUFFICES ASSUME BufferInv, BufferInv', UntilFailure', [Next]_vars, Fresh,
                      ~(Boot /\ failures' > 0)
               PROVE  Fresh'
    OBVIOUS
  <2>1. CASE failures' = 0
    BY <2>1 DEF UntilFailure, IInv, Fresh
  <2>2. CASE failures' # 0
    <3>1. ~Boot
      BY <2>2 DEF BufferInv, TypeOK
    <3>2. CASE \E e \in Emitters : AppendRecord(e)
      BY <3>2, AppendFresh
    <3>3. CASE ~ \E e \in Emitters : AppendRecord(e)
      <4>1. issued' = issued
        BY <3>3, NothingIssued
      <4>2. Crash \/ (next' = next /\ proc' = proc)
        BY <3>1, <3>3 DEF Next, EmitterStep, AppendStart, AppendNeedsCeiling, RaiseCeiling,
          PersistCeiling, CeilingRaised, DropBuffered, DropPersist, DropFabric, vars
      <4>3. CASE Crash
        BY <4>1, <4>3 DEF Crash, Fresh, IssuedBelowCounter, EventNumbersNeverReused
      <4>4. CASE next' = next /\ proc' = proc
        BY <4>1, <4>4 DEF Fresh, IssuedBelowCounter, EventNumbersNeverReused
      <4> QED
        BY <4>2, <4>3, <4>4
    <3> QED
      BY <3>2, <3>3
  <2> QED
    BY <2>1, <2>2
<1> QED
  BY <1>1, Invariance, BufferHolds, PTL DEF Spec

\* The buffer never outgrows its allowance, with any record priorities and fabrics and
\* whether or not the store fails, if the floors fit into it: bufferConfig.normalized
\* does not check that, and the defaults leave ample room.
THEOREM BufferBounded ==
    ASSUME MinDebugAllowance + MinInfoAllowance <= MaxEventAllowance
    PROVE  Spec => []BufferWithinAllowance
<1>1. Init => BufferWithinAllowance
  BY FS_EmptySet, BufferAssumption DEF Init, BufferWithinAllowance
<1>2. BufferInv /\ BufferWithinAllowance /\ [Next]_vars => BufferWithinAllowance'
  <2> SUFFICES ASSUME BufferInv, BufferWithinAllowance, [Next]_vars PROVE BufferWithinAllowance'
    OBVIOUS
  <2>1. ASSUME NEW e \in Emitters, AppendRecord(e) PROVE BufferWithinAllowance'
    <3>1. occurrences' = Harvest(Appended(e)) /\ Numbered(Appended(e))
      BY <2>1, AppendNumbered DEF AppendRecord, Appended
    <3> QED
      BY <3>1, HarvestSuffices DEF BufferWithinAllowance
  <2>2. ASSUME occurrences' \in SUBSET occurrences PROVE BufferWithinAllowance'
    <3>1. IsFiniteSet(occurrences)
      BY DEF BufferInv, Numbered
    <3>2. IsFiniteSet(occurrences') /\ Cardinality(occurrences') <= Cardinality(occurrences)
      BY <2>2, <3>1, FS_Subset
    <3>3. Cardinality(occurrences) \in Nat /\ Cardinality(occurrences') \in Nat
      BY <3>1, <3>2, FS_CardinalityType
    <3> QED
      BY <3>2, <3>3, BufferAssumption DEF BufferWithinAllowance
  <2>3. (~ \E e \in Emitters : AppendRecord(e)) => occurrences' \in SUBSET occurrences
    BY DEF Next, EmitterStep, AppendStart, AppendNeedsCeiling, RaiseCeiling, PersistCeiling,
       CeilingRaised, DropBuffered, DropPersist, DropFabric, Crash, Boot, vars
  <2> QED
    BY <2>1, <2>2, <2>3
<1> QED
  BY <1>1, <1>2, BufferHolds, PTL DEF Spec

\* Who goes before a record that the harvest gives up is given up.
LEMMA GivenUpInOrder ==
    ASSUME NEW S, Numbered(S), NEW k \in Int, NEW c \in Dropped(S, k),
           NEW r \in Reach(S), GoesBefore(r, c)
    PROVE  r \in Dropped(S, k)
<1> DEFINE T == Reach(S)
           R == GivenUp(T)
<1>1. T \in SUBSET S /\ c \in T
  BY DEF Reach, Dropped
<1>2. IsFiniteSet(T)
  <2>1. IsFiniteSet(S)
    BY DEF Numbered
  <2> HIDE DEF T
  <2> QED
    BY <1>1, <2>1, FS_Subset
<1>3. StrictlyOrders(R, T) /\ \A x \in T : Below(R, T, x) = {s \in T : GoesBefore(s, x)}
  BY <1>1, GivenUpOrders
<1>4. Dropped(S, k) = Lowest(R, T, k)
  BY <1>3 DEF Dropped, Lowest, Reach
<1>5. <<r, c>> \in R
  BY <1>1 DEF GivenUp
<1> HIDE DEF T, R
<1>6. Below(R, T, r) \in SUBSET Below(R, T, c)
  BY <1>1, <1>3, <1>5 DEF Below, StrictlyOrders, T
<1>7. IsFiniteSet(Below(R, T, c)) /\ Cardinality(Below(R, T, c)) \in Nat
  BY <1>1, <1>2, <1>3, BelowFinite
<1>8. IsFiniteSet(Below(R, T, r)) /\ Cardinality(Below(R, T, r)) <= Cardinality(Below(R, T, c))
  BY <1>6, <1>7, FS_Subset
<1>9. Cardinality(Below(R, T, r)) \in Nat
  BY <1>8, FS_CardinalityType
<1>10. Cardinality(Below(R, T, c)) < k
  BY <1>4 DEF Lowest
<1>11. Cardinality(Below(R, T, r)) < k
  BY <1>7, <1>8, <1>9, <1>10
<1> QED
  BY <1>4, <1>11 DEF Lowest, T

\* The harvest touches a Critical record only when the Debug and Info records that stay
\* are the protected ones: harvestLocked gives up class by class, oldest first.
THEOREM CriticalLast == Spec => CriticalDroppedLast
<1> DEFINE A == (\E e \in Emitters : AppendRecord(e))
                /\ (\E r \in occurrences : r.prio = Critical /\ r \notin occurrences')
                => \A p \in {Debug, Info} : Cardinality({r \in occurrences' : r.prio = p}) <= Floor[p]
<1>1. BufferInv /\ [Next]_vars => [A]_vars
  <2> SUFFICES ASSUME BufferInv, NEW e \in Emitters, AppendRecord(e), NEW c \in occurrences,
                      c.prio = Critical, c \notin occurrences', NEW p \in {Debug, Info}
               PROVE  Cardinality({r \in occurrences' : r.prio = p}) <= Floor[p]
    OBVIOUS
  <2> DEFINE S == Appended(e)
             k == Cardinality(S) - MinEventAllowance
             K == {r \in occurrences' : r.prio = p}
  <2>1. Numbered(S) /\ c \in S
    BY AppendNumbered DEF Appended
  <2>2. occurrences' = Harvest(S)
    BY DEF AppendRecord, Appended
  <2>3. k \in Int
    <3>1. IsFiniteSet(S)
      BY <2>1 DEF Numbered
    <3>2. Cardinality(S) \in Nat
      BY <3>1, FS_CardinalityType
    <3> QED
      BY <3>2, BufferAssumption
  <2>4. occurrences' = S \ Dropped(S, k) /\ c \in Dropped(S, k)
    BY <2>1, <2>2 DEF Harvest
  <2> HIDE DEF S, k
  <2>5. K \in SUBSET ProtectedOf(S, p)
    <3> SUFFICES ASSUME NEW r \in K PROVE r \in ProtectedOf(S, p)
      OBVIOUS
    <3>1. r \in S /\ r \notin Dropped(S, k) /\ r.prio = p
      BY <2>4
    <3>2. GoesBefore(r, c)
      BY <3>1 DEF GoesBefore, Debug, Info, Critical
    <3>3. r \notin Reach(S)
      BY <2>1, <2>3, <2>4, <3>1, <3>2, GivenUpInOrder
    <3> QED
      BY <3>1, <3>3 DEF Reach, ProtectedOf, Class
  <2>6. /\ IsFiniteSet(ProtectedOf(S, p)) /\ Cardinality(ProtectedOf(S, p)) \in Nat
        /\ Cardinality(ProtectedOf(S, p)) <= Floor[p] /\ Floor[p] \in Nat
    BY <2>1, ProtectedFew, FloorType DEF Priorities
  <2> HIDE DEF K
  <2>7. IsFiniteSet(K) /\ Cardinality(K) <= Cardinality(ProtectedOf(S, p))
    BY <2>5, <2>6, FS_Subset
  <2>8. Cardinality(K) \in Nat
    BY <2>7, FS_CardinalityType
  <2>9. Cardinality(K) <= Floor[p]
    BY <2>6, <2>7, <2>8
  <2> QED
    BY <2>9 DEF K
<1> QED
  BY <1>1, BufferHolds, PTL DEF Spec, CriticalDroppedLast
=============================================================================
