------------------------- MODULE CommissioningProofs -------------------------
(***************************************************************************)
(* What the commissioning transaction guarantees for every number of fabric *)
(* indexes, PASE sessions, watchers and fail-safe lengths: the types, and   *)
(* that while no rollback was lost an abandoned window leaves nothing in    *)
(* the store.                                                              *)
(***************************************************************************)
EXTENDS Commissioning, FiniteSetTheorems, WellFoundedInduction, TLAPS

\* The labels between which a window begins or ends, or a NOC command runs: every
\* action that enters one of them notes the overlap with another thread.
Ending == {"expired", "revert", "removed", "completed"}
Adding == {"addNOC", "identity", "rearm"}
Updating == {"updateNOC", "updated"}
Busy == {"armed"} \cup Ending \cup Adding \cup Updating

\* The fabrics of an uncompleted commissioning.
Uncommitted == Installed \ DOMAIN committed

\* A thread is somewhere.
At(l) == \E t \in Threads : pc[t] = l

Jobs == [idx : 0..MaxIndex, id : FabricIds \cup {NoRoot}, undo : Update,
         then : {"done", "close"}]

\* What the types need besides themselves: AddNOC carries a fabric identity, and a
\* PASE session runs no command before its handshake ends.
Types ==
    /\ TypeOK
    /\ committed \in [DOMAIN committed -> Fabric]
    /\ DOMAIN committed \subseteq Indexes
    /\ \A t \in Threads : pc[t] \in {"root", "addNOC"} => job[t].id \in FabricIds
    /\ \A p \in PaseSessions : paseState[p] = "new" => pc[p] = "idle"

\* One window begins, ends or runs a NOC command at a time, and each does so on its
\* side of failSafeArmed.
OneBusy ==
    /\ \A t, u \in Threads : pc[t] \in Busy /\ pc[u] \in Busy => t = u
    /\ \A t \in Threads : pc[t] \in Ending => armed = "disarmed"
    /\ \A t \in Threads :
           pc[t] \in {"armed", "add", "update", "root"} \cup Adding \cup Updating
               => armed = "armed"

\* The pending state is empty outside a window, and in one that has just begun.
Clean ==
    /\ armed = "disarmed" /\ ~At("expired") /\ ~At("completed")
           => install = 0 /\ update.idx = 0 /\ nocInvoked = "no" /\ csr = NoCSR
    /\ At("armed") => install = 0 /\ update.idx = 0 /\ nocInvoked = "no"

\* A NOC command was refused in the window and left a note to the rollback.
Unclean == "unclean" \in lost

\* An uncommitted fabric is the one the pending state, or the expiry under way, will
\* roll back; the window knows that it has been used, and is the fabric's own, unless
\* the fabric is what a refused AddNOC left behind.
Accounted ==
    \A i \in Uncommitted :
        /\ ~At("completed")
        /\ i = install \/ \E t \in Threads : pc[t] = "revert" /\ job[t].idx = i
        /\ nocInvoked = "yes" \/ Unclean
           \/ \E t \in Threads : pc[t] \in {"identity", "revert"} /\ job[t].idx = i
        /\ armed = "armed" => owner = i \/ Unclean
                              \/ \E t \in Threads : pc[t] \in {"identity", "rearm"}
        /\ \A t \in Threads : pc[t] \in {"identity", "rearm"} => job[t].idx = i

\* What a rollback will remove is uncommitted.
Spared ==
    /\ DOMAIN committed \subseteq Installed
    /\ install \in DOMAIN committed => At("completed")
    /\ \A t \in Threads : pc[t] \in {"identity", "revert"} => job[t].idx \notin DOMAIN committed
    /\ \A t \in Threads : pc[t] \in {"identity", "rearm"} => job[t].idx # 0

\* UpdateNOC is of the fabric that has the window, and notes one identity in it; what
\* a refused UpdateNOC noted is there for the next command, and an AddNOC after it may
\* pass the window on.
OwnUpdate ==
    /\ armed = "armed" /\ csr.for = "update" => owner # 0
    /\ \A t \in Threads : pc[t] = "update" => owner # 0
    /\ \A t \in Threads : pc[t] \in Updating \cup {"addNOC", "identity"} => nocInvoked = "no"
    /\ \A t \in Threads : pc[t] \in Adding \cup {"updateNOC"} => update.idx = 0 \/ Unclean
    /\ \A t \in Threads : pc[t] \in Updating => job[t].idx = owner
    /\ \A t \in Threads : pc[t] = "rearm" => update.idx = 0 \/ nocInvoked = "yes"
    /\ update.idx # 0 => nocInvoked = "yes" \/ At("updated") \/ Unclean
    /\ armed = "armed" /\ update.idx # 0
           => update.idx = owner \/ (Unclean /\ nocInvoked = "yes")

\* A committed fabric is as it was, or the identity it had is noted.
Kept ==
    /\ ~At("completed") /\ update.idx \in DOMAIN committed
           => committed[update.idx].noc = update.noc
    /\ \A t \in Threads : pc[t] = "revert" /\ job[t].undo.idx \in DOMAIN committed
           => committed[job[t].undo.idx].noc = job[t].undo.noc
    /\ \A i \in DOMAIN committed :
           /\ fabrics[i].id = committed[i].id
           /\ \/ fabrics[i].noc = committed[i].noc
              \/ update.idx = i /\ ~At("completed")
              \/ \E t \in Threads : pc[t] = "revert" /\ job[t].undo.idx = i

\* A thread that carries no fabric index has none left over from an earlier command.
Fresh ==
    \A t \in Threads :
        pc[t] \in {"idle", "armFor", "armed", "expired", "completed", "add", "update", "root",
                   "addNOC"}
            => job[t].idx = 0

Rollback == OneBusy /\ Clean /\ Accounted /\ Spared /\ OwnUpdate /\ Kept
IInv == Types /\ Fresh /\ (NoneLost => Rollback)

-----------------------------------------------------------------------------
(* The helpers *)

\* A set of naturals with a member has a least one.
LEMMA Least ==
    ASSUME NEW S \in SUBSET Nat, S # {}
    PROVE  \E x \in S : \A y \in S : x <= y
<1>1. \E x \in S : \A y \in S : ~(<<y, x>> \in OpToRel(<, Nat))
    BY WFMin, NatLessThanWellFounded, Zenon
<1>2. \A x, y \in Nat : y < x => <<y, x>> \in OpToRel(<, Nat)
    BY DEF OpToRel
<1>3. \A x, y \in Nat : ~(y < x) => x <= y
    OBVIOUS
<1> QED BY <1>1, <1>2, <1>3

\* nextFabricIndexFromCounter finds a free index whenever there is one.
LEMMA FirstFreeFound ==
    ASSUME NEW from \in Int, NEW taken, Indexes \ taken # {}
    PROVE  FirstFree(from, taken) \in Indexes \ taken
<1> DEFINE Free == Indexes \ taken
           Far == {(i - from) % MaxIndex : i \in Free}
<1>1. MaxIndex \in Nat /\ MaxIndex > 0
    BY ConstantsAssumption
<1>2. \A i \in Free : i \in Int /\ (i - from) % MaxIndex \in Nat
    BY <1>1 DEF Indexes
<1>3. Far \in SUBSET Nat
    BY <1>2
<1>4. Far # {}
    OBVIOUS
<1>5. PICK d \in Far : \A e \in Far : d <= e
    BY <1>3, <1>4, Least
<1>6. PICK i \in Free : d = (i - from) % MaxIndex
    OBVIOUS
<1>7. \A j \in Free : (i - from) % MaxIndex <= (j - from) % MaxIndex
    BY <1>5, <1>6
<1> QED BY <1>6, <1>7 DEF FirstFree

\* The index a thread carries; each field of a job is set on its own.
LEMMA JobIdx ==
    ASSUME NEW j \in [Threads -> Jobs], NEW t \in Threads, NEW i \in 0..MaxIndex
    PROVE  /\ [j EXCEPT ![t].idx = i] \in [Threads -> Jobs]
           /\ [j EXCEPT ![t].idx = i][t].idx = i
           /\ [j EXCEPT ![t].idx = i][t].id = j[t].id
           /\ \A u \in Threads : u # t => [j EXCEPT ![t].idx = i][u] = j[u]
BY DEF Jobs

\* The identity a thread carries.
LEMMA JobId ==
    ASSUME NEW j \in [Threads -> Jobs], NEW t \in Threads, NEW id \in FabricIds \cup {NoRoot}
    PROVE  /\ [j EXCEPT ![t].id = id] \in [Threads -> Jobs]
           /\ [j EXCEPT ![t].id = id][t].id = id
           /\ [j EXCEPT ![t].id = id][t].idx = j[t].idx
           /\ \A u \in Threads : u # t => [j EXCEPT ![t].id = id][u] = j[u]
BY DEF Jobs

\* What a thread does after its hooks (RevokeWindow).
LEMMA JobThen ==
    ASSUME NEW j \in [Threads -> Jobs], NEW t \in Threads
    PROVE  /\ [j EXCEPT ![t].then = "close"] \in [Threads -> Jobs]
           /\ \A u \in Threads : u # t => [j EXCEPT ![t].then = "close"][u] = j[u]
BY DEF Jobs

\* What OnFailSafeExpiry takes along.
LEMMA JobUndo ==
    ASSUME NEW j \in [Threads -> Jobs], NEW t \in Threads, NEW i \in 0..MaxIndex,
           NEW u \in Update
    PROVE  /\ [j EXCEPT ![t].idx = i, ![t].undo = u] \in [Threads -> Jobs]
           /\ [j EXCEPT ![t].idx = i, ![t].undo = u][t].idx = i
           /\ [j EXCEPT ![t].idx = i, ![t].undo = u][t].undo = u
           /\ \A v \in Threads : v # t => [j EXCEPT ![t].idx = i, ![t].undo = u][v] = j[v]
BY DEF Jobs

\* No job is a job.
LEMMA NoJobType == NoJob \in Jobs /\ NoUpdate \in Update /\ NoCSR \in CSR
BY ConstantsAssumption DEF NoJob, NoUpdate, NoCSR, Jobs, Update, CSR

\* With on a table of fabrics.
LEMMA WithTable ==
    ASSUME NEW f, f \in [DOMAIN f -> Fabric], NEW i, NEW v \in Fabric
    PROVE  /\ DOMAIN With(f, i, v) = DOMAIN f \cup {i}
           /\ With(f, i, v) \in [DOMAIN With(f, i, v) -> Fabric]
           /\ \A j \in DOMAIN f \ {i} : With(f, i, v)[j] = f[j]
           /\ With(f, i, v)[i] = v
BY DEF With

\* One identity of the table is replaced.
LEMMA Renoc ==
    ASSUME NEW f, f \in [DOMAIN f -> Fabric], NEW i \in DOMAIN f, NEW n \in Nat
    PROVE  /\ DOMAIN [f EXCEPT ![i].noc = n] = DOMAIN f
           /\ [f EXCEPT ![i].noc = n] \in [DOMAIN f -> Fabric]
           /\ \A j \in DOMAIN f : [f EXCEPT ![i].noc = n][j].id = f[j].id
           /\ \A j \in DOMAIN f \ {i} : [f EXCEPT ![i].noc = n][j] = f[j]
           /\ [f EXCEPT ![i].noc = n][i].noc = n
BY DEF Fabric

\* revertUpdateNOC and revertAddNOC: the noted index goes, the noted identity is back.
RevertedFrom(g, f, undo, i) ==
    /\ DOMAIN g = DOMAIN f \ {i}
    /\ \A j \in DOMAIN f \ {i} :
           /\ g[j].id = f[j].id
           /\ j = undo.idx => g[j].noc = undo.noc
           /\ j # undo.idx => g[j].noc = f[j].noc

\* The table after revertUpdateNOC and revertAddNOC.
LEMMA RevertedTable ==
    ASSUME NEW f, f \in [DOMAIN f -> Fabric], NEW undo \in Update, NEW i
    PROVE  RevertedFrom(Reverted(f, undo, i), f, undo, i)
<1> DEFINE g == IF undo.idx \in DOMAIN f THEN [f EXCEPT ![undo.idx].noc = undo.noc] ELSE f
<1>1. undo.noc \in Nat
    BY DEF Update
<1>2. /\ DOMAIN g = DOMAIN f /\ g \in [DOMAIN f -> Fabric]
      /\ \A j \in DOMAIN f : /\ g[j].id = f[j].id
                             /\ g[j].noc = IF j = undo.idx THEN undo.noc ELSE f[j].noc
    BY <1>1, Renoc
<1>3. Reverted(f, undo, i) = Without(g, i)
    BY DEF Reverted
<1> HIDE DEF g
<1> QED BY <1>2, <1>3 DEF Without, RevertedFrom

\* The rolled-back table is a table.
LEMMA RevertedType ==
    ASSUME NEW f, f \in [DOMAIN f -> Fabric], NEW undo \in Update, NEW i
    PROVE  /\ DOMAIN Reverted(f, undo, i) = DOMAIN f \ {i}
           /\ Reverted(f, undo, i) \in [DOMAIN Reverted(f, undo, i) -> Fabric]
<1> DEFINE g == IF undo.idx \in DOMAIN f THEN [f EXCEPT ![undo.idx].noc = undo.noc] ELSE f
<1>1. undo.noc \in Nat
    BY DEF Update
<1>2. DOMAIN g = DOMAIN f /\ g \in [DOMAIN f -> Fabric]
    BY <1>1, Renoc
<1>3. Reverted(f, undo, i) = Without(g, i)
    BY DEF Reverted
<1> HIDE DEF g
<1> QED BY <1>2, <1>3 DEF Without

-----------------------------------------------------------------------------
(* Types *)

\* The windows and the sessions the commands are made for.
LEMMA AccessingType ==
    ASSUME Types, NEW s \in Sessions
    PROVE  Accessing(s) \in 0..MaxIndex /\ s \in Threads
BY ConstantsAssumption DEF Types, TypeOK, Accessing, Sessions, Threads, Indexes

\* The first state.
LEMMA TypesInit == Init => Types
<1> SUFFICES ASSUME Init PROVE Types
    OBVIOUS
<1>1. PICK id \in FabricIds : fabrics = [i \in Initial |-> [id |-> id, noc |-> 1]]
    BY DEF Init
<1>2. DOMAIN fabrics \subseteq Indexes /\ fabrics \in [DOMAIN fabrics -> Fabric]
    BY <1>1, ConstantsAssumption DEF Indexes, Fabric
<1>3. nextIndex \in Indexes
  <2>1. CASE Initial \in {{}, Indexes}
    BY <2>1, ConstantsAssumption DEF Init, Indexes
  <2>2. CASE Initial \notin {{}, Indexes}
    <3>1. Initial = {1}
        BY <2>2, ConstantsAssumption
    <3>2. MaxIndex # 1
        BY <3>1, <2>2 DEF Indexes
    <3> QED BY <3>2, <2>2, ConstantsAssumption DEF Init, Indexes
  <2> QED BY <2>1, <2>2
<1>4. job \in [Threads -> Jobs] /\ update \in Update /\ csr \in CSR
    BY NoJobType DEF Init
<1>5. pc \in [Threads -> Labels]
    BY DEF Init, Labels
<1>6. \A p \in PaseSessions : p \in Threads
    BY DEF Threads, Sessions
<1>7. TypeOK
    BY <1>2, <1>3, <1>4, <1>5, ConstantsAssumption DEF Init, TypeOK, CumOff, Jobs
<1> QED BY <1>2, <1>6, <1>7 DEF Init, Types

\* GeneralCommissioning's commands and the watcher.
LEMMA TypesGeneral ==
    ASSUME Types,
           \/ Tick
           \/ \E w \in Watchers : WatchExpiry(w)
           \/ \E s \in Sessions : \/ \E n \in Lengths : ArmFailSafe(s, n)
                                  \/ DisarmFailSafe(s) \/ CommissioningComplete(s)
           \/ \E t \in Threads, n \in Lengths : ArmFailSafeFor(t, n)
    PROVE  Types'
<1> USE DEF TypeOK, Types, Goto, Labels, failSafe, pending, stored, pase, bounds
<1>1. CASE Tick
    BY <1>1, ConstantsAssumption DEF Tick, CumOff
<1>2. ASSUME NEW w \in Watchers, WatchExpiry(w)
      PROVE  Types'
    BY <1>2, ConstantsAssumption DEF WatchExpiry, CumOff, Threads
<1>3. ASSUME NEW s \in Sessions, NEW n \in Lengths, ArmFailSafe(s, n)
      PROVE  Types'
  <2>1. Accessing(s) \in 0..MaxIndex /\ s \in Threads
    BY AccessingType
  <2>2. cum' \in 0..CumOff /\ left' \in Nat
    BY <1>3, ConstantsAssumption DEF ArmFailSafe, CumOff, MinOf
  <2>3. s \in PaseSessions => paseState[s] # "new"
    BY <1>3 DEF ArmFailSafe, Live
  <2>4. pc' \in [Threads -> Labels] /\ \A t \in Threads : t # s => pc'[t] = pc[t]
    BY <2>1, <1>3 DEF ArmFailSafe
  <2>5. \A t \in Threads : pc'[t] \in {"root", "addNOC"} => pc[t] = pc'[t]
    BY <2>1, <1>3 DEF ArmFailSafe
  <2>6. armed' = "armed" /\ owner' = Accessing(s)
        /\ UNCHANGED <<pending, current, stored, window, pase, job, committed>>
    BY <1>3 DEF ArmFailSafe
  <2> QED BY <2>1, <2>2, <2>3, <2>4, <2>5, <2>6 DEF Threads, Sessions
<1>4. ASSUME NEW s \in Sessions, DisarmFailSafe(s)
      PROVE  Types'
  <2>1. s \in Threads
    BY AccessingType
  <2>2. s \in PaseSessions => paseState[s] # "new"
    BY <1>4 DEF DisarmFailSafe, Live
  <2> QED BY <2>1, <2>2, <1>4, ConstantsAssumption DEF DisarmFailSafe, CumOff
<1>5. ASSUME NEW s \in Sessions, CommissioningComplete(s)
      PROVE  Types'
  <2>1. s \in Threads /\ s \in Indexes
    BY <1>5, AccessingType DEF CommissioningComplete, Sessions
  <2>2. fabrics[s] \in Fabric
    BY <1>5 DEF CommissioningComplete, Live, Installed
  <2>3. committed' \in [DOMAIN committed' -> Fabric] /\ DOMAIN committed' \subseteq Indexes
    <3>1. committed' = With(committed, s, fabrics[s])
        BY <1>5 DEF CommissioningComplete
    <3>2. committed \in [DOMAIN committed -> Fabric] /\ DOMAIN committed \subseteq Indexes
        OBVIOUS
    <3> HIDE DEF TypeOK, Types
    <3>3. /\ DOMAIN With(committed, s, fabrics[s]) = DOMAIN committed \cup {s}
          /\ With(committed, s, fabrics[s]) \in [DOMAIN With(committed, s, fabrics[s]) -> Fabric]
        BY <3>2, <2>2, WithTable
    <3> QED BY <3>1, <3>2, <3>3, <2>1
  <2> QED BY <2>1, <2>3, <1>5, ConstantsAssumption DEF CommissioningComplete, CumOff
<1>6. ASSUME NEW t \in Threads, NEW n \in Lengths, ArmFailSafeFor(t, n)
      PROVE  Types'
  <2>1. pc' \in [Threads -> Labels] /\ pc'[t] \in {"idle", "armed"}
        /\ \A u \in Threads : u # t => pc'[u] = pc[u]
    BY <1>6 DEF ArmFailSafeFor
  <2>2. pc[t] = "armFor" /\ armed' = "armed" /\ left' = n /\ owner' = 0
        /\ UNCHANGED <<cum, pending, current, stored, window, pase, job, committed>>
    BY <1>6 DEF ArmFailSafeFor
  <2>3. \A p \in PaseSessions : paseState'[p] = "new" => pc'[p] = "idle"
    BY <2>1, <2>2 DEF Threads, Sessions
  <2> QED BY <2>1, <2>2, <2>3, ConstantsAssumption
<1> QED BY <1>1, <1>2, <1>3, <1>4, <1>5, <1>6

\* The hooks.
LEMMA TypesHooks ==
    ASSUME Types, NEW t \in Threads,
           \/ ArmedHook(t) \/ CompleteHook(t) \/ CloseStep(t)
           \/ ExpiredHook(t) \/ RevertStore(t) \/ FabricRemoved(t)
    PROVE  Types'
<1> USE DEF TypeOK, Types, Goto, Labels, failSafe, pending, stored, pase, bounds
<1>0. job \in [Threads -> Jobs]
    BY DEF Jobs
<1>1. CASE ArmedHook(t)
    BY <1>1, NoJobType, ConstantsAssumption DEF ArmedHook, ClearPending, Threads, Sessions
<1>2. CASE CompleteHook(t)
    BY <1>2, NoJobType, ConstantsAssumption DEF CompleteHook, ClearPending, Threads, Sessions
<1>3. CASE CloseStep(t)
  <2>1. job' \in [Threads -> Jobs]
    BY <1>0, <1>3, NoJobType DEF CloseStep
  <2> QED BY <2>1, <1>3, NoJobType DEF CloseStep, Jobs
<1>4. CASE ExpiredHook(t)
  <2>1. job' \in [Threads -> Jobs]
    <3>1. job' = [job EXCEPT ![t].idx = install, ![t].undo = update]
      BY <1>4 DEF ExpiredHook
    <3>2. install \in 0..MaxIndex /\ update \in Update
      OBVIOUS
    <3>3. [job EXCEPT ![t].idx = install, ![t].undo = update] \in [Threads -> Jobs]
      BY ONLY <1>0, <3>2, t \in Threads, JobUndo
    <3> QED BY ONLY <3>1, <3>3
  <2>2. pc[t] = "expired" /\ pc' = [pc EXCEPT ![t] = "revert"] /\ ClearPending
        /\ UNCHANGED <<failSafe, current, stored, window, pase, committed>>
    BY <1>4 DEF ExpiredHook
  <2>3. \A u \in Threads : u # t => job'[u] = job[u] /\ pc'[u] = pc[u]
    BY <1>0, <1>4, <2>2 DEF ExpiredHook
  <2> QED BY <2>1, <2>2, <2>3, NoJobType, ConstantsAssumption DEF ClearPending, Jobs, Threads, Sessions
<1>5. CASE RevertStore(t)
  <2>0. PICK undo \in Update : \E i : fabrics' = Reverted(fabrics, undo, i)
    <3>1. job[t].undo \in Update
        BY <1>0 DEF Jobs
    <3> HIDE DEF TypeOK, Types
    <3> QED BY <1>5, <3>1, NoJobType DEF RevertStore
  <2>1. PICK i : fabrics' = Reverted(fabrics, undo, i)
    BY <2>0
  <2>2. fabrics' \in [DOMAIN fabrics' -> Fabric] /\ DOMAIN fabrics' \subseteq Indexes
    <3>1. fabrics' = Reverted(fabrics, undo, i)
        BY <2>1
    <3>2. fabrics \in [DOMAIN fabrics -> Fabric] /\ DOMAIN fabrics \subseteq Indexes
        OBVIOUS
    <3> HIDE DEF TypeOK, Types
    <3> DEFINE g == Reverted(fabrics, undo, i)
    <3>3. DOMAIN g = DOMAIN fabrics \ {i} /\ g \in [DOMAIN g -> Fabric]
        BY <3>2, RevertedType
    <3> HIDE DEF g
    <3>4. fabrics' = g
        BY <3>1 DEF g
    <3> QED BY <3>2, <3>3, <3>4
  <2> QED BY <2>2, <1>5 DEF RevertStore
<1>6. CASE FabricRemoved(t)
  <2>1. job' \in [Threads -> Jobs]
    BY <1>0, <1>6, NoJobType DEF FabricRemoved
  <2>2. current' \in 0..MaxIndex /\ csr' \in CSR /\ root' \in FabricIds \cup {NoRoot}
        /\ nocInvoked' \in {"no", "yes"} /\ install' \in 0..MaxIndex /\ update' \in Update
    BY <1>6, NoJobType, ConstantsAssumption DEF FabricRemoved, ClearPending
  <2>3. paseState' \in [PaseSessions -> {"new", "open", "closed"}]
        /\ \A p \in PaseSessions : paseState'[p] = "new" => paseState[p] = "new"
    BY <1>6 DEF FabricRemoved
  <2>4. pc' \in [Threads -> Labels]
        /\ \A u \in Threads : (pc'[u] = pc[u] /\ job'[u] = job[u]) \/ pc'[u] \in {"idle", "close"}
    BY <1>6 DEF FabricRemoved
  <2>5. \A p \in PaseSessions : paseState[p] = "new" => p # t
    BY <1>6 DEF FabricRemoved
  <2>6. \A p \in PaseSessions : paseState'[p] = "new" => pc'[p] = "idle"
    BY <1>6, <2>3, <2>5 DEF FabricRemoved, Threads, Sessions
  <2>7. UNCHANGED <<armed, left, owner, cum, fabrics, nextIndex, window, paseFabric, committed>>
    BY <1>6 DEF FabricRemoved
  <2> QED BY <2>1, <2>2, <2>3, <2>4, <2>6, <2>7 DEF Jobs
<1> QED BY <1>1, <1>2, <1>3, <1>4, <1>5, <1>6

\* A command of a session that is live is not of a PASE session before its handshake.
LEMMA LiveSession ==
    ASSUME Types, NEW s \in Sessions, Live(s)
    PROVE  s \in PaseSessions => paseState[s] # "new"
BY DEF Live

\* OperationalCredentials' commands and what follows their checks.
LEMMA TypesCommands ==
    ASSUME Types, NEW s \in Sessions,
           \/ \E for \in {"add", "update"} : CSRRequest(s, for)
           \/ \E id \in FabricIds : AddTrustedRootCertificate(s, id)
           \/ AddNOC(s) \/ UpdateNOC(s)
    PROVE  Types'
<1> USE DEF TypeOK, Types, Goto, Labels, failSafe, pending, stored, pase, bounds
<1>0. job \in [Threads -> Jobs] /\ s \in Threads /\ Accessing(s) \in 0..MaxIndex
    BY AccessingType DEF Jobs
<1>1. ASSUME NEW for \in {"add", "update"}, CSRRequest(s, for)
      PROVE  Types'
    BY <1>0, <1>1, LiveSession DEF CSRRequest, Threads, Sessions
<1>2. ASSUME NEW id \in FabricIds, AddTrustedRootCertificate(s, id)
      PROVE  Types'
  <2>1. job' \in [Threads -> Jobs] /\ job'[s].id = id
    <3> HIDE DEF TypeOK, Types
    <3> QED BY <1>0, <1>2, JobId DEF AddTrustedRootCertificate
  <2>2. \A t \in Threads : t # s => job'[t] = job[t]
    BY <1>0, <1>2 DEF AddTrustedRootCertificate
  <2> QED BY <1>0, <1>2, <2>1, <2>2, LiveSession DEF AddTrustedRootCertificate, Jobs, Threads, Sessions
<1>3. CASE AddNOC(s)
  <2>1. job' \in [Threads -> Jobs] /\ job'[s].id = root
    <3>1. root \in FabricIds \cup {NoRoot}
        OBVIOUS
    <3> HIDE DEF TypeOK, Types
    <3> QED BY <1>0, <1>3, <3>1, JobId DEF AddNOC
  <2>2. \A t \in Threads : t # s => job'[t] = job[t]
    BY <1>0, <1>3 DEF AddNOC
  <2>3. root \in FabricIds
    BY <1>3 DEF AddNOC
  <2> QED BY <1>0, <1>3, <2>1, <2>2, <2>3, LiveSession DEF AddNOC, Jobs, Threads, Sessions
<1>4. CASE UpdateNOC(s)
  <2>1. PICK i \in 0..MaxIndex : job' = [job EXCEPT ![s].idx = i]
    BY <1>0, <1>4 DEF UpdateNOC
  <2>2. job' \in [Threads -> Jobs] /\ \A t \in Threads : t # s => job'[t] = job[t]
    <3> HIDE DEF TypeOK, Types
    <3> QED BY <1>0, <2>1, JobIdx
  <2> QED BY <1>0, <1>4, <2>2, LiveSession DEF UpdateNOC, Jobs, Threads, Sessions
<1> QED BY <1>1, <1>2, <1>3, <1>4

\* The halves of the commands that write.
LEMMA TypesWrites ==
    ASSUME Types, NEW s \in Sessions, ContinueNOC(s)
    PROVE  Types'
<1> USE DEF TypeOK, Types, Goto, Labels, failSafe, pending, stored, pase, bounds
<1>0. job \in [Threads -> Jobs] /\ s \in Threads
    BY AccessingType DEF Jobs
<1>a. fabrics \in [DOMAIN fabrics -> Fabric] /\ DOMAIN fabrics \subseteq Indexes
    OBVIOUS
<1>b. job[s] \in Jobs /\ job[s].idx \in 0..MaxIndex
    BY <1>0 DEF Jobs
<1>c. [job EXCEPT ![s] = NoJob] \in [Threads -> Jobs]
      /\ \A t \in Threads : t # s => [job EXCEPT ![s] = NoJob][t] = job[t]
    BY <1>0, NoJobType
<1>1. CASE CSRStore(s)
    BY <1>0, <1>1 DEF CSRStore, CSR, Threads, Sessions
<1>2. CASE RootStore(s)
    BY <1>0, <1>c, <1>2 DEF RootStore, Jobs, Threads, Sessions
<1>3. CASE AddNOCInstall(s)
  <2> DEFINE idx == FirstFree(nextIndex, Installed)
             taken == Installed \cup {idx}
  <2>1. Indexes \ Installed # {} /\ nextIndex \in Int
    <3>1. nextIndex \in Int
        BY DEF Indexes
    <3>2. Installed # Indexes /\ Installed \subseteq Indexes
        BY <1>a, <1>3 DEF AddNOCInstall, Installed
    <3> HIDE DEF TypeOK, Types
    <3> QED BY <3>1, <3>2
  <2>2. idx \in Indexes
    BY <2>1, FirstFreeFound
  <2>3. taken # Indexes => FirstFree(nextIndex + 1, taken) \in Indexes
    <3>1. taken \subseteq Indexes
        BY <2>2, <1>a DEF Installed
    <3>2. nextIndex + 1 \in Int
        BY <2>1
    <3> HIDE DEF TypeOK, Types, taken
    <3> QED BY <2>1, <3>1, <3>2, FirstFreeFound
  <2>4. nextIndex' \in Indexes
    BY <1>3, <2>3 DEF AddNOCInstall
  <2>5. [id |-> job[s].id, noc |-> 0] \in Fabric
    BY <1>0, <1>3 DEF AddNOCInstall, Fabric
  <2>6. fabrics' = With(fabrics, idx, [id |-> job[s].id, noc |-> 0])
    BY <1>3 DEF AddNOCInstall
  <2>7. job' = [job EXCEPT ![s].idx = idx] /\ install' = idx
    BY <1>3 DEF AddNOCInstall
  <2> HIDE DEF idx
  <2>8. fabrics' \in [DOMAIN fabrics' -> Fabric] /\ DOMAIN fabrics' \subseteq Indexes
    <3> DEFINE row == [id |-> job[s].id, noc |-> 0]
               g == With(fabrics, idx, row)
    <3>1. row \in Fabric /\ fabrics' = g
        BY <2>5, <2>6
    <3> HIDE DEF TypeOK, Types, row
    <3>2. DOMAIN g = DOMAIN fabrics \cup {idx} /\ g \in [DOMAIN g -> Fabric]
        BY <1>a, <3>1, WithTable
    <3> HIDE DEF g
    <3> QED BY <1>a, <2>2, <3>1, <3>2
  <2>9. idx \in 0..MaxIndex
    BY <2>2, ConstantsAssumption DEF Indexes
  <2>10. job' \in [Threads -> Jobs] /\ \A t \in Threads : t # s => job'[t] = job[t]
    <3> HIDE DEF TypeOK, Types
    <3> QED BY <1>0, <2>7, <2>9, JobIdx
  <2> QED BY <1>0, <1>3, <2>4, <2>7, <2>8, <2>9, <2>10 DEF AddNOCInstall, Jobs, Threads, Sessions
<1>4. CASE AddNOCFail(s)
  <2> DEFINE Table == fabrics' \in [DOMAIN fabrics' -> Fabric] /\ DOMAIN fabrics' \subseteq Indexes
  <2>1. ASSUME fabrics' = Without(fabrics, job[s].idx) PROVE Table
    BY <1>a, <2>1 DEF Without
  <2>2. ASSUME job[s].idx \in Installed,
               \E noc \in {0, 1} : fabrics' = [fabrics EXCEPT ![job[s].idx].noc = noc]
        PROVE  Table
    <3>1. PICK noc \in Nat : fabrics' = [fabrics EXCEPT ![job[s].idx].noc = noc]
        BY <2>2
    <3> HIDE DEF TypeOK, Types
    <3> QED BY <1>a, <2>2, <3>1, Renoc DEF Installed
  <2>3. Table
    <3> HIDE DEF TypeOK, Types
    <3> QED BY <1>4, <2>1, <2>2 DEF AddNOCFail
  <2> QED BY <1>0, <1>c, <1>4, <2>3 DEF AddNOCFail, Jobs, Threads, Sessions
<1>5. CASE AddNOCFinish(s)
  <2>1. fabrics' = [fabrics EXCEPT ![job[s].idx].noc = 1] /\ job[s].idx \in DOMAIN fabrics
    BY <1>5 DEF AddNOCFinish, Installed
  <2>2. fabrics' \in [DOMAIN fabrics' -> Fabric] /\ DOMAIN fabrics' \subseteq Indexes
    <3> HIDE DEF TypeOK, Types
    <3> QED BY <1>a, <2>1, Renoc
  <2> QED BY <1>0, <1>b, <1>5, <2>2, NoJobType DEF AddNOCFinish, Jobs, Threads, Sessions
<1>6. CASE AddNOCRearm(s)
    BY <1>0, <1>b, <1>c, <1>6 DEF AddNOCRearm, Jobs, Threads, Sessions
<1>7. CASE UpdateNOCStore(s) \/ UpdateNOCFail(s)
  <2> DEFINE idx == job[s].idx
  <2>1. ASSUME idx \in Installed, NoteUpdate(idx)
        PROVE  /\ update' \in Update
               /\ Renewed(idx) \in [DOMAIN fabrics -> Fabric]
    <3>1. fabrics[idx].noc \in Nat /\ idx \in DOMAIN fabrics
        BY <2>1, <1>a DEF Fabric, Installed
    <3>2. update' \in Update
        BY <1>b, <2>1, <3>1 DEF NoteUpdate, Update
    <3>3. Renewed(idx) = [fabrics EXCEPT ![idx].noc = fabrics[idx].noc + 1]
        BY DEF Renewed
    <3>4. fabrics[idx].noc + 1 \in Nat
        BY <3>1
    <3>5. Renewed(idx) \in [DOMAIN fabrics -> Fabric]
        <4> HIDE DEF TypeOK, Types
        <4> QED BY <1>a, <3>1, <3>3, <3>4, Renoc
    <3> QED BY <3>2, <3>5
  <2>2. update' \in Update /\ fabrics' \in [DOMAIN fabrics -> Fabric]
    <3>1. update \in Update
        OBVIOUS
    <3> HIDE DEF TypeOK, Types
    <3> QED BY <1>7, <1>a, <2>1, <3>1 DEF UpdateNOCStore, UpdateNOCFail
  <2>3. DOMAIN fabrics' = DOMAIN fabrics
    BY <2>2
  <2>4. pc' \in [Threads -> Labels] /\ pc'[s] \in {"idle", "updated"} /\ pc[s] = "updateNOC"
        /\ \A t \in Threads : t # s => pc'[t] = pc[t]
    BY <1>0, <1>7 DEF UpdateNOCStore, UpdateNOCFail
  <2>5. job' \in [Threads -> Jobs] /\ \A t \in Threads : t # s => job'[t] = job[t]
    BY <1>0, <1>c, <1>7 DEF UpdateNOCStore, UpdateNOCFail
  <2>6. UNCHANGED <<failSafe, csr, root, nocInvoked, install, current, nextIndex, window,
                    pase, committed>>
    BY <1>7 DEF UpdateNOCStore, UpdateNOCFail
  <2> QED BY <1>0, <1>a, <2>2, <2>3, <2>4, <2>5, <2>6 DEF Jobs, Threads, Sessions
<1>8. CASE UpdateNOCFinish(s)
    BY <1>0, <1>c, <1>8, NoJobType DEF UpdateNOCFinish, Jobs, Threads, Sessions
<1> QED BY <1>1, <1>2, <1>3, <1>4, <1>5, <1>6, <1>7, <1>8 DEF ContinueNOC

\* The window, the host, the PASE sessions and the restart.
LEMMA TypesWindow ==
    ASSUME Types,
           \/ OpenOwnWindow \/ CloseWindow \/ Restart \/ OpenWindow \/ RevokeWindow
           \/ \E idx \in Indexes : RemoveFabric(idx)
           \/ \E p \in PaseSessions : PaseEstablished(p) \/ PaseGone(p)
    PROVE  Types'
<1> USE DEF TypeOK, Types, Goto, Labels, failSafe, pending, stored, pase, bounds
<1>0. job \in [Threads -> Jobs] /\ Host \in Threads /\ Host \notin PaseSessions
    BY ConstantsAssumption DEF Jobs, Threads
<1>1. CASE OpenOwnWindow
    BY <1>1 DEF OpenOwnWindow
<1>2. CASE CloseWindow
    BY <1>2 DEF CloseWindow
<1>3. CASE Restart
  <2>1. job' \in [Threads -> Jobs]
    BY <1>3, NoJobType DEF Restart
  <2> QED BY <2>1, <1>3, NoJobType, ConstantsAssumption DEF Restart, ClearPending, Jobs, CumOff, Threads, Sessions
<1>4. CASE OpenWindow
    BY <1>0, <1>4 DEF OpenWindow
<1>5. CASE RevokeWindow
  <2>1. job' \in [Threads -> Jobs] /\ \A t \in Threads : t # Host => job'[t] = job[t]
    <3> HIDE DEF TypeOK, Types
    <3> QED BY <1>0, <1>5, JobThen DEF RevokeWindow
  <2>2. \A p \in PaseSessions : paseState'[p] = "new" => paseState[p] = "new"
    BY <1>5 DEF RevokeWindow
  <2>3. armed' \in {"armed", "disarmed"} /\ left' \in Nat /\ owner' \in 0..MaxIndex
        /\ cum' \in 0..CumOff
    BY <1>5, ConstantsAssumption DEF RevokeWindow, CumOff
  <2>4. pc' \in [Threads -> Labels] /\ pc'[Host] \in {"expired", "close"}
        /\ \A t \in Threads : t # Host => pc'[t] = pc[t]
    BY <1>0, <1>5 DEF RevokeWindow
  <2>5. paseState' \in [PaseSessions -> {"new", "open", "closed"}]
        /\ UNCHANGED <<pending, current, stored, window, paseFabric, committed>>
    BY <1>5 DEF RevokeWindow
  <2> QED BY <1>0, <2>1, <2>2, <2>3, <2>4, <2>5 DEF Jobs, Threads, Sessions
<1>6. ASSUME NEW idx \in Indexes, RemoveFabric(idx)
      PROVE  Types'
  <2>1. idx \in 0..MaxIndex
    BY ConstantsAssumption DEF Indexes
  <2>2. job' \in [Threads -> Jobs] /\ \A t \in Threads : t # Host => job'[t] = job[t]
    <3> HIDE DEF TypeOK, Types
    <3> QED BY <1>0, <1>6, <2>1, JobIdx DEF RemoveFabric
  <2>3. /\ fabrics' \in [DOMAIN fabrics' -> Fabric] /\ DOMAIN fabrics' \subseteq Indexes
        /\ committed' \in [DOMAIN committed' -> Fabric] /\ DOMAIN committed' \subseteq Indexes
    BY <1>6 DEF RemoveFabric, Without
  <2> QED BY <1>0, <2>2, <2>3, <1>6 DEF RemoveFabric, Jobs
<1>7. ASSUME NEW p \in PaseSessions, PaseEstablished(p)
      PROVE  Types'
    BY <1>7 DEF PaseEstablished, Threads, Sessions
<1>8. ASSUME NEW p \in PaseSessions, PaseGone(p)
      PROVE  Types'
    BY <1>8 DEF PaseGone
<1> QED BY <1>1, <1>2, <1>3, <1>4, <1>5, <1>6, <1>7, <1>8

\* Every step keeps the types.
LEMMA TypesStep == Types /\ [Next]_vars => Types'
<1> SUFFICES ASSUME Types, [Next]_vars PROVE Types'
    OBVIOUS
<1>1. CASE UNCHANGED vars
    BY <1>1 DEF vars, Types, TypeOK
<1>2. CASE Next
    BY <1>2, TypesGeneral, TypesHooks, TypesCommands, TypesWrites, TypesWindow
       DEF Next, Command, Continue
<1> QED BY <1>1, <1>2

\* Every variable keeps its type in every behaviour: nextFabricIndexFromCounter's
\* index stays in 1..MaxIndex wherever AddNOC carries it, and no table row is left
\* half written, however the commands, the hooks and the watchers interleave.
THEOREM TypeOKHolds == Spec => []TypeOK
<1>1. Types => TypeOK
    BY DEF Types
<1> QED BY <1>1, TypesInit, TypesStep, PTL DEF Spec

-----------------------------------------------------------------------------
(* The rollback *)

\* Only thread t moves; the others are idle.
Still(t) == \A u \in Threads \ {t} : pc'[u] = pc[u] /\ job'[u] = job[u]
Alone(t) == \A u \in Threads \ {t} : pc[u] = "idle"

\* Every part of Rollback is a fact.
LEMMA Parts ==
    /\ Rollback => OneBusy /\ Clean /\ Accounted /\ Spared /\ OwnUpdate /\ Kept
    /\ OneBusy' /\ Clean' /\ Accounted' /\ Spared' /\ OwnUpdate' /\ Kept' => Rollback'
BY DEF Rollback

\* No fabric has the index 0.
LEMMA FabricsNot0 ==
    ASSUME Types
    PROVE  /\ \A i \in Installed : i # 0
           /\ \A i \in DOMAIN committed : i # 0
BY DEF Types, TypeOK, Installed, Indexes

\* A step outside the window's begin and end and the NOC commands: timers, the
\* commissioning window, sessions, CSRRequest and AddTrustedRootCertificate.
LEMMA QuietStep ==
    ASSUME Rollback,
           UNCHANGED <<armed, owner, nocInvoked, install, update, fabrics, committed, lost>>,
           csr' = csr \/ (armed = "armed" /\ (csr'.for = "update" => owner # 0)),
           \A t \in Threads :
               \/ pc'[t] = pc[t] /\ job'[t].idx = job[t].idx /\ job'[t].undo = job[t].undo
               \/ /\ pc[t] \notin Busy /\ pc'[t] \notin Busy
                  /\ pc'[t] \in {"add", "update", "root"} => armed = "armed"
                  /\ pc'[t] = "update" => owner # 0
    PROVE  Rollback'
<1> USE Parts DEF Unclean, Busy, Ending, Adding, Updating
<1>1. OneBusy'
    BY DEF OneBusy
<1>2. \A l \in Busy : At(l)' <=> At(l)
    BY DEF At
<1>3. Clean'
    BY <1>2 DEF Clean
<1>4. Accounted'
    BY <1>2 DEF Accounted, Uncommitted, Installed
<1>5. Spared'
    BY <1>2 DEF Spared, Installed
<1>6. OwnUpdate'
    BY <1>2 DEF OwnUpdate
<1>7. Kept'
    BY <1>2 DEF Kept
<1> QED BY <1>1, <1>3, <1>4, <1>5, <1>6, <1>7

\* ArmFailSafe and ArmFailSafeFor from the disarmed state.
LEMMA WindowBegins ==
    ASSUME Types, Rollback, NEW t \in Threads, Alone(t), Still(t),
           pc[t] \in {"idle", "armFor"}, pc'[t] = "armed",
           armed = "disarmed", armed' = "armed",
           UNCHANGED <<csr, nocInvoked, install, update, fabrics, committed>>, lost \subseteq lost'
    PROVE  Rollback'
<1> USE Parts DEF Unclean, Busy, Ending, Adding, Updating, Still, Alone
<1>0. install = 0 /\ update.idx = 0 /\ nocInvoked = "no" /\ csr = NoCSR
    BY DEF Clean, At
<1>1. OneBusy'
    BY DEF OneBusy
<1>2. Clean'
    BY <1>0 DEF Clean
<1>3. Uncommitted = {}
    BY <1>0, FabricsNot0 DEF Accounted, Uncommitted
<1>4. Accounted'
    BY <1>3 DEF Accounted, Uncommitted, Installed
<1>5. Spared'
    BY DEF Spared, Installed, At
<1>6. OwnUpdate'
    BY <1>0 DEF OwnUpdate, NoCSR
<1>7. Kept'
    BY <1>0 DEF Kept, At
<1> QED BY <1>1, <1>2, <1>4, <1>5, <1>6, <1>7

\* The fail-safe ends without a CommissioningComplete: disarmed, revoked or expired.
LEMMA WindowExpires ==
    ASSUME Rollback, NEW t \in Threads, Alone(t), Still(t),
           pc[t] = "idle", pc'[t] = "expired",
           armed = "armed", armed' = "disarmed",
           UNCHANGED <<csr, nocInvoked, install, update, fabrics, committed>>, lost \subseteq lost'
    PROVE  Rollback'
<1> USE Parts DEF Unclean, Busy, Ending, Adding, Updating, Still, Alone
<1>1. OneBusy'
    BY DEF OneBusy
<1>2. Clean'
    BY DEF Clean, At
<1>4. Accounted'
    BY DEF Accounted, Uncommitted, Installed, At
<1>5. Spared'
    BY DEF Spared, Installed, At
<1>6. OwnUpdate'
    BY DEF OwnUpdate, At
<1>7. Kept'
    BY DEF Kept, At
<1> QED BY <1>1, <1>2, <1>4, <1>5, <1>6, <1>7

\* CommissioningComplete: what its fabric has is committed, and nothing else is pending.
LEMMA WindowCompletes ==
    ASSUME Types, Rollback, NEW t \in Threads, Alone(t), Still(t),
           pc[t] = "idle", pc'[t] = "completed",
           armed = "armed", armed' = "disarmed", owner \in Installed,
           committed' = With(committed, owner, fabrics[owner]),
           UNCHANGED <<csr, nocInvoked, install, update, fabrics>>, lost \subseteq lost',
           Unclean => {install, update.idx} \subseteq {0, owner}
    PROVE  Rollback'
<1> USE Parts DEF Unclean, Busy, Ending, Adding, Updating, Still, Alone
<1>a. DOMAIN committed' = DOMAIN committed \cup {owner}
      /\ committed'[owner] = fabrics[owner]
      /\ \A i \in DOMAIN committed \ {owner} : committed'[i] = committed[i]
    BY DEF With
<1>b. Uncommitted \subseteq {owner}
    BY FabricsNot0 DEF Accounted, Uncommitted
<1>c. Uncommitted' = {}
    BY <1>a, <1>b DEF Uncommitted, Installed
<1>1. OneBusy'
    BY DEF OneBusy
<1>2. Clean'
    BY DEF Clean, At
<1>4. Accounted'
    BY <1>c DEF Accounted
<1>5. Spared'
    BY <1>a DEF Spared, Installed, At
<1>6. OwnUpdate'
    BY DEF OwnUpdate, At
<1>7. Kept'
  <2>1. \A i \in DOMAIN committed : i # 0
    BY DEF Types, Indexes
  <2>2. \A i \in DOMAIN committed \ {owner} :
            fabrics[i].id = committed[i].id /\ fabrics[i].noc = committed[i].noc
    BY <2>1 DEF Kept, OwnUpdate
  <2> QED BY <1>a, <2>2 DEF Kept, At
<1> QED BY <1>1, <1>2, <1>4, <1>5, <1>6, <1>7

\* onFailSafeArmed.
LEMMA ArmedHookStep ==
    ASSUME Types, Rollback, NEW t \in Threads, ArmedHook(t)
    PROVE  Rollback'
<1> USE Parts DEF Unclean, Busy, Ending, Adding, Updating
<1>a. pc[t] = "armed" /\ pc' = [pc EXCEPT ![t] = "idle"] /\ job' = job
      /\ csr' = NoCSR /\ nocInvoked' = "no" /\ install' = 0 /\ update'.idx = 0
      /\ UNCHANGED <<armed, owner, fabrics, committed, lost>>
    BY DEF ArmedHook, ClearPending, Goto, failSafe, stored, NoUpdate
<1>b. pc \in [Threads -> Labels]
    BY DEF Types, TypeOK
<1>c. armed = "armed" /\ install = 0 /\ update.idx = 0 /\ nocInvoked = "no"
    BY <1>a DEF Clean, At, OneBusy
<1>d. \A u \in Threads \ {t} : pc[u] \notin Busy
    BY <1>a DEF OneBusy
<1>e. Uncommitted = {}
    BY <1>c, <1>d, <1>a, FabricsNot0 DEF Accounted, Uncommitted
<1>1. OneBusy'
    BY <1>a, <1>b DEF OneBusy
<1>2. Clean'
    BY <1>a, <1>c DEF Clean
<1>4. Accounted'
    BY <1>a, <1>e DEF Accounted, Uncommitted, Installed
<1>5. Spared'
  <2>1. 0 \notin DOMAIN committed
    BY DEF Types, Indexes
  <2> QED BY <1>a, <1>b, <2>1 DEF Spared, Installed
<1>6. OwnUpdate'
    BY <1>a, <1>b, <1>c, <1>d DEF OwnUpdate, NoCSR
<1>7. Kept'
  <2>1. \A i \in DOMAIN committed : i # 0
    BY DEF Types, Indexes
  <2> QED BY <1>a, <1>b, <1>c, <1>d, <2>1 DEF Kept, At
<1> QED BY <1>1, <1>2, <1>4, <1>5, <1>6, <1>7

\* onCommissioningComplete.
LEMMA CompleteHookStep ==
    ASSUME Types, Rollback, NEW t \in Threads, CompleteHook(t)
    PROVE  Rollback'
<1> USE Parts DEF Unclean, Busy, Ending, Adding, Updating
<1>a. pc[t] = "completed" /\ pc' = [pc EXCEPT ![t] = "close"] /\ job' = job
      /\ csr' = NoCSR /\ nocInvoked' = "no" /\ install' = 0 /\ update'.idx = 0
      /\ UNCHANGED <<armed, owner, fabrics, committed>>
    BY DEF CompleteHook, ClearPending, Goto, failSafe, stored, NoUpdate
<1>b. pc \in [Threads -> Labels]
    BY DEF Types, TypeOK
<1>c. armed = "disarmed"
    BY <1>a DEF OneBusy
<1>d. \A u \in Threads \ {t} : pc[u] \notin Busy
    BY <1>a DEF OneBusy
<1>e. Uncommitted = {}
    BY <1>a DEF Accounted, At
<1>f. \A i \in DOMAIN committed : i # 0
    BY DEF Types, Indexes
<1>1. OneBusy'
    BY <1>a, <1>b DEF OneBusy
<1>2. Clean'
    BY <1>a DEF Clean
<1>4. Accounted'
    BY <1>a, <1>e DEF Accounted, Uncommitted, Installed
<1>5. Spared'
    BY <1>a, <1>b, <1>f DEF Spared, Installed
<1>6. OwnUpdate'
    BY <1>a, <1>b, <1>c, <1>d DEF OwnUpdate, NoCSR
<1>7. Kept'
    BY <1>a, <1>b, <1>d, <1>f DEF Kept, At
<1> QED BY <1>1, <1>2, <1>4, <1>5, <1>6, <1>7

\* OnFailSafeExpiry takes what is to be rolled back.
LEMMA ExpiredHookStep ==
    ASSUME Types, Rollback, NEW t \in Threads, ExpiredHook(t)
    PROVE  Rollback'
<1> USE Parts DEF Unclean, Busy, Ending, Adding, Updating
<1>a. pc[t] = "expired" /\ pc' = [pc EXCEPT ![t] = "revert"]
      /\ csr' = NoCSR /\ nocInvoked' = "no" /\ install' = 0 /\ update'.idx = 0
      /\ UNCHANGED <<armed, owner, fabrics, committed>>
    BY DEF ExpiredHook, ClearPending, Goto, failSafe, stored, NoUpdate
<1>b. pc \in [Threads -> Labels] /\ job \in [Threads -> Jobs]
      /\ install \in 0..MaxIndex /\ update \in Update
    BY DEF Types, TypeOK, Jobs
<1>c. job'[t].idx = install /\ job'[t].undo = update
      /\ \A u \in Threads \ {t} : job'[u] = job[u] /\ pc'[u] = pc[u]
    BY <1>a, <1>b, JobUndo DEF ExpiredHook
<1>d. \A u \in Threads \ {t} : pc[u] \notin Busy
    BY <1>a DEF OneBusy
<1>e. armed = "disarmed" /\ pc'[t] = "revert"
    BY <1>a, <1>b DEF OneBusy
<1>f. \A i \in DOMAIN committed : i # 0
    BY DEF Types, Indexes
<1>1. OneBusy'
    BY <1>a, <1>b DEF OneBusy
<1>2. Clean'
    BY <1>a, <1>c, <1>d, <1>e DEF Clean, At
<1>4. Accounted'
    BY <1>a, <1>c, <1>d, <1>e DEF Accounted, Uncommitted, Installed, At
<1>5. Spared'
    BY <1>a, <1>c, <1>d, <1>e, <1>f DEF Spared, Installed, At
<1>6. OwnUpdate'
    BY <1>a, <1>c, <1>d, <1>e DEF OwnUpdate, NoCSR
<1>7. Kept'
    BY <1>a, <1>c, <1>d, <1>e, <1>f DEF Kept, At
<1> QED BY <1>1, <1>2, <1>4, <1>5, <1>6, <1>7

\* revertUpdateNOC and revertAddNOC.
LEMMA RevertStep ==
    ASSUME Types, Rollback, NEW t \in Threads, RevertStore(t), NoneLost'
    PROVE  Rollback'
<1> USE Parts DEF Unclean, Busy, Ending, Adding, Updating
<1>a. pc[t] = "revert" /\ pc' = [pc EXCEPT ![t] = "removed"] /\ job' = job
      /\ fabrics' = Reverted(fabrics, job[t].undo, job[t].idx)
      /\ UNCHANGED <<armed, owner, committed, csr, nocInvoked, install, update>>
    BY DEF RevertStore, Goto, failSafe, pending, Lose, NoneLost
<1>b. pc \in [Threads -> Labels] /\ job[t].undo \in Update
    BY DEF Types, TypeOK
<1>c. fabrics \in [DOMAIN fabrics -> Fabric] /\ DOMAIN fabrics \subseteq Indexes
    BY DEF Types, TypeOK
<1>d. \A u \in Threads \ {t} : pc[u] \notin Busy /\ pc'[u] = pc[u]
    BY <1>a DEF OneBusy
<1>e. armed = "disarmed" /\ pc'[t] = "removed"
    BY <1>a, <1>b DEF OneBusy
<1>f. DOMAIN fabrics' = DOMAIN fabrics \ {job[t].idx}
      /\ \A i \in DOMAIN fabrics \ {job[t].idx} :
             /\ fabrics'[i].id = fabrics[i].id
             /\ i = job[t].undo.idx => fabrics'[i].noc = job[t].undo.noc
             /\ i # job[t].undo.idx => fabrics'[i].noc = fabrics[i].noc
  <2>1. RevertedFrom(Reverted(fabrics, job[t].undo, job[t].idx), fabrics, job[t].undo, job[t].idx)
    BY <1>b, <1>c, RevertedTable
  <2> QED BY <1>a, <2>1 DEF RevertedFrom
<1>g. install = 0 /\ update.idx = 0 /\ nocInvoked = "no" /\ csr = NoCSR
    BY <1>a, <1>d, <1>e DEF Clean, At
<1>h. \A i \in DOMAIN fabrics : i # 0
    BY <1>c DEF Indexes
<1>i. Uncommitted' = {}
    BY <1>a, <1>d, <1>f, <1>g, <1>h DEF Accounted, Uncommitted, Installed
<1>1. OneBusy'
    BY <1>a, <1>b DEF OneBusy
<1>2. Clean'
    BY <1>a, <1>d, <1>e, <1>g DEF Clean
<1>4. Accounted'
    BY <1>i DEF Accounted
<1>5. Spared'
    BY <1>a, <1>d, <1>e, <1>f, <1>g, <1>h DEF Spared, Installed
<1>6. OwnUpdate'
    BY <1>a, <1>d, <1>e, <1>g DEF OwnUpdate, NoCSR
<1>7. Kept'
  <2>1. DOMAIN committed \subseteq DOMAIN fabrics \ {job[t].idx}
    BY <1>a DEF Spared, Installed
  <2>2. \A i \in DOMAIN committed :
            /\ fabrics[i].id = committed[i].id
            /\ fabrics[i].noc = committed[i].noc \/ i = job[t].undo.idx
            /\ i = job[t].undo.idx => job[t].undo.noc = committed[i].noc
    BY <1>a, <1>d, <1>g, <1>h, <2>1 DEF Kept
  <2>3. \A i \in DOMAIN committed :
            fabrics'[i].id = committed[i].id /\ fabrics'[i].noc = committed[i].noc
    BY <1>f, <2>1, <2>2
  <2>4. 0 \notin DOMAIN committed
    BY <1>h, <2>1
  <2>5. update'.idx \notin DOMAIN committed'
    BY <1>a, <1>g, <2>4
  <2>6. \A u \in Threads : pc'[u] # "revert"
    BY <1>d, <1>e
  <2>7. \A i \in DOMAIN committed' :
            fabrics'[i].id = committed'[i].id /\ fabrics'[i].noc = committed'[i].noc
    BY <1>a, <2>3
  <2> QED BY ONLY <2>5, <2>6, <2>7 DEF Kept
<1> QED BY <1>1, <1>2, <1>4, <1>5, <1>6, <1>7

\* notifyFabricRemoved for a fabric that is gone, no pending state of another lost:
\* after an expiry, and after a RemoveFabric.
LEMMA FabricRemovedStep ==
    ASSUME Types, Rollback, NEW t \in Threads, FabricRemoved(t), NoneLost'
    PROVE  Rollback'
<1> USE Parts DEF Unclean, Busy, Ending, Adding, Updating
<1>b. pc \in [Threads -> Labels] /\ job \in [Threads -> Jobs]
    BY DEF Types, TypeOK, Jobs
<1>c. /\ pc[t] \in {"removed", "gone"} /\ pc'[t] \in {"idle", "close"}
      /\ \A u \in Threads \ {t} : pc'[u] = pc[u] /\ job'[u] = job[u]
      /\ UNCHANGED <<armed, owner, fabrics, committed>> /\ lost \subseteq lost'
    BY <1>b DEF FabricRemoved, Goto, failSafe, stored, Lose
<1>d. \A i \in Installed : i # 0
    BY DEF Types, TypeOK, Installed, Indexes
<1>e. CASE UNCHANGED <<csr, nocInvoked, install, update>>
  <2>1. \A l \in Busy \ {"removed"} : At(l)' <=> At(l)
    BY <1>b, <1>c DEF At
  <2>2. OneBusy'
    BY <1>b, <1>c DEF OneBusy
  <2>3. Clean'
    BY <1>c, <1>e, <2>1 DEF Clean
  <2>4. Accounted'
    BY <1>c, <1>e, <2>1 DEF Accounted, Uncommitted, Installed
  <2>5. Spared'
    BY <1>c, <1>e, <2>1 DEF Spared, Installed
  <2>6. OwnUpdate'
    BY <1>c, <1>e, <2>1 DEF OwnUpdate
  <2>7. Kept'
    BY <1>c, <1>e, <2>1 DEF Kept
  <2> QED BY <2>2, <2>3, <2>4, <2>5, <2>6, <2>7
<1>f. CASE ~UNCHANGED <<csr, nocInvoked, install, update>>
  <2> DEFINE idx == job[t].idx
  <2>1. idx # 0 /\ ClearPending /\ ~LostWith(idx)
    BY <1>f DEF FabricRemoved, pending, Lose, NoneLost
  <2>2. /\ csr' = NoCSR /\ nocInvoked' = "no" /\ install' = 0 /\ update'.idx = 0
        /\ install \in {0, idx} /\ update.idx \in {0, idx} /\ idx \notin Installed
    BY <2>1 DEF ClearPending, NoUpdate, LostWith
  <2> HIDE DEF idx
  <2>3. \A l \in Busy \ {"removed"} : At(l)' <=> At(l)
    BY <1>b, <1>c DEF At
  <2>4. OneBusy'
    BY <1>b, <1>c DEF OneBusy
  <2>5. Clean'
    BY <1>c, <2>2, <2>3 DEF Clean
  <2>6. \A i \in Uncommitted : \E u \in Threads \ {t} : pc[u] = "revert" /\ job[u].idx = i
    BY <1>c, <1>d, <2>2 DEF Accounted, Uncommitted
  <2>7. Accounted'
    BY <1>c, <2>2, <2>3, <2>6 DEF Accounted, Uncommitted, Installed, OneBusy
  <2>8. \A i \in DOMAIN committed : i \in Installed /\ i # 0
    BY <1>d DEF Spared
  <2>9. Spared'
    BY <1>c, <2>2, <2>3, <2>8 DEF Spared, Installed
  <2>10. OwnUpdate'
    BY <1>c, <2>2, <2>3 DEF OwnUpdate, NoCSR
  <2>11. Kept'
    BY <1>c, <2>2, <2>3, <2>8 DEF Kept
  <2> QED BY <2>4, <2>5, <2>7, <2>9, <2>10, <2>11
<1> QED BY <1>e, <1>f

\* AddNOC's checks: the window has not been used, so nothing is pending.
LEMMA AddNOCStep ==
    ASSUME Types, Rollback, NEW s \in Threads, Alone(s), AddNOC(s)
    PROVE  Rollback'
<1> USE Parts DEF Unclean, Busy, Ending, Adding, Updating, Alone
<1>b. pc \in [Threads -> Labels] /\ job \in [Threads -> Jobs] /\ root \in FabricIds \cup {NoRoot}
    BY DEF Types, TypeOK, Jobs
<1>c. /\ pc[s] = "idle" /\ pc'[s] = "addNOC" /\ armed = "armed" /\ nocInvoked = "no"
      /\ \A u \in Threads \ {s} : pc'[u] = pc[u] /\ job'[u] = job[u]
      /\ UNCHANGED <<armed, owner, fabrics, committed, csr, nocInvoked, install, update>>
      /\ lost \subseteq lost'
    BY <1>b DEF Lose, AddNOC, Goto, Idle, failSafe, stored, pending, FailSafeArmedFor, FailSafeArmed
<1>e. \A i \in Uncommitted : i = install /\ Unclean
    BY <1>c DEF Accounted
<1>f. update.idx = 0 \/ Unclean
    BY <1>c DEF OwnUpdate, At
<1>1. OneBusy'
    BY <1>c DEF OneBusy
<1>2. Clean'
    BY <1>c DEF Clean, At
<1>4. Accounted'
    BY <1>c, <1>e DEF Accounted, Uncommitted, Installed, At
<1>5. Spared'
    BY <1>c DEF Spared, Installed, At
<1>6. OwnUpdate'
    BY <1>c, <1>f DEF OwnUpdate, At
<1>7. Kept'
    BY <1>c DEF Kept, At
<1> QED BY <1>1, <1>2, <1>4, <1>5, <1>6, <1>7

\* The row of the new fabric is written, and its index noted.
LEMMA AddNOCInstallStep ==
    ASSUME Types, Rollback, NEW s \in Threads, AddNOCInstall(s), NoneLost'
    PROVE  Rollback'
<1> USE Parts DEF Unclean, Busy, Ending, Adding, Updating
<1>b. pc \in [Threads -> Labels] /\ job \in [Threads -> Jobs] /\ nextIndex \in Int
      /\ Installed \subseteq Indexes
    BY ConstantsAssumption DEF Types, TypeOK, Jobs, Installed, Indexes
<1> DEFINE idx == FirstFree(nextIndex, Installed)
           row == [id |-> job[s].id, noc |-> 0]
<1>c. /\ pc[s] = "addNOC" /\ pc' = [pc EXCEPT ![s] = "identity"] /\ install' = idx
      /\ fabrics' = With(fabrics, idx, row)
      /\ job' = [job EXCEPT ![s].idx = idx] /\ Installed # Indexes
      /\ UNCHANGED <<armed, owner, committed, csr, nocInvoked, update>>
      /\ lost \subseteq lost' /\ (Unclean => install \notin Installed)
    BY DEF AddNOCInstall, Goto, failSafe, Lose, NoteGone, NoneLost
<1>d. idx \in Indexes \ Installed
  <2>1. Indexes \ Installed # {}
    BY <1>b, <1>c
  <2> QED BY <1>b, <2>1, FirstFreeFound
<1> HIDE DEF idx, row
<1>e. idx \in 0..MaxIndex /\ idx # 0
    BY <1>d, ConstantsAssumption DEF Indexes
<1>f. /\ pc'[s] = "identity" /\ job'[s].idx = idx
      /\ \A u \in Threads \ {s} : pc'[u] = pc[u] /\ job'[u] = job[u]
    BY <1>b, <1>c, <1>e, JobIdx
<1>g. \A u \in Threads \ {s} : pc[u] \notin Busy
    BY <1>c DEF OneBusy
<1>h. /\ armed = "armed" /\ nocInvoked = "no" /\ (update.idx = 0 \/ Unclean)
    BY <1>c DEF OneBusy, OwnUpdate
<1>i. Uncommitted = {}
    BY <1>c, <1>g, <1>h DEF Accounted, Uncommitted
<1>j. DOMAIN fabrics' = Installed \cup {idx} /\ \A i \in Installed : fabrics'[i] = fabrics[i]
    BY <1>c, <1>d DEF With, Installed
<1>k. Uncommitted' = {idx}
    BY <1>c, <1>d, <1>i, <1>j DEF Uncommitted, Installed, Spared
<1>1. OneBusy'
    BY <1>c, <1>f, <1>g, <1>h DEF OneBusy
<1>2. Clean'
    BY <1>c, <1>f, <1>g, <1>h DEF Clean, At
<1>4. Accounted'
    BY <1>c, <1>f, <1>g, <1>h, <1>k DEF Accounted, At
<1>5. Spared'
    BY <1>c, <1>d, <1>e, <1>f, <1>g, <1>j DEF Spared, Installed
<1>6. OwnUpdate'
    BY <1>c, <1>f, <1>g, <1>h DEF OwnUpdate
<1>7. Kept'
  <2>1. DOMAIN committed \subseteq Installed
    BY DEF Spared
  <2>2. \A l \in Busy \ Adding : At(l)' <=> At(l)
    BY <1>c, <1>f DEF At
  <2> QED BY <1>c, <1>f, <1>j, <2>1, <2>2 DEF Kept
<1> QED BY <1>1, <1>2, <1>4, <1>5, <1>6, <1>7

\* revertAddNOC when the store refuses.
LEMMA AddNOCFailStep ==
    ASSUME Types, Fresh, Rollback, NEW s \in Threads, AddNOCFail(s)
    PROVE  Rollback'
<1> USE Parts DEF Unclean, Busy, Ending, Adding, Updating
<1>b. pc \in [Threads -> Labels] /\ job \in [Threads -> Jobs]
      /\ fabrics \in [Installed -> Fabric] /\ Installed \subseteq Indexes
    BY DEF Types, TypeOK, Jobs, Installed
<1>c. /\ pc[s] \in {"addNOC", "identity"} /\ pc'[s] = "idle"
      /\ \A u \in Threads \ {s} : pc'[u] = pc[u] /\ job'[u] = job[u]
      /\ UNCHANGED <<armed, owner, committed, csr, nocInvoked, install, update>>
      /\ lost \subseteq lost'
    BY <1>b DEF AddNOCFail, Goto, failSafe, pending, Lose
<1>d. \A u \in Threads \ {s} : pc[u] \notin Busy
    BY <1>c DEF OneBusy
<1>e. armed = "armed" /\ nocInvoked = "no" /\ (update.idx = 0 \/ Unclean)
    BY <1>c DEF OneBusy, OwnUpdate
<1>g. job[s].idx \notin DOMAIN committed
    BY <1>c DEF Fresh, Spared, Types, Indexes
<1>i. \A l \in Busy \ Adding : At(l)' <=> At(l)
    BY <1>c DEF At
<1>f. /\ DOMAIN fabrics' \subseteq Installed
      /\ DOMAIN committed \subseteq DOMAIN fabrics'
      /\ \A i \in DOMAIN committed : fabrics'[i] = fabrics[i]
      /\ job[s].idx \notin DOMAIN fabrics' \/ Unclean'
  <2>1. DOMAIN committed \subseteq Installed \ {job[s].idx}
    BY <1>g DEF Spared
  <2>2. ASSUME fabrics' = Without(fabrics, job[s].idx)
        PROVE  /\ DOMAIN fabrics' = Installed \ {job[s].idx}
               /\ \A i \in Installed \ {job[s].idx} : fabrics'[i] = fabrics[i]
    BY <2>2 DEF Without, Installed
  <2>3. ASSUME NEW noc \in {0, 1}, fabrics' = [fabrics EXCEPT ![job[s].idx].noc = noc]
        PROVE  /\ DOMAIN fabrics' = Installed
               /\ \A i \in Installed \ {job[s].idx} : fabrics'[i] = fabrics[i]
    BY <1>b, <2>3 DEF Installed
  <2> QED BY <2>1, <2>2, <2>3 DEF AddNOCFail, Lose
<1>h. \A i \in Uncommitted' : i \in Uncommitted /\ i = install /\ Unclean'
    BY <1>c, <1>d, <1>e, <1>f DEF Accounted, Uncommitted, Installed
<1>1. OneBusy'
    BY <1>c, <1>d, <1>e DEF OneBusy
<1>2. Clean'
    BY <1>c, <1>d, <1>e, <1>i DEF Clean
<1>4. Accounted'
    BY <1>c, <1>d, <1>h, <1>i DEF Accounted
<1>5. Spared'
    BY <1>c, <1>f, <1>g, <1>i DEF Spared, Installed
<1>6. OwnUpdate'
    BY <1>c, <1>d, <1>e DEF OwnUpdate
<1>7. Kept'
    BY <1>c, <1>f, <1>i DEF Kept
<1> QED BY <1>1, <1>2, <1>4, <1>5, <1>6, <1>7

\* The new fabric's identity is written, and the window marked as used.
LEMMA AddNOCFinishStep ==
    ASSUME Types, Rollback, NEW s \in Threads, AddNOCFinish(s)
    PROVE  Rollback'
<1> USE Parts DEF Unclean, Busy, Ending, Adding, Updating
<1>b. pc \in [Threads -> Labels] /\ fabrics \in [DOMAIN fabrics -> Fabric]
    BY DEF Types, TypeOK
<1>c. /\ pc[s] = "identity" /\ pc'[s] = "rearm" /\ job' = job
      /\ \A u \in Threads \ {s} : pc'[u] = pc[u]
      /\ fabrics' = [fabrics EXCEPT ![job[s].idx].noc = 1] /\ job[s].idx \in Installed
      /\ nocInvoked' = "yes" /\ csr' = NoCSR
      /\ UNCHANGED <<armed, owner, committed, install, update, lost>>
    BY <1>b DEF AddNOCFinish, Goto, failSafe
<1>d. \A u \in Threads \ {s} : pc[u] \notin Busy
    BY <1>c DEF OneBusy
<1>e. armed = "armed" /\ (update.idx = 0 \/ Unclean)
    BY <1>c DEF OneBusy, OwnUpdate
<1>f. DOMAIN fabrics' = DOMAIN fabrics
      /\ \A i \in DOMAIN fabrics \ {job[s].idx} : fabrics'[i] = fabrics[i]
    BY <1>b, <1>c DEF Installed
<1>g. job[s].idx \notin DOMAIN committed
    BY <1>c DEF Spared
<1>h. Uncommitted' = Uncommitted
    BY <1>c, <1>f DEF Uncommitted, Installed
<1>i. \A l \in Busy \ Adding : At(l)' <=> At(l)
    BY <1>c DEF At
<1>1. OneBusy'
    BY <1>c, <1>d, <1>e DEF OneBusy
<1>2. Clean'
    BY <1>c, <1>d, <1>e DEF Clean, At
<1>4. Accounted'
    BY <1>c, <1>d, <1>e, <1>h, <1>i DEF Accounted
<1>5. Spared'
    BY <1>c, <1>f, <1>g, <1>i DEF Spared, Installed
<1>6. OwnUpdate'
    BY <1>c, <1>d, <1>e DEF OwnUpdate, NoCSR
<1>7. Kept'
  <2>1. DOMAIN committed \subseteq DOMAIN fabrics \ {job[s].idx}
    BY <1>g DEF Spared, Installed
  <2> QED BY <1>c, <1>f, <1>i, <2>1 DEF Kept
<1> QED BY <1>1, <1>2, <1>4, <1>5, <1>6, <1>7

\* SetCurrentFabric: the window passes to the new fabric.
LEMMA AddNOCRearmStep ==
    ASSUME Types, Rollback, NEW s \in Threads, AddNOCRearm(s)
    PROVE  Rollback'
<1> USE Parts DEF Unclean, Busy, Ending, Adding, Updating
<1>b. pc \in [Threads -> Labels] /\ job \in [Threads -> Jobs]
    BY DEF Types, TypeOK, Jobs
<1>c. /\ pc[s] = "rearm" /\ pc'[s] = "idle" /\ owner' = job[s].idx
      /\ \A u \in Threads \ {s} : pc'[u] = pc[u] /\ job'[u] = job[u]
      /\ UNCHANGED <<armed, fabrics, committed, csr, nocInvoked, install, update, lost>>
    BY <1>b DEF AddNOCRearm, Goto, pending, stored
<1>d. \A u \in Threads \ {s} : pc[u] \notin Busy
    BY <1>c DEF OneBusy
<1>e. armed = "armed" /\ (update.idx = 0 \/ Unclean) /\ job[s].idx # 0
    BY <1>c DEF OneBusy, OwnUpdate, Spared
<1>i. \A l \in Busy \ Adding : At(l)' <=> At(l)
    BY <1>c DEF At
<1>1. OneBusy'
    BY <1>c, <1>d, <1>e DEF OneBusy
<1>2. Clean'
    BY <1>c, <1>e, <1>i DEF Clean
<1>4. Accounted'
    BY <1>c, <1>d, <1>e, <1>i DEF Accounted, Uncommitted, Installed
<1>5. Spared'
    BY <1>c, <1>i DEF Spared, Installed
<1>6. OwnUpdate'
    BY <1>c, <1>d, <1>e DEF OwnUpdate
<1>7. Kept'
    BY <1>c, <1>i DEF Kept
<1> QED BY <1>1, <1>2, <1>4, <1>5, <1>6, <1>7

\* UpdateNOC's checks: the CSR it answers is of the fabric that has the window.
LEMMA UpdateNOCStep ==
    ASSUME Types, Rollback, NEW s \in Threads, Alone(s), UpdateNOC(s), s \in Sessions
    PROVE  Rollback'
<1> USE Parts DEF Unclean, Busy, Ending, Adding, Updating, Alone
<1>b. pc \in [Threads -> Labels] /\ job \in [Threads -> Jobs]
    BY DEF Types, TypeOK, Jobs
<1>c. /\ pc[s] = "idle" /\ pc'[s] = "updateNOC" /\ armed = "armed" /\ nocInvoked = "no"
      /\ owner = Accessing(s) /\ csr.for = "update"
      /\ UNCHANGED <<armed, owner, fabrics, committed, csr, nocInvoked, install, update>>
      /\ lost \subseteq lost'
    BY <1>b DEF Lose, UpdateNOC, Goto, Idle, failSafe, stored, pending, FailSafeArmedFor, FailSafeArmed
<1>d. job' = [job EXCEPT ![s].idx = owner] /\ owner \in 0..MaxIndex
    BY <1>c, AccessingType DEF UpdateNOC, OwnUpdate
<1>e. /\ job'[s].idx = owner
      /\ \A u \in Threads \ {s} : pc'[u] = pc[u] /\ job'[u] = job[u]
  <2>1. pc' = [pc EXCEPT ![s] = "updateNOC"]
    BY DEF UpdateNOC, Goto
  <2> QED BY <1>b, <1>d, <2>1, JobIdx
<1>f. \A i \in Uncommitted : i = install /\ Unclean
    BY <1>c DEF Accounted
<1>g. update.idx = 0 \/ Unclean
    BY <1>c DEF OwnUpdate, At
<1>1. OneBusy'
    BY <1>c, <1>e DEF OneBusy
<1>2. Clean'
    BY <1>c, <1>e DEF Clean, At
<1>4. Accounted'
    BY <1>c, <1>e, <1>f DEF Accounted, Uncommitted, Installed, At
<1>5. Spared'
    BY <1>c, <1>e DEF Spared, Installed, At
<1>6. OwnUpdate'
    BY <1>c, <1>e, <1>g DEF OwnUpdate, At
<1>7. Kept'
    BY <1>c, <1>e DEF Kept, At
<1> QED BY <1>1, <1>2, <1>4, <1>5, <1>6, <1>7

\* The replaced identity is noted, and the new one written or not: UpdateNOC goes on,
\* or it is refused and the note stays.
LEMMA UpdateNotedStep ==
    ASSUME Types, Rollback, NEW s \in Threads, pc[s] = "updateNOC",
           job[s].idx \in Installed, NoteUpdate(job[s].idx),
           fabrics' \in {fabrics, Renewed(job[s].idx)}, Still(s),
           \/ pc'[s] = "updated" /\ job' = job
           \/ pc'[s] = "idle" /\ Unclean',
           UNCHANGED <<armed, owner, committed, csr, nocInvoked, install>>, lost \subseteq lost'
    PROVE  Rollback'
<1> USE Parts DEF Unclean, Busy, Ending, Adding, Updating, Still
<1>b. fabrics \in [DOMAIN fabrics -> Fabric] /\ \A i \in Installed : i # 0 /\ fabrics[i].noc \in Nat
    BY DEF Types, TypeOK, Installed, Indexes, Fabric
<1>d. \A u \in Threads \ {s} : pc[u] \notin Busy
    BY DEF OneBusy
<1>e. armed = "armed" /\ nocInvoked = "no" /\ job[s].idx = owner /\ update.idx \in {0, owner}
    BY DEF OneBusy, OwnUpdate
<1>f. \A i \in Uncommitted : i = install /\ Unclean
    BY <1>d, <1>e DEF Accounted
<1>g. /\ update'.idx = owner /\ owner # 0
      /\ update.idx = 0 => update'.noc = fabrics[owner].noc
      /\ update.idx # 0 => update' = update
    BY <1>b, <1>e DEF NoteUpdate
<1>h. /\ DOMAIN fabrics' = DOMAIN fabrics
      /\ \A i \in DOMAIN fabrics : fabrics'[i].id = fabrics[i].id
      /\ \A i \in DOMAIN fabrics \ {owner} : fabrics'[i] = fabrics[i]
  <2>1. owner \in DOMAIN fabrics /\ fabrics[owner].noc + 1 \in Nat
    BY <1>b, <1>e DEF Installed
  <2>2. Renewed(owner) = [fabrics EXCEPT ![owner].noc = fabrics[owner].noc + 1]
    BY DEF Renewed
  <2>3. /\ DOMAIN Renewed(owner) = DOMAIN fabrics
        /\ \A i \in DOMAIN fabrics : Renewed(owner)[i].id = fabrics[i].id
        /\ \A i \in DOMAIN fabrics \ {owner} : Renewed(owner)[i] = fabrics[i]
    BY <1>b, <2>1, <2>2, Renoc
  <2> QED BY <1>e, <2>3
<1>i. \A l \in Busy \ Updating : At(l)' <=> At(l)
    BY DEF At
<1>1. OneBusy'
    BY <1>d, <1>e DEF OneBusy
<1>2. Clean'
    BY <1>d, <1>e DEF Clean, At
<1>4. Accounted'
    BY <1>d, <1>f, <1>h, <1>i DEF Accounted, Uncommitted, Installed
<1>5. Spared'
    BY <1>h, <1>i DEF Spared, Installed
<1>6. OwnUpdate'
    BY <1>d, <1>e, <1>g DEF OwnUpdate, At
<1>7. Kept'
  <2>1. \A i \in DOMAIN committed : i \in DOMAIN fabrics /\ i # 0
    BY <1>b DEF Spared, Installed
  <2>2. ~At("completed") /\ ~At("completed")' /\ \A t \in Threads : pc[t] # "revert" /\ pc'[t] # "revert"
    BY <1>d DEF At
  <2>3. \A i \in DOMAIN committed :
            /\ fabrics[i].id = committed[i].id
            /\ fabrics[i].noc = committed[i].noc \/ (update.idx = owner /\ i = owner)
    BY <1>e, <2>1, <2>2 DEF Kept
  <2>4. owner \in DOMAIN committed => committed[owner].noc = update'.noc
    BY <1>e, <1>g, <2>1, <2>2, <2>3 DEF Kept
  <2>5. \A i \in DOMAIN committed :
            /\ fabrics'[i].id = committed[i].id
            /\ fabrics'[i].noc = committed[i].noc \/ i = owner
    BY <1>h, <2>1, <2>3
  <2> QED BY <1>g, <2>2, <2>4, <2>5 DEF Kept
<1> QED BY <1>1, <1>2, <1>4, <1>5, <1>6, <1>7

\* UpdateNOC writes, or is refused.
LEMMA UpdateNOCStoreStep ==
    ASSUME Types, Rollback, NEW s \in Threads, UpdateNOCStore(s) \/ UpdateNOCFail(s)
    PROVE  Rollback'
<1>b. pc \in [Threads -> Labels] /\ job \in [Threads -> Jobs]
    BY DEF Types, TypeOK, Jobs
<1>c. /\ pc[s] = "updateNOC" /\ Still(s)
      /\ UNCHANGED <<armed, owner, committed, csr, nocInvoked, install>> /\ lost \subseteq lost'
    BY <1>b DEF UpdateNOCStore, UpdateNOCFail, Goto, failSafe, Still, Lose
<1>g. CASE UNCHANGED <<update, fabrics, lost>> /\ pc'[s] = "idle"
  <2> USE Parts DEF Unclean, Busy, Ending, Adding, Updating, Still
  <2>1. \A u \in Threads \ {s} : pc[u] \notin Busy
    BY <1>c DEF OneBusy
  <2>2. \A l \in Busy \ Updating : At(l)' <=> At(l)
    BY <1>c, <1>g DEF At
  <2>3. OneBusy'
    BY <1>c, <1>g, <2>1 DEF OneBusy
  <2>4. armed = "armed" /\ (update.idx = 0 \/ Unclean)
    BY <1>c DEF OneBusy, OwnUpdate
  <2>5. Clean'
    BY <1>c, <1>g, <2>2, <2>4 DEF Clean
  <2>6. Accounted'
    BY <1>c, <1>g, <2>1, <2>2 DEF Accounted, Uncommitted, Installed
  <2>7. Spared'
    BY <1>c, <1>g, <2>2 DEF Spared, Installed
  <2>8. OwnUpdate'
    BY <1>c, <1>g, <2>1, <2>4 DEF OwnUpdate
  <2>9. Kept'
    BY <1>c, <1>g, <2>2 DEF Kept
  <2> QED BY <2>3, <2>5, <2>6, <2>7, <2>8, <2>9
<1>h. CASE /\ job[s].idx \in Installed /\ NoteUpdate(job[s].idx)
           /\ fabrics' \in {fabrics, Renewed(job[s].idx)}
           /\ (pc'[s] = "updated" /\ job' = job) \/ (pc'[s] = "idle" /\ Unclean')
    BY <1>c, <1>h, UpdateNotedStep
<1>i. pc'[s] = "idle" \/ UpdateNOCStore(s)
    BY <1>b DEF UpdateNOCFail, Goto
<1> QED BY <1>b, <1>g, <1>h, <1>i DEF UpdateNOCStore, UpdateNOCFail, Goto, Lose, Unclean

\* UpdateNOC ends: the window is marked as used.
LEMMA UpdateNOCFinishStep ==
    ASSUME Types, Rollback, NEW s \in Threads, UpdateNOCFinish(s)
    PROVE  Rollback'
<1> USE Parts DEF Unclean, Busy, Ending, Adding, Updating
<1>b. pc \in [Threads -> Labels] /\ job \in [Threads -> Jobs]
    BY DEF Types, TypeOK, Jobs
<1>c. /\ pc[s] = "updated" /\ pc'[s] = "idle" /\ nocInvoked' = "yes" /\ csr' = NoCSR
      /\ \A u \in Threads \ {s} : pc'[u] = pc[u] /\ job'[u] = job[u]
      /\ UNCHANGED <<armed, owner, fabrics, committed, install, update, lost>>
    BY <1>b DEF UpdateNOCFinish, Goto, failSafe, stored
<1>d. \A u \in Threads \ {s} : pc[u] \notin Busy
    BY <1>c DEF OneBusy
<1>e. armed = "armed"
    BY <1>c DEF OneBusy
<1>i. \A l \in Busy \ Updating : At(l)' <=> At(l)
    BY <1>c DEF At
<1>1. OneBusy'
    BY <1>c, <1>d, <1>e DEF OneBusy
<1>2. Clean'
    BY <1>c, <1>d, <1>e DEF Clean, At
<1>4. Accounted'
    BY <1>c, <1>i DEF Accounted, Uncommitted, Installed
<1>5. Spared'
    BY <1>c, <1>i DEF Spared, Installed
<1>6. OwnUpdate'
    BY <1>c, <1>d, <1>e DEF OwnUpdate, NoCSR
<1>7. Kept'
    BY <1>c, <1>i DEF Kept
<1> QED BY <1>1, <1>2, <1>4, <1>5, <1>6, <1>7

\* RemoveFabric takes the fabric out of both tables.
LEMMA RemoveFabricStep ==
    ASSUME Types, Rollback, NEW idx \in Indexes, RemoveFabric(idx)
    PROVE  Rollback'
<1> USE Parts DEF Unclean, Busy, Ending, Adding, Updating
<1>b. pc \in [Threads -> Labels] /\ job \in [Threads -> Jobs] /\ Host \in Threads
    BY DEF Types, TypeOK, Jobs, Threads
<1>c. /\ pc[Host] = "idle" /\ pc'[Host] = "gone"
      /\ \A u \in Threads \ {Host} : pc'[u] = pc[u] /\ job'[u] = job[u]
      /\ UNCHANGED <<armed, owner, csr, nocInvoked, install, update, lost>>
    BY <1>b DEF RemoveFabric, Goto, Idle, failSafe, pending
<1>d. /\ DOMAIN fabrics' = DOMAIN fabrics \ {idx}
      /\ \A i \in DOMAIN fabrics \ {idx} : fabrics'[i] = fabrics[i]
      /\ DOMAIN committed' = DOMAIN committed \ {idx}
      /\ \A i \in DOMAIN committed \ {idx} : committed'[i] = committed[i]
    BY DEF RemoveFabric, Without
<1>e. \A l \in Busy : At(l)' <=> At(l)
    BY <1>b, <1>c DEF At
<1>f. Uncommitted' \subseteq Uncommitted
    BY <1>d DEF Uncommitted, Installed
<1>1. OneBusy'
    BY <1>c DEF OneBusy
<1>2. Clean'
    BY <1>c, <1>e DEF Clean
<1>4. Accounted'
    BY <1>b, <1>c, <1>e, <1>f DEF Accounted
<1>5. Spared'
    BY <1>c, <1>d, <1>e DEF Spared, Installed
<1>6. OwnUpdate'
    BY <1>c, <1>e DEF OwnUpdate
<1>7. Kept'
  <2>1. DOMAIN committed \subseteq DOMAIN fabrics
    BY DEF Spared, Installed
  <2> QED BY <1>b, <1>c, <1>d, <1>e, <2>1 DEF Kept
<1> QED BY <1>1, <1>2, <1>4, <1>5, <1>6, <1>7

\* A restart outside a window with nothing under way.
LEMMA RestartStep ==
    ASSUME Types, Rollback, Restart, armed = "disarmed", \A t \in Threads : pc[t] = "idle"
    PROVE  Rollback'
<1> USE Parts DEF Unclean, Busy, Ending, Adding, Updating
<1>c. /\ \A t \in Threads : pc'[t] = "idle"
      /\ csr' = NoCSR /\ nocInvoked' = "no" /\ install' = 0 /\ update'.idx = 0
      /\ armed' = "disarmed" /\ UNCHANGED <<fabrics, committed>>
    BY DEF Restart, ClearPending, NoUpdate, stored
<1>d. install = 0 /\ update.idx = 0 /\ nocInvoked = "no"
    BY DEF Clean, At
<1>e. Uncommitted = {}
    BY <1>d, FabricsNot0 DEF Accounted, Uncommitted
<1>f. \A i \in DOMAIN committed : i # 0
    BY DEF Types, Indexes
<1>1. OneBusy'
    BY <1>c DEF OneBusy
<1>2. Clean'
    BY <1>c DEF Clean, At
<1>4. Accounted'
    BY <1>c, <1>e DEF Accounted, Uncommitted, Installed
<1>5. Spared'
    BY <1>c, <1>f DEF Spared, Installed
<1>6. OwnUpdate'
    BY <1>c DEF OwnUpdate
<1>7. Kept'
    BY <1>c, <1>d, <1>f DEF Kept, At
<1> QED BY <1>1, <1>2, <1>4, <1>5, <1>6, <1>7

-----------------------------------------------------------------------------
(* The indexes a thread carries *)

\* Every step leaves a thread that carries no index without one.
LEMMA FreshStep == Types /\ Fresh /\ [Next]_vars => Fresh'
<1> SUFFICES ASSUME Types, Fresh, [Next]_vars PROVE Fresh'
    OBVIOUS
<1> USE DEF Fresh, Goto, failSafe, pending, stored, pase, bounds
<1>0. pc \in [Threads -> Labels] /\ job \in [Threads -> Jobs] /\ NoJob.idx = 0
      /\ Host \in Threads /\ \A s \in Sessions : s \in Threads
    BY DEF Types, TypeOK, Jobs, NoJob, Threads, Sessions
<1>1. CASE Tick \/ OpenOwnWindow \/ CloseWindow \/ UNCHANGED vars
    BY <1>1 DEF Tick, OpenOwnWindow, CloseWindow, vars
<1>2. CASE Restart
    BY <1>0, <1>2 DEF Restart
<1>3. CASE OpenWindow
    BY <1>0, <1>3 DEF OpenWindow, Idle
<1>4. CASE RevokeWindow
  <2>1. CASE job' = job
    BY <1>0, <1>4, <2>1 DEF RevokeWindow, Idle
  <2>2. CASE job' = [job EXCEPT ![Host].then = "close"]
    <3>1. job'[Host].idx = job[Host].idx /\ \A t \in Threads \ {Host} : job'[t] = job[t]
        BY <1>0, <2>2 DEF Jobs
    <3> QED BY <1>0, <1>4, <3>1 DEF RevokeWindow, Idle
  <2> QED BY <1>4, <2>1, <2>2 DEF RevokeWindow
<1>5. ASSUME NEW idx \in Indexes, RemoveFabric(idx)
      PROVE  Fresh'
  <2>1. pc'[Host] = "gone" /\ \A t \in Threads \ {Host} : job'[t] = job[t] /\ pc'[t] = pc[t]
    BY <1>0, <1>5 DEF RemoveFabric
  <2> QED BY <2>1
<1>6. ASSUME NEW w \in Watchers, WatchExpiry(w)
      PROVE  Fresh'
    BY <1>0, <1>6 DEF WatchExpiry, Idle, Threads
<1>7. ASSUME NEW p \in PaseSessions, PaseEstablished(p) \/ PaseGone(p)
      PROVE  Fresh'
  <2>1. p \in Threads /\ (PaseEstablished(p) => pc[p] = "idle")
    BY <1>7 DEF Types, PaseEstablished, Threads, Sessions
  <2> QED BY <1>0, <1>7, <2>1 DEF PaseEstablished, PaseGone
<1>8. ASSUME NEW s \in Sessions, Command(s)
      PROVE  Fresh'
  <2>1. ASSUME NEW n \in Lengths, ArmFailSafe(s, n)
        PROVE  Fresh'
    BY <1>0, <2>1 DEF ArmFailSafe, Idle
  <2>2. CASE DisarmFailSafe(s) \/ CommissioningComplete(s)
    BY <1>0, <2>2 DEF DisarmFailSafe, CommissioningComplete, Idle
  <2>3. ASSUME NEW for \in {"add", "update"}, CSRRequest(s, for)
        PROVE  Fresh'
    BY <1>0, <2>3 DEF CSRRequest, Idle
  <2>4. ASSUME NEW id \in FabricIds, AddTrustedRootCertificate(s, id)
        PROVE  Fresh'
    <3>1. job'[s].idx = job[s].idx /\ \A t \in Threads \ {s} : job'[t] = job[t]
        BY <1>0, <2>4, JobId DEF AddTrustedRootCertificate
    <3> QED BY <1>0, <2>4, <3>1 DEF AddTrustedRootCertificate, Idle
  <2>5. CASE AddNOC(s)
    <3>1. root \in FabricIds \cup {NoRoot}
        BY DEF Types, TypeOK
    <3>2. job'[s].idx = job[s].idx /\ \A t \in Threads \ {s} : job'[t] = job[t]
        BY <1>0, <2>5, <3>1, JobId DEF AddNOC
    <3> QED BY <1>0, <2>5, <3>2 DEF AddNOC, Idle
  <2>6. CASE UpdateNOC(s)
    <3>1. pc'[s] = "updateNOC" /\ \A t \in Threads \ {s} : job'[t] = job[t] /\ pc'[t] = pc[t]
        BY <1>0, <2>6 DEF UpdateNOC
    <3> QED BY <3>1
  <2> QED BY <1>8, <2>1, <2>2, <2>3, <2>4, <2>5, <2>6 DEF Command
<1>9. ASSUME NEW s \in Sessions, ContinueNOC(s)
      PROVE  Fresh'
  <2>1. CASE CSRStore(s)
    BY <1>0, <2>1 DEF CSRStore
  <2>2. CASE RootStore(s) \/ AddNOCFail(s) \/ AddNOCRearm(s) \/ UpdateNOCFinish(s)
             \/ UpdateNOCFail(s)
    BY <1>0, <2>2 DEF RootStore, AddNOCFail, AddNOCRearm, UpdateNOCFinish, UpdateNOCFail
  <2>3. CASE AddNOCInstall(s)
    <3>1. pc'[s] = "identity" /\ \A t \in Threads \ {s} : job'[t] = job[t] /\ pc'[t] = pc[t]
        BY <1>0, <2>3 DEF AddNOCInstall
    <3> QED BY <3>1
  <2>4. CASE AddNOCFinish(s)
    BY <1>0, <2>4 DEF AddNOCFinish
  <2>5. CASE UpdateNOCStore(s)
    BY <1>0, <2>5 DEF UpdateNOCStore
  <2> QED BY <1>9, <2>1, <2>2, <2>3, <2>4, <2>5 DEF ContinueNOC
<1>10. ASSUME NEW t \in Threads, Continue(t)
       PROVE  Fresh'
  <2>1. CASE ArmedHook(t) \/ CompleteHook(t) \/ CloseStep(t) \/ RevertStore(t)
    BY <1>0, <2>1 DEF ArmedHook, CompleteHook, CloseStep, RevertStore
  <2>2. CASE ExpiredHook(t)
    <3>1. pc'[t] = "revert" /\ \A u \in Threads \ {t} : job'[u] = job[u] /\ pc'[u] = pc[u]
        BY <1>0, <2>2 DEF ExpiredHook
    <3> QED BY <3>1
  <2>3. CASE FabricRemoved(t)
    BY <1>0, <2>3 DEF FabricRemoved
  <2>4. ASSUME NEW n \in Lengths, ArmFailSafeFor(t, n)
        PROVE  Fresh'
    BY <1>0, <2>4 DEF ArmFailSafeFor
  <2> QED BY <1>10, <2>1, <2>2, <2>3, <2>4 DEF Continue
<1> QED BY <1>1, <1>2, <1>3, <1>4, <1>5, <1>6, <1>7, <1>8, <1>9, <1>10 DEF Next

-----------------------------------------------------------------------------
(* Every step keeps the rollback, or may lose one *)

\* Alone, when the overlap has not been noted.
LEMMA NoOverlap ==
    ASSUME NEW t \in Threads, Overlap(t) \subseteq lost', NoneLost'
    PROVE  Alone(t)
BY DEF Overlap, Alone, Idle, NoneLost

LEMMA CommandStep ==
    ASSUME Types, Rollback, NEW s \in Sessions, Command(s), NoneLost'
    PROVE  Rollback'
<1> USE DEF Goto, Idle, failSafe, pending, stored, pase, bounds
<1>0. pc \in [Threads -> Labels] /\ job \in [Threads -> Jobs] /\ s \in Threads
      /\ root \in FabricIds \cup {NoRoot}
    BY AccessingType DEF Types, TypeOK, Jobs
<1>1. ASSUME NEW n \in Lengths, ArmFailSafe(s, n)
      PROVE  Rollback'
  <2>1. CASE armed = "armed"
    <3>1. UNCHANGED <<armed, owner, nocInvoked, install, update, fabrics, committed, csr, pc, job, lost>>
        BY <1>1, <2>1 DEF ArmFailSafe
    <3> QED BY <3>1, QuietStep
  <2>2. CASE armed # "armed"
    <3>1. armed = "disarmed"
        BY <2>2 DEF Types, TypeOK
    <3>2. Alone(s)
        BY <1>0, <1>1, <2>2, NoOverlap DEF ArmFailSafe, Lose
    <3>3. Still(s) /\ pc[s] = "idle" /\ pc'[s] = "armed" /\ armed' = "armed"
          /\ UNCHANGED <<csr, nocInvoked, install, update, fabrics, committed>> /\ lost \subseteq lost'
        BY <1>0, <1>1, <2>2 DEF ArmFailSafe, Still, Lose
    <3> QED BY <1>0, <3>1, <3>2, <3>3, WindowBegins
  <2> QED BY <2>1, <2>2
<1>2. CASE DisarmFailSafe(s)
  <2>1. Alone(s)
    BY <1>0, <1>2, NoOverlap DEF DisarmFailSafe, Lose
  <2>2. Still(s) /\ pc[s] = "idle" /\ pc'[s] = "expired" /\ armed = "armed" /\ armed' = "disarmed"
        /\ UNCHANGED <<csr, nocInvoked, install, update, fabrics, committed>> /\ lost \subseteq lost'
    BY <1>0, <1>2 DEF DisarmFailSafe, Still, Lose
  <2> QED BY <1>0, <2>1, <2>2, WindowExpires
<1>3. CASE CommissioningComplete(s)
  <2>1. Alone(s)
    BY <1>0, <1>3, NoOverlap DEF CommissioningComplete, Lose
  <2>2. Still(s) /\ pc[s] = "idle" /\ pc'[s] = "completed" /\ armed = "armed" /\ armed' = "disarmed"
        /\ committed' = With(committed, owner, fabrics[owner])
        /\ UNCHANGED <<csr, nocInvoked, install, update, fabrics>> /\ lost \subseteq lost'
        /\ (Unclean => {install, update.idx} \subseteq {0, owner})
    BY <1>0, <1>3 DEF CommissioningComplete, Still, Lose, NoteGone, Unclean, NoneLost
  <2>3. owner \in Installed
    BY <1>3 DEF CommissioningComplete, Live
  <2> QED BY <1>0, <2>1, <2>2, <2>3, WindowCompletes
<1>4. ASSUME NEW for \in {"add", "update"}, CSRRequest(s, for)
      PROVE  Rollback'
  <2>1. /\ pc[s] = "idle" /\ pc' = [pc EXCEPT ![s] = for] /\ job' = job /\ armed = "armed"
        /\ for = "update" => owner # 0
        /\ UNCHANGED <<armed, owner, nocInvoked, install, update, fabrics, committed, csr, lost>>
    BY <1>4 DEF CSRRequest, FailSafeArmedFor, FailSafeArmed
  <2>2. \A t \in Threads :
            \/ pc'[t] = pc[t] /\ job'[t].idx = job[t].idx /\ job'[t].undo = job[t].undo
            \/ /\ pc[t] \notin Busy /\ pc'[t] \notin Busy
               /\ pc'[t] \in {"add", "update", "root"} => armed = "armed"
               /\ pc'[t] = "update" => owner # 0
    BY <1>0, <2>1 DEF Busy, Ending, Adding, Updating
  <2> QED BY <2>1, <2>2, QuietStep
<1>5. ASSUME NEW id \in FabricIds, AddTrustedRootCertificate(s, id)
      PROVE  Rollback'
  <2>1. /\ pc[s] = "idle" /\ pc' = [pc EXCEPT ![s] = "root"] /\ armed = "armed"
        /\ \A t \in Threads \ {s} : job'[t] = job[t]
        /\ UNCHANGED <<armed, owner, nocInvoked, install, update, fabrics, committed, csr, lost>>
    BY <1>0, <1>5 DEF AddTrustedRootCertificate, FailSafeArmedFor, FailSafeArmed
  <2>2. \A t \in Threads :
            \/ pc'[t] = pc[t] /\ job'[t].idx = job[t].idx /\ job'[t].undo = job[t].undo
            \/ /\ pc[t] \notin Busy /\ pc'[t] \notin Busy
               /\ pc'[t] \in {"add", "update", "root"} => armed = "armed"
               /\ pc'[t] = "update" => owner # 0
    BY <1>0, <2>1 DEF Busy, Ending, Adding, Updating
  <2> QED BY <2>1, <2>2, QuietStep
<1>6. CASE AddNOC(s)
  <2>1. Alone(s)
    BY <1>0, <1>6, NoOverlap DEF AddNOC, Lose
  <2> QED BY <1>0, <1>6, <2>1, AddNOCStep
<1>7. CASE UpdateNOC(s)
  <2>1. Alone(s)
    BY <1>0, <1>7, NoOverlap DEF UpdateNOC, Lose
  <2> QED BY <1>0, <1>7, <2>1, UpdateNOCStep
<1> QED BY <1>1, <1>2, <1>3, <1>4, <1>5, <1>6, <1>7 DEF Command

\* The halves of the commands that write.
LEMMA WriteStep ==
    ASSUME Types, Fresh, Rollback, NEW s \in Sessions, ContinueNOC(s), NoneLost'
    PROVE  Rollback'
<1> USE DEF Goto, Idle, failSafe, pending, stored, pase, bounds
<1>0. pc \in [Threads -> Labels] /\ job \in [Threads -> Jobs] /\ s \in Threads
    BY AccessingType DEF Types, TypeOK, Jobs
<1>1. CASE CSRStore(s)
  <2>1. /\ pc[s] \in {"add", "update"} /\ pc' = [pc EXCEPT ![s] = "idle"] /\ job' = job
        /\ csr'.for = pc[s]
        /\ UNCHANGED <<armed, owner, nocInvoked, install, update, fabrics, committed, lost>>
    BY <1>1 DEF CSRStore
  <2>2. armed = "armed" /\ (csr'.for = "update" => owner # 0)
    BY <1>0, <2>1 DEF Rollback, OneBusy, OwnUpdate
  <2>3. \A t \in Threads :
            \/ pc'[t] = pc[t] /\ job'[t].idx = job[t].idx /\ job'[t].undo = job[t].undo
            \/ /\ pc[t] \notin Busy /\ pc'[t] \notin Busy
               /\ pc'[t] \in {"add", "update", "root"} => armed = "armed"
               /\ pc'[t] = "update" => owner # 0
    BY <1>0, <2>1 DEF Busy, Ending, Adding, Updating
  <2> QED BY <2>1, <2>2, <2>3, QuietStep
<1>2. CASE RootStore(s)
  <2>1. /\ pc[s] = "root" /\ pc' = [pc EXCEPT ![s] = "idle"]
        /\ \A t \in Threads \ {s} : job'[t] = job[t]
        /\ UNCHANGED <<armed, owner, nocInvoked, install, update, fabrics, committed, csr, lost>>
    BY <1>0, <1>2 DEF RootStore
  <2>2. \A t \in Threads :
            \/ pc'[t] = pc[t] /\ job'[t].idx = job[t].idx /\ job'[t].undo = job[t].undo
            \/ /\ pc[t] \notin Busy /\ pc'[t] \notin Busy
               /\ pc'[t] \in {"add", "update", "root"} => armed = "armed"
               /\ pc'[t] = "update" => owner # 0
    BY <1>0, <2>1 DEF Busy, Ending, Adding, Updating
  <2> QED BY <2>1, <2>2, QuietStep
<1> QED BY <1>0, <1>1, <1>2, AddNOCInstallStep, AddNOCFailStep, AddNOCFinishStep,
           AddNOCRearmStep, UpdateNOCStoreStep, UpdateNOCFinishStep
        DEF ContinueNOC

\* The hooks and the commissioning window's arm.
LEMMA HookStep ==
    ASSUME Types, Rollback, NEW t \in Threads, Continue(t), NoneLost'
    PROVE  Rollback'
<1> USE DEF Goto, Idle, failSafe, pending, stored, pase, bounds
<1>0. pc \in [Threads -> Labels] /\ job \in [Threads -> Jobs]
    BY DEF Types, TypeOK, Jobs
<1>1. CASE CloseStep(t)
  <2>1. /\ pc[t] = "close" /\ pc' = [pc EXCEPT ![t] = "idle"]
        /\ \A u \in Threads \ {t} : job'[u] = job[u]
        /\ UNCHANGED <<armed, owner, nocInvoked, install, update, fabrics, committed, csr, lost>>
    BY <1>0, <1>1 DEF CloseStep
  <2>2. \A u \in Threads :
            \/ pc'[u] = pc[u] /\ job'[u].idx = job[u].idx /\ job'[u].undo = job[u].undo
            \/ /\ pc[u] \notin Busy /\ pc'[u] \notin Busy
               /\ pc'[u] \in {"add", "update", "root"} => armed = "armed"
               /\ pc'[u] = "update" => owner # 0
    BY <1>0, <2>1 DEF Busy, Ending, Adding, Updating
  <2> QED BY <2>1, <2>2, QuietStep
<1>2. ASSUME NEW n \in Lengths, ArmFailSafeFor(t, n)
      PROVE  Rollback'
  <2>1. armed # "armed" /\ Lose(Overlap(t))
    BY <1>2 DEF ArmFailSafeFor, Lose, NoneLost
  <2>2. armed = "disarmed"
    BY <2>1 DEF Types, TypeOK
  <2>3. Alone(t)
    BY <2>1, NoOverlap DEF Lose
  <2>4. Still(t) /\ pc[t] = "armFor" /\ pc'[t] = "armed" /\ armed' = "armed"
        /\ UNCHANGED <<csr, nocInvoked, install, update, fabrics, committed>> /\ lost \subseteq lost'
    BY <1>0, <1>2, <2>2 DEF ArmFailSafeFor, Still, Lose, FailSafeArmed
  <2> QED BY <2>2, <2>3, <2>4, WindowBegins
<1> QED BY <1>1, <1>2, ArmedHookStep, CompleteHookStep, ExpiredHookStep, RevertStep,
           FabricRemovedStep
        DEF Continue

\* Time, the host, the window and the PASE sessions.
LEMMA HostStep ==
    ASSUME Types, Rollback, NoneLost',
           \/ Tick \/ OpenOwnWindow \/ CloseWindow \/ Restart
           \/ OpenWindow \/ RevokeWindow \/ \E idx \in Indexes : RemoveFabric(idx)
           \/ \E w \in Watchers : WatchExpiry(w)
           \/ \E p \in PaseSessions : PaseEstablished(p) \/ PaseGone(p)
    PROVE  Rollback'
<1> USE DEF Goto, Idle, failSafe, pending, stored, pase, bounds
<1>0. pc \in [Threads -> Labels] /\ job \in [Threads -> Jobs] /\ Host \in Threads
    BY DEF Types, TypeOK, Jobs, Threads
<1>1. CASE Tick \/ OpenOwnWindow \/ CloseWindow
  <2>1. UNCHANGED <<armed, owner, nocInvoked, install, update, fabrics, committed, csr, pc, job, lost>>
    BY <1>1 DEF Tick, OpenOwnWindow, CloseWindow
  <2> QED BY <2>1, QuietStep
<1>2. CASE Restart
  <2>1. armed # "armed" /\ \A t \in Threads : pc[t] = "idle"
    BY <1>2 DEF Restart, Lose, NoneLost
  <2>2. armed = "disarmed"
    BY <2>1 DEF Types, TypeOK
  <2> QED BY <1>2, <2>1, <2>2, RestartStep
<1>3. CASE OpenWindow
  <2>1. /\ pc[Host] = "idle" /\ pc' = [pc EXCEPT ![Host] = "armFor"] /\ job' = job
        /\ UNCHANGED <<armed, owner, nocInvoked, install, update, fabrics, committed, csr, lost>>
    BY <1>3 DEF OpenWindow
  <2>2. \A t \in Threads :
            \/ pc'[t] = pc[t] /\ job'[t].idx = job[t].idx /\ job'[t].undo = job[t].undo
            \/ /\ pc[t] \notin Busy /\ pc'[t] \notin Busy
               /\ pc'[t] \in {"add", "update", "root"} => armed = "armed"
               /\ pc'[t] = "update" => owner # 0
    BY <1>0, <2>1 DEF Busy, Ending, Adding, Updating
  <2> QED BY <2>1, <2>2, QuietStep
<1>4. CASE RevokeWindow
  <2>1. CASE armed = "armed"
    <3>1. Alone(Host)
        BY <1>0, <1>4, <2>1, NoOverlap DEF RevokeWindow, Lose
    <3>2. Still(Host) /\ pc[Host] = "idle" /\ pc'[Host] = "expired" /\ armed' = "disarmed"
          /\ UNCHANGED <<csr, nocInvoked, install, update, fabrics, committed>> /\ lost \subseteq lost'
        BY <1>0, <1>4, <2>1 DEF RevokeWindow, Still, Lose
    <3> QED BY <1>0, <2>1, <3>1, <3>2, WindowExpires
  <2>2. CASE armed # "armed"
    <3>1. /\ pc[Host] = "idle" /\ pc' = [pc EXCEPT ![Host] = "close"] /\ job' = job
          /\ UNCHANGED <<armed, owner, nocInvoked, install, update, fabrics, committed, csr, lost>>
        BY <1>4, <2>2 DEF RevokeWindow
    <3>2. \A t \in Threads :
            \/ pc'[t] = pc[t] /\ job'[t].idx = job[t].idx /\ job'[t].undo = job[t].undo
            \/ /\ pc[t] \notin Busy /\ pc'[t] \notin Busy
               /\ pc'[t] \in {"add", "update", "root"} => armed = "armed"
               /\ pc'[t] = "update" => owner # 0
        BY <1>0, <3>1 DEF Busy, Ending, Adding, Updating
    <3> QED BY <3>1, <3>2, QuietStep
  <2> QED BY <2>1, <2>2
<1>5. ASSUME NEW idx \in Indexes, RemoveFabric(idx)
      PROVE  Rollback'
    BY <1>5, RemoveFabricStep
<1>6. ASSUME NEW w \in Watchers, WatchExpiry(w)
      PROVE  Rollback'
  <2>0. w \in Threads
    BY DEF Threads
  <2>1. Alone(w)
    BY <2>0, <1>6, NoOverlap DEF WatchExpiry, Lose
  <2>2. Still(w) /\ pc[w] = "idle" /\ pc'[w] = "expired" /\ armed = "armed" /\ armed' = "disarmed"
        /\ UNCHANGED <<csr, nocInvoked, install, update, fabrics, committed>> /\ lost \subseteq lost'
    BY <1>0, <2>0, <1>6 DEF WatchExpiry, Still, Lose
  <2> QED BY <2>0, <2>1, <2>2, WindowExpires
<1>7. ASSUME NEW p \in PaseSessions, PaseEstablished(p) \/ PaseGone(p)
      PROVE  Rollback'
  <2>1. p \in Threads /\ (PaseEstablished(p) => pc[p] = "idle")
    BY <1>7 DEF Types, PaseEstablished, Threads, Sessions
  <2>2. /\ pc' = pc \/ (pc[p] = "idle" /\ pc' = [pc EXCEPT ![p] = "armFor"])
        /\ job' = job
        /\ UNCHANGED <<armed, owner, nocInvoked, install, update, fabrics, committed, csr, lost>>
    BY <1>7, <2>1 DEF PaseEstablished, PaseGone
  <2>3. \A t \in Threads :
            \/ pc'[t] = pc[t] /\ job'[t].idx = job[t].idx /\ job'[t].undo = job[t].undo
            \/ /\ pc[t] \notin Busy /\ pc'[t] \notin Busy
               /\ pc'[t] \in {"add", "update", "root"} => armed = "armed"
               /\ pc'[t] = "update" => owner # 0
    BY <1>0, <2>1, <2>2 DEF Busy, Ending, Adding, Updating
  <2> QED BY <2>2, <2>3, QuietStep
<1> QED BY <1>1, <1>2, <1>3, <1>4, <1>5, <1>6, <1>7

\* What may have been lost stays noted.
LEMMA LostStays ==
    ASSUME Next, NoneLost'
    PROVE  NoneLost
<1> USE DEF NoneLost, Lose, NotesServed
<1>1. CASE Tick \/ OpenOwnWindow \/ CloseWindow \/ Restart \/ OpenWindow \/ RevokeWindow
    BY <1>1 DEF Tick, OpenOwnWindow, CloseWindow, Restart, OpenWindow, RevokeWindow
<1>2. CASE \E idx \in Indexes : RemoveFabric(idx)
    BY <1>2 DEF RemoveFabric
<1>3. CASE \E w \in Watchers : WatchExpiry(w)
    BY <1>3 DEF WatchExpiry
<1>4. CASE \E p \in PaseSessions : PaseEstablished(p) \/ PaseGone(p)
    BY <1>4 DEF PaseEstablished, PaseGone
<1>5. CASE \E s \in Sessions : Command(s)
    BY <1>5 DEF Command, ArmFailSafe, DisarmFailSafe, CommissioningComplete, CSRRequest,
                AddTrustedRootCertificate, AddNOC, UpdateNOC
<1>6. CASE \E s \in Sessions : ContinueNOC(s)
    BY <1>6 DEF ContinueNOC, CSRStore, RootStore, AddNOCInstall, AddNOCFinish, AddNOCFail,
                AddNOCRearm, UpdateNOCStore, UpdateNOCFail, UpdateNOCFinish
<1>7. CASE \E t \in Threads : Continue(t)
    BY <1>7 DEF Continue, ArmedHook, CompleteHook, CloseStep, ExpiredHook, RevertStore,
                FabricRemoved, ArmFailSafeFor
<1> QED BY <1>1, <1>2, <1>3, <1>4, <1>5, <1>6, <1>7 DEF Next

LEMMA RollbackInit == Init => Fresh /\ Rollback
<1> SUFFICES ASSUME Init PROVE Fresh /\ Rollback
    OBVIOUS
<1>1. /\ \A t \in Threads : pc[t] = "idle" /\ job[t].idx = 0
      /\ armed = "disarmed" /\ install = 0 /\ update.idx = 0 /\ nocInvoked = "no" /\ csr = NoCSR
      /\ committed = fabrics
    BY DEF Init, NoJob, NoUpdate
<1>2. \A i \in DOMAIN committed : i # 0
    BY TypesInit DEF Types, Indexes
<1> USE DEF Busy, Ending, Adding, Updating
<1>3. Fresh /\ OneBusy /\ Clean
    BY <1>1 DEF Fresh, OneBusy, Clean
<1>4. Accounted
    BY <1>1 DEF Accounted, Uncommitted, Installed
<1>5. Spared
    BY <1>1, <1>2 DEF Spared, Installed
<1>6. OwnUpdate
    BY <1>1 DEF OwnUpdate
<1>7. Kept
    BY <1>1, <1>2 DEF Kept
<1> QED BY <1>3, <1>4, <1>5, <1>6, <1>7 DEF Rollback

\* The inductive invariant holds in every state.
LEMMA IInvHolds == Spec => []IInv
<1>1. Init => IInv
    BY TypesInit, RollbackInit DEF IInv
<1>2. IInv /\ [Next]_vars => IInv'
  <2> SUFFICES ASSUME IInv, [Next]_vars PROVE IInv'
    OBVIOUS
  <2>1. Types /\ Fresh /\ Types' /\ Fresh'
    BY TypesStep, FreshStep DEF IInv
  <2>2. ASSUME NoneLost' PROVE Rollback'
    <3>1. CASE UNCHANGED vars
        <4>1. UNCHANGED <<armed, owner, nocInvoked, install, update, fabrics, committed, csr, pc, job, lost>>
              /\ NoneLost
            BY <2>2, <3>1 DEF vars, NoneLost
        <4>2. Rollback
            BY <4>1 DEF IInv
        <4> QED BY <4>1, <4>2, QuietStep
    <3>2. CASE Next
        <4>1. Rollback
            BY <2>2, <3>2, LostStays DEF IInv
        <4> QED BY <2>1, <2>2, <3>2, <4>1, CommandStep, WriteStep, HookStep, HostStep DEF Next
    <3> QED BY <3>1, <3>2
  <2> QED BY <2>1, <2>2 DEF IInv
<1> QED BY <1>1, <1>2, PTL DEF Spec

\* OnFailSafeExpiry rolls back what an abandoned window wrote: with the fail-safe over
\* and nothing under way the store holds what completed commissionings put there, for
\* any number of sessions and fabrics, unless one of the ways that lost names was taken.
THEOREM AbandonedRolledBackHolds == Spec => []AbandonedRolledBack
<1>1. IInv => AbandonedRolledBack
  <2> SUFFICES ASSUME IInv, NoneLost, Quiescent, armed = "disarmed"
               PROVE  fabrics = committed
    BY DEF AbandonedRolledBack, RolledBack
  <2>1. \A t \in Threads : pc[t] = "idle"
    BY DEF Quiescent, Idle
  <2>2. install = 0 /\ update.idx = 0 /\ nocInvoked = "no"
    BY <2>1 DEF IInv, Rollback, Clean, At
  <2>3. Uncommitted = {}
    BY <2>1, <2>2, FabricsNot0 DEF IInv, Rollback, Accounted, Uncommitted
  <2>4. DOMAIN fabrics = DOMAIN committed
    BY <2>3 DEF IInv, Rollback, Spared, Uncommitted, Installed
  <2>5. \A i \in DOMAIN committed : i # 0
    BY DEF IInv, Types, Indexes
  <2>6. \A i \in DOMAIN committed :
            fabrics[i].id = committed[i].id /\ fabrics[i].noc = committed[i].noc
    BY <2>1, <2>2, <2>5 DEF IInv, Rollback, Kept
  <2>7. fabrics \in [DOMAIN fabrics -> Fabric] /\ committed \in [DOMAIN committed -> Fabric]
    BY DEF IInv, Types, TypeOK
  <2>8. \A i \in DOMAIN committed : fabrics[i] = committed[i]
    BY <2>4, <2>6, <2>7 DEF Fabric
  <2> QED BY <2>4, <2>7, <2>8
<1> QED BY <1>1, IInvHolds, PTL

\* revertAddNOC never removes a fabric whose CommissioningComplete was answered.
THEOREM CommittedKeptHolds == Spec => []CommittedKept
<1>1. IInv => CommittedKept
    BY DEF IInv, NoneLost, Rollback, Spared, CommittedKept
<1> QED BY <1>1, IInvHolds, PTL

\* The guards of CSRRequest, AddTrustedRootCertificate and AddNOC let at most one
\* uncompleted fabric into the store, whichever sessions send the commands.
THEOREM OnePendingHolds == Spec => []OnePending
<1>1. IInv => OnePending
  <2> SUFFICES ASSUME IInv, NoneLost
               PROVE  Cardinality(Installed \ DOMAIN committed) <= 1
    BY DEF OnePending
  <2>1. \A i, j \in Uncommitted : i = j
    BY FabricsNot0 DEF IInv, Rollback, Accounted, Uncommitted, OneBusy, Busy, Ending, Clean, At
  <2>2. PICK x : Uncommitted \subseteq {x}
    BY <2>1
  <2>3. IsFiniteSet({x}) /\ Cardinality({x}) = 1
    BY FS_Singleton
  <2>4. IsFiniteSet(Uncommitted) /\ Cardinality(Uncommitted) <= 1
    BY <2>2, <2>3, FS_Subset
  <2> QED BY <2>4 DEF Uncommitted
<1> QED BY <1>1, IInvHolds, PTL
=============================================================================
