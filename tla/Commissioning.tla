---------------------------- MODULE Commissioning ----------------------------
(***************************************************************************)
(* The commissioning transaction of a node: GeneralCommissioning's         *)
(* fail-safe, the pending state of OperationalCredentials it covers, the   *)
(* fabric table in the store, the commissioning window and the PASE        *)
(* sessions it admits.                                                     *)
(*                                                                         *)
(* The two clusters have a mutex each and call one another through hooks   *)
(* that run after the mutex is released, and the store has transactions of *)
(* its own.  Every critical section is one action here; pc says where a    *)
(* thread is between two of them.  A thread is a session (its commands run *)
(* one after another), a fail-safe watcher goroutine, or Host, which stands *)
(* for the embedding program and for the administrators: RemoveFabric and  *)
(* the window's commands need nothing of the session they come by.         *)
(* A refused command changes nothing, so its refusals are the guards.      *)
(***************************************************************************)
EXTENDS Integers, FiniteSets

CONSTANTS
    MaxIndex,        \* fabric indexes are 1..MaxIndex
    SupportedFabrics,
    FabricIds,       \* (fabric id, root) pairs a commissioner may bring
    NoRoot,          \* no such pair
    PaseSessions,    \* PASE sessions, one after another or at once
    Watchers,        \* watchFailSafeExpiry goroutines past their timer
    Host,            \* the thread of the embedding program and of administrators
    Lengths,         \* arm lengths, in ticks
    CumMax,          \* cumulativeFailSafeMaxSec, in ticks
    MaxNoc,          \* bound: NOCs a fabric has in its life
    MaxOpens,        \* bound: windows opened in a behaviour
    Restarts,        \* bound: process restarts
    Initial          \* the index commissioned at the start, if any: a set

ASSUME ConstantsAssumption ==
    /\ MaxIndex \in Nat \ {0} /\ SupportedFabrics \in Nat
    /\ Lengths \subseteq Nat \ {0} /\ CumMax \in Nat \ {0}
    /\ MaxNoc \in Nat /\ MaxOpens \in Nat /\ Restarts \in Nat
    /\ NoRoot \notin FabricIds /\ Initial \subseteq {1}
    /\ PaseSessions \cap (Watchers \cup {Host}) = {}

Indexes == 1..MaxIndex
Sessions == PaseSessions \cup Indexes   \* an index is its fabric's CASE session
Threads == Sessions \cup Watchers \cup {Host}

VARIABLES
    \* GeneralCommissioning
    armed,         \* failSafeArmed: "armed" or "disarmed"
    left,          \* ticks to failSafeExpiresAt; 0: the deadline has passed, or no
                   \* fail-safe is armed and nobody looks at it
    owner,         \* failSafeFabricIndex; 0 is PASE
    cum,           \* ticks to the cumulative deadline; 0: passed; CumOff: not started
    \* OperationalCredentials
    csr,           \* the pending CSR: the session it binds to, and for what
    root,          \* pendingTrustRoot
    nocInvoked,    \* nocWasInvoked: "no" or "yes"
    install,       \* pendingInstallFabricIndex
    update,        \* pendingUpdateRevert
    current,       \* currentFabric
    \* the store
    fabrics,       \* index -> [id, noc]; noc = 0: no identity yet
    nextIndex,     \* the persisted index counter
    \* the commissioning window and the sessions
    window,        \* "closed", "own" or "admin"
    paseState,     \* "new", "open" or "closed"
    paseFabric,    \* the fabric a PASE session was adopted onto, or 0
    pc, job,       \* where each thread is, and what it carries there
    \* bounds and history
    opens, restarts,
    committed,     \* the fabrics as the last completed commissioning left them
    lost           \* why a rollback may have been lost; see AbandonedRolledBack

failSafe == <<armed, left, owner, cum>>
pending == <<csr, root, nocInvoked, install, update>>
stored == <<fabrics, nextIndex>>
pase == <<paseState, paseFabric>>
bounds == <<opens, restarts>>
vars == <<armed, left, owner, cum, csr, root, nocInvoked, install, update, current,
          fabrics, nextIndex, window, paseState, paseFabric, pc, job, opens,
          restarts, committed, lost>>

CumOff == CumMax + 1
NoCSR == [by |-> Host, for |-> "none"]
NoUpdate == [idx |-> 0, noc |-> 0]
NoJob == [idx |-> 0, id |-> NoRoot, undo |-> NoUpdate, then |-> "done"]

Idle(t) == pc[t] = "idle"
Goto(t, l) == pc' = [pc EXCEPT ![t] = l]

Installed == DOMAIN fabrics
Without(f, i) == [j \in DOMAIN f \ {i} |-> f[j]]
With(f, i, v) == [j \in DOMAIN f \cup {i} |-> IF j = i THEN v ELSE f[j]]

\* The fabric a session's commands are made for.
Accessing(s) == IF s \in PaseSessions THEN paseFabric[s] ELSE s
\* A CASE session needs the fabric's identity, a PASE session its handshake.
Live(s) == IF s \in PaseSessions
           THEN paseState[s] = "open"
           ELSE s \in Installed /\ fabrics[s].noc # 0

\* FailSafeFabric and FailSafeArmed look at the clock, failSafeArmed does not.
FailSafeArmed == armed = "armed" /\ left > 0
FailSafeArmedFor(f) == FailSafeArmed /\ owner = f

Lose(why) == lost' = lost \cup why

\* A window begins or ends, or a NOC command begins, while another thread is
\* under way.
Overlap(t) == IF \E u \in Threads \ {t} : ~Idle(u) THEN {"overlap"} ELSE {}

\* A NOC command that a failing store refused has left a note to the rollback,
\* and the note goes without one.
NoteGone(gone) == IF "unclean" \in lost /\ gone THEN {"store"} ELSE {}

\* The end of the window takes the notes along.
NotesServed == lost' = lost \ {"unclean"}

\* clearPendingState
ClearPendingKeepsInstall ==   \* mutant: the index to roll back outlives its window
    /\ csr' = NoCSR /\ root' = NoRoot /\ nocInvoked' = "no"
    /\ UNCHANGED install /\ update' = NoUpdate
ClearPending ==
    /\ csr' = NoCSR /\ root' = NoRoot /\ nocInvoked' = "no"
    /\ install' = 0 /\ update' = NoUpdate

-----------------------------------------------------------------------------
Init ==
    /\ armed = "disarmed" /\ left = 0 /\ owner = 0 /\ cum = CumOff
    /\ csr = NoCSR /\ root = NoRoot /\ nocInvoked = "no"
    /\ install = 0 /\ update = NoUpdate /\ current = 0
    /\ \E id \in FabricIds : fabrics = [i \in Initial |-> [id |-> id, noc |-> 1]]
    /\ nextIndex = IF Initial \in {{}, Indexes} THEN 1 ELSE 2
    /\ window = "closed"
    /\ paseState = [p \in PaseSessions |-> "new"]
    /\ paseFabric = [p \in PaseSessions |-> 0]
    /\ pc = [t \in Threads |-> "idle"]
    /\ job = [t \in Threads |-> NoJob]
    /\ opens = 0 /\ restarts = 0
    /\ committed = fabrics
    /\ lost = {}

-----------------------------------------------------------------------------
(* GeneralCommissioning *)

MinOf(a, b) == IF a < b THEN a ELSE b

\* ArmFailSafe with a length.  Only an arm from the disarmed state has a hook.
ArmFailSafeRestartsCap(s, n) ==   \* mutant: a re-arm restarts the cumulative limit
    /\ Live(s) /\ Idle(s)
    /\ ~(armed = "disarmed" /\ Accessing(s) # 0 /\ window # "closed")
    /\ armed = "armed" => owner = Accessing(s)
    /\ cum # 0
    /\ cum' = CumMax
    /\ armed' = "armed" /\ left' = MinOf(n, cum') /\ owner' = Accessing(s)
    /\ IF armed = "armed"
       THEN UNCHANGED <<pc, lost>>
       ELSE Goto(s, "armed") /\ Lose(Overlap(s))
    /\ UNCHANGED <<pending, current, stored, window, pase, job, bounds, committed>>
ArmFailSafe(s, n) ==
    /\ Live(s) /\ Idle(s)
    /\ ~(armed = "disarmed" /\ Accessing(s) # 0 /\ window # "closed")
    /\ armed = "armed" => owner = Accessing(s)
    /\ cum # 0
    /\ cum' = IF cum = CumOff THEN CumMax ELSE cum
    /\ armed' = "armed" /\ left' = MinOf(n, cum') /\ owner' = Accessing(s)
    /\ IF armed = "armed"
       THEN UNCHANGED <<pc, lost>>
       ELSE Goto(s, "armed") /\ Lose(Overlap(s))
    /\ UNCHANGED <<pending, current, stored, window, pase, job, bounds, committed>>

\* ArmFailSafe with length 0: the window expires at once, with its hook.
DisarmFailSafe(s) ==
    /\ Live(s) /\ Idle(s)
    /\ armed = "armed" /\ owner = Accessing(s)
    /\ armed' = "disarmed" /\ left' = 0 /\ owner' = 0 /\ cum' = CumOff
    /\ Goto(s, "expired") /\ Lose(Overlap(s))
    /\ UNCHANGED <<pending, current, stored, window, pase, job, bounds, committed>>

\* watchFailSafeExpiry: the watcher of the deadline in force has woken up.  Each
\* deadline set has a watcher; one that finds a later deadline in force ends.
WatchExpiry(w) ==
    /\ Idle(w)
    /\ armed = "armed" /\ left = 0
    /\ armed' = "disarmed" /\ cum' = CumOff
    /\ Goto(w, "expired") /\ Lose(Overlap(w))
    /\ UNCHANGED <<left, owner, pending, current, stored, window, pase, job, bounds, committed>>

\* CommissioningComplete over CASE, by the fabric that has the window.
CommissioningComplete(s) ==
    /\ s \notin PaseSessions /\ Live(s) /\ Idle(s)
    /\ armed = "armed" /\ owner = s
    /\ armed' = "disarmed" /\ left' = 0 /\ owner' = 0 /\ cum' = CumOff
    /\ committed' = With(committed, s, fabrics[s])
    /\ Goto(s, "completed")
    /\ Lose(Overlap(s) \cup NoteGone(~({install, update.idx} \subseteq {0, s})))
    /\ UNCHANGED <<pending, current, stored, window, pase, job, bounds>>

\* ArmFailSafeFor(n, 0), of the PASE auto-arm and of OpenWindow.  It renews a
\* window whose deadline has passed; fresh then clears what that window left.
ArmFailSafeFor(t, n) ==
    /\ pc[t] = "armFor"
    /\ armed' = "armed" /\ left' = n /\ owner' = 0
    /\ IF FailSafeArmed
       THEN Goto(t, "idle")
       ELSE Goto(t, "armed")
    /\ IF armed = "armed" THEN Lose({"overlap"}) ELSE Lose(Overlap(t))
    /\ UNCHANGED <<cum, pending, current, stored, window, pase, job, bounds, committed>>

\* Time passes.
Tick ==
    /\ left > 0 \/ cum \in 1..CumMax
    /\ left' = IF left > 0 THEN left - 1 ELSE 0
    /\ cum' = IF cum \in 1..CumMax THEN cum - 1 ELSE cum
    /\ UNCHANGED <<armed, owner, pending, current, stored, window, pase, pc, job,
                   bounds, committed, lost>>

-----------------------------------------------------------------------------
(* The hooks the node wires between the two clusters *)

\* onFailSafeArmed: OperationalCredentials.ClearPendingState.
ArmedHook(t) ==
    /\ pc[t] = "armed"
    /\ ClearPending
    /\ Goto(t, "idle")
    /\ UNCHANGED <<failSafe, current, stored, window, pase, job, bounds, committed, lost>>

\* onCommissioningComplete: ClearPendingState ...
CompleteHook(t) ==
    /\ pc[t] = "completed"
    /\ ClearPending /\ NotesServed
    /\ Goto(t, "close")
    /\ UNCHANGED <<failSafe, current, stored, window, pase, job, bounds, committed>>

\* ... and the window ends (EndCommissioning; RevokeWindow comes here too).
CloseStep(t) ==
    /\ pc[t] = "close"
    /\ window' = "closed"
    /\ Goto(t, "idle") /\ job' = [job EXCEPT ![t] = NoJob]
    /\ UNCHANGED <<failSafe, pending, current, stored, pase, bounds, committed, lost>>

\* onFailSafeExpired, OnFailSafeExpiry's locked half: what to revert is taken.
ExpiredHookKeepsInstall(t) ==   \* mutant: the added fabric is not taken along
    /\ pc[t] = "expired"
    /\ job' = [job EXCEPT ![t].undo = update]
    /\ ClearPending /\ NotesServed
    /\ Goto(t, "revert")
    /\ UNCHANGED <<failSafe, current, stored, window, pase, bounds, committed>>
ExpiredHook(t) ==
    /\ pc[t] = "expired"
    /\ job' = [job EXCEPT ![t].idx = install, ![t].undo = update]
    /\ ClearPending /\ NotesServed
    /\ Goto(t, "revert")
    /\ UNCHANGED <<failSafe, current, stored, window, pase, bounds, committed>>

\* Its store half: revertUpdateNOC, then revertAddNOC.  Both go by what was taken;
\* an error of the store ends the first and is ignored by the second, which may
\* leave the fabric as it is or some of it (its node id, ACL or group keys).
Reverted(f, undo, idx) ==
    LET g == IF undo.idx \in DOMAIN f THEN [f EXCEPT ![undo.idx].noc = undo.noc] ELSE f
    IN  Without(g, idx)

RevertStore(t) ==
    /\ pc[t] = "revert"
    /\ \/ /\ fabrics' = Reverted(fabrics, job[t].undo, job[t].idx)
          /\ UNCHANGED lost
       \/ /\ {job[t].undo.idx, job[t].idx} # {0}
          /\ \E undo \in {job[t].undo, NoUpdate}, idx \in {job[t].idx, 0} :
                 fabrics' = Reverted(fabrics, undo, idx)
          /\ Lose({"store"})
    /\ Goto(t, "removed")
    /\ UNCHANGED <<failSafe, pending, current, nextIndex, window, pase, job, bounds,
                   committed>>

\* The pending state that goes is that of another fabric.
LostWith(idx) == ~({install, update.idx} \subseteq {0, idx}) \/ idx \in Installed

\* notifyFabricRemoved and onFabricRemoved for job[t].idx: pending state goes when
\* the last fabric installed is the one removed, the fabric's sessions close.  At
\* the end of an expiry every PASE session closes.
FabricRemoved(t) ==
    /\ pc[t] \in {"removed", "gone"}
    /\ LET idx == job[t].idx
           end == pc[t] = "removed"
       IN  /\ IF idx # 0 /\ current = idx
              THEN current' = 0 /\ ClearPending
              ELSE UNCHANGED <<current, pending>>
           /\ Lose(IF idx # 0 /\ current = idx /\ LostWith(idx) THEN {"removal"} ELSE {})
           /\ paseState' = [p \in PaseSessions |->
                  IF paseState[p] = "open" /\ (end \/ (idx # 0 /\ paseFabric[p] = idx))
                  THEN "closed" ELSE paseState[p]]
    /\ IF job[t].then = "close"
       THEN Goto(t, "close") /\ UNCHANGED job
       ELSE Goto(t, "idle") /\ job' = [job EXCEPT ![t] = NoJob]
    /\ UNCHANGED <<failSafe, stored, window, paseFabric, bounds, committed>>

-----------------------------------------------------------------------------
(* OperationalCredentials *)

\* CSRRequest and AddTrustedRootCertificate: the checks, the work on the key or
\* the certificate, and only then the store into the pending state.
CSRRequest(s, for) ==
    /\ Live(s) /\ Idle(s)
    /\ for = "update" => Accessing(s) # 0
    /\ FailSafeArmedFor(Accessing(s))
    /\ nocInvoked = "no"
    /\ Goto(s, for)
    /\ UNCHANGED <<failSafe, pending, current, stored, window, pase, job, bounds,
                   committed, lost>>

CSRStore(s) ==
    /\ pc[s] \in {"add", "update"}
    /\ csr' = [by |-> s, for |-> pc[s]]
    /\ Goto(s, "idle")
    /\ UNCHANGED <<failSafe, root, nocInvoked, install, update, current, stored, window,
                   pase, job, bounds, committed, lost>>

AddTrustedRootCertificate(s, id) ==
    /\ Live(s) /\ Idle(s)
    /\ FailSafeArmedFor(Accessing(s))
    /\ root = NoRoot /\ nocInvoked = "no"
    /\ Goto(s, "root") /\ job' = [job EXCEPT ![s].id = id]
    /\ UNCHANGED <<failSafe, pending, current, stored, window, pase, bounds, committed, lost>>

RootStore(s) ==
    /\ pc[s] = "root"
    /\ root' = job[s].id
    /\ Goto(s, "idle") /\ job' = [job EXCEPT ![s] = NoJob]
    /\ UNCHANGED <<failSafe, csr, nocInvoked, install, update, current, stored, window,
                   pase, bounds, committed, lost>>

\* AddNOC: the checks, on a snapshot of the pending state.
AddNOC(s) ==
    /\ Live(s) /\ Idle(s)
    /\ FailSafeArmedFor(Accessing(s))
    /\ nocInvoked = "no"
    /\ csr.by = s /\ csr.for = "add"
    /\ root # NoRoot
    /\ Cardinality(Installed) < SupportedFabrics
    /\ \A i \in Installed : fabrics[i].id # root
    /\ job' = [job EXCEPT ![s].id = root]
    /\ Goto(s, "addNOC") /\ Lose(Overlap(s))
    /\ UNCHANGED <<failSafe, pending, current, stored, window, pase, bounds, committed>>

\* The store's index: the first free one from where the counter stands, round and
\* round; the counter then moves to the next free one, if there is one.
FirstFreeUnwrapped(from, taken) ==   \* mutant: the last index is not followed by 1
    IF from > MaxIndex THEN from
    ELSE CHOOSE i \in Indexes \ taken :
             \A j \in Indexes \ taken : (i - from) % MaxIndex <= (j - from) % MaxIndex
FirstFree(from, taken) ==
    CHOOSE i \in Indexes \ taken :
        \A j \in Indexes \ taken : (i - from) % MaxIndex <= (j - from) % MaxIndex

\* AddFabric, and the index noted for the rollback.
AddNOCInstall(s) ==
    /\ pc[s] = "addNOC"
    /\ Installed # Indexes
    /\ LET idx == FirstFree(nextIndex, Installed)
           taken == Installed \cup {idx}
       IN  /\ fabrics' = With(fabrics, idx, [id |-> job[s].id, noc |-> 0])
           /\ nextIndex' = IF taken = Indexes THEN nextIndex ELSE FirstFree(nextIndex + 1, taken)
           /\ install' = idx
           /\ job' = [job EXCEPT ![s].idx = idx]
    /\ Lose(NoteGone(install \in Installed))
    /\ Goto(s, "identity")
    /\ UNCHANGED <<failSafe, csr, root, nocInvoked, update, current, window, pase, bounds,
                   committed>>

\* The store refuses AddFabric or what follows.  revertAddNOC then undoes it, or
\* fails as well: its errors are ignored, the row stays, with the identity or
\* without.  pendingInstallFabricIndex keeps the index.
AddNOCFail(s) ==
    /\ pc[s] \in {"addNOC", "identity"}
    /\ \/ /\ fabrics' = Without(fabrics, job[s].idx)
          /\ UNCHANGED lost
       \/ /\ job[s].idx \in Installed
          /\ \E noc \in {0, 1} : fabrics' = [fabrics EXCEPT ![job[s].idx].noc = noc]
          /\ Lose({"unclean"})
    /\ Goto(s, "idle") /\ job' = [job EXCEPT ![s] = NoJob]
    /\ UNCHANGED <<failSafe, pending, current, nextIndex, window, pase, bounds, committed>>

\* The identity and the ACL are written, which needs the fabric's row; the
\* pending state is consumed.
AddNOCFinishUnmarked(s) ==   \* mutant: the window is not marked as used
    /\ pc[s] = "identity"
    /\ job[s].idx \in Installed
    /\ fabrics' = [fabrics EXCEPT ![job[s].idx].noc = 1]
    /\ csr' = NoCSR /\ root' = NoRoot
    /\ current' = job[s].idx
    /\ Goto(s, "rearm")
    /\ UNCHANGED <<failSafe, nocInvoked, install, update, nextIndex, window, pase, job, bounds,
                   committed, lost>>
AddNOCFinish(s) ==
    /\ pc[s] = "identity"
    /\ job[s].idx \in Installed
    /\ fabrics' = [fabrics EXCEPT ![job[s].idx].noc = 1]
    /\ nocInvoked' = "yes" /\ csr' = NoCSR /\ root' = NoRoot
    /\ current' = job[s].idx
    /\ Goto(s, "rearm")
    /\ UNCHANGED <<failSafe, install, update, nextIndex, window, pase, job, bounds,
                   committed, lost>>

\* SetCurrentFabric: the window passes to the new fabric, whatever has become of
\* it; a PASE session is adopted onto the fabric.
AddNOCRearm(s) ==
    /\ pc[s] = "rearm"
    /\ owner' = job[s].idx
    /\ paseFabric' = [p \in PaseSessions |->
                         IF p = s /\ paseState[p] = "open" THEN job[s].idx ELSE paseFabric[p]]
    /\ Goto(s, "idle") /\ job' = [job EXCEPT ![s] = NoJob]
    /\ UNCHANGED <<armed, left, cum, pending, current, stored, window, paseState, bounds,
                   committed, lost>>

\* UpdateNOC: the checks.
UpdateNOC(s) ==
    /\ Live(s) /\ Idle(s)
    /\ FailSafeArmedFor(Accessing(s))
    /\ nocInvoked = "no"
    /\ csr.for = "update" /\ root = NoRoot
    /\ LET idx == IF Accessing(s) = 0 THEN current ELSE Accessing(s)
       IN  /\ idx \in Installed /\ fabrics[idx].noc \in 1..(MaxNoc - 1)
           /\ job' = [job EXCEPT ![s].idx = idx]
    /\ Goto(s, "updateNOC") /\ Lose(Overlap(s))
    /\ UNCHANGED <<failSafe, pending, current, stored, window, pase, bounds, committed>>

\* The identity a fabric has is noted for the rollback, once in a window.
NoteUpdate(idx) ==
    update' = IF update.idx = 0 THEN [idx |-> idx, noc |-> fabrics[idx].noc] ELSE update

\* The new identity is written.
Renewed(idx) == [fabrics EXCEPT ![idx].noc = @ + 1]

UpdateNOCStore(s) ==
    /\ pc[s] = "updateNOC"
    /\ job[s].idx \in Installed
    /\ NoteUpdate(job[s].idx)
    /\ fabrics' = Renewed(job[s].idx)
    /\ Goto(s, "updated")
    /\ UNCHANGED <<failSafe, csr, root, nocInvoked, install, current, nextIndex, window,
                   pase, job, bounds, committed, lost>>

\* UpdateNOC is refused: the fabric or its identity is not found, the identity is
\* not written, or it is and the node id that goes with it is not.
UpdateNOCFail(s) ==
    /\ pc[s] = "updateNOC"
    /\ \/ UNCHANGED <<update, fabrics, lost>>
       \/ /\ job[s].idx \in Installed
          /\ NoteUpdate(job[s].idx)
          /\ fabrics' \in {fabrics, Renewed(job[s].idx)}
          /\ Lose({"unclean"})
    /\ Goto(s, "idle") /\ job' = [job EXCEPT ![s] = NoJob]
    /\ UNCHANGED <<failSafe, csr, root, nocInvoked, install, current, nextIndex, window,
                   pase, bounds, committed>>

UpdateNOCFinish(s) ==
    /\ pc[s] = "updated"
    /\ nocInvoked' = "yes" /\ csr' = NoCSR
    /\ Goto(s, "idle") /\ job' = [job EXCEPT ![s] = NoJob]
    /\ UNCHANGED <<failSafe, root, install, update, current, stored, window, pase, bounds,
                   committed, lost>>

\* RemoveFabric, by command or by the host: the row goes, FabricRemoved follows.
RemoveFabric(idx) ==
    /\ Idle(Host)
    /\ idx \in Installed
    /\ fabrics' = Without(fabrics, idx)
    /\ committed' = Without(committed, idx)
    /\ Goto(Host, "gone") /\ job' = [job EXCEPT ![Host].idx = idx]
    /\ UNCHANGED <<failSafe, pending, current, nextIndex, window, pase, bounds, lost>>

-----------------------------------------------------------------------------
(* The commissioning window and the PASE sessions *)

\* OpenWindow, of an administrator; it arms the fail-safe next.
OpenWindow ==
    /\ Idle(Host)
    /\ opens < MaxOpens
    /\ ~FailSafeArmed /\ window # "admin"
    /\ window' = "admin"
    /\ opens' = opens + 1
    /\ Goto(Host, "armFor")
    /\ UNCHANGED <<failSafe, pending, current, stored, pase, job, restarts, committed, lost>>

\* OpenOwnWindow, of the node.
OpenOwnWindow ==
    /\ Idle(Host)
    /\ window = "closed"
    /\ window' = "own"
    /\ UNCHANGED <<failSafe, pending, current, stored, pase, pc, job, bounds, committed, lost>>

\* The window's timer, or CloseWindow: EndCommissioning.
CloseWindow ==
    /\ window # "closed"
    /\ window' = "closed"
    /\ UNCHANGED <<failSafe, pending, current, stored, pase, pc, job, bounds, committed, lost>>

\* RevokeWindow: the PASE sessions close, the fail-safe expires, then the window
\* closes.
RevokeWindow ==
    /\ Idle(Host)
    /\ window # "closed" \/ armed = "armed"
    /\ paseState' = [p \in PaseSessions |->
                        IF paseState[p] = "open" THEN "closed" ELSE paseState[p]]
    /\ IF armed = "armed"
       THEN /\ armed' = "disarmed" /\ left' = 0 /\ owner' = 0 /\ cum' = CumOff
            /\ Goto(Host, "expired") /\ job' = [job EXCEPT ![Host].then = "close"]
            /\ Lose(Overlap(Host))
       ELSE /\ Goto(Host, "close")
            /\ UNCHANGED <<failSafe, job, lost>>
    /\ UNCHANGED <<pending, current, stored, window, paseFabric, bounds, committed>>

\* A PASE handshake ends: AutoArmOnPaseEstablished looks at the fail-safe.
PaseEstablished(p) ==
    /\ paseState[p] = "new" /\ window # "closed"
    /\ paseState' = [paseState EXCEPT ![p] = "open"]
    /\ IF FailSafeArmed THEN UNCHANGED pc ELSE Goto(p, "armFor")
    /\ UNCHANGED <<failSafe, pending, current, stored, window, paseFabric, job, bounds,
                   committed, lost>>

\* The commissioner goes away; the session also closes some time after a
\* CommissioningComplete.
PaseGone(p) ==
    /\ paseState[p] = "open" /\ Idle(p)
    /\ paseState' = [paseState EXCEPT ![p] = "closed"]
    /\ UNCHANGED <<failSafe, pending, current, stored, window, paseFabric, pc, job, bounds,
                   committed, lost>>

\* The process stops and starts again: only the store survives.
Restart ==
    /\ restarts < Restarts
    /\ restarts' = restarts + 1
    /\ armed' = "disarmed" /\ left' = 0 /\ owner' = 0 /\ cum' = CumOff
    /\ ClearPending /\ current' = 0
    /\ window' = "closed"
    /\ paseState' = [p \in PaseSessions |->
                        IF paseState[p] = "open" THEN "closed" ELSE paseState[p]]
    /\ pc' = [t \in Threads |-> "idle"] /\ job' = [t \in Threads |-> NoJob]
    /\ Lose(IF armed = "armed" \/ \E t \in Threads : ~Idle(t) THEN {"restart"} ELSE {})
    /\ UNCHANGED <<stored, paseFabric, opens, committed>>

-----------------------------------------------------------------------------
\* A command or a hook that has begun goes on.
Continue(t) ==
    \/ ArmedHook(t) \/ CompleteHook(t) \/ CloseStep(t)
    \/ ExpiredHook(t) \/ RevertStore(t) \/ FabricRemoved(t)
    \/ \E n \in Lengths : ArmFailSafeFor(t, n)

ContinueNOC(s) ==
    \/ CSRStore(s) \/ RootStore(s)
    \/ AddNOCInstall(s) \/ AddNOCFinish(s) \/ AddNOCFail(s) \/ AddNOCRearm(s)
    \/ UpdateNOCStore(s) \/ UpdateNOCFail(s) \/ UpdateNOCFinish(s)

Command(s) ==
    \/ \E n \in Lengths : ArmFailSafe(s, n)
    \/ DisarmFailSafe(s) \/ CommissioningComplete(s)
    \/ \E for \in {"add", "update"} : CSRRequest(s, for)
    \/ \E id \in FabricIds : AddTrustedRootCertificate(s, id)
    \/ AddNOC(s) \/ UpdateNOC(s)

Next ==
    \/ Tick \/ OpenOwnWindow \/ CloseWindow \/ Restart
    \/ OpenWindow \/ RevokeWindow \/ \E idx \in Indexes : RemoveFabric(idx)
    \/ \E w \in Watchers : WatchExpiry(w)
    \/ \E p \in PaseSessions : PaseEstablished(p) \/ PaseGone(p)
    \/ \E s \in Sessions : Command(s) \/ ContinueNOC(s)
    \/ \E t \in Threads : Continue(t)

Spec == Init /\ [][Next]_vars

\* Time passes, a goroutine that can run runs, and a timer that fired is served.
Fairness ==
    /\ WF_vars(Tick)
    /\ \A t \in Threads : WF_vars(Continue(t))
    /\ \A s \in Sessions : WF_vars(ContinueNOC(s))
    /\ WF_vars(\E w \in Watchers : WatchExpiry(w))

FairSpec == Spec /\ Fairness

-----------------------------------------------------------------------------
Fabric == [id : FabricIds, noc : Nat]
CSR == [by : Sessions \cup {Host}, for : {"none", "add", "update"}]
Update == [idx : 0..MaxIndex, noc : Nat]
Labels == {"idle", "armFor", "armed", "expired", "revert", "removed", "gone", "completed",
           "close", "add", "update", "root", "addNOC", "identity", "rearm", "updateNOC", "updated"}

\* Every variable keeps its type; nextFabricIndexFromCounter's index never leaves
\* 1..MaxIndex, in the table, in the pending state or in the fail-safe's owner.
TypeOK ==
    /\ armed \in {"armed", "disarmed"} /\ left \in Nat
    /\ owner \in 0..MaxIndex /\ cum \in 0..CumOff
    /\ csr \in CSR /\ root \in FabricIds \cup {NoRoot}
    /\ nocInvoked \in {"no", "yes"}
    /\ install \in 0..MaxIndex /\ update \in Update /\ current \in 0..MaxIndex
    /\ DOMAIN fabrics \subseteq Indexes /\ fabrics \in [DOMAIN fabrics -> Fabric]
    /\ nextIndex \in Indexes
    /\ window \in {"closed", "own", "admin"}
    /\ paseState \in [PaseSessions -> {"new", "open", "closed"}]
    /\ paseFabric \in [PaseSessions -> 0..MaxIndex]
    /\ pc \in [Threads -> Labels]
    /\ job \in [Threads -> [idx : 0..MaxIndex, id : FabricIds \cup {NoRoot},
                            undo : Update, then : {"done", "close"}]]

Quiescent == \A t \in Threads : Idle(t)

RolledBack == Quiescent /\ armed = "disarmed" => fabrics = committed

\* What lost may hold while no rollback was missed.
NoneLost == lost \subseteq {"unclean"}

\* When the fail-safe is over and nothing is under way, the store holds exactly
\* what completed commissionings put there: every NOC that AddNOC or UpdateNOC wrote
\* in an abandoned window was rolled back by OnFailSafeExpiry, also what a failing
\* store made a refused command leave behind ("unclean").  The other members of lost
\* are the four ways in which the code misses a rollback: overlapping windows and
\* commands, a removal, a restart, and a store that fails in the rollback itself or
\* whose refused command lost its note.  RolledBackDespiteOverlap lets one in.
AbandonedRolledBack == NoneLost => RolledBack

\* A fabric whose CommissioningComplete was answered is never removed by a later
\* rollback (revertAddNOC at an index noted in an earlier window).
CommittedKept == NoneLost => DOMAIN committed \subseteq Installed

\* One window covers one fabric: the guards of CSRRequest, AddTrustedRootCertificate
\* and AddNOC, and the note a refused AddNOC leaves, together let at most one
\* uncompleted fabric into the store.
OnePending == NoneLost => Cardinality(Installed \ DOMAIN committed) <= 1

\* The fail-safe ends, however often its owner re-arms it: handleArmFailSafe's
\* cumulative deadline is never restarted by a re-arm.
FailSafeEnds == armed = "armed" ~> armed = "disarmed"

\* security.md's promise when windows and NOC commands overlap: also then the expiry
\* of the fail-safe (OnFailSafeExpiry) rolls back what an abandoned window wrote.
RolledBackDespiteOverlap == lost \subseteq {"overlap"} => RolledBack
=============================================================================
