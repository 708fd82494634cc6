----------------------- MODULE OutboundReliableProofs -----------------------
(***************************************************************************)
(* For any number of messages, sessions and subscriptions and any budget:  *)
(* OutboundReliable's types, and the invariants that make its tracker and  *)
(* the reaping correct, AckedWasSent, BudgetKept and ReapedForCause.       *)
(*                                                                         *)
(* BudgetKept is not inductive: a transmission a Tick has yet to make      *)
(* counts against the budget from the sweep on.  Budgeted adds those.      *)
(* ReapedForCause rests on how each entry left the tracker (Accounted).    *)
(***************************************************************************)
EXTENDS OutboundReliable, FiniteSetTheorems, TLAPS

\* Transmissions of m that Tick k has taken on and not made.
Owed(k, m) == (IF m \in tick[k].todo THEN 1 ELSE 0) + (IF sending[k] = m THEN 1 ELSE 0)

\* The first transmission, once its send has succeeded or failed for good.
First(m) == IF phase[m] \in {"new", "tracked", "unsent"} THEN 0 ELSE 1

\* What was sent, and what overlapping Ticks still owe, was counted by a sweep.
Budgeted ==
    \A m \in Messages : sent[m] + Owed("pump", m) + Owed("rx", m) <= retries[m] + First(m)

\* The inductive invariant.
IInv == TypeOK /\ Budgeted /\ AckedWasSent

\* The messages of F that are reports of s, and the ones whose send failed.
ReportsOf(F, s) == {m \in F : Owner[m] = s}
FailedOf(s) == ReportsOf(failed, s)

\* An entry leaves the tracker once, by an ack or as lost; what a Tick has yet to give
\* up is lost; a failed send was the last step of its sender, and noteSubscriptionSendError
\* counts no more of them than there were.
Accounted ==
    /\ \A m \in Messages : phase[m] = "new" => m \notin pending \cup acked \cup lost
    /\ pending \cap (acked \cup lost) = {} /\ lost \cap acked = {}
    /\ \A k \in Ticks : tick[k].spent \subseteq lost
    /\ \A m \in failed : phase[m] = "done"
    /\ IsFiniteSet(failed)
    /\ \A s \in Subs : errors[s] <= Cardinality(FailedOf(s))

\* The inductive invariant of the reaping.
CauseInv == TypeOK /\ Accounted /\ ReapedForCause

-----------------------------------------------------------------------------

\* Closing subscriptions keeps the types of the tables.
LEMMA CloseSubscriptionsType ==
    ASSUME TypeOK, NEW S, NEW owned \in SUBSET Messages, CloseSubscriptions(S, owned)
    PROVE  /\ live' \subseteq Subs /\ owner' \subseteq Messages /\ origin' \subseteq Messages
           /\ latest' \in [Subs -> Messages \cup {None}]
  BY DEF TypeOK, CloseSubscriptions

\* The initial state satisfies the inductive invariant.
LEMMA InitIInv == Init => IInv
<1> SUFFICES ASSUME Init PROVE IInv
  OBVIOUS
<1>1. TypeOK
  BY OutboundAssumption DEF Init, TypeOK, IdleTick, Ticks
<1>2. Budgeted
  BY OutboundAssumption DEF Init, Budgeted, Owed, First, IdleTick, Ticks
<1>3. AckedWasSent
  BY DEF Init, AckedWasSent
<1> QED
  BY <1>1, <1>2, <1>3 DEF IInv

\* Each step of Next keeps the types.
LEMMA TypeStep == TypeOK /\ [Next]_vars => TypeOK'
<1> SUFFICES ASSUME TypeOK, [Next]_vars PROVE TypeOK'
  OBVIOUS
<1> USE OutboundAssumption
<1>1. ASSUME NEW m \in Messages, Track(m) PROVE TypeOK'
  BY <1>1 DEF TypeOK, Track, tables, history
<1>2. ASSUME NEW m \in Messages, Send(m) PROVE TypeOK'
  BY <1>2 DEF TypeOK, Send, tables, history
<1>3. ASSUME NEW m \in Messages, Untrack(m) PROVE TypeOK'
  <2> DEFINE s == Owner[m]
             counted == Kind[m] = "report" /\ s \in live
             reap == counted /\ errors[s] + 1 > SendErrorRetryLimit
  <2>1. CloseSubscriptions(IF reap THEN {s} ELSE {}, owner)
    BY <1>3 DEF Untrack
  <2>2. /\ live' \subseteq Subs /\ owner' \subseteq Messages /\ origin' \subseteq Messages
        /\ latest' \in [Subs -> Messages \cup {None}]
    BY <2>1, CloseSubscriptionsType DEF TypeOK
  <2>3. errors' = IF counted THEN [errors EXCEPT ![s] = IF reap THEN 0 ELSE @ + 1] ELSE errors
    BY <1>3 DEF Untrack
  <2>4. errors' \in [Subs -> 0 .. SendErrorRetryLimit]
    BY <2>3 DEF TypeOK
  <2> QED
    BY <1>3, <2>2, <2>4 DEF TypeOK, Untrack
<1>4. ASSUME NEW m \in Messages, FirstSent(m) PROVE TypeOK'
  BY <1>4 DEF TypeOK, FirstSent, history
<1>5. ASSUME NEW m \in Messages, ReportSent(m) PROVE TypeOK'
  <2>1. latest' \in [Subs -> Messages \cup {None}] /\ origin' \subseteq Messages
    BY <1>5 DEF TypeOK, ReportSent
  <2>2. errors' \in [Subs -> 0 .. SendErrorRetryLimit]
    <3>1. errors \in [Subs -> 0 .. SendErrorRetryLimit] /\ 0 \in 0 .. SendErrorRetryLimit
      BY DEF TypeOK
    <3>2. errors' = [errors EXCEPT ![Owner[m]] = 0]
      BY <1>5 DEF ReportSent
    <3> QED
      BY <3>1, <3>2
  <2>3. phase' \in [Messages -> {"new", "tracked", "sent", "unsent", "owned", "done"}]
    BY <1>5 DEF TypeOK, ReportSent
  <2> QED
    BY <1>5, <2>1, <2>2, <2>3 DEF TypeOK, ReportSent, history
<1>6. ASSUME NEW m \in Messages, Ack(m) PROVE TypeOK'
  BY <1>6 DEF TypeOK, Ack, AckedEntries, tables
<1>7. ASSUME NEW m \in Messages, AbandonExchange(m) PROVE TypeOK'
  BY <1>7 DEF TypeOK, AbandonExchange, tables
<1>8. ASSUME NEW s \in Sessions \cup {Unsecured}, ReleaseReportCounter(s) PROVE TypeOK'
  BY <1>8 DEF TypeOK, ReleaseReportCounter, history
<1>9. ASSUME NEW k \in Ticks, NEW due \in SUBSET pending, Sweep(k, due) PROVE TypeOK'
  <2>1. retries' \in [Messages -> 0 .. MaxRetransmissions]
    BY <1>9 DEF TypeOK, Sweep, Spent
  <2>2. tick' \in [Ticks -> [todo : SUBSET Messages, spent : SUBSET Messages]]
    BY <1>9 DEF TypeOK, Sweep
  <2> QED
    BY <1>9, <2>1, <2>2 DEF TypeOK, Sweep, tables
<1>10. ASSUME NEW k \in Ticks, NEW m \in Messages, Recheck(k, m) PROVE TypeOK'
  <2>1. tick' \in [Ticks -> [todo : SUBSET Messages, spent : SUBSET Messages]]
    <3>1. tick[k] \in [todo : SUBSET Messages, spent : SUBSET Messages]
      BY DEF TypeOK
    <3> QED
      BY <1>10, <3>1 DEF TypeOK, Recheck
  <2> QED
    BY <1>10, <2>1 DEF TypeOK, Recheck, tables, history
<1>11. ASSUME NEW k \in Ticks, Resend(k) PROVE TypeOK'
  <2>1. sending \in [Ticks -> Messages \cup {None}] /\ sent \in [Messages -> Nat]
    BY DEF TypeOK
  <2>2. sending' \in [Ticks -> Messages \cup {None}] /\ sent' \in [Messages -> Nat]
    BY <1>11, <2>1 DEF Resend
  <2>3. UNCHANGED <<phase, pending, retries, acking, tick, tables, history>>
    BY <1>11 DEF Resend
  <2> QED
    BY <2>2, <2>3 DEF TypeOK, tables, history
<1>12. ASSUME NEW k \in Ticks, NEW m \in Messages, GiveUp(k, m) PROVE TypeOK'
  <2>1. tick' \in [Ticks -> [todo : SUBSET Messages, spent : SUBSET Messages]]
    BY <1>12 DEF TypeOK, GiveUp
  <2>2. CloseSubscriptions(ReapedSubs(m), owner \ {m})
    BY <1>12 DEF GiveUp
  <2>3. /\ live' \subseteq Subs /\ owner' \subseteq Messages /\ origin' \subseteq Messages
        /\ latest' \in [Subs -> Messages \cup {None}]
    BY <2>2, CloseSubscriptionsType DEF TypeOK
  <2>4. errors' \in [Subs -> 0 .. SendErrorRetryLimit] /\ open' \subseteq Sessions
    <3>1. open' \subseteq Sessions
      BY <1>12 DEF TypeOK, GiveUp
    <3>2. errors \in [Subs -> 0 .. SendErrorRetryLimit] /\ 0 \in 0 .. SendErrorRetryLimit
      BY DEF TypeOK
    <3>3. errors' \in [Subs -> 0 .. SendErrorRetryLimit]
      BY <1>12, <3>2 DEF GiveUp
    <3> QED
      BY <3>1, <3>3
  <2> QED
    BY <1>12, <2>1, <2>3, <2>4 DEF TypeOK, GiveUp, history
<1>13. ASSUME NEW m \in Messages, CloseExchange(m) PROVE TypeOK'
  BY <1>13 DEF TypeOK, CloseExchange, history
<1>14. CASE UNCHANGED vars
  BY <1>14 DEF TypeOK, vars, tables, history
<1> QED
  BY <1>1, <1>2, <1>3, <1>4, <1>5, <1>6, <1>7, <1>8, <1>9, <1>10, <1>11, <1>12, <1>13, <1>14 DEF Next

\* No step sends what no sweep has counted.
LEMMA BudgetedStep == TypeOK /\ Budgeted /\ [Next]_vars => Budgeted'
<1> SUFFICES ASSUME TypeOK, Budgeted, [Next]_vars, NEW n \in Messages
             PROVE  (sent[n] + Owed("pump", n) + Owed("rx", n) <= retries[n] + First(n))'
  BY DEF Budgeted
<1> USE OutboundAssumption
<1>a. sent[n] + Owed("pump", n) + Owed("rx", n) <= retries[n] + First(n)
  BY DEF Budgeted
<1>b. /\ sent \in [Messages -> Nat] /\ retries \in [Messages -> Nat]
      /\ phase \in [Messages -> {"new", "tracked", "sent", "unsent", "owned", "done"}]
      /\ tick \in [Ticks -> [todo : SUBSET Messages, spent : SUBSET Messages]]
      /\ sending \in [Ticks -> Messages \cup {None}]
  <2>1. retries \in [Messages -> 0 .. MaxRetransmissions] /\ MaxRetransmissions \in Nat
    BY DEF TypeOK
  <2>2. retries \in [Messages -> Nat]
    BY <2>1
  <2> QED
    BY <2>2 DEF TypeOK
\* An action that leaves the Ticks and the counts alone and moves no message back.
<1>c. ASSUME UNCHANGED <<sent, retries, tick, sending>>, First(n)' >= First(n)
      PROVE  (sent[n] + Owed("pump", n) + Owed("rx", n) <= retries[n] + First(n))'
  BY <1>a, <1>b, <1>c DEF Owed, First, Ticks
<1>1. ASSUME NEW m \in Messages,
             Track(m) \/ Untrack(m) \/ FirstSent(m) \/ ReportSent(m)
      PROVE  (sent[n] + Owed("pump", n) + Owed("rx", n) <= retries[n] + First(n))'
  <2>1. UNCHANGED <<sent, retries, tick, sending>>
    BY <1>1 DEF Track, Untrack, FirstSent, ReportSent
  <2>2. First(n)' >= First(n)
    BY <1>1, <1>b DEF Track, Untrack, FirstSent, ReportSent, First
  <2> QED
    BY <2>1, <2>2, <1>c
<1>2. ASSUME NEW m \in Messages, Ack(m) \/ AbandonExchange(m) \/ CloseExchange(m)
      PROVE  (sent[n] + Owed("pump", n) + Owed("rx", n) <= retries[n] + First(n))'
  BY <1>2, <1>c DEF Ack, AbandonExchange, CloseExchange, First
<1>3. ASSUME NEW s \in Sessions \cup {Unsecured}, ReleaseReportCounter(s)
      PROVE  (sent[n] + Owed("pump", n) + Owed("rx", n) <= retries[n] + First(n))'
  BY <1>3, <1>c DEF ReleaseReportCounter, First
<1>4. ASSUME NEW m \in Messages, Send(m)
      PROVE  (sent[n] + Owed("pump", n) + Owed("rx", n) <= retries[n] + First(n))'
  <2>1. UNCHANGED <<retries, tick, sending>>
    BY <1>4 DEF Send
  <2>2. sent'[n] - sent[n] <= First(n)' - First(n) /\ sent'[n] \in Nat
    BY <1>4, <1>b DEF Send, First
  <2> QED
    BY <2>1, <2>2, <1>a, <1>b DEF Owed, First, Ticks
<1>5. ASSUME NEW k \in Ticks, NEW due \in SUBSET pending, Sweep(k, due)
      PROVE  (sent[n] + Owed("pump", n) + Owed("rx", n) <= retries[n] + First(n))'
  <2>1. UNCHANGED <<phase, sent, sending>> /\ sending[k] = None /\ tick[k].todo = {}
    BY <1>5 DEF Sweep, IdleTick
  <2>2. \A j \in Ticks \ {k} : tick'[j] = tick[j]
    BY <1>5, <1>b DEF Sweep
  <2>3. /\ n \in tick'[k].todo => retries'[n] = retries[n] + 1
        /\ n \notin tick'[k].todo => retries'[n] = retries[n]
    BY <1>5, <1>b DEF Sweep
  <2>4. Owed(k, n) = 0 /\ Owed(k, n)' <= retries'[n] - retries[n]
    BY <2>1, <2>3, <1>b DEF Owed
  <2>5. \A j \in Ticks \ {k} : Owed(j, n)' = Owed(j, n)
    BY <2>1, <2>2 DEF Owed
  <2> QED
    BY <2>1, <2>3, <2>4, <2>5, <1>a, <1>b DEF Owed, First, Ticks
<1>6. ASSUME NEW k \in Ticks, NEW m \in Messages, Recheck(k, m)
      PROVE  (sent[n] + Owed("pump", n) + Owed("rx", n) <= retries[n] + First(n))'
  <2>1. UNCHANGED <<phase, sent, retries>> /\ sending[k] = None /\ m \in tick[k].todo
    BY <1>6 DEF Recheck
  <2>2. \A j \in Ticks \ {k} : tick'[j] = tick[j] /\ sending'[j] = sending[j]
    BY <1>6, <1>b DEF Recheck
  <2>3. tick'[k].todo = tick[k].todo \ {m} /\ sending'[k] \in {m, None}
    BY <1>6, <1>b DEF Recheck
  <2>4. Owed(k, n)' <= Owed(k, n)
    BY <2>1, <2>3, <1>b DEF Owed
  <2>5. \A j \in Ticks \ {k} : Owed(j, n)' = Owed(j, n)
    BY <2>2 DEF Owed
  <2> QED
    BY <2>1, <2>4, <2>5, <1>a, <1>b DEF Owed, First, Ticks
<1>7. ASSUME NEW k \in Ticks, Resend(k)
      PROVE  (sent[n] + Owed("pump", n) + Owed("rx", n) <= retries[n] + First(n))'
  <2>1. UNCHANGED <<phase, retries, tick>> /\ sending'[k] = None /\ sending[k] \in Messages
    BY <1>7, <1>b DEF Resend
  <2>2. \A j \in Ticks \ {k} : sending'[j] = sending[j]
    BY <1>7, <1>b DEF Resend
  <2>3. sent'[n] \in Nat /\ sent'[n] - sent[n] <= (IF sending[k] = n THEN 1 ELSE 0)
    BY <1>7, <1>b DEF Resend
  <2>4. Owed(k, n)' = Owed(k, n) - (IF sending[k] = n THEN 1 ELSE 0)
    BY <2>1, <1>b DEF Owed
  <2>5. \A j \in Ticks \ {k} : Owed(j, n)' = Owed(j, n)
    BY <2>1, <2>2 DEF Owed
  <2> QED
    BY <2>1, <2>3, <2>4, <2>5, <1>a, <1>b DEF Owed, First, Ticks
<1>8. ASSUME NEW k \in Ticks, NEW m \in Messages, GiveUp(k, m)
      PROVE  (sent[n] + Owed("pump", n) + Owed("rx", n) <= retries[n] + First(n))'
  <2>1. UNCHANGED <<phase, sent, retries, sending>>
    BY <1>8 DEF GiveUp
  <2>2. \A j \in Ticks : tick'[j].todo = tick[j].todo
    BY <1>8, <1>b DEF GiveUp
  <2> QED
    BY <2>1, <2>2, <1>a, <1>b DEF Owed, First, Ticks
<1>9. CASE UNCHANGED vars
  BY <1>9, <1>c DEF vars, First
<1> QED
  BY <1>1, <1>2, <1>3, <1>4, <1>5, <1>6, <1>7, <1>8, <1>9 DEF Next

\* An ack finds the entry of its own session's counter, and transmissions only grow.
LEMMA AckedStep == TypeOK /\ AckedWasSent /\ [Next]_vars => AckedWasSent'
<1> SUFFICES ASSUME TypeOK, AckedWasSent, [Next]_vars PROVE AckedWasSent'
  OBVIOUS
<1>1. \A n \in Messages : sent'[n] >= sent[n]
  <2>1. sent \in [Messages -> Nat]
    BY DEF TypeOK
  <2>2. CASE \E m \in Messages : Send(m)
    BY <2>1, <2>2 DEF Send
  <2>3. CASE \E k \in Ticks : Resend(k)
    BY <2>1, <2>3 DEF Resend
  <2>4. CASE UNCHANGED sent
    BY <2>1, <2>4
  <2> QED
    BY <2>2, <2>3, <2>4 DEF Next, vars, Track, Untrack, FirstSent, ReportSent, Ack,
       CloseExchange, AbandonExchange, ReleaseReportCounter, Sweep, Recheck, GiveUp
<1>2. \A n \in acked' \ acked : n \in Messages /\ sent'[n] > 0
  <2>1. CASE \E m \in Messages : Ack(m)
    <3>1. PICK m \in Messages : Ack(m)
      BY <2>1
    <3>2. \A n \in AckedEntries(m) : n = m
      BY OutboundAssumption DEF AckedEntries, Key, TypeOK
    <3> QED
      BY <3>1, <3>2 DEF Ack
  <2>2. CASE ~ \E m \in Messages : Ack(m)
    BY <2>2 DEF Next, vars, history, Track, Send, Untrack, FirstSent, ReportSent,
         CloseExchange, AbandonExchange, ReleaseReportCounter, Sweep, Recheck, Resend, GiveUp
  <2> QED
    BY <2>1, <2>2
<1>3. \A n \in acked : n \in Messages /\ sent[n] > 0 /\ sent[n] \in Nat /\ sent'[n] > 0
  <2>1. TypeOK'
    BY TypeStep
  <2> QED
    BY <1>1, <2>1 DEF TypeOK, AckedWasSent
<1> QED
  BY <1>2, <1>3 DEF AckedWasSent

\* The inductive invariant holds throughout.
LEMMA Inductive == Spec => []IInv
<1>1. IInv /\ [Next]_vars => IInv'
  BY TypeStep, BudgetedStep, AckedStep DEF IInv
<1> QED
  BY InitIInv, <1>1, PTL DEF Spec

\* The type invariant of the tracker and of the bridge's report tables.
THEOREM TypeCorrect == Spec => []TypeOK
<1>1. IInv => TypeOK
  BY DEF IInv
<1> QED
  BY Inductive, <1>1, PTL

\* outboundReliableTracker.Ack clears a message only if one of its own transmissions
\* left: keyed by (session, counter), the ack of another session never reaches it.
THEOREM AckedWasSentHolds == Spec => []AckedWasSent
<1>1. IInv => AckedWasSent
  BY DEF IInv
<1> QED
  BY Inductive, <1>1, PTL

\* outboundReliableTracker.Tick keeps the budget although it sends outside its lock
\* and Ticks overlap: at most MaxRetransmissions + 1 transmissions of a message.
THEOREM BudgetKeptHolds == Spec => []BudgetKept
<1>1. IInv => BudgetKept
  <2> SUFFICES ASSUME IInv, NEW m \in Messages PROVE sent[m] <= MaxRetransmissions + 1
    BY DEF BudgetKept
  <2>1. sent[m] + Owed("pump", m) + Owed("rx", m) <= retries[m] + First(m)
    BY DEF IInv, Budgeted
  <2>2. sent[m] \in Nat /\ retries[m] \in 0 .. MaxRetransmissions
    BY DEF IInv, TypeOK
  <2> QED
    BY <2>1, <2>2, OutboundAssumption DEF Owed, First
<1> QED
  BY Inductive, <1>1, PTL

-----------------------------------------------------------------------------

\* One more failed send: the count of its subscription's grows by one.
LEMMA FailedGrows ==
    ASSUME NEW F, IsFiniteSet(F), NEW m, m \notin F, NEW s
    PROVE  /\ IsFiniteSet(F \cup {m})
           /\ Cardinality(ReportsOf(F \cup {m}, s))
                = Cardinality(ReportsOf(F, s)) + (IF Owner[m] = s THEN 1 ELSE 0)
           /\ Cardinality(ReportsOf(F, s)) \in Nat
<1>0. IsFiniteSet(F \cup {m})
  BY FS_AddElement
<1>1. IsFiniteSet(ReportsOf(F, s)) /\ Cardinality(ReportsOf(F, s)) \in Nat
  <2>1. ReportsOf(F, s) \in SUBSET F
    BY DEF ReportsOf
  <2> QED
    BY <2>1, FS_Subset, FS_CardinalityType
<1>2. CASE Owner[m] = s
  <2>1. ReportsOf(F \cup {m}, s) = ReportsOf(F, s) \cup {m} /\ m \notin ReportsOf(F, s)
    BY <1>2 DEF ReportsOf
  <2> QED
    BY <1>0, <1>1, <1>2, <2>1, FS_AddElement
<1>3. CASE Owner[m] # s
  <2>1. ReportsOf(F \cup {m}, s) = ReportsOf(F, s)
    BY <1>3 DEF ReportsOf
  <2> QED
    BY <1>0, <1>1, <1>3, <2>1
<1> QED
  BY <1>2, <1>3

\* Initially nothing was sent, acked, lost or failed.
LEMMA InitAccounted == Init => Accounted /\ ReapedForCause
<1> SUFFICES ASSUME Init PROVE Accounted /\ ReapedForCause
  OBVIOUS
<1>1. IsFiniteSet(failed) /\ Cardinality(failed) = 0
  BY FS_EmptySet DEF Init
<1>2. \A s \in Subs : FailedOf(s) = failed
  BY DEF FailedOf, ReportsOf, Init
<1>3. \A s \in Subs : errors[s] <= Cardinality(FailedOf(s))
  BY <1>1, <1>2 DEF Init
<1>4. ReapedForCause
  BY DEF Init, ReapedForCause
<1> QED
  BY <1>1, <1>3, <1>4 DEF Init, Accounted, Ticks, IdleTick

\* The parts of Accounted that do not count failures, as one predicate.
Leaving ==
    /\ \A m \in Messages : phase[m] = "new" => m \notin pending \cup acked \cup lost
    /\ pending \cap (acked \cup lost) = {} /\ lost \cap acked = {}
    /\ \A k \in Ticks : tick[k].spent \subseteq lost

\* Track, Ack, AbandonExchange and Sweep move an entry into and out of the tracker once.
LEMMA LeavingStep == TypeOK /\ Leaving /\ [Next]_vars => Leaving'
<1> SUFFICES ASSUME TypeOK, Leaving, [Next]_vars PROVE Leaving'
  OBVIOUS
<1> USE DEF Leaving
<1>0. /\ phase \in [Messages -> {"new", "tracked", "sent", "unsent", "owned", "done"}]
      /\ tick \in [Ticks -> [todo : SUBSET Messages, spent : SUBSET Messages]]
      /\ pending \subseteq Messages
  BY DEF TypeOK
<1>1. ASSUME NEW m \in Messages, Track(m) PROVE Leaving'
  BY <1>0, <1>1 DEF Track, history
<1>2. ASSUME NEW m \in Messages,
             Send(m) \/ Untrack(m) \/ FirstSent(m) \/ ReportSent(m) \/ CloseExchange(m)
      PROVE  Leaving'
  <2>1. /\ UNCHANGED <<tick, acked, lost>> /\ pending' \subseteq pending
        /\ \A n \in Messages : phase'[n] = "new" => phase[n] = "new"
    BY <1>0, <1>2 DEF Send, Untrack, FirstSent, ReportSent, CloseExchange, history
  <2> QED
    BY <2>1
<1>3. ASSUME NEW m \in Messages, Ack(m) PROVE Leaving'
  BY <1>0, <1>3 DEF Ack, AckedEntries
<1>4. ASSUME NEW m \in Messages, AbandonExchange(m) PROVE Leaving'
  BY <1>0, <1>4 DEF AbandonExchange
<1>5. ASSUME NEW s \in Sessions \cup {Unsecured}, ReleaseReportCounter(s) PROVE Leaving'
  BY <1>5 DEF ReleaseReportCounter, history
<1>6. ASSUME NEW k \in Ticks, NEW due \in SUBSET pending, Sweep(k, due) PROVE Leaving'
  <2> DEFINE spent == {m \in due : Spent(m)}
  <2>1. /\ pending' = pending \ spent /\ lost' = lost \cup spent
        /\ tick' = [tick EXCEPT ![k] = [todo |-> due \ spent, spent |-> spent]]
        /\ UNCHANGED <<phase, acked>>
    BY <1>6 DEF Sweep
  <2>2. spent \subseteq pending
    OBVIOUS
  <2> HIDE DEF spent
  <2>3. \A j \in Ticks : tick'[j].spent \subseteq lost'
    BY <1>0, <2>1
  <2> QED
    BY <1>0, <2>1, <2>2, <2>3
<1>7. ASSUME NEW k \in Ticks, NEW m \in Messages, Recheck(k, m) \/ GiveUp(k, m) PROVE Leaving'
  <2>1. UNCHANGED <<phase, pending, acked, lost>>
    BY <1>7 DEF Recheck, GiveUp, history
  <2>2. \A j \in Ticks : tick'[j].spent \subseteq tick[j].spent
    <3>1. CASE Recheck(k, m)
      BY <1>0, <3>1 DEF Recheck
    <3>2. CASE GiveUp(k, m)
      BY <1>0, <3>2 DEF GiveUp
    <3> QED
      BY <1>7, <3>1, <3>2
  <2> QED
    BY <2>1, <2>2
<1>8. ASSUME NEW k \in Ticks, Resend(k) PROVE Leaving'
  BY <1>8 DEF Resend, history
<1>9. CASE UNCHANGED vars
  BY <1>9 DEF vars, history
<1> QED
  BY <1>1, <1>2, <1>3, <1>4, <1>5, <1>6, <1>7, <1>8, <1>9 DEF Next

\* The parts of Accounted that do.
FailuresCounted ==
    /\ \A m \in failed : phase[m] = "done"
    /\ IsFiniteSet(failed)
    /\ \A s \in Subs : errors[s] <= Cardinality(FailedOf(s))

\* Untrack counts one failure and notes one failed send; every other step leaves the
\* failures alone and only sets a subscription's count back.
LEMMA FailuresStep == TypeOK /\ FailuresCounted /\ [Next]_vars => FailuresCounted'
<1> SUFFICES ASSUME TypeOK, FailuresCounted, [Next]_vars PROVE FailuresCounted'
  OBVIOUS
<1>a. ASSUME NEW m, m \notin failed, failed' = failed \cup {m}, NEW s
      PROVE  Cardinality(ReportsOf(failed', s))
                = Cardinality(ReportsOf(failed, s)) + (IF Owner[m] = s THEN 1 ELSE 0)
  BY <1>a, FailedGrows DEF FailuresCounted
<1> USE OutboundAssumption
<1>0. /\ phase \in [Messages -> {"new", "tracked", "sent", "unsent", "owned", "done"}]
      /\ errors \in [Subs -> Nat] /\ failed \subseteq Messages
  <2>1. errors \in [Subs -> 0 .. SendErrorRetryLimit]
    BY DEF TypeOK
  <2>2. errors \in [Subs -> Nat]
    BY <2>1
  <2> QED
    BY <2>2 DEF TypeOK
<1>1. \A s \in Subs : Cardinality(FailedOf(s)) \in Nat
  <2> TAKE s \in Subs
  <2>1. FailedOf(s) \in SUBSET failed /\ IsFiniteSet(failed)
    BY DEF FailedOf, ReportsOf, FailuresCounted
  <2> QED
    BY <2>1, FS_Subset, FS_CardinalityType
<1>2. ASSUME UNCHANGED failed,
             \A n \in Messages : phase[n] = "done" => phase'[n] = "done",
             \A s \in Subs : errors'[s] = errors[s] \/ errors'[s] = 0
      PROVE  FailuresCounted'
  BY <1>0, <1>1, <1>2 DEF FailuresCounted, FailedOf
<1>3. ASSUME NEW m \in Messages, Untrack(m) PROVE FailuresCounted'
  <2>1. m \notin failed /\ failed' = failed \cup {m} /\ phase' = [phase EXCEPT ![m] = "done"]
    BY <1>3 DEF Untrack, FailuresCounted
  <2>2. \A n \in failed' : phase'[n] = "done"
    BY <1>0, <2>1 DEF FailuresCounted
  <2>3. IsFiniteSet(failed')
    BY <2>1, FS_AddElement DEF FailuresCounted
  <2>4. ASSUME NEW s \in Subs PROVE (errors[s] <= Cardinality(FailedOf(s)))'
    <3>1. Cardinality(FailedOf(s))' = Cardinality(FailedOf(s)) + (IF Owner[m] = s THEN 1 ELSE 0)
      BY <2>1, <1>a DEF FailedOf
    <3>2. errors'[s] = errors[s] \/ errors'[s] = 0 \/ (Owner[m] = s /\ errors'[s] = errors[s] + 1)
      <4> DEFINE o == Owner[m]
                 counted == Kind[m] = "report" /\ o \in live
                 reap == counted /\ errors[o] + 1 > SendErrorRetryLimit
      <4>1. errors' = IF counted THEN [errors EXCEPT ![o] = IF reap THEN 0 ELSE @ + 1] ELSE errors
        BY <1>3 DEF Untrack
      <4> HIDE DEF counted, reap
      <4> QED
        BY <4>1, <1>0
    <3>3. errors[s] <= Cardinality(FailedOf(s)) /\ errors[s] \in Nat
      BY <1>0 DEF FailuresCounted
    <3> HIDE DEF FailedOf
    <3> QED
      BY <1>1, <3>1, <3>2, <3>3
  <2> QED
    BY <2>2, <2>3, <2>4 DEF FailuresCounted
<1>4. ASSUME NEW m \in Messages, Track(m) \/ Send(m) \/ FirstSent(m) \/ CloseExchange(m)
      PROVE  FailuresCounted'
  <2>1. UNCHANGED <<failed, errors>>
    BY <1>4 DEF Track, Send, FirstSent, CloseExchange, tables, history
  <2>2. \A n \in Messages : phase[n] = "done" => phase'[n] = "done"
    BY <1>0, <1>4 DEF Track, Send, FirstSent, CloseExchange
  <2> QED
    BY <2>1, <2>2, <1>2
<1>5. ASSUME NEW m \in Messages, ReportSent(m) PROVE FailuresCounted'
  <2>1. \A s \in Subs : errors'[s] = errors[s] \/ errors'[s] = 0
    BY <1>0, <1>5 DEF ReportSent
  <2>2. UNCHANGED failed /\ \A n \in Messages : phase[n] = "done" => phase'[n] = "done"
    BY <1>0, <1>5 DEF ReportSent, history
  <2> QED
    BY <2>1, <2>2, <1>2
<1>6. ASSUME NEW m \in Messages, Ack(m) \/ AbandonExchange(m) PROVE FailuresCounted'
  BY <1>2, <1>6 DEF Ack, AbandonExchange, tables
<1>7. ASSUME NEW s \in Sessions \cup {Unsecured}, ReleaseReportCounter(s) PROVE FailuresCounted'
  BY <1>2, <1>7 DEF ReleaseReportCounter, history
<1>8. ASSUME NEW k \in Ticks, NEW due \in SUBSET pending, Sweep(k, due) PROVE FailuresCounted'
  BY <1>2, <1>8 DEF Sweep, tables
<1>9. ASSUME NEW k \in Ticks, NEW m \in Messages, Recheck(k, m) PROVE FailuresCounted'
  BY <1>2, <1>9 DEF Recheck, tables, history
<1>10. ASSUME NEW k \in Ticks, Resend(k) PROVE FailuresCounted'
  BY <1>2, <1>10 DEF Resend, tables, history
<1>11. ASSUME NEW k \in Ticks, NEW m \in Messages, GiveUp(k, m) PROVE FailuresCounted'
  <2>1. UNCHANGED <<phase, failed>>
    BY <1>11 DEF GiveUp, history
  <2>2. errors' = [s \in Subs |-> IF s \in ReapedSubs(m) THEN 0 ELSE errors[s]]
    BY <1>11 DEF GiveUp
  <2>3. \A s \in Subs : errors'[s] = errors[s] \/ errors'[s] = 0
    BY <2>2
  <2> QED
    BY <2>1, <2>3, <1>2
<1>12. CASE UNCHANGED vars
  BY <1>2, <1>12 DEF vars, tables, history
<1> QED
  BY <1>3, <1>4, <1>5, <1>6, <1>7, <1>8, <1>9, <1>10, <1>11, <1>12 DEF Next

\* The cause of a subscription's end, as ReapedForCause states it.
Cause(s) ==
    \/ \E m \in lost \ acked :
          \/ Owner[m] = s
          \/ Kind[m] # "sigma2" /\ Peer[Session[m]] = Peer[SubSession[s]]
    \/ Cardinality(FailedOf(s)) > SendErrorRetryLimit

\* A cause stays one: what is lost stays lost and is not acked, failed sends only grow.
LEMMA CauseStays ==
    ASSUME TypeOK, Leaving, FailuresCounted, [Next]_vars, NEW s \in Subs, Cause(s)
    PROVE  Cause(s)'
<1>1. lost \subseteq lost' /\ lost \cap (acked' \ acked) = {}
  <2>1. CASE \E m \in Messages : Ack(m)
    BY <2>1 DEF Ack, AckedEntries, Leaving
  <2>2. CASE UNCHANGED acked
    <3>1. CASE \E k \in Ticks : \E due \in SUBSET pending : Sweep(k, due)
      BY <3>1, <2>2 DEF Sweep
    <3>2. CASE UNCHANGED lost
      BY <3>2, <2>2
    <3> QED
      BY <3>1, <3>2 DEF Next, vars, history, Track, Send, Untrack, FirstSent, ReportSent, Ack,
        CloseExchange, AbandonExchange, ReleaseReportCounter, Recheck, Resend, GiveUp
  <2> QED
    BY <2>1, <2>2 DEF Next, vars, history, Track, Send, Untrack, FirstSent, ReportSent,
       CloseExchange, AbandonExchange, ReleaseReportCounter, Sweep, Recheck, Resend, GiveUp
<1>2. CASE \E m \in lost \ acked :
             \/ Owner[m] = s
             \/ Kind[m] # "sigma2" /\ Peer[Session[m]] = Peer[SubSession[s]]
  BY <1>1, <1>2 DEF Cause
<1>3. CASE Cardinality(FailedOf(s)) > SendErrorRetryLimit
  <2>1. CASE \E m \in Messages : Untrack(m)
    <3>1. PICK m \in Messages : Untrack(m)
      BY <2>1
    <3>2. failed' = failed \cup {m} /\ m \notin failed /\ IsFiniteSet(failed)
      BY <3>1 DEF Untrack, FailuresCounted
    <3>3. /\ Cardinality(ReportsOf(failed', s))
                = Cardinality(ReportsOf(failed, s)) + (IF Owner[m] = s THEN 1 ELSE 0)
          /\ Cardinality(ReportsOf(failed, s)) \in Nat
      BY <3>2, FailedGrows
    <3>4. Cardinality(ReportsOf(failed', s)) > SendErrorRetryLimit
      BY <1>3, <3>3, OutboundAssumption DEF FailedOf
    <3> QED
      BY <3>4 DEF Cause, FailedOf
  <2>2. CASE UNCHANGED failed
    BY <1>3, <2>2 DEF Cause, FailedOf
  <2> QED
    BY <2>1, <2>2 DEF Next, vars, history, Track, Send, FirstSent, ReportSent, Ack,
       CloseExchange, AbandonExchange, ReleaseReportCounter, Sweep, Recheck, Resend, GiveUp
<1> QED
  BY <1>2, <1>3 DEF Cause

\* A subscription that goes in this step goes for a cause.
LEMMA ReapedStep ==
    ASSUME TypeOK, Leaving, FailuresCounted, [Next]_vars, NEW s \in live, s \notin live'
    PROVE  Cause(s)'
<1>a. ASSUME NEW m, m \notin failed, failed' = failed \cup {m}
      PROVE  /\ Cardinality(ReportsOf(failed', s))
                  = Cardinality(ReportsOf(failed, s)) + (IF Owner[m] = s THEN 1 ELSE 0)
             /\ Cardinality(ReportsOf(failed, s)) \in Nat
  BY <1>a, FailedGrows DEF FailuresCounted
<1> USE OutboundAssumption
<1>0. s \in Subs /\ live \subseteq Subs /\ open \subseteq Sessions
  BY DEF TypeOK
<1>1. CASE \E m \in Messages : Untrack(m)
  <2>1. PICK m \in Messages : Untrack(m)
    BY <1>1
  <2> DEFINE o == Owner[m]
             reap == (Kind[m] = "report" /\ o \in live) /\ errors[o] + 1 > SendErrorRetryLimit
  <2>2. CloseSubscriptions(IF reap THEN {o} ELSE {}, owner)
    BY <2>1 DEF Untrack
  <2>3. s = Owner[m] /\ errors[s] + 1 > SendErrorRetryLimit
    BY <2>2 DEF CloseSubscriptions
  <2>4. failed' = failed \cup {m} /\ m \notin failed /\ IsFiniteSet(failed)
    BY <2>1 DEF Untrack, FailuresCounted
  <2>5. /\ Cardinality(ReportsOf(failed', s)) = Cardinality(ReportsOf(failed, s)) + 1
        /\ Cardinality(ReportsOf(failed, s)) \in Nat
    BY <2>3, <2>4, <1>a
  <2>6. errors[s] <= Cardinality(ReportsOf(failed, s))
    BY <1>0 DEF FailuresCounted, FailedOf
  <2>7. errors[s] \in Nat
    BY <1>0 DEF TypeOK
  <2>8. Cardinality(ReportsOf(failed', s)) > SendErrorRetryLimit
    BY <2>3, <2>5, <2>6, <2>7
  <2> QED
    BY <2>8 DEF Cause, FailedOf
<1>2. CASE \E k \in Ticks : \E m \in Messages : GiveUp(k, m)
  <2>1. PICK k \in Ticks, m \in Messages : GiveUp(k, m)
    BY <1>2
  <2>2. m \in tick[k].spent /\ UNCHANGED <<acked, lost>>
    BY <2>1 DEF GiveUp, history
  <2>3. m \in lost' \ acked'
    BY <2>2 DEF Leaving
  <2>4. s \in ReapedSubs(m)
    BY <2>1 DEF GiveUp, CloseSubscriptions
  <2>5. CASE Owner[m] = s
    BY <2>3, <2>5 DEF Cause
  <2>6. CASE Owner[m] # s
    <3>1. SubSession[s] \in LostSessions(m)
      BY <2>4, <2>6 DEF ReapedSubs
    <3>2. Session[m] \in Sessions /\ Peer[SubSession[s]] = Peer[Session[m]]
      BY <1>0, <3>1 DEF LostSessions
    <3>3. Kind[m] # "sigma2"
      BY <3>2
    <3> QED
      BY <2>3, <3>2, <3>3 DEF Cause
  <2> QED
    BY <2>5, <2>6
<1>3. CASE UNCHANGED live
  BY <1>3
<1> QED
  BY <1>1, <1>2, <1>3 DEF Next, vars, tables, Track, Send, FirstSent, ReportSent, Ack,
     CloseExchange, AbandonExchange, ReleaseReportCounter, Sweep, Recheck, Resend

\* noteSubscriptionSendError, closeSubscriptionByCounter and closeLostPeer end a
\* subscription only for the cause each is there for, whatever acks arrive meanwhile.
THEOREM ReapedForCauseHolds == Spec => []ReapedForCause
<1>0. Accounted <=> Leaving /\ FailuresCounted
  BY DEF Accounted, Leaving, FailuresCounted
<1>00. ReapedForCause <=> \A s \in Subs \ live : Cause(s)
  BY DEF ReapedForCause, Cause, FailedOf, ReportsOf
<1>1. Init => CauseInv
  BY InitIInv, InitAccounted DEF CauseInv, IInv
<1>2. CauseInv /\ [Next]_vars => CauseInv'
  <2> SUFFICES ASSUME CauseInv, [Next]_vars PROVE CauseInv'
    OBVIOUS
  <2>1. TypeOK' /\ Accounted'
    <3>1. TypeOK' /\ Leaving' /\ FailuresCounted'
      BY <1>0, TypeStep, LeavingStep, FailuresStep DEF CauseInv
    <3> QED
      BY <3>1 DEF Accounted, Leaving, FailuresCounted
  <2>2. ASSUME NEW s \in Subs \ live' PROVE Cause(s)'
    <3>1. CASE s \in live
      BY <3>1, <2>2, <1>0, ReapedStep DEF CauseInv
    <3>2. CASE s \notin live
      BY <3>2, <2>2, <1>0, <1>00, CauseStays DEF CauseInv
    <3> QED
      BY <3>1, <3>2
  <2>3. ReapedForCause'
    BY <2>2 DEF ReapedForCause, Cause, FailedOf, ReportsOf
  <2> QED
    BY <2>1, <2>3 DEF CauseInv
<1>3. CauseInv => ReapedForCause
  BY DEF CauseInv
<1> QED
  BY <1>1, <1>2, <1>3, PTL DEF Spec
=============================================================================
