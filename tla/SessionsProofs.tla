--------------------------- MODULE SessionsProofs ---------------------------
(***************************************************************************)
(* For any number of handshakes, peers and session ids and any cap: the    *)
(* types of Sessions, that no session is orphaned, that a peer's sessions  *)
(* stay within the cap and that a peer left without one is announced to.   *)
(*                                                                         *)
(* NoOrphan is not inductive: an entry of the table must also name the id  *)
(* it is under (Indexed), or a removal by the session's id would hit       *)
(* another entry, and only sessions in the table are marked as used, or    *)
(* the reaper would take one that is ending already.                       *)
(***************************************************************************)
EXTENDS Sessions, FiniteSetTheorems, TLAPS

Stages == {"idle", "reserved", "abandoned", "live", "notify", "zeroise", "hook", "announce", "closed"}
Handshake == [at : Stages, id : 0 .. MaxID, announce : BOOLEAN, adopted : BOOLEAN]
Types ==
    /\ table \in [Ids -> Handshakes \cup {Free}] /\ nextID \in Ids
    /\ hs \in [Handshakes -> Handshake]

\* Every entry is under its own id and has not ended; whoever has an id has a valid one.
Indexed ==
    /\ \A i \in Ids : table[i] # Free =>
          hs[table[i]].id = i /\ hs[table[i]].at \in {"reserved", "abandoned", "live"}
    /\ \A h \in Handshakes : hs[h].at \in {"reserved", "abandoned", "live"} => hs[h].id \in Ids

Live == {h \in Handshakes : hs[h].at = "live"}

\* The inductive invariant of the table.
Core == Types /\ Indexed /\ NoOrphan /\ used \subseteq Live

-----------------------------------------------------------------------------

\* The ids the allocator tries are ids.
LEMMA TriedIsId ==
    ASSUME NEW n \in Ids, NEW k \in Nat
    PROVE  ((n - 1 + k) % MaxID) + 1 \in Ids
<1>1. MaxID \in Nat /\ MaxID > 0 /\ n - 1 + k \in Nat
  BY SessionsAssumption DEF Ids
<1>2. (n - 1 + k) % MaxID \in 0 .. MaxID - 1
  BY <1>1
<1> QED
  BY <1>1, <1>2 DEF Ids

\* The sessions of the table are the live ones: with Indexed and NoOrphan the table and
\* the handshakes say the same.
LEMMA SessionsAreLive == Core => Sessions = Live /\ Placeholders \cap Live = {}
<1> SUFFICES ASSUME Core PROVE Sessions = Live /\ Placeholders \cap Live = {}
  OBVIOUS
<1>1. ASSUME NEW e \in Sessions PROVE e \in Live
  <2>1. PICK i \in Ids : table[i] = e
    BY DEF Sessions, InTable
  <2> QED
    BY <1>1, <2>1 DEF Sessions, InTable, IsSession, IsPlaceholder, Core, Indexed, Live
<1>2. ASSUME NEW e \in Live PROVE e \in Sessions
  <2>1. table[hs[e].id] = e /\ hs[e].id \in Ids /\ e # Free
    BY SessionsAssumption DEF Core, NoOrphan, Indexed, Live
  <2> QED
    BY <1>2, <2>1 DEF Sessions, InTable, IsSession, IsPlaceholder, Live
<1>3. Placeholders \cap Live = {}
  BY DEF Placeholders, IsPlaceholder, Live
<1> QED
  BY <1>1, <1>2, <1>3

\* Take of live sessions and of placeholders: the entries that stay are untouched.
LEMMA TakeCore ==
    ASSUME Core, NEW victims \in SUBSET Live, NEW dropped, dropped \cap Live = {},
           NEW at \in {"notify", "zeroise"}, NEW announce \in BOOLEAN,
           Take(victims, dropped, at, announce)
    PROVE  Core'
<1> USE SessionsAssumption
<1>1. /\ table' = [i \in Ids |-> IF table[i] \in victims \cup dropped THEN Free ELSE table[i]]
      /\ nextID' = nextID /\ used' = used \ victims
  BY DEF Take
<1>2. \A e \in Handshakes : hs'[e] = IF e \in victims
                                     THEN [hs[e] EXCEPT !.at = at, !.announce = announce] ELSE hs[e]
  BY DEF Take
<1>3. hs' \in [Handshakes -> Handshake]
  <2>1. \A e \in Handshakes : hs[e] \in Handshake
    BY DEF Core, Types
  <2>2. \A e \in Handshakes : [hs[e] EXCEPT !.at = at, !.announce = announce] \in Handshake
    <3>1. at \in Stages
      BY DEF Stages
    <3> QED
      BY <2>1, <3>1 DEF Handshake
  <2> QED
    BY <2>1, <2>2 DEF Take
<1>4. /\ \A e \in Handshakes \ victims : hs'[e] = hs[e]
      /\ \A e \in victims : e \in Handshakes /\ hs'[e].at = at /\ hs'[e].id = hs[e].id
  <2>1. \A e \in Handshakes : hs[e] \in Handshake
    BY DEF Core, Types
  <2>2. ASSUME NEW r \in Handshake
        PROVE  [r EXCEPT !.at = at, !.announce = announce].at = at
               /\ [r EXCEPT !.at = at, !.announce = announce].id = r.id
    BY DEF Handshake
  <2>3. victims \subseteq Handshakes
    BY DEF Live
  <2> QED
    BY <1>2, <2>1, <2>2, <2>3
<1>5. Types'
  BY <1>1, <1>3 DEF Core, Types
<1>6. Indexed'
  BY <1>1, <1>4 DEF Core, Types, Indexed
<1>7. NoOrphan'
  BY <1>1, <1>4 DEF Core, Types, NoOrphan, Indexed, Live
<1>8. used' \subseteq Live'
  BY <1>1, <1>4 DEF Core, Live
<1> QED
  BY <1>5, <1>6, <1>7, <1>8 DEF Core

\* A step of one handshake that keeps it in its place, in the table or out of it.
LEMMA OneMovesCore ==
    ASSUME Core, NEW h \in Handshakes, NEW r \in Handshake,
           hs' = [hs EXCEPT ![h] = r], UNCHANGED <<table, nextID>>, used' \subseteq used \cup {h},
           r.at = "live" <=> hs[h].at = "live", h \in used' => hs[h].at = "live",
           r.at \in {"reserved", "abandoned"} <=> hs[h].at \in {"reserved", "abandoned"},
           r.at \in {"reserved", "abandoned", "live"} => r.id = hs[h].id
    PROVE  Core'
<1>1. hs \in [Handshakes -> Handshake]
  BY DEF Core, Types
<1>2. hs'[h] = r /\ \A e \in Handshakes \ {h} : hs'[e] = hs[e]
  BY <1>1
<1>3. Types'
  BY <1>1 DEF Core, Types
<1>4. Indexed'
  BY <1>2, SessionsAssumption DEF Core, Types, Indexed
<1>5. NoOrphan'
  BY <1>2 DEF Core, NoOrphan
<1>6. used' \subseteq Live'
  BY <1>2 DEF Core, Live
<1> QED
  BY <1>3, <1>4, <1>5, <1>6 DEF Core

\* The records the steps write are of the handshakes' type.
LEMMA Records ==
    /\ NewHandshake \in Handshake
    /\ Ended \in Handshake /\ Ended.at = "closed"
    /\ \A r \in Handshake, at \in Stages :
          /\ [r EXCEPT !.at = at] \in Handshake
          /\ [r EXCEPT !.at = at].at = at /\ [r EXCEPT !.at = at].id = r.id
    /\ \A r \in Handshake, id \in Ids :
          /\ [r EXCEPT !.at = "reserved", !.id = id] \in Handshake
          /\ [r EXCEPT !.at = "reserved", !.id = id].at = "reserved"
          /\ [r EXCEPT !.at = "reserved", !.id = id].id = id
    /\ \A r \in Handshake :
          /\ [r EXCEPT !.adopted = TRUE] \in Handshake
          /\ [r EXCEPT !.adopted = TRUE].at = r.at /\ [r EXCEPT !.adopted = TRUE].id = r.id
<1>1. MaxID \in Nat
  BY SessionsAssumption
<1>2. NewHandshake \in Handshake
  BY <1>1 DEF NewHandshake, Handshake, Stages
<1>3. Ended \in Handshake /\ Ended.at = "closed"
  BY <1>2 DEF Ended, NewHandshake, Handshake, Stages
<1>4. \A r \in Handshake, at \in Stages :
          /\ [r EXCEPT !.at = at] \in Handshake
          /\ [r EXCEPT !.at = at].at = at /\ [r EXCEPT !.at = at].id = r.id
  BY DEF Handshake
<1>5. \A r \in Handshake, id \in Ids :
          /\ [r EXCEPT !.at = "reserved", !.id = id] \in Handshake
          /\ [r EXCEPT !.at = "reserved", !.id = id].at = "reserved"
          /\ [r EXCEPT !.at = "reserved", !.id = id].id = id
  <2>1. \A id \in Ids : id \in 0 .. MaxID
    BY <1>1 DEF Ids
  <2>2. "reserved" \in Stages
    BY DEF Stages
  <2> QED
    BY <2>1, <2>2 DEF Handshake
<1>6. \A r \in Handshake :
          /\ [r EXCEPT !.adopted = TRUE] \in Handshake
          /\ [r EXCEPT !.adopted = TRUE].at = r.at /\ [r EXCEPT !.adopted = TRUE].id = r.id
  BY DEF Handshake
<1> QED
  BY <1>2, <1>3, <1>4, <1>5, <1>6

\* An idle handshake takes an id whose entry is free or a placeholder's.
LEMMA ReserveCore ==
    ASSUME Core, NEW h \in Handshakes, hs[h].at = "idle", NEW id \in Ids,
           table[id] \notin Live, Reserve(h, id), nextID' \in Ids, UNCHANGED used
    PROVE  Core'
<1>1. hs \in [Handshakes -> Handshake] /\ table \in [Ids -> Handshakes \cup {Free}]
  BY DEF Core, Types
<1>2. table' = [table EXCEPT ![id] = h]
  BY DEF Reserve
<1>3. hs' \in [Handshakes -> Handshake] /\ hs'[h].at = "reserved" /\ hs'[h].id = id
  <2> DEFINE r == [hs[h] EXCEPT !.at = "reserved", !.id = id]
  <2>1. hs[h] \in Handshake
    BY <1>1
  <2>2. r \in Handshake /\ r.at = "reserved" /\ r.id = id
    <3>1. id \in 0 .. MaxID /\ "reserved" \in Stages
      BY SessionsAssumption DEF Ids, Stages
    <3> QED
      BY <2>1, <3>1 DEF Handshake
  <2>3. hs' = [hs EXCEPT ![h] = r]
    BY DEF Reserve
  <2> HIDE DEF r
  <2> QED
    BY <1>1, <2>2, <2>3
<1>4. \A e \in Handshakes \ {h} : hs'[e] = hs[e]
  BY <1>1 DEF Reserve
<1>5. Types'
  BY <1>1, <1>2, <1>3 DEF Core, Types
<1>6. Indexed'
  <2>1. \A i \in Ids : table[i] # h
    BY SessionsAssumption DEF Core, Indexed
  <2> QED
    BY <1>1, <1>2, <1>3, <1>4, <2>1 DEF Core, Indexed
<1>7. NoOrphan'
  BY <1>1, <1>2, <1>3, <1>4 DEF Core, NoOrphan, Indexed, Live
<1>8. used' \subseteq Live'
  BY <1>3, <1>4 DEF Core, Live
<1> QED
  BY <1>5, <1>6, <1>7, <1>8 DEF Core

\* AllocateID keeps the table in order.
LEMMA AllocateCore == ASSUME Core, NEW h \in Handshakes, AllocateID(h) PROVE Core'
<1>0. hs[h].at = "idle" /\ UNCHANGED used /\ hs[h] \in Handshake
  BY DEF AllocateID, Core, Types
<1>1. ASSUME NEW k \in FreeTries, Reserve(h, Tried(k)), nextID' = After(Tried(k)) PROVE Core'
  <2>1. Tried(k) \in Ids
    BY TriedIsId DEF Tried, FreeTries, Core, Types
  <2>2. table[Tried(k)] = Free
    BY DEF FreeTries
  <2>3. After(Tried(k)) \in Ids
    BY <2>1, SessionsAssumption DEF After, Ids
  <2> QED
    BY <1>0, <1>1, <2>1, <2>2, <2>3, ReserveCore, SessionsAssumption DEF Live
<1>2. ASSUME NEW e \in Placeholders, Reserve(h, hs[e].id), UNCHANGED nextID PROVE Core'
  <2>1. hs[e].id \in Ids /\ table[hs[e].id] = e /\ e \notin Live
    BY DEF Placeholders, InTable, IsPlaceholder, Core, Indexed, Live
  <2>2. nextID' \in Ids
    BY <1>2 DEF Core, Types
  <2> QED
    BY <1>0, <1>2, <2>1, <2>2, ReserveCore
<1>3. ASSUME hs' = [hs EXCEPT ![h] = Ended], UNCHANGED <<table, nextID, elder>> PROVE Core'
  BY <1>0, <1>3, Records, OneMovesCore DEF Core, Live
<1> QED
  BY <1>1, <1>2, <1>3 DEF AllocateID

\* ReleaseID drops the entry of its id only if it is a placeholder.
LEMMA ReleaseCore == ASSUME Core, NEW h \in Handshakes, ReleaseID(h) PROVE Core'
<1> DEFINE i == hs[h].id
<1>0. /\ hs \in [Handshakes -> Handshake] /\ table \in [Ids -> Handshakes \cup {Free}]
      /\ hs[h].at = "reserved" /\ i \in Ids
  BY DEF ReleaseID, Core, Types, Indexed
<1>1. hs' = [hs EXCEPT ![h] = Ended] /\ UNCHANGED <<nextID, used>>
  BY DEF ReleaseID
<1>2. hs'[h] = Ended /\ \A e \in Handshakes \ {h} : hs'[e] = hs[e]
  BY <1>0, <1>1
<1>3. /\ table' \in [Ids -> Handshakes \cup {Free}]
      /\ \A j \in Ids : table'[j] = table[j] \/ (j = i /\ table'[j] = Free)
      /\ table[i] \in Handshakes /\ hs[table[i]].at \in {"reserved", "abandoned"} => table'[i] = Free
  <2>1. CASE IsPlaceholder(table[i])
    BY <1>0, <2>1 DEF ReleaseID
  <2>2. CASE ~IsPlaceholder(table[i])
    BY <1>0, <2>2, SessionsAssumption DEF ReleaseID, IsPlaceholder
  <2> QED
    BY <2>1, <2>2
<1>4. \A j \in Ids : table'[j] # h
  BY <1>0, <1>3, SessionsAssumption DEF Core, Indexed
<1>5. Types'
  BY <1>0, <1>1, <1>3, Records DEF Core, Types
<1>6. Indexed'
  <2>1. \A e \in Handshakes : hs'[e].at \in {"reserved", "abandoned", "live"} => hs'[e].id \in Ids
    <3>1. hs'[h].at = "closed"
      BY <1>2 DEF Ended
    <3> QED
      BY <1>2, <3>1 DEF Core, Indexed
  <2>2. \A j \in Ids : table'[j] # Free => table'[j] = table[j] /\ hs'[table[j]] = hs[table[j]]
    BY <1>0, <1>2, <1>3, <1>4
  <2> QED
    BY <2>1, <2>2 DEF Core, Indexed
<1>7. NoOrphan'
  <2> SUFFICES ASSUME NEW e \in Handshakes, hs'[e].at = "live" PROVE table'[hs'[e].id] = e
    BY DEF NoOrphan
  <2>1. e # h /\ hs'[e] = hs[e]
    BY <1>2, Records
  <2>2. hs[e].id \in Ids /\ table[hs[e].id] = e
    BY <2>1 DEF Core, Indexed, NoOrphan
  <2>3. CASE hs[e].id = i
    <3>1. UNCHANGED table
      BY <2>1, <2>2, <2>3 DEF ReleaseID, IsPlaceholder
    <3> QED
      BY <2>1, <2>2, <3>1
  <2>4. CASE hs[e].id # i
    BY <1>3, <2>1, <2>2, <2>4
  <2> QED
    BY <2>3, <2>4
<1>8. used' \subseteq Live'
  BY <1>0, <1>1, <1>2 DEF Core, Live
<1> QED
  BY <1>5, <1>6, <1>7, <1>8 DEF Core

\* The sessions that Open(h) counts against the cap, and the ones it evicts.
Claimants(h) == {e \in SessionsOf(PeerOf[h]) \ Displaced(h) : KindOf[e] = "responder"}
Evicted(h) == Excess(h, Claimants(h))

\* What Open does to the table and the handshakes, entry by entry.
LEMMA OpenEffect ==
    ASSUME Core, NEW h \in Handshakes, Open(h)
    PROVE  /\ hs[h].at = "reserved" /\ hs[h].id \in Ids
           /\ Displaced(h) = {e \in Live : hs[e].id = hs[h].id}
           /\ Evicted(h) \subseteq Claimants(h) /\ Claimants(h) \subseteq Live \ Displaced(h)
           /\ table' \in [Ids -> Handshakes \cup {Free}] /\ table'[hs[h].id] = h
           /\ \A i \in Ids \ {hs[h].id} :
                 table'[i] = IF table[i] \in Evicted(h) THEN Free ELSE table[i]
           /\ hs' \in [Handshakes -> Handshake] /\ hs'[h].at = "live"
           /\ \A e \in Handshakes : hs'[e].id = hs[e].id /\ hs'[e].announce = hs[e].announce
           /\ \A e \in Displaced(h) : hs'[e].at = "notify"
           /\ \A e \in Evicted(h) : hs'[e].at = "zeroise"
           /\ \A e \in Handshakes \ (Displaced(h) \cup Evicted(h) \cup {h}) : hs'[e] = hs[e]
           /\ nextID' = nextID /\ used' = used \ (Displaced(h) \cup Evicted(h))
<1>0. /\ hs \in [Handshakes -> Handshake] /\ table \in [Ids -> Handshakes \cup {Free}]
      /\ hs[h].at = "reserved" /\ hs[h].id \in Ids
  BY DEF Open, Core, Types, Indexed
<1>1. Displaced(h) = {e \in Live : hs[e].id = hs[h].id}
  BY SessionsAreLive DEF Displaced
<1>2. Evicted(h) \subseteq Claimants(h)
  BY DEF Evicted, Excess
<1>3. Claimants(h) \subseteq Live \ Displaced(h)
  BY SessionsAreLive DEF Claimants, SessionsOf
<1>4. h \notin Live /\ Live \subseteq Handshakes
  BY <1>0 DEF Live
<1>5. /\ table' = [i \in Ids |-> IF i = hs[h].id THEN h
                                 ELSE IF table[i] \in Evicted(h) THEN Free ELSE table[i]]
      /\ nextID' = nextID /\ used' = used \ (Displaced(h) \cup Evicted(h))
  BY DEF Open, Evicted, Claimants
<1>6. hs' = [e \in Handshakes |->
                      IF e = h THEN [hs[h] EXCEPT !.at = "live"]
                      ELSE IF e \in Displaced(h) THEN [hs[e] EXCEPT !.at = "notify"]
                      ELSE IF e \in Evicted(h) THEN [hs[e] EXCEPT !.at = "zeroise"] ELSE hs[e]]
  BY DEF Open, Evicted, Claimants
<1>7. \A r \in Handshake, at \in Stages :
          /\ [r EXCEPT !.at = at] \in Handshake /\ [r EXCEPT !.at = at].at = at
          /\ [r EXCEPT !.at = at].id = r.id /\ [r EXCEPT !.at = at].announce = r.announce
  BY DEF Handshake
<1>8. {"live", "notify", "zeroise"} \subseteq Stages
  BY DEF Stages
<1>9. \A e \in Handshakes :
         /\ hs'[e] \in Handshake /\ hs'[e].id = hs[e].id /\ hs'[e].announce = hs[e].announce
         /\ hs'[e].at = IF e = h THEN "live"
                        ELSE IF e \in Displaced(h) THEN "notify"
                        ELSE IF e \in Evicted(h) THEN "zeroise" ELSE hs[e].at
         /\ e \notin Displaced(h) \cup Evicted(h) \cup {h} => hs'[e] = hs[e]
  <2> SUFFICES ASSUME NEW e \in Handshakes
      PROVE  /\ hs'[e] \in Handshake /\ hs'[e].id = hs[e].id /\ hs'[e].announce = hs[e].announce
             /\ hs'[e].at = IF e = h THEN "live"
                            ELSE IF e \in Displaced(h) THEN "notify"
                            ELSE IF e \in Evicted(h) THEN "zeroise" ELSE hs[e].at
             /\ e \notin Displaced(h) \cup Evicted(h) \cup {h} => hs'[e] = hs[e]
    OBVIOUS
  <2>1. hs[e] \in Handshake
    BY <1>0
  <2>2. CASE e = h
    <3>1. hs'[h] = [hs[h] EXCEPT !.at = "live"]
      BY <1>6
    <3> QED
      BY <1>7, <1>8, <2>1, <2>2, <3>1
  <2>3. CASE e # h /\ e \in Displaced(h)
    BY <1>6, <1>7, <1>8, <2>1, <2>3
  <2>4. CASE e # h /\ e \notin Displaced(h) /\ e \in Evicted(h)
    BY <1>6, <1>7, <1>8, <2>1, <2>4
  <2>5. CASE e # h /\ e \notin Displaced(h) /\ e \notin Evicted(h)
    BY <1>6, <2>1, <2>5
  <2> QED
    BY <2>2, <2>3, <2>4, <2>5
<1>10. hs' \in [Handshakes -> Handshake]
  <2>1. DOMAIN hs' = Handshakes /\ hs' = [e \in Handshakes |-> hs'[e]]
    BY <1>6
  <2> QED
    BY <1>9, <2>1
<1>11. /\ table' \in [Ids -> Handshakes \cup {Free}] /\ table'[hs[h].id] = h
       /\ \A i \in Ids \ {hs[h].id} : table'[i] = IF table[i] \in Evicted(h) THEN Free ELSE table[i]
  BY <1>0, <1>5
<1>12. /\ \A e \in Displaced(h) : hs'[e].at = "notify"
       /\ \A e \in Evicted(h) : hs'[e].at = "zeroise"
       /\ \A e \in Handshakes \ (Displaced(h) \cup Evicted(h) \cup {h}) : hs'[e] = hs[e]
  BY <1>1, <1>2, <1>3, <1>4, <1>9
<1> QED
  BY <1>0, <1>1, <1>2, <1>3, <1>5, <1>9, <1>10, <1>11, <1>12

\* Opening a session, over whatever has its id, orphans none.
LEMMA OpenCore == ASSUME Core, NEW h \in Handshakes, Open(h) PROVE Core'
<1> DEFINE id == hs[h].id
           D == Displaced(h)
           V == Evicted(h)
<1>1. /\ hs[h].at = "reserved" /\ id \in Ids /\ D = {e \in Live : hs[e].id = id}
      /\ V \subseteq Live \ D /\ hs' \in [Handshakes -> Handshake] /\ hs'[h].at = "live"
      /\ table' \in [Ids -> Handshakes \cup {Free}] /\ table'[id] = h
      /\ nextID' = nextID /\ used' = used \ (D \cup V)
  BY OpenEffect
<1>2. \A i \in Ids \ {id} : table'[i] = IF table[i] \in V THEN Free ELSE table[i]
  BY OpenEffect
<1>3. \A e \in Handshakes : hs'[e].id = hs[e].id
  BY OpenEffect
<1>4. \A e \in D \cup V : hs'[e].at \notin {"reserved", "abandoned", "live"}
  BY OpenEffect
<1>5. \A e \in Handshakes \ (D \cup V \cup {h}) : hs'[e] = hs[e]
  BY OpenEffect
<1>6. h \notin Live /\ Live \subseteq Handshakes
  BY <1>1 DEF Live
<1>c. /\ table \in [Ids -> Handshakes \cup {Free}] /\ Free \notin Handshakes
      /\ \A i \in Ids : table[i] # Free =>
            hs[table[i]].id = i /\ hs[table[i]].at \in {"reserved", "abandoned", "live"}
      /\ \A e \in Handshakes : hs[e].at \in {"reserved", "abandoned", "live"} => hs[e].id \in Ids
      /\ \A e \in Live : table[hs[e].id] = e
      /\ used \subseteq Live
  BY SessionsAssumption DEF Core, Types, Indexed, NoOrphan, Live
<1> HIDE DEF id, D, V
<1>7. Types'
  BY <1>1 DEF Core, Types
<1>8. Indexed'
  <2>1. ASSUME NEW i \in Ids, table'[i] # Free
        PROVE  hs'[table'[i]].id = i /\ hs'[table'[i]].at \in {"reserved", "abandoned", "live"}
    <3>1. CASE i = id
      BY <1>1, <1>3, <3>1 DEF id
    <3>2. CASE i # id
      <4>1. table'[i] = table[i] /\ table[i] \notin V /\ table[i] \in Handshakes
        BY <1>1, <1>2, <1>c, <2>1, <3>2
      <4>2. table[i] \notin D /\ table[i] # h
        BY <1>1, <1>c, <2>1, <3>2, <4>1 DEF id
      <4> QED
        BY <1>5, <1>c, <2>1, <4>1, <4>2
    <3> QED
      BY <3>1, <3>2
  <2>2. ASSUME NEW e \in Handshakes, hs'[e].at \in {"reserved", "abandoned", "live"}
        PROVE  hs'[e].id \in Ids
    BY <1>1, <1>3, <1>4, <1>5, <1>c, <2>2 DEF id
  <2> QED
    BY <2>1, <2>2 DEF Indexed
<1>9. NoOrphan'
  <2> SUFFICES ASSUME NEW e \in Handshakes, hs'[e].at = "live" PROVE table'[hs'[e].id] = e
    BY DEF NoOrphan
  <2>1. CASE e = h
    BY <1>1, <1>3, <2>1 DEF id
  <2>2. CASE e # h
    <3>1. e \notin D \cup V /\ hs'[e] = hs[e] /\ e \in Live
      BY <1>4, <1>5, <2>2 DEF Live
    <3>2. hs[e].id # id /\ hs[e].id \in Ids /\ table[hs[e].id] = e
      BY <1>1, <1>c, <3>1 DEF Live
    <3> QED
      BY <1>2, <3>1, <3>2
  <2> QED
    BY <2>1, <2>2
<1>10. used' \subseteq Live'
  BY <1>1, <1>5, <1>6, <1>c DEF Live
<1> QED
  BY <1>7, <1>8, <1>9, <1>10 DEF Core

\* Every way of closing sessions is a Take of live ones and of placeholders.
Closing(victims, dropped, at, announce) ==
    /\ victims \subseteq Live /\ dropped \subseteq Placeholders
    /\ at \in {"notify", "zeroise"} /\ announce \in BOOLEAN
    /\ Take(victims, dropped, at, announce)

\* The actions that close sessions.
CloseStep ==
    \/ \E i \in Ids : Close(i)
    \/ \E p \in Peers : ClosePeer(p) \/ ClosePeerLost(p)
    \/ \E except \in Handshakes \cup {Free} : CloseFabric(except)
    \/ ClosePASESessions \/ CloseAllGraceful
    \/ \E victims \in SUBSET used, dropped \in SUBSET Handshakes : ReapIdle(victims, dropped)

\* They all do, and nothing else.
LEMMA ClosesByTaking ==
    ASSUME Core, CloseStep
    PROVE  \E victims, dropped, at, announce : Closing(victims, dropped, at, announce)
<1>0. Sessions = Live /\ used \subseteq Live /\ \A p : SessionsOf(p) \subseteq Live
  BY SessionsAreLive DEF Core, SessionsOf
<1>1. ASSUME NEW i \in Ids, Close(i)
      PROVE  \E victims, dropped, at, announce : Closing(victims, dropped, at, announce)
  <2>0. table[i] \in Handshakes /\ table[i] \in InTable
    BY <1>1 DEF Close, Core, Types, InTable
  <2>1. CASE IsSession(table[i])
    <3>1. Take({table[i]}, {}, "zeroise", TRUE) /\ table[i] \in Live
      BY <1>0, <1>1, <2>0, <2>1 DEF Close, Sessions
    <3> QED
      BY <3>1 DEF Closing
  <2>2. CASE ~IsSession(table[i])
    <3>1. Take({}, {table[i]}, "zeroise", TRUE) /\ table[i] \in Placeholders
      BY <1>1, <2>0, <2>2 DEF Close, Placeholders, IsSession
    <3> QED
      BY <3>1 DEF Closing
  <2> QED
    BY <2>1, <2>2
<1>2. ASSUME NEW p \in Peers, ClosePeer(p)
      PROVE  \E victims, dropped, at, announce : Closing(victims, dropped, at, announce)
  <2>1. Closing(SessionsOf(p), {}, "notify", TRUE)
    BY <1>0, <1>2 DEF ClosePeer, Closing
  <2> QED
    BY <2>1
<1>3. ASSUME NEW p \in Peers, ClosePeerLost(p)
      PROVE  \E victims, dropped, at, announce : Closing(victims, dropped, at, announce)
  <2>1. PICK victims \in SUBSET SessionsOf(p) : Take(victims, {}, "zeroise", TRUE)
    BY <1>3 DEF ClosePeerLost
  <2>2. Closing(victims, {}, "zeroise", TRUE)
    BY <1>0, <2>1 DEF Closing
  <2> QED
    BY <2>2
<1>4. ASSUME NEW except, CloseFabric(except)
      PROVE  \E victims, dropped, at, announce : Closing(victims, dropped, at, announce)
  <2>1. PICK victims \in SUBSET Sessions : Take(victims, {}, "zeroise", FALSE)
    BY <1>4 DEF CloseFabric
  <2>2. Closing(victims, {}, "zeroise", FALSE)
    BY <1>0, <2>1 DEF Closing
  <2> QED
    BY <2>2
<1>5. ASSUME ClosePASESessions
      PROVE  \E victims, dropped, at, announce : Closing(victims, dropped, at, announce)
  <2>1. PICK victims \in SUBSET Sessions : Take(victims, {}, "zeroise", FALSE)
    BY <1>5 DEF ClosePASESessions
  <2>2. Closing(victims, {}, "zeroise", FALSE)
    BY <1>0, <2>1 DEF Closing
  <2> QED
    BY <2>2
<1>6. ASSUME CloseAllGraceful
      PROVE  \E victims, dropped, at, announce : Closing(victims, dropped, at, announce)
  <2>1. Closing(Sessions, Placeholders, "notify", FALSE)
    BY <1>0, <1>6 DEF CloseAllGraceful, Closing
  <2> QED
    BY <2>1
<1>7. ASSUME NEW victims \in SUBSET used, NEW dropped, ReapIdle(victims, dropped)
      PROVE  \E v, d, at, announce : Closing(v, d, at, announce)
  <2>1. dropped \subseteq Placeholders
    BY <1>7, SessionsAssumption DEF ReapIdle, Placeholders, IsPlaceholder, InTable
  <2>2. Closing(victims, dropped, "notify", TRUE)
    BY <1>0, <1>7, <2>1 DEF ReapIdle, Closing
  <2> QED
    BY <2>2
<1> QED
  BY <1>1, <1>2, <1>3, <1>4, <1>5, <1>6, <1>7 DEF CloseStep

\* The steps of one handshake that leave the table as it is.
LEMMA MoveCore ==
    ASSUME Core, NEW h \in Handshakes,
           \/ Abandon(h) \/ MarkActive(h) \/ AdoptFabricIndex(h)
           \/ NotifyGracefulClose(h) \/ CloseStaleEntry(h) \/ FireOnSessionClose(h)
           \/ FireReannounceIfPeerGone(h)
    PROVE  Core'
<1>0. hs[h] \in Handshake /\ hs \in [Handshakes -> Handshake] /\ (h \in used => hs[h].at = "live")
  BY DEF Core, Types, Live
<1>r. \A at \in Stages :
          /\ [hs[h] EXCEPT !.at = at] \in Handshake
          /\ [hs[h] EXCEPT !.at = at].at = at /\ [hs[h] EXCEPT !.at = at].id = hs[h].id
  BY <1>0, Records
<1>s. {"abandoned", "zeroise", "hook", "announce"} \subseteq Stages
  BY DEF Stages
<1>1. CASE Abandon(h)
  <2>1. hs' = [hs EXCEPT ![h] = [hs[h] EXCEPT !.at = "abandoned"]]
    BY <1>1 DEF Abandon
  <2> QED
    BY <1>0, <1>r, <1>s, <1>1, <2>1, OneMovesCore DEF Abandon
<1>2. CASE MarkActive(h)
  <2>1. hs[h].at = "live"
    BY <1>2, SessionsAreLive DEF MarkActive, Live
  <2>2. hs' = [hs EXCEPT ![h] = hs[h]]
    BY <1>0, <1>2 DEF MarkActive
  <2> QED
    BY <1>0, <1>2, <2>1, <2>2, OneMovesCore DEF MarkActive
<1>3. CASE AdoptFabricIndex(h)
  <2>1. hs' = [hs EXCEPT ![h] = [hs[h] EXCEPT !.adopted = TRUE]]
    BY <1>3 DEF AdoptFabricIndex
  <2>2. /\ [hs[h] EXCEPT !.adopted = TRUE] \in Handshake
        /\ [hs[h] EXCEPT !.adopted = TRUE].at = hs[h].at
        /\ [hs[h] EXCEPT !.adopted = TRUE].id = hs[h].id
    BY <1>0, Records
  <2> QED
    BY <1>0, <1>3, <2>1, <2>2, OneMovesCore DEF AdoptFabricIndex
<1>4. CASE NotifyGracefulClose(h)
  BY <1>0, <1>r, <1>s, <1>4, OneMovesCore DEF NotifyGracefulClose, Step, At
<1>5. CASE CloseStaleEntry(h)
  BY <1>0, <1>r, <1>s, <1>5, OneMovesCore DEF CloseStaleEntry, Step, At
<1>6. CASE FireOnSessionClose(h)
  <2>1. CASE hs[h].announce
    BY <1>0, <1>r, <1>s, <1>6, <2>1, OneMovesCore DEF FireOnSessionClose, Step, At
  <2>2. CASE ~hs[h].announce
    BY <1>0, <1>6, <2>2, Records, OneMovesCore DEF FireOnSessionClose, Step, At
  <2> QED
    BY <2>1, <2>2
<1>7. CASE FireReannounceIfPeerGone(h)
  BY <1>0, <1>7, Records, OneMovesCore DEF FireReannounceIfPeerGone, Step
<1> QED
  BY <1>1, <1>2, <1>3, <1>4, <1>5, <1>6, <1>7

\* Next, with the closing steps apart.
LEMMA NextSplit ==
    Next => \/ CloseStep
            \/ \E h \in Handshakes :
                 \/ AllocateID(h) \/ ReleaseID(h) \/ Open(h) \/ Abandon(h) \/ MarkActive(h)
                 \/ AdoptFabricIndex(h) \/ NotifyGracefulClose(h) \/ CloseStaleEntry(h)
                 \/ FireOnSessionClose(h) \/ FireReannounceIfPeerGone(h)
  BY DEF Next, CloseStep

\* The table stays in order.
LEMMA CoreStep == Core /\ [Next]_vars => Core'
<1> SUFFICES ASSUME Core, [Next]_vars PROVE Core'
  OBVIOUS
<1>1. CASE CloseStep
  <2>1. PICK victims, dropped, at, announce : Closing(victims, dropped, at, announce)
    BY <1>1, ClosesByTaking
  <2>2. dropped \cap Live = {}
    BY <2>1, SessionsAreLive DEF Closing
  <2> QED
    BY <2>1, <2>2, TakeCore DEF Closing
<1>2. CASE UNCHANGED vars
  BY <1>2 DEF vars, Core, Types, Indexed, NoOrphan, Live
<1> QED
  BY <1>1, <1>2, NextSplit, AllocateCore, ReleaseCore, OpenCore, MoveCore

\* Nothing is in the table at first.
LEMMA InitCore == Init => Core
<1> SUFFICES ASSUME Init PROVE Core
  OBVIOUS
<1>1. \A h \in Handshakes : hs[h] = NewHandshake
  BY DEF Init
<1>2. \A h \in Handshakes : hs[h].at = "idle"
  BY <1>1 DEF NewHandshake
<1>3. Types
  BY Records DEF Init, Types
<1> QED
  BY <1>2, <1>3 DEF Init, Core, Indexed, NoOrphan

\* The inductive invariant of the table holds throughout.
LEMMA CoreHolds == Spec => []Core
  BY InitCore, CoreStep, PTL DEF Spec

\* A live session is always found under its id, so that Close, ClosePeer and the reaper
\* reach it: allocateIDLocked reclaims ids of placeholders only, and installEntryLocked
\* hands a session it displaces to the close hooks.
THEOREM NoOrphanHolds == Spec => []NoOrphan
<1>1. Core => NoOrphan
  BY DEF Core
<1> QED
  BY CoreHolds, <1>1, PTL

-----------------------------------------------------------------------------
\* The announcement to a peer that is left without a session.

Ending(e) == hs[e].announce /\ hs[e].at \in {"notify", "zeroise", "hook", "announce"}

\* A peer that a close left alone is without a session until one is opened, so that
\* fireReannounceIfPeerGone finds none when the last of its sessions gets there.
LeftAlone ==
    /\ left \subseteq Peers
    /\ \A p \in left : (\A e \in Live : PeerOf[e] # p)
                       /\ (p \in announced \/ \E e \in Handshakes : PeerOf[e] = p /\ Ending(e))

\* A step that opens no session and leaves no further peer alone.
LEMMA StillAlone ==
    ASSUME LeftAlone, UNCHANGED left, announced \subseteq announced', Live' \subseteq Live,
           \A e \in Handshakes : Ending(e) /\ PeerOf[e] \in left =>
                                    Ending(e)' \/ PeerOf[e] \in announced'
    PROVE  LeftAlone'
  BY DEF LeftAlone

\* A step of a handshake that has no session to end.
LEMMA OneMovesAlone ==
    ASSUME Core, LeftAlone, NEW h \in Handshakes, hs[h].at \in {"idle", "reserved", "abandoned", "live"},
           hs' \in [Handshakes -> Handshake], \A e \in Handshakes \ {h} : hs'[e] = hs[e],
           hs'[h].at = "live" => hs[h].at = "live",
           UNCHANGED <<announced, left>>
    PROVE  LeftAlone'
<1>1. Live' \subseteq Live
  BY DEF Live
<1>2. \A e \in Handshakes : Ending(e) => Ending(e)'
  BY DEF Ending
<1> QED
  BY <1>1, <1>2, StillAlone

\* Taking sessions leaves those peers alone that had no other.
LEMMA TakeAlone ==
    ASSUME Core, LeftAlone, NEW victims, NEW dropped, NEW at, NEW announce,
           Closing(victims, dropped, at, announce)
    PROVE  LeftAlone'
<1>0. /\ victims \subseteq Live /\ at \in {"notify", "zeroise"} /\ announce \in BOOLEAN
      /\ Live \subseteq Handshakes
  BY DEF Closing, Live
<1>1. \A e \in Handshakes : hs'[e] = IF e \in victims
                                     THEN [hs[e] EXCEPT !.at = at, !.announce = announce] ELSE hs[e]
  BY DEF Take, Closing
<1>2. /\ \A e \in Handshakes \ victims : hs'[e] = hs[e]
      /\ \A e \in victims : hs'[e].at = at /\ hs'[e].announce = announce
  <2>1. \A e \in Handshakes : hs[e] \in Handshake
    BY DEF Core, Types
  <2>2. ASSUME NEW r \in Handshake
        PROVE  [r EXCEPT !.at = at, !.announce = announce].at = at
               /\ [r EXCEPT !.at = at, !.announce = announce].announce = announce
    BY DEF Handshake
  <2> QED
    BY <1>0, <1>1, <2>1, <2>2
<1>3. Live' = Live \ victims
  BY <1>0, <1>2 DEF Live
<1>4. \A e \in Handshakes : Ending(e) => Ending(e)'
  BY <1>0, <1>2 DEF Ending, Live
<1>5. announced' = announced
  BY DEF Closing, Take
<1>6. ASSUME NEW p \in LeftBy(victims), announce
      PROVE  /\ p \in Peers /\ \A e \in Live' : PeerOf[e] # p
             /\ \E e \in Handshakes : PeerOf[e] = p /\ Ending(e)'
  <2>1. \A q : SessionsOf(q) = {e \in Live : PeerOf[e] = q}
    BY SessionsAreLive DEF SessionsOf
  <2>2. p \in Peers /\ SessionsOf(p) # {} /\ SessionsOf(p) \subseteq victims
    BY <1>6 DEF LeftBy
  <2>3. PICK e \in SessionsOf(p) : TRUE
    BY <2>2
  <2>4. e \in victims /\ e \in Handshakes /\ PeerOf[e] = p
    BY <1>0, <2>1, <2>2, <2>3
  <2>5. Ending(e)'
    BY <1>0, <1>2, <1>6, <2>4 DEF Ending
  <2> QED
    BY <1>3, <2>1, <2>2, <2>4, <2>5
<1>7. left' \subseteq left \cup LeftBy(victims) /\ (~announce => left' = left)
  BY DEF Closing, Take
<1> QED
  BY <1>0, <1>3, <1>4, <1>5, <1>6, <1>7 DEF LeftAlone

\* Opening a session gives its peer one.
LEMMA OpenAlone == ASSUME Core, LeftAlone, NEW h \in Handshakes, Open(h) PROVE LeftAlone'
<1>1. /\ announced' = announced \ {PeerOf[h]} /\ left' = left \ {PeerOf[h]}
      /\ hs[h].at = "reserved" /\ Displaced(h) \cup Evicted(h) \subseteq Live
  <2>1. announced' = announced \ {PeerOf[h]} /\ left' = left \ {PeerOf[h]} /\ hs[h].at = "reserved"
    BY DEF Open
  <2>2. Displaced(h) \subseteq Live /\ Evicted(h) \subseteq Live
    BY OpenEffect
  <2> QED
    BY <2>1, <2>2
<1>2. \A e \in Handshakes \ (Displaced(h) \cup Evicted(h) \cup {h}) : hs'[e] = hs[e]
  BY OpenEffect
<1>3. \A e \in Displaced(h) \cup Evicted(h) : hs'[e].at # "live"
  BY OpenEffect
<1>4. Live' \subseteq Live \cup {h}
  BY <1>2, <1>3 DEF Live
<1>5. \A e \in Handshakes : Ending(e) => Ending(e)'
  BY <1>1, <1>2 DEF Ending, Live
<1> QED
  BY <1>1, <1>4, <1>5 DEF LeftAlone

\* The steps of the end of a session: the last one finds a peer that was left alone alone.
LEMMA EndAlone ==
    ASSUME Core, LeftAlone, NEW h \in Handshakes,
           \/ NotifyGracefulClose(h) \/ CloseStaleEntry(h) \/ FireOnSessionClose(h)
           \/ FireReannounceIfPeerGone(h)
    PROVE  LeftAlone'
<1>0. hs[h] \in Handshake /\ hs \in [Handshakes -> Handshake]
  BY DEF Core, Types
<1>1. \A at \in Stages : /\ [hs[h] EXCEPT !.at = at].at = at
                         /\ [hs[h] EXCEPT !.at = at].announce = hs[h].announce
  BY <1>0 DEF Handshake
<1>2. UNCHANGED left /\ \A e \in Handshakes \ {h} : hs'[e] = hs[e]
  BY <1>0 DEF NotifyGracefulClose, CloseStaleEntry, FireOnSessionClose, FireReannounceIfPeerGone, Step
<1>3. CASE NotifyGracefulClose(h)
  <2>1. hs'[h] = [hs[h] EXCEPT !.at = "zeroise"] /\ UNCHANGED announced
    BY <1>0, <1>3 DEF NotifyGracefulClose, Step, At
  <2>2. hs'[h].at = "zeroise" /\ hs'[h].announce = hs[h].announce
    BY <1>1, <2>1 DEF Stages
  <2> QED
    BY <1>2, <2>1, <2>2, StillAlone DEF Ending, Live
<1>4. CASE CloseStaleEntry(h)
  <2>1. hs'[h] = [hs[h] EXCEPT !.at = "hook"] /\ UNCHANGED announced
    BY <1>0, <1>4 DEF CloseStaleEntry, Step, At
  <2>2. hs'[h].at = "hook" /\ hs'[h].announce = hs[h].announce
    BY <1>1, <2>1 DEF Stages
  <2> QED
    BY <1>2, <2>1, <2>2, StillAlone DEF Ending, Live
<1>5. CASE FireOnSessionClose(h)
  <2>0. UNCHANGED announced
    BY <1>5 DEF FireOnSessionClose
  <2>1. CASE hs[h].announce
    <3>1. hs'[h] = [hs[h] EXCEPT !.at = "announce"]
      BY <1>0, <1>5, <2>1 DEF FireOnSessionClose, Step, At
    <3>2. hs'[h].at = "announce" /\ hs'[h].announce = hs[h].announce
      BY <1>1, <3>1 DEF Stages
    <3> QED
      BY <1>2, <2>0, <3>2, StillAlone DEF Ending, Live
  <2>2. CASE ~hs[h].announce
    <3>1. hs'[h] = Ended
      BY <1>0, <1>5, <2>2 DEF FireOnSessionClose, Step, At
    <3> QED
      BY <1>2, <2>0, <2>2, <3>1, Records, StillAlone DEF Ending, Live
  <2> QED
    BY <2>1, <2>2
<1>6. CASE FireReannounceIfPeerGone(h)
  <2>1. hs'[h] = Ended /\ announced \subseteq announced'
    BY <1>0, <1>6 DEF FireReannounceIfPeerGone, Step
  <2>2. Live' \subseteq Live
    BY <1>2, <2>1, Records DEF Live
  <2>3. PeerOf[h] \in left => PeerOf[h] \in announced'
    <3>1. PeerOf[h] \in left => SessionsOf(PeerOf[h]) = {}
      BY SessionsAreLive DEF SessionsOf, LeftAlone
    <3> QED
      BY <1>6, <3>1 DEF FireReannounceIfPeerGone, PeerGone
  <2>4. \A e \in Handshakes : Ending(e) /\ PeerOf[e] \in left =>
                                 Ending(e)' \/ PeerOf[e] \in announced'
    BY <1>2, <2>3 DEF Ending
  <2> QED
    BY <1>2, <2>1, <2>2, <2>4, StillAlone
<1> QED
  BY <1>3, <1>4, <1>5, <1>6

\* Whatever is opened and closed at the same time.
LEMMA AloneStep == Core /\ LeftAlone /\ [Next]_vars => LeftAlone'
<1> SUFFICES ASSUME Core, LeftAlone, [Next]_vars PROVE LeftAlone'
  OBVIOUS
<1>0. Core' /\ \A e \in Handshakes : hs[e] \in Handshake
  BY CoreStep DEF Core, Types
<1>1. CASE CloseStep
  BY <1>1, ClosesByTaking, TakeAlone
<1>2. CASE UNCHANGED vars
  BY <1>2 DEF vars, LeftAlone, Live, Ending
<1>3. ASSUME NEW h \in Handshakes,
             AllocateID(h) \/ ReleaseID(h) \/ Abandon(h) \/ MarkActive(h) \/ AdoptFabricIndex(h)
      PROVE  LeftAlone'
  <2>0. hs \in [Handshakes -> Handshake] /\ hs' \in [Handshakes -> Handshake]
    BY <1>0 DEF Core, Types
  <2>1. UNCHANGED <<announced, left>>
    BY <1>3 DEF AllocateID, ReleaseID, Abandon, MarkActive, AdoptFabricIndex
  <2>2. \A e \in Handshakes \ {h} : hs'[e] = hs[e]
    BY <1>3, <2>0 DEF AllocateID, Reserve, ReleaseID, Abandon, MarkActive, AdoptFabricIndex
  <2>3. CASE AllocateID(h)
    <3>1. hs[h].at = "idle" /\ hs'[h].at # "live"
      <4>1. hs'[h] = Ended \/ \E id : hs'[h] = [hs[h] EXCEPT !.at = "reserved", !.id = id]
        BY <2>0, <2>3 DEF AllocateID, Reserve
      <4>2. \A id : [hs[h] EXCEPT !.at = "reserved", !.id = id].at = "reserved"
        BY <1>0 DEF Handshake
      <4> QED
        BY <2>3, <4>1, <4>2, Records DEF AllocateID
    <3> QED
      BY <2>0, <2>1, <2>2, <3>1, OneMovesAlone
  <2>4. CASE ReleaseID(h)
    <3>1. hs[h].at = "reserved" /\ hs'[h].at # "live"
      BY <2>0, <2>4, Records DEF ReleaseID
    <3> QED
      BY <2>0, <2>1, <2>2, <3>1, OneMovesAlone
  <2>5. CASE Abandon(h)
    <3>1. hs'[h] = [hs[h] EXCEPT !.at = "abandoned"]
      BY <2>0, <2>5 DEF Abandon
    <3>2. hs[h].at = "reserved" /\ hs'[h].at # "live"
      BY <1>0, <2>5, <3>1 DEF Abandon, Handshake
    <3> QED
      BY <2>0, <2>1, <2>2, <3>2, OneMovesAlone
  <2>6. CASE MarkActive(h) \/ AdoptFabricIndex(h)
    <3>1. hs[h].at = "live"
      BY <2>6, SessionsAreLive DEF MarkActive, AdoptFabricIndex, Live
    <3> QED
      BY <2>0, <2>1, <2>2, <3>1, OneMovesAlone
  <2> QED
    BY <1>3, <2>3, <2>4, <2>5, <2>6
<1> QED
  BY <1>1, <1>2, <1>3, NextSplit, OpenAlone, EndAlone

\* A peer that Close, ClosePeer, ClosePeerLost or the reaper left without a session was
\* announced to, or a session on its way through the hooks will: closeStaleEntry removes
\* the entry under the lock before the announcement looks for others, so that of several
\* sessions that close at the same time the last finds none.
THEOREM GoneIsAnnouncedHolds == Spec => []GoneIsAnnounced
<1>1. Init => LeftAlone
  BY DEF Init, LeftAlone
<1>2. LeftAlone => GoneIsAnnounced
  BY DEF LeftAlone, GoneIsAnnounced, Ending
<1> QED
  BY CoreHolds, AloneStep, <1>1, <1>2, PTL DEF Spec

-----------------------------------------------------------------------------
\* The orders of the placeholders and of the sessions that carried traffic.

\* An order of a set orders its subsets.
LEMMA OrdersAmong ==
    ASSUME NEW R, NEW S, Orders(R, S), NEW T \in SUBSET S
    PROVE  Orders(Among(R, T), T)
  BY DEF Orders, Among

\* A new last element leaves it an order.
LEMMA OrdersLast ==
    ASSUME NEW R, NEW S, Orders(R, S), NEW T \in SUBSET S, NEW h, h \notin T
    PROVE  Orders(Last(R, T, h), T \cup {h})
<1>1. Orders(Among(R, T), T)
  BY OrdersAmong
<1> DEFINE Q == Among(R, T)
           L == Last(R, T, h)
<1>2. L = Q \cup (T \X {h})
  BY DEF Last
<1>3. \A c, d : <<c, d>> \in L <=> (<<c, d>> \in Q \/ (c \in T /\ d = h))
  BY <1>2
<1>4. \A c, d : <<c, d>> \in Q => c \in T /\ d \in T
  BY <1>1 DEF Orders
<1>5. L \subseteq (T \cup {h}) \X (T \cup {h})
  BY <1>1, <1>2 DEF Orders
<1> HIDE DEF L, Q
<1>6. \A d \in T \cup {h} : <<d, d>> \notin L
  BY <1>1, <1>3, <1>4 DEF Orders, Q
<1>7. \A d, e \in T \cup {h} : d # e => <<d, e>> \in L \/ <<e, d>> \in L
  BY <1>1, <1>3 DEF Orders, Q
<1>8. \A c, d, e \in T \cup {h} : <<c, d>> \in L /\ <<d, e>> \in L => <<c, e>> \in L
  <2> SUFFICES ASSUME NEW c, NEW d, NEW e, <<c, d>> \in L, <<d, e>> \in L PROVE <<c, e>> \in L
    OBVIOUS
  <2>1. <<c, d>> \in Q /\ c \in T /\ d \in T
    BY <1>3, <1>4
  <2>2. CASE e = h
    BY <1>3, <2>1, <2>2
  <2>3. CASE e # h
    <3>1. <<d, e>> \in Q /\ e \in T
      BY <1>3, <1>4, <2>3
    <3> QED
      BY <1>1, <1>3, <2>1, <3>1 DEF Orders, Q
  <2> QED
    BY <2>2, <2>3
<1> QED
  BY <1>5, <1>6, <1>7, <1>8 DEF Orders, L

\* The placeholders, told from the handshakes' side.
Waiting == {h \in Handshakes : hs[h].at \in {"reserved", "abandoned"} /\ table[hs[h].id] = h}

\* The two sides agree.
LEMMA PlaceholdersWait == Core => Placeholders = Waiting
<1> SUFFICES ASSUME Core PROVE Placeholders = Waiting
  OBVIOUS
<1>1. ASSUME NEW e \in Placeholders PROVE e \in Waiting
  BY DEF Placeholders, InTable, IsPlaceholder, Core, Indexed, Waiting
<1>2. ASSUME NEW e \in Waiting PROVE e \in Placeholders
  <2>1. hs[e].id \in Ids /\ table[hs[e].id] = e /\ e # Free /\ e \in Handshakes
    BY SessionsAssumption DEF Core, Indexed, Waiting
  <2> QED
    BY <2>1 DEF Placeholders, InTable, IsPlaceholder, Waiting
<1> QED
  BY <1>1, <1>2

\* And after a step.
LEMMA PlaceholdersWaitNext == Core' => (Placeholders = Waiting)'
  BY PlaceholdersWait, PTL

Ordered == Orders(elder, Placeholders) /\ Orders(older, used) /\ announced \subseteq Peers \cup {NoPeer}

\* The orders follow the table when entries only leave it.
LEMMA FewerOrdered ==
    ASSUME Ordered, Placeholders' \subseteq Placeholders, used' \subseteq used,
           elder' = Among(elder, Placeholders'), older' = Among(older, used'),
           announced' \subseteq Peers \cup {NoPeer}
    PROVE  Ordered'
  BY OrdersAmong DEF Ordered

\* An order is what it is among its own elements.
LEMMA AmongAll == ASSUME NEW R, NEW S, Orders(R, S) PROVE Among(R, S) = R
  BY DEF Orders, Among

\* The new placeholder is the youngest.
LEMMA ReserveOrdered ==
    ASSUME Core, Core', Ordered, NEW h \in Handshakes, hs[h].at = "idle", NEW id \in Ids,
           table[id] \notin Live, Reserve(h, id), UNCHANGED <<used, older, announced>>
    PROVE  Ordered'
<1>0. Placeholders = Waiting /\ Placeholders' = Waiting'
  BY PlaceholdersWait, PlaceholdersWaitNext
<1>1. /\ hs \in [Handshakes -> Handshake] /\ table \in [Ids -> Handshakes \cup {Free}]
      /\ table' = [table EXCEPT ![id] = h]
      /\ \A e \in Handshakes : hs[e].at \in {"reserved", "abandoned"} => hs[e].id \in Ids
      /\ table[id] # Free => hs[table[id]].id = id
  BY DEF Core, Types, Reserve, Indexed
<1>2. hs'[h].at = "reserved" /\ hs'[h].id = id /\ \A e \in Handshakes \ {h} : hs'[e] = hs[e]
  <2> DEFINE r == [hs[h] EXCEPT !.at = "reserved", !.id = id]
  <2>1. hs' = [hs EXCEPT ![h] = r] /\ hs[h] \in Handshake
    BY <1>1 DEF Reserve
  <2>2. r.at = "reserved" /\ r.id = id
    BY <2>1 DEF Handshake
  <2> HIDE DEF r
  <2> QED
    BY <1>1, <2>1, <2>2
<1>3. \A e \in Handshakes \ {h} : e \in Waiting' <=> e \in Waiting /\ e # table[id]
  <2> SUFFICES ASSUME NEW e \in Handshakes \ {h}
      PROVE  e \in Waiting' <=> e \in Waiting /\ e # table[id]
    OBVIOUS
  <2>1. e \in Waiting' <=> hs[e].at \in {"reserved", "abandoned"} /\ table'[hs[e].id] = e
    BY <1>2 DEF Waiting
  <2>2. CASE hs[e].id = id
    BY <1>1, <2>1, <2>2 DEF Waiting
  <2>3. CASE hs[e].id # id
    <3>1. hs[e].at \in {"reserved", "abandoned"} => table'[hs[e].id] = table[hs[e].id]
      BY <1>1, <2>3
    <3>2. e # table[id]
      BY <1>1, <2>3, SessionsAssumption
    <3> QED
      BY <2>1, <3>1, <3>2 DEF Waiting
  <2> QED
    BY <2>2, <2>3
<1>4. h \in Waiting' /\ h \notin Waiting
  BY <1>1, <1>2 DEF Waiting
<1>5. Waiting' = (Waiting \ {table[id]}) \cup {h}
  BY <1>3, <1>4 DEF Waiting
<1>6. elder' = Last(elder, Placeholders \ {table[id]}, h)
  BY DEF Reserve
<1> QED
  BY <1>0, <1>4, <1>5, <1>6, OrdersLast DEF Ordered

\* AllocateID: its last disjunct, without an id to hand out, leaves the orders alone.
LEMMA AllocateOrdered == ASSUME Core, Core', Ordered, NEW h \in Handshakes, AllocateID(h) PROVE Ordered'
<1>0. hs[h].at = "idle" /\ UNCHANGED <<used, older, announced>> /\ hs \in [Handshakes -> Handshake]
  BY DEF AllocateID, Core, Types
<1>1. ASSUME NEW k \in FreeTries, Reserve(h, Tried(k)) PROVE Ordered'
  <2>1. Tried(k) \in Ids
    BY TriedIsId DEF Tried, FreeTries, Core, Types
  <2>2. table[Tried(k)] \notin Live
    BY SessionsAssumption DEF FreeTries, Live
  <2> QED
    BY <1>0, <1>1, <2>1, <2>2, ReserveOrdered
<1>2. ASSUME NEW e \in Placeholders, Reserve(h, hs[e].id) PROVE Ordered'
  <2>1. hs[e].id \in Ids /\ table[hs[e].id] \notin Live
    BY DEF Placeholders, InTable, IsPlaceholder, Core, Indexed, Live
  <2> QED
    BY <1>0, <1>2, <2>1, ReserveOrdered
<1>3. ASSUME hs' = [hs EXCEPT ![h] = Ended], UNCHANGED <<table, nextID, elder>> PROVE Ordered'
  <2>1. Placeholders = Waiting /\ Placeholders' = Waiting'
    BY PlaceholdersWait, PlaceholdersWaitNext
  <2>2. hs'[h] = Ended /\ \A e \in Handshakes \ {h} : hs'[e] = hs[e]
    BY <1>0, <1>3
  <2>3. Waiting' = Waiting
    BY <1>0, <1>3, <2>2, Records DEF Waiting
  <2> QED
    BY <1>0, <1>3, <2>1, <2>3 DEF Ordered
<1> QED
  BY <1>1, <1>2, <1>3 DEF AllocateID

\* ReleaseID forgets the stamp of the placeholder it drops.
LEMMA ReleaseOrdered == ASSUME Core, Core', Ordered, NEW h \in Handshakes, ReleaseID(h) PROVE Ordered'
<1> DEFINE i == hs[h].id
<1>0. /\ hs \in [Handshakes -> Handshake] /\ table \in [Ids -> Handshakes \cup {Free}]
      /\ hs[h].at = "reserved" /\ i \in Ids /\ UNCHANGED <<used, older, announced>>
      /\ \A e \in Handshakes : hs[e].at \in {"reserved", "abandoned"} => hs[e].id \in Ids
      /\ table[i] # Free => hs[table[i]].id = i
  BY DEF ReleaseID, Core, Types, Indexed
<1>1. Placeholders = Waiting /\ Placeholders' = Waiting'
  BY PlaceholdersWait, PlaceholdersWaitNext
<1>2. hs'[h].at = "closed" /\ \A e \in Handshakes \ {h} : hs'[e] = hs[e]
  BY <1>0, Records DEF ReleaseID
<1>3. CASE IsPlaceholder(table[i])
  <2>1. table' = [table EXCEPT ![i] = Free] /\ elder' = Among(elder, Placeholders \ {table[i]})
    BY <1>3 DEF ReleaseID
  <2>2. h \notin Waiting' /\ (h \in Waiting => h = table[i])
    BY <1>2 DEF Waiting
  <2>3. \A e \in Handshakes \ {h} : e \in Waiting' <=> e \in Waiting /\ e # table[i]
    BY <1>0, <1>2, <2>1, SessionsAssumption DEF Waiting
  <2>4. Waiting' = Waiting \ {table[i]}
    BY <2>2, <2>3 DEF Waiting
  <2> QED
    BY <1>0, <1>1, <2>1, <2>4, OrdersAmong DEF Ordered
<1>4. CASE ~IsPlaceholder(table[i])
  <2>1. UNCHANGED <<table, elder>>
    BY <1>4 DEF ReleaseID
  <2>2. h \notin Waiting
    BY <1>0, <1>4, SessionsAssumption DEF IsPlaceholder, Waiting
  <2>3. Waiting' = Waiting
    BY <1>2, <2>1, <2>2 DEF Waiting
  <2> QED
    BY <1>0, <1>1, <2>1, <2>3 DEF Ordered
<1> QED
  BY <1>3, <1>4

\* Take forgets the stamps of what it takes.
LEMMA TakeOrdered ==
    ASSUME Core, Core', Ordered, NEW victims, NEW dropped, NEW at, NEW announce,
           Closing(victims, dropped, at, announce)
    PROVE  Ordered'
<1>0. /\ Placeholders = Waiting /\ Placeholders' = Waiting' /\ dropped \subseteq Waiting
      /\ victims \subseteq Live /\ at \in {"notify", "zeroise"} /\ announce \in BOOLEAN
      /\ \A e \in Handshakes : hs[e].at \in {"reserved", "abandoned"} => hs[e].id \in Ids
  BY PlaceholdersWait, PlaceholdersWaitNext DEF Closing, Core, Indexed
<1>1. /\ used' = used \ victims /\ older' = Among(older, used \ victims)
      /\ elder' = Among(elder, Placeholders \ dropped) /\ UNCHANGED announced
      /\ table' = [i \in Ids |-> IF table[i] \in victims \cup dropped THEN Free ELSE table[i]]
  BY DEF Closing, Take
<1>2. \A e \in Handshakes : hs'[e] = IF e \in victims
                                     THEN [hs[e] EXCEPT !.at = at, !.announce = announce] ELSE hs[e]
  BY DEF Take, Closing
<1>3. \A e \in victims : hs'[e].at = at
  <2>1. \A e \in Handshakes : hs[e] \in Handshake
    BY DEF Core, Types
  <2>2. \A r \in Handshake : [r EXCEPT !.at = at, !.announce = announce].at = at
    BY DEF Handshake
  <2> QED
    BY <1>0, <1>2, <2>1, <2>2 DEF Live
<1>4. \A e \in Handshakes : e \in Waiting' <=> e \in Waiting /\ e \notin dropped
  <2>1. ASSUME NEW e \in victims PROVE e \notin Waiting /\ e \notin Waiting'
    BY <1>0, <1>3, <2>1 DEF Waiting, Live
  <2>2. ASSUME NEW e \in Handshakes \ victims PROVE e \in Waiting' <=> e \in Waiting /\ e \notin dropped
    <3>1. hs'[e] = hs[e]
      BY <1>2, <2>2
    <3>2. CASE e \in Waiting
      <4>1. hs[e].id \in Ids /\ table[hs[e].id] = e /\ e # Free
        BY <1>0, <3>2, SessionsAssumption DEF Waiting
      <4>2. table'[hs[e].id] = IF e \in victims \cup dropped THEN Free ELSE e
        BY <1>1, <4>1
      <4> QED
        BY <2>2, <3>1, <3>2, <4>1, <4>2 DEF Waiting
    <3>3. CASE e \notin Waiting
      <4>1. ASSUME hs[e].at \in {"reserved", "abandoned"} PROVE table'[hs[e].id] # e
        <5>1. hs[e].id \in Ids /\ table[hs[e].id] # e /\ e # Free
          BY <1>0, <2>2, <3>3, <4>1, SessionsAssumption DEF Waiting
        <5> QED
          BY <1>1, <5>1
      <4> QED
        BY <3>1, <3>3, <4>1 DEF Waiting
    <3> QED
      BY <3>2, <3>3
  <2> QED
    BY <1>0, <2>1, <2>2
<1>5. Waiting' = Waiting \ dropped
  BY <1>4 DEF Waiting
<1> QED
  BY <1>0, <1>1, <1>5, FewerOrdered DEF Ordered

\* Open drops the placeholder its session replaces, and the sessions that go.
LEMMA OpenOrdered == ASSUME Core, Core', Ordered, NEW h \in Handshakes, Open(h) PROVE Ordered'
<1> DEFINE id == hs[h].id
           V == Evicted(h)
           D == Displaced(h)
<1>0. /\ Placeholders = Waiting /\ Placeholders' = Waiting'
      /\ \A e \in Handshakes : hs[e].at \in {"reserved", "abandoned"} => hs[e].id \in Ids
      /\ table[id] # Free => hs[table[id]].id = id
  BY PlaceholdersWait, PlaceholdersWaitNext, OpenEffect DEF Core, Indexed
<1>1. used' = used \ (D \cup V) /\ older' = Among(older, used \ (D \cup V))
  BY DEF Open, Evicted, Claimants
<1>2. /\ elder' = Among(elder, Placeholders \ {table[id]})
      /\ announced' = announced \ {PeerOf[h]}
  BY DEF Open
<1>3. /\ id \in Ids /\ table'[id] = h /\ hs'[h].at = "live" /\ V \cup D \subseteq Live
      /\ \A i \in Ids \ {id} : table'[i] = IF table[i] \in V THEN Free ELSE table[i]
  BY OpenEffect
<1>4. /\ \A e \in V \cup D : hs'[e].at \notin {"reserved", "abandoned"}
      /\ \A e \in Handshakes \ (D \cup V \cup {h}) : hs'[e] = hs[e]
  BY OpenEffect
<1> HIDE DEF id, V, D
<1>5. \A e \in Handshakes : e \in Waiting' <=> e \in Waiting /\ e # table[id]
  <2>1. h \notin Waiting' /\ (h \in Waiting => h = table[id])
    BY <1>3 DEF Waiting, id
  <2>2. ASSUME NEW e \in V \cup D PROVE e \notin Waiting' /\ e \notin Waiting
    BY <1>3, <1>4, <2>2 DEF Waiting, Live
  <2>3. ASSUME NEW e \in Handshakes \ (D \cup V \cup {h})
        PROVE  e \in Waiting' <=> e \in Waiting /\ e # table[id]
    <3>1. hs'[e] = hs[e]
      BY <1>4, <2>3
    <3>2. CASE hs[e].id = id
      BY <1>3, <2>3, <3>1, <3>2 DEF Waiting
    <3>3. CASE hs[e].id # id
      BY <1>0, <1>3, <2>3, <3>1, <3>3, SessionsAssumption DEF Waiting
    <3> QED
      BY <3>2, <3>3
  <2> QED
    BY <2>1, <2>2, <2>3
<1>6. Waiting' = Waiting \ {table[id]}
  BY <1>5 DEF Waiting
<1> QED
  BY <1>0, <1>1, <1>2, <1>6, FewerOrdered DEF Ordered

\* The steps of one handshake that leave the table as it is.
LEMMA MoveOrdered ==
    ASSUME Core, Core', Ordered, NEW h \in Handshakes,
           \/ Abandon(h) \/ MarkActive(h) \/ AdoptFabricIndex(h)
           \/ NotifyGracefulClose(h) \/ CloseStaleEntry(h) \/ FireOnSessionClose(h)
           \/ FireReannounceIfPeerGone(h)
    PROVE  Ordered'
<1>0. Placeholders = Waiting /\ Placeholders' = Waiting' /\ hs[h] \in Handshake
      /\ hs \in [Handshakes -> Handshake]
  BY PlaceholdersWait, PlaceholdersWaitNext DEF Core, Types
<1>1. CASE MarkActive(h)
  <2>1. Waiting' = Waiting /\ UNCHANGED <<elder, announced>>
    BY <1>1 DEF MarkActive, Waiting
  <2>2. used' = (used \ {h}) \cup {h} /\ older' = Last(older, used \ {h}, h)
    BY <1>1 DEF MarkActive
  <2>3. Orders(older', used')
    BY <2>2, OrdersLast DEF Ordered
  <2> QED
    BY <1>0, <2>1, <2>3 DEF Ordered
<1>2. CASE ~MarkActive(h)
  <2>1. UNCHANGED <<table, elder, used, older>>
    BY <1>2 DEF Abandon, AdoptFabricIndex, NotifyGracefulClose, CloseStaleEntry,
                FireOnSessionClose, FireReannounceIfPeerGone, Step
  <2>2. announced' \subseteq announced \cup {PeerOf[h]} /\ PeerOf[h] \in Peers \cup {NoPeer}
    BY <1>2, SessionsAssumption DEF Abandon, AdoptFabricIndex, NotifyGracefulClose, CloseStaleEntry,
                FireOnSessionClose, FireReannounceIfPeerGone
  <2>3. \A e \in Handshakes \ {h} : hs'[e] = hs[e]
    BY <1>0, <1>2 DEF Abandon, AdoptFabricIndex, NotifyGracefulClose, CloseStaleEntry,
                FireOnSessionClose, FireReannounceIfPeerGone, Step
  <2>4. h \in Waiting' <=> h \in Waiting
    <3>1. CASE Abandon(h)
      <4>1. hs'[h] = [hs[h] EXCEPT !.at = "abandoned"] /\ hs[h].at = "reserved"
        BY <1>0, <3>1 DEF Abandon
      <4>2. hs'[h].at = "abandoned" /\ hs'[h].id = hs[h].id
        BY <1>0, <4>1 DEF Handshake
      <4> QED
        BY <2>1, <4>1, <4>2 DEF Waiting
    <3>2. CASE AdoptFabricIndex(h)
      <4>1. hs'[h] = [hs[h] EXCEPT !.adopted = TRUE]
        BY <1>0, <3>2 DEF AdoptFabricIndex
      <4>2. hs'[h].at = hs[h].at /\ hs'[h].id = hs[h].id
        BY <1>0, <4>1 DEF Handshake
      <4> QED
        BY <2>1, <4>2 DEF Waiting
    <3>3. CASE \/ NotifyGracefulClose(h) \/ CloseStaleEntry(h) \/ FireOnSessionClose(h)
               \/ FireReannounceIfPeerGone(h)
      <4>1. \A at \in {"zeroise", "hook", "announce"} : [hs[h] EXCEPT !.at = at].at = at
        BY <1>0 DEF Handshake
      <4>2. hs'[h] = Ended \/ \E at \in {"zeroise", "hook", "announce"} : hs'[h] = [hs[h] EXCEPT !.at = at]
        BY <1>0, <3>3 DEF NotifyGracefulClose, CloseStaleEntry, FireOnSessionClose,
                          FireReannounceIfPeerGone, Step, At
      <4>3. hs[h].at \in {"notify", "zeroise", "hook", "announce"}
        BY <3>3 DEF NotifyGracefulClose, CloseStaleEntry, FireOnSessionClose,
                          FireReannounceIfPeerGone, Step
      <4>4. Ended.at = "closed"
        BY Records
      <4>5. hs'[h].at \in {"zeroise", "hook", "announce", "closed"}
        BY <4>1, <4>2, <4>4
      <4> QED
        BY <4>3, <4>5 DEF Waiting
    <3> QED
      BY <1>2, <3>1, <3>2, <3>3
  <2>5. Waiting' = Waiting
    BY <2>1, <2>3, <2>4 DEF Waiting
  <2> QED
    BY <1>0, <2>1, <2>2, <2>5 DEF Ordered
<1> QED
  BY <1>1, <1>2

\* The stamps stay those of the entries in the table.
LEMMA OrderedStep == Core /\ Ordered /\ [Next]_vars => Ordered'
<1> SUFFICES ASSUME Core, Ordered, [Next]_vars PROVE Ordered'
  OBVIOUS
<1>0. Core'
  BY CoreStep
<1>1. CASE CloseStep
  BY <1>0, <1>1, ClosesByTaking, TakeOrdered
<1>2. CASE UNCHANGED vars
  BY <1>2 DEF vars, Ordered, Placeholders, InTable, IsPlaceholder
<1> QED
  BY <1>0, <1>1, <1>2, NextSplit, AllocateOrdered, ReleaseOrdered, OpenOrdered, MoveOrdered

\* Neither is there anything to order at first.
LEMMA InitOrdered == Init => Ordered
<1> SUFFICES ASSUME Init PROVE Ordered
  OBVIOUS
<1>1. Placeholders = {}
  BY SessionsAssumption DEF Init, Placeholders, InTable
<1>2. Orders({}, {})
  BY DEF Orders
<1> QED
  BY <1>1, <1>2 DEF Init, Ordered

\* The state of the registry is of the expected shape, and the stamps that reclaim, evict
\* and reap by age are those of the entries in the table: what leaves the table by any of
\* the ways out is not found by its age afterwards.
THEOREM TypeOKHolds == Spec => []TypeOK
<1>1. Init => LeftAlone
  BY DEF Init, LeftAlone
<1>2. Init => Ordered
  BY InitOrdered
<1>3. Core /\ LeftAlone /\ Ordered => TypeOK
  <2> SUFFICES ASSUME Core, LeftAlone, Ordered PROVE TypeOK
    OBVIOUS
  <2>1. used \subseteq Sessions
    BY SessionsAreLive DEF Core
  <2> QED
    BY <2>1 DEF Core, Types, LeftAlone, Ordered, TypeOK, Handshake, Stages
<1> QED
  BY CoreHolds, AloneStep, OrderedStep, <1>1, <1>2, <1>3, PTL DEF Spec

-----------------------------------------------------------------------------
\* The cap on the sessions of a peer.

\* The sessions the peer established.
Own(p) == {e \in Live : PeerOf[e] = p /\ KindOf[e] = "responder"}

\* No more sessions live than there are ids.
LEMMA LiveFinite == Core => IsFiniteSet(Live)
<1> SUFFICES ASSUME Core PROVE IsFiniteSet(Live)
  OBVIOUS
<1> DEFINE idOf == [e \in Live |-> hs[e].id]
<1>1. \A e \in Live : hs[e].id \in Ids /\ table[hs[e].id] = e
  BY DEF Core, Indexed, NoOrphan, Live
<1>2. idOf \in Injection(Live, Ids)
  BY <1>1 DEF Injection, IsInjective
<1>3. IsFiniteSet(Ids)
  BY FS_Interval, SessionsAssumption DEF Ids
<1> HIDE DEF idOf
<1> QED
  BY <1>2, <1>3, FS_Injection

\* The order of eviction is one: sessions without traffic come first, by their ids, which
\* differ; the others by their last traffic.
LEMMA BeforeOrders ==
    ASSUME Core, Ordered, NEW C \in SUBSET Live
    PROVE  /\ \A d \in C : ~Before(d, d)
           /\ \A d, e \in C : d # e => Before(d, e) \/ Before(e, d)
           /\ \A c, d, e \in C : Before(c, d) /\ Before(d, e) => Before(c, e)
<1>1. /\ \A e \in C : hs[e].id \in Int
      /\ \A d, e \in C : hs[d].id = hs[e].id => d = e
  <2>1. \A e \in C : hs[e].id \in Ids /\ table[hs[e].id] = e
    BY DEF Core, Indexed, NoOrphan, Live
  <2> QED
    BY <2>1 DEF Ids
<1>2. /\ \A d, e : <<d, e>> \in older => d \in used /\ e \in used
      /\ \A d \in used : <<d, d>> \notin older
      /\ \A d, e \in used : d # e => <<d, e>> \in older \/ <<e, d>> \in older
      /\ \A c, d, e \in used : <<c, d>> \in older /\ <<d, e>> \in older => <<c, e>> \in older
  BY DEF Ordered, Orders
<1>3. \A d \in C : ~Before(d, d)
  <2> SUFFICES ASSUME NEW d \in C PROVE ~Before(d, d)
    OBVIOUS
  <2>1. ~(hs[d].id < hs[d].id)
    BY <1>1
  <2>2. <<d, d>> \notin older
    BY <1>2
  <2> QED
    BY <2>1, <2>2 DEF Before
<1>4. \A d, e \in C : d # e => Before(d, e) \/ Before(e, d)
  <2> SUFFICES ASSUME NEW d \in C, NEW e \in C, d # e PROVE Before(d, e) \/ Before(e, d)
    OBVIOUS
  <2>1. hs[d].id < hs[e].id \/ hs[e].id < hs[d].id
    BY <1>1
  <2> QED
    BY <1>2, <2>1 DEF Before
<1>5. \A c, d, e \in C : Before(c, d) /\ Before(d, e) => Before(c, e)
  <2> SUFFICES ASSUME NEW c \in C, NEW d \in C, NEW e \in C, Before(c, d), Before(d, e) PROVE Before(c, e)
    OBVIOUS
  <2>1. CASE d \in used
    <3>1. <<d, e>> \in older /\ e \in used
      BY <1>2, <2>1 DEF Before
    <3>2. c \notin used \/ <<c, d>> \in older
      BY <2>1 DEF Before
    <3> QED
      BY <1>2, <2>1, <3>1, <3>2 DEF Before
  <2>2. CASE d \notin used
    <3>1. c \notin used /\ hs[c].id < hs[d].id
      BY <1>2, <2>2 DEF Before
    <3>2. e \in used \/ hs[d].id < hs[e].id
      BY <1>2, <2>2 DEF Before
    <3>3. e \in used \/ hs[c].id < hs[e].id
      BY <1>1, <3>1, <3>2
    <3> QED
      BY <3>1, <3>3 DEF Before
  <2> QED
    BY <2>1, <2>2
<1> QED
  BY <1>3, <1>4, <1>5

\* The sessions of C that go before d.
Ahead(C, d) == {e \in C : Before(e, d)}

\* How many go before it tells a session from the others.
LEMMA RanksDiffer ==
    ASSUME Core, Ordered, NEW C \in SUBSET Live, NEW d \in C
    PROVE  /\ IsFiniteSet(C) /\ Cardinality(C) \in Nat
           /\ Cardinality(Ahead(C, d)) \in Nat /\ Cardinality(Ahead(C, d)) < Cardinality(C)
           /\ \A e \in C : Cardinality(Ahead(C, d)) = Cardinality(Ahead(C, e)) => d = e
<1>1. IsFiniteSet(C)
  BY LiveFinite, FS_Subset
<1>2. \A e \in C : IsFiniteSet(Ahead(C, e)) /\ Ahead(C, e) \in SUBSET C /\ e \notin Ahead(C, e)
  BY <1>1, FS_Subset, BeforeOrders DEF Ahead
<1>3. Cardinality(C) \in Nat /\ Cardinality(Ahead(C, d)) \in Nat
  BY <1>1, <1>2, FS_CardinalityType
<1>4. Cardinality(Ahead(C, d)) <= Cardinality(C) /\ Cardinality(Ahead(C, d)) # Cardinality(C)
  BY <1>1, <1>2, FS_Subset
<1>5. ASSUME NEW a \in C, NEW b \in C, Before(a, b)
      PROVE  Cardinality(Ahead(C, a)) # Cardinality(Ahead(C, b))
  <2>1. Ahead(C, a) \in SUBSET Ahead(C, b) /\ a \in Ahead(C, b)
    BY <1>5, BeforeOrders DEF Ahead
  <2> QED
    BY <1>2, <2>1, FS_Subset
<1>6. \A e \in C : Cardinality(Ahead(C, d)) = Cardinality(Ahead(C, e)) => d = e
  BY <1>5, BeforeOrders
<1> QED
  BY <1>1, <1>3, <1>4, <1>6

\* evictExcessPeerSessionsLocked makes room for one.
LEMMA EvictionMakesRoom ==
    ASSUME Core, Ordered, NEW h \in Handshakes, KindOf[h] = "responder", Claimants(h) \subseteq Live
    PROVE  /\ IsFiniteSet(Claimants(h) \ Evicted(h))
           /\ Cardinality(Claimants(h) \ Evicted(h)) <= MaxSessionsPerPeer - 1
<1> DEFINE C == Claimants(h)
           n == Cardinality(C)
           k == n + 1 - MaxSessionsPerPeer
           K == C \ Evicted(h)
           rank == [d \in K |-> Cardinality(Ahead(C, d))]
<1>1. IsFiniteSet(C)
  BY LiveFinite, FS_Subset
<1>2. n \in Nat /\ MaxSessionsPerPeer \in Nat /\ MaxSessionsPerPeer > 0
  BY <1>1, FS_CardinalityType, SessionsAssumption
<1>3. K \in SUBSET C /\ \A d \in K : ~(Cardinality(Ahead(C, d)) < k)
  BY DEF Evicted, Excess, Ahead
<1>4. /\ \A d \in C : Cardinality(Ahead(C, d)) \in Nat /\ Cardinality(Ahead(C, d)) < n
      /\ \A d, e \in C : Cardinality(Ahead(C, d)) = Cardinality(Ahead(C, e)) => d = e
  BY RanksDiffer
<1> HIDE DEF C, n, k, K
<1>5. k \in Int /\ k = n + 1 - MaxSessionsPerPeer
  BY <1>2 DEF k
<1>6. CASE k >= 0
  <2>1. \A d \in K : Cardinality(Ahead(C, d)) \in k .. n - 1
    BY <1>2, <1>3, <1>4, <1>5
  <2>2. rank \in Injection(K, k .. n - 1)
    BY <1>3, <1>4, <2>1 DEF Injection, IsInjective
  <2>3. IsFiniteSet(k .. n - 1) /\ Cardinality(k .. n - 1) = MaxSessionsPerPeer - 1
    BY <1>2, <1>5, FS_Interval
  <2> HIDE DEF rank
  <2> QED
    BY <2>2, <2>3, FS_Injection DEF K, C
<1>7. CASE ~(k >= 0)
  <2>1. IsFiniteSet(K) /\ Cardinality(K) <= n /\ Cardinality(K) \in Nat
    BY <1>1, <1>3, FS_Subset, FS_CardinalityType DEF n
  <2>2. n <= MaxSessionsPerPeer - 1
    BY <1>2, <1>5, <1>7
  <2> QED
    BY <1>2, <2>1, <2>2 DEF K, C
<1> QED
  BY <1>6, <1>7

Capped == \A p \in Peers : Cardinality(Own(p)) <= MaxSessionsPerPeer

\* A peer whose sessions only get fewer stays within the cap.
LEMMA FewerCapped ==
    ASSUME Core, Capped, NEW p \in Peers, Own(p)' \subseteq Own(p)
    PROVE  Cardinality(Own(p)') <= MaxSessionsPerPeer
<1>1. Own(p) \in SUBSET Live
  BY DEF Own
<1>2. IsFiniteSet(Own(p))
  BY <1>1, LiveFinite, FS_Subset
<1>3. IsFiniteSet(Own(p)') /\ Cardinality(Own(p)') <= Cardinality(Own(p))
  BY <1>2, FS_Subset
<1>4. /\ Cardinality(Own(p)') \in Nat /\ Cardinality(Own(p)) \in Nat
      /\ Cardinality(Own(p)) <= MaxSessionsPerPeer /\ MaxSessionsPerPeer \in Nat
  BY <1>2, <1>3, FS_CardinalityType, SessionsAssumption DEF Capped
<1> QED
  BY <1>3, <1>4

\* Only Open makes a session live.
LEMMA OnlyOpenAdds == ASSUME Core, [Next]_vars, \A h \in Handshakes : ~Open(h) PROVE Live' \subseteq Live
<1>0. hs \in [Handshakes -> Handshake]
  BY DEF Core, Types
<1>1. CASE CloseStep
  <2>1. PICK victims, dropped, at, announce : Closing(victims, dropped, at, announce)
    BY <1>1, ClosesByTaking
  <2>2. ASSUME NEW e \in Handshakes, e \in victims PROVE hs'[e].at # "live"
    <3>1. hs'[e] = [hs[e] EXCEPT !.at = at, !.announce = announce] /\ at \in {"notify", "zeroise"}
      BY <2>1, <2>2 DEF Closing, Take
    <3>2. hs[e] \in Handshake
      BY <1>0
    <3> QED
      BY <3>1, <3>2 DEF Handshake
  <2>3. ASSUME NEW e \in Handshakes, e \notin victims PROVE hs'[e] = hs[e]
    BY <2>1, <2>3 DEF Closing, Take
  <2> QED
    BY <2>2, <2>3 DEF Live
<1>2. CASE UNCHANGED vars
  BY <1>2 DEF vars, Live
<1>3. ASSUME NEW h \in Handshakes, NEW r, hs' = [hs EXCEPT ![h] = r], r.at = "live" => hs[h].at = "live"
      PROVE  Live' \subseteq Live
  BY <1>0, <1>3 DEF Live
<1>4. ASSUME NEW h \in Handshakes,
             \/ AllocateID(h) \/ ReleaseID(h) \/ Abandon(h) \/ MarkActive(h)
             \/ AdoptFabricIndex(h) \/ NotifyGracefulClose(h) \/ CloseStaleEntry(h)
             \/ FireOnSessionClose(h) \/ FireReannounceIfPeerGone(h)
      PROVE  Live' \subseteq Live
  <2>0. hs[h] \in Handshake
    BY <1>0
  <2>1. /\ \A at : [hs[h] EXCEPT !.at = at].at = at
        /\ \A id : [hs[h] EXCEPT !.at = "reserved", !.id = id].at = "reserved"
        /\ [hs[h] EXCEPT !.adopted = TRUE].at = hs[h].at
    BY <2>0 DEF Handshake
  <2>2. Ended.at = "closed"
    BY Records
  <2>3. CASE AllocateID(h)
    <3>1. \/ hs' = [hs EXCEPT ![h] = Ended]
          \/ \E id : hs' = [hs EXCEPT ![h] = [hs[h] EXCEPT !.at = "reserved", !.id = id]]
      BY <2>3 DEF AllocateID, Reserve
    <3> QED
      BY <1>3, <2>1, <2>2, <3>1
  <2>4. CASE ReleaseID(h)
    BY <1>3, <2>2, <2>4 DEF ReleaseID
  <2>5. CASE Abandon(h)
    BY <1>3, <2>1, <2>5 DEF Abandon
  <2>6. CASE MarkActive(h)
    BY <2>6 DEF MarkActive, Live
  <2>7. CASE AdoptFabricIndex(h)
    BY <1>3, <2>1, <2>7 DEF AdoptFabricIndex
  <2>8. CASE NotifyGracefulClose(h)
    BY <1>3, <2>1, <2>8 DEF NotifyGracefulClose, Step, At
  <2>9. CASE CloseStaleEntry(h)
    BY <1>3, <2>1, <2>9 DEF CloseStaleEntry, Step, At
  <2>10. CASE FireOnSessionClose(h)
    BY <1>3, <2>1, <2>2, <2>10 DEF FireOnSessionClose, Step, At
  <2>11. CASE FireReannounceIfPeerGone(h)
    BY <1>3, <2>2, <2>11 DEF FireReannounceIfPeerGone, Step
  <2> QED
    BY <1>4, <2>3, <2>4, <2>5, <2>6, <2>7, <2>8, <2>9, <2>10, <2>11
<1> QED
  BY <1>1, <1>2, <1>4, NextSplit

\* A session that opens finds room.
LEMMA OpenCapped ==
    ASSUME Core, Ordered, Capped, NEW h \in Handshakes, Open(h)
    PROVE  Capped'
<1>1. /\ Claimants(h) \subseteq Live /\ Evicted(h) \subseteq Live /\ Displaced(h) \subseteq Live
      /\ \A e \in Handshakes \ (Displaced(h) \cup Evicted(h) \cup {h}) : hs'[e] = hs[e]
      /\ \A e \in Displaced(h) \cup Evicted(h) : hs'[e].at # "live"
  BY OpenEffect
<1>2. \A e \in Live' \ {h} : e \in Live /\ e \notin Displaced(h) /\ e \notin Evicted(h)
  BY <1>1 DEF Live
<1>3. ASSUME NEW p \in Peers, p # PeerOf[h] \/ KindOf[h] # "responder"
      PROVE  Cardinality(Own(p)') <= MaxSessionsPerPeer
  <2>1. Own(p)' \subseteq Own(p)
    BY <1>2, <1>3 DEF Own
  <2> QED
    BY <2>1, FewerCapped
<1>4. ASSUME KindOf[h] = "responder" PROVE Cardinality(Own(PeerOf[h])') <= MaxSessionsPerPeer
  <2> DEFINE K == Claimants(h) \ Evicted(h)
  <2>1. Claimants(h) = {e \in Live \ Displaced(h) : PeerOf[e] = PeerOf[h] /\ KindOf[e] = "responder"}
    BY SessionsAreLive DEF Claimants, SessionsOf
  <2>2. Own(PeerOf[h])' \subseteq K \cup {h}
    BY <1>2, <2>1 DEF Own
  <2>3. IsFiniteSet(K) /\ Cardinality(K) <= MaxSessionsPerPeer - 1
    BY <1>1, <1>4, EvictionMakesRoom
  <2> HIDE DEF K
  <2>4. /\ IsFiniteSet(K \cup {h}) /\ Cardinality(K) \in Nat
        /\ Cardinality(K \cup {h}) = Cardinality(K) \/ Cardinality(K \cup {h}) = Cardinality(K) + 1
    BY <2>3, FS_AddElement, FS_CardinalityType
  <2>5. IsFiniteSet(Own(PeerOf[h])') /\ Cardinality(Own(PeerOf[h])') <= Cardinality(K \cup {h})
    BY <2>2, <2>4, FS_Subset
  <2>6. Cardinality(Own(PeerOf[h])') \in Nat /\ MaxSessionsPerPeer \in Nat
    BY <2>5, FS_CardinalityType, SessionsAssumption
  <2> QED
    BY <2>3, <2>4, <2>5, <2>6
<1> QED
  BY <1>3, <1>4 DEF Capped

\* No step takes a peer past the cap.
LEMMA CappedStep == Core /\ Ordered /\ Capped /\ [Next]_vars => Capped'
<1> SUFFICES ASSUME Core, Ordered, Capped, [Next]_vars PROVE Capped'
  OBVIOUS
<1>1. CASE \A h \in Handshakes : ~Open(h)
  <2>1. \A p \in Peers : Own(p)' \subseteq Own(p)
    BY <1>1, OnlyOpenAdds DEF Own
  <2> QED
    BY <2>1, FewerCapped DEF Capped
<1> QED
  BY <1>1, OpenCapped

\* The sessions a peer established stay within MaxSessionsPerPeer, whatever was displaced
\* and evicted before: the order evictExcessPeerSessionsLocked sorts by is total, so that
\* it gives up exactly the excess.
THEOREM PeerCapHolds == Spec => []PeerCap
<1>2. Init => Ordered
  BY InitOrdered
<1>3. Init => Capped
  <2> SUFFICES ASSUME Init PROVE Capped
    OBVIOUS
  <2>1. \A h \in Handshakes : hs[h].at = "idle"
    BY DEF Init, NewHandshake
  <2>2. \A p : Own(p) = {}
    BY <2>1 DEF Own, Live
  <2> QED
    BY <2>2, FS_EmptySet, SessionsAssumption DEF Capped
<1>4. Core /\ Capped => PeerCap
  <2> SUFFICES ASSUME Core, Capped PROVE PeerCap
    OBVIOUS
  <2>1. \A p : {e \in SessionsOf(p) : KindOf[e] = "responder"} = Own(p)
    BY SessionsAreLive DEF SessionsOf, Own
  <2> QED
    BY <2>1 DEF Capped, PeerCap
<1> QED
  BY CoreHolds, OrderedStep, CappedStep, <1>2, <1>3, <1>4, PTL DEF Spec
=============================================================================
