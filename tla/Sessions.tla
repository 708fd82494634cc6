------------------------------ MODULE Sessions ------------------------------
(***************************************************************************)
(* The registry of secure sessions (secure/operational).                   *)
(*                                                                         *)
(* A handshake reserves a session id before it has keys: its entry in the  *)
(* table is a placeholder until the session is opened over it.  Whoever    *)
(* removes an entry from the table, under the lock, ends its session       *)
(* outside it: the peer may be told, the keys go, the close hooks run and  *)
(* the node may announce itself again to a peer that is left without a     *)
(* session.  All peers are of one fabric.  A step is what runs under one   *)
(* lock; a handshake stands for its session too.                           *)
(***************************************************************************)
EXTENDS Naturals, FiniteSets

CONSTANTS
    MaxID,              \* session ids are 1 .. MaxID (SessionIDSpace)
    Handshakes,
    KindOf,             \* "responder", "initiator" or "pase"
    Peers, PeerOf,      \* the node at the other end; NoPeer for a PASE session
    NoPeer,
    MaxSessionsPerPeer,
    Free                \* no entry

ASSUME SessionsAssumption ==
    /\ MaxID \in Nat \ {0} /\ MaxSessionsPerPeer \in Nat \ {0}
    /\ KindOf \in [Handshakes -> {"responder", "initiator", "pase"}]
    /\ NoPeer \notin Peers /\ PeerOf \in [Handshakes -> Peers \cup {NoPeer}]
    /\ \A h \in Handshakes : PeerOf[h] = NoPeer <=> KindOf[h] = "pase"
    /\ Free \notin Handshakes

VARIABLES
    table,      \* per id: the handshake whose entry it is
    nextID,     \* where the allocator goes on
    hs,         \* the handshakes and their sessions
    elder,      \* pairs of placeholders in the table, the one that was reserved first first
    used,       \* the sessions in the table that carried traffic
    older,      \* pairs of them, the one whose last traffic is longer ago first
    announced,  \* the peers the node has announced itself to since their last session opened
    left        \* the peers that a close left without a session (history)

vars == <<table, nextID, hs, elder, used, older, announced, left>>

Ids == 1 .. MaxID

\* at: "reserved" and "abandoned" handshakes have an id, "live" ones a session; the
\* session of the others is ending ("notify", "zeroise", "hook", "announce") or "closed".
NewHandshake == [at |-> "idle", id |-> 0, announce |-> FALSE, adopted |-> FALSE]
Ended == [NewHandshake EXCEPT !.at = "closed"]

Init ==
    /\ table = [i \in Ids |-> Free] /\ nextID \in Ids
    /\ hs = [h \in Handshakes |-> NewHandshake]
    /\ elder = {} /\ used = {} /\ older = {} /\ announced = {} /\ left = {}

IsPlaceholder(e) == e # Free /\ hs[e].at \in {"reserved", "abandoned"}
IsSession(e) == e # Free /\ ~IsPlaceholder(e)
InTable == {e \in Handshakes : \E i \in Ids : table[i] = e}
Placeholders == {e \in InTable : IsPlaceholder(e)}
Sessions == {e \in InTable : IsSession(e)}
SessionsOf(p) == {e \in Sessions : PeerOf[e] = p}

\* An order of S, without the others; and with h as the last.
Among(order, S) == order \cap (S \X S)
Last(order, S, h) == Among(order, S) \cup (S \X {h})

-----------------------------------------------------------------------------
\* Ids.

\* allocateIDLocked: the ids from nextID on, in the order they are tried.
Tried(k) == ((nextID - 1 + k) % MaxID) + 1
\* mutant: the counter runs past the last id
AfterUnwrapped(id) == id + 1

\* The id after this one; 0 is never handed out.
After(id) == IF id = MaxID THEN 1 ELSE id + 1
FreeTries == {k \in 0 .. MaxID - 1 : table[Tried(k)] = Free}

Reserve(h, id) ==
    /\ table' = [table EXCEPT ![id] = h]
    /\ hs' = [hs EXCEPT ![h] = [@ EXCEPT !.at = "reserved", !.id = id]]
    /\ elder' = Last(elder, Placeholders \ {table[id]}, h)

\* AllocateID: the next free id, or the id of the oldest placeholder, or none.
AllocateID(h) ==
    /\ hs[h].at = "idle"
    /\ \/ \E k \in FreeTries : /\ \A j \in FreeTries : k <= j
                               /\ Reserve(h, Tried(k)) /\ nextID' = After(Tried(k))
       \/ /\ FreeTries = {}
          /\ \E e \in Placeholders : (\A d \in Placeholders : <<d, e>> \notin elder) /\ Reserve(h, hs[e].id)
          /\ UNCHANGED nextID
       \/ /\ FreeTries = {} /\ Placeholders = {}
          /\ hs' = [hs EXCEPT ![h] = Ended] /\ UNCHANGED <<table, nextID, elder>>
    /\ UNCHANGED <<used, older, announced, left>>

\* ReleaseID: whatever placeholder the id now has is dropped.
ReleaseID(h) ==
    /\ hs[h].at = "reserved"
    /\ LET e == table[hs[h].id]
       IN IF IsPlaceholder(e)
          THEN /\ table' = [table EXCEPT ![hs[h].id] = Free]
               /\ elder' = Among(elder, Placeholders \ {e})
          ELSE UNCHANGED <<table, elder>>
    /\ hs' = [hs EXCEPT ![h] = Ended]
    /\ UNCHANGED <<nextID, used, older, announced, left>>

\* The peer does not go on with the handshake, and nobody releases its id.
Abandon(h) ==
    /\ hs[h].at = "reserved"
    /\ hs' = [hs EXCEPT ![h].at = "abandoned"]
    /\ UNCHANGED <<table, nextID, elder, used, older, announced, left>>

-----------------------------------------------------------------------------
\* Removal from the table: of sessions, which then end, and of placeholders.

\* The peers that are without a session once the victims are gone.
LeftBy(victims) == {p \in Peers : SessionsOf(p) # {} /\ SessionsOf(p) \subseteq victims}

Take(victims, dropped, at, announce) ==
    /\ table' = [i \in Ids |-> IF table[i] \in victims \cup dropped THEN Free ELSE table[i]]
    /\ hs' = [e \in Handshakes |-> IF e \in victims
                                   THEN [hs[e] EXCEPT !.at = at, !.announce = announce] ELSE hs[e]]
    /\ used' = used \ victims /\ older' = Among(older, used \ victims)
    /\ elder' = Among(elder, Placeholders \ dropped)
    /\ left' = IF announce THEN left \cup LeftBy(victims) ELSE left
    /\ UNCHANGED <<nextID, announced>>

\* Close of an id, which may have changed hands since the caller looked it up.
Close(i) ==
    /\ table[i] # Free
    /\ IF IsSession(table[i]) THEN Take({table[i]}, {}, "zeroise", TRUE)
       ELSE Take({}, {table[i]}, "zeroise", TRUE)

ClosePeer(p) ==
    /\ SessionsOf(p) # {}
    /\ Take(SessionsOf(p), {}, "notify", TRUE)

\* The sessions that are older than the exchange that reported the loss; which ones are
\* is left open.
ClosePeerLost(p) ==
    \E victims \in SUBSET SessionsOf(p) \ {{}} : Take(victims, {}, "zeroise", TRUE)

\* CloseFabric, and CloseFabricExcept of the session that carries the command.
CloseFabric(except) ==
    \E victims \in {{e \in Sessions \ {except} : PeerOf[e] # NoPeer \/ hs[e].adopted}} :
       victims # {} /\ Take(victims, {}, "zeroise", FALSE)

ClosePASESessions ==
    \E victims \in {{e \in Sessions : KindOf[e] = "pase"}} :
       victims # {} /\ Take(victims, {}, "zeroise", FALSE)

CloseAllGraceful ==
    /\ InTable # {}
    /\ Take(Sessions, Placeholders, "notify", FALSE)

\* reapIdle: the sessions whose last traffic is too old, and placeholders past
\* PlaceholderIDTTL, which outlasts every handshake that can still go on.
ReapIdle(victims, dropped) ==
    /\ victims # {} \/ dropped # {}
    /\ \A d \in used, e \in victims : <<d, e>> \in older => d \in victims
    /\ dropped \subseteq {e \in InTable : hs[e].at = "abandoned"}
    /\ Take(victims, dropped, "notify", TRUE)

-----------------------------------------------------------------------------
\* Sessions.

\* Less recently active: a session without traffic before one with, the lower id first.
Before(d, e) ==
    \/ <<d, e>> \in older \/ (d \notin used /\ e \in used)
    \/ d \notin used /\ e \notin used /\ hs[d].id < hs[e].id

\* mutant: the session being added is not counted
ExcessNotCounting(h, claimants) ==
    IF KindOf[h] # "responder" THEN {}
    ELSE {d \in claimants : Cardinality({e \in claimants : Before(e, d)})
                              < Cardinality(claimants) - MaxSessionsPerPeer}

\* evictExcessPeerSessionsLocked, of the sessions the peer established besides h.
Excess(h, claimants) ==
    IF KindOf[h] # "responder" THEN {}
    ELSE {d \in claimants : Cardinality({e \in claimants : Before(e, d)})
                              < Cardinality(claimants) + 1 - MaxSessionsPerPeer}

\* mutant: the session that held the id is just overwritten
DisplacedForgotten(h) == {}

\* installEntryLocked: the session that holds the id of h, if any.
Displaced(h) == {e \in Sessions : hs[e].id = hs[h].id}

\* openFromSigma and OpenFromPaseWithID: the session takes its id, whatever is there.
Open(h) ==
    /\ hs[h].at = "reserved"
    /\ LET out       == Displaced(h)
           claimants == {e \in SessionsOf(PeerOf[h]) \ out : KindOf[e] = "responder"}
           evicted   == Excess(h, claimants)
       IN /\ table' = [i \in Ids |-> IF i = hs[h].id THEN h
                                     ELSE IF table[i] \in evicted THEN Free ELSE table[i]]
          /\ hs' = [e \in Handshakes |->
                      IF e = h THEN [hs[h] EXCEPT !.at = "live"]
                      ELSE IF e \in out THEN [hs[e] EXCEPT !.at = "notify"]
                      ELSE IF e \in evicted THEN [hs[e] EXCEPT !.at = "zeroise"] ELSE hs[e]]
          /\ used' = used \ (out \cup evicted) /\ older' = Among(older, used \ (out \cup evicted))
          /\ elder' = Among(elder, Placeholders \ {table[hs[h].id]})
    /\ announced' = announced \ {PeerOf[h]} /\ left' = left \ {PeerOf[h]}
    /\ UNCHANGED nextID

\* MarkActiveRx, MarkActiveTx.
MarkActive(h) ==
    /\ h \in Sessions
    /\ used' = used \cup {h} /\ older' = Last(older, used \ {h}, h)
    /\ UNCHANGED <<table, nextID, hs, elder, announced, left>>

AdoptFabricIndex(h) ==
    /\ h \in Sessions /\ KindOf[h] = "pase" /\ ~hs[h].adopted
    /\ hs' = [hs EXCEPT ![h].adopted = TRUE]
    /\ UNCHANGED <<table, nextID, elder, used, older, announced, left>>

-----------------------------------------------------------------------------
\* The end of a session, outside the lock.  The victims of one removal go through it
\* together in the code; here each goes at its own pace.

Step(h, from, next) ==
    /\ hs[h].at = from
    /\ hs' = [hs EXCEPT ![h] = next]
    /\ UNCHANGED <<table, nextID, elder, used, older, left>>

At(h, at) == [hs[h] EXCEPT !.at = at]

NotifyGracefulClose(h) == Step(h, "notify", At(h, "zeroise")) /\ UNCHANGED announced
CloseStaleEntry(h) == Step(h, "zeroise", At(h, "hook")) /\ UNCHANGED announced
FireOnSessionClose(h) ==
    /\ Step(h, "hook", IF hs[h].announce THEN At(h, "announce") ELSE Ended)
    /\ UNCHANGED announced

\* mutant: a session of the peer that is still ending counts as one
PeerGoneUnlessEnding(p) ==
    \A e \in Handshakes : PeerOf[e] = p => hs[e].at \notin {"live", "notify", "zeroise", "hook"}

\* hasSessionForPeer.
PeerGone(p) == SessionsOf(p) = {}

FireReannounceIfPeerGone(h) ==
    /\ Step(h, "announce", Ended)
    /\ announced' = IF PeerGone(PeerOf[h]) THEN announced \cup {PeerOf[h]} ELSE announced

Next ==
    \/ \E h \in Handshakes :
          \/ AllocateID(h) \/ ReleaseID(h) \/ Abandon(h) \/ Open(h)
          \/ MarkActive(h) \/ AdoptFabricIndex(h)
          \/ NotifyGracefulClose(h) \/ CloseStaleEntry(h) \/ FireOnSessionClose(h)
          \/ FireReannounceIfPeerGone(h)
    \/ \E i \in Ids : Close(i)
    \/ \E p \in Peers : ClosePeer(p) \/ ClosePeerLost(p)
    \/ \E except \in Handshakes \cup {Free} : CloseFabric(except)
    \/ ClosePASESessions \/ CloseAllGraceful
    \/ \E victims \in SUBSET used, dropped \in SUBSET Handshakes : ReapIdle(victims, dropped)

Spec == Init /\ [][Next]_vars

-----------------------------------------------------------------------------
\* Properties.

\* order is a strict total order of S.
Orders(order, S) ==
    /\ order \subseteq S \X S
    /\ \A d \in S : <<d, d>> \notin order
    /\ \A d, e \in S : d # e => <<d, e>> \in order \/ <<e, d>> \in order
    /\ \A c, d, e \in S : <<c, d>> \in order /\ <<d, e>> \in order => <<c, e>> \in order

\* The state is of the expected shape; the entries that have a stamp of their reservation
\* or of their last traffic, whatever reclaimed or removed them, are those of the table.
TypeOK ==
    /\ table \in [Ids -> Handshakes \cup {Free}] /\ nextID \in Ids
    /\ hs \in [Handshakes -> [at : {"idle", "reserved", "abandoned", "live", "notify", "zeroise",
                                    "hook", "announce", "closed"},
                              id : 0 .. MaxID, announce : BOOLEAN, adopted : BOOLEAN]]
    /\ Orders(elder, Placeholders) /\ used \subseteq Sessions /\ Orders(older, used)
    /\ announced \subseteq Peers \cup {NoPeer} /\ left \subseteq Peers

\* A session whose keys live is found under its id, or is on its way through the close
\* hooks: however ids are reclaimed from handshakes that then go on, no session is left
\* that nothing can reach, close or reap.
NoOrphan == \A h \in Handshakes : hs[h].at = "live" => table[hs[h].id] = h

\* A peer's own sessions stay within the cap, the sessions that share the peer's id with
\* other kinds and reservations that turn into sessions included.
PeerCap ==
    \A p \in Peers :
       Cardinality({e \in SessionsOf(p) : KindOf[e] = "responder"}) <= MaxSessionsPerPeer

\* A peer that a close left without a session hears of the node again: it was announced
\* since, or the session that went is still on its way to the announcement, whichever
\* other sessions of the peer are closing at the same time.
GoneIsAnnounced ==
    \A p \in left : \/ p \in announced
                    \/ \E e \in Handshakes : /\ PeerOf[e] = p /\ hs[e].announce
                                             /\ hs[e].at \in {"notify", "zeroise", "hook", "announce"}
=============================================================================
