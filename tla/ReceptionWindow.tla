-------------------------- MODULE ReceptionWindow --------------------------
(***************************************************************************)
(* The message counters of one direction of a session: the sender's        *)
(* mrp.Counter, or the persisted dataCounter of group messages, and the    *)
(* receiver's mrp.Window, which tells a message it has seen from a new one *)
(* by the wire counter alone.                                              *)
(*                                                                         *)
(* Between them is a network that loses, delays, reorders and duplicates.  *)
(* A message is its wire counter and the lap of the 32-bit space it was    *)
(* drawn in; the receiver never sees the lap, and the properties say that  *)
(* it judges as if it did.  The lap is never used by the code's part of    *)
(* the model, only by the guards that bound the network and by the         *)
(* properties.                                                             *)
(***************************************************************************)
EXTENDS Integers

CONSTANTS
    WindowSize,   \* windowSize, 32 in the code
    CounterMax,   \* maxCounter32, the last wire counter
    Reserve,      \* groupDataCounterReserve, 1000 in the code
    Variants,     \* kinds of session, see below
    Seeds,        \* counters a sender may start from
    MaxLap        \* bound: how often the counter wraps

ASSUME WindowAssumption ==
    /\ WindowSize \in Nat \ {0} /\ CounterMax \in Nat /\ MaxLap \in Nat
    /\ 2 * WindowSize < CounterMax
    /\ Reserve \in Nat \ {0} /\ Reserve < CounterMax
    /\ Variants \subseteq {"secure", "group", "unsecured"}
    /\ Seeds \subseteq 0..(CounterMax - 1)   \* drawn from the low part of the space

Size == CounterMax + 1
Half == Size \div 2     \* maxCounterIncrease2pow31
Bits == 0..(WindowSize - 1)
Wire == 0..CounterMax
Messages == [lap : 0..MaxLap, ctr : Wire]

VARIABLES
    variant,    \* which counter and window the session has: "secure" (NextNoRollover,
                \* NewWindowNoRollover), "group" (dataCounter, NewWindowEncryptedRollover)
                \* or "unsecured" (Next, NewWindow)
    next,       \* the sender's counter: the message it draws next
    reserved,   \* the dataCounter's high mark, in memory ...
    stored,     \* ... and in the store
    sent,       \* the messages sent, any of which may arrive at any time
    primed, max, bitmap,   \* the Window; bitmap is the set of its 1 bits
    hi,         \* the message whose counter is max
    first,      \* the message the window anchored on
    accepted,   \* the messages Accept returned true for
    verdict     \* what Accept returned last: "none", "fresh" or "duplicate"

marks == <<reserved, stored>>
sender == <<variant, next, marks, sent>>
window == <<primed, max, bitmap>>
vars == <<variant, next, reserved, stored, sent, primed, max, bitmap, hi, first, accepted, verdict>>

\* How far m was drawn after h.
Dist(m, h) == (m.ctr - h.ctr) + (m.lap - h.lap) * Size

\* The full bitmap makes all below the anchor count as seen.
InitialBitmap == IF variant = "unsecured" THEN {} ELSE Bits

Following(m) == IF m.ctr = CounterMax THEN [lap |-> m.lap + 1, ctr |-> 0]
                                      ELSE [m EXCEPT !.ctr = @ + 1]

\* reserveAhead: the mark a reserve past m, short of the wrap.
Mark(m) == [m EXCEPT !.ctr = IF @ + Reserve <= CounterMax THEN @ + Reserve ELSE CounterMax]

-----------------------------------------------------------------------------
\* NewCounter draws its seed first, newDataCounter the one after it.
Init ==
    /\ variant \in Variants
    /\ \E c \in Seeds : LET seed == [lap |-> 0, ctr |-> c]
                        IN /\ next = IF variant = "group" THEN Following(seed) ELSE seed
                           /\ reserved = Mark(seed)
    /\ stored = reserved
    /\ sent = {}
    /\ primed = "no" /\ max = 0 /\ bitmap = {}
    /\ hi = next /\ first = next
    /\ accepted = {}
    /\ verdict = "none"

-----------------------------------------------------------------------------
(* The sender *)

\* Next wraps; NextNoRollover, of a secure session, refuses the last counter.
Send ==
    /\ variant # "group"
    /\ next.ctr = CounterMax => variant # "secure" /\ next.lap < MaxLap
    /\ next' = Following(next)
    /\ sent' = sent \cup {next}
    /\ UNCHANGED <<variant, marks, window, hi, first, accepted, verdict>>

\* An unsecured sender that restarts draws a new seed; one below the counter it
\* had reached belongs to the next lap.
Restart ==
    /\ variant = "unsecured"
    /\ \E c \in Seeds :
        LET lap == IF c < next.ctr THEN next.lap + 1 ELSE next.lap
        IN  lap <= MaxLap /\ next' = [lap |-> lap, ctr |-> c]
    /\ UNCHANGED <<variant, marks, sent, window, hi, first, accepted, verdict>>

\* dataCounter.next moves the mark when the counter has come to it, or has wrapped.
NeedsMarkNoWrap(c) == c >= reserved.ctr   \* mutant: the wrap is not noticed
NeedsMark(c) == c >= reserved.ctr \/ c + Reserve < reserved.ctr

SendGroup ==
    /\ variant = "group"
    /\ next.ctr = CounterMax => next.lap < MaxLap
    /\ next' = Following(next)
    /\ sent' = sent \cup {next}
    /\ IF NeedsMark(next.ctr) THEN reserved' = Mark(next) /\ stored' = Mark(next)
                              ELSE UNCHANGED marks
    /\ UNCHANGED <<variant, window, hi, first, accepted, verdict>>

\* The store reports an error, whether or not it wrote: the counter has moved and
\* nothing is sent.  Bound: this does not go on for a whole turn of the counter.
ReserveFails ==
    /\ variant = "group"
    /\ NeedsMark(next.ctr)
    /\ next.ctr = CounterMax => next.lap < MaxLap
    /\ Dist(Following(next), reserved) < Size - Reserve
    /\ next' = Following(next)
    /\ stored' \in {stored, Mark(next)}
    /\ UNCHANGED <<variant, reserved, sent, window, hi, first, accepted, verdict>>

\* The node stops or crashes, and newDataCounter goes on at the stored mark.
RestartGroup ==
    /\ variant = "group"
    /\ stored.ctr = CounterMax => stored.lap < MaxLap
    /\ next' = Following(stored)
    /\ reserved' = Mark(stored) /\ stored' = Mark(stored)
    /\ UNCHANGED <<variant, sent, window, hi, first, accepted, verdict>>

-----------------------------------------------------------------------------
(* The receiver *)

\* diff: the distance of wire counter c from max as the variant reads it.
diffUnfolded(c) == c - max   \* mutant: no variant folds at the wrap
diffFoldsShort(c) ==         \* mutant: the fold below the wrap is one counter short
    LET d == c - max IN
    IF d > 0 /\ CounterMax - d < WindowSize - 1 THEN d - Size
    ELSE IF d < -WindowSize THEN d + Size ELSE d
diff(c) ==
    LET d == c - max IN
    IF variant = "group" THEN
        IF d > 0 /\ d >= Half THEN d - Size
        ELSE IF d < 0 /\ d < -Half THEN d + Size ELSE d
    ELSE IF variant = "secure" THEN d
    ELSE
        IF d > 0 /\ CounterMax - d < WindowSize THEN d - Size
        ELSE IF d < -WindowSize THEN d + Size ELSE d

\* The bitmap d further on: bit i moves to i + d, and bit d - 1 is the old max.
ShiftedForgetsMax(d) ==   \* mutant: the old maximum is not recorded
    {i + d : i \in {j \in bitmap : j + d \in Bits}}
Shifted(d) ==
    {i + d : i \in {j \in bitmap : j + d \in Bits}} \cup (IF d <= WindowSize THEN {d - 1} ELSE {})

\* What Accept(m.ctr) returns and does to the window.
IsDuplicateShort(c) ==   \* mutant: the last counter of the window is let in again
    c = max \/ (diff(c) < 0 /\ (diff(c) < -WindowSize - 1 \/ -diff(c) - 1 \in bitmap))
IsDuplicate(c) ==
    c = max \/ (diff(c) < 0 /\ (diff(c) < -WindowSize \/ -diff(c) - 1 \in bitmap))

Prime(m) ==
    /\ primed = "no"
    /\ primed' = "yes" /\ max' = m.ctr /\ bitmap' = InitialBitmap
    /\ hi' = m /\ first' = m
    /\ accepted' = {m} /\ verdict' = "fresh"

Drop(m) ==
    /\ primed = "yes" /\ IsDuplicate(m.ctr)
    /\ verdict' = "duplicate"
    /\ UNCHANGED <<window, hi, first, accepted>>

FillIn(m) ==
    /\ primed = "yes" /\ ~IsDuplicate(m.ctr) /\ diff(m.ctr) < 0
    /\ bitmap' = bitmap \cup {-diff(m.ctr) - 1}
    /\ accepted' = accepted \cup {m} /\ verdict' = "fresh"
    /\ UNCHANGED <<primed, max, hi, first>>

Advance(m) ==
    /\ primed = "yes" /\ ~IsDuplicate(m.ctr) /\ diff(m.ctr) >= 0
    /\ bitmap' = Shifted(diff(m.ctr))
    /\ max' = m.ctr /\ hi' = m
    /\ accepted' = accepted \cup {m} /\ verdict' = "fresh"
    /\ UNCHANGED <<primed, first>>

\* How far from hi a message may be drawn for its counter to tell it apart.  A
\* secure counter never wraps; the others run on, and a message further away
\* than this is taken for another by design.
InReach(m) ==
    /\ variant = "group" => Dist(m, hi) \in -Half..(Half - 1)
    /\ variant = "unsecured" => Dist(m, hi) \in -WindowSize..(CounterMax - WindowSize)

\* A message arrives: any sent so far, early, late or again.
Receive(m) ==
    /\ m \in sent
    /\ primed = "yes" => InReach(m)
    /\ Prime(m) \/ Drop(m) \/ FillIn(m) \/ Advance(m)
    /\ UNCHANGED sender

Next ==
    \/ Send \/ Restart
    \/ SendGroup \/ ReserveFails \/ RestartGroup
    \/ \E m \in sent : Receive(m)

Spec == Init /\ [][Next]_vars

-----------------------------------------------------------------------------
\* Every variable keeps its type: no bit is ever set beyond the bitmap's width.
TypeOK ==
    /\ variant \in Variants
    /\ next \in Messages /\ reserved \in Messages /\ stored \in Messages
    /\ sent \subseteq Messages
    /\ primed \in {"no", "yes"} /\ max \in Wire /\ bitmap \subseteq Bits
    /\ hi \in Messages /\ first \in Messages
    /\ accepted \subseteq Messages
    /\ verdict \in {"none", "fresh", "duplicate"}

\* A group counter is never handed out twice, nor one behind another: the counter is
\* past every one sent, and so is what the store holds, for a node that restarts at any
\* moment, also at the wrap and after writes that failed.
GroupCounterFresh ==
    variant = "group" => \A m \in sent : Dist(m, next) < 0 /\ Dist(m, stored) <= 0

\* Bit i of Window.bitmap says whether the message i + 1 before the newest one was
\* accepted: Accept's shifts lose and invent nothing, over any order of arrival,
\* any gap and the wrap of the counter.  Below the anchor of an encrypted window
\* all bits are set.
BitmapExact ==
    primed = "yes" =>
        \A m \in Messages : Dist(m, hi) \in -WindowSize..(-1) =>
            (-Dist(m, hi) - 1 \in bitmap
                <=> m \in accepted \/ (variant # "unsecured" /\ Dist(m, first) < 0))

\* A message is handled at most once: Accept never returns true for one it returned
\* true for before, however often and late the network repeats it.
NeverTwice == [][\A m \in sent : Receive(m) /\ verdict' = "fresh" => m \notin accepted]_vars

\* Accept drops no message it need not drop: one it has not accepted is refused only
\* when it is more than a window behind or, in an encrypted session, older than the
\* anchor.
NoFalseDrop ==
    [][\A m \in sent : Receive(m) /\ verdict' = "duplicate" =>
          \/ m \in accepted
          \/ Dist(m, hi) < -WindowSize
          \/ variant # "unsecured" /\ Dist(m, first) < 0]_vars
=============================================================================
