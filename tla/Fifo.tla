-------------------------------- MODULE Fifo --------------------------------
(***************************************************************************)
(* What a reliable connection promises in one direction: every message     *)
(* that was submitted arrives once, whole and in order, until the          *)
(* connection ends; and while it lasts a submitted message does not wait   *)
(* for ever.                                                               *)
(***************************************************************************)
EXTENDS Naturals, Sequences

CONSTANT Limit  \* bound: messages submitted

VARIABLES
    sent,       \* messages submitted, in order
    delivered,  \* messages handed to the receiver, in order
    open        \* the receiver still receives

vars == <<sent, delivered, open>>

Init == sent = <<>> /\ delivered = <<>> /\ open = TRUE

Submit ==
    /\ Len(sent') = Len(sent) + 1
    /\ SubSeq(sent', 1, Len(sent)) = sent
    /\ UNCHANGED <<delivered, open>>

Deliver ==
    /\ open
    /\ Len(delivered) < Len(sent)
    /\ delivered' = Append(delivered, sent[Len(delivered) + 1])
    /\ UNCHANGED <<sent, open>>

End == open /\ ~open' /\ UNCHANGED <<sent, delivered>>

Next == Submit \/ Deliver \/ End

\* Whole, once and in order.
Safety == Init /\ [][Next]_vars

\* A submitted message is delivered, or the connection ends.
Arrives == \A n \in 1 .. Limit : Len(sent) >= n ~> Len(delivered) >= n \/ ~open

Spec == Safety /\ Arrives

=============================================================================
