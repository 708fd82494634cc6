--------------------------- MODULE MCSubscriptions ---------------------------
(***************************************************************************)
(* Instances of Subscriptions for TLC.                                     *)
(***************************************************************************)
EXTENDS Subscriptions

CONSTANT p
\* All subscriptions are of one controller.
OnePeer == [s \in Subs |-> p]
=============================================================================
