------------------------- MODULE MCOutboundReliable -------------------------
\* Messages with one counter on three sessions: a report, the first message of an
\* exchange opened with the same peer on another session, and a Sigma2 whose exchange
\* id is the report's; and a second report of the subscription.
EXTENDS OutboundReliable, TLC

MCMessages == {"r", "q", "o", "h"}
MCKind == ("r" :> "report") @@ ("q" :> "report") @@ ("o" :> "initiated") @@ ("h" :> "sigma2")
MCSession == ("r" :> "A") @@ ("q" :> "A") @@ ("o" :> "B") @@ ("h" :> "0")
MCCounter == ("q" :> 8) @@ [m \in MCMessages |-> 7]
MCExchange == ("r" :> 5) @@ ("q" :> 6) @@ ("o" :> 7) @@ ("h" :> 5)
MCOwner == ("r" :> "s") @@ ("q" :> "s") @@ [m \in MCMessages |-> "none"]
MCSubSession == "s" :> "A"
MCPeer == ("A" :> "p") @@ ("B" :> "p")
=============================================================================
