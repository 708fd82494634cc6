----------------------------- MODULE MCAckPump -----------------------------
\* Small instances of AckPump: what the peer sends, and on which exchange.
EXTENDS AckPump

\* A chunked request with its StatusResponse, and the answer to a report.
StreamKind == [ask |-> "chunked", status |-> "status", rep |-> "reported"]
StreamExchangeOf == [ask |-> "x", status |-> "x", rep |-> "y"]
StreamMessages == DOMAIN StreamKind

\* What the safety run tells states apart by.  To a pipelining peer only a message not
\* yet sent differs from the others, and which reason an obligation is lost for, or
\* whether there was one for an acknowledged message, decides no step.
StreamView ==
    <<{m \in Messages : peer[m] = "new"}, seen, pending, due, displaced, route, rx, stream,
      work, emit, acked, {m \in Messages : Settled(m)}, LostFor("request"), LostFor("status")>>

\* A request that suppresses its answer, and one that does not.
QuietKind == [supp |-> "suppressed", req |-> "request"]
QuietExchangeOf == [supp |-> "x", req |-> "x"]
QuietMessages == DOMAIN QuietKind
=============================================================================
