--------------------------- MODULE MCReadReceipts ---------------------------
(* ReadReceipts on a small instance: two messages to the same receiver,    *)
(* who reads them with two calls at a time.                                *)
EXTENDS ReadReceipts, TLC

CONSTANTS ann, bob, m1, m2

MCPair == {ann, bob}
MCMessages == {m1, m2}
MCRuns == (ann :> {1}) @@ (bob :> {1, 2})
MCsender == (m1 :> ann) @@ (m2 :> ann)
=============================================================================
