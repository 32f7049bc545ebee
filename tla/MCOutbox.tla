------------------------------- MODULE MCOutbox -------------------------------
(* One work message and the purge request that covers it.                    *)
EXTENDS Outbox

CONSTANTS a1, a2, p1g1, p1del

MCCovers == [d \in Purge |-> {p1g1}]

=============================================================================
