------------------------------- MODULE MCOutbox -------------------------------
(* Outbox with room for one of two messages, two pages and two drains.       *)
EXTENDS Outbox

CONSTANTS p1, p2, r1, r2

MCMsg   == 1 .. 2
MCPage  == {p1, p2}
MCDrain == {r1, r2}
=============================================================================
