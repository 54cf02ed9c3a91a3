-------------------------- MODULE MCOutboundQueue --------------------------
(* Model-checking instances of OutboundQueue: two packages and one the     *)
(* core refuses, an ingest thread and a timer.                             *)
EXTENDS OutboundQueue

CONSTANTS p1, p2, r1, i1, t1
=============================================================================
