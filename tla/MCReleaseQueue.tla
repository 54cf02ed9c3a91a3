--------------------------- MODULE MCReleaseQueue ---------------------------
(* Model-checking instances of ReleaseQueue: c1 and c2 have windows, r1 is *)
(* refused by the core.                                                    *)
EXTENDS ReleaseQueue, TLC

CONSTANTS c1, c2, r1

MCOpens == c1 :> 1 @@ c2 :> 2 @@ r1 :> 1

\* c2's not_before is written with an offset of its own, five hours behind
\* UTC: as text it sorts among earlier readings of the UTC clock.
OffsetText == [MCOpens EXCEPT ![c2] = 1]
=============================================================================
