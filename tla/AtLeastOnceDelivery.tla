------------------------ MODULE AtLeastOnceDelivery ------------------------
(***************************************************************************)
(* What the outbound queue promises its callers: a package that was        *)
(* accepted is transmitted at least once before it is confirmed, may be    *)
(* transmitted again at any time, and, unless the core refuses it, is      *)
(* confirmed in the end.  deliver's comment (core/client.py:91-96) states  *)
(* it: the package is persisted before any network attempt, and what is    *)
(* not delivered now is kept for a retry.                                  *)
(***************************************************************************)
EXTENDS Naturals

CONSTANTS
    Packages,   \* what callers hand over
    Refused,    \* those the receiver never takes
    MaxCount    \* where the count of copies saturates

VARIABLES
    accepted,   \* durably taken over from the caller
    copies,     \* copies of each package the receiver has
    confirmed   \* known to have arrived; never retried again

vars == <<accepted, copies, confirmed>>

Init ==
    /\ accepted = {}
    /\ copies = [p \in Packages |-> 0]
    /\ confirmed = {}

Accept(p) ==
    /\ p \notin accepted
    /\ accepted' = accepted \cup {p}
    /\ UNCHANGED <<copies, confirmed>>

Transmit(p) ==
    /\ p \in accepted
    /\ p \notin Refused
    /\ copies' = [copies EXCEPT ![p] = IF @ < MaxCount THEN @ + 1 ELSE @]
    /\ UNCHANGED <<accepted, confirmed>>

Confirm(p) ==
    /\ p \in accepted
    /\ copies[p] > 0
    /\ confirmed' = confirmed \cup {p}
    /\ UNCHANGED <<accepted, copies>>

Next == \E p \in Packages : Accept(p) \/ Transmit(p) \/ Confirm(p)

Spec == Init /\ [][Next]_vars

\* Whatever is accepted, and not refused, is confirmed in the end (what is
\* accepted or confirmed remains so).
Confirmation == []<>(accepted \ Refused \subseteq confirmed)
=============================================================================
