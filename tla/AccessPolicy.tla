---------------------------- MODULE AccessPolicy ----------------------------
(***************************************************************************)
(* Who may have a field released on a callback: the connector's rules      *)
(* (callback/access.py), each allowing or denying for one reason, and the  *)
(* conjunction that ConnectorService builds from the configured levels.    *)
(* CallbackRelease takes the verdict as given.                             *)
(*                                                                         *)
(* A request is [roles, clearance, nationality, purpose, lawfulBasis,      *)
(* devicePosture]; a rule is [reason, ...], the reason naming its class.   *)
(***************************************************************************)
EXTENDS Integers, Sequences, FiniteSets

NoBasis == ""

\* A clearance's rank is that of its last place in the order; -1 is not found.
RankIn(order, c, otherwise) ==
    IF \E i \in DOMAIN order : order[i] = c
    THEN CHOOSE i \in DOMAIN order :
             order[i] = c /\ \A j \in DOMAIN order : order[j] = c => j <= i
    ELSE otherwise

\* Faulty variant: a clearance that is not of the order counts as its lowest.
ClearsLowest(rule, q) ==
    RankIn(rule.order, q.clearance, 1) >=
        RankIn(rule.order, rule.minimum, Len(rule.order) + 1)

\* MinimumClearance: what is not of the order is below everything, as a
\* minimum above everything.
Clears(rule, q) ==
    RankIn(rule.order, q.clearance, 0) >=
        RankIn(rule.order, rule.minimum, Len(rule.order) + 1)

\* The six classes of AccessRule.
Evaluates(rule, q) ==
    CASE rule.reason = "role" -> q.roles \cap rule.roles # {}
      [] rule.reason = "clearance" -> Clears(rule, q)
      [] rule.reason = "releasability" -> q.nationality \in rule.nations
      [] rule.reason = "purpose" -> q.purpose \in rule.permitted
      [] rule.reason = "lawful-basis" -> q.lawfulBasis # NoBasis
      [] rule.reason = "device-posture" -> q.devicePosture \in rule.acceptable

\* AccessPolicy.evaluate: the first rule that denies gives the reason.
Denial(rules, q) ==
    IF \A i \in DOMAIN rules : Evaluates(rules[i], q) THEN "none"
    ELSE rules[CHOOSE i \in DOMAIN rules :
                   /\ ~Evaluates(rules[i], q)
                   /\ \A j \in 1 .. i - 1 : Evaluates(rules[j], q)].reason

\* ConnectorService._build_access_policy.
AccessRules(levels) ==
    <<IF \E i \in DOMAIN levels : levels[i] = "RESTRICTED"
      THEN [reason |-> "clearance", minimum |-> "RESTRICTED",
            order |-> levels]
      ELSE [reason |-> "device-posture", acceptable |-> {"managed-attested"}],
      [reason |-> "lawful-basis"]>>

\* A request that is allowed stays so with a higher clearance, and where the
\* levels have RESTRICTED none is allowed at a lower one or at one that is not
\* of the levels; never without a lawful basis (service.py,
\* _build_access_policy; access.py, MinimumClearance).
ClearanceIsMonotone(requests, levels) ==
    \A q \in requests :
        Denial(AccessRules(levels), q) = "none" =>
            /\ q.lawfulBasis # NoBasis
            /\ \A c \in {levels[i] : i \in DOMAIN levels} :
                   RankIn(levels, c, 0) >= RankIn(levels, q.clearance, 0) =>
                       Denial(AccessRules(levels),
                              [q EXCEPT !.clearance = c]) = "none"
            /\ \A i \in DOMAIN levels :
                   levels[i] = "RESTRICTED" =>
                       RankIn(levels, q.clearance, 0) >= i
=============================================================================
