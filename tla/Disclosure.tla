----------------------------- MODULE Disclosure -----------------------------
(***************************************************************************)
(* The reference's callback contract (rachis/disclosure.py) with the salt  *)
(* store it shares with the Binder (rachis/trust.py): requests on a field  *)
(* of the record, rules that deny, revocations, and releases proved        *)
(* against the root the platform holds.  There is one record.              *)
(***************************************************************************)
EXTENDS Provenance

CONSTANTS
    Requests,     \* [field, requester, clearance, nationality, purpose]
    Rules,        \* the source's rules, in order
    MaxCalls      \* bound: calls of handle

RuleKinds == {"clearance", "purpose", "releasability"}

ASSUME MaxCallsAssumption == MaxCalls \in Nat
ASSUME RulesAssumption == \A i \in DOMAIN Rules : Rules[i].kind \in RuleKinds

Decisions == RuleKinds \cup {"deny:revoked", "release", "release:proof-fail"}

VARIABLES
    store,        \* SaltStore: how many there have been, the current the last
    revoked,      \* pairs of a field and a requester
    log           \* the handler's log, [request, decision]

sourceVars == <<store, revoked, log>>

\* A field's salt is drawn on first request and kept (salt_for).  The leaf
\* names its field, so the salt need not: it is told by its store, and none
\* drawn after a loss of the store equals one from before.
SourceInit == store = 1 /\ revoked = {} /\ log = << >>

\* deny_below_clearance, deny_purpose, require_releasable_to.  A clearance
\* or a minimum that is not of the order allows nobody.
Allows(rule, q) ==
    CASE rule.kind = "clearance" ->
            /\ {q.clearance, rule.minimum} \subseteq DOMAIN rule.order
            /\ rule.order[q.clearance] >= rule.order[rule.minimum]
      [] rule.kind = "purpose" -> q.purpose \notin rule.blocked
      [] rule.kind = "releasability" -> q.nationality \in rule.nations

Denying(q) == {i \in DOMAIN Rules : ~Allows(Rules[i], q)}

Revoke(q) ==
    /\ revoked' = revoked \cup {<<q.field, q.requester>>}
    /\ UNCHANGED <<store, log>>

Logged(q, decision) ==
    log' = Append(log, [request |-> q, decision |-> decision])

\* Faulty variant: a revocation is spent by the call it denies.
DenyRevokedOnce(q) ==
    /\ <<q.field, q.requester>> \in revoked
    /\ Logged(q, "deny:revoked")
    /\ revoked' = revoked \ {<<q.field, q.requester>>}
    /\ UNCHANGED store

DenyRevoked(q) ==
    /\ <<q.field, q.requester>> \in revoked
    /\ Logged(q, "deny:revoked")
    /\ UNCHANGED <<store, revoked>>

\* The first rule that denies gives the reason.
DenyByRule(q) ==
    /\ <<q.field, q.requester>> \notin revoked
    /\ \E i \in Denying(q) :
           /\ \A j \in Denying(q) : i <= j
           /\ Logged(q, Rules[i].kind)
    /\ UNCHANGED <<store, revoked>>

\* Faulty variant: the header's leaf is not counted.
ProvesAt(q, root, bound) ==
    LET index == CHOOSE i \in DOMAIN bound.order : bound.order[i] = q.field
        leaf == LeafHash(q.field, "pointer", None, bound.label[q.field],
                         store)
    IN  Verifies(leaf, Proof(bound.leaves, index - 1), root)

\* The leaf is rebuilt as a pointer's and proved in the tree as it was bound.
Proves(q, root, bound) ==
    LET index == CHOOSE i \in DOMAIN bound.order : bound.order[i] = q.field
        leaf == LeafHash(q.field, "pointer", None, bound.label[q.field],
                         store)
    IN  Verifies(leaf, Proof(bound.leaves, index), root)

\* The value is released whether the proof holds or not; only the log tells.
Release(q, root, bound) ==
    /\ <<q.field, q.requester>> \notin revoked
    /\ Denying(q) = {}
    /\ Logged(q, IF Proves(q, root, bound) THEN "release"
                 ELSE "release:proof-fail")
    /\ UNCHANGED <<store, revoked>>

\* CallbackHandler.handle on a root the platform holds; bound, the leaves,
\* their order and the labels as last bound, is what its caller looks up.
Handle(q, root, bound) ==
    /\ Len(log) < MaxCalls
    /\ \E i \in DOMAIN bound.order : bound.order[i] = q.field
    /\ DenyRevoked(q) \/ DenyByRule(q) \/ Release(q, root, bound)

\* A new process: the revocations and the log are gone.  The salts are those exported
\* before (SaltStore.export, load), or lost too.
Reload(exported) ==
    /\ revoked' = {} /\ log' = << >>
    /\ store' = IF exported THEN store ELSE store + 1
=============================================================================
