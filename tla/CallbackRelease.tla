--------------------------- MODULE CallbackRelease ---------------------------
(***************************************************************************)
(* Binding a record and honouring callbacks on it: Binder.bind             *)
(* (pipeline/binder.py) as IngestPipeline.process and                      *)
(* ConnectorService.ingest call it, CallbackHandler.handle                 *)
(* (callback/handler.py), and the tables salts, leaf_order, callbacks and  *)
(* audit that both write (state/store.py).                                 *)
(*                                                                         *)
(* A step is one SQLite transaction, or a part of a handler that can       *)
(* raise.  Hashing is free of collisions: a leaf is the record of what it  *)
(* commits to, and the signed root of a record is the function from its    *)
(* field names to their leaves; a proof verifies against a root exactly    *)
(* when the root has the leaf.  The two queues to the core appear as what  *)
(* AtLeastOnceDelivery promises of them: what was queued may reach the     *)
(* core at any later time, unless the core refuses it.                     *)
(***************************************************************************)
EXTENDS Naturals, FiniteSets

CONSTANTS
    Records, Fields,
    Rows,         \* mapped source rows: functions from some of Fields to values
    Empty,        \* the value represented by the empty string
    Configs,      \* the configurations the connector may be started with
    Ingesters,    \* threads that call ingest
    Handlers,     \* threads that call callback
    Requests,     \* callback requests: [record, field, allowed]
    NoRequest, NoBinding,
    Refused,      \* external: packages that post_package answers with False
    Limit,        \* rows a flush reads
    MaxIngests,   \* bound: records ingested
    MaxCrashes    \* bound: how often the process dies

Protected == {"pointer", "withheld"}
Dispositions == Protected \cup {"clear", "hash-only"}

ASSUME ConstantsAssumption ==
    /\ \A row \in Rows : row = [f \in DOMAIN row |-> row[f]]
                          /\ DOMAIN row \subseteq Fields
    /\ \A c \in Configs :
        /\ c.disposition \in [Fields -> Dispositions]
        /\ DOMAIN c.class = Fields
    /\ \A q \in Requests : q.record \in Records /\ q.field \in Fields
                            /\ q.allowed \in BOOLEAN
    /\ NoRequest \notin Requests
    /\ Limit \in Nat \ {0}
    /\ MaxIngests \in Nat
    /\ MaxCrashes \in Nat

VARIABLES
    config,       \* mapping, policy and marking, read by start()
    salts,        \* table salts: 0 without a row, n for the n-th salt drawn
    binding,      \* table leaf_order: the last root saved for each record
    audit,        \* table audit: ingest and callback entries
    queued,       \* table outbound: rows [id, record, root]
    callbacks,    \* table callbacks: sealed releases
    held,         \* external: the packages the core holds
    handed,       \* external: the releases the core holds
    ipc, ingest, leaves, ingests,       \* ingest threads
    hpc, request, seen, decision,       \* handler threads
    arrived, ended, answered,           \* requests received, done, replied to
    up, crashes

tables == <<salts, binding, audit, queued, callbacks>>
core == <<held, handed>>
ingesters == <<ipc, ingest, leaves, ingests>>
handlers == <<hpc, request, seen, decision, arrived, ended, answered>>
vars == <<config, tables, core, ingesters, handlers, up, crashes>>

NoIngest == [record |-> NoRequest, row |-> <<>>]

Init ==
    /\ config \in Configs
    /\ salts = [x \in Records \X Fields |-> 0]
    /\ binding = [r \in Records |-> NoBinding]
    /\ audit = {} /\ queued = {} /\ callbacks = {}
    /\ held = {} /\ handed = {}
    /\ ipc = [t \in Ingesters |-> "idle"]
    /\ ingest = [t \in Ingesters |-> NoIngest]
    /\ leaves = [t \in Ingesters |-> <<>>]
    /\ ingests = 0
    /\ hpc = [h \in Handlers |-> "idle"]
    /\ request = [h \in Handlers |-> NoRequest]
    /\ seen = [h \in Handlers |-> NoBinding]
    /\ decision = [h \in Handlers |-> "none"]
    /\ arrived = {} /\ ended = {} /\ answered = {}
    /\ up = TRUE /\ crashes = 0

\* leaf_hash: the value takes part for clear and hash-only fields alone.
Leaf(f, disposition, value, label, salt) ==
    [name |-> f,
     value |-> IF disposition \in Protected THEN Empty ELSE value,
     label |-> label, salt |-> salt]

\* The pipeline labels with the Expectation's marking policy, the callback
\* handler with the one in the connector's own configuration.
BindLabel(f) == <<config.expectationPolicy, config.class[f]>>
CallbackLabel(f) == <<config.markingPolicy, config.class[f]>>

\* Faulty variant: every request draws a new salt.
FreshSalt(r, f) == salts[<<r, f>>] + 1

\* salt_for: the salt of the pair, drawn on first request.
SaltFor(r, f) == IF salts[<<r, f>>] = 0 THEN 1 ELSE salts[<<r, f>>]
Salted(r, f) == salts' = [salts EXCEPT ![<<r, f>>] = SaltFor(r, f)]

-----------------------------------------------------------------------------
(* Ingest.                                                                 *)

\* Mapping, conformance and disposition are pure; a record that raises there
\* changes nothing.
StartIngest(t, r, row) ==
    /\ up
    /\ ipc[t] = "idle"
    /\ ingests < MaxIngests
    /\ ingests' = ingests + 1
    /\ ingest' = [ingest EXCEPT ![t] = [record |-> r, row |-> row]]
    /\ leaves' = [leaves EXCEPT ![t] = <<>>]
    /\ ipc' = [ipc EXCEPT ![t] = "bind"]
    /\ UNCHANGED <<config, tables, core, handlers, up, crashes>>

\* bind, field by field: one transaction per salt.  The fields go in canonical
\* order; no table or property depends on which comes first.
BindField(t, f) ==
    LET r == ingest[t].record
        row == ingest[t].row
    IN  /\ up
        /\ ipc[t] = "bind"
        /\ f \in DOMAIN row \ DOMAIN leaves[t]
        /\ Salted(r, f)
        /\ LET leaf == Leaf(f, config.disposition[f], row[f], BindLabel(f),
                            SaltFor(r, f))
           IN  leaves' = [leaves EXCEPT ![t] =
                            [g \in DOMAIN @ \cup {f} |->
                                IF g = f THEN leaf ELSE @[g]]]
        /\ UNCHANGED <<config, binding, audit, queued, callbacks, core, ipc,
                       ingest, ingests, handlers, up, crashes>>

\* The tree is built and signed; INSERT OR REPLACE INTO leaf_order.
SaveBinding(t) ==
    /\ up
    /\ ipc[t] = "bind"
    /\ DOMAIN leaves[t] = DOMAIN ingest[t].row
    /\ binding' = [binding EXCEPT ![ingest[t].record] = leaves[t]]
    /\ ipc' = [ipc EXCEPT ![t] = "audit"]
    /\ UNCHANGED <<config, salts, audit, queued, callbacks, core, ingest,
                   leaves, ingests, handlers, up, crashes>>

AuditIngest(t) ==
    /\ up
    /\ ipc[t] = "audit"
    /\ audit' = audit \cup {<<"ingest", ingest[t].record>>}
    /\ ipc' = [ipc EXCEPT ![t] = "deliver"]
    /\ UNCHANGED <<config, salts, binding, queued, callbacks, core, ingest,
                   leaves, ingests, handlers, up, crashes>>

\* The row AUTOINCREMENT makes of the package of an ingest.
OutboundRow(t) == [id |-> Cardinality(queued) + 1,
                   record |-> ingest[t].record, root |-> leaves[t]]

\* Faulty variant: a record that was queued before is not queued again.
DeliverOnce(t) ==
    /\ up
    /\ ipc[t] = "deliver"
    /\ queued' = IF \E p \in queued : p.record = ingest[t].record THEN queued
                 ELSE queued \cup {OutboundRow(t)}
    /\ ipc' = [ipc EXCEPT ![t] = "idle"]
    /\ ingest' = [ingest EXCEPT ![t] = NoIngest]
    /\ leaves' = [leaves EXCEPT ![t] = <<>>]
    /\ UNCHANGED <<config, salts, binding, audit, callbacks, core, ingests,
                   handlers, up, crashes>>

\* CoreClient.deliver queues the package; see OutboundQueue for what follows.
Deliver(t) ==
    /\ up
    /\ ipc[t] = "deliver"
    /\ queued' = queued \cup {OutboundRow(t)}
    /\ ipc' = [ipc EXCEPT ![t] = "idle"]
    /\ ingest' = [ingest EXCEPT ![t] = NoIngest]
    /\ leaves' = [leaves EXCEPT ![t] = <<>>]
    /\ UNCHANGED <<config, salts, binding, audit, callbacks, core, ingests,
                   handlers, up, crashes>>

-----------------------------------------------------------------------------
(* Callbacks.                                                              *)

\* handle: the access policy decides on the request alone.
Receive(h, q) ==
    /\ up
    /\ hpc[h] = "idle"
    /\ q \notin arrived
    /\ arrived' = arrived \cup {q}
    /\ request' = [request EXCEPT ![h] = q]
    /\ IF q.allowed
       THEN /\ hpc' = [hpc EXCEPT ![h] = "binding"]
            /\ UNCHANGED decision
       ELSE /\ hpc' = [hpc EXCEPT ![h] = "audit"]
            /\ decision' = [decision EXCEPT ![h] = "deny:access"]
    /\ UNCHANGED <<config, tables, core, ingesters, seen, ended, answered,
                   up, crashes>>

Deny(h, reason) ==
    /\ hpc' = [hpc EXCEPT ![h] = "audit"]
    /\ decision' = [decision EXCEPT ![h] = reason]

GetBinding(h) ==
    LET found == binding[request[h].record]
    IN  /\ up
        /\ hpc[h] = "binding"
        /\ seen' = [seen EXCEPT ![h] = found]
        /\ IF found = NoBinding
           THEN Deny(h, "deny:no-binding")
           ELSE hpc' = [hpc EXCEPT ![h] = "prove"] /\ UNCHANGED decision
        /\ UNCHANGED <<config, tables, core, ingesters, request, arrived,
                       ended, answered, up, crashes>>

\* Faulty variant: the leaf is not compared with the one in the saved root.
ProveByName(h) ==
    LET r == request[h].record
        f == request[h].field
    IN  /\ up
        /\ hpc[h] = "prove"
        /\ Salted(r, f)
        /\ IF f \in DOMAIN seen[h]
           THEN hpc' = [hpc EXCEPT ![h] = "seal"] /\ UNCHANGED decision
           ELSE Deny(h, "deny:field-not-bound")
        /\ UNCHANGED <<config, binding, audit, queued, callbacks, core,
                       ingesters, request, seen, arrived, ended, answered,
                       up, crashes>>

\* The salt (minted if the table has none, even for a field that was never
\* bound), the leaf it gives, and the proof against the saved root.
Prove(h) ==
    LET r == request[h].record
        f == request[h].field
        leaf == Leaf(f, "pointer", Empty, CallbackLabel(f), SaltFor(r, f))
    IN  /\ up
        /\ hpc[h] = "prove"
        /\ Salted(r, f)
        /\ \/ /\ f \notin DOMAIN seen[h]
              /\ Deny(h, "deny:field-not-bound")
           \/ /\ f \in DOMAIN seen[h]
              /\ seen[h][f] # leaf
              /\ Deny(h, "deny:proof-fail")
           \/ /\ f \in DOMAIN seen[h]
              /\ seen[h][f] = leaf
              /\ hpc' = [hpc EXCEPT ![h] = "seal"]
              /\ UNCHANGED decision
        /\ UNCHANGED <<config, binding, audit, queued, callbacks, core,
                       ingesters, request, seen, arrived, ended, answered,
                       up, crashes>>

\* The value is fetched and sealed to the requester's key.
Seal(h) ==
    /\ up
    /\ hpc[h] = "seal"
    /\ hpc' = [hpc EXCEPT ![h] = "enqueue"]
    /\ UNCHANGED <<config, tables, core, ingesters, request, seen, decision,
                   arrived, ended, answered, up, crashes>>

Finish(h) ==
    /\ hpc' = [hpc EXCEPT ![h] = "idle"]
    /\ request' = [request EXCEPT ![h] = NoRequest]
    /\ seen' = [seen EXCEPT ![h] = NoBinding]
    /\ decision' = [decision EXCEPT ![h] = "none"]
    /\ ended' = ended \cup {request[h]}

\* The value lookup raises, or the key of the request is no X25519 key: the
\* exception leaves handle, which catches none.
SealRaises(h) ==
    /\ up
    /\ hpc[h] = "seal"
    /\ Finish(h)
    /\ UNCHANGED <<config, tables, core, ingesters, arrived, answered, up,
                   crashes>>

EnqueueCallback(h) ==
    /\ up
    /\ hpc[h] = "enqueue"
    /\ callbacks' = callbacks \cup {[request |-> request[h],
                                     root |-> seen[h]]}
    /\ hpc' = [hpc EXCEPT ![h] = "audit"]
    /\ decision' = [decision EXCEPT ![h] = "release"]
    /\ UNCHANGED <<config, salts, binding, audit, queued, core, ingesters,
                   request, seen, arrived, ended, answered, up, crashes>>

\* Faulty variant: only releases are logged.
AuditReleases(h) ==
    /\ up
    /\ hpc[h] = "audit"
    /\ audit' = audit \cup ({<<"callback", request[h], decision[h]>>}
                               \cap ({"callback"} \X Requests \X {"release"}))
    /\ answered' = answered \cup {request[h]}
    /\ Finish(h)
    /\ UNCHANGED <<config, salts, binding, queued, callbacks, core,
                   ingesters, arrived, up, crashes>>

\* Every return of handle follows its audit entry.
AuditCallback(h) ==
    /\ up
    /\ hpc[h] = "audit"
    /\ audit' = audit \cup {<<"callback", request[h], decision[h]>>}
    /\ answered' = answered \cup {request[h]}
    /\ Finish(h)
    /\ UNCHANGED <<config, salts, binding, queued, callbacks, core,
                   ingesters, arrived, up, crashes>>

-----------------------------------------------------------------------------
(* The core, and the process as a whole.                                   *)

\* A package without its row.
Package(p) == [record |-> p.record, root |-> p.root]

\* Refused rows stay pending: as many as a flush reads keep it from all
\* others.
Starved == Cardinality({p \in queued : Package(p) \in Refused}) >= Limit

PackageArrives(p) ==
    /\ p \in queued \ held
    /\ Package(p) \notin Refused
    /\ held' = held \cup {p}
    /\ UNCHANGED <<config, tables, handed, ingesters, handlers, up, crashes>>

ReleaseArrives(c) ==
    /\ c \in callbacks \ handed
    /\ handed' = handed \cup {c}
    /\ UNCHANGED <<config, tables, held, ingesters, handlers, up, crashes>>

Crash ==
    /\ up
    /\ crashes < MaxCrashes
    /\ up' = FALSE
    /\ crashes' = crashes + 1
    /\ ipc' = [t \in Ingesters |-> "idle"]
    /\ ingest' = [t \in Ingesters |-> NoIngest]
    /\ leaves' = [t \in Ingesters |-> <<>>]
    /\ hpc' = [h \in Handlers |-> "idle"]
    /\ request' = [h \in Handlers |-> NoRequest]
    /\ seen' = [h \in Handlers |-> NoBinding]
    /\ decision' = [h \in Handlers |-> "none"]
    /\ UNCHANGED <<config, tables, core, ingests, arrived, ended, answered>>

\* start() reads the configuration files again: the operator may have edited
\* them.
Restart ==
    /\ ~up
    /\ up' = TRUE
    /\ config' \in Configs
    /\ UNCHANGED <<tables, core, ingesters, handlers, crashes>>

IngestStep(t) ==
    \/ \E f \in Fields : BindField(t, f)
    \/ SaveBinding(t)
    \/ AuditIngest(t)
    \/ Deliver(t)

HandlerStep(h) ==
    \/ GetBinding(h)
    \/ Prove(h)
    \/ Seal(h)
    \/ SealRaises(h)
    \/ EnqueueCallback(h)
    \/ AuditCallback(h)

Next ==
    \/ \E t \in Ingesters, r \in Records, row \in Rows : StartIngest(t, r, row)
    \/ \E t \in Ingesters : IngestStep(t)
    \/ \E h \in Handlers, q \in Requests : Receive(h, q)
    \/ \E h \in Handlers : HandlerStep(h)
    \/ \E p \in queued : PackageArrives(p)
    \/ \E c \in callbacks : ReleaseArrives(c)
    \/ Crash
    \/ Restart

Spec == Init /\ [][Next]_vars

\* Threads go on and the process is restarted.  Of the queue this is what the
\* liveness of OutboundQueue gives: while fewer packages are refused than a
\* flush reads, the others arrive.
Fairness ==
    /\ \A t \in Ingesters : WF_vars(IngestStep(t))
    /\ \A h \in Handlers : WF_vars(HandlerStep(h))
    /\ WF_vars(~Starved /\ \E p \in queued : PackageArrives(p))
    /\ WF_vars(Restart)

FairSpec == Spec /\ Fairness

-----------------------------------------------------------------------------
Labels == {<<p, f>> : p \in UNION {{c.expectationPolicy, c.markingPolicy} :
                                     c \in Configs},
                      f \in UNION {{c.class[g] : g \in Fields} : c \in Configs}}
Values == {Empty} \cup UNION {{row[f] : f \in DOMAIN row} : row \in Rows}
Leaves == [name : Fields, value : Values, label : Labels, salt : {1}]
Roots == UNION {[F -> Leaves] : F \in SUBSET Fields}
OutboundRows == [id : Nat \ {0}, record : Records, root : Roots]
Decisions == {"deny:access", "deny:no-binding", "deny:field-not-bound",
              "deny:proof-fail", "release"}

TypeOK ==
    /\ config \in Configs
    /\ salts \in [Records \X Fields -> {0, 1}]
    /\ binding \in [Records -> Roots \cup {NoBinding}]
    /\ audit \subseteq ({"ingest"} \X Records)
                         \cup ({"callback"} \X Requests \X Decisions)
    /\ queued \subseteq OutboundRows /\ IsFiniteSet(queued)
    /\ callbacks \subseteq [request : Requests, root : Roots]
    /\ held \subseteq queued
    /\ handed \subseteq callbacks
    /\ ipc \in [Ingesters -> {"idle", "bind", "audit", "deliver"}]
    /\ ingest \in [Ingesters -> [record : Records, row : Rows] \cup {NoIngest}]
    /\ leaves \in [Ingesters -> Roots]
    /\ ingests \in 0..MaxIngests
    /\ hpc \in [Handlers ->
                  {"idle", "binding", "prove", "seal", "enqueue", "audit"}]
    /\ request \in [Handlers -> Requests \cup {NoRequest}]
    /\ seen \in [Handlers -> Roots \cup {NoBinding}]
    /\ decision \in [Handlers -> Decisions \cup {"none"}]
    /\ arrived \subseteq Requests
    /\ answered \subseteq ended
    /\ ended \subseteq arrived
    /\ up \in BOOLEAN
    /\ crashes \in 0..MaxCrashes

\* The salts table reproduces the leaves of a root.
Reproducible(r, root) ==
    \A f \in DOMAIN root :
        /\ root[f].name = f
        /\ salts[<<r, f>>] > 0
        /\ root[f].salt = salts[<<r, f>>]

\* "Return a stable salt" (StateStore.salt_for): every leaf of every root that
\* was saved or sent, of whatever ingest of the record, is reproducible from
\* the salts table, although the salts of one record are drawn in separate
\* transactions, by ingest and callback threads, between crashes.
RootsReproducible ==
    /\ \A r \in Records :
        binding[r] # NoBinding => Reproducible(r, binding[r])
    /\ \A p \in queued : Reproducible(p.record, p.root)

\* A permitted request for a pointer or withheld field of the saved root is
\* refused only if the field's label changed since the record was bound.
RefusedOnlyOnDrift ==
    [][\A h \in Handlers :
        /\ hpc[h] = "prove"
        /\ decision'[h] = "deny:proof-fail"
        => LET leaf == seen[h][request[h].field]
           IN  \/ leaf.value # Empty
               \/ leaf.label # CallbackLabel(request[h].field)]_vars

\* Nothing is queued for release unless access was granted and the leaf of
\* the field, without a value, is in the root the release names: a field
\* whose value was disclosed in clear is never released again as a secret,
\* and no release names a root that does not cover its field.
ReleasesVerify ==
    \A c \in callbacks :
        LET r == c.request.record
            f == c.request.field
        IN  /\ c.request.allowed
            /\ f \in DOMAIN c.root
            /\ c.root[f].value = Empty
            /\ c.root[f].salt = salts[<<r, f>>]

\* The audit log and the tables tell the same story: an audited release is in
\* the callbacks table, an answered request is audited, a request that was
\* handled to the end is not in the callbacks table without an audited
\* release, whatever crash there was since, and a package leaves only after
\* its ingest was audited.
AuditIsTruthful ==
    /\ \A q \in Requests :
        /\ <<"callback", q, "release">> \in audit
             => \E c \in callbacks : c.request = q
        /\ q \in answered
             => \E d \in Decisions : <<"callback", q, d>> \in audit
    /\ \A c \in callbacks :
        c.request \in ended => <<"callback", c.request, "release">> \in audit
    /\ \A p \in queued : <<"ingest", p.record>> \in audit

PackageOf(c) == [record |-> c.request.record, root |-> c.root]
RootArrived(c) == \E p \in held : Package(p) = PackageOf(c)
IsQueued(c) == \E p \in queued : Package(p) = PackageOf(c)

\* A release that reaches the core names a root whose package reaches it too,
\* before or after (handed and held only grow).
ReleasedRootArrives == []<>(\A c \in handed : RootArrived(c))

\* The same but for the packages the core refuses and the ones starved behind
\* them, and for a root whose ingest died between save_binding and
\* enqueue_outbound.  While the process lives every saved root is queued in
\* the end: also one that a callback released against before that, by a
\* thread of its own, or one that a later ingest of the record overtook.
ReleasedRootArrivesBarringFailures ==
    []<>(\/ Starved
         \/ \A c \in handed : \/ RootArrived(c)
                              \/ PackageOf(c) \in Refused
                              \/ crashes > 0 /\ ~IsQueued(c))

\* "Every request is logged locally whatever the outcome"
\* (callback/handler.py:19-20).
EndedIsAudited ==
    \A q \in ended : \E d \in Decisions : <<"callback", q, d>> \in audit
=============================================================================
