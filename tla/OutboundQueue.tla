--------------------------- MODULE OutboundQueue ---------------------------
(***************************************************************************)
(* The connector's durable outbound queue: CoreClient.deliver,             *)
(* flush_outbound and _try_deliver_one (core/client.py) over the outbound  *)
(* and audit tables (state/store.py), called by ingest threads and by the  *)
(* timers that run ConnectorService.tick (service.py).                     *)
(*                                                                         *)
(* A step is one SQLite transaction or one post to the core: StateStore    *)
(* takes its lock per transaction, so everything between two transactions  *)
(* interleaves with the other threads.  The transport and the core are     *)
(* outside the connector; a post has one of the four outcomes below.       *)
(***************************************************************************)
EXTENDS Naturals, Sequences, FiniteSets

CONSTANTS
    Packages,     \* disclosure packages, one per call of ingest
    Ingesters,    \* threads that call ConnectorService.ingest
    Timers,       \* threads that call ConnectorService.tick
    Refused,      \* packages the core answers False to, however often posted
    Limit,        \* rows one flush reads (the limit of pending_outbound)
    MaxCount,     \* where the counters of this model saturate
    MaxCrashes,   \* bound: how often the process dies
    NoPackage     \* the job of a thread that has none

Threads == Ingesters \cup Timers

ASSUME ThreadsAssumption ==
    /\ IsFiniteSet(Threads)
    /\ Ingesters \cap Timers = {}
ASSUME PackagesAssumption ==
    /\ Refused \subseteq Packages
    /\ NoPackage \notin Packages
ASSUME BoundsAssumption ==
    /\ Limit \in Nat \ {0}
    /\ MaxCount \in Nat \ {0}
    /\ MaxCrashes \in Nat

VARIABLES
    outbound,     \* table outbound: the packages in the order of their ids
    delivered,    \* the packages whose row has delivered = 1
    attempts,     \* the attempts column (saturating: no code reads it)
    audit,        \* delivery rows of table audit, counted by result
    pc,           \* where each thread stands
    job,          \* the row _try_deliver_one works on, per thread
    batch,        \* rows a flush has read and not yet tried, per thread
    received,     \* external: copies of each package the core accepted
    up,           \* whether the process runs
    crashes       \* crashes so far

tables == <<outbound, delivered, attempts, audit>>
vars == <<outbound, delivered, attempts, audit, pc, job, batch, received,
          up, crashes>>

Steps == {"idle", "attempt", "post", "auditError", "mark", "auditDelivered"}

Rows == {outbound[i] : i \in DOMAIN outbound}

\* a was queued before b: the row of a has the smaller id.
Before(a, b) ==
    \E i, j \in DOMAIN outbound :
        i < j /\ outbound[i] = a /\ outbound[j] = b

\* Counters stop at MaxCount, so that an endlessly retried row stays finite.
Bump(n) == IF n < MaxCount THEN n + 1 ELSE n

-----------------------------------------------------------------------------
Init ==
    /\ outbound = <<>>
    /\ delivered = {}
    /\ attempts = [p \in Packages |-> 0]
    /\ audit = [p \in Packages |-> [delivered |-> 0, error |-> 0]]
    /\ pc = [t \in Threads |-> "idle"]
    /\ job = [t \in Threads |-> NoPackage]
    /\ batch = [t \in Threads |-> {}]
    /\ received = [p \in Packages |-> 0]
    /\ up = TRUE
    /\ crashes = 0

\* Thread t starts on the row of p; the rest of its batch is ps.
Take(t, p, ps) ==
    /\ pc' = [pc EXCEPT ![t] = "attempt"]
    /\ job' = [job EXCEPT ![t] = p]
    /\ batch' = [batch EXCEPT ![t] = ps]

\* The loop of flush_outbound, and the return of deliver, whose batch is
\* empty: the row with the smallest id is next, and the call ends after the
\* last one.
Continue(t, ps) ==
    IF ps = {}
    THEN /\ pc' = [pc EXCEPT ![t] = "idle"]
         /\ job' = [job EXCEPT ![t] = NoPackage]
         /\ batch' = [batch EXCEPT ![t] = {}]
    ELSE \E p \in ps :
            /\ \A q \in ps : ~Before(q, p)
            /\ Take(t, p, ps \ {p})

\* Faulty variant: the first attempt is made before the row is committed.
DeliverUnqueued(t, p) ==
    /\ up
    /\ pc[t] = "idle"
    /\ p \notin Rows
    /\ Take(t, p, {})
    /\ UNCHANGED <<tables, received, up, crashes>>

\* deliver: the package is queued in a transaction of its own, before any
\* attempt to post it.
Deliver(t, p) ==
    /\ up
    /\ pc[t] = "idle"
    /\ p \notin Rows
    /\ outbound' = Append(outbound, p)
    /\ Take(t, p, {})
    /\ UNCHANGED <<delivered, attempts, audit, received, up, crashes>>

\* Faulty variant: WHERE delivered=0 is forgotten.
PendingAll == Rows

Pending == {p \in Rows : p \notin delivered}

\* Faulty variant: only rows that were never attempted are read.
FirstUntried == {p \in Pending : attempts[p] = 0}

\* pending_outbound: WHERE delivered=0 ORDER BY id LIMIT ?.
FirstPending ==
    {p \in Pending : Cardinality({q \in Pending : Before(q, p)}) < Limit}

\* flush_outbound, called by the timer: one SELECT, then the loop; with nothing
\* pending the call ends at once.
FlushOutbound(t) ==
    /\ up
    /\ pc[t] = "idle"
    /\ Continue(t, FirstPending)
    /\ UNCHANGED <<tables, received, up, crashes>>

\* Faulty variant: a retry is not counted.
RecordFirstAttempt(t) ==
    /\ up
    /\ pc[t] = "attempt"
    /\ attempts' = [attempts EXCEPT ![job[t]] = IF @ = 0 THEN 1 ELSE @]
    /\ pc' = [pc EXCEPT ![t] = "post"]
    /\ UNCHANGED <<outbound, delivered, audit, job, batch, received, up,
                   crashes>>

\* _try_deliver_one counts the attempt before it posts.
RecordAttempt(t) ==
    /\ up
    /\ pc[t] = "attempt"
    /\ attempts' = [attempts EXCEPT ![job[t]] = Bump(@)]
    /\ pc' = [pc EXCEPT ![t] = "post"]
    /\ UNCHANGED <<outbound, delivered, audit, job, batch, received, up,
                   crashes>>

-----------------------------------------------------------------------------
(* The four outcomes of transport.post_package.                            *)

CoreStores(p) ==
    /\ p \notin Refused
    /\ received' = [received EXCEPT ![p] = Bump(@)]

\* The core stores the package and the answer arrives.
PostAccepted(t) ==
    /\ up
    /\ pc[t] = "post"
    /\ CoreStores(job[t])
    /\ pc' = [pc EXCEPT ![t] = "mark"]
    /\ UNCHANGED <<tables, job, batch, up, crashes>>

\* The core stores the package and the call raises all the same: the answer
\* was lost or came after the timeout.
PostReplyLost(t) ==
    /\ up
    /\ pc[t] = "post"
    /\ CoreStores(job[t])
    /\ pc' = [pc EXCEPT ![t] = "auditError"]
    /\ UNCHANGED <<tables, job, batch, up, crashes>>

\* The call raises and nothing reached the core.
PostUnreachable(t) ==
    /\ up
    /\ pc[t] = "post"
    /\ pc' = [pc EXCEPT ![t] = "auditError"]
    /\ UNCHANGED <<tables, job, batch, received, up, crashes>>

\* Faulty variant: the outcome is audited as delivered without looking at ok.
PostRefusedAudited(t) ==
    /\ up
    /\ pc[t] = "post"
    /\ pc' = [pc EXCEPT ![t] = "auditDelivered"]
    /\ UNCHANGED <<tables, job, batch, received, up, crashes>>

\* The core answers False; _try_deliver_one returns without an audit entry.
PostRefused(t) ==
    /\ up
    /\ pc[t] = "post"
    /\ Continue(t, batch[t])
    /\ UNCHANGED <<tables, received, up, crashes>>

Post(t) ==
    \/ PostAccepted(t)
    \/ PostReplyLost(t)
    \/ PostUnreachable(t)
    \/ PostRefused(t)

-----------------------------------------------------------------------------
\* except Exception: audit the error and go on; the row stays queued.
AuditError(t) ==
    /\ up
    /\ pc[t] = "auditError"
    /\ audit' = [audit EXCEPT ![job[t]].error = Bump(@)]
    /\ Continue(t, batch[t])
    /\ UNCHANGED <<outbound, delivered, attempts, received, up, crashes>>

\* if ok: mark_delivered, and the audit entry in the next transaction.
MarkDelivered(t) ==
    /\ up
    /\ pc[t] = "mark"
    /\ delivered' = delivered \cup {job[t]}
    /\ pc' = [pc EXCEPT ![t] = "auditDelivered"]
    /\ UNCHANGED <<outbound, attempts, audit, job, batch, received, up,
                   crashes>>

AuditDelivered(t) ==
    /\ up
    /\ pc[t] = "auditDelivered"
    /\ audit' = [audit EXCEPT ![job[t]].delivered = Bump(@)]
    /\ Continue(t, batch[t])
    /\ UNCHANGED <<outbound, delivered, attempts, received, up, crashes>>

\* The process dies between two steps: the threads are gone, the tables stay.
\* A post in flight that still reaches the core is PostReplyLost before this.
Crash ==
    /\ up
    /\ crashes < MaxCrashes
    /\ up' = FALSE
    /\ crashes' = crashes + 1
    /\ pc' = [t \in Threads |-> "idle"]
    /\ job' = [t \in Threads |-> NoPackage]
    /\ batch' = [t \in Threads |-> {}]
    /\ UNCHANGED <<tables, received>>

\* ConnectorService.start reopens the same database.
Restart ==
    /\ ~up
    /\ up' = TRUE
    /\ UNCHANGED <<tables, pc, job, batch, received, crashes>>

\* The steps of a call that is under way, the post included.
Proceed(t) ==
    \/ RecordAttempt(t)
    \/ Post(t)
    \/ AuditError(t)
    \/ MarkDelivered(t)
    \/ AuditDelivered(t)

Next ==
    \/ \E t \in Ingesters, p \in Packages : Deliver(t, p)
    \/ \E t \in Timers : FlushOutbound(t)
    \/ \E t \in Threads : Proceed(t)
    \/ Crash
    \/ Restart

Spec == Init /\ [][Next]_vars

-----------------------------------------------------------------------------
(* Fairness.  A running thread goes on and a post returns (WF on Proceed); *)
(* the timer fires again and again and the process is restarted (WF); the  *)
(* core is not unreachable for ever: a package it does not refuse is       *)
(* accepted if the timer posts it again and again (SF).  Nothing obliges   *)
(* the source to ingest.                                                   *)
(***************************************************************************)
AcceptFor(t, p) == job[t] = p /\ PostAccepted(t)

Fairness ==
    /\ \A t \in Threads : WF_vars(Proceed(t))
    /\ \A t \in Timers : WF_vars(FlushOutbound(t))
    /\ \A t \in Timers, p \in Packages \ Refused : SF_vars(AcceptFor(t, p))
    /\ WF_vars(Restart)

FairSpec == Spec /\ Fairness

-----------------------------------------------------------------------------
TypeOK ==
    /\ outbound \in Seq(Packages)
    /\ delivered \subseteq Packages
    /\ attempts \in [Packages -> 0..MaxCount]
    /\ audit \in [Packages -> [delivered : 0..MaxCount, error : 0..MaxCount]]
    /\ pc \in [Threads -> Steps]
    /\ job \in [Threads -> Packages \cup {NoPackage}]
    /\ batch \in [Threads -> SUBSET Packages]
    /\ received \in [Packages -> 0..MaxCount]
    /\ up \in BOOLEAN
    /\ crashes \in 0..MaxCrashes

\* A row is marked delivered only if the core holds the package, whatever the
\* threads, the transport and the crashes did between the post and the mark:
\* the queue never drops a package the core has not got.
DeliveredWasReceived == \A p \in delivered : received[p] > 0

\* The attempts column bounds from above the copies the core may hold: every
\* post, of any thread, is counted before it is made, so an operator can tell
\* from the table which packages may have arrived more than once.
CopiesWithinAttempts == \A p \in Packages : received[p] <= attempts[p]

\* The audit log never claims a delivery the core did not see: it has at most
\* one "delivered" entry per copy received, and only for rows that are marked.
AuditedDeliveries ==
    \A p \in Packages :
        /\ audit[p].delivered <= received[p]
        /\ audit[p].delivered > 0 => p \in delivered

\* Each audited outcome belongs to an attempt of its own.  (Below MaxCount
\* only: a saturated counter no longer counts.)
OutcomesWithinAttempts ==
    \A p \in Packages :
        \/ attempts[p] = MaxCount
        \/ audit[p].delivered + audit[p].error <= attempts[p]

\* So the log of deliveries can be held against the tables.
AuditMatchesTables == AuditedDeliveries /\ OutcomesWithinAttempts

\* Why the counts agree, as an inductive invariant: what the tables say of a
\* package, and what every thread in the middle of a call still has to say.
Working(S, p) == {t \in Threads : job[t] = p /\ pc[t] \in S}

JobsAreQueued ==
    \A t \in Threads :
        /\ batch[t] \subseteq Rows
        /\ pc[t] # "idle" => job[t] \in Rows

MarksAreReceived ==
    /\ \A t \in Threads :
        /\ pc[t] \in {"mark", "auditDelivered"} => received[job[t]] > 0
        /\ pc[t] = "auditDelivered" => job[t] \in delivered
    /\ \A p \in Packages : audit[p].delivered > 0 => p \in delivered

Posting(p) == Cardinality(Working({"post"}, p))
Marking(p) == Cardinality(Working({"mark", "auditDelivered"}, p))
Unsettled(p) == Cardinality(Working(Steps \ {"idle", "attempt"}, p))

PostsAreCounted(p) ==
    \/ attempts[p] = MaxCount
    \/ received[p] + Posting(p) <= attempts[p]

DeliveriesAreCounted(p) ==
    \/ received[p] = MaxCount
    \/ audit[p].delivered + Marking(p) <= received[p]

OutcomesAreCounted(p) ==
    \/ attempts[p] = MaxCount
    \/ audit[p].delivered + audit[p].error + Unsettled(p) <= attempts[p]

Bookkeeping ==
    \A p \in Packages :
        /\ PostsAreCounted(p)
        /\ DeliveriesAreCounted(p)
        /\ OutcomesAreCounted(p)

IInv ==
    /\ TypeOK
    /\ JobsAreQueued
    /\ MarksAreReceived
    /\ DeliveredWasReceived
    /\ Bookkeeping

\* The queue implements at-least-once delivery: rows are what it accepted, the
\* core's copies what it transmitted, and the delivered column what it
\* confirmed.  In particular nothing is posted before its row is committed
\* (the comment of deliver, core/client.py:94-95) and no row is lost or
\* reopened by a crash.
Queue == INSTANCE AtLeastOnceDelivery WITH
            accepted <- Rows, copies <- received, confirmed <- delivered

ImplementsDelivery == Queue!Spec

\* A queued package that the core does not refuse is delivered in the end,
\* through lost answers, an unreachable core and crashes: "packages sit in the
\* durable outbound queue and are retried" (core/client.py:12-14).
QueuedIsDelivered == Queue!Confirmation

\* Once a row is marked delivered, its reposts die out: a thread that read the
\* row earlier may still post it, but from some time on nobody does.
RepostsEnd == <>[](\A t \in Threads : job[t] \notin delivered)
=============================================================================
