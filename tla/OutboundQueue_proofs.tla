------------------------ MODULE OutboundQueue_proofs ------------------------
(***************************************************************************)
(* Proofs about OutboundQueue, for any number of threads and packages and  *)
(* any Limit, MaxCount and MaxCrashes: type correctness, the inductive     *)
(* invariant IInv, the safety properties that follow from it, and the      *)
(* refinement of AtLeastOnceDelivery.                                      *)
(***************************************************************************)
EXTENDS OutboundQueue, FiniteSetTheorems, TLAPS

-----------------------------------------------------------------------------
(* Operators the actions are built from.                                   *)

LEMMA BumpType ==
    ASSUME NEW n \in 0..MaxCount
    PROVE  /\ Bump(n) \in 0..MaxCount
           /\ Bump(n) > 0
           /\ Bump(n) >= n
           /\ Bump(n) = n + 1 \/ Bump(n) = MaxCount
BY BoundsAssumption DEF Bump

LEMMA RowsType ==
    ASSUME outbound \in Seq(Packages)
    PROVE  Rows \subseteq Packages
BY DEF Rows

LEMMA RowsAppend ==
    ASSUME outbound \in Seq(Packages), NEW p \in Packages,
           outbound' = Append(outbound, p)
    PROVE  /\ outbound' \in Seq(Packages)
           /\ Rows' = Rows \cup {p}
<1>1. outbound' \in Seq(Packages)
  OBVIOUS
<1>2. DOMAIN outbound = 1..Len(outbound)
      /\ DOMAIN outbound' = 1..(Len(outbound) + 1)
      /\ Len(outbound) \in Nat
  OBVIOUS
<1>3. \A i \in 1..Len(outbound) : outbound'[i] = outbound[i]
  OBVIOUS
<1>4. outbound'[Len(outbound) + 1] = p
  OBVIOUS
<1>5. Rows' \subseteq Rows \cup {p}
  BY <1>2, <1>3, <1>4 DEF Rows
<1>6. Rows \cup {p} \subseteq Rows'
  BY <1>2, <1>3, <1>4 DEF Rows
<1>. QED
  BY <1>1, <1>5, <1>6

\* What the end of one row's delivery does to thread t, in the terms the
\* invariants use.
LEMMA ContinueFacts ==
    ASSUME TypeOK, NEW t \in Threads, NEW ps \in SUBSET Packages,
           Continue(t, ps)
    PROVE  /\ pc' \in [Threads -> Steps]
           /\ job' \in [Threads -> Packages \cup {NoPackage}]
           /\ batch' \in [Threads -> SUBSET Packages]
           /\ batch'[t] \subseteq ps
           /\ \/ pc'[t] = "idle"
              \/ pc'[t] = "attempt" /\ job'[t] \in ps
           /\ \A u \in Threads \ {t} : /\ pc'[u] = pc[u]
                                       /\ job'[u] = job[u]
                                       /\ batch'[u] = batch[u]
<1>1. CASE ps = {}
  BY <1>1 DEF Continue, TypeOK, Steps
<1>2. CASE ps # {}
  <2>1. PICK p \in ps : Take(t, p, ps \ {p})
    BY <1>2 DEF Continue
  <2>. QED
    BY <2>1 DEF Take, TypeOK, Steps
<1>. QED
  BY <1>1, <1>2

LEMMA FirstPendingType ==
    FirstPending \subseteq Rows
BY DEF FirstPending, Pending

-----------------------------------------------------------------------------
(* Type correctness.                                                       *)

LEMMA TypeStep ==
    TypeOK /\ JobsAreQueued /\ [Next]_vars => TypeOK'
<1>. SUFFICES ASSUME TypeOK, JobsAreQueued, [Next]_vars
              PROVE  TypeOK'
  OBVIOUS
<1>. USE DEF TypeOK
<1>1. ASSUME NEW t \in Ingesters, NEW p \in Packages, Deliver(t, p)
      PROVE  TypeOK'
  <2>1. t \in Threads
    BY DEF Threads
  <2>2. outbound' \in Seq(Packages)
    BY <1>1, RowsAppend DEF Deliver
  <2>. QED
    BY <1>1, <2>1, <2>2 DEF Deliver, Take, Steps
<1>2. ASSUME NEW t \in Timers, FlushOutbound(t)
      PROVE  TypeOK'
  <2>1. t \in Threads /\ FirstPending \in SUBSET Packages
    BY RowsType, FirstPendingType DEF Threads
  <2>2. pc' \in [Threads -> Steps]
        /\ job' \in [Threads -> Packages \cup {NoPackage}]
        /\ batch' \in [Threads -> SUBSET Packages]
    BY <1>2, <2>1, ContinueFacts DEF FlushOutbound
  <2>. QED
    BY <1>2, <2>2 DEF FlushOutbound, tables
<1>3. ASSUME NEW t \in Threads, RecordAttempt(t)
      PROVE  TypeOK'
  BY <1>3, BumpType DEF RecordAttempt, Steps
<1>4. ASSUME NEW t \in Threads, Post(t)
      PROVE  TypeOK'
  <2>1. CASE PostAccepted(t)
    BY <2>1, BumpType DEF PostAccepted, CoreStores, tables, Steps
  <2>2. CASE PostReplyLost(t)
    BY <2>2, BumpType DEF PostReplyLost, CoreStores, tables, Steps
  <2>3. CASE PostUnreachable(t)
    BY <2>3 DEF PostUnreachable, tables, Steps
  <2>4. CASE PostRefused(t)
    <3>1. pc' \in [Threads -> Steps]
          /\ job' \in [Threads -> Packages \cup {NoPackage}]
          /\ batch' \in [Threads -> SUBSET Packages]
      BY <2>4, ContinueFacts DEF PostRefused
    <3>. QED
      BY <2>4, <3>1 DEF PostRefused, tables
  <2>. QED
    BY <1>4, <2>1, <2>2, <2>3, <2>4 DEF Post
<1>5. ASSUME NEW t \in Threads, AuditError(t)
      PROVE  TypeOK'
  <2>1. pc' \in [Threads -> Steps]
        /\ job' \in [Threads -> Packages \cup {NoPackage}]
        /\ batch' \in [Threads -> SUBSET Packages]
    BY <1>5, ContinueFacts DEF AuditError
  <2>2. audit' \in [Packages ->
                       [delivered : 0..MaxCount, error : 0..MaxCount]]
    BY <1>5, BumpType DEF AuditError
  <2>. QED
    BY <1>5, <2>1, <2>2 DEF AuditError
<1>6. ASSUME NEW t \in Threads, MarkDelivered(t)
      PROVE  TypeOK'
  <2>1. job[t] \in Packages
    BY <1>6, RowsType DEF MarkDelivered, JobsAreQueued
  <2>. QED
    BY <1>6, <2>1 DEF MarkDelivered, Steps
<1>7. ASSUME NEW t \in Threads, AuditDelivered(t)
      PROVE  TypeOK'
  <2>1. pc' \in [Threads -> Steps]
        /\ job' \in [Threads -> Packages \cup {NoPackage}]
        /\ batch' \in [Threads -> SUBSET Packages]
    BY <1>7, ContinueFacts DEF AuditDelivered
  <2>2. audit' \in [Packages ->
                       [delivered : 0..MaxCount, error : 0..MaxCount]]
    BY <1>7, BumpType DEF AuditDelivered
  <2>. QED
    BY <1>7, <2>1, <2>2 DEF AuditDelivered
<1>8. CASE Crash
  <2>1. crashes' \in 0..MaxCrashes
    BY <1>8, BoundsAssumption DEF Crash
  <2>2. /\ pc' \in [Threads -> Steps]
        /\ job' \in [Threads -> Packages \cup {NoPackage}]
        /\ batch' \in [Threads -> SUBSET Packages]
    BY <1>8 DEF Crash, Steps
  <2>. QED
    BY <1>8, <2>1, <2>2 DEF Crash, tables
<1>9. CASE Restart
  BY <1>9 DEF Restart, tables
<1>10. CASE UNCHANGED vars
  BY <1>10 DEF vars
<1>. QED
  BY <1>1, <1>2, <1>3, <1>4, <1>5, <1>6, <1>7, <1>8, <1>9, <1>10
     DEF Next, Proceed

\* A thread's job and batch stay rows of the table: rows are never removed.
LEMMA JobsStep ==
    TypeOK /\ JobsAreQueued /\ [Next]_vars => JobsAreQueued'
<1>. SUFFICES ASSUME TypeOK, JobsAreQueued, [Next]_vars
              PROVE  JobsAreQueued'
  OBVIOUS
<1>. USE DEF TypeOK
<1>0. ASSUME NEW t \in Threads, NEW ps \in SUBSET Rows,
             Continue(t, ps), UNCHANGED outbound
      PROVE  JobsAreQueued'
  <2>1. Rows' = Rows /\ ps \in SUBSET Packages
    BY <1>0, RowsType DEF Rows
  <2>. QED
    BY <1>0, <2>1, ContinueFacts DEF JobsAreQueued
<1>1. ASSUME NEW t \in Ingesters, NEW p \in Packages, Deliver(t, p)
      PROVE  JobsAreQueued'
  <2>1. t \in Threads
    BY DEF Threads
  <2>2. Rows' = Rows \cup {p}
    BY <1>1, RowsAppend DEF Deliver
  <2>. QED
    BY <1>1, <2>1, <2>2 DEF Deliver, Take, JobsAreQueued
<1>2. ASSUME NEW t \in Timers, FlushOutbound(t)
      PROVE  JobsAreQueued'
  BY <1>0, <1>2, FirstPendingType DEF FlushOutbound, Threads, tables
<1>3. ASSUME NEW t \in Threads, RecordAttempt(t)
      PROVE  JobsAreQueued'
  BY <1>3 DEF RecordAttempt, JobsAreQueued, Rows
<1>4. ASSUME NEW t \in Threads, Post(t)
      PROVE  JobsAreQueued'
  <2>1. CASE PostAccepted(t)
    BY <2>1 DEF PostAccepted, tables, JobsAreQueued, Rows
  <2>2. CASE PostReplyLost(t)
    BY <2>2 DEF PostReplyLost, tables, JobsAreQueued, Rows
  <2>3. CASE PostUnreachable(t)
    BY <2>3 DEF PostUnreachable, tables, JobsAreQueued, Rows
  <2>4. CASE PostRefused(t)
    BY <1>0, <2>4 DEF PostRefused, tables, JobsAreQueued
  <2>. QED
    BY <1>4, <2>1, <2>2, <2>3, <2>4 DEF Post
<1>5. ASSUME NEW t \in Threads, AuditError(t) \/ AuditDelivered(t)
      PROVE  JobsAreQueued'
  BY <1>0, <1>5 DEF AuditError, AuditDelivered, JobsAreQueued
<1>6. ASSUME NEW t \in Threads, MarkDelivered(t)
      PROVE  JobsAreQueued'
  BY <1>6 DEF MarkDelivered, JobsAreQueued, Rows
<1>7. CASE Crash
  BY <1>7 DEF Crash, tables, JobsAreQueued, Rows
<1>8. CASE Restart \/ UNCHANGED vars
  BY <1>8 DEF Restart, vars, tables, JobsAreQueued, Rows
<1>. QED
  BY <1>1, <1>2, <1>3, <1>4, <1>5, <1>6, <1>7, <1>8 DEF Next, Proceed

LEMMA TypeInit ==
    Init => TypeOK /\ JobsAreQueued
BY BoundsAssumption DEF Init, TypeOK, JobsAreQueued, Steps

\* Type correctness: the tables, the threads and the core's copies keep their
\* domains; JobsAreQueued is what makes MarkDelivered write a row's package.
THEOREM TypeCorrect == Spec => [](TypeOK /\ JobsAreQueued)
<1>1. Init => TypeOK /\ JobsAreQueued
  BY TypeInit
<1>2. TypeOK /\ JobsAreQueued /\ [Next]_vars => (TypeOK /\ JobsAreQueued)'
  BY TypeStep, JobsStep
<1>. QED
  BY <1>1, <1>2, PTL DEF Spec
-----------------------------------------------------------------------------
(* The counts.                                                             *)

\* Only thread t moves, so a count of working threads changes by at most t.
LEMMA WorkingChange ==
    ASSUME NEW t \in Threads, NEW S, NEW p,
           \A u \in Threads \ {t} : pc'[u] = pc[u] /\ job'[u] = job[u]
    PROVE  /\ Cardinality(Working(S, p)) \in Nat
           /\ Cardinality(Working(S, p)') \in Nat
           /\ t \in Working(S, p) /\ t \notin Working(S, p)'
                => Cardinality(Working(S, p)) = Cardinality(Working(S, p)') + 1
           /\ t \notin Working(S, p) /\ t \in Working(S, p)'
                => Cardinality(Working(S, p)') = Cardinality(Working(S, p)) + 1
           /\ (t \in Working(S, p) <=> t \in Working(S, p)')
                => Cardinality(Working(S, p)') = Cardinality(Working(S, p))
<1>. DEFINE W == Working(S, p)
            V == Working(S, p)'
<1>1. IsFiniteSet(W) /\ IsFiniteSet(V)
  BY ThreadsAssumption, FS_Subset DEF Working
<1>2. Cardinality(W) \in Nat /\ Cardinality(V) \in Nat
  BY <1>1, FS_CardinalityType
<1>3. W \ {t} = V \ {t}
  BY DEF Working
<1>4. ASSUME t \in W, t \notin V
      PROVE  Cardinality(W) = Cardinality(V) + 1
  <2>1. W = V \cup {t}
    BY <1>3, <1>4
  <2>. QED
    BY <1>1, <1>4, <2>1, FS_AddElement
<1>5. ASSUME t \notin W, t \in V
      PROVE  Cardinality(V) = Cardinality(W) + 1
  <2>1. V = W \cup {t}
    BY <1>3, <1>5
  <2>. QED
    BY <1>1, <1>5, <2>1, FS_AddElement
<1>6. ASSUME t \in W <=> t \in V
      PROVE  W = V
  BY <1>3, <1>6
<1>. QED
  BY <1>2, <1>4, <1>5, <1>6

\* The same, as a balance of the three counts: In is t's own share of a count.
In(t, p, S) == IF job[t] = p /\ pc[t] \in S THEN 1 ELSE 0

LEMMA CountsChange ==
    ASSUME NEW t \in Threads, NEW p,
           \A u \in Threads \ {t} : pc'[u] = pc[u] /\ job'[u] = job[u]
    PROVE  /\ Posting(p) \in Nat /\ Posting(p)' \in Nat
           /\ Marking(p) \in Nat /\ Marking(p)' \in Nat
           /\ Unsettled(p) \in Nat /\ Unsettled(p)' \in Nat
           /\ Posting(p)' + In(t, p, {"post"})
                = Posting(p) + In(t, p, {"post"})'
           /\ Marking(p)' + In(t, p, {"mark", "auditDelivered"})
                = Marking(p) + In(t, p, {"mark", "auditDelivered"})'
           /\ Unsettled(p)' + In(t, p, Steps \ {"idle", "attempt"})
                = Unsettled(p) + In(t, p, Steps \ {"idle", "attempt"})'
<1>1. ASSUME NEW S
      PROVE  /\ Cardinality(Working(S, p)) \in Nat
             /\ Cardinality(Working(S, p)') \in Nat
             /\ Cardinality(Working(S, p)') + In(t, p, S)
                  = Cardinality(Working(S, p)) + In(t, p, S)'
  <2>1. /\ t \in Working(S, p) <=> In(t, p, S) = 1
        /\ t \notin Working(S, p) <=> In(t, p, S) = 0
        /\ t \in Working(S, p)' <=> In(t, p, S)' = 1
        /\ t \notin Working(S, p)' <=> In(t, p, S)' = 0
    BY DEF Working, In
  <2>2. /\ Cardinality(Working(S, p)) \in Nat
        /\ Cardinality(Working(S, p)') \in Nat
        /\ t \in Working(S, p) /\ t \notin Working(S, p)'
             => Cardinality(Working(S, p)) = Cardinality(Working(S, p)') + 1
        /\ t \notin Working(S, p) /\ t \in Working(S, p)'
             => Cardinality(Working(S, p)') = Cardinality(Working(S, p)) + 1
        /\ (t \in Working(S, p) <=> t \in Working(S, p)')
             => Cardinality(Working(S, p)') = Cardinality(Working(S, p))
    BY WorkingChange
  <2>. QED
    BY <2>1, <2>2
<1>. QED
  BY <1>1 DEF Posting, Marking, Unsettled

LEMMA CountsUnchanged ==
    ASSUME NEW p, UNCHANGED <<pc, job>>
    PROVE  /\ Posting(p)' = Posting(p)
           /\ Marking(p)' = Marking(p)
           /\ Unsettled(p)' = Unsettled(p)
BY DEF Posting, Marking, Unsettled, Working

LEMMA BookkeepingStep ==
    IInv /\ [Next]_vars => Bookkeeping'
<1>. SUFFICES ASSUME IInv, [Next]_vars, NEW p \in Packages
              PROVE  /\ PostsAreCounted(p)'
                     /\ DeliveriesAreCounted(p)'
                     /\ OutcomesAreCounted(p)'
  BY DEF Bookkeeping
<1>. DEFINE Goal == /\ PostsAreCounted(p)'
                    /\ DeliveriesAreCounted(p)'
                    /\ OutcomesAreCounted(p)'
<1>1. /\ attempts[p] \in 0..MaxCount
      /\ received[p] \in 0..MaxCount
      /\ audit[p].delivered \in 0..MaxCount
      /\ audit[p].error \in 0..MaxCount
      /\ PostsAreCounted(p)
      /\ DeliveriesAreCounted(p)
      /\ OutcomesAreCounted(p)
  BY DEF IInv, TypeOK, Bookkeeping
<1>2. MaxCount \in Nat \ {0}
  BY BoundsAssumption
<1>. USE DEF PostsAreCounted, DeliveriesAreCounted, OutcomesAreCounted
\* Thread t ends its row, or takes one, and no counter changes.
<1>3. ASSUME NEW t \in Threads,
             \A u \in Threads \ {t} : pc'[u] = pc[u] /\ job'[u] = job[u],
             pc'[t] \in {"idle", "attempt"},
             UNCHANGED <<attempts, audit, received>>
      PROVE  Goal
  BY <1>1, <1>2, <1>3, CountsChange DEF In
<1>4. ASSUME NEW t \in Ingesters, NEW q \in Packages, Deliver(t, q)
      PROVE  Goal
  BY <1>3, <1>4 DEF Deliver, Take, Threads, IInv, TypeOK
<1>5. ASSUME NEW t \in Timers, FlushOutbound(t)
      PROVE  Goal
  <2>1. FirstPending \in SUBSET Packages
    BY RowsType, FirstPendingType DEF IInv, TypeOK
  <2>. QED
    BY <1>3, <1>5, <2>1, ContinueFacts
       DEF FlushOutbound, tables, Threads, IInv
<1>6. ASSUME NEW t \in Threads, RecordAttempt(t)
      PROVE  Goal
  <2>1. /\ pc[t] = "attempt" /\ pc'[t] = "post"
        /\ job'[t] = job[t]
        /\ \A u \in Threads \ {t} : pc'[u] = pc[u] /\ job'[u] = job[u]
        /\ attempts'[p] = IF p = job[t] THEN Bump(attempts[p])
                                        ELSE attempts[p]
        /\ UNCHANGED <<audit, received>>
    BY <1>6 DEF RecordAttempt, IInv, TypeOK
  <2>. QED
    BY <1>1, <1>2, <2>1, CountsChange DEF In, Bump, Steps
<1>7. ASSUME NEW t \in Threads, PostAccepted(t) \/ PostReplyLost(t)
      PROVE  Goal
  <2>1. /\ pc[t] = "post" /\ pc'[t] \in {"mark", "auditError"}
        /\ job'[t] = job[t]
        /\ \A u \in Threads \ {t} : pc'[u] = pc[u] /\ job'[u] = job[u]
        /\ received'[p] = IF p = job[t] THEN Bump(received[p])
                                        ELSE received[p]
        /\ UNCHANGED <<audit, attempts>>
    BY <1>7 DEF PostAccepted, PostReplyLost, CoreStores, tables, IInv, TypeOK
  <2>. QED
    BY <1>1, <1>2, <2>1, CountsChange DEF In, Bump, Steps
<1>8. ASSUME NEW t \in Threads, PostUnreachable(t)
      PROVE  Goal
  <2>1. /\ pc[t] = "post" /\ pc'[t] = "auditError"
        /\ job'[t] = job[t]
        /\ \A u \in Threads \ {t} : pc'[u] = pc[u] /\ job'[u] = job[u]
        /\ UNCHANGED <<audit, attempts, received>>
    BY <1>8 DEF PostUnreachable, tables, IInv, TypeOK
  <2>. QED
    BY <1>1, <1>2, <2>1, CountsChange DEF In, Steps
<1>9. ASSUME NEW t \in Threads, PostRefused(t)
      PROVE  Goal
  BY <1>3, <1>9, ContinueFacts DEF PostRefused, tables, IInv, TypeOK
<1>10. ASSUME NEW t \in Threads, AuditError(t)
       PROVE  Goal
  <2>1. /\ pc[t] = "auditError" /\ pc'[t] \in {"idle", "attempt"}
        /\ \A u \in Threads \ {t} : pc'[u] = pc[u] /\ job'[u] = job[u]
        /\ UNCHANGED <<attempts, received>>
    BY <1>10, ContinueFacts DEF AuditError, IInv, TypeOK
  <2>2. /\ audit'[p].delivered = audit[p].delivered
        /\ audit'[p].error = IF p = job[t] THEN Bump(audit[p].error)
                                           ELSE audit[p].error
    BY <1>10 DEF AuditError, IInv, TypeOK
  <2>. QED
    BY <1>1, <1>2, <2>1, <2>2, CountsChange DEF In, Bump, Steps
<1>11. ASSUME NEW t \in Threads, MarkDelivered(t)
       PROVE  Goal
  <2>1. /\ pc[t] = "mark" /\ pc'[t] = "auditDelivered"
        /\ job'[t] = job[t]
        /\ \A u \in Threads \ {t} : pc'[u] = pc[u] /\ job'[u] = job[u]
        /\ UNCHANGED <<audit, attempts, received>>
    BY <1>11 DEF MarkDelivered, IInv, TypeOK
  <2>. QED
    BY <1>1, <1>2, <2>1, CountsChange DEF In, Steps
<1>12. ASSUME NEW t \in Threads, AuditDelivered(t)
       PROVE  Goal
  <2>1. /\ pc[t] = "auditDelivered" /\ pc'[t] \in {"idle", "attempt"}
        /\ \A u \in Threads \ {t} : pc'[u] = pc[u] /\ job'[u] = job[u]
        /\ UNCHANGED <<attempts, received>>
    BY <1>12, ContinueFacts DEF AuditDelivered, IInv, TypeOK
  <2>2. /\ audit'[p].error = audit[p].error
        /\ audit'[p].delivered = IF p = job[t] THEN Bump(audit[p].delivered)
                                               ELSE audit[p].delivered
    BY <1>12 DEF AuditDelivered, IInv, TypeOK
  <2>. QED
    BY <1>1, <1>2, <2>1, <2>2, CountsChange DEF In, Bump, Steps
<1>13. CASE Crash
  <2>1. Posting(p)' = 0 /\ Marking(p)' = 0 /\ Unsettled(p)' = 0
    <3>1. \A t \in Threads : pc'[t] = "idle"
      BY <1>13 DEF Crash
    <3>. QED
      BY <3>1, FS_EmptySet DEF Posting, Marking, Unsettled, Working
  <2>2. ASSUME NEW S
        PROVE  Cardinality(Working(S, p)) \in Nat
    BY ThreadsAssumption, FS_Subset, FS_CardinalityType DEF Working
  <2>3. Posting(p) \in Nat /\ Marking(p) \in Nat /\ Unsettled(p) \in Nat
    BY <2>2 DEF Posting, Marking, Unsettled
  <2>. QED
    BY <1>1, <1>2, <1>13, <2>1, <2>3 DEF Crash, tables
<1>14. CASE Restart \/ UNCHANGED vars
  BY <1>1, <1>14, CountsUnchanged DEF Restart, vars, tables
<1>. QED
  BY <1>4, <1>5, <1>6, <1>7, <1>8, <1>9, <1>10, <1>11, <1>12, <1>13, <1>14
     DEF Next, Proceed, Post
\* A thread that is about to mark a row has seen its post accepted, and what
\* the core received it keeps.
LEMMA MarksStep ==
    IInv /\ [Next]_vars => MarksAreReceived' /\ DeliveredWasReceived'
<1>. SUFFICES ASSUME IInv, [Next]_vars
              PROVE  MarksAreReceived' /\ DeliveredWasReceived'
  OBVIOUS
<1>. USE DEF MarksAreReceived, DeliveredWasReceived
<1>0. /\ TypeOK /\ JobsAreQueued /\ MarksAreReceived /\ DeliveredWasReceived
      /\ Rows \subseteq Packages
  BY RowsType DEF IInv, TypeOK
\* Thread t ends its row, or takes one; delivered and received stay.
<1>1. ASSUME NEW t \in Threads,
             \A u \in Threads \ {t} : pc'[u] = pc[u] /\ job'[u] = job[u],
             pc'[t] \in {"idle", "attempt"},
             \A p \in Packages : audit'[p].delivered = audit[p].delivered
                                  \/ p \in delivered,
             UNCHANGED <<delivered, received>>
      PROVE  MarksAreReceived' /\ DeliveredWasReceived'
  BY <1>0, <1>1
<1>2. ASSUME NEW t \in Ingesters, NEW q \in Packages, Deliver(t, q)
      PROVE  MarksAreReceived' /\ DeliveredWasReceived'
  BY <1>0, <1>1, <1>2 DEF Deliver, Take, Threads, TypeOK
<1>3. ASSUME NEW t \in Timers, FlushOutbound(t)
      PROVE  MarksAreReceived' /\ DeliveredWasReceived'
  <2>1. FirstPending \in SUBSET Packages
    BY <1>0, FirstPendingType
  <2>. QED
    BY <1>0, <1>1, <1>3, <2>1, ContinueFacts DEF FlushOutbound, tables, Threads
<1>4. ASSUME NEW t \in Threads, RecordAttempt(t) \/ PostUnreachable(t)
      PROVE  MarksAreReceived' /\ DeliveredWasReceived'
  BY <1>0, <1>4 DEF RecordAttempt, PostUnreachable, tables, TypeOK
<1>5. ASSUME NEW t \in Threads, PostAccepted(t) \/ PostReplyLost(t)
      PROVE  MarksAreReceived' /\ DeliveredWasReceived'
  <2>1. /\ pc[t] = "post" /\ pc'[t] \in {"mark", "auditError"}
        /\ job' = job
        /\ job[t] \in Packages
        /\ \A u \in Threads \ {t} : pc'[u] = pc[u]
        /\ received' = [received EXCEPT ![job[t]] = Bump(@)]
        /\ UNCHANGED <<audit, delivered>>
    BY <1>0, <1>5
       DEF PostAccepted, PostReplyLost, CoreStores, tables, TypeOK,
           JobsAreQueued
  <2>2. /\ \A p \in Packages : received[p] > 0 => received'[p] > 0
        /\ received'[job[t]] > 0
    BY <1>0, <2>1, BumpType DEF TypeOK
  <2>3. \A u \in Threads : pc[u] # "idle" => job[u] \in Packages
    BY <1>0 DEF JobsAreQueued
  <2>. QED
    BY <1>0, <2>1, <2>2, <2>3 DEF TypeOK
<1>6. ASSUME NEW t \in Threads, PostRefused(t)
      PROVE  MarksAreReceived' /\ DeliveredWasReceived'
  BY <1>0, <1>1, <1>6, ContinueFacts DEF PostRefused, tables, TypeOK
<1>7. ASSUME NEW t \in Threads, AuditError(t)
      PROVE  MarksAreReceived' /\ DeliveredWasReceived'
  <2>1. \A p \in Packages : audit'[p].delivered = audit[p].delivered
    BY <1>0, <1>7 DEF AuditError, TypeOK
  <2>. QED
    BY <1>0, <1>1, <1>7, <2>1, ContinueFacts DEF AuditError, TypeOK
<1>8. ASSUME NEW t \in Threads, MarkDelivered(t)
      PROVE  MarksAreReceived' /\ DeliveredWasReceived'
  BY <1>0, <1>8 DEF MarkDelivered, TypeOK
<1>9. ASSUME NEW t \in Threads, AuditDelivered(t)
      PROVE  MarksAreReceived' /\ DeliveredWasReceived'
  <2>1. \A p \in Packages : audit'[p].delivered = audit[p].delivered
                            \/ p \in delivered
    BY <1>0, <1>9 DEF AuditDelivered, TypeOK
  <2>. QED
    BY <1>0, <1>1, <1>9, <2>1, ContinueFacts DEF AuditDelivered, TypeOK
<1>10. CASE Crash
  BY <1>0, <1>10 DEF Crash, tables
<1>11. CASE Restart \/ UNCHANGED vars
  BY <1>0, <1>11 DEF Restart, vars, tables
<1>. QED
  BY <1>2, <1>3, <1>4, <1>5, <1>6, <1>7, <1>8, <1>9, <1>10, <1>11
     DEF Next, Proceed, Post

LEMMA InvariantInit ==
    Init => IInv
<1>. SUFFICES ASSUME Init
              PROVE  IInv
  OBVIOUS
<1>1. TypeOK /\ JobsAreQueued
  BY TypeInit
<1>2. MarksAreReceived /\ DeliveredWasReceived
  BY DEF Init, MarksAreReceived, DeliveredWasReceived
<1>3. ASSUME NEW p \in Packages
      PROVE  Posting(p) = 0 /\ Marking(p) = 0 /\ Unsettled(p) = 0
  BY FS_EmptySet DEF Init, Posting, Marking, Unsettled, Working
<1>4. Bookkeeping
  BY <1>3, BoundsAssumption
     DEF Init, Bookkeeping, PostsAreCounted, DeliveriesAreCounted,
         OutcomesAreCounted
<1>. QED
  BY <1>1, <1>2, <1>4 DEF IInv

\* IInv is inductive: every conjunct is kept by every step that starts in a
\* state where all of them hold.
THEOREM Invariance == Spec => []IInv
<1>1. Init => IInv
  BY InvariantInit
<1>2. IInv /\ [Next]_vars => IInv'
  BY TypeStep, JobsStep, MarksStep, BookkeepingStep DEF IInv
<1>. QED
  BY <1>1, <1>2, PTL DEF Spec

-----------------------------------------------------------------------------
(* The safety properties the runs check, from the invariant.               *)

LEMMA CountsFollow ==
    IInv => CopiesWithinAttempts /\ AuditedDeliveries /\ OutcomesWithinAttempts
<1>. SUFFICES ASSUME IInv, NEW p \in Packages
              PROVE  /\ received[p] <= attempts[p]
                     /\ audit[p].delivered <= received[p]
                     /\ audit[p].delivered > 0 => p \in delivered
                     /\ \/ attempts[p] = MaxCount
                        \/ audit[p].delivered + audit[p].error <= attempts[p]
  BY DEF CopiesWithinAttempts, AuditedDeliveries, OutcomesWithinAttempts
<1>1. /\ attempts[p] \in 0..MaxCount
      /\ received[p] \in 0..MaxCount
      /\ audit[p].delivered \in 0..MaxCount
      /\ audit[p].error \in 0..MaxCount
      /\ MaxCount \in Nat
  BY BoundsAssumption DEF IInv, TypeOK
<1>2. ASSUME NEW S
      PROVE  Cardinality(Working(S, p)) \in Nat
  BY ThreadsAssumption, FS_Subset, FS_CardinalityType DEF Working
<1>3. Posting(p) \in Nat /\ Marking(p) \in Nat /\ Unsettled(p) \in Nat
  BY <1>2 DEF Posting, Marking, Unsettled
<1>. QED
  BY <1>1, <1>3
     DEF IInv, MarksAreReceived, Bookkeeping, PostsAreCounted,
         DeliveriesAreCounted, OutcomesAreCounted

\* Whatever the threads, the transport and the crashes do, a row is marked
\* delivered only if the core holds its package.
THEOREM DeliveredIsReceived == Spec => []DeliveredWasReceived
<1>1. IInv => DeliveredWasReceived
  BY DEF IInv
<1>. QED
  BY <1>1, Invariance, PTL

\* The attempts column bounds the copies at the core, and the audit log never
\* says more than what happened.
THEOREM TablesAreTruthful ==
    Spec => [](CopiesWithinAttempts /\ AuditMatchesTables)
<1>1. IInv => CopiesWithinAttempts /\ AuditMatchesTables
  BY CountsFollow DEF AuditMatchesTables
<1>. QED
  BY <1>1, Invariance, PTL

-----------------------------------------------------------------------------
(* The refinement of AtLeastOnceDelivery.                                  *)

LEMMA RefinesInit ==
    Init => Queue!Init
BY DEF Init, Queue!Init, Rows

LEMMA RefinesNext ==
    IInv /\ [Next]_vars => [Queue!Next]_Queue!vars
<1>. SUFFICES ASSUME IInv, [Next]_vars
              PROVE  Queue!Next \/ UNCHANGED Queue!vars
  OBVIOUS
<1>. USE DEF Queue!Next, Queue!vars
<1>0. /\ TypeOK /\ JobsAreQueued /\ MarksAreReceived
      /\ Rows \subseteq Packages
  BY RowsType DEF IInv, TypeOK
<1>1. ASSUME UNCHANGED <<outbound, received, delivered>>
      PROVE  UNCHANGED Queue!vars
  BY <1>1 DEF Rows
<1>2. ASSUME NEW t \in Ingesters, NEW p \in Packages, Deliver(t, p)
      PROVE  Queue!Accept(p)
  BY <1>0, <1>2, RowsAppend DEF Deliver, Queue!Accept, TypeOK
<1>3. ASSUME NEW t \in Threads, PostAccepted(t) \/ PostReplyLost(t)
      PROVE  job[t] \in Packages /\ Queue!Transmit(job[t])
  BY <1>0, <1>3
     DEF PostAccepted, PostReplyLost, CoreStores, tables, Bump, Rows,
         JobsAreQueued, Queue!Transmit
<1>4. ASSUME NEW t \in Threads, MarkDelivered(t)
      PROVE  job[t] \in Packages /\ Queue!Confirm(job[t])
  BY <1>0, <1>4
     DEF MarkDelivered, Rows, JobsAreQueued, MarksAreReceived, Queue!Confirm
<1>5. ASSUME NEW t \in Threads,
             FlushOutbound(t) \/ RecordAttempt(t) \/ PostUnreachable(t)
               \/ PostRefused(t) \/ AuditError(t) \/ AuditDelivered(t)
      PROVE  UNCHANGED <<outbound, received, delivered>>
  BY <1>5 DEF FlushOutbound, RecordAttempt, PostUnreachable, PostRefused,
              AuditError, AuditDelivered, tables
<1>6. ASSUME Crash \/ Restart \/ UNCHANGED vars
      PROVE  UNCHANGED <<outbound, received, delivered>>
  BY <1>6 DEF Crash, Restart, vars, tables
<1>. QED
  BY <1>1, <1>2, <1>3, <1>4, <1>5, <1>6
     DEF Next, Proceed, Post, Threads

\* The queue implements at-least-once delivery: every step is a step of the
\* abstract specification or leaves its variables alone.
THEOREM Refinement == Spec => ImplementsDelivery
<1>1. Init => Queue!Init
  BY RefinesInit
<1>2. IInv /\ [Next]_vars => [Queue!Next]_Queue!vars
  BY RefinesNext
<1>. QED
  BY <1>1, <1>2, Invariance, PTL DEF Spec, ImplementsDelivery, Queue!Spec
=============================================================================
