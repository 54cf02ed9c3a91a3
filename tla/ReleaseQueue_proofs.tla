------------------------- MODULE ReleaseQueue_proofs -------------------------
(***************************************************************************)
(* Proofs about ReleaseQueue, for any releases, windows and number of      *)
(* timers: the inductive invariant, the window property under the          *)
(* hypothesis that the texts of windows sort no earlier than the instants  *)
(* they name, and the refinement of AtLeastOnceDelivery.                   *)
(***************************************************************************)
EXTENDS ReleaseQueue, TLAPS

LEMMA BumpType ==
    ASSUME NEW n \in 0..MaxCount
    PROVE  Bump(n) \in 0..MaxCount /\ Bump(n) > 0
BY BoundsAssumption DEF Bump

\* What the end of one row's hand-over does to thread t.
LEMMA ContinueFacts ==
    ASSUME TypeOK, NEW t \in Timers, NEW cs \in SUBSET Releases,
           Continue(t, cs)
    PROVE  /\ pc' \in [Timers -> {"idle", "select", "post", "mark"}]
           /\ job' \in [Timers -> Releases \cup {NoRelease}]
           /\ batch' \in [Timers -> SUBSET Releases]
           /\ asOf' \in [Timers -> 0..MaxTime]
           /\ batch'[t] \subseteq cs
           /\ \/ pc'[t] = "idle" /\ batch'[t] = {} /\ asOf'[t] = 0
              \/ pc'[t] = "post" /\ job'[t] \in cs /\ asOf'[t] = asOf[t]
           /\ \A u \in Timers \ {t} : /\ pc'[u] = pc[u]
                                      /\ job'[u] = job[u]
                                      /\ batch'[u] = batch[u]
                                      /\ asOf'[u] = asOf[u]
<1>1. CASE cs = {}
  BY <1>1, BoundsAssumption DEF Continue, TypeOK
<1>2. CASE cs # {}
  <2>1. PICK c \in cs : /\ pc' = [pc EXCEPT ![t] = "post"]
                        /\ job' = [job EXCEPT ![t] = c]
                        /\ batch' = [batch EXCEPT ![t] = cs \ {c}]
                        /\ UNCHANGED asOf
    BY <1>2 DEF Continue
  <2>. QED
    BY <2>1 DEF TypeOK
<1>. QED
  BY <1>1, <1>2

LEMMA InvariantInit ==
    Init => IInv
BY BoundsAssumption
   DEF Init, IInv, TypeOK, HeldIsDue, ReceivedWasDue, MarksAreReceived

\* Thread t goes on with the rows cs, all of them due when its tick began.
LEMMA ContinueStep ==
    ASSUME IInv, NEW t \in Timers, NEW cs \in SUBSET Releases,
           Continue(t, cs), \A c \in cs : Due(t, c),
           callbacks' = callbacks, now' = now,
           received' \in [Releases -> 0..MaxCount],
           \A c \in Releases :
               /\ received[c] > 0 => received'[c] > 0
               /\ received'[c] > 0 => Text[c] <= now
    PROVE  HeldIsDue' /\ ReceivedWasDue' /\ MarksAreReceived'
<1>. USE DEF IInv, TypeOK, Due, HeldIsDue, ReceivedWasDue, MarksAreReceived
<1>1. ReceivedWasDue'
  OBVIOUS
<1>2. HeldIsDue'
  <2>1. asOf'[t] <= now
    BY ContinueFacts
  <2>2. \A c \in batch'[t] : Due(t, c)'
    BY ContinueFacts
  <2>3. /\ pc'[t] \in {"post", "mark"} => Due(t, job[t])'
        /\ pc'[t] \in {"idle", "select"} => batch'[t] = {}
    BY ContinueFacts
  <2>4. ASSUME NEW u \in Timers \ {t}
        PROVE  /\ asOf'[u] <= now'
               /\ \A c \in batch'[u] : Due(u, c)'
               /\ pc'[u] \in {"post", "mark"} => Due(u, job[u])'
               /\ pc'[u] \in {"idle", "select"} => batch'[u] = {}
    BY ContinueFacts
  <2>. QED
    BY <2>1, <2>2, <2>3, <2>4
<1>3. MarksAreReceived'
  <2>1. ASSUME NEW u \in Timers \ {t}, pc'[u] = "mark"
        PROVE  received'[job'[u]] > 0
    <3>1. pc[u] = "mark" /\ job'[u] = job[u] /\ received[job[u]] > 0
      BY <2>1, ContinueFacts
    <3>2. job[u] \in Releases
      BY <3>1
    <3>. QED
      BY <3>1, <3>2
  <2>2. pc'[t] # "mark"
    BY ContinueFacts
  <2>. QED
    BY <2>1, <2>2
<1>. QED
  BY <1>1, <1>2, <1>3

LEMMA InvariantStep ==
    IInv /\ [Next]_vars => IInv'
<1>. SUFFICES ASSUME IInv, [Next]_vars
              PROVE  IInv'
  OBVIOUS
<1>. USE DEF IInv, TypeOK
<1>0. \A t \in Timers : pc[t] \in {"post", "mark"} => job[t] \in Releases
  BY DEF HeldIsDue, Due
<1>1. ASSUME NEW c \in Releases, EnqueueCallback(c)
      PROVE  IInv'
  BY <1>1 DEF EnqueueCallback, threads, HeldIsDue, Due, ReceivedWasDue,
              MarksAreReceived
<1>2. ASSUME NEW t \in Timers, Tick(t)
      PROVE  IInv'
  <2>1. TypeOK'
    BY <1>2 DEF Tick
  <2>2. batch[t] = {}
    BY <1>2 DEF Tick, HeldIsDue
  <2>3. HeldIsDue' /\ ReceivedWasDue' /\ MarksAreReceived'
    BY <1>2 DEF Tick, HeldIsDue, Due, ReceivedWasDue, MarksAreReceived
  <2>. QED
    BY <2>1, <2>3
<1>3. ASSUME NEW t \in Timers, DueCallbacks(t)
      PROVE  IInv'
  <2>1. /\ DueAt(asOf[t]) \in SUBSET Releases
        /\ \A c \in DueAt(asOf[t]) : Due(t, c)
    BY DEF DueAt, Due
  <2>2. TypeOK'
    BY <1>3, <2>1, ContinueFacts DEF DueCallbacks
  <2>3. HeldIsDue' /\ ReceivedWasDue' /\ MarksAreReceived'
    BY <1>3, <2>1, ContinueStep DEF DueCallbacks, ReceivedWasDue
  <2>. QED
    BY <2>2, <2>3
<1>4. ASSUME NEW t \in Timers, CoreStores(job[t]), pc[t] = "post"
      PROVE  /\ received' \in [Releases -> 0..MaxCount]
             /\ received'[job[t]] > 0
             /\ \A c \in Releases : /\ received[c] > 0 => received'[c] > 0
                                    /\ received'[c] > 0 => Text[c] <= now
  <2>1. job[t] \in Releases /\ Text[job[t]] <= now
    BY <1>0, <1>4, ReleasesAssumption DEF HeldIsDue, Due
  <2>. QED
    BY <1>4, <2>1, BumpType DEF CoreStores, ReceivedWasDue
<1>5. ASSUME NEW t \in Timers, PostAccepted(t)
      PROVE  IInv'
  <2>1. TypeOK'
    BY <1>4, <1>5 DEF PostAccepted
  <2>2. HeldIsDue' /\ ReceivedWasDue'
    BY <1>4, <1>5 DEF PostAccepted, HeldIsDue, Due, ReceivedWasDue
  <2>3. MarksAreReceived'
    BY <1>0, <1>4, <1>5 DEF PostAccepted, MarksAreReceived
  <2>. QED
    BY <2>1, <2>2, <2>3
<1>6. ASSUME NEW t \in Timers, PostReplyLost(t)
      PROVE  IInv'
  <2>1. batch[t] \in SUBSET Releases /\ \A c \in batch[t] : Due(t, c)
    BY DEF HeldIsDue
  <2>2. TypeOK'
    BY <1>4, <1>6, ContinueFacts DEF PostReplyLost
  <2>3. HeldIsDue' /\ ReceivedWasDue' /\ MarksAreReceived'
    BY <1>4, <1>6, <2>1, ContinueStep DEF PostReplyLost
  <2>. QED
    BY <2>2, <2>3
<1>7. ASSUME NEW t \in Timers, PostFailed(t)
      PROVE  IInv'
  <2>1. batch[t] \in SUBSET Releases /\ \A c \in batch[t] : Due(t, c)
    BY DEF HeldIsDue
  <2>2. TypeOK'
    BY <1>7, ContinueFacts DEF PostFailed
  <2>3. HeldIsDue' /\ ReceivedWasDue' /\ MarksAreReceived'
    BY <1>7, <2>1, ContinueStep DEF PostFailed, ReceivedWasDue
  <2>. QED
    BY <2>2, <2>3
<1>8. ASSUME NEW t \in Timers, MarkCallbackDelivered(t)
      PROVE  IInv'
  <2>1. batch[t] \in SUBSET Releases /\ \A c \in batch[t] : Due(t, c)
    BY DEF HeldIsDue
  <2>2. TypeOK'
    BY <1>0, <1>8, ContinueFacts DEF MarkCallbackDelivered
  <2>3. HeldIsDue' /\ ReceivedWasDue' /\ MarksAreReceived'
    BY <1>8, <2>1, ContinueStep DEF MarkCallbackDelivered, ReceivedWasDue
  <2>. QED
    BY <2>2, <2>3
<1>9. CASE Crash
  <2>1. TypeOK'
    <3>1. crashes' \in 0..MaxCrashes
      BY <1>9, BoundsAssumption DEF Crash
    <3>2. asOf' \in [Timers -> 0..MaxTime]
      BY <1>9, BoundsAssumption DEF Crash
    <3>. QED
      BY <1>9, <3>1, <3>2 DEF Crash
  <2>2. HeldIsDue' /\ ReceivedWasDue' /\ MarksAreReceived'
    BY <1>9 DEF Crash, HeldIsDue, ReceivedWasDue, MarksAreReceived
  <2>. QED
    BY <2>1, <2>2
<1>10. CASE Restart
  BY <1>10 DEF Restart, threads, HeldIsDue, Due, ReceivedWasDue,
               MarksAreReceived
<1>11. CASE Clock
  <2>1. TypeOK' /\ now' >= now /\ now \in Nat
    BY <1>11, BoundsAssumption DEF Clock, threads
  <2>2. HeldIsDue' /\ MarksAreReceived'
    BY <1>11, <2>1 DEF Clock, threads, HeldIsDue, Due, MarksAreReceived
  <2>3. ReceivedWasDue'
    BY <1>11, <2>1, ReleasesAssumption DEF Clock, ReceivedWasDue
  <2>. QED
    BY <2>1, <2>2, <2>3
<1>12. CASE UNCHANGED vars
  BY <1>12 DEF vars, HeldIsDue, Due, ReceivedWasDue, MarksAreReceived
<1>. QED
  BY <1>1, <1>2, <1>3, <1>5, <1>6, <1>7, <1>8, <1>9, <1>10, <1>11, <1>12
     DEF Next, Proceed

\* What a thread holds was due when its tick began, and what the core has was
\* due when it was posted.
THEOREM Invariance == Spec => []IInv
<1>. QED
  BY InvariantInit, InvariantStep, PTL DEF Spec

\* If no window's text sorts before the instant it names, as when all windows
\* are written in UTC, the core never gets a release before its window opens.
\* (Run releases_offset shows what the hypothesis is needed for.)
THEOREM WindowsHold ==
    ASSUME \A c \in Releases : Opens[c] <= Text[c]
    PROVE  Spec => []ReleasedInWindow
<1>1. IInv => ReleasedInWindow
  <2>. SUFFICES ASSUME IInv, NEW c \in Releases, received[c] > 0
                PROVE  Opens[c] <= now
    BY DEF ReleasedInWindow
  <2>1. Text[c] <= now /\ now \in Nat
    BY BoundsAssumption DEF IInv, TypeOK, ReceivedWasDue
  <2>. QED
    BY <2>1, ReleasesAssumption
<1>. QED
  BY <1>1, Invariance, PTL

LEMMA RefinesNext ==
    IInv /\ [Next]_vars => [Queue!Next]_Queue!vars
<1>. SUFFICES ASSUME IInv, [Next]_vars
              PROVE  Queue!Next \/ UNCHANGED Queue!vars
  OBVIOUS
<1>. USE DEF Queue!Next, Queue!vars
<1>0. \A t \in Timers :
        pc[t] \in {"post", "mark"} => job[t] \in Releases \cap callbacks
  BY DEF IInv, TypeOK, HeldIsDue, Due
<1>1. ASSUME NEW c \in Releases, EnqueueCallback(c)
      PROVE  Queue!Accept(c)
  BY <1>1 DEF EnqueueCallback, Queue!Accept
<1>2. ASSUME NEW t \in Timers, PostAccepted(t) \/ PostReplyLost(t)
      PROVE  job[t] \in Releases /\ Queue!Transmit(job[t])
  BY <1>0, <1>2
     DEF PostAccepted, PostReplyLost, CoreStores, Bump, Queue!Transmit
<1>3. ASSUME NEW t \in Timers, MarkCallbackDelivered(t)
      PROVE  job[t] \in Releases /\ Queue!Confirm(job[t])
  BY <1>0, <1>3
     DEF MarkCallbackDelivered, Queue!Confirm, IInv, MarksAreReceived
<1>4. ASSUME NEW t \in Timers, Tick(t) \/ DueCallbacks(t) \/ PostFailed(t)
      PROVE  UNCHANGED Queue!vars
  BY <1>4 DEF Tick, DueCallbacks, PostFailed
<1>5. ASSUME Crash \/ Restart \/ Clock \/ UNCHANGED vars
      PROVE  UNCHANGED Queue!vars
  BY <1>5 DEF Crash, Restart, Clock, vars
<1>. QED
  BY <1>1, <1>2, <1>3, <1>4, <1>5 DEF Next, Proceed

\* The release queue implements at-least-once delivery.
THEOREM Refinement == Spec => ImplementsDelivery
<1>1. Init => Queue!Init
  BY DEF Init, Queue!Init
<1>2. IInv /\ [Next]_vars => [Queue!Next]_Queue!vars
  BY RefinesNext
<1>. QED
  BY <1>1, <1>2, Invariance, PTL DEF Spec, ImplementsDelivery, Queue!Spec
=============================================================================
