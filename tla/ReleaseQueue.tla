---------------------------- MODULE ReleaseQueue ----------------------------
(***************************************************************************)
(* The queue of sealed releases: table callbacks (state/store.py) and      *)
(* CoreClient.deliver_due_releases (core/client.py), run by the timers     *)
(* that call ConnectorService.tick (service.py).                           *)
(*                                                                         *)
(* A step is one SQLite transaction or one post.  Windows are stored and   *)
(* compared as ISO 8601 texts: Opens is the instant not_before names, and  *)
(* Text the place its text takes among the texts of the clock's readings.  *)
(* The two agree when the requester wrote not_before in UTC.               *)
(***************************************************************************)
EXTENDS Naturals

CONSTANTS
    Releases,     \* sealed releases, one per granted callback
    Timers,       \* threads that call tick
    Refused,      \* releases the core answers False to, however often posted
    Opens,        \* the instant a release's window opens
    Text,         \* the clock reading from which not_before<=now holds as text
    MaxTime,      \* bound: the last reading of the clock
    MaxCount,     \* where the count of copies saturates
    MaxCrashes,   \* bound: how often the process dies
    NoRelease     \* the job of a thread that has none

ASSUME ReleasesAssumption ==
    /\ Refused \subseteq Releases
    /\ NoRelease \notin Releases
    /\ Opens \in [Releases -> Nat]
    /\ Text \in [Releases -> Nat]
ASSUME BoundsAssumption ==
    /\ MaxTime \in Nat
    /\ MaxCount \in Nat \ {0}
    /\ MaxCrashes \in Nat

VARIABLES
    callbacks,    \* table callbacks: the releases that have a row
    delivered,    \* those whose row has delivered = 1
    now,          \* the clock, in UTC
    asOf,         \* now_iso, read when the tick began, per thread
    pc, job, batch,
    received,     \* external: copies of each release the core accepted
    up, crashes

vars == <<callbacks, delivered, now, asOf, pc, job, batch, received, up,
          crashes>>
threads == <<asOf, pc, job, batch>>

\* Counters stop at MaxCount.
Bump(n) == IF n < MaxCount THEN n + 1 ELSE n

Init ==
    /\ callbacks = {}
    /\ delivered = {}
    /\ now = 0
    /\ asOf = [t \in Timers |-> 0]
    /\ pc = [t \in Timers |-> "idle"]
    /\ job = [t \in Timers |-> NoRelease]
    /\ batch = [t \in Timers |-> {}]
    /\ received = [c \in Releases |-> 0]
    /\ up = TRUE
    /\ crashes = 0

\* The callback handler queues a sealed release (enqueue_callback).
EnqueueCallback(c) ==
    /\ up
    /\ c \notin callbacks
    /\ callbacks' = callbacks \cup {c}
    /\ UNCHANGED <<delivered, now, threads, received, up, crashes>>

\* tick reads the clock first and flushes the outbound queue before it turns
\* to the releases: any time may pass until DueCallbacks.
Tick(t) ==
    /\ up
    /\ pc[t] = "idle"
    /\ pc' = [pc EXCEPT ![t] = "select"]
    /\ asOf' = [asOf EXCEPT ![t] = now]
    /\ UNCHANGED <<callbacks, delivered, now, job, batch, received, up,
                   crashes>>

\* The loop over the rows that were due; SELECT gives them in no set order.
Continue(t, cs) ==
    IF cs = {}
    THEN /\ pc' = [pc EXCEPT ![t] = "idle"]
         /\ job' = [job EXCEPT ![t] = NoRelease]
         /\ batch' = [batch EXCEPT ![t] = {}]
         /\ asOf' = [asOf EXCEPT ![t] = 0]
    ELSE \E c \in cs :
            /\ pc' = [pc EXCEPT ![t] = "post"]
            /\ job' = [job EXCEPT ![t] = c]
            /\ batch' = [batch EXCEPT ![t] = cs \ {c}]
            /\ UNCHANGED asOf

\* Faulty variants: the window is not looked at, or only an exact match is due.
DueAlways(reading) == {c \in callbacks : c \notin delivered}
DueExactly(reading) ==
    {c \in callbacks : c \notin delivered /\ Text[c] = reading}

\* due_callbacks: WHERE delivered=0 AND not_before<=?.  There is no LIMIT, and
\* not_after is not looked at.
DueAt(reading) ==
    {c \in callbacks : c \notin delivered /\ Text[c] <= reading}

DueCallbacks(t) ==
    /\ up
    /\ pc[t] = "select"
    /\ Continue(t, DueAt(asOf[t]))
    /\ UNCHANGED <<callbacks, delivered, now, received, up, crashes>>

CoreStores(c) ==
    /\ c \notin Refused
    /\ received' = [received EXCEPT ![c] = Bump(@)]

\* post_release returns True.
PostAccepted(t) ==
    /\ up
    /\ pc[t] = "post"
    /\ CoreStores(job[t])
    /\ pc' = [pc EXCEPT ![t] = "mark"]
    /\ UNCHANGED <<callbacks, delivered, now, asOf, job, batch, up, crashes>>

\* It raises although the core has the release; ok is False.
PostReplyLost(t) ==
    /\ up
    /\ pc[t] = "post"
    /\ CoreStores(job[t])
    /\ Continue(t, batch[t])
    /\ UNCHANGED <<callbacks, delivered, now, up, crashes>>

\* Faulty variant: the row is marked without looking at ok.
PostFailedIsOk(t) ==
    /\ up
    /\ pc[t] = "post"
    /\ pc' = [pc EXCEPT ![t] = "mark"]
    /\ UNCHANGED <<callbacks, delivered, now, asOf, job, batch, received, up,
                   crashes>>

\* It raises, or the core answers False, and nothing is audited.
PostFailed(t) ==
    /\ up
    /\ pc[t] = "post"
    /\ Continue(t, batch[t])
    /\ UNCHANGED <<callbacks, delivered, now, received, up, crashes>>

MarkCallbackDelivered(t) ==
    /\ up
    /\ pc[t] = "mark"
    /\ delivered' = delivered \cup {job[t]}
    /\ Continue(t, batch[t])
    /\ UNCHANGED <<callbacks, now, received, up, crashes>>

\* The process dies; a post in flight that arrives is PostReplyLost before.
Crash ==
    /\ up
    /\ crashes < MaxCrashes
    /\ up' = FALSE
    /\ crashes' = crashes + 1
    /\ asOf' = [t \in Timers |-> 0]
    /\ pc' = [t \in Timers |-> "idle"]
    /\ job' = [t \in Timers |-> NoRelease]
    /\ batch' = [t \in Timers |-> {}]
    /\ UNCHANGED <<callbacks, delivered, now, received>>

Restart ==
    /\ ~up
    /\ up' = TRUE
    /\ UNCHANGED <<callbacks, delivered, now, threads, received, crashes>>

Clock ==
    /\ now < MaxTime
    /\ now' = now + 1
    /\ UNCHANGED <<callbacks, delivered, threads, received, up, crashes>>

Proceed(t) ==
    \/ DueCallbacks(t)
    \/ PostAccepted(t)
    \/ PostReplyLost(t)
    \/ PostFailed(t)
    \/ MarkCallbackDelivered(t)

Next ==
    \/ \E c \in Releases : EnqueueCallback(c)
    \/ \E t \in Timers : Tick(t) \/ Proceed(t)
    \/ Crash
    \/ Restart
    \/ Clock

Spec == Init /\ [][Next]_vars

\* As for OutboundQueue; and time passes.
Fairness ==
    /\ \A t \in Timers : WF_vars(Tick(t)) /\ WF_vars(Proceed(t))
    /\ \A t \in Timers, c \in Releases \ Refused :
            SF_vars(job[t] = c /\ PostAccepted(t))
    /\ WF_vars(Restart)
    /\ WF_vars(Clock)

FairSpec == Spec /\ Fairness

-----------------------------------------------------------------------------
TypeOK ==
    /\ callbacks \subseteq Releases
    /\ delivered \subseteq Releases
    /\ now \in 0..MaxTime
    /\ asOf \in [Timers -> 0..MaxTime]
    /\ pc \in [Timers -> {"idle", "select", "post", "mark"}]
    /\ job \in [Timers -> Releases \cup {NoRelease}]
    /\ batch \in [Timers -> SUBSET Releases]
    /\ received \in [Releases -> 0..MaxCount]
    /\ up \in BOOLEAN
    /\ crashes \in 0..MaxCrashes

\* The core gets a sealed release only after its window has opened: "hand core
\* the sealed object once the window opens" (core/client.py:125-128).
ReleasedInWindow ==
    \A c \in Releases : received[c] > 0 => Opens[c] <= now

\* The second queue, too, is an at-least-once queue.
Queue == INSTANCE AtLeastOnceDelivery WITH
            Packages <- Releases, accepted <- callbacks,
            copies <- received, confirmed <- delivered

ImplementsDelivery == Queue!Spec

\* Every release the core does not refuse is handed over in the end, also when
\* it refuses others: here no LIMIT lets refused rows fill the flush.
ReleaseIsDelivered == Queue!Confirmation

\* The inductive invariant: what a thread holds was due when its tick began.
Due(t, c) == c \in callbacks /\ Text[c] <= asOf[t]

HeldIsDue ==
    \A t \in Timers :
        /\ asOf[t] <= now
        /\ \A c \in batch[t] : Due(t, c)
        /\ pc[t] \in {"idle", "select"} => batch[t] = {}
        /\ pc[t] \in {"post", "mark"} => Due(t, job[t])

ReceivedWasDue ==
    \A c \in Releases : received[c] > 0 => Text[c] <= now

MarksAreReceived ==
    \A t \in Timers : pc[t] = "mark" => received[job[t]] > 0

IInv ==
    /\ TypeOK
    /\ HeldIsDue
    /\ ReceivedWasDue
    /\ MarksAreReceived
=============================================================================
