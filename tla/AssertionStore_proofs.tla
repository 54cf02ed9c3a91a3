------------------------ MODULE AssertionStore_proofs ------------------------
(***************************************************************************)
(* Proofs about AssertionStore, for any labels and any bounds: what the    *)
(* log says is never rewritten, flags and withdrawals agree, the           *)
(* tombstones are what the log says they are, ids resolve to all they have *)
(* become, and a profile is marked as high as what it rests on, no higher. *)
(***************************************************************************)
EXTENDS AssertionStore, SequenceTheorems, FiniteSetTheorems, TLAPS

\* One turn of the loop of high_water.
CombineStep(ctx, acc, label) ==
    IF acc = Raises THEN Raises ELSE Combine(acc, label)
Marking == INSTANCE Recursion WITH Op <- CombineStep

\* References and marks only look back.
LooksBack ==
    \A i \in DOMAIN log :
        /\ log[i].derivedFrom \subseteq 1 .. i - 1
        /\ log[i].withdrawnAt <= Len(log)
        /\ log[i].supersededAt <= Len(log)

\* Ids that an identity assertion gave out are below the counter.
StatedIdsAreGiven ==
    \A i \in DOMAIN log :
        log[i].type \in {"merge", "split"} =>
            SuccessorsStated(log[i]) \subseteq 1 .. entities

IInv ==
    /\ TypeOK
    /\ LooksBack
    /\ FlaggedIffSourceWithdrawn
    /\ StaleIsReplaced
    /\ TombstonesPointForward
    /\ TombstonesFollowLog
    /\ StatedIdsAreGiven
    /\ IdsAreFresh

LEMMA InvariantInit == Init => IInv
BY StoreAssumption
   DEF Init, IInv, TypeOK, EntityIds, LooksBack, FlaggedIffSourceWithdrawn,
       StaleIsReplaced, TombstonesPointForward, TombstonesFollowLog,
       StatedIdsAreGiven, IdsAreFresh

-----------------------------------------------------------------------------
(* The two things a call does to the log.                                  *)

\* It records new, and marks old as superseded by it (no assertion is 0).
Recorded(new, old) ==
    /\ Len(log) < MaxLog
    /\ log' \in Seq(Assertion)
    /\ Len(log') = Len(log) + 1
    /\ log'[Len(log) + 1] = new
    /\ \A i \in 1 .. Len(log) :
          log'[i] = IF i = old THEN [log[i] EXCEPT !.supersededAt = Len(log)]
                    ELSE log[i]
    /\ old \in 0 .. Len(log)
    /\ new.derivedFrom \subseteq 1 .. Len(log)
    /\ new.supersedes = old
    /\ new.supersededAt = None
    /\ new.withdrawnAt = None
    /\ new.flagged = FALSE

\* It marks target as withdrawn and flags what is derived from it.
Withdrawn(target) ==
    /\ log' \in Seq(Assertion)
    /\ Len(log') = Len(log)
    /\ target \in 1 .. Len(log)
    /\ \A i \in 1 .. Len(log) :
          log'[i] = [log[i] EXCEPT
                        !.withdrawnAt = IF i = target THEN Len(log) ELSE @,
                        !.flagged = @ \/ target \in log[i].derivedFrom]

LEMMA NewAssertionType ==
    ASSUME TypeOK, NEW type \in {"attribute", "merge", "split"},
           NEW subject \in EntityIds, NEW body \in SUBSET EntityIds,
           NEW label \in UsedLabels, NEW sources \in SUBSET (1 .. Len(log))
    PROVE  NewAssertion(type, subject, body, label, sources) \in Assertion
BY StoreAssumption DEF TypeOK, NewAssertion, Assertion, None

LEMMA FactType ==
    ASSUME TypeOK, NEW new \in Facts
    PROVE  /\ new \in Assertion
           /\ new.type = "attribute"
           /\ new.derivedFrom \subseteq 1 .. Len(log)
           /\ new.supersedes = None
           /\ new.supersededAt = None
           /\ new.withdrawnAt = None
           /\ new.flagged = FALSE
<1>1. PICK s \in 1 .. entities, l \in UsedLabels, D \in SUBSET DOMAIN log :
          new = NewAssertion("attribute", s, {}, l, D)
  BY DEF Facts
<1>2. s \in EntityIds /\ DOMAIN log = 1 .. Len(log)
  BY StoreAssumption DEF TypeOK, EntityIds
<1>. QED
  BY <1>1, <1>2, NewAssertionType DEF NewAssertion

LEMMA AppendRecords ==
    ASSUME TypeOK, NEW new \in Assertion, Len(log) < MaxLog,
           log' = Append(log, new),
           new.derivedFrom \subseteq 1 .. Len(log), new.supersedes = None,
           new.supersededAt = None, new.withdrawnAt = None,
           new.flagged = FALSE
    PROVE  Recorded(new, None)
BY DEF TypeOK, Recorded, None

LEMMA SupersedeRecords ==
    ASSUME TypeOK, NEW old \in DOMAIN log, NEW fact \in Facts,
           Supersede(old, fact)
    PROVE  Recorded([fact EXCEPT !.supersedes = old], old)
<1>. DEFINE marked == [log EXCEPT ![old].supersededAt = Len(log)]
            new == [fact EXCEPT !.supersedes = old]
<1>1. /\ log \in Seq(Assertion) /\ Len(log) \in Nat /\ Len(log) <= MaxLog
      /\ DOMAIN log = 1 .. Len(log) /\ old \in 1 .. Len(log)
  BY DEF TypeOK
<1>2. Len(log) \in 0 .. MaxLog /\ old \in 0 .. MaxLog
  BY <1>1, StoreAssumption
<1>3. ASSUME NEW i \in 1 .. Len(log)
      PROVE  /\ log[i] \in Assertion
             /\ [log[i] EXCEPT !.supersededAt = Len(log)] \in Assertion
  <2>1. log[i] \in Assertion
    BY <1>1
  <2>. QED
    BY <2>1, <1>2 DEF Assertion
<1>4. /\ marked \in Seq(Assertion) /\ Len(marked) = Len(log)
      /\ \A i \in 1 .. Len(log) :
            marked[i] = IF i = old
                        THEN [log[i] EXCEPT !.supersededAt = Len(log)]
                        ELSE log[i]
  BY <1>1, <1>3
<1>5. /\ new \in Assertion
      /\ new.derivedFrom = fact.derivedFrom /\ new.supersedes = old
      /\ new.supersededAt = None /\ new.withdrawnAt = None
      /\ new.flagged = FALSE
  BY <1>2, FactType DEF Assertion
<1>6. log' = Append(marked, new) /\ Len(log) < MaxLog
  BY DEF Supersede
<1>. HIDE DEF marked, new
<1>7. /\ log' \in Seq(Assertion) /\ Len(log') = Len(log) + 1
      /\ log'[Len(log) + 1] = new
      /\ \A i \in 1 .. Len(log) : log'[i] = marked[i]
  BY <1>1, <1>4, <1>5, <1>6
<1>8. Recorded(new, old)
  <2>1. new.derivedFrom \subseteq 1 .. Len(log)
    BY <1>5, FactType
  <2>. QED
    BY <1>1, <1>4, <1>5, <1>6, <1>7, <2>1 DEF Recorded
<1>. QED
  BY <1>8 DEF new

LEMMA WithdrawMarks ==
    ASSUME TypeOK, NEW target \in DOMAIN log, Withdraw(target)
    PROVE  Withdrawn(target)
<1>1. /\ log \in Seq(Assertion) /\ Len(log) \in Nat /\ Len(log) <= MaxLog
      /\ DOMAIN log = 1 .. Len(log) /\ target \in 1 .. Len(log)
  BY DEF TypeOK
<1>2. ASSUME NEW i \in 1 .. Len(log)
      PROVE  [log[i] EXCEPT
                 !.withdrawnAt = IF i = target THEN Len(log) ELSE @,
                 !.flagged = @ \/ target \in log[i].derivedFrom] \in Assertion
  <2>1. log[i] \in Assertion /\ Len(log) \in 0 .. MaxLog
    BY <1>1, StoreAssumption
  <2>. QED
    BY <2>1 DEF Assertion
<1>3. log' \in [1 .. Len(log) -> Assertion]
  BY <1>1, <1>2 DEF Withdraw
<1>4. log' \in Seq(Assertion) /\ Len(log') = Len(log)
  BY <1>1, <1>3, SeqDef, LenProperties
<1>. QED
  BY <1>1, <1>3, <1>4 DEF Withdraw, Withdrawn

-----------------------------------------------------------------------------
(* What is known of marks and references is kept by either.                *)

\* The fields of the log's assertions after a call, one by one.
LEMMA RecordedFields ==
    ASSUME TypeOK, LooksBack, NEW new, NEW old, Recorded(new, old)
    PROVE  /\ Len(log) \in Nat /\ DOMAIN log = 1 .. Len(log)
           /\ Len(log') = Len(log) + 1 /\ DOMAIN log' = 1 .. Len(log) + 1
           /\ log'[Len(log) + 1] = new
           /\ \A i \in 1 .. Len(log) :
                 /\ log'[i].type = log[i].type
                 /\ log'[i].subject = log[i].subject
                 /\ log'[i].body = log[i].body
                 /\ log'[i].label = log[i].label
                 /\ log'[i].derivedFrom = log[i].derivedFrom
                 /\ log'[i].supersedes = log[i].supersedes
                 /\ log'[i].flagged = log[i].flagged
                 /\ log'[i].withdrawnAt = log[i].withdrawnAt
                 /\ log'[i].supersededAt =
                       IF i = old THEN Len(log) ELSE log[i].supersededAt
                 /\ log[i].withdrawnAt \in 0 .. Len(log)
                 /\ log[i].supersededAt \in 0 .. Len(log)
                 /\ log[i].supersedes \in Nat
                 /\ log[i].derivedFrom \subseteq 1 .. i - 1
<1>1. log \in Seq(Assertion) /\ log' \in Seq(Assertion)
  BY DEF TypeOK, Recorded
<1>2. Len(log') = Len(log) + 1 /\ log'[Len(log) + 1] = new
  BY DEF Recorded
<1>3. /\ Len(log) \in Nat /\ DOMAIN log = 1 .. Len(log)
      /\ DOMAIN log' = 1 .. Len(log) + 1
  BY <1>1, <1>2
<1>4. ASSUME NEW i \in 1 .. Len(log)
      PROVE  /\ log'[i].type = log[i].type
             /\ log'[i].subject = log[i].subject
             /\ log'[i].body = log[i].body
             /\ log'[i].label = log[i].label
             /\ log'[i].derivedFrom = log[i].derivedFrom
             /\ log'[i].supersedes = log[i].supersedes
             /\ log'[i].flagged = log[i].flagged
             /\ log'[i].withdrawnAt = log[i].withdrawnAt
             /\ log'[i].supersededAt =
                   IF i = old THEN Len(log) ELSE log[i].supersededAt
             /\ log[i].withdrawnAt \in 0 .. Len(log)
             /\ log[i].supersededAt \in 0 .. Len(log)
             /\ log[i].supersedes \in Nat
             /\ log[i].derivedFrom \subseteq 1 .. i - 1
  <2>1. log[i] \in Assertion
    BY <1>1
  <2>2. log'[i] = IF i = old
                  THEN [log[i] EXCEPT !.supersededAt = Len(log)]
                  ELSE log[i]
    BY DEF Recorded
  <2>3. /\ log[i].withdrawnAt <= Len(log) /\ log[i].supersededAt <= Len(log)
        /\ log[i].derivedFrom \subseteq 1 .. i - 1
    BY <1>3 DEF LooksBack
  <2>4. /\ log[i].withdrawnAt \in Nat /\ log[i].supersededAt \in Nat
        /\ log[i].supersedes \in Nat /\ log[i].flagged \in BOOLEAN
    BY <2>1 DEF Assertion
  <2>. QED
    BY <1>3, <2>1, <2>2, <2>3, <2>4 DEF Assertion
<1>. QED
  BY <1>2, <1>3, <1>4

LEMMA WithdrawnFields ==
    ASSUME TypeOK, LooksBack, NEW target, Withdrawn(target)
    PROVE  /\ Len(log) \in Nat /\ DOMAIN log = 1 .. Len(log)
           /\ Len(log') = Len(log) /\ DOMAIN log' = 1 .. Len(log)
           /\ target \in 1 .. Len(log)
           /\ \A i \in 1 .. Len(log) :
                 /\ log'[i].type = log[i].type
                 /\ log'[i].subject = log[i].subject
                 /\ log'[i].body = log[i].body
                 /\ log'[i].label = log[i].label
                 /\ log'[i].derivedFrom = log[i].derivedFrom
                 /\ log'[i].supersedes = log[i].supersedes
                 /\ log'[i].supersededAt = log[i].supersededAt
                 /\ log'[i].flagged = (log[i].flagged \/
                                       target \in log[i].derivedFrom)
                 /\ log'[i].withdrawnAt =
                       IF i = target THEN Len(log) ELSE log[i].withdrawnAt
                 /\ log[i].withdrawnAt \in 0 .. Len(log)
                 /\ log[i].supersededAt \in 0 .. Len(log)
                 /\ log[i].supersedes \in Nat
                 /\ log[i].flagged \in BOOLEAN
                 /\ log[i].derivedFrom \subseteq 1 .. i - 1
<1>1. log \in Seq(Assertion) /\ log' \in Seq(Assertion)
  BY DEF TypeOK, Withdrawn
<1>2. Len(log') = Len(log) /\ target \in 1 .. Len(log)
  BY DEF Withdrawn
<1>3. /\ Len(log) \in Nat /\ DOMAIN log = 1 .. Len(log)
      /\ DOMAIN log' = 1 .. Len(log)
  BY <1>1, <1>2
<1>4. ASSUME NEW i \in 1 .. Len(log)
      PROVE  /\ log'[i].type = log[i].type
             /\ log'[i].subject = log[i].subject
             /\ log'[i].body = log[i].body
             /\ log'[i].label = log[i].label
             /\ log'[i].derivedFrom = log[i].derivedFrom
             /\ log'[i].supersedes = log[i].supersedes
             /\ log'[i].supersededAt = log[i].supersededAt
             /\ log'[i].flagged = (log[i].flagged \/
                                   target \in log[i].derivedFrom)
             /\ log'[i].withdrawnAt =
                   IF i = target THEN Len(log) ELSE log[i].withdrawnAt
             /\ log[i].withdrawnAt \in 0 .. Len(log)
             /\ log[i].supersededAt \in 0 .. Len(log)
             /\ log[i].supersedes \in Nat
             /\ log[i].flagged \in BOOLEAN
             /\ log[i].derivedFrom \subseteq 1 .. i - 1
  <2>1. log[i] \in Assertion
    BY <1>1
  <2>2. log'[i] = [log[i] EXCEPT
                      !.withdrawnAt = IF i = target THEN Len(log) ELSE @,
                      !.flagged = @ \/ target \in log[i].derivedFrom]
    BY DEF Withdrawn
  <2>3. /\ log[i].withdrawnAt <= Len(log) /\ log[i].supersededAt <= Len(log)
        /\ log[i].derivedFrom \subseteq 1 .. i - 1
    BY <1>3 DEF LooksBack
  <2>4. /\ log[i].withdrawnAt \in Nat /\ log[i].supersededAt \in Nat
        /\ log[i].supersedes \in Nat /\ log[i].flagged \in BOOLEAN
    BY <2>1 DEF Assertion
  <2>. QED
    BY <1>3, <2>1, <2>2, <2>3, <2>4 DEF Assertion
<1>. QED
  BY <1>2, <1>3, <1>4

\* The part of the invariant that speaks of the log alone.
LogInv == LooksBack /\ FlaggedIffSourceWithdrawn /\ StaleIsReplaced

LEMMA RecordingKeepsLogInv ==
    ASSUME TypeOK, LogInv, NEW new, NEW old, Recorded(new, old)
    PROVE  LogInv'
<1>. DEFINE n == Len(log)
<1>1. /\ n \in Nat /\ DOMAIN log = 1 .. n /\ DOMAIN log' = 1 .. n + 1
      /\ old \in 0 .. n /\ Len(log') = n + 1 /\ log'[n + 1] = new
      /\ new.derivedFrom \subseteq 1 .. n /\ new.supersedes = old
      /\ new.supersededAt = 0 /\ new.withdrawnAt = 0 /\ new.flagged = FALSE
  BY RecordedFields DEF LogInv, Recorded, None
<1>2. ASSUME NEW i \in 1 .. n
      PROVE  /\ log'[i].derivedFrom = log[i].derivedFrom
             /\ log'[i].withdrawnAt = log[i].withdrawnAt
             /\ log'[i].flagged = log[i].flagged
             /\ log'[i].supersedes = log[i].supersedes
             /\ log'[i].supersededAt =
                   IF i = old THEN n ELSE log[i].supersededAt
             /\ log[i].withdrawnAt \in 0 .. n
             /\ log[i].supersededAt \in 0 .. n
             /\ log[i].supersedes \in Nat
             /\ log[i].derivedFrom \subseteq 1 .. i - 1
  BY RecordedFields DEF LogInv
<1>. HIDE DEF n
<1>3. LooksBack'
  <2>. SUFFICES ASSUME NEW i \in 1 .. n + 1
                PROVE  /\ log'[i].derivedFrom \subseteq 1 .. i - 1
                       /\ log'[i].withdrawnAt <= n + 1
                       /\ log'[i].supersededAt <= n + 1
    BY <1>1 DEF LooksBack
  <2>1. CASE i = n + 1
    BY <1>1, <2>1
  <2>2. CASE i \in 1 .. n
    <3>1. /\ log'[i].derivedFrom \subseteq 1 .. i - 1
          /\ log'[i].withdrawnAt \in 0 .. n
      BY <1>2, <2>2
    <3>2. log'[i].supersededAt \in 0 .. n
      BY <1>1, <1>2, <2>2
    <3>. QED
      BY <1>1, <3>1, <3>2
  <2>. QED
    BY <1>1, <2>1, <2>2
<1>4. FlaggedIffSourceWithdrawn'
  <2>. SUFFICES ASSUME NEW i \in 1 .. n + 1
                PROVE  log'[i].flagged <=>
                          \E d \in log'[i].derivedFrom :
                             d \in 1 .. n + 1 /\ log'[d].withdrawnAt >= i
    BY <1>1 DEF FlaggedIffSourceWithdrawn
  <2>1. CASE i = n + 1
    <3>1. \A d \in new.derivedFrom : log'[d].withdrawnAt \in 0 .. n
      BY <1>1, <1>2
    <3>. QED
      BY <1>1, <2>1, <3>1
  <2>2. CASE i \in 1 .. n
    <3>1. log[i].flagged <=>
             \E d \in log[i].derivedFrom :
                d \in 1 .. n /\ log[d].withdrawnAt >= i
      BY <1>1, <2>2 DEF LogInv, FlaggedIffSourceWithdrawn
    <3>2. \A d \in log[i].derivedFrom :
             d \in 1 .. n /\ log'[d].withdrawnAt = log[d].withdrawnAt
      BY <1>1, <1>2, <2>2
    <3>3. /\ log'[i].flagged = log[i].flagged
          /\ log'[i].derivedFrom = log[i].derivedFrom
      BY <1>2, <2>2
    <3>. QED
      BY <1>1, <3>1, <3>2, <3>3
  <2>. QED
    BY <1>1, <2>1, <2>2
<1>5. StaleIsReplaced'
  <2>. SUFFICES ASSUME NEW i \in 1 .. n + 1
                PROVE  /\ log'[i].supersededAt # 0 =>
                            /\ log'[i].supersededAt + 1 \in 1 .. n + 1
                            /\ log'[log'[i].supersededAt + 1].supersedes = i
                       /\ log'[i].supersedes # 0 =>
                            /\ log'[i].supersedes < i
                            /\ log'[log'[i].supersedes].supersededAt + 1 >= i
    BY <1>1 DEF StaleIsReplaced, None
  <2>1. CASE i = n + 1
    BY <1>1, <1>2, <2>1
  <2>2. CASE i \in 1 .. n
    <3>1. /\ log[i].supersededAt # 0 =>
                /\ log[i].supersededAt + 1 \in 1 .. n
                /\ log[log[i].supersededAt + 1].supersedes = i
          /\ log[i].supersedes # 0 =>
                /\ log[i].supersedes < i
                /\ log[log[i].supersedes].supersededAt + 1 >= i
      BY <1>1, <2>2 DEF LogInv, StaleIsReplaced, None
    <3>2. log'[i].supersededAt # 0 =>
             /\ log'[i].supersededAt + 1 \in 1 .. n + 1
             /\ log'[log'[i].supersededAt + 1].supersedes = i
      <4>1. CASE i = old
        BY <1>1, <1>2, <2>2, <4>1
      <4>2. CASE i # old
        BY <1>1, <1>2, <2>2, <3>1, <4>2
      <4>. QED
        BY <4>1, <4>2
    <3>3. ASSUME log'[i].supersedes # 0
          PROVE  /\ log'[i].supersedes < i
                 /\ log'[log'[i].supersedes].supersededAt + 1 >= i
      <4>. DEFINE o == log[i].supersedes
      <4>1. log'[i].supersedes = o /\ o \in 1 .. n /\ o < i
        BY <1>1, <1>2, <2>2, <3>1, <3>3
      <4>2. log'[o].supersededAt >= log[o].supersededAt
        BY <1>1, <1>2, <4>1
      <4>3. log[o].supersededAt + 1 >= i
        BY <3>1, <3>3, <4>1
      <4>4. log[o].supersededAt \in Nat /\ log'[o].supersededAt \in Nat
        BY <1>1, <1>2, <4>1
      <4>. QED
        BY <2>2, <4>1, <4>2, <4>3, <4>4
    <3>. QED
      BY <3>2, <3>3
  <2>. QED
    BY <1>1, <2>1, <2>2
<1>. QED
  BY <1>3, <1>4, <1>5 DEF LogInv

LEMMA WithdrawalKeepsLogInv ==
    ASSUME TypeOK, LogInv, NEW target, Withdrawn(target)
    PROVE  LogInv'
<1>. DEFINE n == Len(log)
<1>1. /\ n \in Nat /\ DOMAIN log = 1 .. n /\ DOMAIN log' = 1 .. n
      /\ Len(log') = n /\ target \in 1 .. n
  BY WithdrawnFields DEF LogInv
<1>2. ASSUME NEW i \in 1 .. n
      PROVE  /\ log'[i].derivedFrom = log[i].derivedFrom
             /\ log'[i].withdrawnAt =
                   IF i = target THEN n ELSE log[i].withdrawnAt
             /\ log'[i].flagged = (log[i].flagged \/
                                   target \in log[i].derivedFrom)
             /\ log'[i].supersedes = log[i].supersedes
             /\ log'[i].supersededAt = log[i].supersededAt
             /\ log[i].withdrawnAt \in 0 .. n
             /\ log[i].supersededAt \in 0 .. n
             /\ log[i].supersedes \in Nat
             /\ log[i].derivedFrom \subseteq 1 .. i - 1
             /\ log[i].flagged \in BOOLEAN
  BY WithdrawnFields DEF LogInv
<1>. HIDE DEF n
<1>3. LooksBack'
  BY <1>1, <1>2 DEF LooksBack
<1>4. FlaggedIffSourceWithdrawn'
  <2>. SUFFICES ASSUME NEW i \in 1 .. n
                PROVE  log'[i].flagged <=>
                          \E d \in log'[i].derivedFrom :
                             d \in 1 .. n /\ log'[d].withdrawnAt >= i
    BY <1>1 DEF FlaggedIffSourceWithdrawn
  <2>1. log[i].flagged <=>
           \E d \in log[i].derivedFrom :
              d \in 1 .. n /\ log[d].withdrawnAt >= i
    BY <1>1 DEF LogInv, FlaggedIffSourceWithdrawn
  <2>2. \A d \in log[i].derivedFrom :
           /\ d \in 1 .. n
           /\ log'[d].withdrawnAt >= i <=>
                 (d = target \/ log[d].withdrawnAt >= i)
    BY <1>1, <1>2
  <2>3. (\E d \in log[i].derivedFrom :
            d \in 1 .. n /\ log'[d].withdrawnAt >= i)
        <=> (log[i].flagged \/ target \in log[i].derivedFrom)
    BY <2>1, <2>2
  <2>. QED
    BY <1>2, <2>3
<1>5. StaleIsReplaced'
  <2>. SUFFICES ASSUME NEW i \in 1 .. n
                PROVE  /\ log'[i].supersededAt # 0 =>
                            /\ log'[i].supersededAt + 1 \in 1 .. n
                            /\ log'[log'[i].supersededAt + 1].supersedes = i
                       /\ log'[i].supersedes # 0 =>
                            /\ log'[i].supersedes < i
                            /\ log'[log'[i].supersedes].supersededAt + 1 >= i
    BY <1>1 DEF StaleIsReplaced, None
  <2>1. /\ log[i].supersededAt # 0 =>
              /\ log[i].supersededAt + 1 \in 1 .. n
              /\ log[log[i].supersededAt + 1].supersedes = i
        /\ log[i].supersedes # 0 =>
              /\ log[i].supersedes < i
              /\ log[log[i].supersedes].supersededAt + 1 >= i
    BY <1>1 DEF LogInv, StaleIsReplaced, None
  <2>2. log[i].supersedes # 0 => log[i].supersedes \in 1 .. n
    BY <1>1, <1>2, <2>1
  <2>. QED
    BY <1>2, <2>1, <2>2
<1>. QED
  BY <1>3, <1>4, <1>5 DEF LogInv

-----------------------------------------------------------------------------
(* Identity: the tombstones against the log.                               *)

IdInv ==
    /\ TombstonesPointForward
    /\ TombstonesFollowLog
    /\ StatedIdsAreGiven
    /\ IdsAreFresh

\* A call that records new and gives every id it speaks of the successors it
\* states, all of them new ids.
LEMMA RecordingKeepsIdInv ==
    ASSUME TypeOK, LooksBack, IdInv, NEW new \in Assertion, NEW old, Recorded(new, old),
           entities' \in entities .. MaxEntities,
           tombstones' = [e \in EntityIds |-> IF StatesSuccessors(new, e)
                                              THEN SuccessorsStated(new)
                                              ELSE tombstones[e]],
           new.type \in {"merge", "split"} =>
               SuccessorsStated(new) \subseteq entities + 1 .. entities',
           \A e \in EntityIds : StatesSuccessors(new, e) => e <= entities
    PROVE  IdInv'
<1>. DEFINE n == Len(log)
<1>1. /\ n \in Nat /\ DOMAIN log = 1 .. n /\ DOMAIN log' = 1 .. n + 1
      /\ log'[n + 1] = new
      /\ entities \in Nat /\ entities' \in Nat /\ entities <= entities'
  BY RecordedFields, StoreAssumption DEF TypeOK
<1>2. ASSUME NEW i \in 1 .. n
      PROVE  /\ log'[i].type = log[i].type
             /\ log'[i].subject = log[i].subject
             /\ log'[i].body = log[i].body
  BY RecordedFields
<1>. HIDE DEF n
<1>3. \A i \in 1 .. n :
          /\ SuccessorsStated(log'[i]) = SuccessorsStated(log[i])
          /\ \A e \in EntityIds :
                StatesSuccessors(log'[i], e) <=> StatesSuccessors(log[i], e)
  BY <1>2 DEF SuccessorsStated, StatesSuccessors
<1>4. \A e \in EntityIds : StatesSuccessors(new, e) =>
          new.type \in {"merge", "split"}
  BY DEF StatesSuccessors
<1>5. TombstonesPointForward'
  <2>. SUFFICES ASSUME NEW e \in EntityIds, NEW s \in tombstones'[e]
                PROVE  e < s /\ s <= entities'
    BY DEF TombstonesPointForward, EntityIds
  <2>1. e \in Nat
    BY StoreAssumption DEF EntityIds
  <2>2. CASE StatesSuccessors(new, e)
    <3>1. s \in entities + 1 .. entities' /\ e <= entities
      BY <1>4, <2>2
    <3>. QED
      BY <1>1, <2>1, <3>1
  <2>3. CASE ~StatesSuccessors(new, e)
    <3>1. s \in tombstones[e] /\ s \in Nat
      BY <2>3, StoreAssumption DEF TypeOK, EntityIds
    <3>2. e < s /\ s <= entities
      BY <3>1 DEF IdInv, TombstonesPointForward
    <3>. QED
      BY <1>1, <3>1, <3>2
  <2>. QED
    BY <2>2, <2>3
<1>6. TombstonesFollowLog'
  <2>. SUFFICES
          ASSUME NEW e \in EntityIds
          PROVE  /\ (\A i \in 1 .. n + 1 : ~StatesSuccessors(log'[i], e))
                       => tombstones'[e] = {}
                 /\ \A i \in 1 .. n + 1 :
                       /\ StatesSuccessors(log'[i], e)
                       /\ \A j \in 1 .. n + 1 :
                             StatesSuccessors(log'[j], e) => j <= i
                       => tombstones'[e] = SuccessorsStated(log'[i])
    BY <1>1 DEF TombstonesFollowLog, EntityIds
  <2>1. CASE StatesSuccessors(new, e)
    <3>1. StatesSuccessors(log'[n + 1], e)
          /\ tombstones'[e] = SuccessorsStated(log'[n + 1])
      BY <1>1, <2>1
    <3>2. \A i \in 1 .. n + 1 : n + 1 <= i => i = n + 1
      BY <1>1
    <3>3. n + 1 \in 1 .. n + 1
      BY <1>1
    <3>. QED
      BY <3>1, <3>2, <3>3
  <2>2. CASE ~StatesSuccessors(new, e)
    <3>1. /\ (\A i \in 1 .. n : ~StatesSuccessors(log[i], e))
                => tombstones[e] = {}
          /\ \A i \in 1 .. n :
                /\ StatesSuccessors(log[i], e)
                /\ \A j \in 1 .. n : StatesSuccessors(log[j], e) => j <= i
                => tombstones[e] = SuccessorsStated(log[i])
      BY <1>1 DEF IdInv, TombstonesFollowLog
    <3>2. tombstones'[e] = tombstones[e]
      BY <2>2
    <3>3. \A i \in 1 .. n + 1 : i \in 1 .. n \/ i = n + 1
      BY <1>1
    <3>4. \A i \in 1 .. n : i \in 1 .. n + 1
      BY <1>1
    <3>5. ~StatesSuccessors(log'[n + 1], e)
      BY <1>1, <2>2
    <3>. QED
      BY <1>3, <3>1, <3>2, <3>3, <3>4, <3>5
  <2>. QED
    BY <2>1, <2>2
<1>7. StatedIdsAreGiven'
  <2>. SUFFICES ASSUME NEW i \in 1 .. n + 1, log'[i].type \in {"merge", "split"}
                PROVE  SuccessorsStated(log'[i]) \subseteq 1 .. entities'
    BY <1>1 DEF StatedIdsAreGiven
  <2>1. CASE i = n + 1
    BY <1>1, <2>1
  <2>2. CASE i \in 1 .. n
    <3>1. SuccessorsStated(log[i]) \subseteq 1 .. entities
      BY <1>1, <1>2, <2>2 DEF IdInv, StatedIdsAreGiven
    <3>. QED
      BY <1>1, <1>3, <2>2, <3>1
  <2>. QED
    BY <1>1, <2>1, <2>2
<1>8. IdsAreFresh'
  <2>. SUFFICES ASSUME NEW i \in 1 .. n + 1, NEW j \in 1 .. n + 1, i < j,
                       log'[i].type \in {"merge", "split"},
                       log'[j].type \in {"merge", "split"}
                PROVE  SuccessorsStated(log'[i]) \cap SuccessorsStated(log'[j])
                          = {}
    <3>1. \A i, j \in 1 .. n + 1 : i # j => i < j \/ j < i
      BY <1>1
    <3>. QED
      BY <1>1, <3>1 DEF IdsAreFresh
  <2>1. i \in 1 .. n
    BY <1>1
  <2>2. CASE j = n + 1
    <3>1. SuccessorsStated(log[i]) \subseteq 1 .. entities
      BY <1>1, <1>2, <2>1 DEF IdInv, StatedIdsAreGiven
    <3>2. SuccessorsStated(log'[j]) \subseteq entities + 1 .. entities'
      BY <1>1, <2>2
    <3>. QED
      BY <1>1, <1>3, <2>1, <3>1, <3>2
  <2>3. CASE j \in 1 .. n
    <3>1. SuccessorsStated(log[i]) \cap SuccessorsStated(log[j]) = {}
      BY <1>1, <1>2, <2>1, <2>3 DEF IdInv, IdsAreFresh
    <3>. QED
      BY <1>3, <2>1, <2>3, <3>1
  <2>. QED
    BY <1>1, <2>2, <2>3
<1>. QED
  BY <1>5, <1>6, <1>7, <1>8 DEF IdInv

LEMMA WithdrawalKeepsIdInv ==
    ASSUME TypeOK, LooksBack, IdInv, NEW target, Withdrawn(target),
           UNCHANGED <<entities, tombstones>>
    PROVE  IdInv'
<1>1. DOMAIN log = 1 .. Len(log) /\ DOMAIN log' = DOMAIN log
  BY WithdrawnFields
<1>2. ASSUME NEW i \in DOMAIN log
      PROVE  /\ log'[i].type = log[i].type
             /\ log'[i].subject = log[i].subject
             /\ log'[i].body = log[i].body
  BY <1>1, WithdrawnFields
<1>3. \A i \in DOMAIN log :
          /\ SuccessorsStated(log'[i]) = SuccessorsStated(log[i])
          /\ \A e \in EntityIds :
                StatesSuccessors(log'[i], e) <=> StatesSuccessors(log[i], e)
  BY <1>2 DEF SuccessorsStated, StatesSuccessors
<1>4. TombstonesPointForward'
  BY DEF IdInv, TombstonesPointForward, EntityIds
<1>5. TombstonesFollowLog'
  BY <1>1, <1>3 DEF IdInv, TombstonesFollowLog, EntityIds
<1>6. StatedIdsAreGiven'
  BY <1>1, <1>2, <1>3 DEF IdInv, StatedIdsAreGiven
<1>7. IdsAreFresh'
  BY <1>1, <1>2, <1>3 DEF IdInv, IdsAreFresh
<1>. QED
  BY <1>4, <1>5, <1>6, <1>7 DEF IdInv

-----------------------------------------------------------------------------
(* The invariant, and what follows from it.                                *)

LEMMA IInvParts == IInv <=> TypeOK /\ LogInv /\ IdInv
BY DEF IInv, LogInv, IdInv

LEMMA RecordingKeepsInvariant ==
    ASSUME IInv, NEW new \in Assertion, NEW old, Recorded(new, old),
           entities' \in entities .. MaxEntities,
           tombstones' = [e \in EntityIds |-> IF StatesSuccessors(new, e)
                                              THEN SuccessorsStated(new)
                                              ELSE tombstones[e]],
           new.type \in {"merge", "split"} =>
               SuccessorsStated(new) \subseteq entities + 1 .. entities',
           \A e \in EntityIds : StatesSuccessors(new, e) => e <= entities
    PROVE  IInv'
<1>1. TypeOK /\ LogInv /\ IdInv
  BY IInvParts
<1>2. LogInv' /\ IdInv'
  BY <1>1, RecordingKeepsLogInv, RecordingKeepsIdInv DEF LogInv
<1>3. \A e \in EntityIds : tombstones'[e] \subseteq EntityIds
  <2>. SUFFICES ASSUME NEW e \in EntityIds
                PROVE  tombstones'[e] \subseteq EntityIds
    OBVIOUS
  <2>1. CASE StatesSuccessors(new, e)
    BY <2>1 DEF StatesSuccessors, SuccessorsStated, Assertion
  <2>2. CASE ~StatesSuccessors(new, e)
    BY <1>1, <2>2 DEF TypeOK
  <2>. QED
    BY <2>1, <2>2
<1>4. TypeOK'
  <2>1. log' \in Seq(Assertion) /\ Len(log') = Len(log) + 1
        /\ Len(log) < MaxLog
    BY DEF Recorded
  <2>2. Len(log) \in Nat /\ entities \in Nat
    BY <1>1 DEF TypeOK
  <2>3. Len(log') <= MaxLog /\ entities' \in 0 .. MaxEntities
    BY <2>1, <2>2, StoreAssumption
  <2>4. tombstones' \in [EntityIds -> SUBSET EntityIds]
    BY <1>3
  <2>. QED
    BY <2>1, <2>3, <2>4 DEF TypeOK, EntityIds, Assertion
<1>. QED
  BY <1>2, <1>4 DEF IInv, LogInv, IdInv

\* Recording a merge or a split.
LEMMA IdentityRecords ==
    ASSUME TypeOK, NEW type \in {"merge", "split"}, NEW subject \in EntityIds,
           NEW body \in SUBSET EntityIds, NEW label \in UsedLabels,
           NEW new, new = NewAssertion(type, subject, body, label, {}),
           Len(log) < MaxLog, log' = Append(log, new)
    PROVE  /\ new \in Assertion
           /\ Recorded(new, None)
           /\ new.type = type /\ new.subject = subject /\ new.body = body
<1>1. new \in Assertion
  BY NewAssertionType
<1>2. /\ new.type = type /\ new.subject = subject /\ new.body = body
      /\ new.derivedFrom = {} /\ new.supersedes = None
      /\ new.supersededAt = None /\ new.withdrawnAt = None
      /\ new.flagged = FALSE
  BY DEF NewAssertion
<1>. QED
  BY <1>1, <1>2, AppendRecords

LEMMA InvariantStep == IInv /\ [Next]_vars => IInv'
<1>. SUFFICES ASSUME IInv, [Next]_vars
              PROVE  IInv'
  OBVIOUS
<1>1. /\ TypeOK /\ LogInv /\ IdInv
      /\ entities \in 0 .. MaxEntities /\ MaxEntities \in Nat
      /\ tombstones \in [EntityIds -> SUBSET EntityIds]
  BY IInvParts, StoreAssumption DEF TypeOK
<1>2. CASE NewEntity
  <2>1. entities' = entities + 1 /\ entities' \in 0 .. MaxEntities
        /\ log' = log /\ tombstones' = tombstones
    BY <1>1, <1>2 DEF NewEntity
  <2>2. TypeOK'
    BY <1>1, <2>1 DEF TypeOK, EntityIds, Assertion
  <2>3. LogInv'
    BY <1>1, <2>1 DEF LogInv, LooksBack, FlaggedIffSourceWithdrawn,
                      StaleIsReplaced
  <2>4. TombstonesPointForward'
    <3>1. \A e \in EntityIds : \A s \in tombstones[e] :
             s \in Nat /\ e < s /\ s <= entities
      BY <1>1 DEF IdInv, TombstonesPointForward, EntityIds
    <3>. QED
      BY <1>1, <2>1, <3>1 DEF TombstonesPointForward, EntityIds
  <2>5. StatedIdsAreGiven'
    <3>1. 1 .. entities \subseteq 1 .. entities'
      BY <1>1, <2>1
    <3>. QED
      BY <1>1, <2>1, <3>1 DEF IdInv, StatedIdsAreGiven, SuccessorsStated
  <2>6. TombstonesFollowLog'
    BY <1>1, <2>1 DEF IdInv, TombstonesFollowLog, EntityIds,
                      StatesSuccessors, SuccessorsStated
  <2>7. IdsAreFresh'
    BY <1>1, <2>1 DEF IdInv, IdsAreFresh, SuccessorsStated
  <2>. QED
    BY <2>2, <2>3, <2>4, <2>5, <2>6, <2>7 DEF IInv, LogInv
<1>3. ASSUME NEW fact \in Assertion, NEW old, Recorded(fact, old),
             fact.type = "attribute", UNCHANGED <<entities, tombstones>>
      PROVE  IInv'
  <2>1. \A e \in EntityIds : ~StatesSuccessors(fact, e)
    BY <1>3 DEF StatesSuccessors
  <2>2. tombstones' = [e \in EntityIds |-> IF StatesSuccessors(fact, e)
                                           THEN SuccessorsStated(fact)
                                           ELSE tombstones[e]]
    BY <1>1, <1>3, <2>1
  <2>3. entities' \in entities .. MaxEntities
    BY <1>1, <1>3
  <2>. QED
    BY <1>3, <2>1, <2>2, <2>3, RecordingKeepsInvariant
<1>4. CASE \E new \in Facts : AssertFact(new)
  <2>1. PICK new \in Facts : AssertFact(new)
    BY <1>4
  <2>2. Recorded(new, None)
    BY <1>1, <2>1, FactType, AppendRecords DEF AssertFact
  <2>. QED
    BY <1>1, <1>3, <2>1, <2>2, FactType DEF AssertFact
<1>5. CASE \E old \in DOMAIN log, new \in Facts : Supersede(old, new)
  <2>1. PICK old \in DOMAIN log, new \in Facts : Supersede(old, new)
    BY <1>5
  <2>. DEFINE successor == [new EXCEPT !.supersedes = old]
  <2>2. Recorded(successor, old)
    BY <1>1, <2>1, SupersedeRecords
  <2>3. successor \in Assertion /\ successor.type = "attribute"
    <3>1. old \in 0 .. MaxLog
      BY <1>1, StoreAssumption DEF TypeOK
    <3>. QED
      BY <1>1, <3>1, FactType DEF Assertion
  <2>4. UNCHANGED <<entities, tombstones>>
    BY <2>1 DEF Supersede
  <2>. QED
    BY <1>3, <2>2, <2>3, <2>4
<1>6. CASE \E target \in DOMAIN log : Withdraw(target)
  <2>1. PICK target \in DOMAIN log : Withdraw(target)
    BY <1>6
  <2>2. Withdrawn(target) /\ UNCHANGED <<entities, tombstones>>
    BY <1>1, <2>1, WithdrawMarks DEF Withdraw
  <2>3. LogInv' /\ IdInv'
    BY <1>1, <2>2, WithdrawalKeepsLogInv, WithdrawalKeepsIdInv DEF LogInv
  <2>4. TypeOK'
    BY <1>1, <2>2 DEF TypeOK, Withdrawn, EntityIds, Assertion
  <2>. QED
    BY <2>3, <2>4 DEF IInv, LogInv, IdInv
<1>7. CASE \E a, b \in 1 .. entities, l \in UsedLabels :
              a # b /\ Merge(a, b, l)
  <2>1. PICK a \in 1 .. entities, b \in 1 .. entities, l \in UsedLabels :
           Merge(a, b, l)
    BY <1>7
  <2>. DEFINE ids == {a, b}
              merged == entities + 1
              new == NewAssertion("merge", merged, ids, l, {})
  <2>2. /\ entities' = entities + 1 /\ merged \in EntityIds
        /\ entities' \in entities .. MaxEntities
        /\ ids \in SUBSET EntityIds /\ \A e \in ids : e <= entities
        /\ {merged} \subseteq entities + 1 .. entities'
        /\ Len(log) < MaxLog /\ log' = Append(log, new)
    BY <1>1, <2>1 DEF Merge, EntityIds
  <2>3. tombstones' = [e \in EntityIds |-> IF e \in ids
                                           THEN {merged}
                                           ELSE tombstones[e]]
    BY <1>1, <2>1, <2>2 DEF Merge
  <2>. HIDE DEF new, ids, merged
  <2>4. /\ new \in Assertion /\ Recorded(new, None)
        /\ new.type = "merge" /\ new.subject = merged
        /\ new.body = ids
    BY <1>1, <2>1, <2>2, IdentityRecords DEF new
  <2>5. SuccessorsStated(new) = {merged}
        /\ \A e \in EntityIds : StatesSuccessors(new, e) <=> e \in ids
    BY <2>4 DEF SuccessorsStated, StatesSuccessors
  <2>6. tombstones' = [e \in EntityIds |-> IF StatesSuccessors(new, e)
                                           THEN SuccessorsStated(new)
                                           ELSE tombstones[e]]
    BY <2>3, <2>5
  <2>. QED
    BY <2>2, <2>4, <2>5, <2>6, RecordingKeepsInvariant
<1>8. CASE \E e \in 1 .. entities, l \in UsedLabels : Split(e, l)
  <2>1. PICK e \in 1 .. entities, l \in UsedLabels : Split(e, l)
    BY <1>8
  <2>. DEFINE parts == {entities + 1, entities + 2}
  <2>. DEFINE new == NewAssertion("split", e, parts, l, {})
  <2>2. /\ entities' = entities + 2 /\ e \in EntityIds /\ e <= entities
        /\ entities' \in entities .. MaxEntities
        /\ parts \in SUBSET EntityIds
        /\ Len(log) < MaxLog /\ log' = Append(log, new)
    BY <1>1, <2>1 DEF Split, EntityIds
  <2>3. tombstones' = [d \in EntityIds |-> IF d = e THEN parts
                                           ELSE tombstones[d]]
    BY <1>1, <2>1, <2>2 DEF Split
  <2>4. parts \subseteq entities + 1 .. entities'
    BY <1>1, <2>2
  <2>. HIDE DEF new, parts
  <2>5. /\ new \in Assertion /\ Recorded(new, None)
        /\ new.type = "split" /\ new.subject = e /\ new.body = parts
    BY <1>1, <2>1, <2>2, IdentityRecords DEF new
  <2>6. SuccessorsStated(new) = parts
        /\ \A d \in EntityIds : StatesSuccessors(new, d) <=> d = e
    BY <2>5 DEF SuccessorsStated, StatesSuccessors
  <2>7. tombstones' = [d \in EntityIds |-> IF StatesSuccessors(new, d)
                                           THEN SuccessorsStated(new)
                                           ELSE tombstones[d]]
    BY <2>3, <2>6
  <2>. QED
    BY <2>2, <2>4, <2>5, <2>6, <2>7, RecordingKeepsInvariant
<1>9. CASE UNCHANGED vars
  <2>1. log' = log /\ entities' = entities /\ tombstones' = tombstones
    BY <1>9 DEF vars
  <2>2. TypeOK' /\ LogInv'
    BY <1>1, <2>1 DEF TypeOK, LogInv, LooksBack, FlaggedIffSourceWithdrawn,
                      StaleIsReplaced, EntityIds, Assertion
  <2>3. TombstonesPointForward' /\ StatedIdsAreGiven'
    BY <1>1, <2>1 DEF IdInv, TombstonesPointForward, StatedIdsAreGiven,
                      EntityIds, SuccessorsStated
  <2>4. TombstonesFollowLog'
    BY <1>1, <2>1 DEF IdInv, TombstonesFollowLog, EntityIds,
                      StatesSuccessors, SuccessorsStated
  <2>5. IdsAreFresh'
    BY <1>1, <2>1 DEF IdInv, IdsAreFresh, SuccessorsStated
  <2>. QED
    BY <2>2, <2>3, <2>4, <2>5 DEF IInv, LogInv
<1>. QED
  BY <1>2, <1>4, <1>5, <1>6, <1>7, <1>8, <1>9 DEF Next

\* The inductive invariant holds of every behaviour.
THEOREM Invariance == Spec => []IInv
<1>. QED
  BY InvariantInit, InvariantStep, PTL DEF Spec

\* Flags and withdrawals agree, stale assertions are replaced (lines 88-109).
THEOREM MarksAreTruthful ==
    Spec => [](FlaggedIffSourceWithdrawn /\ StaleIsReplaced)
<1>1. IInv => FlaggedIffSourceWithdrawn /\ StaleIsReplaced
  BY DEF IInv
<1>. QED
  BY <1>1, Invariance, PTL

\* Ids point forward, are given once, and resolve as the log's last word on
\* them says (lines 145-175).
THEOREM IdentityFollowsLog ==
    Spec => [](TombstonesFollowLog /\ IdsAreNeverReassigned)
<1>1. IInv => TombstonesFollowLog /\ IdsAreNeverReassigned
  BY DEF IInv, IdsAreNeverReassigned
<1>. QED
  BY <1>1, Invariance, PTL

-----------------------------------------------------------------------------
(* History is kept.                                                        *)

LEMMA RecordingKeepsHistory ==
    ASSUME IInv, NEW new, NEW old, Recorded(new, old)
    PROVE  HistoryIsKept
BY RecordedFields DEF IInv, HistoryIsKept

LEMMA WithdrawalKeepsHistory ==
    ASSUME IInv, NEW target, Withdrawn(target)
    PROVE  HistoryIsKept
<1>1. Len(log') = Len(log) /\ Len(log) \in Nat
  BY WithdrawnFields DEF IInv
<1>2. \A i \in 1 .. Len(log) :
          /\ log[i].flagged => log'[i].flagged
          /\ log'[i].supersededAt >= log[i].supersededAt
          /\ log'[i].withdrawnAt >= log[i].withdrawnAt
  BY WithdrawnFields DEF IInv
<1>. QED
  BY <1>1, <1>2, WithdrawnFields DEF IInv, HistoryIsKept

LEMMA StepKeepsHistory == IInv /\ Next => HistoryIsKept
<1>. SUFFICES ASSUME IInv, Next
              PROVE  HistoryIsKept
  OBVIOUS
<1>1. /\ TypeOK /\ log \in Seq(Assertion) /\ Len(log) \in Nat
      /\ entities \in 0 .. MaxEntities /\ MaxEntities \in Nat
  BY StoreAssumption DEF IInv, TypeOK
<1>2. CASE NewEntity
  <2>1. \A i \in 1 .. Len(log) :
            log[i].supersededAt \in Nat /\ log[i].withdrawnAt \in Nat
    <3>1. \A i \in 1 .. Len(log) : log[i] \in Assertion
      BY <1>1
    <3>. QED
      BY <3>1 DEF Assertion
  <2>. QED
    BY <1>1, <1>2, <2>1 DEF NewEntity, HistoryIsKept
<1>3. CASE \E new \in Facts : AssertFact(new)
  <2>1. PICK new \in Facts : AssertFact(new)
    BY <1>3
  <2>2. Recorded(new, None)
    BY <1>1, <2>1, FactType, AppendRecords DEF AssertFact
  <2>. QED
    BY <2>2, RecordingKeepsHistory
<1>4. CASE \E old \in DOMAIN log, new \in Facts : Supersede(old, new)
  BY <1>1, <1>4, SupersedeRecords, RecordingKeepsHistory
<1>5. CASE \E target \in DOMAIN log : Withdraw(target)
  BY <1>1, <1>5, WithdrawMarks, WithdrawalKeepsHistory
<1>6. CASE \E a, b \in 1 .. entities, l \in UsedLabels :
              a # b /\ Merge(a, b, l)
  <2>1. PICK a \in 1 .. entities, b \in 1 .. entities, l \in UsedLabels :
           Merge(a, b, l)
    BY <1>6
  <2>. DEFINE ids == {a, b}
              merged == entities + 1
              new == NewAssertion("merge", merged, ids, l, {})
  <2>2. /\ merged \in EntityIds /\ ids \in SUBSET EntityIds
        /\ Len(log) < MaxLog /\ log' = Append(log, new)
    BY <1>1, <2>1 DEF Merge, EntityIds
  <2>. HIDE DEF new, ids, merged
  <2>3. Recorded(new, None)
    BY <1>1, <2>1, <2>2, IdentityRecords DEF new
  <2>. QED
    BY <2>3, RecordingKeepsHistory
<1>7. CASE \E e \in 1 .. entities, l \in UsedLabels : Split(e, l)
  <2>1. PICK e \in 1 .. entities, l \in UsedLabels : Split(e, l)
    BY <1>7
  <2>. DEFINE parts == {entities + 1, entities + 2}
              new == NewAssertion("split", e, parts, l, {})
  <2>2. /\ e \in EntityIds /\ parts \in SUBSET EntityIds
        /\ Len(log) < MaxLog /\ log' = Append(log, new)
    BY <1>1, <2>1 DEF Split, EntityIds
  <2>. HIDE DEF new, parts
  <2>3. Recorded(new, None)
    BY <1>1, <2>1, <2>2, IdentityRecords DEF new
  <2>. QED
    BY <2>3, RecordingKeepsHistory
<1>. QED
  BY <1>2, <1>3, <1>4, <1>5, <1>6, <1>7 DEF Next

\* "Append-only store ... Never updates in place" (line 62).
THEOREM HistoryTheorem == Spec => AppendOnly
<1>1. IInv /\ [Next]_vars => [HistoryIsKept]_vars
  BY StepKeepsHistory
<1>. QED
  BY <1>1, Invariance, PTL DEF Spec, AppendOnly

\* The log, the marks and the tombstones stay in their domains, whatever
\* callers record (the dataclass and the tables, lines 36-72).
THEOREM TypeCorrect == Spec => []TypeOK
<1>1. IInv => TypeOK
  BY DEF IInv
<1>. QED
  BY <1>1, Invariance, PTL

-----------------------------------------------------------------------------
(* Resolution: the recursion along the tombstones ends, and comes to the   *)
(* least set that is closed under them.                                    *)

ClosedIds(S) == \A d \in S : tombstones[d] \subseteq S

\* What _resolve_subjects gives for every id.
Descends(f) ==
    f = [d \in EntityIds |-> {d} \cup UNION {f[s] : s \in tombstones[d]}]

LEMMA ResolutionExists ==
    ASSUME TypeOK
    PROVE  \E f : Descends(f)
<1>. DEFINE Around(d) == {x \in EntityIds : \A S \in SUBSET EntityIds :
                              d \in S /\ ClosedIds(S) => x \in S}
            f == [d \in EntityIds |-> Around(d)]
<1>0. \A d \in EntityIds : tombstones[d] \in SUBSET EntityIds
  BY DEF TypeOK
<1>1. ASSUME NEW d \in EntityIds
      PROVE  Around(d) = {d} \cup UNION {Around(s) : s \in tombstones[d]}
  <2>. DEFINE U == {d} \cup UNION {Around(s) : s \in tombstones[d]}
  <2>1. U \subseteq Around(d)
    BY <1>0 DEF ClosedIds
  <2>2. U \in SUBSET EntityIds /\ d \in U
    OBVIOUS
  <2>3. ASSUME NEW y \in U, NEW t \in tombstones[y]
        PROVE  t \in U
    <3>0. t \in EntityIds
      BY <1>0, <2>2
    <3>1. CASE y = d
      <4>1. t \in Around(t)
        BY <3>0
      <4>. QED
        BY <3>1, <4>1
    <3>2. CASE y # d
      <4>1. PICK s \in tombstones[d] : y \in Around(s)
        BY <3>2
      <4>2. t \in Around(s)
        BY <3>0, <4>1 DEF ClosedIds
      <4>. QED
        BY <4>2
    <3>. QED
      BY <3>1, <3>2
  <2>4. Around(d) \subseteq U
    <3>1. ClosedIds(U)
      BY <2>3 DEF ClosedIds
    <3>. HIDE DEF U
    <3>. QED
      BY <2>2, <3>1
  <2>. QED
    BY <2>1, <2>4
<1>2. \A d \in EntityIds : f[d] = Around(d)
  OBVIOUS
<1>. HIDE DEF Around
<1>3. ASSUME NEW d \in EntityIds
      PROVE  f[d] = {d} \cup UNION {f[s] : s \in tombstones[d]}
  <2>1. {f[s] : s \in tombstones[d]} = {Around(s) : s \in tombstones[d]}
    BY <1>0, <1>2
  <2>. QED
    BY <1>1, <1>2, <2>1
<1>4. f = [d \in EntityIds |-> f[d]]
  OBVIOUS
<1>. HIDE DEF f
<1>. QED
  BY <1>3, <1>4 DEF Descends

\* Tombstones point forward, so of the ids for which it were not so there
\* would be a last one.
LEMMA ResolutionIs ==
    ASSUME TypeOK, TombstonesPointForward, NEW f, Descends(f),
           NEW d \in EntityIds
    PROVE  /\ f[d] \in SUBSET EntityIds /\ d \in f[d]
           /\ ClosedIds(f[d])
           /\ \A S \in SUBSET EntityIds :
                  d \in S /\ ClosedIds(S) => f[d] \subseteq S
<1>. DEFINE Good(e) == /\ f[e] \in SUBSET EntityIds /\ e \in f[e]
                       /\ ClosedIds(f[e])
                       /\ \A S \in SUBSET EntityIds :
                              e \in S /\ ClosedIds(S) => f[e] \subseteq S
            bad == {e \in EntityIds : ~Good(e)}
<1>0. \A e \in EntityIds : f[e] = {e} \cup UNION {f[s] : s \in tombstones[e]}
  BY DEF Descends
<1>. SUFFICES ASSUME bad # {} PROVE FALSE
  OBVIOUS
<1>1. PICK m \in bad : \A e \in bad : e <= m
  <2>1. MaxEntities \in Nat /\ bad \in SUBSET (0 .. MaxEntities)
    BY StoreAssumption DEF EntityIds
  <2>. HIDE DEF bad
  <2>. QED
    BY <2>1, Marking!GreatestElement
<1>2. \A s \in tombstones[m] : s \in EntityIds /\ Good(s)
  <2>. SUFFICES ASSUME NEW s \in tombstones[m]
                PROVE  s \in EntityIds /\ s \notin bad
    OBVIOUS
  <2>1. s \in EntityIds /\ m \in EntityIds
    BY DEF TypeOK
  <2>2. m < s /\ m \in Nat /\ s \in Nat
    BY <2>1 DEF TombstonesPointForward, EntityIds
  <2>. HIDE DEF bad
  <2>. QED
    BY <1>1, <2>1, <2>2
<1>. DEFINE from == UNION {f[s] : s \in tombstones[m]}
<1>3. f[m] = {m} \cup from /\ m \in EntityIds
  BY <1>0
<1>4. \A s \in tombstones[m] : /\ f[s] \in SUBSET EntityIds /\ s \in f[s]
                               /\ ClosedIds(f[s])
                               /\ f[s] \subseteq from
  BY <1>2
<1>5. f[m] \in SUBSET EntityIds /\ m \in f[m]
  BY <1>3, <1>4
<1>6. ClosedIds(f[m])
  <2>. SUFFICES ASSUME NEW y \in f[m], NEW t \in tombstones[y]
                PROVE  t \in f[m]
    BY DEF ClosedIds
  <2>1. CASE y = m
    BY <1>3, <1>4, <2>1
  <2>2. CASE y # m
    <3>1. PICK s \in tombstones[m] : y \in f[s]
      BY <1>3, <2>2
    <3>2. t \in f[s]
      BY <1>4, <3>1 DEF ClosedIds
    <3>. QED
      BY <1>3, <1>4, <3>2
  <2>. QED
    BY <2>1, <2>2
<1>7. ASSUME NEW S \in SUBSET EntityIds, m \in S, ClosedIds(S)
      PROVE  f[m] \subseteq S
  <2>1. tombstones[m] \subseteq S
    BY <1>7 DEF ClosedIds
  <2>2. \A s \in tombstones[m] : f[s] \subseteq S
    BY <1>2, <1>7, <2>1
  <2>. QED
    BY <1>3, <1>7, <2>2
<1>8. Good(m)
  BY <1>5, <1>6, <1>7
<1>. QED
  BY <1>8

LEMMA ResolveIs ==
    ASSUME TypeOK, TombstonesPointForward, NEW e \in EntityIds
    PROVE  /\ Resolve(e) \in SUBSET EntityIds /\ e \in Resolve(e)
           /\ ClosedIds(Resolve(e))
           /\ \A S \in SUBSET EntityIds :
                  e \in S /\ ClosedIds(S) => Resolve(e) \subseteq S
<1>. DEFINE f == CHOOSE f : Descends(f)
<1>1. Descends(f)
  BY ResolutionExists
<1>2. Resolve(e) = f[e]
  BY DEF Resolve, Descends
<1>. HIDE DEF f
<1>. QED
  BY <1>1, <1>2, ResolutionIs

\* "an entity id expands through any splits it has undergone" (line 146):
\* however merges and splits are chained, resolution ends and finds all that
\* the id has become, and nothing else.
THEOREM ResolutionIsClosure == Spec => []ResolveIsClosure
<1>1. ASSUME TypeOK, TombstonesPointForward
      PROVE  ResolveIsClosure
  BY <1>1, ResolveIs DEF ResolveIsClosure, ClosedIds
<1>2. IInv => ResolveIsClosure
  BY <1>1 DEF IInv
<1>. QED
  BY <1>2, Invariance, PTL

-----------------------------------------------------------------------------
(* The mark of a profile: a fold of Combine over the labels, in the order  *)
(* of the log, comes to the least upper bound of them all.                 *)

\* The order of the log visits each place once.
LEMMA InLogOrderIs ==
    ASSUME NEW places \in SUBSET Nat, IsFiniteSet(places)
    PROVE  /\ Cardinality(places) \in Nat
           /\ DOMAIN InLogOrder(places) = 1 .. Cardinality(places)
           /\ \A k \in 1 .. Cardinality(places) :
                  InLogOrder(places)[k] \in places
           /\ \A x \in places : \E k \in 1 .. Cardinality(places) :
                  InLogOrder(places)[k] = x
<1>. DEFINE n == Cardinality(places)
            below(x) == {y \in places : y < x}
            rank == [x \in places |-> Cardinality(below(x))]
<1>1. n \in Nat
  BY FS_CardinalityType
<1>2. ASSUME NEW x \in places
      PROVE  /\ IsFiniteSet(below(x))
             /\ rank[x] \in 0 .. n - 1
  <2>1. below(x) \in SUBSET (places \ {x})
    OBVIOUS
  <2>2. IsFiniteSet(places \ {x}) /\ Cardinality(places \ {x}) = n - 1
    BY <1>1, FS_RemoveElement
  <2>. HIDE DEF below
  <2>3. IsFiniteSet(below(x)) /\ Cardinality(below(x)) <= n - 1
    BY <2>1, <2>2, FS_Subset
  <2>4. Cardinality(below(x)) \in Nat
    BY <2>3, FS_CardinalityType
  <2>. HIDE DEF n
  <2>. QED
    BY <1>1, <2>3, <2>4
<1>3. ASSUME NEW x \in places, NEW y \in places, x < y
      PROVE  rank[x] < rank[y]
  <2>1. x \notin below(x) /\ below(x) \cup {x} \in SUBSET below(y)
    <3>1. \A u \in places : u \in Nat
      OBVIOUS
    <3>2. \A u \in below(x) : u < y
      BY <1>3, <3>1
    <3>3. x \notin below(x)
      BY <3>1
    <3>. QED
      BY <1>3, <3>2, <3>3
  <2>. HIDE DEF below
  <2>2. Cardinality(below(x) \cup {x}) = Cardinality(below(x)) + 1
    BY <1>2, <2>1, FS_AddElement
  <2>3. Cardinality(below(x) \cup {x}) <= Cardinality(below(y))
    BY <1>2, <2>1, FS_Subset
  <2>4. rank[x] \in Nat /\ rank[y] \in Nat
    BY <1>2
  <2>. HIDE DEF n
  <2>. QED
    BY <2>2, <2>3, <2>4
<1>. HIDE DEF n, below, rank
<1>4. rank \in Injection(places, 0 .. n - 1)
  <2>1. rank \in [places -> 0 .. n - 1]
    <3>1. rank = [x \in places |-> rank[x]]
      BY DEF rank
    <3>. QED
      BY <1>2, <3>1
  <2>2. ASSUME NEW x \in places, NEW y \in places, rank[x] = rank[y]
        PROVE  x = y
    <3>1. rank[x] \in Nat /\ rank[y] \in Nat
      BY <1>2
    <3>2. ~(x < y) /\ ~(y < x)
      BY <1>3, <2>2, <3>1
    <3>. QED
      BY <3>2
  <2>. QED
    BY <2>1, <2>2 DEF Injection, IsInjective
<1>5. rank \in Surjection(places, 0 .. n - 1)
  <2>1. IsFiniteSet(0 .. n - 1) /\ Cardinality(0 .. n - 1) = n
    BY <1>1, FS_Interval
  <2>. QED
    BY <1>4, <2>1, FS_Injection DEF n
<1>6. ASSUME NEW k \in 1 .. n
      PROVE  /\ InLogOrder(places)[k] \in places
             /\ rank[InLogOrder(places)[k]] = k - 1
  <2>. DEFINE it == CHOOSE x \in places :
                        Cardinality({y \in places : y < x}) = k - 1
  <2>1. \E x \in places : rank[x] = k - 1
    BY <1>1, <1>5 DEF Surjection
  <2>2. \E x \in places : Cardinality({y \in places : y < x}) = k - 1
    BY <2>1 DEF rank, below
  <2>3. it \in places /\ Cardinality({y \in places : y < it}) = k - 1
    BY <2>2
  <2>4. InLogOrder(places)[k] = it
    BY DEF InLogOrder, n
  <2>. HIDE DEF it
  <2>. QED
    BY <2>3, <2>4 DEF rank, below
<1>7. ASSUME NEW x \in places
      PROVE  \E k \in 1 .. n : InLogOrder(places)[k] = x
  <2>1. rank[x] \in 0 .. n - 1
    BY <1>2
  <2>2. rank[x] + 1 \in 1 .. n /\ (rank[x] + 1) - 1 = rank[x]
    BY <1>1, <2>1
  <2>3. rank[InLogOrder(places)[rank[x] + 1]] = rank[x]
    BY <1>6, <2>2
  <2>. QED
    BY <1>4, <1>6, <2>2, <2>3 DEF Injection, IsInjective
<1>8. DOMAIN InLogOrder(places) = 1 .. n
  BY DEF InLogOrder, n
<1>. QED
  BY <1>1, <1>6, <1>7, <1>8 DEF n

\* The fold of high_water.
Combined(base, rest) ==
    FoldLeft(LAMBDA acc, l : IF acc = Raises THEN Raises ELSE Combine(acc, l),
             base, rest)

LEMMA CombinedIs ==
    ASSUME NEW base, NEW rest, NEW n \in Nat, DOMAIN rest = 1 .. n, NEW way,
           Marking!Follows(None, way, base, rest, n)
    PROVE  Combined(base, rest) = way[n]
<1>. DEFINE it == CHOOSE it : it = [s \in SUBSET (DOMAIN rest) |->
                      IF s = {} THEN base
                      ELSE CombineStep(None, it[s \ {Max(s)}], rest[Max(s)])]
<1>0. \A s : Marking!Max(s) = Max(s)
  BY DEF Marking!Max, Max
<1>1. \E i : Marking!Folds(None, i, base, rest, n)
  BY Marking!FoldsExists
<1>2. it = [s \in SUBSET (DOMAIN rest) |->
                IF s = {} THEN base
                ELSE CombineStep(None, it[s \ {Max(s)}], rest[Max(s)])]
  BY <1>0, <1>1 DEF Marking!Folds
<1>3. Marking!Folds(None, it, base, rest, n)
  <2>. HIDE DEF it
  <2>. QED
    BY <1>0, <1>2 DEF Marking!Folds
<1>4. Combined(base, rest) = it[DOMAIN rest]
  BY DEF Combined, CombineStep, FoldLeft, MapThenFoldSet
<1>. HIDE DEF it
<1>5. it[1 .. n] = way[n]
  BY <1>3, Marking!FoldIsRecursion
<1>. QED
  BY <1>4, <1>5

LEMMA HighWaterIs ==
    ASSUME NEW labels \in Seq(Label), labels # << >>, NEW way,
           Marking!Follows(None, way, labels[1], Tail(labels), Len(labels) - 1)
    PROVE  HighWater(labels) = way[Len(labels) - 1]
<1>. DEFINE rest == Tail(labels)
            n == Len(labels) - 1
<1>1. n \in Nat /\ DOMAIN rest = 1 .. n /\ Head(labels) = labels[1]
  OBVIOUS
<1>2. HighWater(labels) = Combined(labels[1], rest)
  BY <1>1 DEF HighWater, Combined
<1>. QED
  BY <1>1, <1>2, CombinedIs

\* Combine is the least upper bound of two labels of one vocabulary.
LEMMA CombineIs ==
    ASSUME NEW a \in Label, NEW b \in Label
    PROVE  IF /\ a.policy = b.policy
              /\ Known(a.classification) /\ Known(b.classification)
           THEN LET c == Combine(a, b)
                IN  /\ c \in Label /\ Known(c.classification)
                    /\ c.policy = a.policy
                    /\ Dominates(c, a) /\ Dominates(c, b)
                    /\ \A m \in Label :
                           Dominates(m, a) /\ Dominates(m, b) => Dominates(m, c)
           ELSE Combine(a, b) = Raises
<1>1. CASE ~ /\ a.policy = b.policy
             /\ Known(a.classification) /\ Known(b.classification)
  BY <1>1 DEF Combine
<1>2. CASE /\ a.policy = b.policy
           /\ Known(a.classification) /\ Known(b.classification)
  <2>. DEFINE class == MaxClassification(a.classification, b.classification)
              caveats == a.caveats \cup b.caveats
              c == [policy |-> a.policy, classification |-> class,
                    caveats |-> caveats]
  <2>1. Combine(a, b) = c
    BY <1>2 DEF Combine
  <2>2. /\ c.policy = a.policy /\ c.classification = class
        /\ c.caveats = caveats
    OBVIOUS
  <2>3. /\ a.policy \in PolicyIds
        /\ a.classification \in Classifications
        /\ b.classification \in Classifications
        /\ caveats \in SUBSET Caveats
    BY DEF Label
  <2>4. Rank[a.classification] \in Nat /\ Rank[b.classification] \in Nat
    BY <1>2, RankAssumption DEF Known
  <2>5. /\ class \in {a.classification, b.classification}
        /\ Rank[class] >= Rank[a.classification]
        /\ Rank[class] >= Rank[b.classification]
    BY <2>4 DEF MaxClassification
  <2>6. c \in Label
    <3>1. class \in Classifications
      BY <2>3, <2>5
    <3>. HIDE DEF class, caveats
    <3>. QED
      BY <2>3, <3>1 DEF Label
  <2>7. Known(class)
    BY <1>2, <2>5
  <2>. HIDE DEF c, class
  <2>8. Dominates(c, a) /\ Dominates(c, b)
    BY <2>2, <2>5 DEF Dominates
  <2>9. \A m \in Label :
            Dominates(m, a) /\ Dominates(m, b) => Dominates(m, c)
    BY <2>2, <2>5 DEF Dominates
  <2>. QED
    BY <1>2, <2>1, <2>2, <2>6, <2>7, <2>8, <2>9
<1>. QED
  BY <1>1, <1>2

\* The first k labels are of one vocabulary, and that one known.
Combinable(labels, k) ==
    \A i, j \in 1 .. k :
        labels[i].policy = labels[j].policy /\ Known(labels[i].classification)

\* Their least upper bound.
IsMarkOf(mark, labels, k) ==
    /\ mark \in Label /\ Known(mark.classification)
    /\ mark.policy = labels[1].policy
    /\ \A i \in 1 .. k : Dominates(mark, labels[i])
    /\ \A m \in Label : /\ Known(m.classification)
                        /\ \A i \in 1 .. k : Dominates(m, labels[i])
                        => Dominates(m, mark)

LEMMA MarkStep ==
    ASSUME NEW labels \in Seq(Label), NEW k \in Nat, k # 0, k < Len(labels),
           NEW mark,
           IF Combinable(labels, k) THEN IsMarkOf(mark, labels, k)
           ELSE mark = Raises \/ (k = 1 /\ mark = labels[1])
    PROVE  LET next == CombineStep(None, mark, labels[k + 1])
           IN  IF Combinable(labels, k + 1) THEN IsMarkOf(next, labels, k + 1)
               ELSE next = Raises
<1>. DEFINE b == labels[k + 1]
            next == CombineStep(None, mark, b)
<1>0. /\ b \in Label /\ 1 .. k + 1 = (1 .. k) \cup {k + 1} /\ 1 \in 1 .. k
      /\ \A i \in 1 .. k + 1 : labels[i] \in Label
      /\ labels[k + 1] = b
  OBVIOUS
<1>. HIDE DEF b
<1>1. CASE ~Combinable(labels, k)
  <2>1. ~Combinable(labels, k + 1)
    BY <1>0, <1>1 DEF Combinable
  <2>2. CASE mark = Raises
    BY <2>1, <2>2 DEF CombineStep
  <2>3. CASE k = 1 /\ mark = labels[1]
    <3>1. ~Known(labels[1].classification)
      BY <1>1, <2>3 DEF Combinable
    <3>2. next = Combine(labels[1], b)
      BY <1>0, <2>3, RaisesAssumption DEF CombineStep
    <3>. QED
      BY <2>1, <3>1, <3>2, <1>0 DEF Combine
  <2>. QED
    BY <1>1, <2>2, <2>3
<1>2. CASE Combinable(labels, k)
  <2>1. IsMarkOf(mark, labels, k)
    BY <1>2
  <2>2. mark \in Label /\ next = Combine(mark, b)
    BY <2>1, RaisesAssumption DEF IsMarkOf, CombineStep
  <2>3. Combinable(labels, k + 1) <=>
            /\ mark.policy = b.policy
            /\ Known(mark.classification) /\ Known(b.classification)
    BY <1>0, <1>2, <2>1 DEF Combinable, IsMarkOf
  <2>4. CASE ~Combinable(labels, k + 1)
    BY <1>0, <2>2, <2>3, <2>4, CombineIs
  <2>5. CASE Combinable(labels, k + 1)
    <3>1. /\ next \in Label /\ Known(next.classification)
          /\ next.policy = mark.policy
          /\ Dominates(next, mark) /\ Dominates(next, b)
          /\ \A m \in Label :
                 Dominates(m, mark) /\ Dominates(m, b) => Dominates(m, next)
      BY <1>0, <2>2, <2>3, <2>5, CombineIs
    <3>. HIDE DEF next
    <3>2. ASSUME NEW i \in 1 .. k
          PROVE  Dominates(next, labels[i])
      <4>1. Dominates(mark, labels[i]) /\ Known(labels[i].classification)
        BY <1>2, <2>1 DEF IsMarkOf, Combinable
      <4>2. /\ Rank[next.classification] \in Nat
            /\ Rank[mark.classification] \in Nat
            /\ Rank[labels[i].classification] \in Nat
        BY <2>1, <3>1, <4>1, RankAssumption DEF Known, IsMarkOf
      <4>. QED
        BY <3>1, <4>1, <4>2 DEF Dominates
    <3>3. \A i \in 1 .. k + 1 : Dominates(next, labels[i])
      BY <1>0, <3>1, <3>2
    <3>4. ASSUME NEW m \in Label, Known(m.classification),
                 \A i \in 1 .. k + 1 : Dominates(m, labels[i])
          PROVE  Dominates(m, next)
      <4>1. Dominates(m, mark)
        BY <1>0, <2>1, <3>4 DEF IsMarkOf
      <4>2. Dominates(m, b)
        BY <1>0, <3>4
      <4>. QED
        BY <3>1, <4>1, <4>2
    <3>5. next.policy = labels[1].policy
      BY <2>1, <3>1 DEF IsMarkOf
    <3>6. IsMarkOf(next, labels, k + 1)
      BY <3>1, <3>3, <3>4, <3>5 DEF IsMarkOf
    <3>. QED
      BY <2>5, <3>6 DEF next, b
  <2>. QED
    BY <2>4, <2>5 DEF b
<1>. QED
  BY <1>1, <1>2

\* high_water of more than one label.
LEMMA HighWaterIsLeast ==
    ASSUME NEW labels \in Seq(Label), Len(labels) > 1
    PROVE  IF Combinable(labels, Len(labels))
           THEN IsMarkOf(HighWater(labels), labels, Len(labels))
           ELSE HighWater(labels) = Raises
<1>. DEFINE n == Len(labels) - 1
            Holds(mark, k) ==
                IF Combinable(labels, k) THEN IsMarkOf(mark, labels, k)
                ELSE mark = Raises \/ (k = 1 /\ mark = labels[1])
<1>0. /\ n \in Nat /\ n # 0 /\ n + 1 = Len(labels)
      /\ \A k \in 1 .. n : Tail(labels)[k] = labels[k + 1]
      /\ labels[1] \in Label /\ labels # << >>
  <2>0. Len(labels) \in Nat
    OBVIOUS
  <2>1. labels # << >>
    OBVIOUS
  <2>2. n \in Nat /\ n # 0 /\ n + 1 = Len(labels) /\ 1 \in 1 .. Len(labels)
    <3>. DEFINE len == Len(labels)
    <3>1. len \in Nat /\ len > 1
      BY <2>0
    <3>. HIDE DEF len
    <3>2. len - 1 \in Nat /\ len - 1 # 0 /\ (len - 1) + 1 = len /\ 1 \in 1 .. len
      BY <3>1
    <3>. QED
      BY <3>2 DEF len
  <2>3. \A k \in 1 .. n : Tail(labels)[k] = labels[k + 1]
    BY <2>1
  <2>4. labels[1] \in Label
    BY <2>2
  <2>. QED
    BY <2>1, <2>2, <2>3, <2>4
<1>1. PICK way : Marking!Recurses(None, way, labels[1], Tail(labels), n)
  BY <1>0, Marking!RecursionExists
<1>2. Marking!Follows(None, way, labels[1], Tail(labels), n)
  BY <1>0, <1>1, Marking!RecursesFollows
<1>3. HighWater(labels) = way[n]
  BY <1>0, <1>2, HighWaterIs
<1>. HIDE DEF n
<1>4. way[0] = labels[1]
  BY <1>2 DEF Marking!Follows
<1>5. ASSUME NEW k \in 0 .. n - 1
      PROVE  way[k + 1] = CombineStep(None, way[k], labels[k + 2])
  <2>1. k + 1 \in 1 .. n /\ (k + 1) - 1 = k /\ (k + 1) + 1 = k + 2
    BY <1>0
  <2>. QED
    BY <1>0, <1>2, <2>1 DEF Marking!Follows
<1>. DEFINE S == {k \in Nat : k <= n => Holds(way[k], k + 1)}
<1>6. 0 \in S
  <2>1. 1 .. 1 = {1}
    OBVIOUS
  <2>2. Known(labels[1].classification) => IsMarkOf(labels[1], labels, 1)
    <3>. SUFFICES ASSUME Known(labels[1].classification)
                  PROVE  IsMarkOf(labels[1], labels, 1)
      OBVIOUS
    <3>1. Rank[labels[1].classification] \in Nat
      BY RankAssumption DEF Known
    <3>2. Dominates(labels[1], labels[1])
      BY <3>1 DEF Dominates
    <3>. QED
      BY <1>0, <2>1, <3>2 DEF IsMarkOf
  <2>3. Holds(way[0], 1)
    BY <1>4, <2>1, <2>2 DEF Combinable
  <2>. QED
    BY <2>3
<1>7. ASSUME NEW k \in S
      PROVE  k + 1 \in S
  <2>. SUFFICES ASSUME k + 1 <= n
                PROVE  Holds(way[k + 1], k + 2)
    OBVIOUS
  <2>1. /\ k \in Nat /\ k + 1 \in Nat /\ k + 1 # 0 /\ k \in 0 .. n - 1
        /\ k + 1 < Len(labels) /\ (k + 1) + 1 = k + 2
    BY <1>0
  <2>2. Holds(way[k], k + 1)
    BY <1>0, <2>1
  <2>. HIDE DEF S
  <2>. DEFINE next == CombineStep(None, way[k], labels[(k + 1) + 1])
  <2>3. IF Combinable(labels, (k + 1) + 1)
        THEN IsMarkOf(next, labels, (k + 1) + 1)
        ELSE next = Raises
    BY <2>1, <2>2, MarkStep
  <2>4. way[k + 1] = next
    BY <1>5, <2>1
  <2>. HIDE DEF next
  <2>5. IF Combinable(labels, k + 2) THEN IsMarkOf(next, labels, k + 2)
        ELSE next = Raises
    BY <2>1, <2>3
  <2>. QED
    BY <2>4, <2>5
<1>. HIDE DEF S
<1>8. S = Nat
  <2>1. S \in SUBSET Nat
    BY DEF S
  <2>. QED
    BY <1>6, <1>7, <2>1, Marking!NaturalInduction
<1>9. Holds(way[n], n + 1)
  <2>1. n \in S
    BY <1>0, <1>8
  <2>. HIDE DEF Holds
  <2>. QED
    BY <1>0, <2>1 DEF S
<1>. QED
  BY <1>0, <1>3, <1>9

LEMMA HighWaterOfOne ==
    ASSUME NEW labels \in Seq(Label), Len(labels) = 1
    PROVE  HighWater(labels) = labels[1]
<1>1. 0 \in Nat /\ Len(labels) - 1 = 0 /\ labels # << >>
  OBVIOUS
<1>2. PICK way : Marking!Recurses(None, way, labels[1], Tail(labels), 0)
  BY <1>1, Marking!RecursionExists
<1>3. Marking!Follows(None, way, labels[1], Tail(labels), 0)
  BY <1>1, <1>2, Marking!RecursesFollows
<1>4. HighWater(labels) = way[0]
  BY <1>1, <1>3, HighWaterIs
<1>. QED
  BY <1>3, <1>4 DEF Marking!Follows

\* What a profile is built from is what is live for it: resolution is closed.
LEMMA SourcesAreLive ==
    ASSUME TypeOK, TombstonesPointForward, NEW e \in EntityIds
    PROVE  UNION {LiveFor(d) : d \in Resolve(e)} = LiveFor(e)
<1>1. /\ Resolve(e) \in SUBSET EntityIds /\ e \in Resolve(e)
      /\ ClosedIds(Resolve(e))
  BY ResolveIs
<1>2. ASSUME NEW d \in Resolve(e)
      PROVE  LiveFor(d) \subseteq LiveFor(e)
  <2>1. Resolve(d) \subseteq Resolve(e)
    BY <1>1, ResolveIs
  <2>. QED
    BY <2>1 DEF LiveFor
<1>. QED
  BY <1>1, <1>2

\* "a profile is never under-classified relative to its sources" (line 118),
\* nor over-classified, however many assertions it is built from, in whatever
\* order, and through whatever merges and splits.
THEOREM ProfileMarks == Spec => []ProfileMarkIsLeast
<1>1. ASSUME IInv, NEW e \in 1 .. entities, LiveFor(e) # {}
      PROVE  LET sources == UNION {LiveFor(d) : d \in Resolve(e)}
                 labels == {log[i].label : i \in sources}
                 combine == /\ \A l, m \in labels : l.policy = m.policy
                            /\ \/ Cardinality(sources) = 1
                               \/ \A l \in labels : Known(l.classification)
                 above == {m \in Label : /\ Known(m.classification)
                                         /\ \A l \in labels : Dominates(m, l)}
             IN  IF ~combine THEN ProfileLabel(e) = Raises
                 ELSE IF Cardinality(sources) = 1 THEN ProfileLabel(e) \in labels
                 ELSE /\ ProfileLabel(e) \in above
                      /\ \A m \in above : Dominates(m, ProfileLabel(e))
  <2>. DEFINE live == LiveFor(e)
              n == Cardinality(live)
              order == InLogOrder(live)
              marks == [k \in DOMAIN order |-> log[order[k]].label]
              labels == {log[i].label : i \in live}
  <2>1. TypeOK /\ TombstonesPointForward /\ e \in EntityIds
    BY <1>1, StoreAssumption DEF IInv, TypeOK, EntityIds
  <2>2. UNION {LiveFor(d) : d \in Resolve(e)} = live
    BY <2>1, SourcesAreLive
  <2>3. /\ live \in SUBSET Nat /\ IsFiniteSet(live) /\ live \subseteq DOMAIN log
        /\ Len(log) \in Nat /\ DOMAIN log = 1 .. Len(log)
    <3>1. Len(log) \in Nat /\ DOMAIN log = 1 .. Len(log)
      BY <2>1 DEF TypeOK
    <3>2. live \in SUBSET (1 .. Len(log))
      BY <3>1 DEF LiveFor
    <3>3. IsFiniteSet(1 .. Len(log))
      BY <3>1, FS_Interval
    <3>. HIDE DEF live
    <3>4. IsFiniteSet(live)
      BY <3>2, <3>3, FS_Subset
    <3>. QED
      BY <3>1, <3>2, <3>4
  <2>4. \A i \in live : log[i].label \in Label
    <3>1. \A i \in DOMAIN log : log[i] \in Assertion
      BY <2>1 DEF TypeOK
    <3>. QED
      BY <2>3, <3>1, StoreAssumption DEF Assertion
  <2>5. ProfileLabel(e) = HighWater(marks)
    BY DEF ProfileLabel
  <2>6. live # {}
    BY <1>1
  <2>. HIDE DEF live
  <2>7. /\ n \in Nat /\ DOMAIN order = 1 .. n
        /\ \A k \in 1 .. n : order[k] \in live
        /\ \A i \in live : \E k \in 1 .. n : order[k] = i
    BY <2>3, InLogOrderIs
  <2>. HIDE DEF n, order
  <2>8. /\ marks \in Seq(Label) /\ Len(marks) = n
        /\ \A k \in 1 .. n : marks[k] = log[order[k]].label
    <3>1. marks = [k \in 1 .. n |-> log[order[k]].label]
      BY <2>7
    <3>2. \A k \in 1 .. n : log[order[k]].label \in Label
      BY <2>4, <2>7
    <3>. QED
      BY <2>7, <3>1, <3>2
  <2>9. n >= 1
    BY <2>6, <2>7
  <2>. HIDE DEF marks
  <2>10. labels = {marks[k] : k \in 1 .. n}
    BY <2>7, <2>8
  <2>. HIDE DEF labels
  <2>11. CASE n = 1
    <3>1. HighWater(marks) = marks[1]
      BY <2>8, <2>11, HighWaterOfOne
    <3>2. labels = {marks[1]}
      BY <2>10, <2>11
    <3>3. \A l, m \in labels : l.policy = m.policy
      BY <3>2
    <3>. QED
      BY <2>2, <2>5, <2>11, <3>1, <3>2, <3>3 DEF n, labels
  <2>12. CASE n # 1
    <3>. DEFINE above == {m \in Label : /\ Known(m.classification)
                                        /\ \A l \in labels : Dominates(m, l)}
                combine == /\ \A l, m \in labels : l.policy = m.policy
                           /\ \A l \in labels : Known(l.classification)
    <3>1. n > 1
      BY <2>7, <2>9, <2>12
    <3>2. IF Combinable(marks, n) THEN IsMarkOf(HighWater(marks), marks, n)
          ELSE HighWater(marks) = Raises
      BY <2>8, <3>1, HighWaterIsLeast
    <3>3. Combinable(marks, n) <=> combine
      BY <2>10 DEF Combinable
    <3>4. \A m : (\A l \in labels : Dominates(m, l)) <=>
                     \A k \in 1 .. n : Dominates(m, marks[k])
      BY <2>10
    <3>5. IsMarkOf(HighWater(marks), marks, n) =>
              /\ HighWater(marks) \in above
              /\ \A m \in above : Dominates(m, HighWater(marks))
      BY <3>4 DEF IsMarkOf
    <3>6. IF ~combine THEN HighWater(marks) = Raises
          ELSE /\ HighWater(marks) \in above
               /\ \A m \in above : Dominates(m, HighWater(marks))
      BY <3>2, <3>3, <3>5
    <3>. QED
      BY <2>2, <2>5, <2>12, <3>6 DEF n, labels
  <2>. QED
    BY <2>11, <2>12
<1>2. IInv => ProfileMarkIsLeast
  BY <1>1 DEF ProfileMarkIsLeast
<1>. QED
  BY <1>2, Invariance, PTL
=============================================================================
