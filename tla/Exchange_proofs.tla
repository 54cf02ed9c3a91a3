--------------------------- MODULE Exchange_proofs ---------------------------
(***************************************************************************)
(* What the gate admits, what the packages of a source hold and prove, and *)
(* what callbacks release, for any calls, rows, mappings, policies,        *)
(* requests, rules and bounds.                                             *)
(***************************************************************************)
EXTENDS Exchange, Provenance_proofs

-----------------------------------------------------------------------------
(* The gate alone: replays are refused within the window.                  *)

LEMMA IngressInitInv == IngressInit => IngressInv
BY DEF IngressInit, IngressInv, MemoryCovers, AdmittedOncePerWindow

\* A sequence that is not empty has a last element.
LEMMA LastOf ==
    ASSUME NEW S, NEW s \in Seq(S) \ {<< >>}
    PROVE  Len(s) \in Nat \ {0} /\ s[Len(s)] \in S
BY EmptySeq, ElementOfSeq, LenProperties

\* What pruning and remembering make of the memory.
LEMMA RememberStep ==
    ASSUME IngressInv, NEW p, Remember(p)
    PROVE  /\ seen' \in [DOMAIN seen' -> 0 .. now]
           /\ DOMAIN seen' = Kept \cup {p.root}
           /\ seen'[p.root] = now
           /\ \A r \in Kept \ {p.root} : seen'[r] = seen[r]
BY DEF IngressInv, Remember, Kept

\* A root whose admission is remembered stays so; a root that may be
\* remembered afresh was admitted a window ago or more.
LEMMA AdmitStep ==
    ASSUME IngressInv, NEW p, Admit(p)
    PROVE  IngressInv'
<1>. DEFINE times == Append(Admissions(p.root), now)
<1>1. /\ now \in Nat /\ now' = now
      /\ admissions \in [DOMAIN admissions -> Seq(0 .. now) \ {<< >>}]
      /\ admissions' = [r \in DOMAIN admissions \cup {p.root} |->
                          IF r = p.root THEN times ELSE admissions[r]]
  BY DEF Admit, IngressInv
<1>2. /\ Admissions(p.root) \in Seq(0 .. now)
      /\ p.root \in DOMAIN admissions =>
             /\ Admissions(p.root) = admissions[p.root]
             /\ Len(admissions[p.root]) \in Nat \ {0}
      /\ p.root \notin DOMAIN admissions => Len(Admissions(p.root)) = 0
  <2>1. CASE p.root \in DOMAIN admissions
    BY <2>1, <1>1, LastOf DEF Admissions
  <2>2. CASE p.root \notin DOMAIN admissions
    BY <2>2 DEF Admissions
  <2>. QED
    BY <2>1, <2>2
<1>3. /\ times \in Seq(0 .. now) \ {<< >>}
      /\ Len(times) = Len(Admissions(p.root)) + 1
      /\ times[Len(times)] = now
      /\ \A i \in 1 .. Len(Admissions(p.root)) :
             times[i] = Admissions(p.root)[i]
  BY <1>1, <1>2, AppendProperties
<1>4. /\ Remember(p)
      /\ seen' \in [DOMAIN seen' -> 0 .. now]
      /\ DOMAIN seen' = Kept \cup {p.root}
      /\ seen'[p.root] = now
      /\ \A r \in Kept \ {p.root} : seen'[r] = seen[r]
  BY RememberStep DEF Admit
<1>5. p.root \in DOMAIN admissions =>
        now - admissions[p.root][Len(admissions[p.root])] >= Window
  <2>1. SUFFICES ASSUME p.root \in DOMAIN admissions,
                        ~(now - admissions[p.root][Len(admissions[p.root])]
                              >= Window)
                 PROVE  FALSE
    OBVIOUS
  <2>2. /\ admissions[p.root][Len(admissions[p.root])] \in 0 .. now
        /\ now - admissions[p.root][Len(admissions[p.root])] < Window
    BY <2>1, <1>1, LastOf, WindowAssumption
  <2>3. /\ p.root \in DOMAIN seen
        /\ seen[p.root] >= admissions[p.root][Len(admissions[p.root])]
        /\ seen[p.root] \in 0 .. now
    BY <2>1, <2>2 DEF IngressInv, MemoryCovers
  <2>4. p.root \in Kept
    BY <2>2, <2>3, <1>1, WindowAssumption DEF Kept
  <2>. QED
    BY <2>4, <1>4 DEF Remember
<1>6. admissions' \in [DOMAIN admissions' -> Seq(0 .. now') \ {<< >>}]
  BY <1>1, <1>3
<1>7. MemoryCovers'
  <2>. SUFFICES ASSUME NEW r \in DOMAIN admissions',
                       now - admissions'[r][Len(admissions'[r])] < Window
                PROVE  /\ r \in DOMAIN seen'
                       /\ seen'[r] >= admissions'[r][Len(admissions'[r])]
    BY <1>1 DEF MemoryCovers
  <2>1. CASE r = p.root
    BY <2>1, <1>1, <1>3, <1>4
  <2>2. CASE r # p.root
    <3>1. r \in DOMAIN admissions /\ admissions'[r] = admissions[r]
      BY <2>2, <1>1
    <3>2. r \in DOMAIN seen /\ seen[r] >= admissions[r][Len(admissions[r])]
      BY <3>1 DEF IngressInv, MemoryCovers
    <3>3. seen[r] \in 0 .. now /\ admissions[r][Len(admissions[r])] \in 0 .. now
      BY <3>1, <3>2, <1>1, LastOf DEF IngressInv
    <3>4. r \in Kept
      BY <3>1, <3>2, <3>3, <1>1, WindowAssumption DEF Kept
    <3>. QED
      BY <3>1, <3>2, <3>4, <2>2, <1>4
  <2>. QED
    BY <2>1, <2>2
<1>8. AdmittedOncePerWindow'
  <2>. SUFFICES ASSUME NEW r \in DOMAIN admissions',
                       NEW i \in 1 .. Len(admissions'[r]) - 1
                PROVE  admissions'[r][i + 1] - admissions'[r][i] >= Window
    BY DEF AdmittedOncePerWindow
  <2>1. CASE r = p.root
    <3>1. admissions'[r] = times
      BY <2>1, <1>1
    <3>2. i \in 1 .. Len(Admissions(p.root)) /\ Len(Admissions(p.root)) \in Nat
      BY <3>1, <1>2, <1>3, LenProperties
    <3>3. /\ p.root \in DOMAIN admissions
          /\ Admissions(p.root) = admissions[p.root]
      BY <3>2, <1>2
    <3>4. CASE i = Len(Admissions(p.root))
      BY <3>1, <3>2, <3>3, <3>4, <1>3, <1>5
    <3>5. CASE i # Len(Admissions(p.root))
      <4>1. /\ i \in 1 .. Len(admissions[p.root]) - 1
            /\ i + 1 \in 1 .. Len(Admissions(p.root))
        BY <3>2, <3>3, <3>5
      <4>2. admissions[p.root][i + 1] - admissions[p.root][i] >= Window
        BY <4>1, <3>3 DEF IngressInv, AdmittedOncePerWindow
      <4>. QED
        BY <4>1, <4>2, <3>1, <3>2, <3>3, <1>3
    <3>. QED
      BY <3>4, <3>5
  <2>2. CASE r # p.root
    BY <2>2, <1>1 DEF IngressInv, AdmittedOncePerWindow
  <2>. QED
    BY <2>1, <2>2
<1>. QED
  BY <1>1, <1>4, <1>6, <1>7, <1>8 DEF IngressInv

\* Pruning and remembering without an admission, or with the root refused.
LEMMA PruneStep ==
    ASSUME IngressInv, UNCHANGED <<now, admissions>>,
           seen' \in [DOMAIN seen' -> 0 .. now],
           \A r \in Kept : r \in DOMAIN seen' /\ seen'[r] >= seen[r]
    PROVE  IngressInv'
<1>1. MemoryCovers'
  <2>. SUFFICES ASSUME NEW r \in DOMAIN admissions,
                       now - admissions[r][Len(admissions[r])] < Window
                PROVE  /\ r \in DOMAIN seen'
                       /\ seen'[r] >= admissions[r][Len(admissions[r])]
    BY DEF MemoryCovers
  <2>1. r \in DOMAIN seen /\ seen[r] >= admissions[r][Len(admissions[r])]
    BY DEF IngressInv, MemoryCovers
  <2>2. /\ seen[r] \in 0 .. now /\ now \in Nat
        /\ admissions[r][Len(admissions[r])] \in 0 .. now
    BY <2>1, LastOf DEF IngressInv
  <2>3. r \in Kept
    BY <2>1, <2>2, WindowAssumption DEF Kept
  <2>4. seen'[r] \in 0 .. now
    BY <2>3
  <2>. QED
    BY <2>1, <2>2, <2>3, <2>4
<1>. QED
  BY <1>1 DEF IngressInv, AdmittedOncePerWindow

LEMMA TickStep ==
    ASSUME IngressInv, Tick
    PROVE  IngressInv'
<1>1. /\ now \in Nat /\ now' = now + 1
      /\ 0 .. now \subseteq 0 .. now'
  BY DEF IngressInv, Tick
<1>2. MemoryCovers'
  <2>. SUFFICES ASSUME NEW r \in DOMAIN admissions,
                       now' - admissions[r][Len(admissions[r])] < Window
                PROVE  /\ r \in DOMAIN seen
                       /\ seen[r] >= admissions[r][Len(admissions[r])]
    BY DEF MemoryCovers, Tick
  <2>1. admissions[r][Len(admissions[r])] \in 0 .. now
    BY LastOf DEF IngressInv
  <2>. QED
    BY <2>1, <1>1, WindowAssumption DEF IngressInv, MemoryCovers
<1>3. \A s \in Seq(0 .. now) \ {<< >>} : s \in Seq(0 .. now') \ {<< >>}
  <2>1. Seq(0 .. now) \subseteq Seq(0 .. now')
    BY <1>1
  <2>. QED
    BY <2>1
<1>. QED
  BY <1>1, <1>2, <1>3 DEF IngressInv, Tick, AdmittedOncePerWindow

LEMMA IngressStep ==
    ASSUME IngressInv, [IngressNext]_ingressVars
    PROVE  IngressInv'
<1>1. ASSUME NEW p \in Packages, Verify(p)
      PROVE  IngressInv'
  <2>1. CASE Refuse(p)
    BY <2>1 DEF Refuse, ingressVars, IngressInv, MemoryCovers,
                AdmittedOncePerWindow
  <2>2. CASE RefuseReplay(p)
    <3>1. /\ seen' \in [DOMAIN seen' -> 0 .. now]
          /\ \A r \in Kept : r \in DOMAIN seen' /\ seen'[r] >= seen[r]
      BY <2>2 DEF RefuseReplay, Kept, IngressInv
    <3>. QED
      BY <2>2, <3>1, PruneStep DEF RefuseReplay
  <2>3. CASE Admit(p)
    BY <2>3, AdmitStep
  <2>4. CASE RefuseHash(p)
    <3>1. /\ seen' \in [DOMAIN seen' -> 0 .. now]
          /\ DOMAIN seen' = Kept \cup {p.root}
          /\ \A r \in Kept \ {p.root} : seen'[r] = seen[r]
          /\ p.root \notin Kept
      BY <2>4, RememberStep DEF RefuseHash, Remember
    <3>2. \A r \in Kept : seen[r] \in 0 .. now
      BY DEF IngressInv, Kept
    <3>3. \A r \in Kept : r \in DOMAIN seen' /\ seen'[r] >= seen[r]
      BY <3>1, <3>2 DEF IngressInv
    <3>. QED
      BY <2>4, <3>1, <3>3, PruneStep DEF RefuseHash
  <2>. QED
    BY <1>1, <2>1, <2>2, <2>3, <2>4 DEF Verify
<1>2. CASE Tick
  BY <1>2, TickStep
<1>3. CASE Reopen
  BY <1>3 DEF Reopen, IngressInv, MemoryCovers, AdmittedOncePerWindow
<1>4. CASE UNCHANGED ingressVars
  BY <1>4 DEF ingressVars, IngressInv, MemoryCovers, AdmittedOncePerWindow
<1>. QED
  BY <1>1, <1>2, <1>3, <1>4 DEF IngressNext

\* The memory covers every admission within the window (ingress.py, check 9).
THEOREM IngressInvariance == IngressSpec => []IngressInv
<1>1. IngressInv /\ [IngressNext]_ingressVars => IngressInv'
  BY IngressStep
<1>. QED
  BY IngressInitInv, <1>1, PTL DEF IngressSpec

\* No root is admitted twice within the replay window by one process, for
\* every window, whatever is presented and when (ingress.py, check 9).
THEOREM NoReplayWithinWindow == IngressSpec => []AdmittedOncePerWindow
<1>1. IngressInv => AdmittedOncePerWindow
  BY DEF IngressInv
<1>. QED
  BY IngressInvariance, <1>1, PTL

-----------------------------------------------------------------------------
(* The gate in the exchange.                                               *)

LEMMA BuildsInBuilds == Spec => [](builds \subseteq Builds)
<1>1. Init => builds \subseteq Builds
  BY DEF Init
<1>2. builds \subseteq Builds /\ [Next]_vars => (builds \subseteq Builds)'
  BY DEF Next, vars, BuildPackage, Deliver, Callback, RevokeRequest,
         RestartSource, RestartPlatform, TimePasses
<1>. QED
  BY <1>1, <1>2, PTL DEF Spec

\* A step of the exchange is a step of the gate or leaves it alone.
LEMMA NextIsIngressNext ==
    ASSUME builds \subseteq Builds, [Next]_vars
    PROVE  [IngressNext]_ingressVars
<1>1. ASSUME NEW p \in Sent \cup Foreign, Deliver(p)
      PROVE  IngressNext
  <2>1. p \in Packages
    BY PackagesAssumption DEF Sent
  <2>. QED
    BY <1>1, <2>1 DEF Deliver, IngressNext
<1>2. CASE RestartPlatform
  BY <1>2 DEF RestartPlatform, IngressNext
<1>3. CASE TimePasses
  BY <1>3 DEF TimePasses, IngressNext
<1>4. ASSUME ~\E p \in Sent \cup Foreign : Deliver(p),
             ~RestartPlatform, ~TimePasses
      PROVE  UNCHANGED ingressVars
  BY <1>4 DEF Next, vars, BuildPackage, Callback, RevokeRequest,
              RestartSource
<1>. QED
  BY <1>1, <1>2, <1>3, <1>4

\* The gate of the exchange behaves as Ingress alone: nothing that the source
\* does reaches its memory (ingress.py, Ingress).
THEOREM ExchangeImplementsIngress == Spec => IngressSpec
<1>1. Init => IngressInit
  BY DEF Init
<1>. QED
  BY <1>1, NextIsIngressNext, BuildsInBuilds, PTL DEF Spec, IngressSpec

\* In the exchange no root is admitted twice within the window by one process
\* of the platform (ingress.py, check 9).
THEOREM ExchangeAdmitsOncePerWindow == Spec => []AdmittedOncePerWindow
BY ExchangeImplementsIngress, NoReplayWithinWindow, PTL

-----------------------------------------------------------------------------
\* The strengthening: what the log says was denied as revoked is revoked.
RevokedIsRemembered ==
    /\ log \in Seq([request : Requests, decision : Decisions])
    /\ \A i \in DOMAIN log :
           log[i].decision = "deny:revoked" =>
               <<log[i].request.field, log[i].request.requester>> \in revoked
    /\ RevocationHolds

\* A decision that keeps the revocations keeps the strengthening, if it denies
\* what is revoked and says so of nothing else.
LEMMA DecisionStep ==
    ASSUME RevokedIsRemembered, revoked' = revoked,
           NEW q \in Requests, NEW decision \in Decisions,
           Logged(q, decision),
           decision = "deny:revoked" <=> <<q.field, q.requester>> \in revoked
    PROVE  RevokedIsRemembered'
<1>. DEFINE entry == [request |-> q, decision |-> decision]
            Entries == [request : Requests, decision : Decisions]
<1>1. /\ log' = Append(log, entry) /\ log \in Seq(Entries)
      /\ entry \in Entries
      /\ entry.request = q /\ entry.decision = decision
  BY DEF Logged, RevokedIsRemembered
<1>. HIDE DEF entry, Entries
<1>2. /\ log' \in Seq(Entries)
      /\ DOMAIN log' = 1 .. Len(log) + 1 /\ DOMAIN log = 1 .. Len(log)
      /\ \A i \in DOMAIN log : log'[i] = log[i]
      /\ log'[Len(log) + 1] = entry
      /\ Len(log) \in Nat
  BY <1>1, AppendProperties, LenProperties
<1>3. \A i \in DOMAIN log' :
        log'[i].decision = "deny:revoked" =>
            <<log'[i].request.field, log'[i].request.requester>> \in revoked'
  BY <1>1, <1>2 DEF RevokedIsRemembered
<1>4. RevocationHolds'
  <2>. SUFFICES ASSUME NEW i \in DOMAIN log', NEW j \in DOMAIN log', i < j,
                       log'[i].decision = "deny:revoked",
                       log'[i].request.field = log'[j].request.field,
                       log'[i].request.requester = log'[j].request.requester
                PROVE  log'[j].decision = "deny:revoked"
    BY DEF RevocationHolds
  <2>1. i \in DOMAIN log /\ log'[i] = log[i]
    BY <1>2
  <2>2. CASE j \in DOMAIN log
    BY <2>1, <2>2, <1>2 DEF RevokedIsRemembered, RevocationHolds
  <2>3. CASE j = Len(log) + 1
    BY <2>1, <2>3, <1>1, <1>2 DEF RevokedIsRemembered
  <2>. QED
    BY <2>2, <2>3, <1>2
<1>. QED
  BY <1>1, <1>2, <1>3, <1>4 DEF RevokedIsRemembered, Entries

LEMMA CallbackStep ==
    ASSUME RevokedIsRemembered, NEW q \in Requests, NEW root,
           Callback(q, root)
    PROVE  RevokedIsRemembered'
<1>1. CASE DenyRevoked(q)
  BY <1>1, DecisionStep DEF DenyRevoked, Decisions
<1>2. CASE DenyByRule(q)
  <2>1. PICK i \in Denying(q) : Logged(q, Rules[i].kind)
    BY <1>2 DEF DenyByRule
  <2>2. Rules[i].kind \in RuleKinds
    BY RulesAssumption DEF Denying
  <2>3. Rules[i].kind \in Decisions /\ Rules[i].kind # "deny:revoked"
    BY <2>2 DEF Decisions, RuleKinds
  <2>. QED
    BY <1>2, <2>1, <2>3, DecisionStep DEF DenyByRule
<1>3. CASE Release(q, root, bound)
  <2>1. PICK decision \in {"release", "release:proof-fail"} :
            Logged(q, decision)
    BY <1>3 DEF Release
  <2>. QED
    BY <1>3, <2>1, DecisionStep DEF Release, Decisions
<1>. QED
  BY <1>1, <1>2, <1>3 DEF Callback, Handle

LEMMA LogInvariance == Spec => []RevokedIsRemembered
<1>1. Init => RevokedIsRemembered
  BY DEF Init, SourceInit, RevokedIsRemembered, RevocationHolds
<1>2. RevokedIsRemembered /\ [Next]_vars => RevokedIsRemembered'
  <2>. SUFFICES ASSUME RevokedIsRemembered, [Next]_vars
                PROVE  RevokedIsRemembered'
    OBVIOUS
  <2>1. CASE \E q \in Requests, root \in DOMAIN admissions : Callback(q, root)
    BY <2>1, CallbackStep
  <2>2. CASE \E q \in Requests : RevokeRequest(q)
    BY <2>2 DEF RevokeRequest, Revoke, RevokedIsRemembered, RevocationHolds
  <2>3. CASE \E exported \in BOOLEAN : RestartSource(exported)
    BY <2>3 DEF RestartSource, Reload, RevokedIsRemembered, RevocationHolds
  <2>4. CASE UNCHANGED sourceVars
    BY <2>4 DEF sourceVars, RevokedIsRemembered, RevocationHolds
  <2>5. CASE UNCHANGED vars
    BY <2>4, <2>5 DEF vars
  <2>6. CASE \/ \E b \in Builds : BuildPackage(b)
             \/ \E p \in Sent \cup Foreign : Deliver(p)
             \/ RestartPlatform
             \/ TimePasses
    <3>1. UNCHANGED sourceVars
      BY <2>6 DEF BuildPackage, Deliver, RestartPlatform, TimePasses
    <3>. QED
      BY <3>1, <2>4
  <2>. QED
    BY <2>1, <2>2, <2>3, <2>5, <2>6 DEF Next
<1>. QED
  BY <1>1, <1>2, PTL DEF Spec

\* A requester who was once denied as revoked gets no release of that field
\* from the same handler, whatever the rules (disclosure.py, revoke, handle).
THEOREM RevocationIsFinal == Spec => []RevocationHolds
<1>1. RevokedIsRemembered => RevocationHolds
  BY DEF RevokedIsRemembered
<1>. QED
  BY LogInvariance, <1>1, PTL

-----------------------------------------------------------------------------
(* What build_package makes of an accepted call.                           *)

LeavesBy(b) == LeavesOf(Header(b.call.policy), ResolvedBy(b), Salts(b))
OrderBy(b) == CanonicalOrder(DOMAIN Mapped(b.call.row))
CountBy(b) == Cardinality(DOMAIN Mapped(b.call.row))

LEMMA BuildIs ==
    ASSUME NEW b \in Builds
    PROVE  /\ b.call \in Calls /\ b.salt \in 1 .. MaxLosses + 1
           /\ b = [call |-> b.call, salt |-> b.salt]
           /\ Accepts(b.call)
           /\ DOMAIN Mapped(b.call.row) \subseteq Fields
           /\ DOMAIN ResolvedBy(b) = DOMAIN Mapped(b.call.row)
           /\ PackageOf[b] =
                  Bind("record", Header(b.call.policy),
                       RecordLabel(b.call.class), ResolvedBy(b), Salts(b),
                       SourceKey)
           /\ BindingOf[b].leaves = LeavesBy(b)
           /\ BindingOf[b].order = OrderBy(b)
           /\ BindingOf[b].label = LabelOf(b.call.row)
<1>1. /\ b.call \in Calls /\ b.salt \in 1 .. MaxLosses + 1
      /\ b = [call |-> b.call, salt |-> b.salt]
      /\ Accepts(b.call)
  BY DEF Builds
<1>2. DOMAIN Mapped(b.call.row) \subseteq Fields
  <2>1. Problems(SourceExpectation, Mapped(b.call.row)) = {}
    BY <1>1 DEF Accepts
  <2>2. DOMAIN Mapped(b.call.row) \subseteq
            DOMAIN SourceExpectation.fields \cup Extensions
    BY <2>1 DEF Problems
  <2>. QED
    BY <2>2, ShapeAssumption, ExtensionsAssumption
<1>3. DOMAIN ResolvedBy(b) = DOMAIN Mapped(b.call.row)
  BY DEF ResolvedBy, ApplyPolicy
<1>4. PackageOf[b] =
          Bind("record", Header(b.call.policy), RecordLabel(b.call.class),
               ResolvedBy(b), Salts(b), SourceKey)
  BY DEF PackageOf
<1>5. /\ BindingOf[b].leaves = LeavesBy(b)
      /\ BindingOf[b].order = OrderBy(b)
      /\ BindingOf[b].label = LabelOf(b.call.row)
  BY DEF BindingOf, LeavesBy, OrderBy
<1>. QED
  BY <1>1, <1>2, <1>3, <1>4, <1>5

\* What the policy makes of one field.
LEMMA ResolvedIs ==
    ASSUME NEW b \in Builds, NEW f \in DOMAIN Mapped(b.call.row)
    PROVE  /\ ResolvedBy(b)[f] =
                  Resolution(f, Mapped(b.call.row)[f],
                             DispositionFor(b.call.policy, f),
                             LabelOf(b.call.row)[f])
           /\ LabelOf(b.call.row)[f] =
                  [policy |-> SourceExpectation.marking, caveats |-> {},
                   classification |-> LastFor(SourceMapping, f).classification]
           /\ Salts(b)[f] = b.salt
<1>1. f \in Fields
  BY BuildIs
<1>. QED
  BY <1>1 DEF ResolvedBy, ApplyPolicy, LabelOf, LabelsFor, Salts

\* The package as a record of its parts.
LEMMA PackageRecord ==
    ASSUME NEW b \in Builds
    PROVE  /\ CountBy(b) \in Nat /\ DOMAIN OrderBy(b) = 1 .. CountBy(b)
           /\ \A i \in 1 .. CountBy(b) :
                  OrderBy(b)[i] \in DOMAIN Mapped(b.call.row)
           /\ PackageOf[b] =
                  [record |-> "record", root |-> Root(LeavesBy(b)),
                   signature |-> [key |-> SourceKey,
                                  root |-> Root(LeavesBy(b))],
                   header |-> Header(b.call.policy),
                   recordLabel |-> RecordLabel(b.call.class),
                   fields |-> [i \in 1 .. CountBy(b) |->
                                  DisclosedField(OrderBy(b)[i],
                                                 ResolvedBy(b)[OrderBy(b)[i]],
                                                 Proof(LeavesBy(b), i),
                                                 Salts(b)[OrderBy(b)[i]])],
                   count |-> Len(LeavesBy(b))]
<1>1. DOMAIN Mapped(b.call.row) \in SUBSET Fields
  BY BuildIs
<1>2. /\ CountBy(b) \in Nat /\ DOMAIN OrderBy(b) = 1 .. CountBy(b)
      /\ \A i \in 1 .. CountBy(b) : OrderBy(b)[i] \in DOMAIN Mapped(b.call.row)
  BY <1>1, CanonicalOrderIs DEF CountBy, OrderBy
<1>3. PackageOf[b] =
          [record |-> "record", root |-> Root(LeavesBy(b)),
           signature |-> [key |-> SourceKey, root |-> Root(LeavesBy(b))],
           header |-> Header(b.call.policy),
           recordLabel |-> RecordLabel(b.call.class),
           fields |-> [i \in 1 .. CountBy(b) |->
                          DisclosedField(OrderBy(b)[i],
                                         ResolvedBy(b)[OrderBy(b)[i]],
                                         Proof(LeavesBy(b), i),
                                         Salts(b)[OrderBy(b)[i]])],
           count |-> Len(LeavesBy(b))]
  <2>1. OrderBy(b) = CanonicalOrder(DOMAIN ResolvedBy(b))
    BY BuildIs DEF OrderBy
  <2>2. PackageOf[b] =
            Bind("record", Header(b.call.policy), RecordLabel(b.call.class),
                 ResolvedBy(b), Salts(b), SourceKey)
    BY BuildIs
  <2>3. Bind("record", Header(b.call.policy), RecordLabel(b.call.class),
             ResolvedBy(b), Salts(b), SourceKey) =
          [record |-> "record", root |-> Root(LeavesBy(b)),
           signature |-> [key |-> SourceKey, root |-> Root(LeavesBy(b))],
           header |-> Header(b.call.policy),
           recordLabel |-> RecordLabel(b.call.class),
           fields |-> [i \in DOMAIN OrderBy(b) |->
                          DisclosedField(OrderBy(b)[i],
                                         ResolvedBy(b)[OrderBy(b)[i]],
                                         Proof(LeavesBy(b), i),
                                         Salts(b)[OrderBy(b)[i]])],
           count |-> Len(LeavesBy(b))]
    BY <2>1 DEF Bind, LeavesBy
  <2>. QED
    BY <1>2, <2>2, <2>3
<1>. QED
  BY <1>2, <1>3

LEMMA PackageIs ==
    ASSUME NEW b \in Builds
    PROVE  /\ CountBy(b) \in Nat
           /\ PackageOf[b].root = Root(LeavesBy(b))
           /\ PackageOf[b].header = Header(b.call.policy)
           /\ PackageOf[b].signature =
                  [key |-> SourceKey, root |-> PackageOf[b].root]
           /\ PackageOf[b].recordLabel = RecordLabel(b.call.class)
           /\ DOMAIN PackageOf[b].fields = 1 .. CountBy(b)
           /\ \A i \in 1 .. CountBy(b) :
                  /\ OrderBy(b)[i] \in DOMAIN Mapped(b.call.row)
                  /\ PackageOf[b].fields[i] =
                         DisclosedField(OrderBy(b)[i],
                                        ResolvedBy(b)[OrderBy(b)[i]],
                                        Proof(LeavesBy(b), i), b.salt)
<1>1. /\ CountBy(b) \in Nat
      /\ \A i \in 1 .. CountBy(b) :
             OrderBy(b)[i] \in DOMAIN Mapped(b.call.row)
  BY PackageRecord
<1>2. \A i \in 1 .. CountBy(b) : Salts(b)[OrderBy(b)[i]] = b.salt
  BY <1>1, ResolvedIs
<1>. DEFINE p == PackageOf[b]
            fs == [i \in 1 .. CountBy(b) |->
                      DisclosedField(OrderBy(b)[i],
                                     ResolvedBy(b)[OrderBy(b)[i]],
                                     Proof(LeavesBy(b), i),
                                     Salts(b)[OrderBy(b)[i]])]
<1>3. p = [record |-> "record", root |-> Root(LeavesBy(b)),
           signature |-> [key |-> SourceKey, root |-> Root(LeavesBy(b))],
           header |-> Header(b.call.policy),
           recordLabel |-> RecordLabel(b.call.class), fields |-> fs,
           count |-> Len(LeavesBy(b))]
  BY PackageRecord
<1>4. /\ DOMAIN fs = 1 .. CountBy(b)
      /\ \A i \in 1 .. CountBy(b) :
             fs[i] = DisclosedField(OrderBy(b)[i],
                                    ResolvedBy(b)[OrderBy(b)[i]],
                                    Proof(LeavesBy(b), i), b.salt)
  BY <1>2
<1>. HIDE DEF p, fs
<1>5. /\ p.root = Root(LeavesBy(b)) /\ p.header = Header(b.call.policy)
      /\ p.signature = [key |-> SourceKey, root |-> Root(LeavesBy(b))]
      /\ p.recordLabel = RecordLabel(b.call.class) /\ p.fields = fs
  BY <1>3
<1>6. /\ p.signature = [key |-> SourceKey, root |-> p.root]
      /\ DOMAIN p.fields = 1 .. CountBy(b)
      /\ \A i \in 1 .. CountBy(b) :
             p.fields[i] = DisclosedField(OrderBy(b)[i],
                                          ResolvedBy(b)[OrderBy(b)[i]],
                                          Proof(LeavesBy(b), i), b.salt)
  BY <1>4, <1>5
<1>. QED
  BY <1>1, <1>5, <1>6 DEF p

-----------------------------------------------------------------------------
(* The packages, over every pair of calls.                                 *)

\* The proof of each bound field verifies for its leaf and for no other leaf
\* of the tree, for any number of fields (provenance.py, MerkleTree).
THEOREM ProofsTellLeaves == Spec => []ProvesOnlyItself
<1>1. ASSUME NEW b \in Builds,
             NEW i \in DOMAIN PackageOf[b].fields,
             NEW j \in DOMAIN BindingOf[b].leaves
      PROVE  Verifies(BindingOf[b].leaves[j], PackageOf[b].fields[i].proof,
                      PackageOf[b].root) <=> j = i + 1
  <2>1. /\ DOMAIN ResolvedBy(b) \subseteq Fields
        /\ CountBy(b) = Cardinality(DOMAIN ResolvedBy(b))
        /\ BindingOf[b].leaves = LeavesBy(b)
    <3>1. DOMAIN ResolvedBy(b) = DOMAIN Mapped(b.call.row)
      BY BuildIs
    <3>2. DOMAIN Mapped(b.call.row) \subseteq Fields
      BY BuildIs
    <3>3. BindingOf[b].leaves = LeavesBy(b)
      BY BuildIs
    <3>. QED
      BY <3>1, <3>2, <3>3 DEF CountBy
  <2>2. /\ i \in 1 .. CountBy(b)
        /\ PackageOf[b].root = Root(LeavesBy(b))
        /\ PackageOf[b].fields[i].proof = Proof(LeavesBy(b), i)
    <3>1. i \in 1 .. CountBy(b) /\ PackageOf[b].root = Root(LeavesBy(b))
      BY PackageIs
    <3>2. PackageOf[b].fields[i] =
              DisclosedField(OrderBy(b)[i], ResolvedBy(b)[OrderBy(b)[i]],
                             Proof(LeavesBy(b), i), b.salt)
      BY <3>1, PackageIs
    <3>. QED
      BY <3>1, <3>2 DEF DisclosedField
  <2>3. IsDistinctRow(LeavesBy(b), CountBy(b) + 1)
    BY <2>1, LeavesAre DEF LeavesBy
  <2>4. j \in 1 .. CountBy(b) + 1
    <3>1. DOMAIN LeavesBy(b) = 1 .. CountBy(b) + 1
      BY <2>3 DEF IsDistinctRow, IsRow
    <3>. QED
      BY <2>1, <3>1
  <2>5. Verifies(LeavesBy(b)[j], Proof(LeavesBy(b), i), Root(LeavesBy(b)))
            <=> j = i + 1
    BY <2>1, <2>2, <2>4, ProvesOneLeaf DEF LeavesBy
  <2>. QED
    BY <2>1, <2>2, <2>5
<1>2. ProvesOnlyItself
  BY <1>1 DEF ProvesOnlyItself, Misproved
<1>. QED
  BY <1>2, PTL

\* A field of a package, part by part.
LEMMA FieldIs ==
    ASSUME NEW b \in Builds, NEW i \in 1 .. CountBy(b)
    PROVE  LET f == OrderBy(b)[i]
               d == DispositionFor(b.call.policy, f)
               v == Mapped(b.call.row)[f]
               field == PackageOf[b].fields[i]
           IN  /\ f \in DOMAIN Mapped(b.call.row)
               /\ field = [name |-> f, disposition |-> d,
                           proof |-> Proof(LeavesBy(b), i),
                           label |-> LabelOf(b.call.row)[f],
                           value |-> IF d = "clear" THEN v ELSE None,
                           repr |-> IF d \in Protected THEN None ELSE Repr(v),
                           salt |-> IF d \in Protected THEN None ELSE b.salt,
                           digest |-> IF d = "hash-only" THEN Repr(v) ELSE None,
                           pointer |-> IF d = "pointer" THEN <<f, v>>
                                       ELSE None]
               /\ field.name = f /\ field.disposition = d
               /\ field.label = LabelOf(b.call.row)[f]
               /\ field.proof = Proof(LeavesBy(b), i)
               /\ field.repr = IF d \in Protected THEN None ELSE Repr(v)
               /\ field.salt = IF d \in Protected THEN None ELSE b.salt
               /\ LeavesBy(b)[i + 1] =
                      LeafHash(f, d, IF d \in Protected THEN None ELSE Repr(v),
                               LabelOf(b.call.row)[f], b.salt)
<1>. DEFINE f == OrderBy(b)[i]
            d == DispositionFor(b.call.policy, f)
            v == Mapped(b.call.row)[f]
            label == LabelOf(b.call.row)[f]
            field == PackageOf[b].fields[i]
<1>1. /\ f \in DOMAIN Mapped(b.call.row)
      /\ field = DisclosedField(f, ResolvedBy(b)[f], Proof(LeavesBy(b), i), b.salt)
  BY PackageIs
<1>2. ResolvedBy(b)[f] = Resolution(f, v, d, label) /\ Salts(b)[f] = b.salt
  BY <1>1, ResolvedIs
<1>3. LeavesBy(b)[i + 1] =
          LeafHash(f, ResolvedBy(b)[f].disposition, ResolvedBy(b)[f].repr,
                   ResolvedBy(b)[f].label, Salts(b)[f])
  <2>1. DOMAIN ResolvedBy(b) = DOMAIN Mapped(b.call.row)
    BY BuildIs
  <2>2. DOMAIN Mapped(b.call.row) \subseteq Fields
    BY BuildIs
  <2>3. LeavesBy(b)[i + 1] = FieldLeaf(ResolvedBy(b), Salts(b), i)
    BY <2>1, <2>2, LeavesAre DEF LeavesBy, CountBy
  <2>4. f = CanonicalOrder(DOMAIN ResolvedBy(b))[i]
    BY <2>1 DEF OrderBy
  <2>. QED
    BY <2>3, <2>4 DEF FieldLeaf
<1>. HIDE DEF f, d, v, label, field
<1>4. field = [name |-> f, disposition |-> d,
               proof |-> Proof(LeavesBy(b), i), label |-> label,
               value |-> IF d = "clear" THEN v ELSE None,
               repr |-> IF d \in Protected THEN None ELSE Repr(v),
               salt |-> IF d \in Protected THEN None ELSE b.salt,
               digest |-> IF d = "hash-only" THEN Repr(v) ELSE None,
               pointer |-> IF d = "pointer" THEN <<f, v>> ELSE None]
  BY <1>1, <1>2 DEF DisclosedField, Resolution
<1>5. LeavesBy(b)[i + 1] =
          LeafHash(f, d, IF d \in Protected THEN None ELSE Repr(v), label, b.salt)
  BY <1>2, <1>3 DEF Resolution
<1>6. /\ field.name = f /\ field.disposition = d /\ field.label = label
      /\ field.proof = Proof(LeavesBy(b), i)
      /\ field.repr = IF d \in Protected THEN None ELSE Repr(v)
      /\ field.salt = IF d \in Protected THEN None ELSE b.salt
  BY <1>4
<1>. QED
  BY <1>1, <1>4, <1>5, <1>6 DEF f, d, v, label, field

\* The proofs of a package hold at the gate.
LEMMA BuiltProofsHold ==
    ASSUME NEW b \in Builds
    PROVE  ProofsHold(PackageOf[b])
<1>. SUFFICES ASSUME NEW i \in DOMAIN PackageOf[b].fields,
                     PackageOf[b].fields[i].disposition \notin Protected
              PROVE  LET f == PackageOf[b].fields[i]
                     IN  /\ f.salt # None /\ f.repr # None
                         /\ Verifies(LeafHash(f.name, f.disposition, f.repr,
                                              f.label, f.salt),
                                     f.proof, PackageOf[b].root)
  BY DEF ProofsHold
<1>. DEFINE f == OrderBy(b)[i]
            d == DispositionFor(b.call.policy, f)
            v == Mapped(b.call.row)[f]
            label == LabelOf(b.call.row)[f]
            field == PackageOf[b].fields[i]
<1>1. i \in 1 .. CountBy(b)
  BY PackageIs
<1>2. /\ f \in DOMAIN Mapped(b.call.row)
      /\ field.disposition = d /\ field.name = f /\ field.label = label
      /\ field.proof = Proof(LeavesBy(b), i)
      /\ field.repr = IF d \in Protected THEN None ELSE Repr(v)
      /\ field.salt = IF d \in Protected THEN None ELSE b.salt
      /\ LeavesBy(b)[i + 1] =
             LeafHash(f, d, IF d \in Protected THEN None ELSE Repr(v), label,
                      b.salt)
  BY <1>1, FieldIs
<1>3. d \notin Protected
  BY <1>2
<1>4. b.salt # None /\ Repr(v) # None
  <2>1. b.salt \in 1 .. MaxLosses + 1
    BY BuildIs
  <2>. QED
    BY <1>2, <2>1, NoneAssumption
<1>5. Verifies(LeavesBy(b)[i + 1], Proof(LeavesBy(b), i), Root(LeavesBy(b)))
  <2>1. DOMAIN ResolvedBy(b) = DOMAIN Mapped(b.call.row)
    BY BuildIs
  <2>2. DOMAIN Mapped(b.call.row) \subseteq Fields
    BY BuildIs
  <2>3. CountBy(b) \in Nat
    BY PackageIs
  <2>4. i + 1 \in 1 .. CountBy(b) + 1
    BY <1>1, <2>3
  <2>. QED
    BY <1>1, <2>1, <2>2, <2>4, ProvesOneLeaf DEF LeavesBy, CountBy
<1>6. PackageOf[b].root = Root(LeavesBy(b))
  BY PackageIs
<1>7. /\ field.salt # None /\ field.repr # None
      /\ Verifies(LeafHash(field.name, field.disposition, field.repr,
                           field.label, field.salt),
                  field.proof, PackageOf[b].root)
  <2>. HIDE DEF f, d, v, label, field
  <2>. QED
    BY <1>2, <1>3, <1>4, <1>5, <1>6
<1>. QED
  BY <1>7

\* The gate refuses what the source builds only for its labels, whatever the
\* row, the policy and the number of fields (ingress.py, checks 1 to 8).
THEOREM RefusalsHaveCause == Spec => []RefusedOnlyForCause
<1>. DEFINE covers(b) == \A i \in DOMAIN PackageOf[b].fields :
                /\ Ranked(PackageOf[b], i)
                /\ Rank[PackageOf[b].fields[i].label.classification] <=
                       Rank[PackageOf[b].recordLabel.classification]
<1>1. ASSUME NEW b \in Builds
      PROVE  Refusal(PackageOf[b]) \in
                 IF covers(b) THEN {"none"} ELSE {"marking arithmetic", "raises"}
  <2>. DEFINE p == PackageOf[b]
  <2>1. /\ p.header = Header(b.call.policy)
        /\ p.signature = [key |-> SourceKey, root |-> p.root]
        /\ p.recordLabel = RecordLabel(b.call.class)
        /\ DOMAIN p.fields = 1 .. CountBy(b)
    BY PackageIs
  <2>2. ASSUME NEW i \in DOMAIN p.fields
        PROVE  /\ p.fields[i].label.policy = SourceExpectation.marking
               /\ p.fields[i].label.caveats = {}
    <3>. DEFINE f == OrderBy(b)[i]
    <3>1. i \in 1 .. CountBy(b)
      BY <2>1
    <3>2. /\ f \in DOMAIN Mapped(b.call.row)
          /\ p.fields[i].label = LabelOf(b.call.row)[f]
      BY <3>1, FieldIs
    <3>3. LabelOf(b.call.row)[f] =
              [policy |-> SourceExpectation.marking, caveats |-> {},
               classification |-> LastFor(SourceMapping, f).classification]
      BY <3>2, ResolvedIs
    <3>. QED
      BY <3>2, <3>3
  <2>3. ProofsHold(p)
    BY BuiltProofsHold
  <2>. HIDE DEF p
  <2>4. /\ p.header.source = SourceIdentity
        /\ p.header.measurement = SourceMeasurement
        /\ p.header.expectation = SourceExpectation.version
    BY <2>1 DEF Header
  <2>5. /\ SignatureHolds(p) /\ p.header.measurement \in Permitted
        /\ ExpectationKnown(p) /\ LabelsPresent(p)
    BY <2>1, <2>2, <2>4, TrustAssumption
       DEF SignatureHolds, ExpectationKnown, LabelsPresent
  <2>6. ASSUME NEW i \in DOMAIN p.fields, Ranked(p, i)
        PROVE  Dominated(p, i) <=>
                   Rank[p.fields[i].label.classification] <=
                       Rank[p.recordLabel.classification]
    <3>1. /\ Rank[p.fields[i].label.classification] \in Nat
          /\ Rank[p.recordLabel.classification] \in Nat
      BY <2>6, RankAssumption DEF Ranked, Known
    <3>2. p.fields[i].label.caveats = {}
      BY <2>2 DEF p
    <3>. QED
      BY <3>1, <3>2 DEF Dominated, Dominates
  <2>7. covers(b) <=> MarkingHolds(p)
    BY <2>6 DEF MarkingHolds, p
  <2>8. MarkingHolds(p) => ~MarkingRaises(p)
    BY DEF MarkingHolds, MarkingRaises
  <2>9. Refusal(p) \in IF MarkingHolds(p) THEN {"none"}
                       ELSE {"marking arithmetic", "raises"}
    BY <2>3, <2>5, <2>8 DEF Refusal
  <2>. QED
    BY <2>7, <2>9 DEF p
<1>2. RefusedOnlyForCause
  BY <1>1 DEF RefusedOnlyForCause, WronglyRefused
<1>. QED
  BY <1>2, PTL

\* Of two rows with the same fields, the labels are the same.
LEMMA SameLabels ==
    ASSUME NEW row, NEW other, DOMAIN Mapped(row) = DOMAIN Mapped(other)
    PROVE  LabelOf(row) = LabelOf(other)
BY DEF LabelOf, LabelsFor

\* What the policy protects does not reach a leaf, and so not the root nor a
\* proof.
LEMMA ProtectedNotInLeaves ==
    ASSUME NEW b \in Builds, NEW c \in Builds,
           c.salt = b.salt, c.call.policy = b.call.policy,
           DOMAIN Mapped(b.call.row) = DOMAIN Mapped(c.call.row),
           \A f \in DOMAIN Mapped(b.call.row) :
               DispositionFor(b.call.policy, f) \notin Protected =>
                   Mapped(b.call.row)[f] = Mapped(c.call.row)[f]
    PROVE  /\ CountBy(b) = CountBy(c) /\ OrderBy(b) = OrderBy(c)
           /\ LeavesBy(b) = LeavesBy(c)
<1>1. CountBy(b) = CountBy(c) /\ OrderBy(b) = OrderBy(c)
  BY DEF CountBy, OrderBy
<1>2. LabelOf(b.call.row) = LabelOf(c.call.row)
  BY SameLabels
<1>3. ASSUME NEW i \in 1 .. CountBy(b)
      PROVE  LeavesBy(b)[i + 1] = LeavesBy(c)[i + 1]
  <2>. DEFINE f == OrderBy(b)[i]
              d == DispositionFor(b.call.policy, f)
              v == Mapped(b.call.row)[f]
              w == Mapped(c.call.row)[f]
              label == LabelOf(b.call.row)[f]
  <2>1. /\ f \in DOMAIN Mapped(b.call.row)
        /\ LeavesBy(b)[i + 1] =
               LeafHash(f, d, IF d \in Protected THEN None ELSE Repr(v), label,
                        b.salt)
    BY FieldIs
  <2>2. LeavesBy(c)[i + 1] =
            LeafHash(f, d, IF d \in Protected THEN None ELSE Repr(w), label,
                     b.salt)
    <3>1. i \in 1 .. CountBy(c)
      BY <1>1
    <3>2. LeavesBy(c)[i + 1] =
              LeafHash(OrderBy(c)[i],
                       DispositionFor(c.call.policy, OrderBy(c)[i]),
                       IF DispositionFor(c.call.policy, OrderBy(c)[i])
                              \in Protected
                       THEN None ELSE Repr(Mapped(c.call.row)[OrderBy(c)[i]]),
                       LabelOf(c.call.row)[OrderBy(c)[i]], c.salt)
      BY <3>1, FieldIs
    <3>. QED
      BY <1>1, <1>2, <3>2
  <2>3. d \notin Protected => v = w
    BY <2>1
  <2>. HIDE DEF f, d, v, w, label
  <2>. QED
    BY <2>1, <2>2, <2>3
<1>4. /\ CountBy(b) \in Nat
      /\ IsRow(LeavesBy(b), CountBy(b) + 1) /\ IsRow(LeavesBy(c), CountBy(b) + 1)
      /\ LeavesBy(b)[1] = LeavesBy(c)[1]
  <2>1. ASSUME NEW e \in Builds
        PROVE  /\ IsRow(LeavesBy(e), CountBy(e) + 1)
               /\ LeavesBy(e)[1] = HeaderHash(Header(e.call.policy))
    <3>1. DOMAIN ResolvedBy(e) = DOMAIN Mapped(e.call.row)
      BY BuildIs
    <3>2. DOMAIN Mapped(e.call.row) \subseteq Fields
      BY BuildIs
    <3>. QED
      BY <3>1, <3>2, LeavesAre DEF LeavesBy, CountBy, IsDistinctRow
  <2>2. CountBy(b) \in Nat
    BY PackageIs
  <2>3. IsRow(LeavesBy(b), CountBy(b) + 1) /\ IsRow(LeavesBy(c), CountBy(c) + 1)
    BY <2>1
  <2>4. LeavesBy(b)[1] = LeavesBy(c)[1]
    BY <2>1
  <2>. QED
    BY <1>1, <2>2, <2>3, <2>4
<1>5. \A j \in 1 .. CountBy(b) + 1 : LeavesBy(b)[j] = LeavesBy(c)[j]
  <2>. SUFFICES ASSUME NEW j \in 1 .. CountBy(b) + 1
                PROVE  LeavesBy(b)[j] = LeavesBy(c)[j]
    OBVIOUS
  <2>1. CASE j = 1
    BY <1>4, <2>1
  <2>2. CASE j # 1
    <3>1. j - 1 \in 1 .. CountBy(b) /\ (j - 1) + 1 = j
      BY <1>4, <2>2
    <3>. QED
      BY <1>3, <3>1
  <2>. QED
    BY <2>1, <2>2
<1>6. LeavesBy(b) = LeavesBy(c)
  BY <1>4, <1>5 DEF IsRow
<1>. QED
  BY <1>1, <1>6

\* Rows that differ only in what the policy protects give packages that
\* differ only in pointers, whatever the mapping and the policy
\* (provenance.py, _leaf_hash and bind; policy.py, apply_policy).
THEOREM ProtectedStays == Spec => []ProtectedDoesNotTravel
<1>1. ASSUME NEW b \in Builds, NEW c \in Builds,
             c = [b EXCEPT !.call.row = c.call.row],
             DOMAIN Mapped(b.call.row) = DOMAIN Mapped(c.call.row),
             \A f \in DOMAIN Mapped(b.call.row) :
                 DispositionFor(b.call.policy, f) \notin Protected =>
                     Mapped(b.call.row)[f] = Mapped(c.call.row)[f]
      PROVE  PackageOf[c] =
                 [PackageOf[b] EXCEPT !.fields =
                     [i \in DOMAIN @ |->
                         [@[i] EXCEPT !.pointer =
                                          PackageOf[c].fields[i].pointer]]]
  <2>1. /\ c.salt = b.salt /\ c.call.policy = b.call.policy
        /\ c.call.class = b.call.class
    <3>1. /\ b = [call |-> b.call, salt |-> b.salt]
          /\ b.call \in Calls
      BY BuildIs
    <3>2. DOMAIN b.call = {"row", "policy", "class"}
      BY <3>1, CallsAssumption
    <3>3. DOMAIN b = {"call", "salt"}
      BY <3>1
    <3>. QED
      BY <1>1, <3>2, <3>3
  <2>2. /\ CountBy(b) = CountBy(c) /\ OrderBy(b) = OrderBy(c)
        /\ LeavesBy(b) = LeavesBy(c)
    BY <1>1, <2>1, ProtectedNotInLeaves
  <2>3. LabelOf(b.call.row) = LabelOf(c.call.row)
    BY <1>1, SameLabels
  <2>4. ASSUME NEW i \in 1 .. CountBy(b)
        PROVE  PackageOf[c].fields[i] =
                   [PackageOf[b].fields[i] EXCEPT
                       !.pointer = PackageOf[c].fields[i].pointer]
    <3>. DEFINE f == OrderBy(b)[i]
                d == DispositionFor(b.call.policy, f)
                v == Mapped(b.call.row)[f]
                w == Mapped(c.call.row)[f]
                label == LabelOf(b.call.row)[f]
                one == PackageOf[b].fields[i]
                two == PackageOf[c].fields[i]
                steps == Proof(LeavesBy(b), i)
    <3>1. /\ f \in DOMAIN Mapped(b.call.row)
          /\ one = [name |-> f, disposition |-> d, proof |-> steps,
                    label |-> label,
                    value |-> IF d = "clear" THEN v ELSE None,
                    repr |-> IF d \in Protected THEN None ELSE Repr(v),
                    salt |-> IF d \in Protected THEN None ELSE b.salt,
                    digest |-> IF d = "hash-only" THEN Repr(v) ELSE None,
                    pointer |-> IF d = "pointer" THEN <<f, v>> ELSE None]
      BY FieldIs
    <3>2. two = [name |-> f, disposition |-> d, proof |-> steps,
                 label |-> label,
                 value |-> IF d = "clear" THEN w ELSE None,
                 repr |-> IF d \in Protected THEN None ELSE Repr(w),
                 salt |-> IF d \in Protected THEN None ELSE b.salt,
                 digest |-> IF d = "hash-only" THEN Repr(w) ELSE None,
                 pointer |-> IF d = "pointer" THEN <<f, w>> ELSE None]
      <4>1. i \in 1 .. CountBy(c) /\ f = OrderBy(c)[i]
        BY <2>2
      <4>2. /\ d = DispositionFor(c.call.policy, f)
            /\ label = LabelOf(c.call.row)[f]
            /\ steps = Proof(LeavesBy(c), i)
        BY <2>1, <2>2, <2>3
      <4>. HIDE DEF f, d, label, steps
      <4>. QED
        BY <2>1, <4>1, <4>2, FieldIs
    <3>3. d \notin Protected => v = w
      BY <1>1, <3>1
    <3>4. d \in {"clear", "hash-only"} => d \notin Protected
      BY DEF Protected
    <3>. HIDE DEF f, d, v, w, label, one, two, steps
    <3>5. /\ (IF d = "clear" THEN v ELSE None) =
                 (IF d = "clear" THEN w ELSE None)
          /\ (IF d \in Protected THEN None ELSE Repr(v)) =
                 (IF d \in Protected THEN None ELSE Repr(w))
          /\ (IF d = "hash-only" THEN Repr(v) ELSE None) =
                 (IF d = "hash-only" THEN Repr(w) ELSE None)
      BY <3>3, <3>4
    <3>6. two = [one EXCEPT !.pointer = two.pointer]
      BY <3>1, <3>2, <3>5
    <3>. QED
      BY <3>6 DEF one, two
  <2>. DEFINE p == PackageOf[b]
              q == PackageOf[c]
              fs == [i \in 1 .. CountBy(b) |->
                        DisclosedField(OrderBy(b)[i],
                                       ResolvedBy(b)[OrderBy(b)[i]],
                                       Proof(LeavesBy(b), i),
                                       Salts(b)[OrderBy(b)[i]])]
              gs == [i \in 1 .. CountBy(c) |->
                        DisclosedField(OrderBy(c)[i],
                                       ResolvedBy(c)[OrderBy(c)[i]],
                                       Proof(LeavesBy(c), i),
                                       Salts(c)[OrderBy(c)[i]])]
              made(fields) ==
                  [record |-> "record", root |-> Root(LeavesBy(b)),
                   signature |-> [key |-> SourceKey,
                                  root |-> Root(LeavesBy(b))],
                   header |-> Header(b.call.policy),
                   recordLabel |-> RecordLabel(b.call.class),
                   fields |-> fields, count |-> Len(LeavesBy(b))]
  <2>5. p = made(fs)
    BY PackageRecord
  <2>6. q = made(gs)
    BY <2>1, <2>2, PackageRecord
  <2>7. DOMAIN fs = 1 .. CountBy(b) /\ DOMAIN gs = 1 .. CountBy(b)
    BY <2>2
  <2>8. gs = [i \in 1 .. CountBy(b) |-> gs[i]]
    BY <2>2
  <2>. HIDE DEF fs, gs
  <2>9. p.fields = fs /\ q.fields = gs
    BY <2>5, <2>6
  <2>10. \A i \in 1 .. CountBy(b) :
             gs[i] = [fs[i] EXCEPT !.pointer = gs[i].pointer]
    BY <2>4, <2>9
  <2>11. gs = [i \in DOMAIN fs |-> [fs[i] EXCEPT !.pointer = gs[i].pointer]]
    BY <2>7, <2>8, <2>10
  <2>12. q = [p EXCEPT !.fields = gs]
    BY <2>5, <2>6
  <2>. HIDE DEF p, q, made
  <2>13. q = [p EXCEPT !.fields =
                 [i \in DOMAIN @ |-> [@[i] EXCEPT !.pointer =
                                                  q.fields[i].pointer]]]
    BY <2>9, <2>11, <2>12
  <2>. QED
    BY <2>13 DEF p, q
<1>2. ProtectedDoesNotTravel
  BY <1>1 DEF ProtectedDoesNotTravel, Leaking, Pairs
<1>. QED
  BY <1>2, PTL

\* The value at b of the i-th field, and what the policy does with it.
ValueOf(b, i) == Mapped(b.call.row)[OrderBy(b)[i]]
DispositionOf(b, i) == DispositionFor(b.call.policy, OrderBy(b)[i])

\* One root, one header, and the same fields with the same dispositions,
\* labels, salts, proofs and canonical texts.
LEMMA RootFixesTexts ==
    ASSUME NEW b \in Builds, NEW c \in Builds,
           PackageOf[b].root = PackageOf[c].root
    PROVE  /\ PackageOf[b].header = PackageOf[c].header
           /\ CountBy(b) = CountBy(c) /\ LeavesBy(b) = LeavesBy(c)
           /\ OrderBy(b) = OrderBy(c)
           /\ \A i \in 1 .. CountBy(b) :
                  /\ DispositionOf(b, i) = DispositionOf(c, i)
                  /\ LabelOf(b.call.row)[OrderBy(b)[i]] =
                         LabelOf(c.call.row)[OrderBy(b)[i]]
                  /\ b.salt = c.salt
                  /\ DispositionOf(b, i) \notin Protected =>
                         Repr(ValueOf(b, i)) = Repr(ValueOf(c, i))
<1>1. /\ DOMAIN ResolvedBy(b) = DOMAIN Mapped(b.call.row)
      /\ DOMAIN ResolvedBy(c) = DOMAIN Mapped(c.call.row)
  BY BuildIs
<1>2. /\ DOMAIN Mapped(b.call.row) \subseteq Fields
      /\ DOMAIN Mapped(c.call.row) \subseteq Fields
  BY BuildIs
<1>3. Root(LeavesBy(b)) = Root(LeavesBy(c))
  BY PackageIs
<1>4. /\ LeavesBy(b) = LeavesBy(c)
      /\ Header(b.call.policy) = Header(c.call.policy)
      /\ DOMAIN ResolvedBy(b) = DOMAIN ResolvedBy(c)
  <2>1. /\ DOMAIN ResolvedBy(b) \subseteq Fields
        /\ DOMAIN ResolvedBy(c) \subseteq Fields
    BY <1>1, <1>2
  <2>. QED
    BY <1>3, <2>1, RootDeterminesRecord DEF LeavesBy
<1>5. CountBy(b) = CountBy(c) /\ OrderBy(b) = OrderBy(c)
  BY <1>1, <1>4 DEF CountBy, OrderBy
<1>6. PackageOf[b].header = PackageOf[c].header
  BY <1>4, PackageIs
<1>7. /\ b.call.policy.dispositions = c.call.policy.dispositions
      /\ b.call.policy.default = c.call.policy.default
  <2>1. PolicyHash(b.call.policy) = PolicyHash(c.call.policy)
    BY <1>4 DEF Header
  <2>. QED
    BY <2>1 DEF PolicyHash
<1>8. ASSUME NEW i \in 1 .. CountBy(b)
      PROVE  /\ DispositionOf(b, i) = DispositionOf(c, i)
             /\ LabelOf(b.call.row)[OrderBy(b)[i]] =
                    LabelOf(c.call.row)[OrderBy(b)[i]]
             /\ b.salt = c.salt
             /\ DispositionOf(b, i) \notin Protected =>
                    Repr(ValueOf(b, i)) = Repr(ValueOf(c, i))
  <2>. DEFINE f == OrderBy(b)[i]
              d == DispositionOf(b, i)
              one == IF d \in Protected THEN None ELSE Repr(ValueOf(b, i))
              two == IF d \in Protected THEN None ELSE Repr(ValueOf(c, i))
  <2>1. DispositionOf(c, i) = d
    BY <1>5, <1>7 DEF DispositionOf, DispositionFor
  <2>2. LeavesBy(b)[i + 1] =
            LeafHash(f, d, one, LabelOf(b.call.row)[f], b.salt)
    BY FieldIs DEF DispositionOf, ValueOf
  <2>3. LeavesBy(c)[i + 1] =
            LeafHash(f, d, two, LabelOf(c.call.row)[f], c.salt)
    <3>1. i \in 1 .. CountBy(c) /\ f = OrderBy(c)[i]
      BY <1>5
    <3>2. LeavesBy(c)[i + 1] =
              LeafHash(OrderBy(c)[i], DispositionOf(c, i),
                       IF DispositionOf(c, i) \in Protected THEN None
                       ELSE Repr(ValueOf(c, i)),
                       LabelOf(c.call.row)[OrderBy(c)[i]], c.salt)
      BY <3>1, FieldIs DEF DispositionOf, ValueOf
    <3>. QED
      BY <2>1, <3>1, <3>2
  <2>4. ValueOf(b, i) = Mapped(b.call.row)[f] /\ f \in DOMAIN Mapped(b.call.row)
    BY FieldIs DEF ValueOf
  <2>5. ValueOf(c, i) = Mapped(c.call.row)[f] /\ f \in DOMAIN Mapped(c.call.row)
    BY <1>1, <1>4, <1>5, <2>4 DEF ValueOf
  <2>6. Repr(ValueOf(b, i)) # None /\ Repr(ValueOf(c, i)) # None
    BY <2>4, <2>5, NoneAssumption
  <2>. HIDE DEF f, d
  <2>7. LeafHash(f, d, one, LabelOf(b.call.row)[f], b.salt) =
            LeafHash(f, d, two, LabelOf(c.call.row)[f], c.salt)
    BY <1>4, <2>2, <2>3
  <2>8. /\ LabelOf(b.call.row)[f] = LabelOf(c.call.row)[f]
        /\ b.salt = c.salt
        /\ d \notin Protected => Repr(ValueOf(b, i)) = Repr(ValueOf(c, i))
    BY <2>6, <2>7 DEF LeafHash
  <2>. QED
    BY <2>1, <2>8 DEF f, d
<1>. QED
  BY <1>4, <1>5, <1>6, <1>8

\* Two packages with one root release the same values under the same labels,
\* where the canonical text of a field tells its values apart (provenance.py,
\* _leaf_hash and bind; ingress.py, check 9).
THEOREM SameRootSameValues == Spec /\ []TextsTell => []SameRootSameRelease
<1>1. ASSUME TextsTell, NEW b \in Builds, NEW c \in Builds,
             PackageOf[b].root = PackageOf[c].root
      PROVE  /\ PackageOf[b].header = PackageOf[c].header
             /\ DOMAIN PackageOf[b].fields = DOMAIN PackageOf[c].fields
             /\ \A i \in DOMAIN PackageOf[b].fields :
                    PackageOf[c].fields[i] =
                        [PackageOf[b].fields[i] EXCEPT
                            !.pointer = PackageOf[c].fields[i].pointer]
  <2>1. /\ PackageOf[b].header = PackageOf[c].header
        /\ CountBy(b) = CountBy(c) /\ LeavesBy(b) = LeavesBy(c)
        /\ OrderBy(b) = OrderBy(c)
    BY <1>1, RootFixesTexts
  <2>2. /\ DOMAIN PackageOf[b].fields = 1 .. CountBy(b)
        /\ DOMAIN PackageOf[c].fields = 1 .. CountBy(b)
    BY <2>1, PackageIs
  <2>3. ASSUME NEW i \in 1 .. CountBy(b)
        PROVE  PackageOf[c].fields[i] =
                   [PackageOf[b].fields[i] EXCEPT
                       !.pointer = PackageOf[c].fields[i].pointer]
    <3>. DEFINE f == OrderBy(b)[i]
                d == DispositionOf(b, i)
                v == ValueOf(b, i)
                w == ValueOf(c, i)
                label == LabelOf(b.call.row)[f]
                one == PackageOf[b].fields[i]
                two == PackageOf[c].fields[i]
                steps == Proof(LeavesBy(b), i)
    <3>1. /\ f \in DOMAIN Mapped(b.call.row)
          /\ one = [name |-> f, disposition |-> d, proof |-> steps,
                    label |-> label,
                    value |-> IF d = "clear" THEN v ELSE None,
                    repr |-> IF d \in Protected THEN None ELSE Repr(v),
                    salt |-> IF d \in Protected THEN None ELSE b.salt,
                    digest |-> IF d = "hash-only" THEN Repr(v) ELSE None,
                    pointer |-> IF d = "pointer" THEN <<f, v>> ELSE None]
      BY FieldIs DEF DispositionOf, ValueOf
    <3>2. /\ d = DispositionOf(c, i) /\ label = LabelOf(c.call.row)[f]
          /\ b.salt = c.salt
          /\ d \notin Protected => Repr(v) = Repr(w)
      BY <1>1, RootFixesTexts
    <3>3. /\ f \in DOMAIN Mapped(c.call.row)
          /\ two = [name |-> f, disposition |-> d, proof |-> steps,
                    label |-> label,
                    value |-> IF d = "clear" THEN w ELSE None,
                    repr |-> IF d \in Protected THEN None ELSE Repr(w),
                    salt |-> IF d \in Protected THEN None ELSE b.salt,
                    digest |-> IF d = "hash-only" THEN Repr(w) ELSE None,
                    pointer |-> IF d = "pointer" THEN <<f, w>> ELSE None]
      <4>1. i \in 1 .. CountBy(c) /\ f = OrderBy(c)[i]
        BY <2>1
      <4>2. steps = Proof(LeavesBy(c), i)
        BY <2>1
      <4>3. w = Mapped(c.call.row)[f] /\ d = DispositionFor(c.call.policy, f)
        BY <3>2, <4>1 DEF ValueOf, DispositionOf
      <4>. HIDE DEF f, d, w, label, steps
      <4>. QED
        BY <3>2, <4>1, <4>2, <4>3, FieldIs
    <3>4. d \notin Protected => v = w
      <4>1. v = Mapped(b.call.row)[f] /\ w = Mapped(c.call.row)[f]
        BY <2>1 DEF ValueOf
      <4>. HIDE DEF f, d, v, w
      <4>. QED
        BY <1>1, <3>1, <3>2, <3>3, <4>1 DEF TextsTell
    <3>5. d \in {"clear", "hash-only"} => d \notin Protected
      BY DEF Protected
    <3>. HIDE DEF f, d, v, w, label, one, two, steps
    <3>6. /\ (IF d = "clear" THEN v ELSE None) =
                 (IF d = "clear" THEN w ELSE None)
          /\ (IF d \in Protected THEN None ELSE Repr(v)) =
                 (IF d \in Protected THEN None ELSE Repr(w))
          /\ (IF d = "hash-only" THEN Repr(v) ELSE None) =
                 (IF d = "hash-only" THEN Repr(w) ELSE None)
      BY <3>4, <3>5
    <3>7. two = [one EXCEPT !.pointer = two.pointer]
      BY <3>1, <3>3, <3>6
    <3>. QED
      BY <3>7 DEF one, two
  <2>. QED
    BY <2>1, <2>2, <2>3
<1>2. TextsTell => SameRootSameRelease
  BY <1>1 DEF SameRootSameRelease, Clashing, Pairs
<1>. QED
  BY <1>2, PTL

\* What the Validator proposes does not block what the connector builds,
\* however many of the proposals the owner adopts at once (connect.py,
\* Validator).
THEOREM ProposalsAreHarmless == Spec => []ProposalsDoNotBlock
<1>1. ASSUME NEW b \in Builds, NEW added \in SUBSET Library
      PROVE  Conformant(SourceExpectation, SourceMapping,
                        [b.call.policy EXCEPT !.derivations = @ \cup added],
                        b.call.row)
  <2>. DEFINE policy == b.call.policy
              adopted == [policy EXCEPT !.derivations = @ \cup added]
  <2>1. /\ Problems(SourceExpectation, Mapped(b.call.row)) = {}
        /\ Conflicts(policy) = {}
    BY BuildIs DEF Accepts, Applies
  <2>2. DOMAIN policy = {"id", "default", "dispositions", "derivations"}
    <3>1. b.call \in Calls
      BY BuildIs
    <3>. QED
      BY <3>1, CallsAssumption
  <2>3. /\ adopted.dispositions = policy.dispositions
        /\ adopted.default = policy.default
        /\ adopted.derivations = policy.derivations \cup added
    BY <2>2
  <2>. HIDE DEF policy, adopted
  <2>4. \A f : Openness(adopted, f) = Openness(policy, f)
    BY <2>3 DEF Openness, DispositionFor
  <2>5. \A d : Binds(adopted, d) = Binds(policy, d)
    BY <2>4 DEF Binds
  <2>6. \A d \in added : ~Defeats(d.granularity, d.protects)
    BY LibraryAssumption DEF Defeats, Precision, Granularities
  <2>7. Conflicts(adopted) = {}
    BY <2>1, <2>3, <2>5, <2>6 DEF Conflicts, Binds
  <2>. QED
    BY <2>1, <2>7 DEF Conformant, Mapped, adopted, policy
<1>2. \A b \in Builds :
          Proposed(SourceMapping, b.call.policy, Library) \subseteq Library
  BY DEF Proposed
<1>3. ProposalsDoNotBlock
  BY <1>1, <1>2 DEF ProposalsDoNotBlock, Blocked
<1>. QED
  BY <1>3, PTL

-----------------------------------------------------------------------------
(* The two mappings, each a fold over the fields, over folds of transforms. *)

ChainStep(fm, acc, spec) ==
    IF acc.omitted THEN acc
    ELSE LET v == Transformed(spec, acc.value)
         IN  [value |-> v,
              omitted |-> v = None /\ fm.onUnmapped = "omit_field_with_reason"]
Chaining == INSTANCE Recursion WITH Op <- ChainStep

ReferenceStep(row, out, fm) ==
    LET got == Chain(fm, fm.transforms, row)
    IN  IF got.omitted THEN out ELSE Put(out, fm.target, got.value)
Referring == INSTANCE Recursion WITH Op <- ReferenceStep

EngineStep(row, out, fm) ==
    LET got == Chain(fm, CompiledChain(SourceMapping, fm.target), row)
    IN  IF got.value = None THEN out ELSE Put(out, fm.target, got.value)
Emitting == INSTANCE Recursion WITH Op <- EngineStep

LEMMA ChainIs ==
    ASSUME NEW fm, NEW row, NEW chain, IsList(chain),
           NEW way,
           Chaining!Follows(fm, way, [value |-> SourceValue(fm, row),
                                      omitted |-> FALSE],
                            chain, Len(chain))
    PROVE  Chain(fm, chain, row) = way[Len(chain)]
<1>. DEFINE base == [value |-> SourceValue(fm, row), omitted |-> FALSE]
            it == CHOOSE it : it = [s \in SUBSET (DOMAIN chain) |->
                      IF s = {} THEN base
                      ELSE ChainStep(fm, it[s \ {Max(s)}], chain[Max(s)])]
<1>0. /\ \A s : Chaining!Max(s) = Max(s)
      /\ Len(chain) \in Nat /\ DOMAIN chain = 1 .. Len(chain)
  BY DEF Chaining!Max, Max, IsList
<1>1. \E i : Chaining!Folds(fm, i, base, chain, Len(chain))
  BY <1>0, Chaining!FoldsExists
<1>2. it = [s \in SUBSET (DOMAIN chain) |->
                IF s = {} THEN base
                ELSE ChainStep(fm, it[s \ {Max(s)}], chain[Max(s)])]
  BY <1>0, <1>1 DEF Chaining!Folds
<1>3. Chaining!Folds(fm, it, base, chain, Len(chain))
  <2>. HIDE DEF it, base
  <2>. QED
    BY <1>0, <1>2 DEF Chaining!Folds
<1>4. Chain(fm, chain, row) = it[DOMAIN chain]
  BY DEF Chain, ChainStep, FoldLeft, MapThenFoldSet
<1>. HIDE DEF it
<1>5. it[1 .. Len(chain)] = way[Len(chain)]
  BY <1>0, <1>3, Chaining!FoldIsRecursion
<1>. QED
  BY <1>0, <1>4, <1>5

LEMMA TransformIs ==
    ASSUME NEW row, NEW way,
           Referring!Follows(row, way, << >>, SourceMapping.fields,
                             Len(SourceMapping.fields))
    PROVE  Transform(SourceMapping, row) = way[Len(SourceMapping.fields)]
<1>. DEFINE fields == SourceMapping.fields
            it == CHOOSE it : it = [s \in SUBSET (DOMAIN fields) |->
                      IF s = {} THEN << >>
                      ELSE ReferenceStep(row, it[s \ {Max(s)}], fields[Max(s)])]
<1>0. /\ \A s : Referring!Max(s) = Max(s)
      /\ Len(fields) \in Nat /\ DOMAIN fields = 1 .. Len(fields)
  BY MappingAssumption DEF Referring!Max, Max, IsList
<1>1. \E i : Referring!Folds(row, i, << >>, fields, Len(fields))
  BY <1>0, Referring!FoldsExists
<1>2. it = [s \in SUBSET (DOMAIN fields) |->
                IF s = {} THEN << >>
                ELSE ReferenceStep(row, it[s \ {Max(s)}], fields[Max(s)])]
  BY <1>0, <1>1 DEF Referring!Folds
<1>3. Referring!Folds(row, it, << >>, fields, Len(fields))
  <2>. HIDE DEF it
  <2>. QED
    BY <1>0, <1>2 DEF Referring!Folds
<1>4. Transform(SourceMapping, row) = it[DOMAIN fields]
  BY DEF Transform, ReferenceStep, FoldLeft, MapThenFoldSet
<1>. HIDE DEF it
<1>5. it[1 .. Len(fields)] = way[Len(fields)]
  BY <1>0, <1>3, Referring!FoldIsRecursion
<1>. QED
  BY <1>0, <1>4, <1>5

LEMMA EngineTransformIs ==
    ASSUME NEW row, NEW way,
           Emitting!Follows(row, way, << >>, SourceMapping.fields,
                            Len(SourceMapping.fields))
    PROVE  EngineTransform(SourceMapping, row) = way[Len(SourceMapping.fields)]
<1>. DEFINE fields == SourceMapping.fields
            it == CHOOSE it : it = [s \in SUBSET (DOMAIN fields) |->
                      IF s = {} THEN << >>
                      ELSE EngineStep(row, it[s \ {Max(s)}], fields[Max(s)])]
<1>0. /\ \A s : Emitting!Max(s) = Max(s)
      /\ Len(fields) \in Nat /\ DOMAIN fields = 1 .. Len(fields)
  BY MappingAssumption DEF Emitting!Max, Max, IsList
<1>1. \E i : Emitting!Folds(row, i, << >>, fields, Len(fields))
  BY <1>0, Emitting!FoldsExists
<1>2. it = [s \in SUBSET (DOMAIN fields) |->
                IF s = {} THEN << >>
                ELSE EngineStep(row, it[s \ {Max(s)}], fields[Max(s)])]
  BY <1>0, <1>1 DEF Emitting!Folds
<1>3. Emitting!Folds(row, it, << >>, fields, Len(fields))
  <2>. HIDE DEF it
  <2>. QED
    BY <1>0, <1>2 DEF Emitting!Folds
<1>4. EngineTransform(SourceMapping, row) = it[DOMAIN fields]
  BY DEF EngineTransform, EngineStep, FoldLeft, MapThenFoldSet
<1>. HIDE DEF it
<1>5. it[1 .. Len(fields)] = way[Len(fields)]
  BY <1>0, <1>3, Emitting!FoldIsRecursion
<1>. QED
  BY <1>0, <1>4, <1>5

\* What the reference stops has no value.
LEMMA StepOmitsNone ==
    ASSUME NEW fm, NEW acc, NEW spec,
           acc.omitted => acc.value = None,
           ChainStep(fm, acc, spec).omitted
    PROVE  ChainStep(fm, acc, spec).value = None
<1>. DEFINE v == Transformed(spec, acc.value)
            p == v = None /\ fm.onUnmapped = "omit_field_with_reason"
            made == [value |-> v, omitted |-> p]
<1>1. CASE acc.omitted
  BY <1>1 DEF ChainStep
<1>2. CASE ~ acc.omitted
  <2>1. ChainStep(fm, acc, spec) = made
    BY <1>2 DEF ChainStep
  <2>2. made.value = v
    OBVIOUS
  <2>3. made.omitted <=> p
    OBVIOUS
  <2>4. p
    <3>. HIDE DEF made, p
    <3>. QED
      BY <2>1, <2>3
  <2>5. v = None
    BY <2>4
  <2>. HIDE DEF made, p, v
  <2>. QED
    BY <2>1, <2>2, <2>5
<1>. QED
  BY <1>1, <1>2

LEMMA ChainOmitsNone ==
    ASSUME NEW fm, NEW row, NEW chain, IsList(chain),
           Chain(fm, chain, row).omitted
    PROVE  Chain(fm, chain, row).value = None
<1>. DEFINE n == Len(chain)
            base == [value |-> SourceValue(fm, row), omitted |-> FALSE]
<1>0. n \in Nat
  BY DEF IsList
<1>1. PICK way : Chaining!Recurses(fm, way, base, chain, n)
  BY <1>0, Chaining!RecursionExists
<1>. HIDE DEF base
<1>2. Chaining!Follows(fm, way, base, chain, n)
  BY <1>0, <1>1, Chaining!RecursesFollows
<1>. DEFINE S == {k \in Nat : k <= n => (way[k].omitted => way[k].value = None)}
<1>3. 0 \in S
  <2>1. ~ way[0].omitted
    BY <1>2 DEF Chaining!Follows, base
  <2>. QED
    BY <2>1
<1>4. ASSUME NEW k \in S
      PROVE  k + 1 \in S
  <2>. SUFFICES ASSUME k + 1 <= n, way[k + 1].omitted
                PROVE  way[k + 1].value = None
    OBVIOUS
  <2>1. way[k + 1] = ChainStep(fm, way[k], chain[k + 1])
    <3>1. k + 1 \in 1 .. n /\ (k + 1) - 1 = k
      BY <1>0
    <3>. QED
      BY <1>2, <3>1 DEF Chaining!Follows
  <2>2. way[k].omitted => way[k].value = None
    BY <1>0
  <2>. HIDE DEF S
  <2>. QED
    BY <2>1, <2>2, StepOmitsNone
<1>. HIDE DEF S
<1>5. S = Nat
  <2>1. S \in SUBSET Nat
    BY DEF S
  <2>. QED
    BY <1>3, <1>4, <2>1, Chaining!NaturalInduction
<1>6. Chain(fm, chain, row) = way[n]
  BY <1>2, ChainIs DEF base
<1>7. n \in S
  BY <1>0, <1>5
<1>8. way[n].omitted => way[n].value = None
  BY <1>0, <1>7 DEF S
<1>. QED
  BY <1>6, <1>8

\* With one field to a target the engine runs the chain the reference runs.
LEMMA OwnChain ==
    ASSUME DistinctTargets, NEW k \in DOMAIN SourceMapping.fields
    PROVE  CompiledChain(SourceMapping, SourceMapping.fields[k].target) =
               SourceMapping.fields[k].transforms
<1>. DEFINE fields == SourceMapping.fields
            Greatest(i) == /\ fields[i].target = fields[k].target
                           /\ \A j \in DOMAIN fields :
                                  fields[j].target = fields[k].target => j <= i
<1>1. \A i \in DOMAIN fields : Greatest(i) => i = k
  BY DEF DistinctTargets
<1>2. Greatest(k)
  <2>1. k \in Nat
    BY MappingAssumption DEF IsList
  <2>. QED
    BY <2>1 DEF DistinctTargets
<1>3. (CHOOSE i \in DOMAIN fields : Greatest(i)) = k
  <2>. HIDE DEF Greatest, fields
  <2>1. k \in DOMAIN fields
    BY DEF fields
  <2>. QED
    BY <1>1, <1>2, <2>1
<1>. QED
  BY <1>3 DEF CompiledChain, LastFor

\* The engine has what the reference has, but for what is None.
Matches(reference, engine, targets) ==
    /\ DOMAIN reference \subseteq targets
    /\ engine = [f \in {g \in DOMAIN reference : reference[g] # None}
                    |-> reference[f]]

LEMMA MatchesStep ==
    ASSUME NEW reference, NEW engine, NEW targets, NEW target, NEW value,
           Matches(reference, engine, targets), target \notin targets
    PROVE  /\ Matches(reference, engine, targets \cup {target})
           /\ value = None => Matches(Put(reference, target, value), engine,
                                      targets \cup {target})
           /\ value # None => Matches(Put(reference, target, value),
                                      Put(engine, target, value),
                                      targets \cup {target})
<1>. DEFINE kept == {g \in DOMAIN reference : reference[g] # None}
            put == Put(reference, target, value)
<1>1. /\ DOMAIN reference \subseteq targets
      /\ engine = [f \in kept |-> reference[f]]
  BY DEF Matches
<1>2. Matches(reference, engine, targets \cup {target})
  BY <1>1 DEF Matches
<1>3. /\ DOMAIN put = DOMAIN reference \cup {target}
      /\ put[target] = value
      /\ \A f \in DOMAIN reference : put[f] = reference[f]
  BY <1>1 DEF Put
<1>4. ASSUME value = None
      PROVE  Matches(put, engine, targets \cup {target})
  <2>. HIDE DEF put
  <2>1. {g \in DOMAIN put : put[g] # None} = kept
    BY <1>3, <1>4
  <2>2. \A f \in kept : put[f] = reference[f]
    BY <1>3
  <2>3. DOMAIN put \subseteq targets \cup {target}
    BY <1>1, <1>3
  <2>4. engine = [f \in kept |-> put[f]]
    <3>. HIDE DEF kept
    <3>. QED
      BY <1>1, <2>2
  <2>. QED
    BY <2>1, <2>3, <2>4 DEF Matches
<1>5. ASSUME value # None
      PROVE  Matches(put, Put(engine, target, value), targets \cup {target})
  <2>1. DOMAIN engine = kept /\ \A f \in kept : engine[f] = reference[f]
    BY <1>1
  <2>. HIDE DEF put
  <2>2. {g \in DOMAIN put : put[g] # None} = kept \cup {target}
    BY <1>3, <1>5
  <2>3. \A f \in kept : put[f] = reference[f] /\ f # target
    BY <1>1, <1>3
  <2>4. DOMAIN put \subseteq targets \cup {target}
    BY <1>1, <1>3
  <2>5. Put(engine, target, value) = [f \in kept \cup {target} |-> put[f]]
    <3>. HIDE DEF kept
    <3>1. Put(engine, target, value) =
              [f \in kept \cup {target} |->
                  IF f = target THEN value ELSE engine[f]]
      BY <2>1 DEF Put
    <3>2. \A f \in kept \cup {target} :
              (IF f = target THEN value ELSE engine[f]) = put[f]
      BY <1>3, <2>1, <2>3
    <3>. QED
      BY <3>1, <3>2
  <2>. QED
    BY <2>2, <2>4, <2>5 DEF Matches
<1>. QED
  BY <1>2, <1>4, <1>5

LEMMA MappingsMatch ==
    ASSUME DistinctTargets, NEW row
    PROVE  Matches(Transform(SourceMapping, row),
                   EngineTransform(SourceMapping, row),
                   Targets(SourceMapping))
<1>. DEFINE fields == SourceMapping.fields
            n == Len(fields)
            before(k) == {fields[i].target : i \in 1 .. k}
<1>0. n \in Nat /\ DOMAIN fields = 1 .. n
  BY MappingAssumption DEF IsList
<1>1. PICK f : Referring!Recurses(row, f, << >>, fields, n)
  BY <1>0, Referring!RecursionExists
<1>2. PICK g : Emitting!Recurses(row, g, << >>, fields, n)
  BY <1>0, Emitting!RecursionExists
<1>3. Referring!Follows(row, f, << >>, fields, n)
  BY <1>0, <1>1, Referring!RecursesFollows
<1>4. Emitting!Follows(row, g, << >>, fields, n)
  BY <1>0, <1>2, Emitting!RecursesFollows
<1>. DEFINE S == {k \in Nat : k <= n => Matches(f[k], g[k], before(k))}
<1>5. 0 \in S
  <2>1. f[0] = << >> /\ g[0] = << >>
    BY <1>3, <1>4 DEF Referring!Follows, Emitting!Follows
  <2>2. Matches(<< >>, << >>, before(0))
    BY DEF Matches
  <2>. QED
    BY <2>1, <2>2
<1>6. ASSUME NEW k \in S
      PROVE  k + 1 \in S
  <2>. SUFFICES ASSUME k + 1 <= n
                PROVE  Matches(f[k + 1], g[k + 1], before(k + 1))
    OBVIOUS
  <2>. DEFINE fm == fields[k + 1]
              got == Chain(fm, fm.transforms, row)
  <2>0. /\ k + 1 \in 1 .. n /\ (k + 1) - 1 = k /\ k \in Nat
        /\ k + 1 \in DOMAIN fields
    BY <1>0
  <2>1. Matches(f[k], g[k], before(k))
    BY <1>0
  <2>. HIDE DEF S
  <2>2. f[k + 1] = ReferenceStep(row, f[k], fm)
    BY <1>3, <2>0 DEF Referring!Follows
  <2>3. g[k + 1] = EngineStep(row, g[k], fm)
    BY <1>4, <2>0 DEF Emitting!Follows
  <2>4. CompiledChain(SourceMapping, fm.target) = fm.transforms
    BY <2>0, OwnChain
  <2>5. got.omitted => got.value = None
    <3>1. IsList(fm.transforms)
      BY <2>0, MappingAssumption
    <3>. QED
      BY <3>1, ChainOmitsNone
  <2>6. fm.target \notin before(k)
    <3>1. \A i \in 1 .. k : i \in DOMAIN fields /\ i # k + 1
      BY <1>0, <2>0
    <3>. QED
      BY <2>0, <3>1 DEF DistinctTargets
  <2>7. before(k + 1) = before(k) \cup {fm.target}
    <3>1. 1 .. (k + 1) = (1 .. k) \cup {k + 1}
      BY <2>0
    <3>. QED
      BY <3>1
  <2>8. f[k + 1] = IF got.omitted THEN f[k] ELSE Put(f[k], fm.target, got.value)
    BY <2>2 DEF ReferenceStep
  <2>9. g[k + 1] = IF got.value = None THEN g[k]
                   ELSE Put(g[k], fm.target, got.value)
    BY <2>3, <2>4 DEF EngineStep
  <2>. HIDE DEF before, got, fm, fields
  <2>10. /\ Matches(f[k], g[k], before(k) \cup {fm.target})
         /\ got.value = None =>
                Matches(Put(f[k], fm.target, got.value), g[k],
                        before(k) \cup {fm.target})
         /\ got.value # None =>
                Matches(Put(f[k], fm.target, got.value),
                        Put(g[k], fm.target, got.value),
                        before(k) \cup {fm.target})
    BY <2>1, <2>6, MatchesStep
  <2>11. CASE got.value = None
    BY <2>7, <2>8, <2>9, <2>10, <2>11
  <2>12. CASE got.value # None
    BY <2>5, <2>7, <2>8, <2>9, <2>10, <2>12
  <2>. QED
    BY <2>11, <2>12
<1>. HIDE DEF S
<1>7. S = Nat
  <2>1. S \in SUBSET Nat
    BY DEF S
  <2>. QED
    BY <1>5, <1>6, <2>1, Chaining!NaturalInduction
<1>8. Matches(f[n], g[n], before(n))
  <2>1. n \in S
    BY <1>0, <1>7
  <2>. HIDE DEF before, fields
  <2>. QED
    BY <1>0, <2>1 DEF S
<1>9. before(n) = Targets(SourceMapping)
  BY <1>0 DEF Targets
<1>10. Transform(SourceMapping, row) = f[n]
  BY <1>3, TransformIs
<1>11. EngineTransform(SourceMapping, row) = g[n]
  BY <1>4, EngineTransformIs
<1>. QED
  BY <1>8, <1>9, <1>10, <1>11

\* The connector's mapping engine and the reference's mapping come to the same
\* record but for what is None, whatever the rows and the transforms, when no
\* two fields have one target (pipeline/mapping.py, connect.py).
THEOREM PortsDoAgree == Spec /\ []DistinctTargets => []PortsAgree
<1>1. ASSUME DistinctTargets, NEW b \in Builds
      PROVE  LET reference == Mapped(b.call.row)
             IN  EngineTransform(SourceMapping, b.call.row) =
                     [f \in {g \in DOMAIN reference : reference[g] # None}
                         |-> reference[f]]
  <2>1. Matches(Mapped(b.call.row), EngineTransform(SourceMapping, b.call.row),
                Targets(SourceMapping))
    BY <1>1, MappingsMatch DEF Mapped
  <2>. QED
    BY <2>1 DEF Matches
<1>2. DistinctTargets => PortsAgree
  BY <1>1 DEF PortsAgree, Divergent
<1>. QED
  BY <1>2, PTL

-----------------------------------------------------------------------------
(* The state of the exchange.                                              *)

\* Every salt is of a store that there has been, what is bound was built, and
\* what is admitted was built, here or elsewhere.
SourceInv ==
    /\ builds \subseteq Builds
    /\ store \in Nat \ {0}
    /\ \A b \in builds : b.salt \in 1 .. store
    /\ bound = [order |-> << >>] \/ \E b \in builds : bound = BindingOf[b]
    /\ revoked \subseteq {<<q.field, q.requester>> : q \in Requests}
    /\ DOMAIN admissions \subseteq {p.root : p \in Sent \cup Foreign}

\* Of the source's own steps, a build uses the salts there are, a restart
\* leaves the ones of earlier stores behind.
LEMMA SourceStep ==
    ASSUME SourceInv, [Next]_vars
    PROVE  SourceInv'
<1>1. ASSUME NEW b \in Builds, BuildPackage(b)
      PROVE  SourceInv'
  <2>1. /\ builds' = builds \cup {b} /\ bound' = BindingOf[b] /\ b.salt = store
        /\ UNCHANGED <<store, revoked, admissions>>
    BY <1>1 DEF BuildPackage, ingressVars, sourceVars
  <2>2. builds' \subseteq Builds /\ bound' = BindingOf[b] /\ b \in builds'
    BY <2>1 DEF SourceInv
  <2>3. \A c \in builds' : c.salt \in 1 .. store'
    BY <2>1 DEF SourceInv
  <2>4. Sent \subseteq Sent'
    BY <2>1 DEF Sent
  <2>5. DOMAIN admissions' \subseteq {p.root : p \in Sent' \cup Foreign}
    BY <2>1, <2>4 DEF SourceInv
  <2>. QED
    BY <2>1, <2>2, <2>3, <2>5 DEF SourceInv
<1>2. ASSUME NEW p \in Sent \cup Foreign, Deliver(p)
      PROVE  SourceInv'
  <2>1. UNCHANGED <<store, revoked, builds, bound>>
    BY <1>2 DEF Deliver, sourceVars
  <2>2. DOMAIN admissions' \subseteq DOMAIN admissions \cup {p.root}
    BY <1>2 DEF Deliver, Verify, Refuse, RefuseReplay, Admit, RefuseHash,
                ingressVars
  <2>3. DOMAIN admissions' \subseteq {r.root : r \in Sent \cup Foreign}
    BY <2>2 DEF SourceInv
  <2>4. Sent' = Sent
    BY <2>1 DEF Sent
  <2>. QED
    BY <2>1, <2>3, <2>4 DEF SourceInv
<1>3. ASSUME NEW q \in Requests, NEW root, Callback(q, root)
      PROVE  SourceInv'
  <2>1. UNCHANGED <<admissions, builds, bound>>
    BY <1>3 DEF Callback, ingressVars
  <2>2. UNCHANGED <<store, revoked>>
    BY <1>3 DEF Callback, Handle, DenyRevoked, DenyByRule, Release
  <2>. QED
    BY <2>1, <2>2 DEF SourceInv, Sent
<1>4. ASSUME NEW q \in Requests, RevokeRequest(q)
      PROVE  SourceInv'
  BY <1>4 DEF RevokeRequest, Revoke, ingressVars, SourceInv, Sent
<1>5. ASSUME NEW exported \in BOOLEAN, RestartSource(exported)
      PROVE  SourceInv'
  <2>1. /\ UNCHANGED <<admissions, builds, bound>>
        /\ revoked' = {} /\ (store' = store \/ store' = store + 1)
    BY <1>5 DEF RestartSource, Reload, ingressVars
  <2>2. store' \in Nat \ {0} /\ \A n \in 1 .. store : n \in 1 .. store'
    BY <2>1 DEF SourceInv
  <2>. QED
    BY <2>1, <2>2 DEF SourceInv, Sent
<1>6. CASE RestartPlatform
  BY <1>6 DEF RestartPlatform, Reopen, sourceVars, SourceInv, Sent
<1>7. CASE TimePasses
  BY <1>7 DEF TimePasses, Tick, sourceVars, SourceInv, Sent
<1>8. CASE UNCHANGED vars
  BY <1>8 DEF vars, ingressVars, sourceVars, SourceInv, Sent
<1>. QED
  BY <1>1, <1>2, <1>3, <1>4, <1>5, <1>6, <1>7, <1>8 DEF Next

LEMMA SourceInvariance == Spec => []SourceInv
<1>1. Init => SourceInv
  BY DEF Init, IngressInit, SourceInit, SourceInv
<1>2. SourceInv /\ [Next]_vars => SourceInv'
  BY SourceStep
<1>. QED
  BY <1>1, <1>2, PTL DEF Spec

\* No salt is of a store yet to come, and what is admitted was built, here or
\* elsewhere (trust.py, SaltStore; ingress.py).
THEOREM TypeCorrect == Spec => []TypeOK
<1>1. IngressInv /\ RevokedIsRemembered /\ SourceInv => TypeOK
  BY DEF TypeOK, RevokedIsRemembered, SourceInv
<1>. QED
  BY ExchangeImplementsIngress, IngressInvariance, LogInvariance,
     SourceInvariance, <1>1, PTL

-----------------------------------------------------------------------------
(* Callbacks.                                                              *)

\* The handler's proof of a field that was a pointer when it was bound, with
\* the salt it was bound with.
LEMMA PointerProves ==
    ASSUME NEW b \in Builds, b.salt = store, NEW q,
           \E i \in DOMAIN OrderBy(b) : OrderBy(b)[i] = q.field,
           DispositionFor(b.call.policy, q.field) = "pointer"
    PROVE  Proves(q, Root(LeavesBy(b)), BindingOf[b])
<1>. DEFINE index == CHOOSE i \in DOMAIN OrderBy(b) : OrderBy(b)[i] = q.field
<1>1. index \in DOMAIN OrderBy(b) /\ OrderBy(b)[index] = q.field
  OBVIOUS
<1>. HIDE DEF index
<1>2. CountBy(b) \in Nat /\ DOMAIN OrderBy(b) = 1 .. CountBy(b)
  BY PackageRecord
<1>3. LeavesBy(b)[index + 1] =
          LeafHash(q.field, "pointer", None, LabelOf(b.call.row)[q.field],
                   store)
  <2>. DEFINE d == DispositionFor(b.call.policy, OrderBy(b)[index])
  <2>1. LeavesBy(b)[index + 1] =
            LeafHash(OrderBy(b)[index], d,
                     IF d \in Protected THEN None
                     ELSE Repr(Mapped(b.call.row)[OrderBy(b)[index]]),
                     LabelOf(b.call.row)[OrderBy(b)[index]], b.salt)
    BY <1>1, <1>2, FieldIs
  <2>2. d = "pointer" /\ d \in Protected
    BY <1>1 DEF Protected
  <2>. HIDE DEF d
  <2>. QED
    BY <1>1, <2>1, <2>2
<1>4. Verifies(LeavesBy(b)[index + 1], Proof(LeavesBy(b), index),
               Root(LeavesBy(b)))
  <2>1. DOMAIN ResolvedBy(b) = DOMAIN Mapped(b.call.row)
    BY BuildIs
  <2>2. DOMAIN Mapped(b.call.row) \subseteq Fields
    BY BuildIs
  <2>3. index \in 1 .. CountBy(b) /\ index + 1 \in 1 .. CountBy(b) + 1
    BY <1>1, <1>2
  <2>. QED
    BY <2>1, <2>2, <2>3, ProvesOneLeaf DEF LeavesBy, CountBy
<1>5. /\ BindingOf[b].leaves = LeavesBy(b) /\ BindingOf[b].order = OrderBy(b)
      /\ BindingOf[b].label = LabelOf(b.call.row)
  BY BuildIs
<1>. QED
  BY <1>3, <1>4, <1>5 DEF Proves, index

\* A call of the handler logs one decision.
LEMMA LoggedOnce ==
    ASSUME RevokedIsRemembered, NEW q \in Requests, NEW d, NEW e,
           Logged(q, d), log' = Append(log, [request |-> q, decision |-> e])
    PROVE  d = e
<1>. DEFINE E == [request : Requests, decision : Decisions]
            one == [request |-> q, decision |-> d]
            two == [request |-> q, decision |-> e]
            S == E \cup {one, two}
<1>1. log \in Seq(E)
  BY DEF RevokedIsRemembered
<1>. HIDE DEF E, one, two
<1>2. E \subseteq S /\ one \in S /\ two \in S
  OBVIOUS
<1>. HIDE DEF S
<1>3. log \in Seq(S)
  BY <1>1, <1>2
<1>4. Append(log, one) = Append(log, two)
  BY DEF Logged, one, two
<1>5. one = two
  BY <1>2, <1>3, <1>4, AppendProperties
<1>6. one.decision = two.decision
  BY <1>5
<1>. QED
  BY <1>6 DEF one, two

\* A release whose proof fails is one against another root than the source
\* bound last, of a field that was not protected when it was bound, or of one
\* whose salt was lost, for any number of fields (disclosure.py, handle).
THEOREM ProofFailuresHaveCause == Spec => ProofFailsOnlyOnChange
<1>1. ASSUME SourceInv, RevokedIsRemembered,
             NEW q \in Requests, NEW root,
             log' = Append(log, [request |-> q,
                                 decision |-> "release:proof-fail"]),
             Handle(q, root, bound),
             root = Root(bound.leaves), ~(store > 1)
      PROVE  \E b \in builds :
                 /\ BindingOf[b] = bound
                 /\ DispositionFor(b.call.policy, q.field) # "pointer"
  <2>1. ~DenyRevoked(q)
    BY <1>1, LoggedOnce DEF DenyRevoked
  <2>2. ~DenyByRule(q)
    <3>1. ASSUME NEW i \in Denying(q), Logged(q, Rules[i].kind)
          PROVE  FALSE
      <4>1. Rules[i].kind \in RuleKinds
        BY RulesAssumption DEF Denying
      <4>2. Rules[i].kind = "release:proof-fail"
        BY <1>1, <3>1, LoggedOnce
      <4>. QED
        BY <4>1, <4>2 DEF RuleKinds
    <3>. QED
      BY <3>1 DEF DenyByRule
  <2>3. Release(q, root, bound)
    BY <1>1, <2>1, <2>2 DEF Handle
  <2>4. ~Proves(q, root, bound)
    <3>1. ASSUME Proves(q, root, bound)
          PROVE  FALSE
      <4>1. Logged(q, "release")
        BY <2>3, <3>1 DEF Release
      <4>2. "release" = "release:proof-fail"
        BY <1>1, <4>1, LoggedOnce
      <4>. QED
        BY <4>2
    <3>. QED
      BY <3>1
  <2>5. \E i \in DOMAIN bound.order : bound.order[i] = q.field
    BY <1>1 DEF Handle
  <2>6. bound # [order |-> << >>]
    BY <2>5
  <2>7. PICK b \in builds : bound = BindingOf[b]
    BY <1>1, <2>6 DEF SourceInv
  <2>8. b \in Builds /\ b.salt = store
    BY <1>1, <2>7 DEF SourceInv
  <2>9. bound.order = OrderBy(b) /\ bound.leaves = LeavesBy(b)
    BY <2>7, <2>8, BuildIs
  <2>10. DispositionFor(b.call.policy, q.field) # "pointer"
    <3>1. ASSUME DispositionFor(b.call.policy, q.field) = "pointer"
          PROVE  FALSE
      <4>1. \E i \in DOMAIN OrderBy(b) : OrderBy(b)[i] = q.field
        BY <2>5, <2>9
      <4>2. Proves(q, Root(LeavesBy(b)), BindingOf[b])
        BY <2>8, <3>1, <4>1, PointerProves
      <4>. QED
        BY <1>1, <2>4, <2>7, <2>9, <4>2
    <3>. QED
      BY <3>1
  <2>. QED
    BY <2>7, <2>10
<1>2. SourceInv /\ RevokedIsRemembered /\ [Next]_vars =>
          [\A q \in Requests, root \in DOMAIN admissions :
              /\ log' = Append(log, [request |-> q,
                                    decision |-> "release:proof-fail"])
              /\ Handle(q, root, bound)
              => \/ root # Root(bound.leaves)
                 \/ store > 1
                 \/ \E b \in builds :
                        /\ BindingOf[b] = bound
                        /\ DispositionFor(b.call.policy, q.field) # "pointer"]_vars
  BY <1>1
<1>. QED
  BY SourceInvariance, LogInvariance, <1>2, PTL
     DEF Spec, ProofFailsOnlyOnChange
=============================================================================
