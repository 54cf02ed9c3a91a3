----------------------- MODULE ConnectorService_proofs -----------------------
(***************************************************************************)
(* What a running connector may be trusted with, for any files, policies,  *)
(* Expectations and bounds: the policy it runs, the key it signs with, and *)
(* what it says of itself.                                                 *)
(***************************************************************************)
EXTENDS ConnectorService, WellFoundedInduction, TLAPS

-----------------------------------------------------------------------------
(* A policy without a conflict keeps what it protects out of reach of what *)
(* it releases, through any chain of the derivations it has not accepted:  *)
(* validate looks at one constraint at a time, and that is enough.         *)

LEMMA OpennessType ==
    ASSUME NEW policy, WellFormed(policy), NEW f \in Fields
    PROVE  Openness(policy, f) \in 0 .. 3
BY DEF WellFormed, Openness, Permissiveness, Dispositions

\* Without a conflict, what is released at a level is closed under the
\* constraints the policy enforces.
LEMMA ReleasedIsClosed ==
    ASSUME NEW policy, WellFormed(policy), Conflicts(policy) = {},
           NEW k \in Nat
    PROVE  ClosedUnder(Enforced(policy), Released(policy, k))
<1>. SUFFICES ASSUME NEW d \in Enforced(policy),
                     d.from \subseteq Released(policy, k)
              PROVE  d.field \in Released(policy, k)
  BY DEF ClosedUnder
<1>1. /\ d \in DerivationConstraint /\ d \in policy.derivations
      /\ ~d.accepted /\ Defeats(d.granularity, d.protects) /\ d.from # {}
  BY DEF Enforced, WellFormed
<1>2. d.field \in Fields /\ d.from \subseteq Fields
  BY <1>1 DEF DerivationConstraint
<1>3. ~Binds(policy, d)
  BY <1>1 DEF Conflicts
<1>4. PICK f \in d.from : ~(Openness(policy, f) > Openness(policy, d.field))
  BY <1>1, <1>3 DEF Binds
<1>5. Openness(policy, f) >= k
  BY DEF Released
<1>6. Openness(policy, d.field) >= k
  BY <1>2, <1>4, <1>5, OpennessType
<1>. QED
  BY <1>2, <1>6 DEF Released

\* A policy that may run does not let a field be worked out from fields that
\* are released more openly, however many derivations are chained, except
\* through those the source has accepted (policy.py, validate).
THEOREM NoConflictProtects ==
    ASSUME NEW policy, WellFormed(policy), Conflicts(policy) = {}
    PROVE  NotReconstructible(policy)
<1>. SUFFICES ASSUME NEW k \in 1 .. 3,
                     NEW f \in Reach(Enforced(policy), Released(policy, k))
              PROVE  f \in Released(policy, k)
  BY DEF NotReconstructible
<1>1. Released(policy, k) \in SUBSET Fields
  BY DEF Released
<1>2. ClosedUnder(Enforced(policy), Released(policy, k))
  BY ReleasedIsClosed
<1>. QED
  BY <1>1, <1>2 DEF Reach

-----------------------------------------------------------------------------
(* The policy of a running pipeline.                                       *)

\* The policies at hand are well-formed, and the one wired has no conflict.
PolicyInv ==
    /\ pc \in [Procs -> Steps]
    /\ files \in [mapping : Mappings, policy : Policies]
    /\ taken \in [mapping : Mappings \cup {None}, policy : Policies \cup {None}]
    /\ pc["service"] = "wire" => taken.policy # None
    /\ pipeline # None =>
           /\ pipeline.policy \in Policies \ {None}
           /\ Conflicts(pipeline.policy) = {}

LEMMA PolicyInit == Init => PolicyInv
BY DEF Init, PolicyInv, Nothing, Procs, Steps

LEMMA PolicyStep ==
    ASSUME PolicyInv, [Next]_vars
    PROVE  PolicyInv'
<1>. USE DEF PolicyInv, Goto, Procs, Steps
<1>1. ASSUME NEW x \in Procs,
             LoadKey(x) \/ GenerateKey(x) \/ CreateKeyFile(x) \/ WriteKey(x)
      PROVE  PolicyInv'
  BY <1>1 DEF LoadKey, GenerateKey, CreateKeyFile, WriteKey, serviceVars, serviceObject
<1>2. CASE BeginKeygen \/ KeygenRaises \/ PrintKey
  BY <1>2 DEF BeginKeygen, KeygenRaises, PrintKey, serviceVars, serviceObject
<1>3. CASE OpenState
  BY <1>3 DEF OpenState, Nothing
<1>4. CASE KeyRaises \/ LoadRaises \/ WireRaises
  BY <1>4 DEF KeyRaises, LoadRaises, WireRaises, Raise
<1>5. CASE PullRaises \/ \E e \in Expectations : Pull(e)
  BY <1>5 DEF PullRaises, Pull, Raise
<1>6. CASE LoadMapping
  BY <1>6 DEF LoadMapping
<1>7. CASE LoadPolicy
  BY <1>7 DEF LoadPolicy, serviceObject
<1>8. CASE Wire
  BY <1>8 DEF Wire, Pipeline
<1>9. CASE Stop \/ Ingest
  BY <1>9 DEF Stop, Ingest, serviceObject
<1>10. ASSUME NEW m \in Mappings, EditMapping(m)
       PROVE  PolicyInv'
  BY <1>10 DEF EditMapping, serviceVars, serviceObject
<1>11. ASSUME NEW p \in Policies, EditPolicy(p)
       PROVE  PolicyInv'
  BY <1>11 DEF EditPolicy, serviceVars, serviceObject
<1>12. CASE CrashKeygen
  BY <1>12 DEF CrashKeygen, Die, serviceVars, serviceObject
<1>13. CASE CrashService
  BY <1>13 DEF CrashService, Die, Nothing
<1>14. CASE UNCHANGED vars
  BY <1>14 DEF vars, serviceVars, serviceObject
<1>. QED
  BY <1>1, <1>2, <1>3, <1>4, <1>5, <1>6, <1>7, <1>8, <1>9, <1>10, <1>11,
     <1>12, <1>13, <1>14 DEF Next

\* Whatever the owner edits and however often the service is started, the
\* policy of a running pipeline keeps what it protects out of reach of what it
\* releases (ingest.py, IngestPipeline.__init__).
THEOREM RunningPolicyIsSafe == Spec => []RunningPolicyProtects
<1>1. PolicyInv => RunningPolicyProtects
  BY PoliciesAssumption, NoConflictProtects
     DEF PolicyInv, RunningPolicyProtects
<1>2. PolicyInv /\ [Next]_vars => PolicyInv'
  BY PolicyStep
<1>. QED
  BY <1>1, <1>2, PolicyInit, PTL DEF Spec

-----------------------------------------------------------------------------
(* The signing key.                                                        *)

Creating == {"create", "write"}
Holding == {"signer", "mapping", "policy", "wire"}

KeyTypes ==
    /\ drawn \in Nat
    /\ keyFile \in {NoFile, Empty} \cup Nat
    /\ pc \in [Procs -> Steps] /\ key \in [Procs -> Nat]

\* The strengthening: who holds a key holds the one in the file, and who
\* creates the file is alone and no key is in use yet.
KeysAgree ==
    keyPath /\ ~overlapped =>
        /\ \A k \in known : keyFile = k
        /\ pipeline # None => keyFile = pipeline.key
        /\ \A x \in Procs : pc[x] \in Holding => key[x] = keyFile
        /\ \A x \in Procs : pc[x] = "create" => keyFile = NoFile
        /\ \A x \in Procs : pc[x] = "write" => keyFile = Empty
        /\ \A x, y \in Procs :
               pc[x] \in Creating /\ pc[y] \in Creating => x = y
        /\ keyFile = Empty /\ ~torn => \E x \in Procs : pc[x] = "write"

NoKeyInUse ==
    /\ \A k \in known : k \in Nat
    /\ pipeline # None => pipeline.key \in Nat

KeyInv == KeyTypes /\ KeysAgree /\ NoKeyInUse

LEMMA KeyInit == Init => KeyInv
BY NoKeyAssumption
   DEF Init, KeyInv, KeyTypes, KeysAgree, NoKeyInUse, Procs, Steps,
       Holding, Creating

\* Steps that only move the service on, or leave everything.
LEMMA QuietKeyStep ==
    ASSUME KeyInv, UNCHANGED <<keyVars, known>>, pipeline' = pipeline,
           pc' \in [Procs -> Steps],
           \A x \in Procs :
               \/ pc'[x] = pc[x]
               \/ /\ pc[x] \notin Creating /\ pc'[x] \notin Creating
                  /\ pc'[x] \in Holding => pc[x] \in Holding
    PROVE  KeyInv'
BY DEF KeyInv, KeyTypes, KeysAgree, NoKeyInUse, keyVars, Creating

\* A process that draws a key where another creates the file is noticed.
LEMMA GenerateStep ==
    ASSUME KeyInv, NEW x \in Procs, GenerateKey(x)
    PROVE  KeyInv'
<1>1. KeyTypes' /\ NoKeyInUse'
  BY DEF GenerateKey, Goto, KeyInv, KeyTypes, NoKeyInUse, serviceVars, serviceObject, Steps
<1>2. ASSUME keyPath', ~overlapped'
      PROVE  /\ ~overlapped /\ keyFile = NoFile /\ keyFile' = NoFile
             /\ pc' = [pc EXCEPT ![x] = "create"]
             /\ \A y \in Procs \ {x} : pc[y] \notin Creating
  BY <1>2, NoKeyAssumption
     DEF GenerateKey, FileExists, Goto, KeyInv, KeysAgree, Creating
<1>3. KeysAgree'
  BY <1>2, NoKeyAssumption
     DEF GenerateKey, KeyInv, KeyTypes, KeysAgree, NoKeyInUse, serviceVars, serviceObject,
         Creating, Holding
<1>. QED
  BY <1>1, <1>3 DEF KeyInv

LEMMA KeyStep ==
    ASSUME KeyInv, [Next]_vars
    PROVE  KeyInv'
<1>. USE DEF KeyInv, KeyTypes, KeysAgree, NoKeyInUse, Goto, Creating, Holding
<1>1. ASSUME NEW x \in Procs, LoadKey(x)
      PROVE  KeyInv'
  BY <1>1, NoKeyAssumption DEF LoadKey, FileExists, serviceVars, serviceObject, Steps
<1>2. ASSUME NEW x \in Procs, GenerateKey(x)
      PROVE  KeyInv'
  BY <1>2, GenerateStep
<1>3. ASSUME NEW x \in Procs, CreateKeyFile(x)
      PROVE  KeyInv'
  BY <1>3, NoKeyAssumption DEF CreateKeyFile, serviceVars, serviceObject, Steps
<1>4. ASSUME NEW x \in Procs, WriteKey(x)
      PROVE  KeyInv'
  BY <1>4, NoKeyAssumption DEF WriteKey, serviceVars, serviceObject, Steps
<1>5. CASE PrintKey
  BY <1>5 DEF PrintKey, serviceVars, serviceObject, keyVars, Procs, Steps
<1>6. CASE BeginKeygen \/ KeygenRaises
  BY <1>6, QuietKeyStep
     DEF BeginKeygen, KeygenRaises, serviceVars, serviceObject, Procs, Steps
<1>7. CASE OpenState
  BY <1>7, QuietKeyStep DEF OpenState, Procs, Steps
<1>8. CASE KeyRaises \/ LoadRaises \/ WireRaises
  BY <1>8, QuietKeyStep
     DEF KeyRaises, LoadRaises, WireRaises, Raise, Procs, Steps
<1>9. CASE PullRaises \/ \E e \in Expectations : Pull(e)
  BY <1>9, QuietKeyStep DEF PullRaises, Pull, Raise, Procs, Steps
<1>10. CASE LoadMapping \/ LoadPolicy
  BY <1>10, QuietKeyStep DEF LoadMapping, LoadPolicy, serviceObject, Procs, Steps
<1>11. CASE Wire
  <2>1. /\ UNCHANGED <<keyVars, known>>
        /\ pipeline'.key = key["service"]
        /\ pc["service"] = "wire" /\ pc' = [pc EXCEPT !["service"] = "idle"]
    BY <1>11 DEF Wire, Pipeline
  <2>. QED
    BY <2>1 DEF keyVars, Procs, Steps
<1>12. CASE Stop
  BY <1>12, QuietKeyStep DEF Stop, serviceObject
<1>13. CASE Ingest
  BY <1>13 DEF Ingest, keyVars, serviceObject
<1>14. ASSUME NEW m \in Mappings, EditMapping(m)
       PROVE  KeyInv'
  BY <1>14, QuietKeyStep DEF EditMapping, serviceVars, serviceObject
<1>15. ASSUME NEW p \in Policies, EditPolicy(p)
       PROVE  KeyInv'
  BY <1>15, QuietKeyStep DEF EditPolicy, serviceVars, serviceObject
<1>16. CASE CrashKeygen
  BY <1>16 DEF CrashKeygen, Die, serviceVars, serviceObject, Procs, Steps
<1>17. CASE CrashService
  BY <1>17 DEF CrashService, Die, Procs, Steps
<1>18. CASE UNCHANGED vars
  BY <1>18, QuietKeyStep DEF vars, serviceVars, serviceObject
<1>. QED
  BY <1>1, <1>2, <1>3, <1>4, <1>5, <1>6, <1>7, <1>8, <1>9, <1>10, <1>11,
     <1>12, <1>13, <1>14, <1>15, <1>16, <1>17, <1>18 DEF Next

\* With a configured path, and unless two processes created the file at once,
\* the source has one identity for ever: through restarts, crashes and keygen
\* (factory.py, _load_or_create_software_key).
THEOREM IdentityIsStable == Spec => []OneIdentity
<1>1. KeyInv => OneIdentity
  BY DEF KeyInv, KeysAgree, OneIdentity
<1>2. KeyInv /\ [Next]_vars => KeyInv'
  BY KeyStep
<1>. QED
  BY <1>1, <1>2, KeyInit, PTL DEF Spec

-----------------------------------------------------------------------------
(* The service object.                                                     *)

\* Type correctness of what the next invariant speaks of.
ServiceTypes ==
    /\ pc \in [Procs -> Steps]
    /\ taken \in [mapping : Mappings \cup {None}, policy : Policies \cup {None}]
    /\ files \in [mapping : Mappings, policy : Policies]
    /\ opened \in Nat /\ open \subseteq Nat
    /\ state \in Nat \cup {None}

\* What a start has assigned by each of its steps, and that only a stop
\* closes what is in use: stores opened by a start are left open by it.
StartAssigns ==
    /\ pc["service"] # "idle" => state \in open
    /\ pc["service"] \in {"mapping", "policy", "wire"} =>
           core = state /\ expectation # None
    /\ pc["service"] \in {"policy", "wire"} => labels = taken.mapping
    /\ pipeline # None => expectation # None /\ state # None
    /\ pipeline # None /\ ~stopped => state \in open /\ core \in open

ServiceInv ==
    ServiceTypes /\ StartAssigns /\ ReportedIsRunning /\ OrphansNeedAFailedStart

LEMMA ServiceInit == Init => ServiceInv
BY DEF Init, ServiceInv, ServiceTypes, StartAssigns, ReportedIsRunning,
       OrphansNeedAFailedStart, Nothing, Procs, Steps

\* Steps that leave the service object, its stores and its thread's place in
\* start, but for steps on the key.
LEMMA QuietServiceStep ==
    ASSUME ServiceInv, UNCHANGED serviceVars,
           files' \in [mapping : Mappings, policy : Policies], pc' \in [Procs -> Steps],
           \/ pc'["service"] = pc["service"]
           \/ /\ pc["service"] # "idle"
              /\ pc'["service"] \in {"create", "write", "signer"}
    PROVE  ServiceInv'
BY DEF ServiceInv, ServiceTypes, StartAssigns, ReportedIsRunning,
       OrphansNeedAFailedStart, serviceVars, serviceObject

\* An exception on the way through start.
LEMMA RaiseStep ==
    ASSUME ServiceInv, Raise, pc["service"] # "idle",
           core' = core \/ core' = state
    PROVE  ServiceInv'
<1>1. /\ pc' = [pc EXCEPT !["service"] = "idle"]
      /\ startFailed' /\ stopped' = stopped /\ orphaned' = orphaned
      /\ UNCHANGED <<files, state, expectation, labels, pipeline, taken,
                     opened, open>>
  BY DEF Raise, Goto
<1>2. ServiceTypes'
  BY <1>1 DEF ServiceInv, ServiceTypes, Procs, Steps
<1>3. StartAssigns'
  BY <1>1 DEF ServiceInv, ServiceTypes, StartAssigns, Procs
<1>4. ReportedIsRunning'
  BY <1>1 DEF ReportedIsRunning
<1>5. OrphansNeedAFailedStart'
  BY <1>1, Zenon DEF ServiceInv, OrphansNeedAFailedStart
<1>. QED
  BY <1>2, <1>3, <1>4, <1>5 DEF ServiceInv

LEMMA ServiceStep ==
    ASSUME ServiceInv, [Next]_vars
    PROVE  ServiceInv'
<1>. USE DEF ServiceInv, ServiceTypes, Goto, Procs, Steps
<1>1. ASSUME NEW x \in Procs,
             LoadKey(x) \/ GenerateKey(x) \/ CreateKeyFile(x) \/ WriteKey(x)
      PROVE  ServiceInv'
  BY <1>1, QuietServiceStep DEF LoadKey, GenerateKey, CreateKeyFile, WriteKey
<1>2. CASE BeginKeygen \/ KeygenRaises \/ PrintKey
  BY <1>2, QuietServiceStep DEF BeginKeygen, KeygenRaises, PrintKey
<1>3. CASE OpenState
  BY <1>3, NoKeyAssumption
     DEF OpenState, StartAssigns, ReportedIsRunning, OrphansNeedAFailedStart,
         Nothing
<1>4. CASE KeyRaises \/ PullRaises \/ LoadRaises \/ WireRaises
  <2>1. /\ pc["service"] # "idle" /\ Raise
        /\ core' = core \/ core' = state
    BY <1>4 DEF KeyRaises, PullRaises, LoadRaises, WireRaises
  <2>. QED
    BY <2>1, RaiseStep
<1>5. ASSUME NEW e \in Expectations, Pull(e)
      PROVE  ServiceInv'
  BY <1>5, ExpectationsAssumption
     DEF Pull, StartAssigns, ReportedIsRunning, OrphansNeedAFailedStart
<1>6. CASE LoadMapping
  BY <1>6
     DEF LoadMapping, StartAssigns, ReportedIsRunning, OrphansNeedAFailedStart
<1>7. CASE LoadPolicy
  BY <1>7
     DEF LoadPolicy, serviceObject, StartAssigns, ReportedIsRunning,
         OrphansNeedAFailedStart
<1>8. CASE Wire
  BY <1>8, NoKeyAssumption
     DEF Wire, Pipeline, StartAssigns, ReportedIsRunning,
         OrphansNeedAFailedStart
<1>9. CASE Stop
  BY <1>9
     DEF Stop, serviceObject, StartAssigns, ReportedIsRunning,
         OrphansNeedAFailedStart
<1>10. CASE Ingest
  BY <1>10
     DEF Ingest, serviceObject, StartAssigns, ReportedIsRunning,
         OrphansNeedAFailedStart
<1>11. ASSUME NEW m \in Mappings, EditMapping(m)
       PROVE  ServiceInv'
  <2>1. files' \in [mapping : Mappings, policy : Policies]
    BY <1>11 DEF EditMapping
  <2>. QED
    BY <1>11, <2>1, QuietServiceStep DEF EditMapping
<1>12. ASSUME NEW p \in Policies, EditPolicy(p)
       PROVE  ServiceInv'
  <2>1. files' \in [mapping : Mappings, policy : Policies]
    BY <1>12 DEF EditPolicy
  <2>. QED
    BY <1>12, <2>1, QuietServiceStep DEF EditPolicy
<1>13. CASE CrashKeygen
  BY <1>13, QuietServiceStep DEF CrashKeygen, Die
<1>14. CASE CrashService
  BY <1>14
     DEF CrashService, Die, Nothing, StartAssigns, ReportedIsRunning,
         OrphansNeedAFailedStart
<1>15. CASE UNCHANGED vars
  BY <1>15, QuietServiceStep DEF vars
<1>. QED
  BY <1>1, <1>2, <1>3, <1>4, <1>5, <1>6, <1>7, <1>8, <1>9, <1>10, <1>11,
     <1>12, <1>13, <1>14, <1>15 DEF Next

LEMMA ServiceInvariance == Spec => []ServiceInv
<1>1. ServiceInv /\ [Next]_vars => ServiceInv'
  BY ServiceStep
<1>. QED
  BY <1>1, ServiceInit, PTL DEF Spec

\* What health reports and callbacks go by is what the pipeline runs, unless a
\* start has failed since it was wired; and health says that the service is
\* ready just when it can ingest, unless it was stopped or a start has failed
\* (service.py, start, health).
THEOREM HealthIsTrue == Spec => []HealthIsTruthful
<1>1. ServiceInv => HealthIsTruthful
  BY NoKeyAssumption
     DEF ServiceInv, ServiceTypes, StartAssigns, ReportedIsRunning,
         HealthIsExact, HealthIsTruthful, CanIngest, Ready
<1>. QED
  BY <1>1, ServiceInvariance, PTL

\* A binding that replaces another is followed by its package, unless a start
\* has failed and the service was stopped (service.py, ingest).
THEOREM OrphansAreAccountedFor == Spec => []OrphansNeedAFailedStart
<1>1. ServiceInv => OrphansNeedAFailedStart
  BY DEF ServiceInv
<1>. QED
  BY <1>1, ServiceInvariance, PTL
-----------------------------------------------------------------------------
(* The domains of the state.                                               *)

\* A process that is past drawing or loading a key holds one, and a start
\* under way has opened the store it holds.
TypeInv ==
    /\ TypeOK
    /\ \A x \in Procs : pc[x] \in Creating \cup Holding => key[x] \in 1 .. drawn
    /\ pc["service"] # "idle" => state \in 1 .. opened

LEMMA TypeInit == Init => TypeInv
BY BoundsAssumption, KeyPathsAssumption
   DEF Init, TypeInv, TypeOK, Procs, Steps, Creating, Holding

\* Steps that leave keys and stores: a process may move on if it holds what
\* the next place needs.
LEMMA QuietTypeStep ==
    ASSUME TypeInv, UNCHANGED <<keyVars, opened, open, state, pipeline>>,
           core' \in {core, state},
           core' = state => pc["service"] # "idle" \/ core' = core,
           known' \subseteq 1 .. drawn,
           files' \in [mapping : Mappings, policy : Policies],
           pc' \in [Procs -> Steps],
           \A x \in Procs :
               /\ pc'[x] \in Creating \cup Holding =>
                      pc[x] \in Creating \cup Holding
               /\ pc'[x] = "idle" \/ pc[x] # "idle" \/ x # "service"
    PROVE  TypeInv'
BY DEF TypeInv, TypeOK, keyVars, Procs

LEMMA TypeStep ==
    ASSUME TypeInv, [Next]_vars
    PROVE  TypeInv'
<1>. USE DEF Goto, Creating, Holding
<1>0. /\ drawn \in Nat /\ opened \in Nat /\ drawn \in 0 .. MaxKeys
      /\ pc \in [Procs -> Steps] /\ key \in [Procs -> 0 .. drawn]
      /\ files \in [mapping : Mappings, policy : Policies]
      /\ known \subseteq 1 .. drawn
  BY BoundsAssumption DEF TypeInv, TypeOK
<1>1. ASSUME NEW x \in Procs, LoadKey(x)
      PROVE  TypeInv'
  <2>1. keyFile \in 1 .. drawn
    BY <1>1 DEF LoadKey, FileExists, TypeInv, TypeOK
  <2>. QED
    BY <1>0, <1>1, <2>1
       DEF LoadKey, TypeInv, TypeOK, serviceVars, serviceObject, Steps, Procs
<1>2. ASSUME NEW x \in Procs, GenerateKey(x)
      PROVE  TypeInv'
  <2>1. /\ drawn' = drawn + 1 /\ drawn < MaxKeys
        /\ key' = [key EXCEPT ![x] = drawn + 1]
        /\ pc[x] = "keys"
        /\ pc' = [pc EXCEPT ![x] = IF keyPath THEN "create" ELSE "signer"]
        /\ UNCHANGED <<keyPath, keyFile, files, known, opened, open, state,
                       core, pipeline>>
    BY <1>2 DEF GenerateKey, serviceVars, serviceObject
  <2>2. drawn' \in 0 .. MaxKeys /\ 1 .. drawn \subseteq 1 .. drawn'
    BY <1>0, <2>1, BoundsAssumption
  <2>3. key' \in [Procs -> 0 .. drawn']
    BY <1>0, <2>1
  <2>4. pc' \in [Procs -> Steps]
    BY <1>0, <2>1 DEF Steps
  <2>5. \A y \in Procs : pc'[y] \in Creating \cup Holding =>
                             key'[y] \in 1 .. drawn'
    BY <1>0, <2>1 DEF TypeInv
  <2>6. pc'["service"] # "idle" => pc["service"] # "idle"
    BY <1>0, <2>1 DEF Procs
  <2>. QED
    BY <2>1, <2>2, <2>3, <2>4, <2>5, <2>6 DEF TypeInv, TypeOK
<1>3. ASSUME NEW x \in Procs, CreateKeyFile(x) \/ WriteKey(x)
      PROVE  TypeInv'
  BY <1>0, <1>3
     DEF CreateKeyFile, WriteKey, TypeInv, TypeOK, serviceVars, serviceObject,
         Steps, Procs
<1>4. CASE BeginKeygen \/ KeygenRaises
  BY <1>0, <1>4, QuietTypeStep
     DEF BeginKeygen, KeygenRaises, serviceVars, serviceObject, Procs, Steps
<1>5. CASE PrintKey
  <2>1. key["keygen"] \in 1 .. drawn
    BY <1>5 DEF PrintKey, TypeInv, Procs
  <2>. QED
    BY <1>0, <1>5, <2>1, QuietTypeStep
       DEF PrintKey, serviceVars, serviceObject, Procs, Steps
<1>6. CASE OpenState
  BY <1>0, <1>6, BoundsAssumption
     DEF OpenState, keyVars, TypeInv, TypeOK, Procs, Steps
<1>7. CASE KeyRaises \/ LoadRaises \/ WireRaises
  BY <1>0, <1>7, QuietTypeStep
     DEF KeyRaises, LoadRaises, WireRaises, Raise, Procs, Steps
<1>8. CASE PullRaises \/ \E e \in Expectations : Pull(e)
  BY <1>0, <1>8, QuietTypeStep DEF PullRaises, Pull, Raise, Procs, Steps
<1>9. CASE LoadMapping \/ LoadPolicy
  BY <1>0, <1>9, QuietTypeStep
     DEF LoadMapping, LoadPolicy, serviceObject, Procs, Steps
<1>10. CASE Wire
  <2>1. /\ UNCHANGED <<keyVars, known, files, opened, open, state, core>>
        /\ pipeline'.key = key["service"] /\ pipeline'.state = state
        /\ pc["service"] = "wire" /\ pc' = [pc EXCEPT !["service"] = "idle"]
    BY <1>10 DEF Wire, Pipeline
  <2>2. key["service"] \in 1 .. drawn /\ state \in 1 .. opened
    BY <2>1 DEF TypeInv, Procs
  <2>. QED
    BY <1>0, <2>1, <2>2 DEF TypeInv, TypeOK, keyVars, Procs, Steps
<1>11. CASE Stop
  BY <1>0, <1>11 DEF Stop, TypeInv, TypeOK, keyVars, serviceObject
<1>12. CASE Ingest
  <2>1. pipeline.key \in 1 .. drawn
    BY <1>12 DEF Ingest, TypeInv, TypeOK
  <2>. QED
    BY <1>0, <1>12, <2>1, QuietTypeStep DEF Ingest, serviceObject
<1>13. ASSUME NEW m \in Mappings, EditMapping(m)
       PROVE  TypeInv'
  BY <1>0, <1>13, QuietTypeStep DEF EditMapping, serviceVars, serviceObject
<1>14. ASSUME NEW p \in Policies, EditPolicy(p)
       PROVE  TypeInv'
  BY <1>0, <1>14, QuietTypeStep DEF EditPolicy, serviceVars, serviceObject
<1>15. CASE CrashKeygen
  BY <1>0, <1>15
     DEF CrashKeygen, Die, TypeInv, TypeOK, serviceVars, serviceObject, Procs,
         Steps
<1>16. CASE CrashService
  BY <1>0, <1>16, BoundsAssumption
     DEF CrashService, Die, TypeInv, TypeOK, Procs, Steps
<1>17. CASE UNCHANGED vars
  BY <1>0, <1>17, QuietTypeStep DEF vars, serviceVars, serviceObject
<1>. QED
  BY <1>1, <1>2, <1>3, <1>4, <1>5, <1>6, <1>7, <1>8, <1>9, <1>10, <1>11,
     <1>12, <1>13, <1>14, <1>15, <1>16, <1>17 DEF Next

\* The state stays in its domains: no process signs with a key that was not
\* drawn, and no handle is of a store that was not opened (service.py, start,
\* ingest; factory.py, build_keystore).
THEOREM TypeCorrect == Spec => []TypeOK
<1>1. TypeInv => TypeOK
  BY DEF TypeInv
<1>2. TypeInv /\ [Next]_vars => TypeInv'
  BY TypeStep
<1>. QED
  BY <1>1, <1>2, TypeInit, PTL DEF Spec

-----------------------------------------------------------------------------
(* The rules for callbacks.                                                *)

\* Of the places where a list has a level there is a last one.
LEMMA LastPlace ==
    ASSUME NEW order, Len(order) \in Nat, DOMAIN order = 1 .. Len(order),
           NEW k \in DOMAIN order
    PROVE  \E i \in DOMAIN order :
               /\ order[i] = order[k]
               /\ \A j \in DOMAIN order : order[j] = order[k] => j <= i
<1>. DEFINE n == Len(order)
            after == {n - i : i \in {j \in DOMAIN order : order[j] = order[k]}}
<1>1. after \in SUBSET Nat /\ n - k \in after
  OBVIOUS
<1>2. PICK m \in after : \A y \in after : <<y, m>> \notin OpToRel(<, Nat)
  BY <1>1, NatLessThanWellFounded, WFMin
<1>3. PICK i \in DOMAIN order : order[i] = order[k] /\ m = n - i
  OBVIOUS
<1>4. \A y \in after : ~(y < m)
  BY <1>1, <1>2 DEF OpToRel
<1>5. ASSUME NEW j \in DOMAIN order, order[j] = order[k]
      PROVE  j <= i
  <2>1. n - j \in after
    BY <1>5
  <2>2. ~(n - j < n - i)
    BY <1>3, <1>4, <2>1
  <2>. QED
    BY <2>2
<1>. QED
  BY <1>3, <1>5

\* A level has the rank of its last place; what has none, the other rank.
LEMMA RankIs ==
    ASSUME NEW order, Len(order) \in Nat, DOMAIN order = 1 .. Len(order),
           NEW c, NEW otherwise
    PROVE  \/ /\ \A i \in DOMAIN order : order[i] # c
              /\ RankIn(order, c, otherwise) = otherwise
           \/ /\ RankIn(order, c, otherwise) \in DOMAIN order
              /\ order[RankIn(order, c, otherwise)] = c
              /\ \A i \in DOMAIN order :
                     order[i] = c => i <= RankIn(order, c, otherwise)
<1>1. CASE \A i \in DOMAIN order : order[i] # c
  BY <1>1 DEF RankIn
<1>2. ASSUME NEW k \in DOMAIN order, order[k] = c
      PROVE  /\ RankIn(order, c, otherwise) \in DOMAIN order
             /\ order[RankIn(order, c, otherwise)] = c
             /\ \A i \in DOMAIN order :
                    order[i] = c => i <= RankIn(order, c, otherwise)
  <2>. DEFINE Greatest(i) == /\ order[i] = c
                             /\ \A j \in DOMAIN order : order[j] = c => j <= i
  <2>1. \E i \in DOMAIN order : Greatest(i)
    BY <1>2, LastPlace
  <2>2. RankIn(order, c, otherwise) = CHOOSE i \in DOMAIN order : Greatest(i)
    BY <1>2 DEF RankIn
  <2>. DEFINE r == CHOOSE i \in DOMAIN order : Greatest(i)
  <2>3. r \in DOMAIN order /\ Greatest(r)
    BY <2>1
  <2>. HIDE DEF r
  <2>. QED
    BY <2>2, <2>3
<1>. QED
  BY <1>1, <1>2

\* A request is let through if it clears the level, or comes from a managed
\* device where the levels have none, and has a lawful basis.
LEMMA AllowedIs ==
    ASSUME NEW levels \in Levels, NEW q
    PROVE  Denial(AccessRules(levels), q) = "none" <=>
               /\ q.lawfulBasis # NoBasis
               /\ IF \E i \in DOMAIN levels : levels[i] = "RESTRICTED"
                  THEN RankIn(levels, q.clearance, 0) >=
                           RankIn(levels, "RESTRICTED", Len(levels) + 1)
                  ELSE q.devicePosture = "managed-attested"
<1>. DEFINE rules == AccessRules(levels)
            has == \E i \in DOMAIN levels : levels[i] = "RESTRICTED"
<1>1. /\ DOMAIN rules = {1, 2}
      /\ rules[2].reason = "lawful-basis"
      /\ has => /\ rules[1].reason = "clearance"
                /\ rules[1].minimum = "RESTRICTED"
                /\ rules[1].order = levels
      /\ ~has => /\ rules[1].reason = "device-posture"
                 /\ rules[1].acceptable = {"managed-attested"}
  BY DEF AccessRules
<1>. HIDE DEF has, rules
<1>2. Evaluates(rules[2], q) <=> q.lawfulBasis # NoBasis
  BY <1>1 DEF Evaluates
<1>3. has => (Evaluates(rules[1], q) <=>
                  RankIn(levels, q.clearance, 0) >=
                      RankIn(levels, "RESTRICTED", Len(levels) + 1))
  BY <1>1 DEF Evaluates, Clears
<1>4. ~has => (Evaluates(rules[1], q) <=> q.devicePosture = "managed-attested")
  BY <1>1 DEF Evaluates
<1>5. Denial(rules, q) = "none" <=>
          Evaluates(rules[1], q) /\ Evaluates(rules[2], q)
  <2>1. CASE Evaluates(rules[1], q) /\ Evaluates(rules[2], q)
    BY <1>1, <2>1 DEF Denial
  <2>2. CASE ~(Evaluates(rules[1], q) /\ Evaluates(rules[2], q))
    <3>. DEFINE First(i) == /\ ~Evaluates(rules[i], q)
                            /\ \A j \in 1 .. i - 1 : Evaluates(rules[j], q)
    <3>1. \E i \in DOMAIN rules : First(i)
      <4>1. CASE ~Evaluates(rules[1], q)
        BY <1>1, <4>1
      <4>2. CASE Evaluates(rules[1], q)
        <5>1. 1 .. 2 - 1 = {1}
          OBVIOUS
        <5>. QED
          BY <1>1, <2>2, <4>2, <5>1
      <4>. QED
        BY <4>1, <4>2
    <3>2. PICK i \in DOMAIN rules : i = CHOOSE j \in DOMAIN rules : First(j)
      BY <3>1
    <3>3. Denial(rules, q) = rules[i].reason
      BY <1>1, <2>2, <3>2 DEF Denial
    <3>4. rules[i].reason # "none"
      BY <1>1
    <3>. QED
      BY <2>2, <3>3, <3>4
  <2>. QED
    BY <2>1, <2>2
<1>. QED
  BY <1>2, <1>3, <1>4, <1>5 DEF rules, has

\* No request is refused for a higher clearance, and none is let through below
\* RESTRICTED where the levels have it, or without a lawful basis, whatever
\* the vocabulary, repetitions in it included (service.py,
\* _build_access_policy; access.py, MinimumClearance).
THEOREM ClearanceDecides == Spec => []RulesAreMonotone
<1>1. ASSUME NEW levels \in Levels, NEW q \in Requests,
             Denial(AccessRules(levels), q) = "none"
      PROVE  /\ q.lawfulBasis # NoBasis
             /\ \A c \in {levels[i] : i \in DOMAIN levels} :
                    RankIn(levels, c, 0) >= RankIn(levels, q.clearance, 0) =>
                        Denial(AccessRules(levels),
                               [q EXCEPT !.clearance = c]) = "none"
             /\ \A i \in DOMAIN levels :
                    levels[i] = "RESTRICTED" =>
                        RankIn(levels, q.clearance, 0) >= i
  <2>. DEFINE has == \E i \in DOMAIN levels : levels[i] = "RESTRICTED"
              Rank1(c) == RankIn(levels, c, 0)
              minimum == RankIn(levels, "RESTRICTED", Len(levels) + 1)
  <2>0. Len(levels) \in Nat /\ DOMAIN levels = 1 .. Len(levels)
    BY VocabulariesAssumption
  <2>1. /\ q.lawfulBasis # NoBasis
        /\ has => Rank1(q.clearance) >= minimum
        /\ ~has => q.devicePosture = "managed-attested"
    BY <1>1, AllowedIs
  <2>2. ASSUME NEW c
        PROVE  Rank1(c) \in Nat
    BY <2>0, RankIs
  <2>3. has => /\ minimum \in Nat
               /\ \A i \in DOMAIN levels :
                      levels[i] = "RESTRICTED" => i <= minimum
    BY <2>0, RankIs
  <2>4. ASSUME NEW c, Rank1(c) >= Rank1(q.clearance)
        PROVE  Denial(AccessRules(levels), [q EXCEPT !.clearance = c]) = "none"
    <3>. DEFINE raised == [q EXCEPT !.clearance = c]
    <3>1. /\ raised.clearance = c
          /\ raised.lawfulBasis = q.lawfulBasis
          /\ raised.devicePosture = q.devicePosture
      BY RequestsAssumption
    <3>. HIDE DEF raised
    <3>2. has => Rank1(c) >= minimum
      <4>. HIDE DEF has, Rank1, minimum
      <4>. QED
        BY <2>1, <2>2, <2>3, <2>4
    <3>3. Denial(AccessRules(levels), raised) = "none"
      BY <2>1, <3>1, <3>2, AllowedIs
    <3>. QED
      BY <3>3 DEF raised
  <2>5. ASSUME NEW i \in DOMAIN levels, levels[i] = "RESTRICTED"
        PROVE  Rank1(q.clearance) >= i
    <3>1. has /\ i \in Nat
      BY <2>0, <2>5
    <3>. HIDE DEF has, Rank1, minimum
    <3>. QED
      BY <2>1, <2>2, <2>3, <2>5, <3>1
  <2>. QED
    BY <2>1, <2>4, <2>5
<1>2. RulesAreMonotone
  BY <1>1 DEF RulesAreMonotone, NotMonotone, ClearanceIsMonotone
<1>. QED
  BY <1>2, PTL
=============================================================================
