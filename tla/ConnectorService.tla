-------------------------- MODULE ConnectorService --------------------------
(***************************************************************************)
(* The connector as a running service (service.py): what start takes in,   *)
(* in its order, what a start that raises on the way leaves behind, stop,  *)
(* health and ingest; the signing key it loads or creates (factory.py),    *)
(* which the command keygen does too (cli.py); and the intake of the       *)
(* signed Expectation (core/client.py).                                    *)
(*                                                                         *)
(* start runs in one thread of the service's process, so its steps         *)
(* interleave with keygen, with the owner's edits, with the core and with  *)
(* crashes, not with ingest or stop.                                       *)
(***************************************************************************)
EXTENDS Connect, AccessPolicy

CONSTANTS
    NoFile, Empty,    \* contents of the key file that are no key
    KeyPaths,     \* whether software_key_path may be configured: {TRUE, FALSE}
    Mappings,     \* what the mapping file may hold
    Policies,     \* what the policy file may hold
    Expectations, \* versions of the Expectation the core may serve
    Requests,     \* callback requests
    Levels,       \* the vocabularies that may be configured
    MaxStarts,    \* bound: starts in one life of the service
    MaxKeys       \* bound: keys drawn

ASSUME KeyPathsAssumption == KeyPaths \subseteq BOOLEAN
ASSUME BoundsAssumption == MaxStarts \in Nat /\ MaxKeys \in Nat
ASSUME NoKeyAssumption ==
    NoFile \notin Nat /\ Empty \notin Nat /\ None \notin Nat /\ NoFile # Empty
ASSUME PoliciesAssumption == \A p \in Policies \ {None} : WellFormed(p)
ASSUME ExpectationsAssumption == None \notin Expectations
\* A vocabulary is a list, a request has all its attributes.
ASSUME VocabulariesAssumption ==
    \A levels \in Levels : Len(levels) \in Nat /\ DOMAIN levels = 1 .. Len(levels)
ASSUME RequestsAssumption ==
    \A q \in Requests : DOMAIN q = {"roles", "clearance", "nationality",
                                    "purpose", "lawfulBasis", "devicePosture"}

Procs == {"service", "keygen"}

VARIABLES
    keyPath,      \* whether software_key_path is configured
    keyFile,      \* NoFile, Empty, or the number of a key
    drawn,        \* how many keys have been generated
    pc,           \* where each process is
    key,          \* the key each process holds
    files,        \* [mapping, policy], the files the owner edits
    state, core,  \* the handles of the service's store and of its client's
    expectation, labels, pipeline,    \* what start has assigned
    taken,        \* what the start under way has read
    opened, open, \* StateStore: how many, and which are open
    overlapped, torn,    \* history: two creators at once; one died in between
    known,        \* history: keys that were printed, or signed a package
    startFailed, stopped, orphaned   \* history: since the last start that did

serviceObject == <<state, core, expectation, labels, pipeline>>
keyVars == <<keyPath, keyFile, drawn, key, overlapped, torn>>
serviceVars == <<serviceObject, taken, opened, open, startFailed, stopped,
                 orphaned>>
vars == <<keyVars, serviceVars, pc, files, known>>

\* A handle is the number of its StateStore; None before the first.
Nothing == [mapping |-> None, policy |-> None]

Init ==
    /\ keyPath \in KeyPaths
    /\ keyFile = NoFile /\ drawn = 0
    /\ pc = [x \in Procs |-> "idle"] /\ key = [x \in Procs |-> 0]
    /\ files \in [mapping : Mappings, policy : Policies]
    /\ state = None /\ core = None
    /\ expectation = None /\ labels = None /\ pipeline = None
    /\ taken = Nothing
    /\ opened = 0 /\ open = {}
    /\ overlapped = FALSE /\ torn = FALSE /\ known = {}
    /\ startFailed = FALSE /\ stopped = FALSE /\ orphaned = FALSE

Goto(x, step) == pc' = [pc EXCEPT ![x] = step]

-----------------------------------------------------------------------------
(* build_keystore, by the service and by keygen.                           *)

FileExists == keyPath /\ keyFile # NoFile

\* Faulty variant: a file that exists is taken for a key.
LoadAnyKey(x) ==
    /\ pc[x] = "keys"
    /\ FileExists
    /\ key' = [key EXCEPT ![x] = keyFile]
    /\ Goto(x, "signer")
    /\ UNCHANGED <<keyPath, keyFile, drawn, overlapped, torn, serviceVars,
                   files, known>>

LoadKey(x) ==
    /\ pc[x] = "keys"
    /\ FileExists /\ keyFile # Empty
    /\ key' = [key EXCEPT ![x] = keyFile]
    /\ Goto(x, "signer")
    /\ UNCHANGED <<keyPath, keyFile, drawn, overlapped, torn, serviceVars,
                   files, known>>

\* Faulty variant: the file is not looked for.
GenerateKeyAlways(x) ==
    /\ pc[x] = "keys"
    /\ drawn < MaxKeys
    /\ drawn' = drawn + 1
    /\ key' = [key EXCEPT ![x] = drawn + 1]
    /\ overlapped' = (overlapped \/ \E y \in Procs \ {x} : pc[y] = "create")
    /\ Goto(x, IF keyPath THEN "create" ELSE "signer")
    /\ UNCHANGED <<keyPath, keyFile, torn, serviceVars, files, known>>

GenerateKey(x) ==
    /\ pc[x] = "keys"
    /\ ~FileExists
    /\ drawn < MaxKeys
    /\ drawn' = drawn + 1
    /\ key' = [key EXCEPT ![x] = drawn + 1]
    /\ overlapped' = (overlapped \/ \E y \in Procs \ {x} : pc[y] = "create")
    /\ Goto(x, IF keyPath THEN "create" ELSE "signer")
    /\ UNCHANGED <<keyPath, keyFile, torn, serviceVars, files, known>>

\* os.open truncates a file that has come to be in the meantime.
CreateKeyFile(x) ==
    /\ pc[x] = "create"
    /\ keyFile' = Empty
    /\ Goto(x, "write")
    /\ UNCHANGED <<keyPath, drawn, key, overlapped, torn, serviceVars, files,
                   known>>

WriteKey(x) ==
    /\ pc[x] = "write"
    /\ keyFile' = key[x]
    /\ Goto(x, "signer")
    /\ UNCHANGED <<keyPath, drawn, key, overlapped, torn, serviceVars, files,
                   known>>

BeginKeygen ==
    /\ pc["keygen"] = "idle"
    /\ Goto("keygen", "keys")
    /\ UNCHANGED <<keyVars, serviceVars, files, known>>

\* An empty file is no key: keygen ends with an exception.
KeygenRaises ==
    /\ pc["keygen"] = "keys" /\ FileExists /\ keyFile = Empty
    /\ Goto("keygen", "idle")
    /\ UNCHANGED <<keyVars, serviceVars, files, known>>

PrintKey ==
    /\ pc["keygen"] = "signer"
    /\ known' = known \cup {key["keygen"]}
    /\ Goto("keygen", "idle")
    /\ UNCHANGED <<keyVars, serviceVars, files>>

-----------------------------------------------------------------------------
(* start.                                                                  *)

Ready == state # None /\ pipeline # None /\ expectation # None

\* The handle there was is neither closed nor kept.
OpenState ==
    /\ pc["service"] = "idle"
    /\ opened < MaxStarts
    /\ opened' = opened + 1
    /\ open' = open \cup {opened + 1}
    /\ state' = opened + 1
    /\ taken' = Nothing
    /\ Goto("service", "keys")
    /\ UNCHANGED <<keyVars, files, known, core, expectation, labels, pipeline,
                   startFailed, stopped, orphaned>>

\* An exception leaves start with what has been assigned so far.
Raise ==
    /\ startFailed' = TRUE
    /\ Goto("service", "idle")
    /\ UNCHANGED <<keyVars, files, known, state, expectation, labels,
                   pipeline, taken, opened, open, stopped, orphaned>>

KeyRaises ==
    /\ pc["service"] = "keys" /\ FileExists /\ keyFile = Empty
    /\ UNCHANGED core
    /\ Raise

\* There is a new client by now.  The core cannot be reached, or what it
\* serves is not signed by it.
PullRaises ==
    /\ pc["service"] = "signer"
    /\ core' = state
    /\ Raise

\* pull_expectation, of one the core has signed.
Pull(e) ==
    /\ pc["service"] = "signer"
    /\ core' = state /\ expectation' = e
    /\ Goto("service", "mapping")
    /\ UNCHANGED <<keyVars, files, known, state, labels, pipeline, taken,
                   opened, open, startFailed, stopped, orphaned>>

\* _load_mapping, and the labels that callbacks will go by.
LoadMapping ==
    /\ pc["service"] = "mapping"
    /\ files.mapping # None
    /\ taken' = [taken EXCEPT !.mapping = files.mapping]
    /\ labels' = files.mapping
    /\ Goto("service", "policy")
    /\ UNCHANGED <<keyVars, files, known, state, core, expectation, pipeline,
                   opened, open, startFailed, stopped, orphaned>>

LoadPolicy ==
    /\ pc["service"] = "policy"
    /\ files.policy # None
    /\ taken' = [taken EXCEPT !.policy = files.policy]
    /\ Goto("service", "wire")
    /\ UNCHANGED <<keyVars, files, known, serviceObject, opened, open,
                   startFailed, stopped, orphaned>>

\* What is not a mapping or not a policy does not load.
LoadRaises ==
    /\ \/ pc["service"] = "mapping" /\ files.mapping = None
       \/ pc["service"] = "policy" /\ files.policy = None
    /\ UNCHANGED core
    /\ Raise

Pipeline ==
    [expectation |-> expectation, mapping |-> taken.mapping,
     policy |-> taken.policy, state |-> state, key |-> key["service"]]

\* Faulty variant: a pipeline there was is kept.
WireOnce ==
    /\ pc["service"] = "wire"
    /\ Compiles(taken.mapping) /\ Conflicts(taken.policy) = {}
    /\ pipeline' = IF pipeline = None THEN Pipeline ELSE pipeline
    /\ startFailed' = FALSE /\ stopped' = FALSE /\ orphaned' = FALSE
    /\ Goto("service", "idle")
    /\ UNCHANGED <<keyVars, files, known, state, core, expectation, labels,
                   taken, opened, open>>

\* MappingEngine compiles, IngestPipeline validates; both replace what the
\* last start has wired.
Wire ==
    /\ pc["service"] = "wire"
    /\ Compiles(taken.mapping) /\ Conflicts(taken.policy) = {}
    /\ pipeline' = Pipeline
    /\ startFailed' = FALSE /\ stopped' = FALSE /\ orphaned' = FALSE
    /\ Goto("service", "idle")
    /\ UNCHANGED <<keyVars, files, known, state, core, expectation, labels,
                   taken, opened, open>>

WireRaises ==
    /\ pc["service"] = "wire"
    /\ ~Compiles(taken.mapping) \/ Conflicts(taken.policy) # {}
    /\ UNCHANGED core
    /\ Raise

-----------------------------------------------------------------------------
(* The service between starts.                                             *)

\* A second stop raises on the closed database and changes nothing; nothing
\* is reset.
Stop ==
    /\ pc["service"] = "idle"
    /\ state \in open
    /\ open' = open \ {state}
    /\ stopped' = TRUE
    /\ UNCHANGED <<keyVars, files, known, pc, serviceObject, taken, opened,
                   startFailed, orphaned>>

\* process binds and signs through the pipeline's store, ingest audits in the
\* service's and queues in the client's; a closed one raises.
Ingest ==
    /\ pc["service"] = "idle"
    /\ pipeline # None /\ pipeline.state \in open
    /\ known' = known \cup {pipeline.key}
    /\ orphaned' = (orphaned \/ ~({state, core} \subseteq open))
    /\ UNCHANGED <<keyVars, files, pc, serviceObject, taken, opened, open,
                   startFailed, stopped>>

-----------------------------------------------------------------------------
EditMapping(m) ==
    /\ files' = [files EXCEPT !.mapping = m]
    /\ UNCHANGED <<keyVars, serviceVars, pc, known>>

EditPolicy(p) ==
    /\ files' = [files EXCEPT !.policy = p]
    /\ UNCHANGED <<keyVars, serviceVars, pc, known>>

Die(x) ==
    /\ torn' = (torn \/ pc[x] = "write")
    /\ key' = [key EXCEPT ![x] = 0]
    /\ Goto(x, "idle")
    /\ UNCHANGED <<keyPath, keyFile, drawn, overlapped, files, known>>

CrashKeygen ==
    /\ Die("keygen")
    /\ UNCHANGED serviceVars

\* A new process has a new service.
CrashService ==
    /\ Die("service")
    /\ state' = None /\ core' = None
    /\ expectation' = None /\ labels' = None /\ pipeline' = None
    /\ taken' = Nothing
    /\ opened' = 0 /\ open' = {}
    /\ startFailed' = FALSE /\ stopped' = FALSE /\ orphaned' = FALSE

Next ==
    \/ \E x \in Procs : \/ LoadKey(x) \/ GenerateKey(x)
                        \/ CreateKeyFile(x) \/ WriteKey(x)
    \/ BeginKeygen \/ KeygenRaises \/ PrintKey
    \/ OpenState \/ KeyRaises \/ PullRaises
    \/ \E e \in Expectations : Pull(e)
    \/ LoadMapping \/ LoadPolicy \/ LoadRaises \/ Wire \/ WireRaises
    \/ Stop \/ Ingest
    \/ \E m \in Mappings : EditMapping(m)
    \/ \E p \in Policies : EditPolicy(p)
    \/ CrashKeygen \/ CrashService

Spec == Init /\ [][Next]_vars

-----------------------------------------------------------------------------
(* Properties.                                                             *)

Handles == 1 .. MaxStarts
Steps == {"idle", "keys", "create", "write", "signer", "mapping", "policy",
          "wire"}

\* The state stays in its domains, and each handle is one that was opened.
TypeOK ==
    /\ keyPath \in BOOLEAN /\ drawn \in 0 .. MaxKeys
    /\ keyFile \in {NoFile, Empty} \cup 1 .. drawn
    /\ pc \in [Procs -> Steps] /\ key \in [Procs -> 0 .. drawn]
    /\ files \in [mapping : Mappings, policy : Policies]
    /\ opened \in 0 .. MaxStarts /\ open \subseteq 1 .. opened
    /\ {state, core} \subseteq {None} \cup 1 .. opened
    /\ known \subseteq 1 .. drawn
    /\ pipeline # None =>
           pipeline.key \in 1 .. drawn /\ pipeline.state \in 1 .. opened

\* The policy of a running pipeline keeps what it protects out of reach of
\* what it releases, whatever was edited since it was read (ingest.py,
\* IngestPipeline.__init__; pipeline/policy.py, validate_policy).
RunningPolicyProtects ==
    pipeline # None => NotReconstructible(pipeline.policy)

\* With a configured path, and unless two processes created it at once, every
\* key that was printed or has signed is the one in the file, so there is only
\* one; and the file is empty only while it is written or after a process
\* died just then (factory.py, _load_or_create_software_key).
OneIdentity ==
    keyPath /\ ~overlapped =>
        /\ \A k \in known : keyFile = k
        /\ pipeline # None => keyFile = pipeline.key
        /\ keyFile = Empty /\ ~torn => \E x \in Procs : pc[x] = "write"

\* Between starts the Expectation that health reports, and the labels that
\* callbacks go by, are those of the pipeline, unless a start has failed since
\* it was wired (service.py, start, health, _label_lookup).
ReportedIsRunning ==
    /\ pc["service"] = "idle" /\ pipeline # None /\ ~startFailed
    => /\ expectation = pipeline.expectation
       /\ labels = pipeline.mapping
       /\ state = pipeline.state /\ core = state

CanIngest ==
    /\ pipeline # None
    /\ {pipeline.state, state, core} \subseteq open

\* A service that says it is ready can ingest, unless it was stopped or a
\* start has failed; one that can ingest says it is ready (service.py, health).
HealthIsExact ==
    pc["service"] = "idle" =>
        /\ Ready /\ ~stopped /\ ~startFailed => CanIngest
        /\ CanIngest => Ready

\* So what health answers is true of the pipeline that runs.
HealthIsTruthful == ReportedIsRunning /\ HealthIsExact

\* A record is bound and then neither audited nor queued only after a start
\* has failed and the service was stopped: until then, what replaced the
\* binding reaches the queue (service.py, ingest).
OrphansNeedAFailedStart == orphaned => startFailed /\ stopped

\* Whoever the rules of a running service let pass is let pass with a higher
\* clearance too, for every vocabulary that may be configured
\* (callback/access.py; service.py, _build_access_policy).
NotMonotone == {levels \in Levels : ~ClearanceIsMonotone(Requests, levels)}
RulesAreMonotone == pipeline # None => NotMonotone = {}
=============================================================================
