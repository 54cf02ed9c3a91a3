# RACHIS in TLA+

Specifications of the RACHIS connector (`src/rachis-delivery/connector`) and of
the reference implementation of the core (`src/rachis-delivery/rachis-reference`),
TLC configurations that check them on small instances, and TLAPS proofs.

## 1. The system

RACHIS lets a source system disclose records to a core without giving up what it
wants to keep. The **connector** runs at the source. It maps a source row onto the
core's Expectation, gives every field a disposition (clear, hash-only, pointer,
withheld), commits all fields to a Merkle root, signs it and sends a disclosure
package. For a pointer field the core may call back; the connector then seals the
value to the requester's key, with a time window, and proves the field against the
root sent earlier. The **reference** package holds the core's side: the ingress
gate, the assertion store, labels, policy, provenance.

| Component | State | Operations | Interacts with |
|---|---|---|---|
| State store (`state/store.py`) | SQLite tables `salts`, `leaf_order`, `audit`, `callbacks`, `outbound`; one lock, one transaction per method | `salt_for`, `save_binding`, `audit`, `enqueue_*`, `pending_outbound`, `due_callbacks`, `mark_*`, `record_attempt` | everything that must survive a crash |
| Core client (`core/client.py`) | cached Expectation | `pull_expectation`, `deliver`, `flush_outbound`, `deliver_due_releases` | transport to the core; store |
| Ingest pipeline, binder (`pipeline/*.py`) | none of its own | `process`, `bind` | store (salts, binding), client |
| Callback handler (`callback/*.py`) | none of its own | `handle` | store, value lookup, sealer |
| Service (`service.py`) | handles, and the configuration read at `start` | `start`, `stop`, `ingest`, `callback`, `tick`, `health` | all of the above |
| Merkle tree, policy, mapping, transforms | none (pure) | hashing, proofs; validation; transformation | binder, pipeline |
| Key custody (`crypto/factory.py`, `software.py`) | key file | load or create, sign, seal | service, handler, the command `keygen` |
| Ingress gate (`rachis/ingress.py`) | roots seen in a window | `verify` | packages from sources |
| Assertion store (`rachis/assertions.py`) | assertion log, tombstones | `assert_`, `supersede`, `withdraw`, `merge`, `split` | ingress |
| Reference source side (`connect.py`, `policy.py`, `provenance.py`, `disclosure.py`, `trust.py`) | salts, revocations, a log | `build_package`, `validate`, `bind`, `handle`, `revoke`, the offline `Validator` | ingress |

What is hard: `ingest`, `callback` and `tick` may run in different threads, and the
store's lock covers one transaction at a time, so everything between two
transactions interleaves; the process may die between any two; a post may be lost,
or its answer may; the core may refuse; windows depend on clocks and their texts;
configuration changes at a restart while bindings persist; `start` may fail half-way
and leave what it has assigned; `keygen` and the service share a key file; packages
and replays reach the gate in any order, and callbacks rest on what was bound last.

What makes each component correct:

* *queues*: nothing accepted is lost; nothing is marked as delivered that was not;
  what the tables and the audit log say happened did happen; retries go on until
  they succeed and then stop;
* *binding and callbacks*: the persisted salts reproduce every root ever saved or
  sent; only a granted request for a field of the saved root releases anything;
  every request leaves an audit entry; the release names a root the core has;
* *policy*: no protected field is derivable from disclosed ones, by any chain;
* *package*: no trace of a protected value is in it; a proof verifies exactly for the
  leaf at its place; one root means one release;
* *ingress*: no package counts twice within the window; what an honest source builds
  is refused only for its labels;
* *assertion store*: history is not rewritten; withdrawn facts and what rests on them
  are visible as such;
* *key custody*: one identity, stable across restarts;
* *service*: what it reports is what runs, and it reports ready only if it can ingest.

## 2. Modules

| Module | Models |
|---|---|
| `AtLeastOnceDelivery` | abstract: what a durable queue promises its callers |
| `OutboundQueue` | `CoreClient.deliver`, `flush_outbound`, `_try_deliver_one`; tables `outbound`, `audit` |
| `OutboundQueue_proofs` | theorems about it |
| `ReleaseQueue` | `CoreClient.deliver_due_releases`; table `callbacks`, the clock |
| `ReleaseQueue_proofs` | theorems about it |
| `CallbackRelease` | `Binder.bind`, `CallbackHandler.handle`, ingest and restart around them; tables `salts`, `leaf_order`, `audit` |
| `CallbackRelease_proofs` | theorems about it |
| `Labels` | the marking arithmetic: `combine`, `dominates`, `high_water` |
| `AssertionStore` | `AssertionStore.assert_`, `supersede`, `withdraw`, `merge`, `split`, `project_entity` |
| `AssertionStore_proofs` | theorems about it |
| `DisclosurePolicy` | dispositions, granularities, `validate`, `policy_hash`, `apply_policy`, of connector and reference; what the constraints are for, stated without the code's loop |
| `Connect` | the transform library and its compilation, both ports of the mapping, `validate_record`, labels, the offline `Validator` |
| `Provenance` | leaves, header, canonical order, Merkle tree, proofs, `Binder.bind` |
| `Provenance_proofs` | what the tree is worth, for any number of leaves |
| `Recursion` | induction, recursive functions and folds, proved once for the operator that is iterated |
| `Ingress` | `Ingress.verify`, the memory of roots |
| `Disclosure` | the reference's `CallbackHandler` and `SaltStore` |
| `Exchange` | a source and the platform: `build_package`, `Ingress`, `Disclosure` together |
| `Exchange_proofs` | theorems about the gate alone, about the packages, and about the exchange |
| `AccessPolicy` | the connector's access rules for callbacks |
| `ConnectorService` | `start`, `stop`, `health`, `ingest`, `keygen`, `pull_expectation` |
| `ConnectorService_proofs` | theorems about the policy, the access rules, and the service that runs them |
| `MC*` | instances for TLC |

How they compose: `OutboundQueue` and `ReleaseQueue` each implement
`AtLeastOnceDelivery` (checked and proved); `CallbackRelease` sees both queues as just
that: what is queued may reach the core at any later time. That a package does in the
end it takes from `queue` under the conditions of that run: the core does not refuse
it, and refuses fewer rows than a flush reads. `AssertionStore` is built on `Labels`.
`Connect` extends `DisclosurePolicy`, `Provenance` extends `Connect`; `Exchange` joins
`Ingress` and `Disclosure` over them, and every action of it is one of theirs, or
`BuildPackage`. What a source has built may reach the gate at any later time and any
number of times, which is what `AtLeastOnceDelivery` allows. `Exchange` implements
`IngressSpec` (proved). `ConnectorService` takes `Connect` and `AccessPolicy` as the
functions its steps call, and leaves to the queue and callback modules what happens
after `ingest`.

**State and steps.** A table is a set, function or sequence over the columns the
code reads. Each thread has a program counter; an action is one transaction of the
store or one post, named after the method. A post has four outcomes: accepted;
accepted with the answer lost; unreachable; refused. `Crash` discards the threads
and keeps the tables; `Restart` is `ConnectorService.start` over the same
database. Hashing is taken as free of collisions: a leaf is the record of what it
commits to, and a root is the function from field names to leaves. The sealing
itself is not modelled.

In `Provenance` a hash is the tuple of the parts hashed, so a root is the tree of
them and a proof verifies or not by computing the root; header leaves, field leaves
and nodes have two, four and three parts and are never equal. `CallbackRelease`
needs less and keeps the function of leaves. A signature is the key and what it
signed. A value is a kind and a text, a text the base and the edits made to it, so
that transforms are told apart without strings. A salt is told by the store it is
drawn from, since a leaf names its field; a store that was lost has another number.

In `Ingress` `verify` is one action in four cases: it has one caller and no step
that waits. `admissions` is history, when each root was admitted by the process that
runs. In `Disclosure` `store`, `revoked` and `log` are the attributes of the salt
store and of the handler; both processes may be replaced at any time.

In `ConnectorService` each step of `start` is an action, since each may raise and
the files, the key file and the core may change between them; a handle is the number
of the `StateStore` it belongs to, so what is mixed after a failed start can be told.
`ingest` is one action here: which handles it needs open is what matters, what it
does with them is in `CallbackRelease` and `OutboundQueue`.

In `AssertionStore` an assertion's id is its place in the log, so `_by_id` is the log
itself, and time counts the assertions recorded. The dataclass keeps what the store
reads or writes: type, subject, the entities a merge or split names, label,
`derived_from` and the four marks. The store has one caller at a time, and its
methods have no step another one could come between: what is hard are the orders of
calls. Projections are operators over the state. A call of `Labels` that raises
gives `Raises`.

Each "faulty variant" in a module is a form an action or a helper would have with
a plausible bug. None is part of a specification; substituting one for the real
definition makes TLC report the property that is meant to guard against it, which
shows that the property can fail.

## 3. Runs

| Run | Result | Question |
|---|---|---|
| `queue` | holds | Do tables, audit log and the core's copies agree, with an ingest thread, a timer, lost answers, refusals and a crash? Is everything the core does not refuse delivered in the end, do reposts end, and is at-least-once delivery implemented? (fewer refused packages than `Limit`) |
| `queue_starved` | violated | The same with `Limit` refused packages: the flush reads nothing else. |
| `releases` | holds | Windows, hand-over in the end, overlapping ticks, at-least-once delivery. |
| `releases_offset` | violated | A window written with another offset than UTC. |
| `callback` | holds | Salts, roots, releases and audit under re-ingest, callbacks, a crash and changed configuration; does the root a release names reach the core, unless its package is refused, starved behind refused ones, or was cut off by a crash before it was queued? |
| `callback_crash` | violated | The same with one crash. |
| `callback_unaudited` | violated | Is every request logged whatever the outcome? |
| `assertions` | holds | Do flags, staleness and withdrawal mean what they should after any calls, do tombstones hold what was last merged or split, withdrawn or not, does resolution end at the closure, is a profile's mark the least above all it rests on, and does history stay? |
| `assertions_cascade` | violated | Is *everything* derived from a withdrawn assertion flagged? |
| `assertions_reversed` | violated | Does what an id resolves to rest on merges and splits that are not withdrawn? |
| `exchange` | holds | Is what an honest source builds refused for its labels only; does anything of a protected value travel; do one root and one release go together; do proofs hold for their leaf alone; is nothing admitted twice within the window; do revocations hold; when does a release fail its proof; do the two ports of the mapping agree; may an owner adopt what the validator proposes? |
| `lifecycle` | holds | Through failed starts, stops, edits, a concurrent `keygen` and crashes: does the policy that runs protect, is there one identity, is what health and callbacks report what runs, is every bound record queued, are the access rules monotone? |

In `queue` and `releases` the type invariant is the first conjunct of `IInv`.

The violated runs are disagreements between the code and its documentation, quoted
under `findings` in `PROJECT.json`.

**Bounds.** `MaxCount` is where the counters saturate: the attempts column and the
copies at the core are read by no code, so a saturated counter changes no behaviour; 2
distinguishes none, once and again. `MaxCrashes` 1 is enough for a crash between any
two steps and the recovery from it. Three packages give an order, a refused one, and
one more than `Limit`. In `callback` the core refuses the version of the record
without its clear field, and `Limit` 2 is reached when both ingests are of that
version; in `callback_crash` it refuses nothing, so the crash is the only cause. An
ingest thread and a timer show the race of a delivery with a flush; two timers, of two
flushes. `MaxIngests` 2 is an ingest and a re-ingest. `MaxTime` 2 gives a window that
is open from the first reading and one that opens later. `CHECK_DEADLOCK FALSE`
appears where all the calls of the bounded instance may be over; the queue modules
never stop, since their timer does not, nor does the assertion store.

The assertion run bounds the log (`MaxLog` 3), the entity ids (`MaxEntities` 4), the
sources of one assertion (`MaxSources` 1) and, with `Room`, two for each assertion and
one for each id by `MaxSize` 8: three assertions with two ids, or two with four. Three
assertions hold a chain of two derivations and a supersession of what is already
stale; four ids a merge of split parts, a second merge or a split of a merged id.
Withdrawal needs no new assertion, so it goes on in a full log. Of the labels one has
the higher level, one a caveat, so that the mark of both is neither, and one is of
another vocabulary, so that it combines with nothing.

The exchange has one record of up to four fields (two to five leaves, so trees with
and without an odd level), with a coded field, a number, a pointer and an extension.
Seven rows, five policies and two labels asked for give 70 calls, of which the
properties of packages look at every one that is accepted, with each salt, and at
each pair, made in the exchange or not. These properties speak of the set of calls
that go wrong, which does not depend on the state, so that TLC computes it once and
compares it with what the source can have built so far. In the exchange itself four
calls are made, two of them at most, in any order and with replays; `Window` 2 and
`MaxTime` 2 give a replay within the window, at its edge and after a restart;
`MaxLosses` 1 a salt drawn anew. Two packages of a partner show refusals at the
signature and at the policy hash.

In `lifecycle` three starts are one that works, one that fails and one after that;
two keys are one for each of service and keygen. The mapping file may compile or not
and the policy file may run, conflict, or not load.

`TombstonesFollowLog` holds of the code and is not what `assertions.py:6-8` promises:
withdrawing a merge or a split leaves its tombstone in force (lines 102-109), so the
property counts withdrawn assertions. `assertions_reversed` is the other half: with
withdrawn ones left out, one split and its withdrawal are enough to violate it.

Three more readings of the documentation hold only in part and are not runs. A second
merge or a split of an id replaces its tombstone (lines 157-158, 169), so it no longer
resolves to the entity it was merged into first. A release may reach the core before
the package with its root does, or without it when that package is refused or starved:
the two queues are independent, and `callback` shows that nothing else but a crash
keeps the package away. The shipped maritime policy (`examples/maritime.py:127-138`)
marks the derivation of `collectionMeans` as accepted, which `validate` skips
(`policy.py:100`), so with `observedAt` put back to clear it still runs, although the
reference's `README.md:40-42` says that it refuses to; `Conflicts` has it as the code
does.

What the runs show of the new parts, beside that the properties hold:

* A failed `start` leaves a mixed service: the Expectation, the labels and the store
  are the new ones, the pipeline is the old, and `health` goes on saying ready.
  `HealthIsTruthful` carries the condition that excludes it.
* After that and a `stop`, `ingest` binds through a store that is still open and
  raises at the closed one: the record's binding is replaced and nothing is queued.
* A service that was stopped says it is ready.
* A key file left empty by a crash stops every later start until it is removed, and
  two creations at once leave a key in the file that was not the one printed.
* `verify` raises, instead of refusing, on a classification the vocabulary does not
  have; every field nobody classified is `UNMARKED`.
* An update that changes only what a pointer points to, or the record's label, has the
  root of the package before it and is refused as a replay.
* A callback releases the value even if its proof fails; the log alone tells.
* A hash-only field carries its text and its salt besides its digest, and a withheld
  field its name, label and proof, which `wire.py:6-8` and `provenance.py:182` call
  absent. Modelled as the code has it; no property is about it.
* `policy_hash` covers neither `protects_at` nor the rationale, `mapping_hash` neither
  sources nor transforms: different policies and mappings have one hash.

**Fairness.** A running thread proceeds and a post returns (weak fairness per thread);
the timer fires again (weak); the process is restarted (weak); a package or release
that the core does not refuse and that is posted again and again is accepted at last
(strong fairness of that outcome: the core is not unreachable for ever). Nothing
obliges a source to ingest or a requester to ask. In `CallbackRelease` some package
that is queued and not refused arrives as long as there is one (weak fairness) while
fewer refused rows are queued than `Limit`: what `QueuedIsDelivered` says in `queue`,
and no more, as `queue_starved` shows. A package that is refused never arrives;
nothing is assumed of releases. `Exchange` and `ConnectorService` assume none: nothing
obliges anyone to start, build, resend or ask.

Where what is to happen is about sets that only grow, the liveness properties are
written as `[]<>` or `<>[]` of the whole set: `[]<>(accepted \ Refused \subseteq
confirmed)` says the same as "whatever is accepted and not refused is confirmed at
some time", with one temporal formula for all packages.

## 4. Proofs

`OutboundQueue_proofs`. `IInv` joins type correctness, `JobsAreQueued` (a thread
works on rows of the table), `MarksAreReceived` (a thread about to mark a row has
seen its post accepted) and `Bookkeeping`. The checked properties compare counters
(attempts, copies, audit entries), and none of them is inductive: between a post
and its audit entry the counters differ by what is under way. `Bookkeeping` adds, to
each comparison, the number of threads that are past the one step and not yet at
the other (`Posting`, `Marking`, `Unsettled`). One lemma (`CountsChange`) says how
a step of one thread changes these numbers; the rest is one case per action. From
`IInv` follow `DeliveredWasReceived`, `CopiesWithinAttempts` and `AuditMatchesTables`,
and the refinement of `AtLeastOnceDelivery`.

`ReleaseQueue_proofs`. `IInv` carries "was due when the tick read the clock" from
the selection to the post. The window property needs a hypothesis,
`Opens[c] <= Text[c]` for every release, which windows written in UTC satisfy and
`releases_offset` shows to be necessary.

`CallbackRelease_proofs`. `RootsReproducible` speaks of roots that were saved or
queued, but a thread computes a root long before it saves it, so `IInv` says the same
of what threads hold in memory: the leaves an ingest has so far, and the saved root
from which a handler took its request's leaf, can be rebuilt from the salts table
(`IngestsOnTrack`, `HandlersOnTrack`). One fact carries this through every
interleaving: a salt, once drawn, is never replaced. For the audit log
`RequestsAreHandledOnce` says that a request has one handler and is handled once, and
that a queued release has no handler that is not about to log it; so a release that is
not logged is one whose request never came to its end, before or after a crash.
`RefusedOnlyOnDrift` follows because a handler that finds the leaf different has the
salt of the binding; what differs then is the label, or a value in clear.

`AssertionStore_proofs`. All methods do one of two things to the log: append an
assertion, possibly marking one as superseded (`Recorded`), or set the marks of a
withdrawal (`Withdrawn`). Each conjunct is shown to survive both, then each action is
shown to be one of them. `FlaggedIffSourceWithdrawn` is not inductive alone: a mark
set at a time still to come would cover assertions recorded after it, and nobody flags
those. `LooksBack` says that there is no such mark, and that what an assertion is
derived from was in the log before it.
`TombstonesFollowLog` and `IdsAreFresh` need `StatedIdsAreGiven`: no assertion names an
id that `new_entity_id` has not given.

That `_resolve_subjects` ends and finds the closure rests on `TombstonesPointForward`:
the function that maps each id to its closure satisfies the recursion, and any two
functions that do are equal, since of the ids on which they differ the greatest could
only differ because of a greater one. `ProfileMarks` is about the fold `high_water`
makes of the labels in log order: after the first k of them it has their least upper
bound, or has raised, and `Combine` is the least upper bound of what it combines
(`CombineIs`).

`Recursion`. Induction and what a recursive definition computes are proved once, with
the operator that is iterated as the module's parameter, and instantiated for
`Parents`, the path up, `Climb`, the transforms of a chain, the fields of a mapping and
`Combine`. A fold is defined through a choice among functions on the parts of its
index set; `FoldIsRecursion` shows that on the parts 1 .. k it is the recursion.

`Provenance_proofs`. Each level of `Tower` is half as long as the one below, so there
is a first level of one node, and `Height` is its number. `ProofVerifies` goes up along
the path: the hash computed so far is the node of the tower above the leaf. For
`RootDeterminesLeaves`, two towers with one root are equal level by level downwards,
as a node has one left and one right part. A last node paired with itself could stand
for two equal neighbours, and a level of one tower for the leaves of a lower one: hence the
two hypotheses, that no two leaves are equal and none is a node. The leaves of a record
satisfy both, since each has its field's name in it, and the header another number of
parts. From this come `ProvesOneLeaf` and `RootDeterminesRecord`.

`ConnectorService_proofs`. `validate` looks at one constraint at a time.
`NoConflictProtects`: if it finds nothing, then for every level of openness, what is
released at that level or above is closed under the constraints that are enforced, so
whatever follows from it by any chain is in it already. Accepted constraints and those
coarser than what they protect are not enforced. `ClearanceDecides` shows of the six
access rules together that a higher clearance never loses access; a vocabulary may
repeat a level, whose rank is then that of its last place.

Of the service there are four invariants. `PolicyInv`: a pipeline's policy has no
conflicts (with `NoConflictProtects`, it protects). `KeyInv`: with a configured path
and no overlap there is at most one process between drawing a key and having written
it, and the key of everyone past that is in the file. `ServiceInv`: where a start is
under way, which handles are its own and which are those of the last one that
succeeded. `TypeInv` adds to `TypeOK` what keeps it: a process past drawing or loading
holds a key that was drawn, and a start under way has opened its store.

`Exchange_proofs`, of the gate. That no root is admitted twice within the window is not
inductive: it needs `MemoryCovers`, an admission within the window is remembered, as of
no earlier time. Pruning keeps it because it drops only what is at least a window old.
Each step of the exchange is a step of the gate or leaves it alone, so the exchange
inherits the theorem.

Of the packages. The properties that speak of what a source can build are proved for
every call there could be, whatever the row, the policy, the mapping and the number of
fields: what is in a package (`ProtectedStays`, `RefusalsHaveCause`), what its tree
proves and fixes (`ProofsTellLeaves`, `SameRootSameValues`, from `Provenance_proofs`),
what the transforms of both ports come to (`PortsDoAgree`, by recursion along a chain
and along the mapping). For `ProposalsAreHarmless` the Validator's proposals guard no
field more finely than the policy releases it already. Two have a hypothesis.
`SameRootSameValues` needs `TextsTell`: the number 5 and the string "5" have one
canonical text (`policy.py`, `_repr`), and nothing else in the leaf tells them apart.
`PortsDoAgree` needs `DistinctTargets`: where two fields have one target the engine runs
the transforms of the last for both. `MCExchange` assumes both, so TLC shows that the
instance it checks satisfies them.

Of the callbacks. `RevocationIsFinal` strengthens `RevocationHolds` with: a denial as
revoked stands in `revoked` as long as the log does. `ProofFailuresHaveCause` and
`TypeCorrect` rest on `SourceInv`: the binding is that of something built, and its
salts are of a store there was.

Assumptions: the sets of threads are finite and disjoint, bounds are natural numbers,
the refused packages are packages; policies are what the models let through, markers
for a missing or empty key file are no keys, and those for no value are no values; a
vocabulary and a mapping are lists, the mapping's transforms are ones both ports have,
a flush reads at least one row, requests and calls have all their attributes, names
sort by distinct code points; the derivations of the Validator's library are coarse
and what they name is protected as exact; the source is enrolled with its key at the
platform; every package a source can build is one the gate may be given. All are
ASSUMEs that TLC evaluates.

Every invariant, action property and refinement that a passing run checks is stated by
a theorem. Only model-checked are the liveness properties (`QueuedIsDelivered`,
`RepostsEnd`, `ReleaseIsDelivered`, `ReleasedRootArrivesBarringFailures`): they
need fairness, hence ENABLED, which TLAPS does not reason about here. No module uses a
RECURSIVE operator.

## 5. Plan

What is left, in this order:

1. The safety half of the liveness properties as theorems: a mark, once set, stays set; a
   package not yet marked is in the table or in a thread's hands, after any crash.
2. **`OutboundQueue` with `Ingress` as its core**: versions of one record out of order,
   a package resent after a lost answer. It needs a decision the repository does not
   make: what a core answers to a replay.
3. `CallbackRelease` over the trees of `Provenance` instead of the function of leaves,
   which `RootDeterminesRecord` shows to lose nothing.

## 6. What is not modelled, and why

* Cryptographic primitives: hashing is free of collisions, signatures and sealing are
  what their callers assume. `pkcs11_stub.py`: every method raises.
* The health report of the keystore; the commands `health` and `audit`, which print.
  `validate` runs on the files what `start` runs on them.
* `config.py`: loading raises before anything exists. The schemas of `models.py` and
  `wire.py` are used as they are declared.
* The correlation digest: a function of the value with a key. With the default
  configuration there is no correlation service and a hash-only field makes every
  ingest raise, as it does in `Applies`.
* Transforms on values the library was not written for (a codelist applied to a list
  raises); `default` with the argument `None`.
* The values of attributes and `export` in the assertion store: the first are opaque to
  it, the second copies the log.
* A clock that goes back.
* `examples/maritime.py`, test doubles, `src/UI-demo`: fakes and a static
  prototype.
