---------------------------- MODULE AssertionStore ----------------------------
(***************************************************************************)
(* The assertion store of the reference core (rachis/assertions.py): a log *)
(* of assertions, marks on them (superseded, withdrawn, flagged), and the  *)
(* tombstones through which a merged or split entity id still resolves.    *)
(*                                                                         *)
(* An assertion's id is its place in the log, an entity's the number       *)
(* new_entity_id gave it.  Time is counted in assertions recorded: a call  *)
(* at time Len(log) follows the recording of the last of them.  The store  *)
(* has one caller at a time.                                               *)
(***************************************************************************)
EXTENDS Naturals, Sequences, SequencesExt, FiniteSets, Labels

CONSTANTS
    UsedLabels,     \* the labels callers give
    MaxSources,     \* bound: how many assertions one is derived from
    MaxLog,         \* bound: assertions
    MaxEntities,    \* bound: entity ids
    MaxSize         \* bound: entity ids and twice the assertions

ASSUME StoreAssumption ==
    /\ UsedLabels \subseteq Label
    /\ MaxSources \in Nat
    /\ MaxLog \in Nat
    /\ MaxEntities \in Nat
    /\ MaxSize \in Nat

VARIABLES
    log,            \* _log, with _by_id
    entities,       \* how many ids new_entity_id has given
    tombstones      \* _tombstones: successor ids, {} for an id that has none

vars == <<log, entities, tombstones>>

EntityIds == 1 .. MaxEntities
None == 0           \* of a mark or a reference that is not set

\* The dataclass: what is asserted, then the marks of supersession and
\* withdrawal.  The body matters for merges and splits only; ALIAS, LINK and
\* NOTE are as ATTRIBUTE, whose values are left out.
Assertion ==
    [type : {"attribute", "merge", "split"},
     subject : EntityIds,
     body : SUBSET EntityIds,
     label : UsedLabels,
     derivedFrom : SUBSET (1 .. MaxLog),
     supersedes : 0 .. MaxLog,
     supersededAt : 0 .. MaxLog,
     withdrawnAt : 0 .. MaxLog,
     flagged : BOOLEAN]

NewAssertion(type, subject, body, label, sources) ==
    [type |-> type, subject |-> subject, body |-> body, label |-> label,
     derivedFrom |-> sources, supersedes |-> None, supersededAt |-> None,
     withdrawnAt |-> None, flagged |-> FALSE]

Init ==
    /\ log = << >>
    /\ entities = 0
    /\ tombstones = [e \in EntityIds |-> {}]

\* The bound of both counters leaves room.
Room(assertions, ids) ==
    2 * (Len(log) + assertions) + entities + ids <= MaxSize

\* A caller makes up a subject.
NewEntity ==
    /\ entities < MaxEntities
    /\ Room(0, 1)
    /\ entities' = entities + 1
    /\ UNCHANGED <<log, tombstones>>

\* assert_ with whatever the caller built.
AssertFact(new) ==
    /\ Len(log) < MaxLog
    /\ Room(1, 0)
    /\ log' = Append(log, new)
    /\ UNCHANGED <<entities, tombstones>>

\* Faulty variants: the stale assertion is replaced where it stands, or it is
\* not marked.
SupersedeInPlace(old, new) ==
    /\ Len(log) < MaxLog
    /\ Room(1, 0)
    /\ log' = [log EXCEPT ![old] = [new EXCEPT !.supersedes = old]]
    /\ UNCHANGED <<entities, tombstones>>
SupersedeUnmarked(old, new) ==
    /\ Len(log) < MaxLog
    /\ Room(1, 0)
    /\ log' = Append(log, [new EXCEPT !.supersedes = old])
    /\ UNCHANGED <<entities, tombstones>>

\* supersede: old may be superseded or withdrawn already, nobody looks.
Supersede(old, new) ==
    /\ Len(log) < MaxLog
    /\ Room(1, 0)
    /\ log' = Append([log EXCEPT ![old].supersededAt = Len(log)],
                     [new EXCEPT !.supersedes = old])
    /\ UNCHANGED <<entities, tombstones>>

\* Faulty variants: the mark carries the next time, or only live dependents
\* are flagged.
WithdrawNext(target) ==
    /\ log' = [i \in DOMAIN log |->
                  [log[i] EXCEPT
                     !.withdrawnAt = IF i = target THEN Len(log) + 1 ELSE @,
                     !.flagged = @ \/ target \in log[i].derivedFrom]]
    /\ UNCHANGED <<entities, tombstones>>
WithdrawLive(target) ==
    /\ log' = [i \in DOMAIN log |->
                  [log[i] EXCEPT
                     !.withdrawnAt = IF i = target THEN Len(log) ELSE @,
                     !.flagged = @ \/ /\ target \in log[i].derivedFrom
                                      /\ log[i].supersededAt = None]]
    /\ UNCHANGED <<entities, tombstones>>

\* withdraw, with its cascade over the log as it stands.
Withdraw(target) ==
    /\ log' = [i \in DOMAIN log |->
                  [log[i] EXCEPT
                     !.withdrawnAt = IF i = target THEN Len(log) ELSE @,
                     !.flagged = @ \/ target \in log[i].derivedFrom]]
    /\ UNCHANGED <<entities, tombstones>>

\* Faulty variant: one of the two ids gets no tombstone.
MergeIntoOne(a, b, label) ==
    /\ entities < MaxEntities
    /\ Len(log) < MaxLog
    /\ Room(1, 1)
    /\ LET merged == entities + 1
       IN  /\ entities' = merged
           /\ tombstones' = [tombstones EXCEPT ![a] = {merged}]
           /\ log' = Append(log, NewAssertion("merge", merged, {a, b}, label,
                                              {}))

\* merge: both ids point to the new one, and only there.
Merge(a, b, label) ==
    /\ entities < MaxEntities
    /\ Len(log) < MaxLog
    /\ Room(1, 1)
    /\ LET merged == entities + 1
       IN  /\ entities' = merged
           /\ tombstones' = [tombstones EXCEPT ![a] = {merged},
                                               ![b] = {merged}]
           /\ log' = Append(log, NewAssertion("merge", merged, {a, b}, label,
                                              {}))

\* Faulty variant: the counter of ids moves by one only.
SplitCountingOne(e, label) ==
    /\ entities + 1 < MaxEntities
    /\ Len(log) < MaxLog
    /\ Room(1, 2)
    /\ LET parts == {entities + 1, entities + 2}
       IN  /\ entities' = entities + 1
           /\ tombstones' = [tombstones EXCEPT ![e] = parts]
           /\ log' = Append(log, NewAssertion("split", e, parts, label, {}))

\* split: two new ids; what was asserted of e stays with e.
Split(e, label) ==
    /\ entities + 1 < MaxEntities
    /\ Len(log) < MaxLog
    /\ Room(1, 2)
    /\ LET parts == {entities + 1, entities + 2}
       IN  /\ entities' = entities + 2
           /\ tombstones' = [tombstones EXCEPT ![e] = parts]
           /\ log' = Append(log, NewAssertion("split", e, parts, label, {}))

\* What callers build, of a subject and sources they know.
Facts ==
    {NewAssertion("attribute", s, {}, l, D) :
        s \in 1 .. entities, l \in UsedLabels,
        D \in {E \in SUBSET DOMAIN log : Cardinality(E) <= MaxSources}}

Next ==
    \/ NewEntity
    \/ \E new \in Facts : AssertFact(new)
    \/ \E old \in DOMAIN log, new \in Facts : Supersede(old, new)
    \/ \E target \in DOMAIN log : Withdraw(target)
    \/ \E a, b \in 1 .. entities, l \in UsedLabels : a # b /\ Merge(a, b, l)
    \/ \E e \in 1 .. entities, l \in UsedLabels : Split(e, l)

Spec == Init /\ [][Next]_vars

-----------------------------------------------------------------------------
(* Projection, computed at every read.                                     *)

IsLive(a) == a.supersededAt = None /\ a.withdrawnAt = None

\* Faulty variant: one step of the tombstones.
ResolveOnce(e) == {e} \cup tombstones[e]

\* _resolve_subjects: a recursion along the tombstones.
Resolve(e) ==
    LET resolve[d \in EntityIds] ==
            {d} \cup UNION {resolve[s] : s \in tombstones[d]}
    IN  resolve[e]

\* The assertions a profile is built from.
LiveFor(e) ==
    LET subjects == Resolve(e)
    IN  {i \in DOMAIN log : /\ log[i].subject \in subjects
                            /\ IsLive(log[i])
                            /\ ~log[i].flagged}

\* Places of the log, in its order.
InLogOrder(places) ==
    [k \in 1 .. Cardinality(places) |->
        CHOOSE i \in places : Cardinality({j \in places : j < i}) = k - 1]

\* project_entity's label, for a profile that has assertions.
ProfileLabel(e) ==
    LET order == InLogOrder(LiveFor(e))
    IN  HighWater([k \in DOMAIN order |-> log[order[k]].label])

-----------------------------------------------------------------------------
(* Properties.                                                             *)

\* Values of the dataclass's fields and of the tables (lines 36-72).
TypeOK ==
    /\ log \in Seq(Assertion)
    /\ Len(log) <= MaxLog
    /\ entities \in 0 .. MaxEntities
    /\ tombstones \in [EntityIds -> SUBSET EntityIds]

\* "Append-only store ... Never updates in place" (line 62): what was asserted
\* keeps its place and its content, whatever happens later, and no mark is
\* taken back: flags stay, the times of the marks only move on.
HistoryIsKept ==
    /\ Len(log') >= Len(log)
    /\ \A i \in 1 .. Len(log) :
          /\ log'[i].type = log[i].type
          /\ log'[i].subject = log[i].subject
          /\ log'[i].body = log[i].body
          /\ log'[i].label = log[i].label
          /\ log'[i].derivedFrom = log[i].derivedFrom
          /\ log'[i].supersedes = log[i].supersedes
          /\ log[i].flagged => log'[i].flagged
          /\ log'[i].supersededAt >= log[i].supersededAt
          /\ log'[i].withdrawnAt >= log[i].withdrawnAt
AppendOnly == [][HistoryIsKept]_vars

\* Supersession is distinct from withdrawal (lines 10-12): an assertion is
\* flagged exactly if it was in the log when something it is derived from was
\* withdrawn; supersession flags nothing, and being stale saves from no flag.
FlaggedIffSourceWithdrawn ==
    \A i \in DOMAIN log :
        log[i].flagged <=>
            \E d \in log[i].derivedFrom : /\ d \in DOMAIN log
                                          /\ log[d].withdrawnAt >= i

\* "Replace a correct-but-stale assertion" (line 89): what is stale has a
\* replacement in the log, the one recorded next after its mark was set, and
\* what replaces something is later than it and finds it marked.
StaleIsReplaced ==
    \A i \in DOMAIN log :
        /\ log[i].supersededAt # None =>
              /\ log[i].supersededAt + 1 \in DOMAIN log
              /\ log[log[i].supersededAt + 1].supersedes = i
        /\ log[i].supersedes # None =>
              /\ log[i].supersedes < i
              /\ log[log[i].supersedes].supersededAt + 1 >= i

\* Ids only point to ids given later, so that the recursion of
\* _resolve_subjects ends.
TombstonesPointForward ==
    \A e \in EntityIds : \A s \in tombstones[e] : e < s /\ s <= entities

\* What an identity assertion says: merged ids become one, a split id becomes
\* its parts.
StatesSuccessors(a, e) ==
    \/ a.type = "merge" /\ e \in a.body
    \/ a.type = "split" /\ e = a.subject
SuccessorsStated(a) == IF a.type = "merge" THEN {a.subject} ELSE a.body

\* The tombstones hold what the last merge or split about an id says, and
\* nothing the log does not say (merge, split).  It counts the withdrawn ones:
\* withdraw reverses no tombstone, see IdentityIsProjected.
TombstonesFollowLog ==
    \A e \in EntityIds :
        LET about == {i \in DOMAIN log : StatesSuccessors(log[i], e)}
        IN  /\ about = {} => tombstones[e] = {}
            /\ \A i \in about :
                  (\A j \in about : j <= i)
                      => tombstones[e] = SuccessorsStated(log[i])

\* "The profile an analyst sees is a read-time projection over currently valid
\* assertions.  A merge, a split, an alias - each is an attributed, reversible
\* statement" (lines 6-8): what an id resolves to rests on merges and splits of
\* which none was withdrawn.
IdentityIsProjected ==
    \A e \in EntityIds : \A s \in tombstones[e] :
        \E i \in DOMAIN log : /\ StatesSuccessors(log[i], e)
                              /\ s \in SuccessorsStated(log[i])
                              /\ log[i].withdrawnAt = None

\* No two identity assertions give out the same id.
IdsAreFresh ==
    \A i, j \in DOMAIN log :
        (/\ i # j
         /\ log[i].type \in {"merge", "split"}
         /\ log[j].type \in {"merge", "split"})
            => SuccessorsStated(log[i]) \cap SuccessorsStated(log[j]) = {}

\* "once an entity id is assigned it is never reassigned" (line 14): not to
\* an id before it, and not by two assertions (merge, split, new_entity_id).
IdsAreNeverReassigned == TombstonesPointForward /\ IdsAreFresh

\* "an entity id expands through any splits it has undergone" (line 146): the
\* recursion finds the least set that holds the id and is closed under
\* tombstones.
ResolveIsClosure ==
    \A e \in EntityIds :
        LET closed == {S \in SUBSET EntityIds :
                          e \in S /\ \A d \in S : tombstones[d] \subseteq S}
        IN  Resolve(e) \in closed /\ \A S \in closed : Resolve(e) \subseteq S

\* "a profile is never under-classified relative to its sources" (line 118),
\* nor over-classified: its mark is the least that dominates all it is built
\* from, also what is filed under other ids it resolves to.  Only labels that
\* do not combine make the call raise.
ProfileMarkIsLeast ==
    \A e \in 1 .. entities : LiveFor(e) # {} =>
        LET sources == UNION {LiveFor(d) : d \in Resolve(e)}
            labels == {log[i].label : i \in sources}
            combine == /\ \A l, m \in labels : l.policy = m.policy
                       /\ \/ Cardinality(sources) = 1
                          \/ \A l \in labels : Known(l.classification)
            above == {m \in Label : /\ Known(m.classification)
                                    /\ \A l \in labels : Dominates(m, l)}
        IN  IF ~combine THEN ProfileLabel(e) = Raises
            ELSE IF Cardinality(sources) = 1 THEN ProfileLabel(e) \in labels
            ELSE /\ ProfileLabel(e) \in above
                 /\ \A m \in above : Dominates(m, ProfileLabel(e))

\* "the withdrawn assertion and everything derived from it stay in the log,
\* flagged" (lines 98-100): also what is derived from it through others.
RestsOn(i) ==
    CHOOSE S \in SUBSET DOMAIN log :
        /\ log[i].derivedFrom \subseteq S
        /\ \A d \in S : log[d].derivedFrom \subseteq S
        /\ \A T \in SUBSET S :
              (/\ log[i].derivedFrom \subseteq T
               /\ \A d \in T : log[d].derivedFrom \subseteq T) => T = S
EverythingDerivedIsFlagged ==
    \A i \in DOMAIN log :
        (\E d \in RestsOn(i) : log[d].withdrawnAt >= i) => log[i].flagged
=============================================================================
