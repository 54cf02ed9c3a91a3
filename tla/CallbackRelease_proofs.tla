----------------------- MODULE CallbackRelease_proofs -----------------------
(***************************************************************************)
(* Proofs about CallbackRelease, for any records, rows, configurations,    *)
(* threads, requests and bounds: whatever the interleaving of ingest and   *)
(* callback threads and wherever the process dies, what was saved can be   *)
(* reproduced, what was released verifies, and the audit log is true.      *)
(***************************************************************************)
EXTENDS CallbackRelease, FiniteSetTheorems, TLAPS

\* What an ingest thread holds in memory: the record it works on, and leaves
\* that the salts table reproduces.
IngestsOnTrack ==
    \A t \in Ingesters :
        /\ ipc[t] # "idle" =>
              /\ ingest[t] \in [record : Records, row : Rows]
              /\ Reproducible(ingest[t].record, leaves[t])
        /\ ipc[t] = "deliver" => <<"ingest", ingest[t].record>> \in audit

\* What a handler holds in memory: the root it read is a saved one, its proof
\* was for the field of the request, and its decision is the outcome of the
\* steps it took.
HandlersOnTrack ==
    \A h \in Handlers :
        /\ hpc[h] # "idle" => request[h] \in arrived
        /\ hpc[h] # "audit" => decision[h] = "none"
        /\ hpc[h] \in {"binding", "prove", "seal", "enqueue"} =>
              request[h].allowed
        /\ hpc[h] \in {"prove", "seal", "enqueue"} =>
              /\ seen[h] \in Roots
              /\ Reproducible(request[h].record, seen[h])
        /\ hpc[h] \in {"seal", "enqueue"} =>
              /\ request[h].field \in DOMAIN seen[h]
              /\ seen[h][request[h].field].value = Empty
        /\ hpc[h] = "audit" => decision[h] \in Decisions
        /\ hpc[h] = "audit" /\ decision[h] = "release" =>
              \E c \in callbacks : c.request = request[h]

\* A request has one handler and is handled once, and in the callbacks table
\* are releases of requests that came in.  A release that is not in the audit
\* log yet has its handler between the two, or its handler was cut off.
RequestsAreHandledOnce ==
    /\ \A h \in Handlers : hpc[h] # "idle" =>
          /\ request[h] \notin ended
          /\ \A g \in Handlers : hpc[g] # "idle" /\ request[g] = request[h]
                                    => g = h
    /\ \A c \in callbacks :
          /\ c.request \in arrived
          /\ \A h \in Handlers : hpc[h] # "idle" /\ request[h] = c.request
                                    => hpc[h] = "audit" /\ decision[h] = "release"

IInv ==
    /\ TypeOK
    /\ RootsReproducible
    /\ ReleasesVerify
    /\ AuditIsTruthful
    /\ IngestsOnTrack
    /\ HandlersOnTrack
    /\ RequestsAreHandledOnce

LEMMA EmptyRoot == <<>> \in Roots /\ DOMAIN <<>> = {}
<1>1. <<>> \in [{} -> Leaves] /\ DOMAIN <<>> = {}
  OBVIOUS
<1>. QED
  BY <1>1 DEF Roots

LEMMA InvariantInit == Init => IInv
<1>. SUFFICES ASSUME Init PROVE IInv
  OBVIOUS
<1>. USE DEF Init
<1>1. TypeOK
  BY EmptyRoot, FS_EmptySet, ConstantsAssumption DEF TypeOK
<1>2. RootsReproducible /\ ReleasesVerify /\ AuditIsTruthful
  BY DEF RootsReproducible, ReleasesVerify, AuditIsTruthful
<1>3. IngestsOnTrack
  BY EmptyRoot DEF IngestsOnTrack, Reproducible
<1>4. HandlersOnTrack /\ RequestsAreHandledOnce
  BY DEF HandlersOnTrack, RequestsAreHandledOnce
<1>. QED
  BY <1>1, <1>2, <1>3, <1>4 DEF IInv

-----------------------------------------------------------------------------
(* The salts and the leaves made from them.                                *)

LEMMA SaltIsDrawnOnce ==
    ASSUME TypeOK, NEW r \in Records, NEW f \in Fields, Salted(r, f)
    PROVE  /\ SaltFor(r, f) = 1
           /\ salts' \in [Records \X Fields -> {0, 1}]
           /\ salts'[<<r, f>>] = 1
           /\ \A x \in Records \X Fields : salts[x] = 1 => salts'[x] = 1
BY DEF TypeOK, Salted, SaltFor

LEMMA ReproducibleStays ==
    ASSUME NEW r \in Records, NEW root \in Roots, Reproducible(r, root),
           salts \in [Records \X Fields -> {0, 1}],
           salts' \in [Records \X Fields -> {0, 1}],
           \A x \in Records \X Fields : salts[x] = 1 => salts'[x] = 1
    PROVE  Reproducible(r, root)'
<1>1. DOMAIN root \subseteq Fields
  BY DEF Roots
<1>2. \A f \in DOMAIN root : salts[<<r, f>>] = 1 /\ salts'[<<r, f>>] = 1
  BY <1>1 DEF Reproducible
<1>. QED
  BY <1>2 DEF Reproducible

LEMMA LeafType ==
    ASSUME TypeOK, NEW r \in Records, NEW row \in Rows, NEW f \in DOMAIN row
    PROVE  /\ f \in Fields
           /\ Leaf(f, config.disposition[f], row[f], BindLabel(f), 1) \in Leaves
<1>1. f \in Fields /\ DOMAIN row \subseteq Fields
  BY ConstantsAssumption
<1>2. row[f] \in Values /\ Empty \in Values
  BY DEF Values
<1>3. config \in Configs /\ config.class[f] \in {config.class[g] : g \in Fields}
  BY <1>1 DEF TypeOK
<1>4. BindLabel(f) \in Labels
  BY <1>3 DEF BindLabel, Labels
<1>. QED
  BY <1>1, <1>2, <1>4 DEF Leaf, Leaves

LEMMA LeafAdded ==
    ASSUME NEW root \in Roots, NEW f \in Fields, NEW leaf \in Leaves
    PROVE  [g \in DOMAIN root \cup {f} |-> IF g = f THEN leaf ELSE root[g]]
              \in Roots
<1>1. PICK F \in SUBSET Fields : root \in [F -> Leaves]
  BY DEF Roots
<1>2. [g \in DOMAIN root \cup {f} |-> IF g = f THEN leaf ELSE root[g]]
         \in [F \cup {f} -> Leaves]
  BY <1>1
<1>3. F \cup {f} \in SUBSET Fields
  OBVIOUS
<1>. QED
  BY <1>2, <1>3 DEF Roots

-----------------------------------------------------------------------------
(* Types.                                                                  *)

LEMMA TypeStep ==
    ASSUME IInv, [Next]_vars
    PROVE  TypeOK'
<1>. USE DEF tables, core, ingesters, handlers
<1>0. TypeOK /\ IngestsOnTrack /\ HandlersOnTrack
  BY DEF IInv
<1>1. ASSUME NEW t \in Ingesters, NEW r \in Records, NEW row \in Rows,
             StartIngest(t, r, row)
      PROVE  TypeOK'
  BY <1>0, <1>1, EmptyRoot, ConstantsAssumption DEF TypeOK, StartIngest
<1>2. ASSUME NEW t \in Ingesters, NEW f \in Fields, BindField(t, f)
      PROVE  TypeOK'
  <2>. DEFINE r == ingest[t].record
              row == ingest[t].row
  <2>1. r \in Records /\ row \in Rows /\ f \in DOMAIN row
    BY <1>0, <1>2 DEF BindField, IngestsOnTrack
  <2>2. /\ SaltFor(r, f) = 1
        /\ salts' \in [Records \X Fields -> {0, 1}]
    BY <1>0, <1>2, <2>1, SaltIsDrawnOnce DEF BindField
  <2>3. Leaf(f, config.disposition[f], row[f], BindLabel(f), 1) \in Leaves
    BY <1>0, <2>1, LeafType
  <2>4. leaves' \in [Ingesters -> Roots]
    <3>. DEFINE leaf == Leaf(f, config.disposition[f], row[f], BindLabel(f), 1)
                grown == [g \in DOMAIN leaves[t] \cup {f} |->
                             IF g = f THEN leaf ELSE leaves[t][g]]
    <3>1. leaves[t] \in Roots
      BY <1>0 DEF TypeOK
    <3>2. grown \in Roots
      BY <2>3, <3>1, LeafAdded
    <3>3. leaves' = [leaves EXCEPT ![t] = grown]
      BY <1>2, <2>2 DEF BindField
    <3>. QED
      BY <1>0, <3>2, <3>3 DEF TypeOK
  <2>. QED
    BY <1>0, <1>2, <2>2, <2>4 DEF TypeOK, BindField
<1>3. ASSUME NEW t \in Ingesters, SaveBinding(t)
      PROVE  TypeOK'
  BY <1>0, <1>3 DEF TypeOK, SaveBinding
<1>4. ASSUME NEW t \in Ingesters, AuditIngest(t)
      PROVE  TypeOK'
  BY <1>0, <1>4 DEF TypeOK, AuditIngest, IngestsOnTrack
<1>5. ASSUME NEW t \in Ingesters, Deliver(t)
      PROVE  TypeOK'
  <2>1. OutboundRow(t) \in OutboundRows
    <3>1. Cardinality(queued) + 1 \in Nat \ {0}
      BY <1>0, FS_CardinalityType DEF TypeOK
    <3>. QED
      BY <1>0, <1>5, <3>1
         DEF TypeOK, Deliver, IngestsOnTrack, OutboundRow, OutboundRows
  <2>2. queued' \subseteq OutboundRows /\ IsFiniteSet(queued')
    BY <1>0, <1>5, <2>1, FS_AddElement DEF TypeOK, Deliver
  <2>. QED
    BY <1>0, <1>5, <2>2, EmptyRoot DEF TypeOK, Deliver
<1>6. ASSUME NEW h \in Handlers, NEW q \in Requests, Receive(h, q)
      PROVE  TypeOK'
  BY <1>0, <1>6 DEF TypeOK, Receive, Decisions
<1>7. ASSUME NEW h \in Handlers, GetBinding(h)
      PROVE  TypeOK'
  <2>1. request[h].record \in Records
    BY <1>0, <1>7, ConstantsAssumption DEF TypeOK, GetBinding, HandlersOnTrack
  <2>. QED
    BY <1>0, <1>7, <2>1 DEF TypeOK, GetBinding, Deny, Decisions
<1>8. ASSUME NEW h \in Handlers, Prove(h)
      PROVE  TypeOK'
  <2>1. request[h].record \in Records /\ request[h].field \in Fields
    BY <1>0, <1>8, ConstantsAssumption DEF TypeOK, Prove, HandlersOnTrack
  <2>2. salts' \in [Records \X Fields -> {0, 1}]
    BY <1>0, <1>8, <2>1, SaltIsDrawnOnce DEF Prove
  <2>3. /\ hpc' \in [Handlers ->
                  {"idle", "binding", "prove", "seal", "enqueue", "audit"}]
        /\ decision' \in [Handlers -> Decisions \cup {"none"}]
    BY <1>0, <1>8 DEF TypeOK, Prove, Deny, Decisions
  <2>. QED
    BY <1>0, <1>8, <2>2, <2>3 DEF TypeOK, Prove
<1>9. ASSUME NEW h \in Handlers, Seal(h)
      PROVE  TypeOK'
  BY <1>0, <1>9 DEF TypeOK, Seal
<1>10. ASSUME NEW h \in Handlers, SealRaises(h)
       PROVE  TypeOK'
  BY <1>0, <1>10 DEF TypeOK, SealRaises, Finish, HandlersOnTrack
<1>11. ASSUME NEW h \in Handlers, EnqueueCallback(h)
       PROVE  TypeOK'
  <2>1. [request |-> request[h], root |-> seen[h]]
           \in [request : Requests, root : Roots]
    BY <1>0, <1>11 DEF TypeOK, EnqueueCallback, HandlersOnTrack
  <2>. QED
    BY <1>0, <1>11, <2>1 DEF TypeOK, EnqueueCallback, Decisions
<1>12. ASSUME NEW h \in Handlers, AuditCallback(h)
       PROVE  TypeOK'
  <2>1. /\ request[h] \in arrived /\ request[h] \in Requests
        /\ decision[h] \in Decisions
    BY <1>0, <1>12 DEF TypeOK, AuditCallback, HandlersOnTrack
  <2>2. <<"callback", request[h], decision[h]>>
           \in {"callback"} \X Requests \X Decisions
    BY <2>1
  <2>. QED
    BY <1>0, <1>12, <2>1, <2>2 DEF TypeOK, AuditCallback, Finish
<1>13. ASSUME NEW p \in queued, PackageArrives(p)
       PROVE  TypeOK'
  BY <1>0, <1>13 DEF TypeOK, PackageArrives
<1>14. ASSUME NEW c \in callbacks, ReleaseArrives(c)
       PROVE  TypeOK'
  BY <1>0, <1>14 DEF TypeOK, ReleaseArrives
<1>15. CASE Crash
  <2>1. /\ leaves' \in [Ingesters -> Roots]
        /\ ingest' \in [Ingesters -> [record : Records, row : Rows]
                                        \cup {NoIngest}]
        /\ ipc' \in [Ingesters -> {"idle", "bind", "audit", "deliver"}]
    BY <1>15, EmptyRoot DEF Crash
  <2>2. crashes' \in 0 .. MaxCrashes
    <3>1. crashes \in 0 .. MaxCrashes /\ MaxCrashes \in Nat
      BY <1>0, ConstantsAssumption DEF TypeOK
    <3>2. crashes < MaxCrashes /\ crashes' = crashes + 1
      BY <1>15 DEF Crash
    <3>. QED
      BY <3>1, <3>2
  <2>. QED
    BY <1>0, <1>15, <2>1, <2>2 DEF TypeOK, Crash
<1>16. CASE Restart
  BY <1>0, <1>16 DEF TypeOK, Restart
<1>17. CASE UNCHANGED vars
  BY <1>0, <1>17 DEF TypeOK, vars
<1>. QED
  BY <1>1, <1>2, <1>3, <1>4, <1>5, <1>6, <1>7, <1>8, <1>9, <1>10, <1>11,
     <1>12, <1>13, <1>14, <1>15, <1>16, <1>17
     DEF Next, IngestStep, HandlerStep
-----------------------------------------------------------------------------
(* The tables.                                                             *)

\* What every step does to the salts: a salt that was drawn stays.
LEMMA SaltsStay ==
    ASSUME IInv, [Next]_vars
    PROVE  /\ salts \in [Records \X Fields -> {0, 1}]
           /\ salts' \in [Records \X Fields -> {0, 1}]
           /\ \A x \in Records \X Fields : salts[x] = 1 => salts'[x] = 1
<1>1. TypeOK /\ IngestsOnTrack /\ HandlersOnTrack /\ TypeOK'
  BY TypeStep DEF IInv
<1>2. ASSUME NEW t \in Ingesters, NEW f \in Fields, BindField(t, f)
      PROVE  \A x \in Records \X Fields : salts[x] = 1 => salts'[x] = 1
  <2>1. ingest[t].record \in Records
    BY <1>1, <1>2 DEF BindField, IngestsOnTrack
  <2>. QED
    BY <1>1, <1>2, <2>1, SaltIsDrawnOnce DEF BindField
<1>3. ASSUME NEW h \in Handlers, Prove(h)
      PROVE  \A x \in Records \X Fields : salts[x] = 1 => salts'[x] = 1
  <2>1. request[h].record \in Records /\ request[h].field \in Fields
    BY <1>1, <1>3, ConstantsAssumption DEF TypeOK, Prove, HandlersOnTrack
  <2>. QED
    BY <1>1, <1>3, <2>1, SaltIsDrawnOnce DEF Prove
<1>4. ASSUME ~\E t \in Ingesters, f \in Fields : BindField(t, f),
             ~\E h \in Handlers : Prove(h)
      PROVE  salts' = salts
  BY <1>4 DEF Next, IngestStep, HandlerStep, vars, tables, StartIngest,
         SaveBinding, AuditIngest, Deliver, Receive, GetBinding, Seal,
         SealRaises, EnqueueCallback, AuditCallback, PackageArrives,
         ReleaseArrives, Crash, Restart
<1>. QED
  BY <1>1, <1>2, <1>3, <1>4 DEF TypeOK

LEMMA RootsStep ==
    ASSUME IInv, [Next]_vars
    PROVE  RootsReproducible'
<1>1. TypeOK /\ RootsReproducible /\ IngestsOnTrack
  BY DEF IInv
<1>2. \A r \in Records : binding'[r] # NoBinding =>
         binding'[r] \in Roots /\ Reproducible(r, binding'[r])
  <2>1. ASSUME NEW t \in Ingesters, SaveBinding(t)
        PROVE  \A r \in Records : binding'[r] # NoBinding =>
                  binding'[r] \in Roots /\ Reproducible(r, binding'[r])
    BY <1>1, <2>1 DEF SaveBinding, TypeOK, RootsReproducible, IngestsOnTrack
  <2>2. ASSUME ~\E t \in Ingesters : SaveBinding(t)
        PROVE  binding' = binding
    BY <2>2 DEF Next, IngestStep, HandlerStep, vars, tables, StartIngest,
           BindField, AuditIngest, Deliver, Receive, GetBinding, Prove, Seal,
           SealRaises, EnqueueCallback, AuditCallback, PackageArrives,
           ReleaseArrives, Crash, Restart
  <2>. QED
    BY <1>1, <2>1, <2>2 DEF TypeOK, RootsReproducible
<1>3. \A p \in queued' :
         /\ p.record \in Records /\ p.root \in Roots
         /\ Reproducible(p.record, p.root)
  <2>1. \A p \in queued : p.record \in Records /\ p.root \in Roots
    BY <1>1 DEF TypeOK, OutboundRows
  <2>2. ASSUME NEW t \in Ingesters, Deliver(t)
        PROVE  /\ queued' = queued \cup {OutboundRow(t)}
               /\ OutboundRow(t).record \in Records
               /\ OutboundRow(t).root \in Roots
               /\ Reproducible(OutboundRow(t).record, OutboundRow(t).root)
    BY <1>1, <2>2 DEF Deliver, TypeOK, IngestsOnTrack, OutboundRow
  <2>3. ASSUME ~\E t \in Ingesters : Deliver(t)
        PROVE  queued' = queued
    BY <2>3 DEF Next, IngestStep, HandlerStep, vars, tables, StartIngest,
           BindField, SaveBinding, AuditIngest, Receive, GetBinding, Prove,
           Seal, SealRaises, EnqueueCallback, AuditCallback, PackageArrives,
           ReleaseArrives, Crash, Restart
  <2>. QED
    BY <1>1, <2>1, <2>2, <2>3 DEF RootsReproducible
<1>4. \A r \in Records, root \in Roots :
         Reproducible(r, root) =>
            \A f \in DOMAIN root : /\ root[f].name = f
                                   /\ salts'[<<r, f>>] > 0
                                   /\ root[f].salt = salts'[<<r, f>>]
  BY SaltsStay, ReproducibleStays DEF Reproducible
<1>. QED
  BY <1>2, <1>3, <1>4 DEF RootsReproducible, Reproducible

LEMMA ReleasesStep ==
    ASSUME IInv, [Next]_vars
    PROVE  ReleasesVerify'
<1>1. TypeOK /\ ReleasesVerify /\ HandlersOnTrack
  BY DEF IInv
<1>2. \A c \in callbacks' :
         /\ c.request \in Requests /\ c.root \in Roots
         /\ c.request.allowed
         /\ c.request.field \in DOMAIN c.root
         /\ c.root[c.request.field].value = Empty
         /\ c.root[c.request.field].salt
               = salts[<<c.request.record, c.request.field>>]
  <2>. DEFINE new(h) == [request |-> request[h], root |-> seen[h]]
  <2>1. \A c \in callbacks : c.request \in Requests /\ c.root \in Roots
    BY <1>1 DEF TypeOK
  <2>2. ASSUME NEW h \in Handlers, EnqueueCallback(h)
        PROVE  /\ callbacks' = callbacks \cup {new(h)}
               /\ new(h).request \in Requests /\ new(h).root \in Roots
               /\ new(h).request.allowed
               /\ new(h).request.field \in DOMAIN new(h).root
               /\ new(h).root[new(h).request.field].value = Empty
               /\ new(h).root[new(h).request.field].salt
                     = salts[<<new(h).request.record, new(h).request.field>>]
    BY <1>1, <2>2
       DEF EnqueueCallback, TypeOK, HandlersOnTrack, Reproducible
  <2>3. ASSUME ~\E h \in Handlers : EnqueueCallback(h)
        PROVE  callbacks' = callbacks
    BY <2>3 DEF Next, IngestStep, HandlerStep, vars, tables, StartIngest,
           BindField, SaveBinding, AuditIngest, Deliver, Receive, GetBinding,
           Prove, Seal, SealRaises, AuditCallback, PackageArrives,
           ReleaseArrives, Crash, Restart
  <2>. QED
    BY <1>1, <2>1, <2>2, <2>3 DEF ReleasesVerify
<1>3. ASSUME NEW c \in callbacks'
      PROVE  salts[<<c.request.record, c.request.field>>]
               = salts'[<<c.request.record, c.request.field>>]
  <2>1. c.root[c.request.field].salt = 1
    <3>1. PICK F \in SUBSET Fields : c.root \in [F -> Leaves]
      BY <1>2, <1>3 DEF Roots
    <3>2. c.root[c.request.field] \in Leaves
      BY <1>2, <1>3, <3>1
    <3>. QED
      BY <3>2 DEF Leaves
  <2>2. <<c.request.record, c.request.field>> \in Records \X Fields
    BY <1>2, <1>3, ConstantsAssumption
  <2>. QED
    BY <1>2, <1>3, <2>1, <2>2, SaltsStay
<1>. QED
  BY <1>2, <1>3 DEF ReleasesVerify
-----------------------------------------------------------------------------
(* The threads.                                                            *)

LEMMA IngestsStep ==
    ASSUME IInv, [Next]_vars
    PROVE  IngestsOnTrack'
<1>1. TypeOK /\ TypeOK' /\ IngestsOnTrack
  BY TypeStep DEF IInv
<1>2. audit \subseteq audit'
  BY DEF Next, IngestStep, HandlerStep, vars, tables, StartIngest,
         BindField, SaveBinding, AuditIngest, Deliver, Receive, GetBinding,
         Prove, Seal, SealRaises, EnqueueCallback, AuditCallback,
         PackageArrives, ReleaseArrives, Crash, Restart
<1>3. /\ salts \in [Records \X Fields -> {0, 1}]
      /\ salts' \in [Records \X Fields -> {0, 1}]
      /\ \A x \in Records \X Fields : salts[x] = 1 => salts'[x] = 1
  BY SaltsStay
<1>. DEFINE Holds(i) ==
              /\ ipc[i] # "idle" =>
                    /\ ingest[i] \in [record : Records, row : Rows]
                    /\ Reproducible(ingest[i].record, leaves[i])
              /\ ipc[i] = "deliver" => <<"ingest", ingest[i].record>> \in audit
<1>4. ASSUME NEW i \in Ingesters,
             UNCHANGED <<ipc[i], ingest[i], leaves[i]>>
      PROVE  Holds(i)'
  <2>1. CASE ipc[i] = "idle"
    BY <1>4, <2>1
  <2>2. CASE ipc[i] # "idle"
    <3>1. /\ ingest[i].record \in Records /\ leaves[i] \in Roots
          /\ Reproducible(ingest[i].record, leaves[i])
      BY <1>1, <2>2 DEF TypeOK, IngestsOnTrack
    <3>2. \A f \in DOMAIN leaves[i] :
             /\ leaves[i][f].name = f
             /\ salts'[<<ingest[i].record, f>>] > 0
             /\ leaves[i][f].salt = salts'[<<ingest[i].record, f>>]
      BY <1>3, <3>1, ReproducibleStays DEF Reproducible
    <3>. QED
      BY <1>1, <1>2, <1>4, <3>2 DEF IngestsOnTrack, Reproducible
  <2>. QED
    BY <2>1, <2>2
<1>5. ASSUME NEW t \in Ingesters, NEW i \in Ingesters, i # t,
             \/ \E r \in Records, row \in Rows : StartIngest(t, r, row)
             \/ IngestStep(t)
      PROVE  Holds(i)'
  <2>. USE DEF ingesters
  <2>1. UNCHANGED <<ipc[i], ingest[i], leaves[i]>>
    <3>1. ASSUME NEW f \in Fields, BindField(t, f)
          PROVE  UNCHANGED <<ipc[i], ingest[i], leaves[i]>>
      BY <1>1, <1>5, <3>1 DEF TypeOK, BindField
    <3>2. ASSUME NEW r \in Records, NEW row \in Rows, StartIngest(t, r, row)
          PROVE  UNCHANGED <<ipc[i], ingest[i], leaves[i]>>
      BY <1>1, <1>5, <3>2 DEF TypeOK, StartIngest
    <3>3. CASE SaveBinding(t) \/ AuditIngest(t) \/ Deliver(t)
      BY <1>1, <1>5, <3>3 DEF TypeOK, SaveBinding, AuditIngest, Deliver
    <3>. QED
      BY <1>5, <3>1, <3>2, <3>3 DEF IngestStep
  <2>. QED
    BY <1>4, <2>1
<1>6. ASSUME NEW t \in Ingesters, NEW r \in Records, NEW row \in Rows,
             StartIngest(t, r, row)
      PROVE  Holds(t)'
  BY <1>1, <1>6, EmptyRoot DEF TypeOK, StartIngest, Reproducible
<1>7. ASSUME NEW t \in Ingesters, NEW f \in Fields, BindField(t, f)
      PROVE  Holds(t)'
  <2>. DEFINE r == ingest[t].record
              row == ingest[t].row
              leaf == Leaf(f, config.disposition[f], row[f], BindLabel(f),
                           SaltFor(r, f))
  <2>1. /\ ingest[t] \in [record : Records, row : Rows] /\ r \in Records
        /\ Reproducible(r, leaves[t]) /\ leaves[t] \in Roots
    BY <1>1, <1>7 DEF BindField, TypeOK, IngestsOnTrack
  <2>2. leaf.name = f /\ leaf.salt = 1 /\ salts'[<<r, f>>] = 1
    BY <1>1, <1>7, <2>1, SaltIsDrawnOnce DEF BindField, Leaf
  <2>3. \A g \in DOMAIN leaves[t] :
           /\ leaves[t][g].name = g
           /\ salts'[<<r, g>>] > 0
           /\ leaves[t][g].salt = salts'[<<r, g>>]
    BY <1>3, <2>1, ReproducibleStays DEF Reproducible
  <2>. HIDE DEF leaf
  <2>4. /\ leaves'[t] = [g \in DOMAIN leaves[t] \cup {f} |->
                            IF g = f THEN leaf ELSE leaves[t][g]]
        /\ ingest'[t] = ingest[t] /\ ipc'[t] = "bind"
    BY <1>1, <1>7 DEF BindField, TypeOK, leaf
  <2>. QED
    BY <2>1, <2>2, <2>3, <2>4 DEF Reproducible
<1>8. ASSUME NEW t \in Ingesters, SaveBinding(t)
      PROVE  Holds(t)'
  <2>1. /\ ipc'[t] = "audit" /\ ipc[t] = "bind"
        /\ ingest' = ingest /\ leaves' = leaves /\ salts' = salts
    BY <1>1, <1>8 DEF SaveBinding, TypeOK, ingesters
  <2>. QED
    BY <1>1, <2>1 DEF IngestsOnTrack, Reproducible
<1>9. ASSUME NEW t \in Ingesters, AuditIngest(t)
      PROVE  Holds(t)'
  <2>1. /\ ipc[t] = "audit" /\ <<"ingest", ingest[t].record>> \in audit'
        /\ ingest' = ingest /\ leaves' = leaves /\ salts' = salts
    BY <1>1, <1>9 DEF AuditIngest, TypeOK, ingesters
  <2>. QED
    BY <1>1, <2>1 DEF IngestsOnTrack, Reproducible
<1>10. ASSUME NEW t \in Ingesters, Deliver(t)
       PROVE  Holds(t)'
  BY <1>1, <1>10 DEF TypeOK, Deliver
<1>11. ASSUME NEW i \in Ingesters, Crash
       PROVE  Holds(i)'
  BY <1>11 DEF Crash
<1>12. ASSUME ~Crash,
              ~\E t \in Ingesters : IngestStep(t),
              ~\E t \in Ingesters, r \in Records, row \in Rows :
                   StartIngest(t, r, row)
       PROVE  UNCHANGED <<ipc, ingest, leaves>>
  BY <1>12 DEF Next, HandlerStep, vars, ingesters, Receive, GetBinding, Prove,
         Seal, SealRaises, EnqueueCallback, AuditCallback, PackageArrives,
         ReleaseArrives, Restart
<1>. HIDE DEF Holds
<1>13. \A i \in Ingesters : Holds(i)'
  BY <1>4, <1>5, <1>6, <1>7, <1>8, <1>9, <1>10, <1>11, <1>12 DEF IngestStep
<1>. QED
  BY <1>13 DEF Holds, IngestsOnTrack

LEMMA HandlersStep ==
    ASSUME IInv, [Next]_vars
    PROVE  HandlersOnTrack'
<1>1. TypeOK /\ TypeOK' /\ HandlersOnTrack
  BY TypeStep DEF IInv
<1>2. arrived \subseteq arrived' /\ callbacks \subseteq callbacks'
  BY DEF Next, IngestStep, HandlerStep, vars, tables, handlers, StartIngest,
         BindField, SaveBinding, AuditIngest, Deliver, Receive, GetBinding,
         Prove, Seal, SealRaises, EnqueueCallback, AuditCallback, Finish,
         PackageArrives, ReleaseArrives, Crash, Restart
<1>3. /\ salts \in [Records \X Fields -> {0, 1}]
      /\ salts' \in [Records \X Fields -> {0, 1}]
      /\ \A x \in Records \X Fields : salts[x] = 1 => salts'[x] = 1
  BY SaltsStay
<1>. DEFINE Verified(h) ==
              /\ seen[h] \in Roots
              /\ Reproducible(request[h].record, seen[h])
            Covered(h) ==
              /\ request[h].field \in DOMAIN seen[h]
              /\ seen[h][request[h].field].value = Empty
            Decided(h) ==
              /\ decision[h] \in Decisions
              /\ decision[h] = "release" =>
                    \E c \in callbacks : c.request = request[h]
            Holds(h) ==
              /\ hpc[h] # "idle" => request[h] \in arrived
              /\ hpc[h] # "audit" => decision[h] = "none"
              /\ hpc[h] \in {"binding", "prove", "seal", "enqueue"} =>
                    request[h].allowed
              /\ hpc[h] \in {"prove", "seal", "enqueue"} => Verified(h)
              /\ hpc[h] \in {"seal", "enqueue"} => Covered(h)
              /\ hpc[h] = "audit" => Decided(h)
<1>4. \A h \in Handlers : Holds(h)
  BY <1>1 DEF HandlersOnTrack
<1>5. ASSUME NEW h \in Handlers, UNCHANGED <<request[h], seen[h]>>,
             request[h] \in Requests, Verified(h)
      PROVE  Verified(h)'
  <2>1. request[h].record \in Records
    BY <1>5, ConstantsAssumption
  <2>2. \A f \in DOMAIN seen[h] :
           /\ seen[h][f].name = f
           /\ salts'[<<request[h].record, f>>] > 0
           /\ seen[h][f].salt = salts'[<<request[h].record, f>>]
    BY <1>3, <1>5, <2>1, ReproducibleStays DEF Reproducible
  <2>. QED
    BY <1>5, <2>2 DEF Reproducible
<1>6. ASSUME NEW h \in Handlers,
             UNCHANGED <<hpc[h], request[h], seen[h], decision[h]>>
      PROVE  Holds(h)'
  <2>1. hpc[h] # "idle" => request[h] \in Requests
    BY <1>1, <1>4 DEF TypeOK
  <2>2. hpc[h] \in {"prove", "seal", "enqueue"} => Verified(h)'
    BY <1>4, <1>5, <1>6, <2>1
  <2>. HIDE DEF Verified
  <2>. QED
    BY <1>2, <1>4, <1>6, <2>2
<1>7. ASSUME NEW g \in Handlers, NEW h \in Handlers, h # g,
             \/ \E q \in Requests : Receive(g, q)
             \/ HandlerStep(g)
      PROVE  Holds(h)'
  <2>1. UNCHANGED <<hpc[h], request[h], seen[h], decision[h]>>
    BY <1>1, <1>7 DEF TypeOK, HandlerStep, Receive, GetBinding, Deny, Prove,
           Seal, SealRaises, EnqueueCallback, AuditCallback, Finish
  <2>. QED
    BY <1>6, <2>1
<1>8. ASSUME NEW h \in Handlers, NEW q \in Requests, Receive(h, q)
      PROVE  Holds(h)'
  <2>1. /\ request'[h] = q /\ q \in arrived'
        /\ IF q.allowed THEN hpc'[h] = "binding" /\ decision' = decision
                        ELSE hpc'[h] = "audit" /\ decision'[h] = "deny:access"
    BY <1>1, <1>8 DEF TypeOK, Receive
  <2>. QED
    BY <1>1, <1>4, <1>8, <2>1 DEF Receive, Decisions
<1>9. ASSUME NEW h \in Handlers, GetBinding(h)
      PROVE  Holds(h)'
  <2>1. /\ hpc[h] = "binding" /\ request' = request /\ salts' = salts
        /\ seen'[h] = binding[request[h].record]
        /\ request[h] \in Requests /\ request[h] \in arrived'
        /\ request[h].allowed /\ request[h].record \in Records
    BY <1>1, <1>2, <1>4, <1>9, ConstantsAssumption
       DEF TypeOK, GetBinding, tables
  <2>2. CASE binding[request[h].record] = NoBinding
    BY <1>1, <1>9, <2>1, <2>2 DEF TypeOK, GetBinding, Deny, Decisions
  <2>3. CASE binding[request[h].record] # NoBinding
    <3>1. hpc'[h] = "prove" /\ decision'[h] = decision[h]
      BY <1>1, <1>9, <2>3 DEF TypeOK, GetBinding
    <3>2. /\ seen'[h] \in Roots
          /\ Reproducible(request[h].record, seen'[h])
      BY <1>1, <2>1, <2>3 DEF IInv, TypeOK, RootsReproducible
    <3>3. Verified(h)'
      BY <2>1, <3>2 DEF Reproducible
    <3>. HIDE DEF Verified
    <3>. QED
      BY <1>4, <2>1, <3>1, <3>3
  <2>. QED
    BY <2>2, <2>3
<1>10. ASSUME NEW h \in Handlers, Prove(h)
       PROVE  Holds(h)'
  <2>. DEFINE f == request[h].field
  <2>1. /\ hpc[h] = "prove" /\ request' = request /\ seen' = seen
        /\ request[h] \in Requests /\ request[h] \in arrived'
        /\ request[h].allowed /\ decision[h] = "none"
    BY <1>1, <1>2, <1>4, <1>10 DEF TypeOK, Prove
  <2>2. Verified(h)'
    BY <1>4, <1>5, <2>1
  <2>3. \/ /\ hpc'[h] = "audit"
           /\ decision'[h] \in Decisions \ {"release"}
        \/ /\ hpc'[h] = "seal" /\ decision'[h] = "none"
           /\ f \in DOMAIN seen[h]
           /\ seen[h][f].value = Empty
    BY <1>1, <1>10, <2>1
       DEF TypeOK, Prove, Deny, Decisions, Leaf, Protected
  <2>. HIDE DEF Verified
  <2>. QED
    BY <2>1, <2>2, <2>3
<1>11. ASSUME NEW h \in Handlers, Seal(h)
       PROVE  Holds(h)'
  <2>1. /\ hpc[h] = "seal" /\ hpc'[h] = "enqueue"
        /\ request' = request /\ seen' = seen /\ decision' = decision
    BY <1>1, <1>11 DEF TypeOK, Seal
  <2>2. request[h] \in Requests /\ request[h] \in arrived'
    BY <1>1, <1>2, <1>4, <2>1 DEF TypeOK
  <2>3. Verified(h)'
    BY <1>4, <1>5, <2>1, <2>2
  <2>. HIDE DEF Verified
  <2>. QED
    BY <1>4, <2>1, <2>2, <2>3
<1>12. ASSUME NEW h \in Handlers, SealRaises(h)
       PROVE  Holds(h)'
  BY <1>1, <1>12 DEF TypeOK, SealRaises, Finish
<1>13. ASSUME NEW h \in Handlers, EnqueueCallback(h)
       PROVE  Holds(h)'
  <2>1. /\ hpc[h] = "enqueue" /\ hpc'[h] = "audit" /\ request' = request
        /\ decision'[h] = "release"
        /\ [request |-> request[h], root |-> seen[h]] \in callbacks'
    BY <1>1, <1>13 DEF TypeOK, EnqueueCallback
  <2>. QED
    BY <1>2, <1>4, <2>1 DEF Decisions
<1>14. ASSUME NEW h \in Handlers, AuditCallback(h)
       PROVE  Holds(h)'
  BY <1>1, <1>14 DEF TypeOK, AuditCallback, Finish
<1>15. ASSUME NEW h \in Handlers, Crash
       PROVE  Holds(h)'
  BY <1>15 DEF Crash
<1>16. ASSUME ~Crash,
              ~\E h \in Handlers : HandlerStep(h),
              ~\E h \in Handlers, q \in Requests : Receive(h, q)
       PROVE  UNCHANGED <<hpc, request, seen, decision>>
  BY <1>16 DEF Next, IngestStep, vars, handlers, StartIngest, BindField,
         SaveBinding, AuditIngest, Deliver, PackageArrives, ReleaseArrives,
         Restart
<1>. HIDE DEF Holds
<1>17. \A h \in Handlers : Holds(h)'
  BY <1>6, <1>7, <1>8, <1>9, <1>10, <1>11, <1>12, <1>13, <1>14, <1>15, <1>16
     DEF HandlerStep
<1>. QED
  BY <1>17 DEF Holds, HandlersOnTrack

-----------------------------------------------------------------------------
(* The audit log.                                                          *)

\* What every step does to the log: nothing, an ingest entry, or the decision
\* of a handler that ends with it.
LEMMA LogGrows ==
    ASSUME [Next]_vars
    PROVE  \/ UNCHANGED <<audit, answered>>
           \/ \E t \in Ingesters : AuditIngest(t)
           \/ \E h \in Handlers : AuditCallback(h)
BY DEF Next, IngestStep, HandlerStep, vars, tables, handlers, StartIngest,
       BindField, SaveBinding, Deliver, Receive, GetBinding, Prove, Seal,
       SealRaises, EnqueueCallback, PackageArrives, ReleaseArrives, Crash,
       Restart

LEMMA OnceStep ==
    ASSUME IInv, [Next]_vars
    PROVE  RequestsAreHandledOnce'
<1>1. TypeOK /\ HandlersOnTrack /\ RequestsAreHandledOnce
  BY DEF IInv
<1>2. callbacks \subseteq callbacks' /\ arrived \subseteq arrived'
  BY DEF Next, IngestStep, HandlerStep, vars, tables, handlers, StartIngest,
         BindField, SaveBinding, AuditIngest, Deliver, Receive, GetBinding,
         Prove, Seal, SealRaises, EnqueueCallback, AuditCallback, Finish,
         PackageArrives, ReleaseArrives, Crash, Restart
\* A handler that takes up a request.
<1>3. ASSUME NEW g \in Handlers, NEW q \in Requests, Receive(g, q)
      PROVE  RequestsAreHandledOnce'
  <2>1. /\ q \notin arrived /\ arrived' = arrived \cup {q} /\ ended' = ended
        /\ callbacks' = callbacks /\ request'[g] = q
        /\ \A h \in Handlers \ {g} :
              UNCHANGED <<hpc[h], request[h], decision[h]>>
    BY <1>1, <1>3 DEF TypeOK, Receive, tables
  <2>2. q \notin ended /\ \A c \in callbacks : c.request # q
    BY <1>1, <2>1 DEF TypeOK, RequestsAreHandledOnce
  <2>3. \A h \in Handlers : hpc[h] # "idle" => request[h] # q
    BY <1>1, <2>1 DEF HandlersOnTrack
  <2>. QED
    BY <1>1, <2>1, <2>2, <2>3 DEF RequestsAreHandledOnce
\* A handler that goes on with its request, without a release so far.
<1>4. ASSUME NEW g \in Handlers, GetBinding(g) \/ Prove(g) \/ Seal(g)
      PROVE  RequestsAreHandledOnce'
  <2>1. /\ hpc[g] \in {"binding", "prove", "seal"}
        /\ request' = request /\ ended' = ended /\ arrived' = arrived
        /\ callbacks' = callbacks
        /\ \A h \in Handlers \ {g} : UNCHANGED <<hpc[h], decision[h]>>
    BY <1>1, <1>4 DEF TypeOK, GetBinding, Prove, Seal, Deny, tables
  <2>. QED
    BY <1>1, <2>1 DEF RequestsAreHandledOnce
<1>5. ASSUME NEW g \in Handlers, EnqueueCallback(g)
      PROVE  RequestsAreHandledOnce'
  <2>. DEFINE new == [request |-> request[g], root |-> seen[g]]
  <2>1. /\ hpc[g] = "enqueue" /\ hpc'[g] = "audit" /\ decision'[g] = "release"
        /\ request' = request /\ ended' = ended /\ arrived' = arrived
        /\ callbacks' = callbacks \cup {new}
        /\ \A h \in Handlers \ {g} : UNCHANGED <<hpc[h], decision[h]>>
    BY <1>1, <1>5 DEF TypeOK, EnqueueCallback
  <2>2. new.request = request[g] /\ request[g] \in arrived
    BY <1>1, <2>1 DEF HandlersOnTrack
  <2>. HIDE DEF new
  <2>3. \A c \in callbacks' : c = new \/ c \in callbacks
    BY <2>1
  <2>4. \A h \in Handlers : hpc'[h] # "idle" => hpc[h] # "idle"
    BY <2>1
  <2>. QED
    BY <1>1, <2>1, <2>2, <2>3, <2>4 DEF RequestsAreHandledOnce
\* A handler that is done.
<1>6. ASSUME NEW g \in Handlers, SealRaises(g) \/ AuditCallback(g)
      PROVE  RequestsAreHandledOnce'
  <2>1. /\ hpc[g] # "idle" /\ hpc'[g] = "idle"
        /\ ended' = ended \cup {request[g]} /\ arrived' = arrived
        /\ callbacks' = callbacks
        /\ \A h \in Handlers \ {g} :
              UNCHANGED <<hpc[h], request[h], decision[h]>>
    BY <1>1, <1>6 DEF TypeOK, SealRaises, AuditCallback, Finish, tables
  <2>. QED
    BY <1>1, <2>1 DEF RequestsAreHandledOnce
<1>7. CASE Crash
  BY <1>1, <1>7 DEF Crash, RequestsAreHandledOnce, tables
<1>8. ASSUME ~Crash,
             ~\E h \in Handlers : HandlerStep(h),
             ~\E h \in Handlers, q \in Requests : Receive(h, q)
      PROVE  UNCHANGED <<hpc, request, decision, arrived, ended, callbacks>>
  BY <1>8 DEF Next, IngestStep, vars, tables, handlers, StartIngest,
         BindField, SaveBinding, AuditIngest, Deliver, PackageArrives,
         ReleaseArrives, Restart
<1>9. CASE UNCHANGED <<hpc, request, decision, arrived, ended, callbacks>>
  BY <1>1, <1>9 DEF RequestsAreHandledOnce
<1>. QED
  BY <1>3, <1>4, <1>5, <1>6, <1>7, <1>8, <1>9 DEF HandlerStep

LEMMA AuditStep ==
    ASSUME IInv, [Next]_vars
    PROVE  AuditIsTruthful'
<1>1. TypeOK /\ AuditIsTruthful /\ IngestsOnTrack /\ HandlersOnTrack
  BY DEF IInv
<1>2. audit \subseteq audit'
  BY LogGrows DEF AuditIngest, AuditCallback
<1>3. callbacks \subseteq callbacks'
  BY DEF Next, IngestStep, HandlerStep, vars, tables, StartIngest, BindField,
         SaveBinding, AuditIngest, Deliver, Receive, GetBinding, Prove, Seal,
         SealRaises, EnqueueCallback, AuditCallback, PackageArrives,
         ReleaseArrives, Crash, Restart
<1>4. ASSUME NEW q \in Requests
      PROVE  /\ <<"callback", q, "release">> \in audit' =>
                   \E c \in callbacks' : c.request = q
             /\ q \in answered' =>
                   \E d \in Decisions : <<"callback", q, d>> \in audit'
  <2>1. CASE UNCHANGED <<audit, answered>>
    BY <1>1, <1>3, <2>1 DEF AuditIsTruthful
  <2>2. ASSUME NEW t \in Ingesters, AuditIngest(t)
        PROVE  <1>4!2
    <3>1. audit' = audit \cup {<<"ingest", ingest[t].record>>}
          /\ answered' = answered
      BY <2>2 DEF AuditIngest, handlers
    <3>2. <<"callback", q, "release">> # <<"ingest", ingest[t].record>>
      OBVIOUS
    <3>. QED
      BY <1>1, <1>3, <3>1, <3>2 DEF AuditIsTruthful
  <2>3. ASSUME NEW h \in Handlers, AuditCallback(h)
        PROVE  <1>4!2
    <3>1. /\ audit' = audit \cup {<<"callback", request[h], decision[h]>>}
          /\ answered' = answered \cup {request[h]}
          /\ decision[h] \in Decisions
          /\ decision[h] = "release" =>
                \E c \in callbacks : c.request = request[h]
      BY <1>1, <2>3 DEF AuditCallback, HandlersOnTrack
    <3>2. <<"callback", q, "release">> = <<"callback", request[h], decision[h]>>
             => q = request[h] /\ decision[h] = "release"
      OBVIOUS
    <3>. QED
      BY <1>1, <1>3, <3>1, <3>2 DEF AuditIsTruthful
  <2>. QED
    BY <2>1, <2>2, <2>3, LogGrows
<1>5. \A c \in callbacks' :
         c.request \in ended' => <<"callback", c.request, "release">> \in audit'
  <2>1. TypeOK' /\ RequestsAreHandledOnce /\ RequestsAreHandledOnce'
    BY TypeStep, OnceStep DEF IInv
  <2>2. ASSUME NEW h \in Handlers, EnqueueCallback(h)
        PROVE  /\ callbacks' = callbacks
                     \cup {[request |-> request[h], root |-> seen[h]]}
               /\ ended' = ended /\ request[h] \notin ended
    BY <2>1, <2>2 DEF EnqueueCallback, RequestsAreHandledOnce
  <2>3. ASSUME NEW h \in Handlers, AuditCallback(h)
        PROVE  /\ callbacks' = callbacks /\ ended' = ended \cup {request[h]}
               /\ \A c \in callbacks : c.request = request[h] =>
                     <<"callback", c.request, "release">> \in audit'
    <3>1. /\ hpc[h] = "audit" /\ callbacks' = callbacks
          /\ ended' = ended \cup {request[h]}
          /\ <<"callback", request[h], decision[h]>> \in audit'
      BY <2>3 DEF AuditCallback, Finish
    <3>. QED
      BY <2>1, <3>1 DEF RequestsAreHandledOnce
  <2>4. ASSUME NEW h \in Handlers, SealRaises(h)
        PROVE  /\ callbacks' = callbacks /\ ended' = ended \cup {request[h]}
               /\ \A c \in callbacks : c.request # request[h]
    BY <2>1, <2>4 DEF SealRaises, Finish, tables, RequestsAreHandledOnce
  <2>5. ASSUME ~\E h \in Handlers : \/ EnqueueCallback(h)
                                    \/ AuditCallback(h)
                                    \/ SealRaises(h)
        PROVE  callbacks' = callbacks /\ ended' = ended
    BY <2>5 DEF Next, IngestStep, HandlerStep, vars, tables, handlers,
           StartIngest, BindField, SaveBinding, AuditIngest, Deliver, Receive,
           GetBinding, Prove, Seal, PackageArrives, ReleaseArrives, Crash,
           Restart
  <2>6. \A c \in callbacks :
           c.request \in ended => <<"callback", c.request, "release">> \in audit
    BY <1>1 DEF AuditIsTruthful
  <2>7. ASSUME NEW h \in Handlers, EnqueueCallback(h), NEW c \in callbacks',
               c.request \in ended'
        PROVE  c \in callbacks
    <3>. DEFINE new == [request |-> request[h], root |-> seen[h]]
    <3>1. new.request = request[h]
      OBVIOUS
    <3>2. c # new
      BY <2>2, <2>7, <3>1
    <3>. QED
      BY <2>2, <2>7, <3>2
  <2>. QED
    BY <1>2, <2>2, <2>3, <2>4, <2>5, <2>6, <2>7
<1>6. \A p \in queued' : <<"ingest", p.record>> \in audit'
  <2>1. ASSUME NEW t \in Ingesters, Deliver(t)
        PROVE  /\ queued' = queued \cup {OutboundRow(t)}
               /\ <<"ingest", OutboundRow(t).record>> \in audit
    BY <1>1, <2>1 DEF Deliver, IngestsOnTrack, OutboundRow
  <2>2. ASSUME ~\E t \in Ingesters : Deliver(t)
        PROVE  queued' = queued
    BY <2>2 DEF Next, IngestStep, HandlerStep, vars, tables, StartIngest,
           BindField, SaveBinding, AuditIngest, Receive, GetBinding, Prove,
           Seal, SealRaises, EnqueueCallback, AuditCallback, PackageArrives,
           ReleaseArrives, Crash, Restart
  <2>3. \A p \in queued : <<"ingest", p.record>> \in audit
    BY <1>1 DEF AuditIsTruthful
  <2>4. ASSUME NEW p \in queued' \ queued
        PROVE  <<"ingest", p.record>> \in audit
    <3>1. PICK t \in Ingesters :
             /\ p = OutboundRow(t)
             /\ <<"ingest", OutboundRow(t).record>> \in audit
      BY <2>1, <2>2, <2>4
    <3>. QED
      BY <3>1
  <2>. QED
    BY <1>2, <2>3, <2>4
<1>. QED
  BY <1>4, <1>5, <1>6 DEF AuditIsTruthful

-----------------------------------------------------------------------------
(* The theorems.                                                           *)

\* What ingest and callback threads hold, and what they leave in the tables,
\* is inductive: every theorem below rests on it.
THEOREM Invariance == Spec => []IInv
<1>1. IInv /\ [Next]_vars => IInv'
  BY TypeStep, RootsStep, ReleasesStep, IngestsStep, HandlersStep, OnceStep,
     AuditStep DEF IInv
<1>. QED
  BY InvariantInit, <1>1, PTL DEF Spec

THEOREM TypeCorrect == Spec => []TypeOK
BY Invariance, PTL DEF IInv

\* "Return a stable salt" (state/store.py, salt_for): every leaf of every root
\* that was saved or sent can be rebuilt from the salts table, although ingest
\* and callback threads draw the salts of one record in separate transactions
\* and the process may die between any two.
THEOREM SaltsAreStable == Spec => []RootsReproducible
BY Invariance, PTL DEF IInv

\* No release is queued without the access policy's consent, for a field whose
\* value was in its leaf, or against a root that does not cover the field
\* (callback/handler.py, handle).
THEOREM NoUnprovenRelease == Spec => []ReleasesVerify
BY Invariance, PTL DEF IInv

\* What the audit table says of releases, answers and ingests is so, and of a
\* request that was handled to the end it lacks no release: only one cut off
\* between its release and its entry is missing.
THEOREM AuditIsTrue == Spec => []AuditIsTruthful
BY Invariance, PTL DEF IInv

\* A permitted request for a field of the saved root, whose leaf has no value,
\* is refused only if the field's label changed since the record was bound:
\* never because the salt did.
THEOREM RefusalMeansDrift == Spec => RefusedOnlyOnDrift
<1>1. ASSUME IInv, [Next]_vars, NEW h \in Handlers, hpc[h] = "prove",
             decision'[h] = "deny:proof-fail"
      PROVE  LET leaf == seen[h][request[h].field]
             IN  \/ leaf.value # Empty
                 \/ leaf.label # CallbackLabel(request[h].field)
  <2>1. TypeOK /\ HandlersOnTrack
    BY <1>1 DEF IInv
  <2>2. decision[h] = "none"
    BY <1>1, <2>1 DEF HandlersOnTrack
  <2>3. Prove(h)
    <3>1. ASSUME NEW g \in Handlers, g # h,
                 \/ \E q \in Requests : Receive(g, q)
                 \/ HandlerStep(g)
          PROVE  decision'[h] = decision[h]
      BY <2>1, <3>1 DEF TypeOK, HandlerStep, Receive, GetBinding, Deny, Prove,
             Seal, SealRaises, EnqueueCallback, AuditCallback, Finish
    <3>2. /\ ~\E q \in Requests : Receive(h, q)
          /\ HandlerStep(h) => Prove(h)
      BY <1>1 DEF HandlerStep, Receive, GetBinding, Seal, SealRaises,
             EnqueueCallback, AuditCallback
    <3>3. CASE Crash
      BY <1>1, <3>3 DEF Crash
    <3>4. ASSUME ~Crash,
                 ~\E g \in Handlers : HandlerStep(g),
                 ~\E g \in Handlers, q \in Requests : Receive(g, q)
          PROVE  decision' = decision
      BY <1>1, <3>4 DEF Next, IngestStep, vars, handlers, StartIngest,
             BindField, SaveBinding, AuditIngest, Deliver, PackageArrives,
             ReleaseArrives, Restart
    <3>. QED
      BY <1>1, <2>2, <3>1, <3>2, <3>3, <3>4
  <2>. DEFINE f == request[h].field
              leaf == Leaf(f, "pointer", Empty, CallbackLabel(f),
                           SaltFor(request[h].record, f))
  <2>4. /\ request[h].record \in Records /\ f \in Fields
        /\ seen[h] \in Roots /\ Reproducible(request[h].record, seen[h])
    BY <1>1, <2>1, ConstantsAssumption DEF TypeOK, HandlersOnTrack
  <2>5. f \in DOMAIN seen[h] /\ seen[h][f] # leaf
    <3>1. \/ Deny(h, "deny:field-not-bound")
          \/ f \in DOMAIN seen[h] /\ seen[h][f] # leaf
          \/ UNCHANGED decision
      BY <2>3 DEF Prove
    <3>2. ~Deny(h, "deny:field-not-bound")
      BY <1>1, <2>1 DEF TypeOK, Deny
    <3>. QED
      BY <1>1, <2>2, <3>1, <3>2
  <2>6. seen[h][f] \in Leaves
    BY <2>4, <2>5 DEF Roots
  <2>7. leaf = [name |-> f, value |-> Empty, label |-> CallbackLabel(f),
                salt |-> SaltFor(request[h].record, f)]
    BY DEF Leaf, Protected
  <2>8. /\ seen[h][f].name = f
        /\ seen[h][f].salt = SaltFor(request[h].record, f)
    BY <2>4, <2>5 DEF Reproducible, SaltFor
  <2>. HIDE DEF leaf, f
  <2>9. seen[h][f].value # Empty \/ seen[h][f].label # CallbackLabel(f)
    BY <2>5, <2>6, <2>7, <2>8 DEF Leaves
  <2>. QED
    BY <2>9 DEF f
<1>2. ASSUME IInv, [Next]_vars
      PROVE  \A h \in Handlers :
                /\ hpc[h] = "prove"
                /\ decision'[h] = "deny:proof-fail"
                => LET leaf == seen[h][request[h].field]
                   IN  \/ leaf.value # Empty
                       \/ leaf.label # CallbackLabel(request[h].field)
  BY <1>1, <1>2
<1>. QED
  BY <1>2, Invariance, PTL DEF Spec, RefusedOnlyOnDrift
=============================================================================
