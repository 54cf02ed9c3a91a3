------------------------------- MODULE Connect -------------------------------
(***************************************************************************)
(* From a source row to a record in the shape of an Expectation: transform *)
(* chains, mappings, conformance and labels, in the connector              *)
(* (pipeline/mapping.py, pipeline/transforms.py, models.py) and in the     *)
(* reference (rachis/connect.py, rachis/model.py), and the reference's     *)
(* offline Validator.                                                      *)
(*                                                                         *)
(* A text is the sequence of a base and the edits made to it; a mapping is *)
(* [id, expectation, fields], fields a sequence of [target, source,        *)
(* transforms, onUnmapped, classification]; an Expectation is [version,    *)
(* marking, fields], fields a function to [type, required, pattern].       *)
(***************************************************************************)
EXTENDS DisclosurePolicy, SequencesExt

CONSTANTS
    Extensions,   \* the field names with a namespace
    Numeric,      \* the texts that int() and float() accept
    EmptyText

ASSUME ExtensionsAssumption == Extensions \subseteq Fields

Str(text) == [kind |-> "string", text |-> text]
IsString(v) == v # None /\ v.kind = "string"

Unary == {"trim", "upper", "lower"}
Affix == {"prefix", "suffix"}
Conversion == [to_int |-> "integer", to_float |-> "decimal"]

\* The arguments each transform of the standard library requires.
Registry ==
    [fn \in Unary \cup DOMAIN Conversion |-> {}]
        @@ [fn \in Affix \cup {"split", "default"} |-> {"arg"}]
        @@ [fn \in {"codelist"} |-> {"table"}]

\* build_transform raises on an unknown function or a missing argument.
Compiles(mapping) ==
    \A i \in DOMAIN mapping.fields :
        \A j \in DOMAIN mapping.fields[i].transforms :
            LET spec == mapping.fields[i].transforms[j]
            IN  /\ spec.fn \in DOMAIN Registry
                /\ Registry[spec.fn] \subseteq DOMAIN spec

\* The transforms the reference has, which do as the connector's of the same
\* name.
TRANSFORMS == {"trim", "upper", "prefix", "split", "codelist"}

\* One transform on one value; what it does not apply to passes unchanged,
\* except for codelist and the conversions, which give None.
Transformed(spec, v) ==
    CASE spec.fn \in Unary ->
            IF IsString(v) THEN Str(Append(v.text, spec.fn)) ELSE v
      [] spec.fn \in Affix ->
            IF v = None THEN None ELSE Str(Append(v.text, spec.arg))
      [] spec.fn = "split" ->
            IF IsString(v)
            THEN [kind |-> "array", text |-> Append(v.text, spec.arg)]
            ELSE v
      [] spec.fn = "codelist" ->
            IF IsString(v) /\ v.text \in DOMAIN spec.table
            THEN Str(spec.table[v.text]) ELSE None
      [] spec.fn \in DOMAIN Conversion ->
            IF v # None /\ v.text \in Numeric
            THEN [kind |-> Conversion[spec.fn], text |-> v.text] ELSE None
      [] spec.fn = "default" ->
            IF v = None \/ v = Str(EmptyText) THEN Str(spec.arg) ELSE v

SourceValue(fm, row) == IF fm.source \in DOMAIN row THEN row[fm.source]
                        ELSE None

\* Both ports have every transform of the mapping.
InBothLibraries(mapping) ==
    /\ Compiles(mapping)
    /\ \A i \in DOMAIN mapping.fields :
           \A j \in DOMAIN mapping.fields[i].transforms :
               mapping.fields[i].transforms[j].fn \in TRANSFORMS

\* The chain stops at the first None if the field may be omitted.
Chain(fm, transforms, row) ==
    FoldLeft(LAMBDA acc, spec :
                 IF acc.omitted THEN acc
                 ELSE LET v == Transformed(spec, acc.value)
                      IN  [value |-> v,
                           omitted |-> /\ v = None
                                       /\ fm.onUnmapped =
                                            "omit_field_with_reason"],
             [value |-> SourceValue(fm, row), omitted |-> FALSE],
             transforms)

\* out[target] = value, of a dictionary.
Put(out, target, value) ==
    [f \in DOMAIN out \cup {target} |-> IF f = target THEN value ELSE out[f]]

\* Of several fields with one target the last one serves all: MappingEngine
\* keeps its chains, and label_overrides its labels, in a dictionary.
LastFor(mapping, target) ==
    LET last == CHOOSE i \in DOMAIN mapping.fields :
                    /\ mapping.fields[i].target = target
                    /\ \A j \in DOMAIN mapping.fields :
                           mapping.fields[j].target = target => j <= i
    IN  mapping.fields[last]

CompiledChain(mapping, target) == LastFor(mapping, target).transforms

\* Faulty variant: a field whose chain was stopped is emitted all the same.
EngineEmits(mapping, row) ==
    FoldLeft(LAMBDA out, fm :
                 LET got == Chain(fm, CompiledChain(mapping, fm.target), row)
                 IN  Put(out, fm.target, got.value),
             << >>, mapping.fields)

\* The connector's MappingEngine.transform: a field that comes out as None
\* is left out, with a reason or without.
EngineTransform(mapping, row) ==
    FoldLeft(LAMBDA out, fm :
                 LET got == Chain(fm, CompiledChain(mapping, fm.target), row)
                 IN  IF got.value = None THEN out
                     ELSE Put(out, fm.target, got.value),
             << >>, mapping.fields)

\* The reference's Mapping.transform: only a field that was stopped is left
\* out; any other None is a value of the record.
Transform(mapping, row) ==
    FoldLeft(LAMBDA out, fm :
                 LET got == Chain(fm, fm.transforms, row)
                 IN  IF got.omitted THEN out
                     ELSE Put(out, fm.target, got.value),
             << >>, mapping.fields)

Targets(mapping) == {mapping.fields[i].target : i \in DOMAIN mapping.fields}

\* mapping_hash: sources, transforms and classifications are left out.
MappingHash(mapping) ==
    [alg |-> "sha384",
     of |-> <<mapping.id, mapping.expectation, Targets(mapping)>>]

KindsOf == [string |-> {"string"}, integer |-> {"integer"},
            decimal |-> {"integer", "decimal"}, array |-> {"array"}]

\* The type and the pattern of a field hold for what is not None.
Fits(spec, v) ==
    v # None => /\ v.kind \in KindsOf[spec.type]
                /\ IsString(v) /\ spec.pattern # None => v.text \in spec.pattern

\* Expectation.validate_record.
Problems(expectation, record) ==
    {f \in DOMAIN expectation.fields :
        expectation.fields[f].required
            /\ (f \notin DOMAIN record \/ record[f] = None)}
    \cup (DOMAIN record \ (DOMAIN expectation.fields \cup Extensions))
    \cup {f \in DOMAIN record \cap DOMAIN expectation.fields :
              ~Fits(expectation.fields[f], record[f])}

\* label_overrides names every field; what no classification was written
\* for is "UNMARKED" there already.
LabelsFor(mapping, policyId, mapped) ==
    [f \in DOMAIN mapped |->
        [policy |-> policyId, caveats |-> {},
         classification |-> LastFor(mapping, f).classification]]

-----------------------------------------------------------------------------
(* The offline Validator.                                                  *)

\* _propose_derivations: entries of the library that the mapping's fields
\* match and the policy does not name.
Proposed(mapping, policy, library) ==
    {d \in library :
        /\ {d.field} \cup d.from \subseteq Targets(mapping)
        /\ \A e \in policy.derivations : e.field # d.field \/ e.from # d.from}

\* Validator.run on a sample of one row.
Conformant(expectation, mapping, policy, row) ==
    /\ Problems(expectation, Transform(mapping, row)) = {}
    /\ Conflicts(policy) = {}
=============================================================================
