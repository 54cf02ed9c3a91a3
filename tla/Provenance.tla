----------------------------- MODULE Provenance -----------------------------
(***************************************************************************)
(* The signed package: salted leaves in canonical order, the Merkle tree   *)
(* over them, inclusion proofs, and the Binder that puts them together     *)
(* (rachis-reference/rachis/provenance.py; crypto/merkle.py and            *)
(* pipeline/binder.py in the connector).                                   *)
(*                                                                         *)
(* Hashing takes a list of parts, each with its length, and is free of     *)
(* collisions: a hash is the tuple of its parts.  A header leaf has two    *)
(* parts, a node three and a field's leaf four.                            *)
(***************************************************************************)
EXTENDS Connect

CONSTANT CodePoint   \* the order of the field names by Unicode code point

ASSUME FieldsAssumption == IsFiniteSet(Fields)
ASSUME CodePointAssumption ==
    /\ CodePoint \in [Fields -> Nat]
    /\ \A f, g \in Fields : CodePoint[f] = CodePoint[g] => f = g

\* Faulty variant: of a hash-only value, too, nothing is in the leaf.
LeafHashOfClear(name, disposition, repr, label, salt) ==
    <<name, IF disposition = "clear" /\ repr # None THEN repr ELSE EmptyText,
      label, salt>>

\* The value takes part only for what is released; EmptyText is b"".
LeafHash(name, disposition, repr, label, salt) ==
    <<name,
      IF disposition \notin Protected /\ repr # None THEN repr ELSE EmptyText,
      label, salt>>

HeaderHash(header) == <<"header", header>>

\* Core fields before extensions, each by code point.
Before(f, g) ==
    \/ f \notin Extensions /\ g \in Extensions
    \/ /\ f \in Extensions <=> g \in Extensions
       /\ CodePoint[f] < CodePoint[g]

\* sorted: at each place the name that as many others precede.
CanonicalOrder(names) ==
    [i \in 1 .. Cardinality(names) |->
        CHOOSE f \in names :
            Cardinality({g \in names : Before(g, f)}) = i - 1]

Node(left, right) == <<"node", left, right>>

\* Faulty variant: an odd last node moves up as it is.
ParentsPromoted(level) ==
    [k \in 1 .. (Len(level) + 1) \div 2 |->
        IF 2 * k <= Len(level) THEN Node(level[2 * k - 1], level[2 * k])
        ELSE level[2 * k - 1]]

\* The last node of an odd level is paired with itself.
Parents(level) ==
    [k \in 1 .. (Len(level) + 1) \div 2 |->
        Node(level[2 * k - 1],
             level[IF 2 * k <= Len(level) THEN 2 * k ELSE 2 * k - 1])]

\* MerkleTree._build: the levels from the leaves (at 0) up, and how far it
\* goes: to the first level of one node, the root.
Tower(leaves) ==
    LET level[k \in Nat] == IF k = 0 THEN leaves ELSE Parents(level[k - 1])
    IN  level

Height(leaves) == CHOOSE k \in 0 .. Len(leaves) :
                      /\ Len(Tower(leaves)[k]) = 1
                      /\ \A j \in 0 .. k - 1 : Len(Tower(leaves)[j]) > 1

Root(leaves) == Tower(leaves)[Height(leaves)][1]

\* MerkleTree.proof: the siblings on the way up; indices count from 0.
Sibling(level, index) ==
    LET other == IF index % 2 = 0 THEN index + 1 ELSE index - 1
        sibling == IF other >= Len(level) THEN index ELSE other
    IN  [side |-> IF sibling < index THEN "L" ELSE "R",
         hash |-> level[sibling + 1]]

Path(index) == LET at[k \in Nat] == IF k = 0 THEN index ELSE at[k - 1] \div 2
               IN  at

Proof(leaves, index) ==
    [k \in 1 .. Height(leaves) |->
        Sibling(Tower(leaves)[k - 1], Path(index)[k - 1])]

\* MerkleTree.verify: from a leaf and its proof to a root.
Climb(acc, step) == IF step.side = "L" THEN Node(step.hash, acc)
                    ELSE Node(acc, step.hash)

Recomputed(leaf, proof) == FoldLeft(Climb, leaf, proof)

Verifies(leaf, proof, root) == root = Recomputed(leaf, proof)

\* The leaves of a resolved record: the header at 0, then the fields.
LeavesOf(header, resolved, salts) ==
    <<HeaderHash(header)>> \o
        [i \in 1 .. Cardinality(DOMAIN resolved) |->
            LET f == CanonicalOrder(DOMAIN resolved)[i]
                spec == resolved[f]
            IN  LeafHash(f, spec.disposition, spec.repr, spec.label, salts[f])]

\* A field as it travels: what its disposition carries, and its proof.
DisclosedField(f, spec, proof, salt) ==
    [name |-> f, disposition |-> spec.disposition, proof |-> proof,
     label |-> spec.label, value |-> spec.value,
     repr |-> IF spec.disposition \in Protected THEN None ELSE spec.repr,
     salt |-> IF spec.disposition \in Protected THEN None ELSE salt,
     digest |-> spec.digest, pointer |-> spec.pointer]

\* Binder.bind, but for the drawing of the salts.
Bind(record, header, recordLabel, resolved, salts, key) ==
    LET order == CanonicalOrder(DOMAIN resolved)
        leaves == LeavesOf(header, resolved, salts)
        root == Root(leaves)
    IN  [record |-> record, root |-> root,
         signature |-> [key |-> key, root |-> root],
         header |-> header, recordLabel |-> recordLabel,
         fields |-> [i \in DOMAIN order |->
                        DisclosedField(order[i], resolved[order[i]],
                                       Proof(leaves, i), salts[order[i]])],
         count |-> Len(leaves)]
=============================================================================
