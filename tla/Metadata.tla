------------------------------ MODULE Metadata ------------------------------
(***************************************************************************)
(* Metadata values, the filters over them (Filter) and the inverted index  *)
(* that finds the records of an equality filter (MetadataFilterIndex).     *)
(*                                                                         *)
(* A value is a kind and a number that orders it among its kind.  A filter *)
(* is the root of its syntax tree, or Everything.                          *)
(***************************************************************************)
EXTENDS Integers, Sequences, SequencesExt, FiniteSets

CONSTANTS
    NaN,            \* the number of a double that is not one
    Within,         \* pairs of strings, the second being part of the first
    SixDigits,      \* the least integer that operator<< has to shorten
    Nodes,          \* syntax trees, with their subtrees
    Everything,     \* the filter without a root
    NoConstraints   \* std::nullopt

-----------------------------------------------------------------------------
(* Values *)

Whole(n) == [kind |-> "int", n |-> n]
Double(n) == [kind |-> "double", n |-> n]
Text(n) == [kind |-> "string", n |-> n]

Numeric(v) == v.kind \in {"int", "double"}

Comparable(v, w) == v.kind = w.kind \/ (Numeric(v) /\ Numeric(w))

\* NaN is neither less nor greater than any number, so it passes for equal.
Less(v, w) == NaN \notin {v.n, w.n} /\ v.n < w.n

Satisfies(op, v, w) ==
    /\ Comparable(v, w)
    /\ CASE op = "eq" -> ~Less(v, w) /\ ~Less(w, v)
         [] op = "ne" -> Less(v, w) \/ Less(w, v)
         [] op = "lt" -> Less(v, w)
         [] op = "le" -> ~Less(w, v)
         [] op = "gt" -> Less(w, v)
         [] op = "ge" -> ~Less(v, w)

-----------------------------------------------------------------------------
(* Filters *)

Where(field, op, value) == [kind |-> "cmp", field |-> field, op |-> op, value |-> value]
OneOf(field, values) == [kind |-> "in", field |-> field, values |-> values]
Has(field, value) == [kind |-> "contains", field |-> field, value |-> value]

And(f, g) ==
    IF f = Everything THEN g ELSE IF g = Everything THEN f
    ELSE [kind |-> "conj", a |-> f, b |-> g]

Or(f, g) ==
    IF Everything \in {f, g} THEN Everything ELSE [kind |-> "disj", a |-> f, b |-> g]

Not(f) == IF f = Everything THEN [kind |-> "none"] ELSE [kind |-> "neg", a |-> f]

\* The subtrees of a node.
Parts(node) ==
    IF node.kind \in {"conj", "disj"} THEN {node.a, node.b}
    ELSE IF node.kind = "neg" THEN {node.a} ELSE {}

\* Every way down a syntax tree ends.
ASSUME MetadataAssumption ==
    /\ \A node \in Nodes : Parts(node) \subseteq Nodes
    /\ \A S \in SUBSET Nodes : S # {} => \E node \in S : Parts(node) \intersect S = {}

\* eval_node, from what its subtrees come to.
Verdict(node, payload, holds) ==
    \/ /\ node.kind = "cmp" /\ node.field \in DOMAIN payload
       /\ Satisfies(node.op, payload[node.field], node.value)
    \/ /\ node.kind = "in" /\ node.field \in DOMAIN payload
       /\ \E w \in node.values : Satisfies("eq", payload[node.field], w)
    \/ /\ node.kind = "contains" /\ node.field \in DOMAIN payload
       /\ payload[node.field].kind = "string"
       /\ <<payload[node.field], node.value>> \in Within
    \/ node.kind = "conj" /\ holds[node.a] /\ holds[node.b]
    \/ node.kind = "disj" /\ (holds[node.a] \/ holds[node.b])
    \/ node.kind = "neg" /\ ~holds[node.a]

\* A payload is a function from the fields that the record has.
Matches(f, payload) ==
    LET holds[node \in Nodes] == Verdict(node, payload, holds)
    IN f = Everything \/ holds[f]

\* Mutant: either side of a disjunction is a constraint on the whole.
EitherSide(node, walk) ==
    IF node.kind = "cmp" /\ node.op = "eq" THEN {<<node.field, {node.value}>>}
    ELSE IF node.kind = "in" THEN {<<node.field, node.values>>}
    ELSE IF /\ node.kind \in {"conj", "disj"}
            /\ NoConstraints \notin {walk[node.a], walk[node.b]}
         THEN walk[node.a] \union walk[node.b]
    ELSE NoConstraints

\* What a node demands, from what its subtrees do.
Required(node, walk) ==
    IF node.kind = "cmp" /\ node.op = "eq" THEN {<<node.field, {node.value}>>}
    ELSE IF node.kind = "in" THEN {<<node.field, node.values>>}
    ELSE IF node.kind = "conj" /\ NoConstraints \notin {walk[node.a], walk[node.b]}
         THEN walk[node.a] \union walk[node.b]
    ELSE NoConstraints

\* The fields that must have one of some values, if that is all the filter says.
ExactConstraints(f) ==
    LET walk[node \in Nodes] == Required(node, walk)
    IN IF f = Everything THEN {} ELSE walk[f]

-----------------------------------------------------------------------------
(* The inverted index: triples of a field, an encoded value and an id. *)

\* Integers and doubles are encoded as numbers, but an integer to six digits.
EncodeValue(v) ==
    IF v.kind = "int" /\ v.n >= SixDigits
    THEN <<"rounded", (v.n + SixDigits \div 2) \div SixDigits>>
    ELSE <<IF Numeric(v) THEN "n" ELSE v.kind, v.n>>

Postings(id, payload) == {<<field, EncodeValue(payload[field]), id>> : field \in DOMAIN payload}

ExactCandidates(exact, f) ==
    LET constraints == ExactConstraints(f)
        found(c) == {p[3] : p \in {q \in exact : q[1] = c[1] /\ \E v \in c[2] : q[2] = EncodeValue(v)}}
    IN IF constraints = NoConstraints THEN NoConstraints
       ELSE {id \in UNION {found(c) : c \in constraints} : \A c \in constraints : id \in found(c)}
=============================================================================
