----------------------------- MODULE JsonSchema -----------------------------
(***************************************************************************)
(* JSON values, and what a JSON Schema says of them: the library that      *)
(* zolem verifies synthesized arguments with (santhosh-tekuri/jsonschema), *)
(* for the keywords that the verification keeps.                           *)
(*                                                                         *)
(* A schema is a record of the keywords it has.  [always |-> b] is the     *)
(* boolean schema b.  A document is a function from names to schemas;      *)
(* ref holds such a name, and "root" stands for "#".  A string is known by *)
(* its length.                                                             *)
(***************************************************************************)
EXTENDS Integers, SequencesExt

Null   == [k |-> "null"]
Int42  == [k |-> "integer", n |-> 42]
Num(n) == [k |-> "integer", n |-> n]
Str(n) == [k |-> "string", n |-> n]
Bool(b) == [k |-> "boolean", b |-> b]
Obj(f) == [k |-> "object", f |-> f]
Arr(s) == [k |-> "array", s |-> s]
Lorem  == Str(11)

Has(S, key) == key \in DOMAIN S
Get(S, key, default) == IF Has(S, key) THEN S[key] ELSE default
NoFields == [x \in {} |-> Null]
Empty    == [x \in {} |-> TRUE]       (* the schema {}                      *)
Without(S, keys) == [x \in DOMAIN S \ keys |-> S[x]]

(* The properties additionalProperties does not cover.                     *)
Covered(S) == DOMAIN Get(S, "properties", NoFields) \cup Get(S, "patternProperties", {})

InRange(S, v) ==
  CASE v.k = "integer" -> /\ Has(S, "minimum") => v.n >= S.minimum
                          /\ Has(S, "exclusiveMinimum") => v.n > S.exclusiveMinimum
                          /\ Has(S, "maximum") => v.n <= S.maximum
                          /\ Has(S, "exclusiveMaximum") => v.n < S.exclusiveMaximum
    [] v.k = "string" -> /\ Has(S, "minLength") => v.n >= S.minLength
                         /\ Has(S, "maxLength") => v.n <= S.maxLength
    [] v.k = "array" -> /\ Has(S, "minItems") => Len(v.s) >= S.minItems
                        /\ Has(S, "maxItems") => Len(v.s) <= S.maxItems
    [] v.k = "object" -> /\ Has(S, "minProperties") => Cardinality(DOMAIN v.f) >= S.minProperties
                         /\ Has(S, "maxProperties") => Cardinality(DOMAIN v.f) <= S.maxProperties
    [] OTHER -> TRUE

RECURSIVE Valid(_, _, _)
Valid(doc, S, v) ==
  LET sub(i, key) == Valid(doc, S[key][i], v) IN
  /\ Get(S, "always", TRUE)
  /\ Has(S, "type") => v.k \in ToSet(S.type)
  /\ Has(S, "const") => v = S.const
  /\ Has(S, "enum") => v \in ToSet(S.enum)
  /\ InRange(S, v)
  /\ Has(S, "ref") => Valid(doc, doc[S.ref], v)
  /\ Has(S, "not") => ~Valid(doc, S["not"], v)
  /\ Has(S, "allOf") => \A i \in DOMAIN S.allOf : sub(i, "allOf")
  /\ Has(S, "anyOf") => \E i \in DOMAIN S.anyOf : sub(i, "anyOf")
  /\ Has(S, "oneOf") => Cardinality({i \in DOMAIN S.oneOf : sub(i, "oneOf")}) = 1
  /\ v.k = "array" /\ Has(S, "items") => \A i \in DOMAIN v.s : Valid(doc, S.items, v.s[i])
  /\ v.k = "object" =>
       /\ ToSet(Get(S, "required", <<>>)) \subseteq DOMAIN v.f
       /\ \A p \in DOMAIN v.f \cap DOMAIN Get(S, "properties", NoFields) :
            Valid(doc, S.properties[p], v.f[p])
       /\ Has(S, "additionalProperties") =>
            \A p \in DOMAIN v.f \ Covered(S) : Valid(doc, S.additionalProperties, v.f[p])
=============================================================================
