----------------------------- MODULE VerifyTree -----------------------------
(***************************************************************************)
(* verifyBuilder (internal/provider/backend/toolsynth.go): the schema that *)
(* synthesized tool arguments are verified with.  It is built from the     *)
(* client's document by keeping the keywords of an allow list, inlining    *)
(* references and cutting their recursion.                                 *)
(*                                                                         *)
(* The result of a step is [ok, t, n]: whether nothing failed, the tree,   *)
(* and the nodes visited.  The code stops at the first failure, which      *)
(* changes only its message.  The byte budget is one cap with the node     *)
(* budget here.                                                            *)
(***************************************************************************)
EXTENDS JsonSchema

CONSTANTS MaxVerifyDepth, MaxVerifyNodes, MaxFanOut, MaxDepth, MaxRecursion,
          MaxAbsNumber,
          MaxListed           (* maxRequired and maxEnumValues, both 256   *)

Bad == [ok |-> FALSE, t |-> Empty, n |-> 0]

Subschemas  == {"anyOf", "oneOf", "allOf"}
Counts      == {"minItems", "maxItems", "minLength", "maxLength", "minProperties",
                "maxProperties"}
Bounds      == {"minimum", "maximum", "exclusiveMinimum", "exclusiveMaximum"}
Kept        == {"type", "properties", "required", "additionalProperties", "items", "not",
                "enum", "const"} \cup Subschemas \cup Counts \cup Bounds

(* cleanType, cleanCount, cleanNumber, cleanValue: what they refuse.       *)
RECURSIVE CleanValue(_)
CleanValue(v) ==
  CASE v.k = "integer" -> v.n \in -MaxAbsNumber..MaxAbsNumber
    [] v.k = "array"   -> \A i \in DOMAIN v.s : CleanValue(v.s[i])
    [] v.k = "object"  -> \A p \in DOMAIN v.f : CleanValue(v.f[p])
    [] OTHER -> TRUE
CleanKeyword(S, key) ==
  CASE key = "type"         -> S.type # <<>>
    [] key \in Subschemas   -> Len(S[key]) \in 1..MaxFanOut
    [] key \in Counts       -> S[key] \in 0..MaxAbsNumber
    [] key \in Bounds       -> S[key] \in -MaxAbsNumber..MaxAbsNumber
    [] key = "required"     -> Len(S.required) <= MaxListed
    [] key = "enum"         -> /\ Len(S.enum) <= MaxListed
                               /\ \A i \in DOMAIN S.enum : CleanValue(S.enum[i])
    [] key = "const"        -> CleanValue(S.const)
    [] OTHER -> TRUE

(* A cut makes the verification stricter: nothing matches, or, under an    *)
(* odd number of nots, everything.                                         *)
Cut(neg) == [ok |-> TRUE, n |-> 0, t |-> IF neg THEN Empty ELSE [x \in {"not"} |-> Empty]]

(* The keywords beside a reference join those of its target; a keyword     *)
(* that both have is a failure.                                            *)
Merge(a, b) ==
  IF ~a.ok \/ ~b.ok \/ DOMAIN a.t \cap DOMAIN b.t # {} THEN Bad
  ELSE [ok |-> TRUE, n |-> a.n + b.n,
        t |-> [x \in DOMAIN a.t \cup DOMAIN b.t |-> IF Has(a.t, x) THEN a.t[x] ELSE b.t[x]]]

AsObject(e) == IF ~Has(e.t, "always") THEN e
               ELSE [e EXCEPT !.t = IF e.t.always THEN Empty ELSE [x \in {"not"} |-> Empty]]

NodesOf(f) == MapThenSumSet(LAMBDA x : f[x].n, DOMAIN f)
AllOK(f)   == \A x \in DOMAIN f : f[x].ok
Trees(f)   == [x \in DOMAIN f |-> f[x].t]

RECURSIVE Schema(_, _, _, _, _, _)
(* object: the kept keywords of S, with what they hold built in turn.      *)
Object(doc, S, depth, hops, path, neg) ==
  LET child(c) == Schema(doc, c, depth + 1, hops, path, neg)
      family(f) == [ok |-> AllOK(f), t |-> Trees(f), n |-> NodesOf(f)]
      keyword(key) ==
        CASE key = "properties" -> family([p \in DOMAIN S.properties |-> child(S.properties[p])])
          [] key \in Subschemas -> family([i \in DOMAIN S[key] |-> child(S[key][i])])
          [] key \in {"items", "additionalProperties"} -> child(S[key])
          [] key = "not" -> Schema(doc, S["not"], depth + 1, hops, path, ~neg)
          [] OTHER -> [ok |-> TRUE, t |-> S[key], n |-> 0]
      kept == [key \in DOMAIN S \cap Kept |-> keyword(key)]
  IN IF Has(S, "prefixItems") \/ \E key \in DOMAIN S \cap Kept : ~CleanKeyword(S, key)
     THEN Bad ELSE family(kept)

(* A target must be an object; a boolean is reported as unresolvable.      *)
Ref(doc, S, depth, hops, path, neg) ==
  IF S.ref \notin DOMAIN doc \/ Has(Get(doc, S.ref, Empty), "always") THEN Bad
  ELSE LET target == IF hops + 1 > MaxDepth \/ path[S.ref] >= MaxRecursion THEN Cut(neg)
                     ELSE AsObject(Schema(doc, doc[S.ref], depth, hops + 1,
                                          [path EXCEPT ![S.ref] = @ + 1], neg))
       IN Merge(target, Object(doc, Without(S, {"ref"}), depth, hops, path, neg))

Schema(doc, S, depth, hops, path, neg) ==
  IF depth > MaxVerifyDepth THEN Bad
  ELSE IF Has(S, "always") THEN [ok |-> TRUE, t |-> S, n |-> 0]
  ELSE IF Has(S, "dynamicRef") \/ (Has(S, "id") /\ depth + hops > 0) THEN Bad
  ELSE LET r == IF Has(S, "ref") THEN Ref(doc, S, depth, hops, path, neg)
                ELSE Object(doc, S, depth, hops, path, neg)
       IN [r EXCEPT !.n = @ + 1]

Build(doc) ==
  LET r == Schema(doc, doc["root"], 0, 0, [x \in DOMAIN doc |-> 0], FALSE) IN
  IF r.ok /\ r.n <= MaxVerifyNodes THEN r ELSE Bad
=============================================================================
