---------------------------- MODULE ArgsGenerator ----------------------------
(***************************************************************************)
(* Tool-call arguments (internal/provider/backend/toolsynth.go): one call  *)
(* of synthesize for a document, as the steps that decide its outcome.     *)
(* The verification tree is built, arguments are generated from it and     *)
(* checked against it, attempt by attempt, and whatever cannot be          *)
(* verified is replaced by the simple arguments.                           *)
(*                                                                         *)
(* The generator's budgets of work and time may end a call at any attempt  *)
(* (GiveUp); how they do is ToolSynth's.  The size of a value is the       *)
(* number of values and keys in it, where the code counts bytes.  Formats, *)
(* numbers that are no integers, and the cap on the JSON values of one     *)
(* attempt (2000, which shortens arrays) are left out.                     *)
(***************************************************************************)
EXTENDS VerifyTree

CONSTANTS Documents,          (* what clients send                         *)
          Instances,          (* values the properties are tried on        *)
          Names,              (* property names, sorted                    *)
          MaxLeafCandidates, MaxBranchCandidates, MaxAttempts, MaxArrayItems,
          MaxOutput,                                  (* maxOutputBytes    *)
          MaxSimpleHops, MaxSimpleKeys, MaxSimpleWork (* of the fallback   *)

VARIABLES doc,     (* the tool's schema                                    *)
          phase,   (* "received" | "generating" | "verified" | "fallback"  *)
          tree,    (* the verification tree                                *)
          outs,    (* what the attempts generated                          *)
          out      (* the arguments returned                               *)

vars == <<doc, phase, tree, outs, out>>

RECURSIVE Size(_)
Size(v) == CASE v.k = "array"  -> 1 + MapThenSumSet(LAMBDA i : Size(v.s[i]), DOMAIN v.s)
             [] v.k = "object" -> 1 + MapThenSumSet(LAMBDA p : 1 + Size(v.f[p]), DOMAIN v.f)
             [] OTHER -> 1

(************************************ generation ***************************)
(* A node is [m, vs]: the schema to generate from, and the schemas of the  *)
(* tree its value must satisfy.                                            *)
At(S) == [m |-> S, vs |-> {S}]
IsCombined(S) == Has(S, "anyOf") \/ Has(S, "oneOf")
IsBoolean(S) == Has(S, "always")
Prefix(s, n) == SubSeq(s, 1, IF Len(s) < n THEN Len(s) ELSE n)

(* null comes last; object and array are inferred.                         *)
schemaTypes(S) ==
  LET t == Get(S, "type", <<>>) IN
  IF t # <<>> THEN SelectSeq(t, LAMBDA x : x # "null") \o SelectSeq(t, LAMBDA x : x = "null")
  ELSE IF Has(S, "properties") \/ Has(S, "required") THEN <<"object">>
  ELSE IF Has(S, "items") THEN <<"array">> ELSE <<>>
IsNullType(S) == schemaTypes(S) = <<"null">>

stringValue(S) ==
  LET padded == IF Get(S, "minLength", 0) > Lorem.n THEN S.minLength ELSE Lorem.n
  IN Str(IF Get(S, "maxLength", padded) < padded THEN S.maxLength ELSE padded)

(* 42 and the ends of the range, each once; exclusive bounds win over      *)
(* equal ones.                                                             *)
LowExclusive(S) == Has(S, "exclusiveMinimum")
                   /\ (Has(S, "minimum") => S.exclusiveMinimum >= S.minimum)
HighExclusive(S) == Has(S, "exclusiveMaximum")
                    /\ (Has(S, "maximum") => S.exclusiveMaximum <= S.maximum)
integerCandidates(S) ==
  LET low == IF LowExclusive(S) THEN <<Num(S.exclusiveMinimum + 1)>>
             ELSE IF Has(S, "minimum") THEN <<Num(S.minimum)>> ELSE <<>>
      high == IF HighExclusive(S) THEN <<Num(S.exclusiveMaximum - 1)>>
              ELSE IF Has(S, "maximum") THEN <<Num(S.maximum)>> ELSE <<>>
  IN FoldLeft(LAMBDA acc, c : IF c \in ToSet(acc) THEN acc ELSE Append(acc, c),
              <<Int42>>, low \o high)

(* Properties of several allOf branches: bounds and enums of one primitive *)
(* type are intersected, anything else is generated from the first.        *)
Tightest(a, b, key, higher) ==
  IF ~Has(b, key) THEN a
  ELSE IF Has(a, key) /\ (IF higher THEN a[key] >= b[key] ELSE a[key] <= b[key]) THEN a
  ELSE [x \in DOMAIN a \cup {key} |-> IF x = key THEN b[key] ELSE a[x]]
MergeSchemas(a, b) ==
  LET bounded == Tightest(Tightest(Tightest(Tightest(Tightest(Tightest(
                   a, b, "minimum", TRUE), b, "exclusiveMinimum", TRUE), b, "minLength", TRUE),
                   b, "maximum", FALSE), b, "exclusiveMaximum", FALSE), b, "maxLength", FALSE)
      added == {key \in {"enum", "const"} : Has(b, key) /\ ~Has(a, key)}
  IN [x \in DOMAIN bounded \cup added |->
        IF x \in added THEN b[x]
        ELSE IF x = "enum" /\ Has(b, "enum")
             THEN SelectSeq(a.enum, LAMBDA e : e \in ToSet(b.enum))
             ELSE bounded[x]]
Primitive(S) == Len(Get(S, "type", <<>>)) = 1 /\ S.type[1] \notin {"object", "array"}
mergeProp(list) ==
  [m  |-> IF Primitive(list[1].m)
             /\ \A i \in DOMAIN list : Get(list[i].m, "type", <<>>) = list[1].m.type
          THEN FoldLeft(LAMBDA a, s : MergeSchemas(a, s.m), list[1].m, Tail(list))
          ELSE list[1].m,
   vs |-> UNION {list[i].vs : i \in DOMAIN list}]

RECURSIVE Candidates(_, _, _), Node(_, _, _)
(* anyOf/oneOf: at most three candidates of a branch, null branches last,  *)
(* until there are enough.                                                 *)
branchCandidates(sc, depth, rot) ==
  LET typed(b) == IF ~Has(b, "type") /\ Has(sc.m, "type")
                  THEN [x \in DOMAIN b \cup {"type"} |-> IF x = "type" THEN sc.m.type ELSE b[x]]
                  ELSE b
      all == SelectSeq(Get(sc.m, "anyOf", <<>>) \o Get(sc.m, "oneOf", <<>>),
                       LAMBDA b : ~IsBoolean(b))
      branches == [i \in DOMAIN all |-> typed(all[i])]
      ordered == SelectSeq(branches, LAMBDA b : ~IsNullType(b))
                 \o SelectSeq(branches, LAMBDA b : IsNullType(b))
  IN FoldLeft(LAMBDA acc, b :
                IF Len(acc) >= MaxLeafCandidates THEN acc
                ELSE acc \o Prefix(Candidates([m |-> b, vs |-> sc.vs], depth, rot),
                                   MaxBranchCandidates),
              <<>>, ordered)

arrayCandidates(sc, depth, rot) ==
  LET least == Get(sc.m, "minItems", 0)
      wanted == IF least < 1 THEN 1 ELSE IF least > MaxArrayItems THEN MaxArrayItems ELSE least
      n == IF Get(sc.m, "maxItems", wanted) < wanted THEN sc.m.maxItems ELSE wanted
      items == Get(sc.m, "items", Empty)
      item == Node(At(IF IsBoolean(items) THEN Empty ELSE items), depth + 1, rot).v
      most == IF MaxOutput \div Size(item) < 1 THEN 1 ELSE MaxOutput \div Size(item)
      full == Arr([i \in 1..(IF n > most THEN most ELSE n) |-> item])
  IN IF n = 0 THEN <<Arr(<<>>)>>
     ELSE IF least = 0 THEN <<full, Arr(<<>>)>> ELSE <<full>>

(* The schemas that make up an object, or none if it is none.              *)
objectContribs(sc) ==
  LET all == Get(sc.m, "allOf", <<>>)
      first(S) == IF schemaTypes(S) = <<>> THEN "none" ELSE Head(schemaTypes(S))
  IN IF all = <<>> THEN IF first(sc.m) = "object" THEN <<sc.m>> ELSE <<>>
     ELSE IF (\E i \in DOMAIN all : IsBoolean(all[i]) \/ first(all[i]) # "object")
             \/ first(sc.m) \notin {"none", "object"} THEN <<>>
     ELSE <<sc.m>> \o all

AsSchema(S) == IF ~IsBoolean(S) THEN S
               ELSE IF S.always THEN Empty ELSE [x \in {"not"} |-> Empty]
(* Required properties, or, if there are none, all that have a valid value.*)
objectValue(contribs, depth, rot) ==
  LET props(i) == Get(contribs[i], "properties", NoFields)
      having(p) == SelectSeq([i \in DOMAIN contribs |-> i], LAMBDA i : p \in DOMAIN props(i))
      schemas(p) == [j \in DOMAIN having(p) |->
                       [m  |-> AsSchema(props(having(p)[j])[p]), vs |-> {props(having(p)[j])[p]}]]
      required == UNION {ToSet(Get(contribs[i], "required", <<>>)) : i \in DOMAIN contribs}
      declared == UNION {DOMAIN props(i) : i \in DOMAIN contribs}
      extra == SelectSeq(contribs, LAMBDA c : Has(c, "additionalProperties")
                                              /\ ~IsBoolean(c.additionalProperties))
      generated(p) ==
        IF p \in declared THEN Node(mergeProp(schemas(p)), depth + 1, rot)
        ELSE IF extra # <<>>
             THEN [Node([m |-> extra[1].additionalProperties,
                         vs |-> {extra[i].additionalProperties : i \in DOMAIN extra}],
                        depth + 1, rot) EXCEPT !.ok = TRUE]
        ELSE [v |-> Lorem, ok |-> TRUE]
      keys == IF required # {} THEN required
              ELSE {p \in declared : generated(p).ok}
  IN Obj([p \in keys |-> generated(p).v])

Candidates(sc, depth, rot) ==
  LET S == sc.m
      ofType(t) == CASE t = "string"  -> <<stringValue(S)>>
                     [] t = "integer" -> integerCandidates(S)
                     [] t = "boolean" -> <<Bool(TRUE), Bool(FALSE)>>
                     [] t = "null"    -> <<Null>>
                     [] t = "array"   -> arrayCandidates(sc, depth, rot)
                     [] t = "object"  -> <<objectValue(<<S>>, depth, rot)>>
      given == (IF Has(S, "const") THEN <<S.const>> ELSE <<>>) \o Get(S, "enum", <<>>)
      types == schemaTypes(S)
  IN given \o
     (IF IsCombined(S) THEN branchCandidates(sc, depth, rot)
      ELSE IF objectContribs(sc) # <<>> THEN <<objectValue(objectContribs(sc), depth, rot)>>
      ELSE IF types = <<>> THEN <<Lorem>>
      ELSE FlattenSeq([i \in DOMAIN types |-> ofType(types[i])]))

(* The first candidate that validates, or the rot-th one of a choice; if   *)
(* none does, the first candidate, as invalid.                             *)
Node(sc, depth, rot) ==
  IF depth > MaxDepth THEN [v |-> Null, ok |-> FALSE]
  ELSE LET all == Prefix(Candidates(sc, depth, rot), MaxLeafCandidates)
           valid == SelectSeq(all, LAMBDA c : \A S \in sc.vs : Valid(doc, S, c))
           want == IF IsCombined(sc.m) THEN rot + 1 ELSE 1
       IN IF valid # <<>> THEN [v |-> Last(Prefix(valid, want)), ok |-> TRUE]
          ELSE [v |-> IF all = <<>> THEN Null ELSE all[1], ok |-> FALSE]

(************************************ the fallback *************************)
(* simpleArgs walks the client's document: constants by type, the first    *)
(* const, enum value or branch, some keys of an object.  A step is         *)
(* [v, work, size]: a value, what is left of the work, and what has been   *)
(* emitted; once either is used up, nothing more is looked at.             *)
Spend(w, n) == [w EXCEPT !.work = @ - n]
Emit(w, v)  == [w EXCEPT !.v = v, !.size = @ + Size(v)]
Goes(w)     == w.work >= 0 /\ w.size <= MaxOutput

(* Required properties, or else all of them in order, up to a limit.       *)
LeafKeys(S, w) ==
  LET required == Prefix(Get(S, "required", <<>>), MaxSimpleKeys)
      props == SelectSeq(Names, LAMBDA p : p \in DOMAIN Get(S, "properties", NoFields))
      all == Spend(w, Len(props))
  IN IF required # <<>> /\ Goes(Spend(w, 1))
     THEN [keys |-> Prefix(required, w.work), w |-> Spend(w, Len(required))]
     ELSE IF props # <<>> /\ Goes(all) THEN [keys |-> Prefix(props, MaxSimpleKeys), w |-> all]
     ELSE [keys |-> <<>>, w |-> all]

RECURSIVE Leaf(_, _, _, _, _)
LeafObject(S, depth, hops, w) ==
  LET props == Get(S, "properties", NoFields)
      looked == LeafKeys(S, Emit(w, Obj(NoFields)))
      field(acc, p) ==
        LET at == Spend(acc, 1)
            key == [at EXCEPT !.size = @ + 1]
            r == IF p \in DOMAIN props THEN Leaf(props[p], depth + 1, hops, FALSE, key)
                 ELSE Emit(key, Lorem)
        IN IF ~Goes(at) THEN at
           ELSE [r EXCEPT !.v = Obj([q \in DOMAIN acc.v.f \cup {p} |->
                                       IF q = p THEN r.v ELSE acc.v.f[q]])]
  IN IF depth > MaxDepth THEN Emit(w, Obj(NoFields)) ELSE FoldLeft(field, looked.w, looked.keys)

(* What a node's type asks for: the first name that is not null.  A list   *)
(* of names is charged by the name, a single one is not.                   *)
LeafOfType(S, depth, hops, top, w0) ==
  LET named == Get(S, "type", <<>>)
      good == {i \in DOMAIN named : named[i] # "null"}
      first == IF good = {} THEN Len(named) ELSE Min(good)
      w == IF Len(named) > 1 THEN Spend(w0, first) ELSE w0
      type == IF named # <<>> /\ (Goes(w) \/ Len(named) = 1) THEN named[first]
              ELSE IF Has(S, "properties") \/ Has(S, "required") THEN "object" ELSE "none"
  IN IF top THEN IF type \in {"object", "none"} THEN LeafObject(S, depth, hops, w)
                 ELSE Emit(w, Obj(NoFields))
     ELSE CASE type = "integer" -> Emit(w, Int42)
            [] type = "boolean" -> Emit(w, Bool(TRUE))
            [] type = "array"   -> Emit(w, Arr(<<>>))
            [] type = "object"  -> LeafObject(S, depth, hops, w)
            [] OTHER -> Emit(w, Lorem)

(* Each look at a keyword is charged, whatever comes of it.                *)
Leaf(S, depth, hops, top, w0) ==
  LET branches == Get(S, "anyOf", <<>>) \o Get(S, "oneOf", <<>>)
      good == {i \in DOMAIN branches : ~IsBoolean(branches[i])
                                       /\ Get(branches[i], "type", <<>>) # <<"null">>}
      first == IF good = {} THEN Len(branches) ELSE Min(good)
      visit == Spend(w0, 1)
      refd == IF Has(S, "ref") /\ hops < MaxSimpleHops THEN Spend(visit, 1) ELSE visit
      consted == IF ~top /\ Has(S, "const") THEN Spend(refd, 1) ELSE refd
      enumed == IF ~top /\ Get(S, "enum", <<>>) # <<>> THEN Spend(consted, 1) ELSE consted
      branched == IF top THEN enumed ELSE Spend(enumed, first)
  IN IF IsBoolean(S) THEN Emit(w0, IF top THEN Obj(NoFields) ELSE Lorem)
     ELSE IF ~Goes(visit) THEN Emit(visit, Lorem)
     ELSE IF Has(S, "ref") /\ hops < MaxSimpleHops /\ Goes(refd) /\ S.ref \in DOMAIN doc
             /\ ~IsBoolean(doc[S.ref])
          THEN Leaf(doc[S.ref], depth, hops + 1, top, refd)
     ELSE IF ~top /\ Has(S, "const") /\ Goes(consted) /\ CleanValue(S.const)
          THEN Emit(consted, S.const)
     ELSE IF ~top /\ Get(S, "enum", <<>>) # <<>> /\ Goes(enumed) /\ CleanValue(S.enum[1])
          THEN Emit(enumed, S.enum[1])
     ELSE IF ~top /\ good # {} /\ Goes(branched)
          THEN Leaf(branches[first], depth + 1, hops, FALSE, branched)
     ELSE LeafOfType(S, depth, hops, top, branched)

walk == Leaf(doc["root"], 0, 0, TRUE, [v |-> Null, work |-> MaxSimpleWork, size |-> 0])
simpleArgs == IF walk.size > MaxOutput THEN Obj(NoFields) ELSE walk.v

(************************************ synthesize ***************************)
Init ==
  /\ doc \in Documents
  /\ phase = "received"
  /\ tree = Empty
  /\ outs = <<>>
  /\ out = Null

(* A root that is no object schema gives {}.                               *)
TypeAllowsObject(S) == Has(S, "type") => "object" \in ToSet(S.type)

Return(how, v) == phase' = how /\ out' = v

Reject ==
  /\ phase = "received"
  /\ IsBoolean(doc["root"]) \/ ~TypeAllowsObject(doc["root"])
  /\ Return("fallback", Obj(NoFields))
  /\ UNCHANGED <<doc, tree, outs>>

BuildTree ==
  /\ phase = "received"
  /\ ~IsBoolean(doc["root"]) /\ TypeAllowsObject(doc["root"])
  /\ IF Build(doc).ok THEN tree' = Build(doc).t /\ phase' = "generating" /\ out' = out
                      ELSE tree' = tree /\ Return("fallback", simpleArgs)
  /\ UNCHANGED <<doc, outs>>

GiveUp ==
  /\ phase = "generating"
  /\ Return("fallback", simpleArgs)
  /\ UNCHANGED <<doc, tree, outs>>

(* Only an object that validates and is not too large is emitted.          *)
Emittable(r) == r.ok /\ r.v.k = "object" /\ Size(r.v) <= MaxOutput

(* One attempt of run: the choices rotate, and a repeated result ends the  *)
(* search.                                                                 *)
Attempt ==
  LET r == Node(At(tree), 0, Len(outs)) IN
  /\ phase = "generating"
  /\ outs' = Append(outs, r.v)
  /\ IF Emittable(r) THEN Return("verified", r.v)
     ELSE IF r.v \in ToSet(outs) \/ Len(outs) + 1 = MaxAttempts THEN Return("fallback", simpleArgs)
     ELSE UNCHANGED <<phase, out>>
  /\ UNCHANGED <<doc, tree>>

Next == Reject \/ BuildTree \/ GiveUp \/ Attempt

Spec == Init /\ [][Next]_vars
Returned == phase \in {"verified", "fallback"}

(************************************ properties ***************************)

(* The verification tree is at least as strict as the client's schema:     *)
(* whatever it accepts, with its references cut, the schema accepts        *)
(* (toolsynth.go:1362).  This is about schemas that refer to nothing from  *)
(* under a oneOf: for the others VerifiedIsValid is known to fail.         *)
Subs(S) == {S.properties[p] : p \in DOMAIN Get(S, "properties", NoFields)}
           \cup UNION {ToSet(Get(S, key, <<>>)) : key \in Subschemas}
           \cup {S[key] : key \in {"items", "additionalProperties", "not"} \cap DOMAIN S}
RECURSIVE RefFree(_), SettledChoices(_)
RefFree(S) == ~Has(S, "ref") /\ \A c \in Subs(S) : RefFree(c)
SettledChoices(S) == /\ \A c \in ToSet(Get(S, "oneOf", <<>>)) : RefFree(c)
                     /\ \A c \in Subs(S) : SettledChoices(c)
TreeIsStricter ==
  tree # Empty /\ (\A x \in DOMAIN doc : SettledChoices(doc[x])) =>
    \A v \in Instances : Valid(doc, tree, v) => Valid(doc, doc["root"], v)

(* Arguments reported as verified satisfy the client's schema.             *)
VerifiedIsValid == phase = "verified" => Valid(doc, doc["root"], out)

(* Without recursion, negation and dropped keywords the tree also accepts  *)
(* whatever the schema accepts: inlining and merging lose nothing.         *)
RECURSIVE Plain(_, _)
Plain(S, targets) ==
  /\ DOMAIN S \subseteq (Kept \cup {"ref", "always"}) \ {"not"}
  /\ \A c \in Subs(S) : Plain(c, targets)
  /\ Has(S, "ref") => S.ref \in targets
NothingLost ==
  (tree # Empty /\ \A x \in DOMAIN doc :
                    Plain(doc[x], IF x = "root" THEN DOMAIN doc \ {"root"} ELSE {})) =>
    \A v \in Instances : Valid(doc, doc["root"], v) => Valid(doc, tree, v)

(* docs/admin-mode.md:710: required properties are always generated.  In   *)
(* verified arguments the schema sees to it; the unverified ones have the  *)
(* first MaxSimpleKeys of them, if the walk's budget lasts (724-726).      *)
RequiredGenerated ==
  LET required == Get(doc["root"], "required", <<>>) IN
  phase = "fallback" /\ ~IsBoolean(doc["root"]) /\ TypeAllowsObject(doc["root"])
      /\ ~Has(doc["root"], "ref") /\ Goes(walk)
    => ToSet(Prefix(required, MaxSimpleKeys)) \subseteq DOMAIN out.f

=============================================================================
