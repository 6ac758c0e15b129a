------------------------------ MODULE MCTools ------------------------------
(***************************************************************************)
(* Tool-call synthesis: concurrent calls that share slots (ToolSynth), and *)
(* what one of them generates for a schema (ArgsGenerator).  part tells    *)
(* which a behaviour is about; the other's variables keep their initial    *)
(* values.                                                                 *)
(***************************************************************************)
EXTENDS ToolSynth

CONSTANTS Parts, c1, c2, t1, Documents, Instances, Names,
          MaxVerifyDepth, MaxVerifyNodes, MaxFanOut, MaxDepth, MaxRecursion, MaxAbsNumber,
          MaxListed, MaxLeafCandidates, MaxBranchCandidates, MaxAttempts, MaxArrayItems,
          MaxOutput, MaxSimpleHops, MaxSimpleKeys, MaxSimpleWork
VARIABLES part, doc, phase, tree, outs, out

INSTANCE JsonSchema
Args == INSTANCE ArgsGenerator

avars == <<doc, phase, tree, outs, out>>
tvars == <<part, vars, avars>>
Synth(A) == part = "calls" /\ A /\ UNCHANGED <<avars, part>>

PartInit ==
  /\ part \in Parts
  /\ Init
  /\ IF part = "args" THEN Args!Init ELSE Args!Init /\ doc = CHOOSE d \in Documents : TRUE
PartNext == Synth(Next) \/ (part = "args" /\ Args!Next /\ UNCHANGED <<vars, part>>)
(* Callers and the goroutine's own code run, clocks go on, and a check by  *)
(* the library, which the deadline does not cut short, ends.               *)
PartSpec ==
  /\ PartInit /\ [][PartNext]_tvars
  /\ \A c \in Calls : WF_tvars(Synth(Call(c))) /\ WF_tvars(Synth(DeadlinePasses(c)))
  /\ \A c \in Calls : WF_tvars(Synth(Generate(c))) /\ WF_tvars(Synth(Check(c)))

VerifiedIsValid == Args!VerifiedIsValid

MCToolOf == [c \in Calls |-> t1]

-----------------------------------------------------------------------------
(* Families of tool schemas: plain objects, recursion, negation, merged    *)
(* branches and references, arrays, choices, and what the builder refuses. *)
MCNames == <<"a", "n", "x">>
T(t) == [type |-> <<t>>]
RefTo(d) == [ref |-> d]
False == [always |-> FALSE]
Props(p, S) == [type |-> <<"object">>, properties |-> [q \in {p} |-> S]]
Needs(p, S) == [type |-> <<"object">>, properties |-> [q \in {p} |-> S], required |-> <<p>>]
Only(root) == [x \in {"root"} |-> root]
With(root, D) == [x \in {"root", "D"} |-> IF x = "root" THEN root ELSE D]

Leaves == {T("string"), T("integer"), T("boolean"), False, Empty,
           [type |-> <<"null", "integer">>],
           [type |-> <<"integer">>, minimum |-> 0, exclusiveMaximum |-> 43],
           [type |-> <<"integer">>, exclusiveMinimum |-> 42],
           [type |-> <<"integer">>, minimum |-> 0, maximum |-> 0],
           [type |-> <<"string">>, minLength |-> 12], [type |-> <<"string">>, maxLength |-> 0],
           [const |-> Num(0)], [enum |-> <<Num(0), Lorem>>],
           [type |-> <<"array">>, items |-> T("integer"), minItems |-> 1],
           [type |-> <<"array">>, items |-> T("integer"), maxItems |-> 0]}
Tail2 == [anyOf |-> <<T("null"), RefTo("D")>>]

Objects == {Only([type |-> <<"object">>, properties |-> [a |-> S, x |-> T("integer")],
                  required |-> r, additionalProperties |-> more]) :
              S \in Leaves, r \in {<<>>, <<"a">>, <<"x", "n">>}, more \in {False, Empty, T("integer")}}
Recursive == {With(RefTo("D"), Needs("n", Tail2)), With(Props("a", RefTo("D")), Needs("n", Tail2)),
              Only(Props("n", RefTo("root"))), Only(Needs("n", RefTo("root"))),
              Only(Needs("n", [type |-> <<"array">>, items |-> RefTo("root")])),
              With(Needs("a", [ref |-> "D", required |-> <<"x">>]), Props("n", Tail2))}
Negated == {Only([type |-> <<"object">>, not |-> Needs("n", S)]) :
              S \in Leaves \cup {RefTo("root"), [not |-> RefTo("root")]}}
           \cup {Only([type |-> <<"object">>, properties |-> [a |-> [not |-> S]], required |-> <<"a">>]) :
                   S \in Leaves}
Merged == {Only([allOf |-> <<Needs("a", S1), Props("a", S2)>>]) : S1, S2 \in Leaves}
Choices2 == {Only([type |-> <<"object">>, anyOf |-> <<Needs("a", S), Needs("n", T("null")), T("null")>>]) :
              S \in Leaves}
            \cup {Only([type |-> <<"object">>, oneOf |-> <<Needs("a", T("integer")), Needs("x", S)>>]) :
                    S \in Leaves}
Refused == {Only([type |-> <<"object">>, dynamicRef |-> "root"]), Only(False), Only(T("string")),
            Only(Props("a", [type |-> <<"integer">>, minimum |-> 101])),
            Only(Props("a", [const |-> Num(101)])), Only(Props("a", RefTo("E"))),
            Only(Props("a", [id |-> "elsewhere"])), Only(Needs("a", [prefixItems |-> <<T("string")>>])),
            With(Props("a", [ref |-> "D", type |-> <<"object">>]), Props("n", T("integer"))),
            Only([type |-> <<"object">>, anyOf |-> <<Empty, Empty, Empty, Empty>>]),
            Only([anyOf |-> <<T("null"), Needs("a", False)>>]),
            Only([type |-> <<"object">>, minProperties |-> 1, maxProperties |-> 1])}
(* More than the limits allow: lists, values, work.                        *)
Wide(S) == [type |-> <<"object">>, properties |-> [p \in {"a", "n", "x"} |-> S]]
Excessive == {Only([type |-> <<"object">>, required |-> <<"a", "n", "x">>]),
              Only(Needs("a", [enum |-> <<Null, Num(0), Lorem>>])),
              Only(Needs("a", [enum |-> <<Null, Num(0), Lorem>>, anyOf |-> <<T("null"), Empty>>])),
              Only(Wide(Wide(Wide(RefTo("E"))))), Only(Wide([const |-> Num(101)])),
              Only(Wide([const |-> Arr(<<Null, Null, Null, Null, Null, Null, Null, Null>>)])),
              Only(Wide(Wide([type |-> <<"null", "array">>, dynamicRef |-> "root"]))),
              Only(Needs("a", [type |-> <<"array">>, minItems |-> 4,
                                items |-> Needs("a", Needs("n", T("string")))]))}
MCDocuments == Objects \cup Recursive \cup Negated \cup Merged \cup Choices2 \cup Refused
               \cup Excessive

V0 == {Null, Num(0), Int42, Num(43), Lorem, Str(0), Bool(TRUE), Arr(<<>>), Arr(<<Int42>>)}
V1 == {Obj(NoFields)} \cup {Obj([q \in {p} |-> v]) : p \in {"a", "n", "x"}, v \in V0}
      \cup {Obj([a |-> v, x |-> w]) : v \in V0, w \in {Int42, Lorem}}
Nest(V) == {Obj([q \in {p} |-> v]) : p \in {"a", "n"}, v \in V}
Chain1 == Nest({Obj(NoFields), Obj([n |-> Null]), Obj([n |-> Arr(<<Obj([n |-> Null])>>)])})
MCInstances == V1 \cup Chain1 \cup Nest(Chain1) \cup Nest(Nest(Chain1)) \cup Nest(Nest(Nest(Chain1)))

(* One branch wants three levels, another recurses, a third ends it.       *)
Deep == Needs("n", Needs("n", Needs("n", T("object"))))
OneOfDocuments ==
  {Only([type |-> <<"object">>, oneOf |-> <<Deep, Needs("n", RefTo("root")), Props("n", False)>>])}
=============================================================================
