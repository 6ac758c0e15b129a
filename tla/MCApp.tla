------------------------------- MODULE MCApp --------------------------------
(***************************************************************************)
(* The app of a listener: how it comes to serve, and what it answers to    *)
(* the requests of every provider (MCProviders).  Before it serves, it is  *)
(* built (AppBuild) and its request schemas are loaded (SchemaLoading).    *)
(* part and half tell which of these a behaviour is about; the variables   *)
(* of the others keep their initial values.                                *)
(***************************************************************************)
EXTENDS AppBuild, MCProviders

CONSTANTS Loads, Online, MaxStarts
VARIABLES part, half, listener, cache, loader, keys, data, memory, schemas, warnings, returned, starts

lvars == <<listener, cache, loader, keys, data, memory, schemas, warnings, returned, starts>>
Schemas == INSTANCE SchemaLoading WITH
  Providers <- {"anthropic", "openai", "gemini", "ollama", "typesafe"},
  provider <- listener, disk <- cache, pc <- loader, todo <- keys

(* The provider and the directory matter to their own part only.           *)
StartInit ==
  /\ half \in {"build", "schemas"}
  /\ Init /\ (half = "build" \/
       disk = [namespace |-> FALSE, dirs |-> <<>>, yaml |-> NoFile, selector |-> "none"])
  /\ Schemas!Init /\ (half = "schemas" \/ listener = "openai")
StartNext ==
  /\ UNCHANGED half
  /\ \/ half = "build" /\ Next /\ UNCHANGED lvars
     \/ half = "schemas" /\ Schemas!Next /\ UNCHANGED vars
StartSpec == StartInit /\ [][StartNext]_<<half, vars, lvars>>

SchemasHold == Schemas!SchemasHold

-----------------------------------------------------------------------------
(* An app before and after it serves.                                      *)
AppInit ==
  \/ /\ part = "startup" /\ route = "socket"
     /\ AnyInit /\ open = (CHOOSE o \in SocketOpens : TRUE) /\ backend = "fixture"
     /\ StartInit
  \/ /\ part = "exchange" /\ half = "schemas"
     /\ StartInit /\ listener = "openai"
     /\ AnyInit
AppNext ==
  /\ UNCHANGED part
  /\ \/ part = "startup" /\ StartNext /\ UNCHANGED <<route, xvars, jvars, wvars>>
     \/ part = "exchange" /\ AnyNext /\ UNCHANGED <<half, vars, lvars>>
AppSpec == AppInit /\ [][AppNext]_<<part, half, vars, lvars, route, xvars, jvars, wvars>>

-----------------------------------------------------------------------------
(* Two directories of every kind that the loader tells apart, lists of     *)
(* fixtures, and profiles.                                                 *)
Kind(id, expr, module, number) ==
  [id |-> id, provider |-> "openai", status |-> 0, body |-> TRUE, template |-> "none",
   cel |-> expr, wasm |-> module, score |-> number]
Templated(t, prov) ==
  [Kind("a", "none", "none", 1) EXCEPT !.body = FALSE, !.template = t, !.provider = prov]

Matching == {Kind("a", "good", "none", 0), Kind("b", "good", "none", 1),
             Kind("a", "none", "good", 1), Kind("b", "none", "none", 1)}
Refusals == {[Kind("a", "none", "none", 1) EXCEPT !.status = 600],
             Kind("a", "good", "none", -1), Kind("b", "none", "broken", 1)}
Templates == {Templated("renders", "openai"), Templated("dynamic", "openai"),
              Templated("dynamic", "typesafe"), Templated("unparsable", "typesafe")}
MCKinds == Matching \cup Refusals \cup Templates

Entry(expr, f, steps) == [expression |-> expr, fixture |-> f, steps |-> steps]
MCManifests ==
  {<<>>, <<<<>>>>} \cup
  {<<<<e>>>> : e \in {Entry("good", "a", <<>>),
                     Entry("good", "none", <<"a", "b">>), Entry("good", "a", <<"b">>)}}

Payload(b) == [backend |-> b, errorType |-> "none", wasm |-> "none", model |-> FALSE]
MCPayloads ==
  {Payload(b) : b \in {"lorem", "fixture", "ollama", "error", "bogus"}}
  \cup {[Payload("wasm") EXCEPT !.wasm = w] : w \in {"none", "good", "broken"}}
  \cup {[Payload("error") EXCEPT !.errorType = t] : t \in {"known", "unknown"}}
  \cup {[Payload("ollama-logprob") EXCEPT !.model = x] : x \in BOOLEAN}

MCNames == 1..2
=============================================================================
