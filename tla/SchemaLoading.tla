--------------------------- MODULE SchemaLoading ---------------------------
(***************************************************************************)
(* How a listener gets its request schemas (cmd/zolem/startup.go: loadSpecs, *)
(* providerSpecKeys, writeLocalState; internal/specs: fetcher.go, validator.go, *)
(* vendored.go).  A load asks its fetcher for each document: from memory,  *)
(* from a file that all loads of the machine share, from the network, or   *)
(* from the snapshot in the binary.  What compiles is checked, what does   *)
(* not is not, and a request on a route without a schema passes unchecked. *)
(*                                                                         *)
(* zolem gives its fetcher no source URLs; other callers of the package    *)
(* may (fetcher.go, fetchClient).  Those are the loads in Online.          *)
(***************************************************************************)
EXTENDS Naturals, Sequences

CONSTANTS Loads,      (* startups that share one temporary directory       *)
          Online,     (* those of them whose fetcher has source URLs       *)
          Providers,
          MaxStarts   (* bound on startups and restarts                    *)

VARIABLES provider, disk, pc, todo, data, memory, schemas, warnings,
          returned,   (* what Get has returned for a key in this startup   *)
          starts
vars == <<provider, disk, pc, todo, data, memory, schemas, warnings, returned, starts>>

(* Mutant: the second route of a provider is forgotten.                    *)
firstSpecKeys(p) ==
  CASE p = "gemini" -> <<"gemini:v1">> [] p = "openai" -> <<"openai:v1">> [] p = "ollama" -> <<"ollama:v1">>
    [] p = "anthropic" -> <<"anthropic:v1">> [] p = "typesafe" -> <<"typesafe:v1">>
providerSpecKeys(p) ==
  CASE p = "anthropic" -> <<"anthropic:v1">>
    [] p = "openai"    -> <<"openai:v1", "openai:v1-responses">>
    [] p = "gemini"    -> <<"gemini:v1", "gemini:v1beta">>
    [] p = "ollama"    -> <<"ollama:v1", "ollama:v1-generate">>
    [] p = "typesafe"  -> <<"typesafe:v1">>

(* The keys the handlers give to Validate, route by route.                 *)
RouteKeys(p) ==
  CASE p = "anthropic" -> {"anthropic:v1"}
    [] p = "openai"    -> {"openai:v1", "openai:v1-responses"}
    [] p = "gemini"    -> {"gemini:v1", "gemini:v1beta"}
    [] p = "ollama"    -> {"ollama:v1", "ollama:v1-generate"}
    [] p = "typesafe"  -> {"typesafe:v1"}
Keys == UNION {RouteKeys(p) : p \in Providers}
VendoredFallbacks == Keys

(* A document is the snapshot of the binary, a newer or older one that     *)
(* compiles, one that does not, or the first bytes of one.                 *)
Compiles == {"vendored", "other"}
Nothing == [k \in Keys |-> "none"]
Key(l) == Head(todo[l])
Offline(l) == l \notin Online

Init ==
  /\ provider \in Providers
  /\ disk = Nothing /\ starts = 0
  /\ pc = [l \in Loads |-> "down"] /\ todo = [l \in Loads |-> <<>>]
  /\ data = [l \in Loads |-> "none"] /\ warnings = [l \in Loads |-> {}]
  /\ memory = [l \in Loads |-> Nothing] /\ schemas = [l \in Loads |-> Nothing]
  /\ returned = [l \in Loads |-> [k \in Keys |-> {}]]

-----------------------------------------------------------------------------
(* A process starts with an empty fetcher and validator.  A caller with    *)
(* sources may ask for a document it has had before.                       *)
Start(l) ==
  /\ pc[l] = "down" /\ starts < MaxStarts
  /\ starts' = starts + 1
  /\ todo' = [todo EXCEPT ![l] = providerSpecKeys(provider) \o
                IF Offline(l) THEN <<>> ELSE <<Head(providerSpecKeys(provider))>>]
  /\ pc' = [pc EXCEPT ![l] = "get"]
  /\ data' = [data EXCEPT ![l] = "none"] /\ warnings' = [warnings EXCEPT ![l] = {}]
  /\ memory' = [memory EXCEPT ![l] = Nothing] /\ schemas' = [schemas EXCEPT ![l] = Nothing]
  /\ returned' = [returned EXCEPT ![l] = [k \in Keys |-> {}]]
  /\ UNCHANGED <<provider, disk>>

Crash(l) ==
  /\ pc[l] # "down"
  /\ pc' = [pc EXCEPT ![l] = "down"]
  /\ UNCHANGED <<provider, disk, todo, data, memory, schemas, warnings, returned, starts>>

Goes(l, step) == pc' = [pc EXCEPT ![l] = step]
(* Mutant: what was read is not remembered.                                *)
Forget(l, d) == data' = [data EXCEPT ![l] = d] /\ UNCHANGED memory
store(l, d) ==
  /\ data' = [data EXCEPT ![l] = d]
  /\ memory' = [memory EXCEPT ![l][Key(l)] = d]

(* Memory, then the file, whatever it holds, then the network.             *)
Get(l) ==
  /\ pc[l] = "get"
  /\ IF memory[l][Key(l)] # "none"
       THEN data' = [data EXCEPT ![l] = memory[l][Key(l)]] /\ Goes(l, "load") /\ UNCHANGED memory
     ELSE IF disk[Key(l)] # "none"
       THEN store(l, disk[Key(l)]) /\ Goes(l, "load")
     ELSE Goes(l, IF Offline(l) THEN "fallback" ELSE "fetch") /\ UNCHANGED <<data, memory>>
  /\ UNCHANGED <<provider, disk, todo, schemas, warnings, returned, starts>>

(* The network answers, with anything, or fails; a hung one fails after    *)
(* the client's timeout.                                                   *)
fetchURL(l) ==
  /\ pc[l] = "fetch"
  /\ \/ \E d \in {"other", "unusable"} : data' = [data EXCEPT ![l] = d] /\ Goes(l, "truncate")
     \/ Goes(l, "fallback") /\ UNCHANGED data
  /\ UNCHANGED <<provider, disk, todo, memory, schemas, warnings, returned, starts>>

(* os.WriteFile truncates the file and then writes it.  Its errors are     *)
(* ignored, before and after.                                              *)
Truncate(l) ==
  /\ pc[l] = "truncate"
  /\ \/ disk' = [disk EXCEPT ![Key(l)] = "torn"] /\ Goes(l, "write") /\ UNCHANGED <<data, memory>>
     \/ store(l, data[l]) /\ Goes(l, "load") /\ UNCHANGED disk
  /\ UNCHANGED <<provider, todo, schemas, warnings, returned, starts>>
WriteFile(l) ==
  /\ pc[l] = "write"
  /\ \/ disk' = [disk EXCEPT ![Key(l)] = data[l]] \/ UNCHANGED disk
  /\ store(l, data[l]) /\ Goes(l, "load")
  /\ UNCHANGED <<provider, todo, schemas, warnings, returned, starts>>

Fallback(l) ==
  /\ pc[l] = "fallback" /\ Key(l) \in VendoredFallbacks
  /\ store(l, "vendored") /\ Goes(l, "load")
  /\ UNCHANGED <<provider, disk, todo, schemas, warnings, returned, starts>>

(* Normalized and compiled, or else warned about; the document that failed *)
(* is neither dropped nor replaced.                                        *)
LoadProviderSchema(l) ==
  /\ pc[l] = "load"
  /\ IF data[l] \in Compiles
       THEN schemas' = [schemas EXCEPT ![l][Key(l)] = data[l]] /\ UNCHANGED warnings
       ELSE warnings' = [warnings EXCEPT ![l] = @ \cup {Key(l)}] /\ UNCHANGED schemas
  /\ returned' = [returned EXCEPT ![l][Key(l)] = @ \cup {data[l]}]
  /\ todo' = [todo EXCEPT ![l] = Tail(@)]
  /\ Goes(l, IF Len(todo[l]) = 1 THEN "serving" ELSE "get")
  /\ UNCHANGED <<provider, disk, data, memory, starts>>

Step(l) == Get(l) \/ fetchURL(l) \/ Truncate(l) \/ WriteFile(l) \/ Fallback(l) \/ LoadProviderSchema(l)
Idle == (\A l \in Loads : pc[l] \in {"down", "serving"}) /\ starts = MaxStarts /\ UNCHANGED vars
Next == (\E l \in Loads : Start(l) \/ Crash(l) \/ Step(l)) \/ Idle
(* loadSpecs is a loop of one goroutine, and each of its calls returns.    *)
Spec == Init /\ [][Next]_vars

-----------------------------------------------------------------------------
(* GET /_zolem/state, and what it is about.                                *)
Has(l, k) == schemas[l][k] # "none"
schemaValidationStatus(l) ==
  IF \A k \in {providerSpecKeys(provider)[i] : i \in DOMAIN providerSpecKeys(provider)} : Has(l, k)
    THEN "enabled" ELSE "unavailable"
Serving(l) == pc[l] = "serving"
Unchecked(l) == {k \in RouteKeys(provider) : ~Has(l, k)}

(* A listener says that validation is enabled exactly when a request on    *)
(* any of its routes is checked, and has logged a warning for every route  *)
(* where it is not (loadSpecs, schemaValidationStatus, Validate).          *)
StateIsTrue ==
  \A l \in Loads : Serving(l) =>
    /\ (schemaValidationStatus(l) = "enabled") <=> (Unchecked(l) = {})
    /\ warnings[l] = Unchecked(l)

(* A fetcher answers for a key as it did the first time, though the file   *)
(* may have been rewritten meanwhile (Fetcher.cache).                      *)
GetIsStable == \A l \in Loads : \A k \in Keys : \A d, e \in returned[l][k] : d = e

(* Without a file and without sources, the snapshot is compiled: no state  *)
(* of the network can keep a listener from checking its requests.          *)
OfflineUsesSnapshot ==
  \A l \in Loads : Serving(l) /\ Offline(l) =>
    \A k \in RouteKeys(provider) : disk[k] = "none" => schemas[l][k] = "vendored"

(* What a listener says of its schemas, and what it checks requests with,  *)
(* hold together: three promises of one startup.                           *)
SchemasHold == StateIsTrue /\ GetIsStable /\ OfflineUsesSnapshot
=============================================================================
