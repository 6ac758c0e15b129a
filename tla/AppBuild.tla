------------------------------ MODULE AppBuild ------------------------------
(***************************************************************************)
(* From a profile's PUT to a serving app: UpsertProfile, the build of a    *)
(* listener's app (cmd/zolem/startup.go) and the fixture loader it calls   *)
(* (internal/fixture/loader.go), over a fixtures directory that somebody   *)
(* may edit meanwhile, and the legacy selector that uses what was loaded.  *)
(*                                                                         *)
(* A fixture's directory is a record of what its files say.  Each is read  *)
(* in one step; an edit can fall between two directories, and between the  *)
(* loader's reading and the check that compiles match.wasm.                *)
(***************************************************************************)
EXTENDS Integers, Sequences, FiniteSets

LOCAL INSTANCE SequencesExt

CONSTANTS FixtureNames, (* directory names in their order: a range 1..n       *)
          FixtureKinds, (* what a fixture's directory may hold                *)
          Manifests,    (* fixtures.yaml: <<>>, or <<its sequence of entries>> *)
          Selectors,    (* selector.wasm: "none", "good", "broken"            *)
          Payloads,     (* bodies of the profile's PUT                        *)
          Providers,    (* providers of listeners                             *)
          MaxEdits      (* bound on the number of edits                       *)

(* The score is what a fixture's matcher gives to a request it accepts: a  *)
(* negative score of a match.wasm means no match (fixture/wasm.go).        *)
ASSUME KindsAssumption ==
  \A k \in FixtureKinds : k.score \in Int /\ (k.wasm # "none" => k.score >= 0)

NoFile == <<>>

(* f with the value v at x; the provers do not expand :> and @@.           *)
With(f, x, v) == [y \in DOMAIN f \cup {x} |-> IF y = x THEN v ELSE f[y]]

VARIABLES
  disk,       (* [namespace, dirs, yaml, selector]                          *)
  edits,      (* how often the directory was edited                         *)
  put,        (* the profile that was put                                   *)
  provider,   (* the provider of the listener under construction            *)
  stage,      (* where the build stands                                     *)
  runner,     (* the fixture runner's runtime: "none", "open", "closed"     *)
  generator,  (* the WASM generator's runtime, the same                     *)
  mode,       (* how fixtures are selected: "legacy", "yaml", "selector"    *)
  unread,     (* directories still to load                                  *)
  fixtures,   (* the fixtures loaded                                        *)
  cel,        (* LegacySelector.cel: id -> score of the expression, whose   *)
              (* directory it is                                            *)
  routed,     (* the ids that the entries of fixtures.yaml name             *)
  checked,    (* how many fixtures loadFixtures has checked                 *)
  warned,     (* the fixtures that "will never match"                       *)
  served      (* the last request: what accepts it and what it was served   *)

loading == <<mode, unread, fixtures, cel, routed, checked, warned>>
vars == <<disk, edits, put, provider, stage, runner, generator, loading, served>>

NoRequest == [accepts |-> {}, fixture |-> 0]

Init ==
  /\ \E ns \in BOOLEAN, here \in SUBSET FixtureNames, yaml \in Manifests, sel \in Selectors :
       \E dirs \in [here -> FixtureKinds] :
         disk = [namespace |-> ns, dirs |-> dirs, yaml |-> yaml, selector |-> sel]
  /\ edits = 0 /\ put = [backend |-> "none"] /\ provider = "none" /\ stage = "idle"
  /\ runner = "none" /\ generator = "none"
  /\ mode = "legacy" /\ unread = <<>> /\ fixtures = <<>> /\ cel = <<>>
  /\ routed = {} /\ checked = 0 /\ warned = {} /\ served = NoRequest

(* Somebody replaces, adds or removes a fixture's directory, or removes    *)
(* the namespace.  Only an app of backend fixture reads either, so only    *)
(* then does it matter.                                                    *)
Edit ==
  /\ edits < MaxEdits /\ put.backend = "fixture"
  /\ stage \notin {"idle", "refused", "failed", "built", "closed"}
  /\ edits' = edits + 1
  /\ \/ \E n \in FixtureNames, k \in FixtureKinds :
          disk' = [disk EXCEPT !.dirs = With(@, n, k)]
     \/ \E n \in DOMAIN disk.dirs :
          disk' = [disk EXCEPT !.dirs = [x \in DOMAIN @ \ {n} |-> @[x]]]
     \/ disk' = [namespace |-> FALSE, dirs |-> <<>>, yaml |-> NoFile, selector |-> "none"]
  /\ UNCHANGED <<put, provider, stage, runner, generator, loading, served>>

(************************************* the profile's PUT *******************)
Backends == {"lorem", "faker", "fixture", "ollama", "ollama-logprob", "error", "wasm"}

ValidateProfile(p) ==
  /\ p.backend \in Backends
  /\ p.errorType # "unknown"
  /\ (p.backend = "error") <=> (p.errorType # "none")
  /\ (p.backend = "wasm") <=> (p.wasm # "none")
  /\ p.backend = "ollama-logprob" => p.model

(* The namespace's directory is there, the module compiles; the generator  *)
(* that shows it is closed again.                                          *)
Available(p) ==
  /\ p.backend = "fixture" => disk.namespace
  /\ p.backend = "wasm"    => p.wasm = "good"

UpsertProfile(p) ==
  /\ stage = "idle"
  /\ stage' = IF ValidateProfile(p) /\ Available(p) THEN "accepted" ELSE "refused"
  /\ put' = p
  /\ UNCHANGED <<disk, edits, provider, runner, generator, loading, served>>

(************************************* the app *****************************)
Fits(backend, prov) ==
  IF prov = "typesafe" THEN backend \notin {"ollama", "wasm"}
                       ELSE backend # "ollama-logprob"

StartBuild(prov) ==
  /\ stage = "accepted"
  /\ provider' = prov
  /\ IF Fits(put.backend, prov)
     THEN stage' = "list" /\ runner' = "open"
     ELSE stage' = "failed" /\ UNCHANGED runner
  /\ UNCHANGED <<disk, edits, put, generator, loading, served>>

At(where) == stage = where /\ UNCHANGED <<disk, edits, put, provider, generator, served>>
Go(where) == stage' = where /\ UNCHANGED runner

(* Mutant: an early return without runner.Close.                           *)
FailLeaving == stage' = "failed" /\ UNCHANGED <<runner, loading>>

Fail == stage' = "failed" /\ runner' = "closed" /\ UNCHANGED loading

(* loadLocalFixtures, and the first part of Load: which directories and    *)
(* which selection there are.                                              *)
List ==
  /\ At("list")
  /\ IF put.backend # "fixture" THEN Go("generator") /\ UNCHANGED loading
     ELSE IF ~disk.namespace \/ (disk.yaml # NoFile /\ disk.selector # "none") THEN Fail
     ELSE /\ mode' = CASE disk.yaml # NoFile -> "yaml"
                       [] disk.selector # "none" -> "selector"
                       [] OTHER -> "legacy"
          /\ unread' = SetToSortSeq(DOMAIN disk.dirs, <)
          /\ Go("load")
          /\ UNCHANGED <<fixtures, cel, routed, checked, warned>>

(* What loadOne refuses, whatever the selection.                           *)
Refused(k) ==
  \/ k.status # 0 /\ k.status \notin 200..599
  \/ k.body = (k.template # "none")
  \/ k.cel # "none" /\ k.wasm # "none"
  \/ k.cel = "broken"
  \/ k.cel # "none" /\ k.score < 0
  \/ k.template = "unparsable"

(* Mutant: a score of 0 is taken for none, whose default is 1.             *)
CELScoreDefault(k) == IF k.score = 0 THEN 1 ELSE k.score
CELScore(k) == k.score

Foreign(k) == mode # "legacy" /\ (k.cel # "none" \/ k.wasm # "none")

Remaining == Tail(unread)

loadOne ==
  /\ At("load")
  /\ unread # <<>>
  /\ IF Head(unread) \notin DOMAIN disk.dirs THEN Fail
     ELSE LET k == disk.dirs[Head(unread)] IN
          IF Refused(k) \/ Foreign(k) THEN Fail
          ELSE /\ fixtures' = Append(fixtures, [name |-> Head(unread), kind |-> k, module |-> FALSE])
               /\ cel' = IF k.cel = "none" THEN cel
                         ELSE With(cel, k.id, [score |-> CELScore(k), of |-> Len(fixtures) + 1])
               /\ unread' = Remaining
               /\ Go("load")
               /\ UNCHANGED <<mode, routed, checked, warned>>

Known == {fixtures[i].kind.id : i \in DOMAIN fixtures}

(* Mutant: the steps of a sequence are not looked up.                      *)
EntryUnchecked(e) ==
  /\ e.expression = "good"
  /\ (e.fixture # "none") # (e.steps # <<>>)
  /\ e.fixture # "none" => e.fixture \in Known

EntryOK(e) ==
  /\ e.expression = "good"
  /\ (e.fixture # "none") # (e.steps # <<>>)
  /\ e.fixture # "none" => e.fixture \in Known
  /\ \A j \in DOMAIN e.steps : e.steps[j] \in Known

Targets(e) == ({e.fixture} \cup {e.steps[j] : j \in DOMAIN e.steps}) \ {"none"}

(* loadFixturesYAML, loadSelectorWASM, or the legacy selector as it is.    *)
LoadSelector ==
  /\ At("load")
  /\ unread = <<>>
  /\ IF \/ mode = "yaml" /\ disk.yaml = NoFile
        \/ mode = "yaml" /\ \E i \in DOMAIN disk.yaml[1] : ~EntryOK(disk.yaml[1][i])
        \/ mode = "selector" /\ disk.selector # "good"
     THEN Fail
     ELSE /\ routed' = IF mode = "yaml"
                       THEN UNION {Targets(disk.yaml[1][i]) : i \in DOMAIN disk.yaml[1]}
                       ELSE {}
          /\ Go("check")
          /\ UNCHANGED <<mode, unread, fixtures, cel, checked, warned>>

(* The setup-time render; a Typesafe template is only parsed.              *)
ValidateTemplate(k) ==
  \/ k.template \in {"none", "renders"}
  \/ k.provider = "typesafe"

HasMatcher(f) == f.kind.id \in DOMAIN cel \/ f.module \/ f.kind.wasm # "none"

(* loadFixtures: the template, the warning, and match.wasm read again and  *)
(* compiled.                                                               *)
CheckFixture ==
  /\ At("check")
  /\ checked < Len(fixtures)
  /\ LET i == checked + 1
         f == fixtures[i]
         now == IF f.name \in DOMAIN disk.dirs THEN disk.dirs[f.name].wasm ELSE "none" IN
     IF ~ValidateTemplate(f.kind) \/ (f.kind.wasm # "none" /\ now # "good") THEN Fail
     ELSE /\ checked' = i
          /\ warned' = IF mode = "legacy" /\ ~HasMatcher(f) THEN warned \cup {i} ELSE warned
          /\ fixtures' = [fixtures EXCEPT ![i].module = f.kind.wasm # "none"]
          /\ Go("check")
          /\ UNCHANGED <<mode, unread, cel, routed>>

EndCheck ==
  /\ At("check")
  /\ checked = Len(fixtures)
  /\ Go("generator")
  /\ UNCHANGED loading

(* generatorForBackend knows every backend of a valid profile;             *)
(* wasmGeneratorForProfile compiles the module.                            *)
MakeGenerator ==
  /\ stage = "generator"
  /\ IF put.backend \notin Backends \/ (put.backend = "wasm" /\ put.wasm # "good")
     THEN Fail /\ UNCHANGED generator
     ELSE /\ generator' = IF put.backend = "wasm" THEN "open" ELSE "none"
          /\ Go("built")
          /\ UNCHANGED loading
  /\ UNCHANGED <<disk, edits, put, provider, served>>

Close ==
  /\ stage = "built"
  /\ stage' = "closed"
  /\ runner' = "closed"
  /\ generator' = IF generator = "open" THEN "closed" ELSE generator
  /\ UNCHANGED <<disk, edits, put, provider, loading, served>>

(************************************* the legacy selector *****************)
Own(i, accepts) ==       (* what fixture i's own matcher says              *)
  IF i \notin accepts THEN -1
  ELSE IF fixtures[i].kind.cel = "none" /\ ~fixtures[i].module THEN -1
  ELSE fixtures[i].kind.score

score(i, accepts) ==
  LET id == fixtures[i].kind.id IN
  IF id \in DOMAIN cel THEN IF cel[id].of \in accepts THEN cel[id].score ELSE -1
  ELSE IF fixtures[i].module /\ i \in accepts THEN fixtures[i].kind.score
  ELSE -1

Candidates == {i \in DOMAIN fixtures : fixtures[i].kind.provider = provider}

(* The best of the fixtures rates rates, the first of equals.              *)
Best(rates) ==
  {i \in DOMAIN rates :
     /\ rates[i] >= 0
     /\ \A j \in DOMAIN rates : rates[j] < rates[i] \/ (rates[j] = rates[i] /\ i <= j)}

(* A request; accepts are the fixtures whose own matcher accepts it.       *)
Serve ==
  /\ stage = "built"
  /\ put.backend = "fixture"
  /\ mode = "legacy"
  /\ \E accepts \in SUBSET DOMAIN fixtures :
       LET best == Best([i \in Candidates |-> score(i, accepts)]) IN
       served' = [accepts |-> accepts,
                  fixture |-> IF best = {} THEN 0 ELSE CHOOSE i \in best : TRUE]
  /\ UNCHANGED <<disk, edits, put, provider, stage, runner, generator, loading>>

Next ==
  \/ \E p \in Payloads : UpsertProfile(p)
  \/ \E prov \in Providers : StartBuild(prov)
  \/ Edit \/ List \/ loadOne \/ LoadSelector \/ CheckFixture \/ EndCheck
  \/ MakeGenerator \/ Serve \/ Close

Spec == Init /\ [][Next]_vars

-----------------------------------------------------------------------------
(* Properties.                                                             *)

(* However a build fails, and whatever was open by then, no WASM runtime   *)
(* is left; nor after the app was closed (startup.go:255-294).             *)
NothingLeft == stage \in {"refused", "failed", "closed"} => "open" \notin {runner, generator}

(* What an app may rely on when it serves: every fixture with a match.wasm *)
(* has its compiled module, the runtime it belongs to is open, each        *)
(* fixture that fixtures.yaml names was loaded; beside a namespace's own   *)
(* selection no fixture has a matcher that would be ignored; and without   *)
(* one the startup warnings name exactly the fixtures that no request can  *)
(* be served (startup.go:255-352, loader.go:105-131).                      *)
ReadyToServe ==
  stage = "built" =>
    /\ runner = "open"
    /\ (put.backend = "wasm") <=> (generator = "open")
    /\ \A i \in DOMAIN fixtures : fixtures[i].module <=> fixtures[i].kind.wasm # "none"
    /\ routed \subseteq Known
    /\ mode # "legacy" =>
         \A i \in DOMAIN fixtures : fixtures[i].kind.cel = "none" /\ fixtures[i].kind.wasm = "none"
    /\ mode = "legacy" =>
         \A i \in DOMAIN fixtures :
           i \in warned <=> \A accepts \in SUBSET DOMAIN fixtures : score(i, accepts) < 0

Distinct == \A i, j \in DOMAIN fixtures : fixtures[i].kind.id = fixtures[j].kind.id => i = j

OwnMatcherServes == served.fixture \in
  LET best == Best([i \in Candidates |-> Own(i, served.accepts)])
  IN IF best = {} THEN {0} ELSE best

(* With ids that differ, a request is served the fixture whose own matcher *)
(* scores it highest, the first of equals.                                 *)
BestOwnServed == Distinct => OwnMatcherServes
=============================================================================
