--------------------------- MODULE StartupProofs ---------------------------
(***************************************************************************)
(* Proofs about what happens before a listener serves, for any fixtures,   *)
(* profiles, edits and startups.                                           *)
(***************************************************************************)
EXTENDS MCApp, SequenceTheorems, TLAPS

-----------------------------------------------------------------------------
(* The build of an app (AppBuild).                                         *)

(* The runner's runtime is open from the start of a build to its end, and  *)
(* the generator's in an app that has one.                                 *)
Runtimes ==
  /\ (runner = "open") <=> stage \in {"list", "load", "check", "generator", "built"}
  /\ (generator = "open") <=> stage = "built" /\ put.backend = "wasm"

Directories ==
  /\ "dirs" \in DOMAIN disk
  /\ DOMAIN disk.dirs \subseteq FixtureNames
  /\ \A n \in DOMAIN disk.dirs : disk.dirs[n] \in FixtureKinds

FixtureType == [name : FixtureNames, kind : FixtureKinds, module : BOOLEAN]

(* What loadOne and the selection let pass.                                *)
Loaded ==
  /\ fixtures \in Seq(FixtureType)
  /\ \A i \in DOMAIN fixtures :
       /\ fixtures[i].kind.cel # "none" => fixtures[i].kind.score >= 0
       /\ mode # "legacy" => fixtures[i].kind.cel = "none" /\ fixtures[i].kind.wasm = "none"
  /\ routed \subseteq Known

(* LegacySelector.cel holds an expression for every id that has one, and   *)
(* each belongs to a fixture of that id.                                   *)
Expressions ==
  /\ \A i \in DOMAIN fixtures : fixtures[i].kind.cel # "none" => fixtures[i].kind.id \in DOMAIN cel
  /\ \A id \in DOMAIN cel :
       /\ cel[id].of \in DOMAIN fixtures
       /\ fixtures[cel[id].of].kind.id = id
       /\ fixtures[cel[id].of].kind.cel # "none"
       /\ cel[id].score = fixtures[cel[id].of].kind.score

(* The modules are compiled, and the warnings given, up to checked.        *)
Silent(i) == mode = "legacy" /\ fixtures[i].kind.id \notin DOMAIN cel /\ fixtures[i].kind.wasm = "none"
Checks ==
  /\ checked \in Nat /\ checked <= Len(fixtures)
  /\ \A i \in DOMAIN fixtures : fixtures[i].module <=> i <= checked /\ fixtures[i].kind.wasm # "none"
  /\ warned = {i \in 1..checked : Silent(i)}

(* How far the build has come.                                             *)
Progress ==
  /\ stage \in {"idle", "refused", "accepted", "list", "load"} => checked = 0
  /\ stage \in {"idle", "refused", "accepted", "list"} => fixtures = <<>> /\ cel = <<>>
  /\ stage \in {"generator", "built"} => checked = Len(fixtures)

Answers ==
  /\ stage \notin {"built", "closed"} => served = NoRequest
  /\ BestOwnServed

BuildInv == Runtimes /\ Directories /\ Loaded /\ Expressions /\ Checks /\ Progress /\ Answers

(* Before the first request nothing has been served, and rightly.          *)
LEMMA NoRequestIsRight == ASSUME served = NoRequest PROVE BestOwnServed
<1>1. \A i \in Candidates : Own(i, served.accepts) = -1
  BY DEF NoRequest, Own
<1>2. Best([i \in Candidates |-> Own(i, served.accepts)]) = {}
  BY <1>1 DEF Best
<1> QED
  BY <1>2 DEF BestOwnServed, OwnMatcherServes, NoRequest

(* Where ids differ, the expression kept for an id is the fixture's own.   *)
LEMMA ScoreIsOwn ==
  ASSUME Expressions, Loaded, Distinct, NEW accepts, NEW i \in DOMAIN fixtures
  PROVE  score(i, accepts) = Own(i, accepts)
<1>1. CASE fixtures[i].kind.id \in DOMAIN cel
  <2>1. cel[fixtures[i].kind.id].of = i
    BY <1>1 DEF Expressions, Distinct
  <2>2. fixtures[i].kind.cel # "none" /\ cel[fixtures[i].kind.id].score = fixtures[i].kind.score
    BY <1>1, <2>1 DEF Expressions
  <2> QED
    BY <1>1, <2>1, <2>2 DEF score, Own
<1>2. CASE fixtures[i].kind.id \notin DOMAIN cel
  <2>1. fixtures[i].kind.cel = "none"
    BY <1>2 DEF Expressions
  <2>2. fixtures[i].module \in BOOLEAN
    <3>1. fixtures[i] \in FixtureType
      BY DEF Loaded
    <3> QED
      BY <3>1 DEF FixtureType
  <2> QED
    BY <1>2, <2>1, <2>2 DEF score, Own
<1> QED
  BY <1>1, <1>2

(* Before the first build nothing is open and nothing is loaded.           *)
LEMMA InitBuildInv == Init => BuildInv
<1> SUFFICES ASSUME Init PROVE BuildInv
  OBVIOUS
<1>1. Runtimes
  BY DEF Init, Runtimes
<1>2. Directories
  BY DEF Init, Directories
<1>3. Loaded /\ Expressions /\ Progress
  BY DEF Init, Loaded, Expressions, Progress, Known
<1>4. Checks
  BY DEF Init, Checks, Silent
<1>5. Answers
  BY NoRequestIsRight DEF Init, Answers
<1> QED
  BY <1>1, <1>2, <1>3, <1>4, <1>5 DEF BuildInv

(* A step that loads nothing and serves nothing changes the runtimes, the  *)
(* directories or the progress only.                                       *)
LEMMA NothingLoaded ==
  ASSUME BuildInv, UNCHANGED <<loading, provider, served>>
  PROVE  Loaded' /\ Expressions' /\ Checks' /\ BestOwnServed'
<1>1. UNCHANGED <<mode, unread, fixtures, cel, routed, checked, warned>>
  BY DEF loading
<1>2. Loaded' /\ Expressions' /\ Checks'
  BY <1>1 DEF BuildInv, Loaded, Expressions, Checks, Known, Silent
<1>3. BestOwnServed'
  <2>1. Candidates' = Candidates /\ Distinct' = Distinct
    BY <1>1 DEF Candidates, Distinct
  <2>2. \A i \in Candidates : Own(i, served.accepts)' = Own(i, served.accepts)
    BY <1>1 DEF Own
  <2>3. [i \in Candidates |-> Own(i, served.accepts)]' = [i \in Candidates |-> Own(i, served.accepts)]
    BY <2>1, <2>2
  <2> QED
    BY <2>1, <2>3 DEF BuildInv, Answers, BestOwnServed, OwnMatcherServes
<1> QED
  BY <1>2, <1>3

(* An edit leaves every directory one of the kinds.                        *)
LEMMA EditKeeps == ASSUME BuildInv, Edit PROVE BuildInv'
<1>1. Directories'
  <2>1. "dirs" \in DOMAIN disk /\ DOMAIN disk.dirs \subseteq FixtureNames
        /\ \A n \in DOMAIN disk.dirs : disk.dirs[n] \in FixtureKinds
    BY DEF BuildInv, Directories
  <2>2. ASSUME NEW n \in FixtureNames, NEW k \in FixtureKinds, disk' = [disk EXCEPT !.dirs = With(@, n, k)]
        PROVE  Directories'
    <3>1. disk'.dirs = With(disk.dirs, n, k)
      BY <2>1, <2>2
    <3> QED
      BY <2>1, <2>2, <3>1 DEF Directories, With
  <2>3. ASSUME NEW n \in DOMAIN disk.dirs,
               disk' = [disk EXCEPT !.dirs = [x \in DOMAIN @ \ {n} |-> @[x]]]
        PROVE  Directories'
    BY <2>1, <2>3 DEF Directories
  <2>4. CASE disk' = [namespace |-> FALSE, dirs |-> <<>>, yaml |-> NoFile, selector |-> "none"]
    BY <2>4 DEF Directories
  <2> QED
    BY <2>2, <2>3, <2>4 DEF Edit
<1>2. UNCHANGED <<loading, provider, served, put, stage, runner, generator>>
  BY DEF Edit
<1>3. Runtimes' /\ Progress' /\ Answers'
  BY <1>2, NothingLoaded DEF BuildInv, Runtimes, Progress, Answers, loading
<1> QED
  BY <1>1, <1>2, <1>3, NothingLoaded DEF BuildInv

(* The PUT, the start and the end of a build, and the close.               *)
LEMMA QuietKeeps ==
  ASSUME BuildInv,
         \/ \E p \in Payloads : UpsertProfile(p)
         \/ \E prov \in Providers : StartBuild(prov)
         \/ EndCheck \/ MakeGenerator \/ Close
  PROVE  BuildInv'
<1>1. UNCHANGED <<disk, loading, served>>
  BY DEF UpsertProfile, StartBuild, EndCheck, At, MakeGenerator, Fail, Close
<1>2. Directories'
  BY <1>1 DEF BuildInv, Directories
<1>3. Runtimes'
  BY DEF UpsertProfile, StartBuild, EndCheck, At, Go, MakeGenerator, Fail, Close, BuildInv, Runtimes
<1>4. Progress'
  BY <1>1 DEF UpsertProfile, StartBuild, EndCheck, At, Go, MakeGenerator, Fail, Close, BuildInv, Progress, loading
<1>5. Loaded' /\ Expressions' /\ Checks'
  BY <1>1 DEF BuildInv, Loaded, Expressions, Checks, Known, Silent, loading
<1>6. Answers'
  <2>1. stage' \notin {"built", "closed"} => served' = NoRequest
    BY <1>1 DEF UpsertProfile, StartBuild, EndCheck, At, Go, MakeGenerator, Fail, Close, BuildInv, Answers
  <2>2. CASE UNCHANGED provider
    BY <1>1, <2>1, <2>2, NothingLoaded DEF Answers
  <2>3. CASE \E prov \in Providers : StartBuild(prov)
    <3>1. served' = NoRequest
      BY <2>3 DEF StartBuild, BuildInv, Answers
    <3>2. BestOwnServed'
      <4>1. \A i \in Candidates' : Own(i, served.accepts)' = -1
        BY <3>1 DEF NoRequest, Own
      <4>2. Best([i \in Candidates |-> Own(i, served.accepts)])' = {}
        BY <4>1 DEF Best
      <4> QED
        BY <4>2, <3>1 DEF BestOwnServed, OwnMatcherServes, NoRequest
    <3> QED
      BY <2>1, <3>2 DEF Answers
  <2> QED
    BY <2>2, <2>3 DEF UpsertProfile, EndCheck, At, MakeGenerator, Close
<1> QED
  BY <1>2, <1>3, <1>4, <1>5, <1>6 DEF BuildInv

(* A build that fails on the way.                                          *)
LEMMA FailKeeps ==
  ASSUME BuildInv, NEW where \in {"list", "load", "check"}, At(where), Fail PROVE BuildInv'
<1>1. UNCHANGED <<disk, put, provider, generator, served, loading>> /\ stage = where
      /\ stage' = "failed" /\ runner' = "closed"
  BY DEF At, Fail
<1>2. Runtimes' /\ Directories'
  BY <1>1 DEF BuildInv, Runtimes, Directories
<1>3. Progress' /\ Answers'
  BY <1>1, NothingLoaded DEF BuildInv, Progress, Answers, loading
<1> QED
  BY <1>1, <1>2, <1>3, NothingLoaded DEF BuildInv

(* A loading step that goes on: what it has to show is what it loads.      *)
LEMMA GoKeeps ==
  ASSUME BuildInv, NEW from \in {"list", "load", "check"},
         NEW to \in {"load", "check", "generator"}, At(from), Go(to),
         Loaded', Expressions', Checks', Progress'
  PROVE  BuildInv'
<1>1. UNCHANGED <<disk, put, provider, generator, served, runner>> /\ stage = from /\ stage' = to
  BY DEF At, Go
<1>2. Runtimes' /\ Directories'
  BY <1>1 DEF BuildInv, Runtimes, Directories
<1>3. served' = NoRequest
  BY <1>1 DEF BuildInv, Answers
<1>4. \A i \in Candidates' : Own(i, served.accepts)' = -1
  BY <1>3 DEF NoRequest, Own
<1>5. Best([i \in Candidates |-> Own(i, served.accepts)])' = {}
  BY <1>4 DEF Best
<1>6. Answers'
  BY <1>1, <1>3, <1>5 DEF Answers, BestOwnServed, OwnMatcherServes, NoRequest
<1> QED
  BY <1>2, <1>6 DEF BuildInv

(* ReadDir gives the directories in their order, none loaded yet.          *)
LEMMA ListKeeps == ASSUME BuildInv, List PROVE BuildInv'
<1>1. CASE Fail
  BY <1>1, FailKeeps DEF List
<1>2. CASE Go("generator") /\ UNCHANGED loading
  <2>1. At("list") /\ Progress'
    BY <1>2 DEF List, At, Go, BuildInv, Progress, loading, Checks
  <2> QED
    BY <1>2, <2>1, NothingLoaded, GoKeeps DEF At
<1>3. CASE Go("load") /\ UNCHANGED <<fixtures, cel, routed, checked, warned>>
  <2>1. At("list") /\ fixtures = <<>> /\ cel = <<>> /\ checked = 0 /\ stage' = "load"
    BY <1>3 DEF List, At, Go, BuildInv, Progress
  <2>2. Loaded' /\ Expressions' /\ Progress'
    BY <1>3, <2>1 DEF BuildInv, Loaded, Expressions, Progress, Known
  <2>3. Checks'
    BY <1>3, <2>1 DEF BuildInv, Checks, Silent
  <2> QED
    BY <1>3, <2>1, <2>2, <2>3, GoKeeps
<1> QED
  BY <1>1, <1>2, <1>3 DEF List

(* A directory that loadOne takes becomes the last fixture, and its        *)
(* expression the one of its id.                                           *)
LEMMA LoadOneKeeps == ASSUME BuildInv, loadOne PROVE BuildInv'
<1>1. CASE Fail
  BY <1>1, FailKeeps DEF loadOne
<1>2. CASE ~Fail
  <2> DEFINE k == disk.dirs[Head(unread)]
             f == [name |-> Head(unread), kind |-> k, module |-> FALSE]
  <2>1. /\ At("load") /\ Head(unread) \in DOMAIN disk.dirs /\ ~Refused(k) /\ ~Foreign(k)
        /\ fixtures' = Append(fixtures, f)
        /\ cel' = IF k.cel = "none" THEN cel
                  ELSE With(cel, k.id, [score |-> CELScore(k), of |-> Len(fixtures) + 1])
        /\ Go("load") /\ UNCHANGED <<mode, routed, checked, warned>>
    BY <1>2 DEF loadOne
  <2>2. f \in FixtureType
    BY <2>1 DEF BuildInv, Directories, FixtureType
  <2>3. fixtures \in Seq(FixtureType) /\ checked = 0 /\ stage' = "load" /\ stage = "load"
    BY <2>1 DEF BuildInv, Loaded, Progress, At, Go
  <2>4. /\ fixtures' \in Seq(FixtureType) /\ Len(fixtures') = Len(fixtures) + 1 /\ Len(fixtures) \in Nat
        /\ DOMAIN fixtures = 1..Len(fixtures)
        /\ DOMAIN fixtures' = 1..(Len(fixtures) + 1)
        /\ \A i \in DOMAIN fixtures : fixtures'[i] = fixtures[i]
        /\ fixtures'[Len(fixtures) + 1] = f
    BY <2>1, <2>2, <2>3
  <2>5. f.kind = k /\ f.module = FALSE
    OBVIOUS
  <2>6. /\ k.cel # "none" => k.score >= 0
        /\ mode # "legacy" => k.cel = "none" /\ k.wasm = "none"
    <3>1. k.score \in Int
      BY <2>1, KindsAssumption DEF BuildInv, Directories
    <3>2. ~(k.cel # "none" /\ k.score < 0)
      BY <2>1 DEF Refused
    <3>3. mode # "legacy" => k.cel = "none" /\ k.wasm = "none"
      BY <2>1 DEF Foreign
    <3> QED
      BY <3>1, <3>2, <3>3
  <2>7. \A i \in DOMAIN fixtures' : i \in DOMAIN fixtures \/ (i = Len(fixtures) + 1 /\ fixtures'[i] = f)
    BY <2>4
  <2> HIDE DEF f, k
  <2>8. Loaded'
    <3>1. \A i \in DOMAIN fixtures' :
            /\ fixtures'[i].kind.cel # "none" => fixtures'[i].kind.score >= 0
            /\ mode' # "legacy" => fixtures'[i].kind.cel = "none" /\ fixtures'[i].kind.wasm = "none"
      BY <2>1, <2>4, <2>5, <2>6, <2>7 DEF BuildInv, Loaded
    <3>2. Known \subseteq Known'
      BY <2>4 DEF Known
    <3> QED
      BY <2>1, <2>4, <3>1, <3>2 DEF BuildInv, Loaded
  <2>9. Expressions'
    <3>1. ASSUME NEW i \in DOMAIN fixtures', fixtures'[i].kind.cel # "none"
          PROVE  fixtures'[i].kind.id \in DOMAIN cel'
      BY <2>1, <2>4, <2>5, <2>7, <3>1 DEF BuildInv, Expressions, With
    <3>2. ASSUME NEW id \in DOMAIN cel'
          PROVE  /\ cel'[id].of \in DOMAIN fixtures'
                 /\ fixtures'[cel'[id].of].kind.id = id
                 /\ fixtures'[cel'[id].of].kind.cel # "none"
                 /\ cel'[id].score = fixtures'[cel'[id].of].kind.score
      <4>1. CASE k.cel # "none" /\ id = k.id
        <5>1. cel'[id] = [score |-> CELScore(k), of |-> Len(fixtures) + 1]
          BY <2>1, <4>1 DEF With
        <5> QED
          BY <2>4, <2>5, <4>1, <5>1 DEF CELScore
      <4>2. CASE ~(k.cel # "none" /\ id = k.id)
        <5>1. id \in DOMAIN cel /\ cel'[id] = cel[id]
          BY <2>1, <4>2 DEF With
        <5>2. cel[id].of \in DOMAIN fixtures
          BY <5>1 DEF BuildInv, Expressions
        <5>3. cel[id].of \in DOMAIN fixtures' /\ fixtures'[cel[id].of] = fixtures[cel[id].of]
          BY <2>4, <5>2
        <5> QED
          BY <5>1, <5>3 DEF BuildInv, Expressions
      <4> QED
        BY <4>1, <4>2
    <3> QED
      BY <3>1, <3>2 DEF Expressions
  <2>10. Checks' /\ Progress'
    <3>1. warned' = {} /\ checked' = 0
      BY <2>1, <2>3 DEF BuildInv, Checks
    <3>2. \A i \in DOMAIN fixtures' : fixtures'[i].module = FALSE
      BY <2>3, <2>4, <2>5, <2>7 DEF BuildInv, Checks, Loaded, FixtureType
    <3> QED
      BY <2>3, <2>4, <3>1, <3>2 DEF Checks, Progress, Silent
  <2> QED
    BY <2>1, <2>8, <2>9, <2>10, GoKeeps
<1> QED
  BY <1>1, <1>2

(* The entries that pass name loaded fixtures only.                        *)
LEMMA LoadSelectorKeeps == ASSUME BuildInv, LoadSelector PROVE BuildInv'
<1>1. CASE Fail
  BY <1>1, FailKeeps DEF LoadSelector
<1>2. CASE ~Fail
  <2>1. /\ At("load") /\ Go("check") /\ UNCHANGED <<mode, unread, fixtures, cel, checked, warned>>
        /\ mode = "yaml" => \A i \in DOMAIN disk.yaml[1] : EntryOK(disk.yaml[1][i])
        /\ routed' = IF mode = "yaml" THEN UNION {Targets(disk.yaml[1][i]) : i \in DOMAIN disk.yaml[1]}
                     ELSE {}
    BY <1>2 DEF LoadSelector
  <2>2. \A e : EntryOK(e) => Targets(e) \subseteq Known
    BY DEF EntryOK, Targets
  <2>3. routed' \subseteq Known /\ Known' = Known
    BY <2>1, <2>2 DEF Known
  <2>4. Loaded' /\ Expressions' /\ Checks'
    BY <2>1, <2>3 DEF BuildInv, Loaded, Expressions, Checks, Silent
  <2>5. Progress'
    BY <2>1 DEF Progress, Go
  <2> QED
    BY <2>1, <2>4, <2>5, GoKeeps
<1> QED
  BY <1>1, <1>2

(* A fixture is checked: its module compiled, or the warning given.        *)
LEMMA CheckFixtureKeeps == ASSUME BuildInv, CheckFixture PROVE BuildInv'
<1>1. CASE Fail
  BY <1>1, FailKeeps DEF CheckFixture
<1>2. CASE ~Fail
  <2> DEFINE i == checked + 1
             f == fixtures[i]
  <2>1. /\ At("check") /\ Go("check") /\ UNCHANGED <<mode, unread, cel, routed>>
        /\ checked < Len(fixtures) /\ checked' = i
        /\ warned' = IF mode = "legacy" /\ ~HasMatcher(f) THEN warned \cup {i} ELSE warned
        /\ fixtures' = [fixtures EXCEPT ![i].module = f.kind.wasm # "none"]
    BY <1>2 DEF CheckFixture
  <2>2. checked \in Nat /\ Len(fixtures) \in Nat /\ DOMAIN fixtures = 1..Len(fixtures)
        /\ i \in DOMAIN fixtures /\ fixtures \in Seq(FixtureType)
    BY <2>1 DEF BuildInv, Checks, Loaded
  <2>3. f \in FixtureType /\ f.module = FALSE
    <3>1. f \in FixtureType
      BY <2>2
    <3>2. ~f.module
      BY <2>2 DEF BuildInv, Checks
    <3> QED
      BY <3>1, <3>2 DEF FixtureType
  <2>4. /\ DOMAIN fixtures' = DOMAIN fixtures
        /\ \A j \in DOMAIN fixtures : j # i => fixtures'[j] = fixtures[j]
        /\ fixtures'[i] = [f EXCEPT !.module = f.kind.wasm # "none"]
    BY <2>1, <2>2
  <2>5. /\ fixtures'[i] \in FixtureType /\ fixtures'[i].kind = f.kind
        /\ fixtures'[i].module = (f.kind.wasm # "none")
    BY <2>3, <2>4 DEF FixtureType
  <2>6. /\ fixtures' \in Seq(FixtureType) /\ Len(fixtures') = Len(fixtures)
        /\ \A j \in DOMAIN fixtures : fixtures'[j].kind = fixtures[j].kind
    <3>1. \A j \in DOMAIN fixtures : fixtures'[j] \in FixtureType
      BY <2>2, <2>4, <2>5
    <3> QED
      BY <2>1, <2>2, <2>4, <2>5, <3>1
  <2> HIDE DEF f
  <2>7. Loaded'
    <3>1. Known' = Known
      BY <2>4, <2>6 DEF Known
    <3> QED
      BY <2>1, <2>4, <2>6, <3>1 DEF BuildInv, Loaded
  <2>8. Expressions'
    BY <2>1, <2>4, <2>6 DEF BuildInv, Expressions
  <2>9. Checks'
    <3>1. checked' \in Nat /\ checked' <= Len(fixtures')
      BY <2>1, <2>2, <2>6
    <3>2. ASSUME NEW j \in DOMAIN fixtures
          PROVE  fixtures'[j].module <=> j <= checked' /\ fixtures'[j].kind.wasm # "none"
      <4>1. CASE checked' < j
        <5>1. fixtures'[j] = fixtures[j] /\ ~fixtures[j].module
          BY <2>1, <2>2, <2>4, <4>1 DEF BuildInv, Checks
        <5> QED
          BY <2>1, <2>2, <4>1, <5>1
      <4>2. CASE j = i
        <5>1. fixtures'[i].module <=> fixtures'[i].kind.wasm # "none"
          BY <2>5
        <5>2. i <= checked'
          BY <2>1, <2>2
        <5> QED
          BY <4>2, <5>1, <5>2
      <4>3. CASE j <= checked
        <5>1. fixtures'[j] = fixtures[j] /\ (fixtures[j].module <=> fixtures[j].kind.wasm # "none")
          BY <2>1, <2>2, <2>4, <4>3 DEF BuildInv, Checks
        <5> QED
          BY <2>1, <2>2, <4>3, <5>1
      <4> QED
        BY <2>1, <2>2, <4>1, <4>2, <4>3
    <3>3. \A j \in DOMAIN fixtures : Silent(j)' = Silent(j)
      BY <2>1, <2>6 DEF Silent
    <3>4. mode = "legacy" /\ ~HasMatcher(f) <=> Silent(i)
      BY <2>3 DEF HasMatcher, Silent, f
    <3>5. warned' = {j \in 1..checked' : Silent(j)'}
      BY <2>1, <2>2, <3>3, <3>4 DEF BuildInv, Checks
    <3> QED
      BY <2>4, <3>1, <3>2, <3>5 DEF Checks
  <2>10. Progress'
    BY <2>1 DEF Progress, Go
  <2> QED
    BY <2>1, <2>7, <2>8, <2>9, <2>10, GoKeeps
<1> QED
  BY <1>1, <1>2

(* A request is served by the scores of LegacySelector, which are the      *)
(* fixtures' own where ids differ.                                         *)
LEMMA ServeKeeps == ASSUME BuildInv, Serve PROVE BuildInv'
<1>1. UNCHANGED <<disk, edits, put, provider, stage, runner, generator>>
      /\ UNCHANGED <<mode, unread, fixtures, cel, routed, checked, warned>>
  BY DEF Serve, loading
<1>2. Runtimes' /\ Directories' /\ Progress'
  BY <1>1 DEF BuildInv, Runtimes, Directories, Progress
<1>3. Loaded' /\ Expressions' /\ Checks'
  BY <1>1 DEF BuildInv, Loaded, Expressions, Checks, Known, Silent
<1>4. PICK accepts \in SUBSET DOMAIN fixtures :
        LET best == Best([i \in Candidates |-> score(i, accepts)]) IN
        served' = [accepts |-> accepts,
                   fixture |-> IF best = {} THEN 0 ELSE CHOOSE i \in best : TRUE]
  BY DEF Serve
<1>5. BestOwnServed'
  <2> SUFFICES ASSUME Distinct' PROVE OwnMatcherServes'
    BY DEF BestOwnServed
  <2> DEFINE best == Best([i \in Candidates |-> score(i, accepts)])
  <2>1. Distinct /\ served'.accepts = accepts
        /\ served'.fixture = IF best = {} THEN 0 ELSE CHOOSE i \in best : TRUE
    BY <1>1, <1>4 DEF Distinct
  <2>2. \A i \in Candidates : score(i, accepts) = Own(i, accepts)
    BY <2>1, ScoreIsOwn DEF BuildInv, Candidates
  <2>3. \A i \in Candidates : Own(i, served.accepts)' = Own(i, accepts)
    BY <1>1, <2>1 DEF Own
  <2>4. Candidates' = Candidates
    BY <1>1 DEF Candidates
  <2>5. [i \in Candidates |-> Own(i, served.accepts)]' = [i \in Candidates |-> score(i, accepts)]
    BY <2>2, <2>3, <2>4
  <2>6. Best([i \in Candidates |-> Own(i, served.accepts)])' = best
    BY <2>5 DEF Best
  <2> HIDE DEF best
  <2>7. served'.fixture \in IF best = {} THEN {0} ELSE best
    BY <2>1
  <2> QED
    BY <2>6, <2>7 DEF OwnMatcherServes
<1> QED
  BY <1>1, <1>2, <1>3, <1>5 DEF BuildInv, Answers, Serve

(* Every step of a build keeps the invariant.                              *)
LEMMA BuildKeeps == BuildInv /\ [Next]_vars => BuildInv'
<1> SUFFICES ASSUME BuildInv, [Next]_vars PROVE BuildInv'
  OBVIOUS
<1>1. CASE Next
  BY <1>1, QuietKeeps, EditKeeps, ListKeeps, LoadOneKeeps, LoadSelectorKeeps, CheckFixtureKeeps,
     ServeKeeps DEF Next
<1>2. CASE UNCHANGED vars
  <2>1. UNCHANGED <<disk, put, provider, stage, runner, generator, loading, served>>
    BY <1>2 DEF vars
  <2>2. Runtimes' /\ Directories' /\ Progress'
    BY <2>1 DEF BuildInv, Runtimes, Directories, Progress, loading
  <2> QED
    BY <2>1, <2>2, NothingLoaded DEF BuildInv, Answers
<1> QED
  BY <1>1, <1>2

(* A fixture without an expression for its id and without a module is the  *)
(* one that no request is served, and no other is.                         *)
LEMMA WarnedNeverServed ==
  ASSUME BuildInv, stage = "built", mode = "legacy", NEW i \in DOMAIN fixtures
  PROVE  i \in warned <=> \A accepts \in SUBSET DOMAIN fixtures : score(i, accepts) < 0
<1>1. /\ fixtures \in Seq(FixtureType) /\ DOMAIN fixtures = 1..checked /\ checked \in Nat
      /\ fixtures[i] \in FixtureType
  BY DEF BuildInv, Loaded, Checks, Progress
<1>2. fixtures[i].module <=> fixtures[i].kind.wasm # "none"
  BY <1>1 DEF BuildInv, Checks
<1>3. i \in warned <=> Silent(i)
  BY <1>1 DEF BuildInv, Checks
<1>4. CASE fixtures[i].kind.id \in DOMAIN cel
  <2> DEFINE o == cel[fixtures[i].kind.id].of
  <2>1. o \in DOMAIN fixtures /\ cel[fixtures[i].kind.id].score >= 0
    BY <1>4 DEF BuildInv, Expressions, Loaded
  <2>2. score(i, {o}) = cel[fixtures[i].kind.id].score /\ {o} \in SUBSET DOMAIN fixtures
    BY <1>4, <2>1 DEF score
  <2>3. cel[fixtures[i].kind.id].score \in Int
    <3>1. fixtures[o] \in FixtureType /\ cel[fixtures[i].kind.id].score = fixtures[o].kind.score
      BY <1>1, <1>4, <2>1 DEF BuildInv, Expressions
    <3> QED
      BY <3>1, KindsAssumption DEF FixtureType
  <2> HIDE DEF o
  <2>4. ~(score(i, {o}) < 0)
    BY <2>1, <2>2, <2>3
  <2> QED
    BY <1>3, <1>4, <2>2, <2>4 DEF Silent
<1>5. CASE fixtures[i].kind.id \notin DOMAIN cel /\ fixtures[i].kind.wasm # "none"
  <2>1. score(i, {i}) = fixtures[i].kind.score /\ {i} \in SUBSET DOMAIN fixtures
    BY <1>2, <1>5 DEF score
  <2>2. fixtures[i].kind.score \in Int /\ fixtures[i].kind.score >= 0
    BY <1>1, <1>5, KindsAssumption DEF FixtureType
  <2>3. ~(score(i, {i}) < 0)
    BY <2>1, <2>2
  <2> QED
    BY <1>3, <1>5, <2>1, <2>3 DEF Silent
<1>6. CASE fixtures[i].kind.id \notin DOMAIN cel /\ fixtures[i].kind.wasm = "none"
  <2>1. \A accepts : score(i, accepts) = -1
    BY <1>2, <1>6 DEF score
  <2> QED
    BY <1>3, <1>6, <2>1 DEF Silent
<1> QED
  BY <1>4, <1>5, <1>6

-----------------------------------------------------------------------------
(* The loading of the schemas (SchemaLoading).                             *)
Listeners == {"anthropic", "openai", "gemini", "ollama", "typesafe"}
Docs      == {"vendored", "other", "unusable", "torn"}
MayDocs   == Docs \cup {"none"}
Route     == Schemas!RouteKeys(listener)

SchemaTypes ==
  /\ listener \in Listeners
  /\ cache \in [Schemas!Keys -> MayDocs]
  /\ loader \in [Loads -> {"down", "get", "fetch", "truncate", "write", "fallback", "load", "serving"}]
  /\ keys \in [Loads -> Seq(Schemas!Keys)]
  /\ data \in [Loads -> MayDocs]
  /\ memory \in [Loads -> [Schemas!Keys -> MayDocs]]
  /\ schemas \in [Loads -> [Schemas!Keys -> MayDocs]]
  /\ warnings \in [Loads -> SUBSET Schemas!Keys]
  /\ returned \in [Loads -> [Schemas!Keys -> SUBSET Docs]]

(* Where a load stands with the key it is at.                              *)
AtKey(l) ==
  /\ \A i \in DOMAIN keys[l] : keys[l][i] \in Route
  /\ loader[l] \notin {"down", "serving"} => keys[l] # <<>>
  /\ loader[l] = "serving" => keys[l] = <<>>
  /\ loader[l] \in {"fetch", "truncate", "write", "fallback"} => memory[l][Head(keys[l])] = "none"
  /\ loader[l] \in {"fetch", "truncate", "write"} => l \in Online
  /\ loader[l] \in {"truncate", "write"} => data[l] # "none"
  /\ loader[l] = "load" => data[l] # "none" /\ data[l] = memory[l][Head(keys[l])]

(* A key of the listener's routes is to come, or has been answered from    *)
(* memory, always alike, and either compiled or warned about.              *)
Answered(l, k) == returned[l][k] # {}
AnswerInv(l) ==
  \A k \in Schemas!Keys :
    /\ loader[l] # "down" /\ k \in Route => Answered(l, k) \/ \E i \in DOMAIN keys[l] : keys[l][i] = k
    /\ Answered(l, k) => k \in Route /\ returned[l][k] = {memory[l][k]}
    /\ schemas[l][k] = IF Answered(l, k) /\ memory[l][k] \in Schemas!Compiles THEN memory[l][k] ELSE "none"
    /\ k \in warnings[l] <=> Answered(l, k) /\ memory[l][k] \notin Schemas!Compiles

(* Without a file a load without sources has nothing but the snapshot.     *)
OfflineInv(l) ==
  l \notin Online =>
    \A k \in Schemas!Keys : cache[k] = "none" => memory[l][k] \in {"none", "vendored"}

LoadInv(l) == AtKey(l) /\ AnswerInv(l) /\ OfflineInv(l)
SchemaInv == SchemaTypes /\ \A l \in Loads : LoadInv(l)

(* The keys that are loaded are the keys of the routes.                    *)
LEMMA KeysAreRoutes ==
  ASSUME listener \in Listeners
  PROVE  LET ks == Schemas!providerSpecKeys(listener) IN
         /\ Route \subseteq Schemas!Keys
         /\ ks \in Seq(Route) /\ ks # <<>>
         /\ \A i \in DOMAIN ks : ks[i] \in Route
         /\ \A k \in Route : \E i \in DOMAIN ks : ks[i] = k
<1> DEFINE ks == Schemas!providerSpecKeys(listener)
<1>1. Route \subseteq Schemas!Keys
  BY DEF Route, Schemas!Keys, Listeners
<1>2. /\ ks \in Seq(Route) /\ ks # <<>>
      /\ \A i \in DOMAIN ks : ks[i] \in Route
      /\ \A k \in Route : \E i \in DOMAIN ks : ks[i] = k
  <2>1. ASSUME NEW a, ks = <<a>>, Route = {a} PROVE <1>2
    BY <2>1
  <2>2. ASSUME NEW a, NEW b, ks = <<a, b>>, Route = {a, b} PROVE <1>2
    <3>1. DOMAIN ks = {1, 2} /\ ks[1] = a /\ ks[2] = b
      BY <2>2
    <3> QED
      BY <2>2, <3>1
  <2>3. CASE listener = "anthropic"
    BY <2>1, <2>3 DEF Route, Schemas!RouteKeys, Schemas!providerSpecKeys
  <2>4. CASE listener = "openai"
    BY <2>2, <2>4 DEF Route, Schemas!RouteKeys, Schemas!providerSpecKeys
  <2>5. CASE listener = "gemini"
    BY <2>2, <2>5 DEF Route, Schemas!RouteKeys, Schemas!providerSpecKeys
  <2>6. CASE listener = "ollama"
    BY <2>2, <2>6 DEF Route, Schemas!RouteKeys, Schemas!providerSpecKeys
  <2>7. CASE listener = "typesafe"
    BY <2>1, <2>7 DEF Route, Schemas!RouteKeys, Schemas!providerSpecKeys
  <2> QED
    BY <2>3, <2>4, <2>5, <2>6, <2>7 DEF Listeners
<1> QED
  BY <1>1, <1>2

(* Before the first load every process is down.                            *)
LEMMA InitSchemaInv == Schemas!Init => SchemaInv
<1> SUFFICES ASSUME Schemas!Init PROVE SchemaInv
  OBVIOUS
<1>1. SchemaTypes
  BY DEF Schemas!Init, SchemaTypes, Listeners, MayDocs, Schemas!Nothing
<1>2. ASSUME NEW l \in Loads PROVE AtKey(l) /\ AnswerInv(l) /\ OfflineInv(l)
  BY DEF Schemas!Init, AtKey, AnswerInv, Answered, OfflineInv, Schemas!Nothing
<1> QED
  BY <1>1, <1>2 DEF SchemaInv, LoadInv

(* What one load does leaves the others as they were: a file, once there,  *)
(* stays.                                                                  *)
LEMMA OthersKeep ==
  ASSUME SchemaInv, NEW l \in Loads, UNCHANGED listener,
         \A k \in Schemas!Keys : cache'[k] = "none" => cache[k] = "none",
         loader'[l] = loader[l], keys'[l] = keys[l], data'[l] = data[l], memory'[l] = memory[l],
         schemas'[l] = schemas[l], warnings'[l] = warnings[l], returned'[l] = returned[l]
  PROVE  LoadInv(l)'
<1>1. AtKey(l)'
  BY DEF SchemaInv, LoadInv, AtKey, Route
<1>2. AnswerInv(l)'
  BY DEF SchemaInv, LoadInv, AnswerInv, Answered, Route
<1>3. OfflineInv(l)'
  BY DEF SchemaInv, LoadInv, OfflineInv
<1> QED
  BY <1>1, <1>2, <1>3 DEF LoadInv

(* A startup asks for the keys of its routes, from nothing.                *)
LEMMA StartKeeps == ASSUME SchemaInv, NEW l \in Loads, Schemas!Start(l) PROVE SchemaInv'
<1> DEFINE ks == Schemas!providerSpecKeys(listener)
           more == IF Schemas!Offline(l) THEN <<>> ELSE <<Head(ks)>>
<1>1. /\ UNCHANGED <<listener, cache>> /\ keys' = [keys EXCEPT ![l] = ks \o more]
      /\ loader' = [loader EXCEPT ![l] = "get"] /\ data' = [data EXCEPT ![l] = "none"]
      /\ warnings' = [warnings EXCEPT ![l] = {}]
      /\ memory' = [memory EXCEPT ![l] = Schemas!Nothing]
      /\ schemas' = [schemas EXCEPT ![l] = Schemas!Nothing]
      /\ returned' = [returned EXCEPT ![l] = [k \in Schemas!Keys |-> {}]]
  BY DEF Schemas!Start
<1>2. /\ Route \subseteq Schemas!Keys
      /\ ks \in Seq(Route) /\ ks # <<>>
      /\ \A k \in Route : \E i \in DOMAIN ks : ks[i] = k
  BY KeysAreRoutes DEF SchemaInv, SchemaTypes
<1>3. more \in Seq(Route)
  BY <1>2
<1> HIDE DEF ks, more
<1>4. /\ ks \o more \in Seq(Route) /\ ks \o more # <<>>
      /\ \A k \in Route : \E i \in DOMAIN (ks \o more) : (ks \o more)[i] = k
  <2>1. /\ ks \o more \in Seq(Route)
        /\ Len(ks \o more) = Len(ks) + Len(more) /\ Len(ks) \in Nat \ {0} /\ Len(more) \in Nat
        /\ \A i \in 1..Len(ks) + Len(more) :
             (ks \o more)[i] = IF i <= Len(ks) THEN ks[i] ELSE more[i - Len(ks)]
    BY <1>2, <1>3, ConcatProperties
  <2>2. ks \o more # <<>> /\ DOMAIN (ks \o more) = 1..Len(ks) + Len(more) /\ DOMAIN ks = 1..Len(ks)
    BY <1>2, <2>1
  <2>3. \A i \in DOMAIN ks : i \in DOMAIN (ks \o more) /\ (ks \o more)[i] = ks[i]
    BY <2>1, <2>2
  <2> QED
    BY <1>2, <2>1, <2>2, <2>3
<1>5. /\ ks \o more \in Seq(Schemas!Keys)
      /\ \A i \in DOMAIN (ks \o more) : (ks \o more)[i] \in Route
  BY <1>2, <1>4
<1>6. SchemaTypes'
  BY <1>1, <1>5 DEF SchemaInv, SchemaTypes, Schemas!Nothing, MayDocs
<1>7. LoadInv(l)'
  <2>1. /\ keys'[l] = ks \o more /\ loader'[l] = "get" /\ data'[l] = "none" /\ warnings'[l] = {}
        /\ memory'[l] = Schemas!Nothing /\ schemas'[l] = Schemas!Nothing
        /\ returned'[l] = [k \in Schemas!Keys |-> {}]
    BY <1>1 DEF SchemaInv, SchemaTypes
  <2>2. Route' = Route
    BY <1>1 DEF Route
  <2>3. AtKey(l)'
    BY <1>4, <1>5, <2>1, <2>2 DEF AtKey
  <2>4. AnswerInv(l)'
    BY <1>4, <2>1, <2>2 DEF AnswerInv, Answered, Schemas!Nothing
  <2>5. OfflineInv(l)'
    BY <2>1 DEF OfflineInv, Schemas!Nothing
  <2> QED
    BY <2>3, <2>4, <2>5 DEF LoadInv
<1>8. ASSUME NEW m \in Loads, m # l PROVE LoadInv(m)'
  BY <1>1, <1>8, OthersKeep DEF SchemaInv, SchemaTypes
<1> QED
  BY <1>6, <1>7, <1>8 DEF SchemaInv

(* A crash stops one load and leaves the file as it is.                    *)
LEMMA CrashKeeps == ASSUME SchemaInv, NEW l \in Loads, Schemas!Crash(l) PROVE SchemaInv'
<1>1. /\ UNCHANGED <<listener, cache, keys, data, memory, schemas, warnings, returned>>
      /\ loader' = [loader EXCEPT ![l] = "down"]
  BY DEF Schemas!Crash
<1>2. SchemaTypes'
  BY <1>1 DEF SchemaInv, SchemaTypes
<1>3. LoadInv(l)'
  <2>1. loader'[l] = "down"
    BY <1>1 DEF SchemaInv, SchemaTypes
  <2> QED
    BY <1>1, <2>1 DEF SchemaInv, LoadInv, AtKey, AnswerInv, Answered, OfflineInv, Route
<1>4. ASSUME NEW m \in Loads, m # l PROVE LoadInv(m)'
  BY <1>1, <1>4, OthersKeep DEF SchemaInv, SchemaTypes
<1> QED
  BY <1>2, <1>3, <1>4 DEF SchemaInv

(* A step up to the answer: the load goes on with its key, whose place in  *)
(* memory was empty if it has changed, and nothing is compiled.            *)
LEMMA FetchKeeps ==
  ASSUME SchemaInv, NEW l \in Loads, loader[l] \notin {"down", "serving"},
         UNCHANGED <<listener, keys, schemas, warnings, returned>>,
         NEW d \in MayDocs, data' = [data EXCEPT ![l] = d],
         NEW to \in {"fetch", "truncate", "write", "fallback", "load"},
         loader' = [loader EXCEPT ![l] = to],
         cache' \in [Schemas!Keys -> MayDocs],
         \A k \in Schemas!Keys : cache'[k] = "none" => cache[k] = "none",
         \/ UNCHANGED memory
         \/ /\ memory[l][Head(keys[l])] = "none"
            /\ memory' = [memory EXCEPT ![l][Head(keys[l])] = d]
            /\ d = "vendored" \/ l \in Online \/ cache'[Head(keys[l])] # "none",
         AtKey(l)'
  PROVE  SchemaInv'
<1> DEFINE key == Head(keys[l])
<1>0. key \in Schemas!Keys /\ key \in Route
  <2>1. keys[l] \in Seq(Schemas!Keys) /\ keys[l] # <<>> /\ \A i \in DOMAIN keys[l] : keys[l][i] \in Route
    BY DEF SchemaInv, SchemaTypes, LoadInv, AtKey
  <2>2. key = keys[l][1] /\ 1 \in DOMAIN keys[l]
    BY <2>1
  <2> QED
    BY <2>1, <2>2
<1> HIDE DEF key
<1>1. memory' \in [Loads -> [Schemas!Keys -> MayDocs]] /\ \A m \in Loads : m # l => memory'[m] = memory[m]
  <2>1. CASE UNCHANGED memory
    BY <2>1 DEF SchemaInv, SchemaTypes
  <2>2. CASE memory' = [memory EXCEPT ![l][key] = d]
    <3>1. memory \in [Loads -> [Schemas!Keys -> MayDocs]]
      BY DEF SchemaInv, SchemaTypes
    <3>2. [memory[l] EXCEPT ![key] = d] \in [Schemas!Keys -> MayDocs]
      BY <1>0, <3>1
    <3>3. memory' = [memory EXCEPT ![l] = [memory[l] EXCEPT ![key] = d]]
      BY <2>2
    <3> QED
      BY <3>1, <3>2, <3>3
  <2> QED
    BY <2>1, <2>2 DEF key
<1>2. SchemaTypes'
  BY <1>1 DEF SchemaInv, SchemaTypes
<1>3. \A k \in Schemas!Keys : memory'[l][k] = memory[l][k] \/ (k = key /\ memory[l][k] = "none" /\ memory'[l][k] = d)
  BY <1>0 DEF SchemaInv, SchemaTypes, key
<1>4. loader'[l] = to
  BY DEF SchemaInv, SchemaTypes
<1>5. AnswerInv(l)'
  <2> SUFFICES ASSUME NEW k \in Schemas!Keys
               PROVE  /\ loader'[l] # "down" /\ k \in Route' =>
                           Answered(l, k)' \/ \E i \in DOMAIN keys'[l] : keys'[l][i] = k
                      /\ Answered(l, k)' => k \in Route' /\ returned'[l][k] = {memory'[l][k]}
                      /\ schemas'[l][k] = IF Answered(l, k)' /\ memory'[l][k] \in Schemas!Compiles
                                          THEN memory'[l][k] ELSE "none"
                      /\ k \in warnings'[l] <=> Answered(l, k)' /\ memory'[l][k] \notin Schemas!Compiles
    BY DEF AnswerInv
  <2>1. Route' = Route /\ (Answered(l, k)' <=> Answered(l, k))
    BY DEF Route, Answered
  <2>2. /\ k \in Route => Answered(l, k) \/ \E i \in DOMAIN keys[l] : keys[l][i] = k
        /\ Answered(l, k) => k \in Route /\ returned[l][k] = {memory[l][k]}
        /\ schemas[l][k] = IF Answered(l, k) /\ memory[l][k] \in Schemas!Compiles
                           THEN memory[l][k] ELSE "none"
        /\ k \in warnings[l] <=> Answered(l, k) /\ memory[l][k] \notin Schemas!Compiles
    BY DEF SchemaInv, LoadInv, AnswerInv
  <2>3. Answered(l, k) => memory'[l][k] = memory[l][k]
    <3>1. returned[l][k] \in SUBSET Docs
      BY DEF SchemaInv, SchemaTypes
    <3> QED
      BY <1>3, <2>2, <3>1 DEF Docs
  <2> QED
    BY <2>1, <2>2, <2>3
<1>6. OfflineInv(l)'
  BY <1>0, <1>3 DEF SchemaInv, SchemaTypes, LoadInv, OfflineInv, key
<1>7. ASSUME NEW m \in Loads, m # l PROVE LoadInv(m)'
  BY <1>1, <1>7, OthersKeep DEF SchemaInv, SchemaTypes
<1> QED
  BY <1>2, <1>5, <1>6, <1>7 DEF SchemaInv, LoadInv

(* Where such a step leaves its own load.                                  *)
LEMMA AtKeyKeeps ==
  ASSUME SchemaInv, NEW l \in Loads, loader[l] \notin {"down", "serving"},
         UNCHANGED <<listener, keys>>,
         loader'[l] \in {"fetch", "truncate", "write", "fallback", "load"},
         loader'[l] # "load" => memory'[l][Head(keys[l])] = "none",
         loader'[l] \in {"fetch", "truncate", "write"} => l \in Online,
         loader'[l] \in {"truncate", "write"} => data'[l] # "none",
         loader'[l] = "load" => data'[l] # "none" /\ data'[l] = memory'[l][Head(keys[l])]
  PROVE  AtKey(l)'
BY DEF SchemaInv, LoadInv, AtKey, Route

(* Memory, the file or the network answers, or the snapshot.               *)
LEMMA AnswerKeeps ==
  ASSUME SchemaInv, NEW l \in Loads,
         \/ Schemas!Get(l) \/ Schemas!fetchURL(l) \/ Schemas!Truncate(l)
         \/ Schemas!WriteFile(l) \/ Schemas!Fallback(l)
  PROVE  SchemaInv'
<1> DEFINE key == Head(keys[l])
<1>1. UNCHANGED <<listener, keys, schemas, warnings, returned>> /\ loader[l] \notin {"down", "serving"}
  BY DEF Schemas!Get, Schemas!fetchURL, Schemas!Truncate, Schemas!WriteFile, Schemas!Fallback
<1>2. key \in Schemas!Keys
  <2>1. keys[l] \in Seq(Schemas!Keys) /\ keys[l] # <<>>
    BY <1>1 DEF SchemaInv, SchemaTypes, LoadInv, AtKey
  <2> QED
    BY <2>1
<1>3. /\ cache \in [Schemas!Keys -> MayDocs] /\ data \in [Loads -> MayDocs]
      /\ memory \in [Loads -> [Schemas!Keys -> MayDocs]]
      /\ loader \in [Loads -> {"down", "get", "fetch", "truncate", "write", "fallback", "load", "serving"}]
      /\ data[l] \in MayDocs /\ memory[l][key] \in MayDocs /\ cache[key] \in MayDocs
  BY <1>2 DEF SchemaInv, SchemaTypes
<1>4. /\ loader[l] \in {"fetch", "truncate", "write", "fallback"} => memory[l][key] = "none"
      /\ loader[l] \in {"fetch", "truncate", "write"} => l \in Online
      /\ loader[l] \in {"truncate", "write"} => data[l] # "none"
  BY DEF SchemaInv, LoadInv, AtKey
<1>5. Schemas!Key(l) = key
  BY DEF Schemas!Key
<1> HIDE DEF key
<1>6. ASSUME NEW d \in MayDocs, d # "none", memory' = [memory EXCEPT ![l][key] = d]
      PROVE  memory'[l][key] = d
  BY <1>2, <1>3, <1>6
<1>7. ASSUME NEW d \in MayDocs, data' = [data EXCEPT ![l] = d] PROVE data'[l] = d
  BY <1>3, <1>7
<1>8. ASSUME NEW to, loader' = [loader EXCEPT ![l] = to] PROVE loader'[l] = to
  BY <1>3, <1>8
(* The answer goes to memory and is loaded.                                *)
<1>9. ASSUME NEW d \in MayDocs, d # "none", Schemas!store(l, d), Schemas!Goes(l, "load"),
             memory[l][key] = "none",
             cache' \in [Schemas!Keys -> MayDocs],
             \A k \in Schemas!Keys : cache'[k] = "none" => cache[k] = "none",
             d = "vendored" \/ l \in Online \/ cache'[key] # "none"
      PROVE  SchemaInv'
  <2>1. /\ data' = [data EXCEPT ![l] = d] /\ memory' = [memory EXCEPT ![l][key] = d]
        /\ loader' = [loader EXCEPT ![l] = "load"]
    BY <1>5, <1>9 DEF Schemas!store, Schemas!Goes
  <2>2. data'[l] = d /\ memory'[l][key] = d /\ loader'[l] = "load"
    BY <1>6, <1>7, <1>8, <1>9, <2>1
  <2>3. AtKey(l)'
    BY <1>1, <1>9, <2>2, AtKeyKeeps DEF key
  <2> QED
    BY <1>1, <1>9, <2>1, <2>3, FetchKeeps DEF key
(* No answer yet.                                                          *)
<1>10. ASSUME NEW d \in MayDocs, data' = [data EXCEPT ![l] = d], UNCHANGED memory,
              NEW to \in {"fetch", "truncate", "write", "fallback"}, Schemas!Goes(l, to),
              memory[l][key] = "none", to # "fallback" => l \in Online,
              to \in {"truncate", "write"} => d # "none",
              cache' \in [Schemas!Keys -> MayDocs],
              \A k \in Schemas!Keys : cache'[k] = "none" => cache[k] = "none"
       PROVE  SchemaInv'
  <2>1. loader' = [loader EXCEPT ![l] = to] /\ loader'[l] = to /\ data'[l] = d
    BY <1>7, <1>8, <1>10 DEF Schemas!Goes
  <2>2. AtKey(l)'
    BY <1>1, <1>10, <2>1, AtKeyKeeps DEF key
  <2> QED
    BY <1>1, <1>10, <2>1, <2>2, FetchKeeps DEF key
<1>11. data = [data EXCEPT ![l] = data[l]]
  BY <1>3
<1>12. CASE Schemas!Get(l)
  <2>1. UNCHANGED cache
    BY <1>12 DEF Schemas!Get
  <2>2. CASE memory[l][key] # "none"
    <3>1. data' = [data EXCEPT ![l] = memory[l][key]] /\ loader' = [loader EXCEPT ![l] = "load"] /\ UNCHANGED memory
      BY <1>5, <1>12, <2>2 DEF Schemas!Get, Schemas!Goes
    <3>2. data'[l] = memory[l][key] /\ loader'[l] = "load"
      BY <1>3, <1>7, <1>8, <3>1
    <3>3. AtKey(l)'
      BY <1>1, <2>2, <3>1, <3>2, AtKeyKeeps DEF key
    <3> QED
      BY <1>1, <1>3, <2>1, <3>1, <3>3, FetchKeeps
  <2>3. CASE memory[l][key] = "none" /\ cache[key] # "none"
    <3>1. Schemas!store(l, cache[key]) /\ Schemas!Goes(l, "load")
      BY <1>5, <1>12, <2>3 DEF Schemas!Get
    <3> QED
      BY <1>3, <1>9, <2>1, <2>3, <3>1
  <2>4. CASE memory[l][key] = "none" /\ cache[key] = "none"
    <3>1. UNCHANGED <<data, memory>> /\ Schemas!Goes(l, IF Schemas!Offline(l) THEN "fallback" ELSE "fetch")
      BY <1>5, <1>12, <2>4 DEF Schemas!Get
    <3> QED
      BY <1>3, <1>10, <1>11, <2>1, <2>4, <3>1 DEF Schemas!Offline
  <2> QED
    BY <2>2, <2>3, <2>4
<1>13. CASE Schemas!fetchURL(l)
  <2>1. UNCHANGED <<cache, memory>> /\ loader[l] = "fetch"
    BY <1>13 DEF Schemas!fetchURL
  <2>2. CASE \E d \in {"other", "unusable"} : data' = [data EXCEPT ![l] = d] /\ Schemas!Goes(l, "truncate")
    BY <1>3, <1>4, <1>10, <2>1, <2>2 DEF MayDocs, Docs
  <2>3. CASE Schemas!Goes(l, "fallback") /\ UNCHANGED data
    BY <1>3, <1>4, <1>10, <1>11, <2>1, <2>3
  <2> QED
    BY <1>13, <2>2, <2>3 DEF Schemas!fetchURL
<1>14. CASE Schemas!Truncate(l)
  <2>1. loader[l] = "truncate" /\ data[l] # "none" /\ memory[l][key] = "none" /\ l \in Online
    BY <1>4, <1>14 DEF Schemas!Truncate
  <2>2. CASE cache' = [cache EXCEPT ![key] = "torn"] /\ Schemas!Goes(l, "write") /\ UNCHANGED <<data, memory>>
    <3>1. /\ cache' \in [Schemas!Keys -> MayDocs]
          /\ \A k \in Schemas!Keys : cache'[k] = "none" => cache[k] = "none"
      BY <1>2, <1>3, <2>2 DEF MayDocs, Docs
    <3> QED
      BY <1>3, <1>10, <1>11, <2>1, <2>2, <3>1
  <2>3. CASE Schemas!store(l, data[l]) /\ Schemas!Goes(l, "load") /\ UNCHANGED cache
    BY <1>3, <1>9, <2>1, <2>3
  <2> QED
    BY <1>5, <1>14, <2>2, <2>3 DEF Schemas!Truncate
<1>15. CASE Schemas!WriteFile(l)
  <2>1. /\ loader[l] = "write" /\ data[l] # "none" /\ memory[l][key] = "none" /\ l \in Online
        /\ Schemas!store(l, data[l]) /\ Schemas!Goes(l, "load")
        /\ cache' = [cache EXCEPT ![key] = data[l]] \/ UNCHANGED cache
    BY <1>4, <1>5, <1>15 DEF Schemas!WriteFile
  <2>2. /\ cache' \in [Schemas!Keys -> MayDocs]
        /\ \A k \in Schemas!Keys : cache'[k] = "none" => cache[k] = "none"
    BY <1>2, <1>3, <2>1
  <2> QED
    BY <1>3, <1>9, <2>1, <2>2
<1>16. CASE Schemas!Fallback(l)
  <2>1. /\ loader[l] = "fallback" /\ UNCHANGED cache
        /\ Schemas!store(l, "vendored") /\ Schemas!Goes(l, "load")
    BY <1>16 DEF Schemas!Fallback
  <2> QED
    BY <1>3, <1>4, <1>9, <2>1 DEF MayDocs, Docs
<1> QED
  BY <1>12, <1>13, <1>14, <1>15, <1>16

(* The answer is compiled or warned about, and the load goes to the next   *)
(* key or serves.                                                          *)
LEMMA LoadKeeps == ASSUME SchemaInv, NEW l \in Loads, Schemas!LoadProviderSchema(l) PROVE SchemaInv'
<1> DEFINE key == Head(keys[l])
           d == data[l]
<1>1. /\ loader[l] = "load" /\ UNCHANGED <<listener, cache, data, memory>>
      /\ IF d \in Schemas!Compiles
         THEN schemas' = [schemas EXCEPT ![l][key] = d] /\ UNCHANGED warnings
         ELSE warnings' = [warnings EXCEPT ![l] = @ \cup {key}] /\ UNCHANGED schemas
      /\ returned' = [returned EXCEPT ![l][key] = @ \cup {d}]
      /\ keys' = [keys EXCEPT ![l] = Tail(@)]
      /\ loader' = [loader EXCEPT ![l] = IF Len(keys[l]) = 1 THEN "serving" ELSE "get"]
  BY DEF Schemas!LoadProviderSchema, Schemas!Key, Schemas!Goes
<1>2. d # "none" /\ d = memory[l][key]
  BY <1>1 DEF SchemaInv, LoadInv, AtKey
<1>3. /\ keys[l] \in Seq(Schemas!Keys) /\ keys[l] # <<>> /\ \A i \in DOMAIN keys[l] : keys[l][i] \in Route
      /\ DOMAIN keys[l] = 1..Len(keys[l]) /\ Len(keys[l]) \in Nat \ {0}
  BY <1>1 DEF SchemaInv, SchemaTypes, LoadInv, AtKey
<1>4. /\ Tail(keys[l]) \in Seq(Schemas!Keys) /\ Len(Tail(keys[l])) = Len(keys[l]) - 1
      /\ \A i \in 1..Len(keys[l]) - 1 : Tail(keys[l])[i] = keys[l][i + 1]
      /\ DOMAIN Tail(keys[l]) = 1..Len(keys[l]) - 1
      /\ key = keys[l][1] /\ key \in Schemas!Keys /\ key \in Route
  BY <1>3, HeadTailProperties
<1>5. d \in Docs
  BY <1>2, <1>4 DEF SchemaInv, SchemaTypes, MayDocs
<1> HIDE DEF key, d
<1>6. SchemaTypes'
  <2>1. keys' \in [Loads -> Seq(Schemas!Keys)]
    BY <1>1, <1>4 DEF SchemaInv, SchemaTypes
  <2>2. returned' \in [Loads -> [Schemas!Keys -> SUBSET Docs]]
    <3>1. returned \in [Loads -> [Schemas!Keys -> SUBSET Docs]]
      BY DEF SchemaInv, SchemaTypes
    <3>2. [returned[l] EXCEPT ![key] = @ \cup {d}] \in [Schemas!Keys -> SUBSET Docs]
      BY <1>4, <1>5, <3>1
    <3>3. returned' = [returned EXCEPT ![l] = [returned[l] EXCEPT ![key] = @ \cup {d}]]
      BY <1>1
    <3> QED
      BY <3>1, <3>2, <3>3
  <2>3. schemas' \in [Loads -> [Schemas!Keys -> MayDocs]]
    <3>1. schemas \in [Loads -> [Schemas!Keys -> MayDocs]]
      BY DEF SchemaInv, SchemaTypes
    <3>2. CASE schemas' = [schemas EXCEPT ![l][key] = d]
      <4>1. [schemas[l] EXCEPT ![key] = d] \in [Schemas!Keys -> MayDocs]
        BY <1>4, <1>5, <3>1 DEF MayDocs
      <4>2. schemas' = [schemas EXCEPT ![l] = [schemas[l] EXCEPT ![key] = d]]
        BY <3>2
      <4> QED
        BY <3>1, <4>1, <4>2
    <3> QED
      BY <1>1, <3>1, <3>2
  <2>4. warnings' \in [Loads -> SUBSET Schemas!Keys]
    <3>1. warnings \in [Loads -> SUBSET Schemas!Keys]
      BY DEF SchemaInv, SchemaTypes
    <3>2. warnings[l] \cup {key} \in SUBSET Schemas!Keys
      BY <1>4, <3>1
    <3>3. warnings' = [warnings EXCEPT ![l] = warnings[l] \cup {key}] \/ UNCHANGED warnings
      BY <1>1
    <3> QED
      BY <3>1, <3>2, <3>3
  <2>5. loader' \in [Loads -> {"down", "get", "fetch", "truncate", "write", "fallback", "load", "serving"}]
    BY <1>1 DEF SchemaInv, SchemaTypes
  <2> QED
    BY <1>1, <2>1, <2>2, <2>3, <2>4, <2>5 DEF SchemaInv, SchemaTypes
<1>7. /\ keys'[l] = Tail(keys[l]) /\ loader'[l] = IF Len(keys[l]) = 1 THEN "serving" ELSE "get"
      /\ \A k \in Schemas!Keys : k # key =>
           returned'[l][k] = returned[l][k] /\ schemas'[l][k] = schemas[l][k]
           /\ (k \in warnings'[l] <=> k \in warnings[l])
      /\ returned'[l][key] = returned[l][key] \cup {d}
      /\ d \in Schemas!Compiles => schemas'[l][key] = d /\ warnings'[l] = warnings[l]
      /\ d \notin Schemas!Compiles => key \in warnings'[l] /\ schemas'[l] = schemas[l]
  BY <1>1, <1>4 DEF SchemaInv, SchemaTypes
<1>8. AtKey(l)'
  <2>1. keys'[l] = <<>> <=> Len(keys[l]) = 1
    <3> DEFINE rest == Tail(keys[l])
    <3>1. rest \in Seq(Schemas!Keys) /\ Len(rest) = Len(keys[l]) - 1 /\ keys'[l] = rest
      BY <1>4, <1>7
    <3> HIDE DEF rest
    <3>2. rest = <<>> <=> Len(rest) = 0
      BY <3>1, EmptySeq
    <3> QED
      BY <1>3, <3>1, <3>2
  <2>2. \A i \in DOMAIN keys'[l] : keys'[l][i] \in Route
    <3>1. ASSUME NEW i \in 1..Len(keys[l]) - 1 PROVE Tail(keys[l])[i] \in Route
      <4>1. Tail(keys[l])[i] = keys[l][i + 1] /\ i + 1 \in 1..Len(keys[l])
        BY <1>3, <1>4
      <4> QED
        BY <1>3, <4>1
    <3> QED
      BY <1>4, <1>7, <3>1
  <2> QED
    BY <1>1, <1>7, <2>1, <2>2 DEF AtKey, Route
<1>9. AnswerInv(l)'
  <2> SUFFICES ASSUME NEW k \in Schemas!Keys
               PROVE  /\ loader'[l] # "down" /\ k \in Route' =>
                           Answered(l, k)' \/ \E i \in DOMAIN keys'[l] : keys'[l][i] = k
                      /\ Answered(l, k)' => k \in Route' /\ returned'[l][k] = {memory'[l][k]}
                      /\ schemas'[l][k] = IF Answered(l, k)' /\ memory'[l][k] \in Schemas!Compiles
                                          THEN memory'[l][k] ELSE "none"
                      /\ k \in warnings'[l] <=> Answered(l, k)' /\ memory'[l][k] \notin Schemas!Compiles
    BY DEF AnswerInv
  <2>1. Route' = Route /\ memory' = memory
    BY <1>1 DEF Route
  <2>2. /\ k \in Route => Answered(l, k) \/ \E i \in DOMAIN keys[l] : keys[l][i] = k
        /\ Answered(l, k) => k \in Route /\ returned[l][k] = {memory[l][k]}
        /\ schemas[l][k] = IF Answered(l, k) /\ memory[l][k] \in Schemas!Compiles
                           THEN memory[l][k] ELSE "none"
        /\ k \in warnings[l] <=> Answered(l, k) /\ memory[l][k] \notin Schemas!Compiles
    BY <1>1 DEF SchemaInv, LoadInv, AnswerInv
  <2>3. CASE k = key
    <3>1. Answered(l, k)' /\ returned'[l][k] = {d}
      BY <1>2, <1>7, <2>2, <2>3 DEF Answered
    <3> QED
      BY <1>2, <1>4, <1>7, <2>1, <2>2, <2>3, <3>1
  <2>4. CASE k # key
    <3>1. Answered(l, k)' <=> Answered(l, k)
      BY <1>7, <2>4 DEF Answered
    <3>2. ASSUME NEW i \in DOMAIN keys[l], keys[l][i] = k PROVE \E j \in DOMAIN keys'[l] : keys'[l][j] = k
      <4>1. i - 1 \in DOMAIN keys'[l] /\ keys'[l][i - 1] = keys[l][i]
        BY <1>3, <1>4, <1>7, <2>4, <3>2
      <4> QED
        BY <3>2, <4>1
    <3> QED
      BY <1>7, <2>1, <2>2, <2>4, <3>1, <3>2
  <2> QED
    BY <2>3, <2>4
<1>10. OfflineInv(l)'
  BY <1>1 DEF SchemaInv, LoadInv, OfflineInv
<1>11. ASSUME NEW m \in Loads, m # l PROVE LoadInv(m)'
  BY <1>1, <1>11, OthersKeep DEF SchemaInv, SchemaTypes
<1> QED
  BY <1>6, <1>8, <1>9, <1>10, <1>11 DEF SchemaInv, LoadInv

(* Every step of a load keeps the invariant.                               *)
LEMMA SchemaKeeps == SchemaInv /\ [Schemas!Next]_lvars => SchemaInv'
<1> SUFFICES ASSUME SchemaInv, [Schemas!Next]_lvars PROVE SchemaInv'
  OBVIOUS
<1>1. CASE UNCHANGED lvars
  <2>1. UNCHANGED <<listener, cache, loader, keys, data, memory, schemas, warnings, returned>>
    BY <1>1 DEF lvars
  <2>2. SchemaTypes'
    BY <2>1 DEF SchemaInv, SchemaTypes
  <2>3. ASSUME NEW l \in Loads PROVE LoadInv(l)'
    BY <2>1, OthersKeep
  <2> QED
    BY <2>2, <2>3 DEF SchemaInv
<1>2. ASSUME NEW l \in Loads, Schemas!Start(l) \/ Schemas!Crash(l) \/ Schemas!Step(l)
      PROVE  SchemaInv'
  BY <1>2, StartKeeps, CrashKeeps, AnswerKeeps, LoadKeeps DEF Schemas!Step
<1> QED
  BY <1>1, <1>2 DEF Schemas!Next, Schemas!Idle, Schemas!vars, lvars

-----------------------------------------------------------------------------
(* Both parts keep their invariants in the specification of the run.       *)
THEOREM StartupInvariance == StartSpec => [](BuildInv /\ SchemaInv)
<1>1. StartInit => BuildInv /\ SchemaInv
  BY InitBuildInv, InitSchemaInv DEF StartInit
<1>2. BuildInv /\ SchemaInv /\ [StartNext]_<<half, vars, lvars>> => (BuildInv /\ SchemaInv)'
  <2>1. StartNext \/ UNCHANGED <<half, vars, lvars>> => [Next]_vars /\ [Schemas!Next]_lvars
    BY DEF StartNext
  <2> QED
    BY <2>1, BuildKeeps, SchemaKeeps
<1> QED
  BY <1>1, <1>2, PTL DEF StartSpec

(* However a build fails, no WASM runtime is left open; nor after the app  *)
(* was closed (buildApp, app.Close).                                       *)
THEOREM NothingIsLeft == StartSpec => []NothingLeft
<1>1. BuildInv => NothingLeft
  BY DEF BuildInv, Runtimes, NothingLeft
<1> QED
  BY <1>1, StartupInvariance, PTL

(* An app that serves has what its fixtures need, and its warnings name    *)
(* exactly those that no request can be served (loadFixtures, Load).       *)
THEOREM AppIsReady == StartSpec => []ReadyToServe
<1>1. ASSUME BuildInv PROVE ReadyToServe
  <2> SUFFICES ASSUME stage = "built" PROVE ReadyToServe
    BY DEF ReadyToServe
  <2>1. runner = "open" /\ ((put.backend = "wasm") <=> (generator = "open"))
    BY <1>1 DEF BuildInv, Runtimes
  <2>2. \A i \in DOMAIN fixtures : fixtures[i].module <=> fixtures[i].kind.wasm # "none"
    <3>1. fixtures \in Seq(FixtureType) /\ checked = Len(fixtures)
      BY <1>1 DEF BuildInv, Loaded, Progress
    <3> QED
      BY <1>1, <3>1 DEF BuildInv, Checks
  <2>3. routed \subseteq Known
    BY <1>1 DEF BuildInv, Loaded
  <2>4. mode # "legacy" =>
          \A i \in DOMAIN fixtures : fixtures[i].kind.cel = "none" /\ fixtures[i].kind.wasm = "none"
    BY <1>1 DEF BuildInv, Loaded
  <2>5. mode = "legacy" =>
          \A i \in DOMAIN fixtures :
            i \in warned <=> \A accepts \in SUBSET DOMAIN fixtures : score(i, accepts) < 0
    BY <1>1, WarnedNeverServed
  <2> QED
    BY <2>1, <2>2, <2>3, <2>4, <2>5 DEF ReadyToServe
<1> QED
  BY <1>1, StartupInvariance, PTL

(* With ids that differ, a request is served the fixture whose own matcher *)
(* scores it highest (LegacySelector.Select).                              *)
THEOREM OwnMatcherIsUsed == StartSpec => []BestOwnServed
<1>1. BuildInv => BestOwnServed
  BY DEF BuildInv, Answers
<1> QED
  BY <1>1, StartupInvariance, PTL

(* A listener's state tells whether its requests are checked, a key is     *)
(* answered alike for as long as the process lives, and offline it is the  *)
(* snapshot that is compiled (loadSpecs, Fetcher.Get).                     *)
THEOREM SchemasAlwaysHold == StartSpec => []SchemasHold
<1>1. ASSUME SchemaInv PROVE Schemas!StateIsTrue
  <2> SUFFICES ASSUME NEW l \in Loads, Schemas!Serving(l)
               PROVE  /\ (Schemas!schemaValidationStatus(l) = "enabled") <=> (Schemas!Unchecked(l) = {})
                      /\ warnings[l] = Schemas!Unchecked(l)
    BY DEF Schemas!StateIsTrue
  <2> DEFINE ks == Schemas!providerSpecKeys(listener)
  <2>1. /\ Route \subseteq Schemas!Keys
        /\ \A i \in DOMAIN ks : ks[i] \in Route
        /\ \A k \in Route : \E i \in DOMAIN ks : ks[i] = k
    BY <1>1, KeysAreRoutes DEF SchemaInv, SchemaTypes
  <2>2. loader[l] = "serving" /\ keys[l] = <<>>
    BY <1>1 DEF Schemas!Serving, SchemaInv, LoadInv, AtKey
  <2>3. ASSUME NEW k \in Schemas!Keys
        PROVE  /\ k \in Route => Answered(l, k)
               /\ Answered(l, k) => k \in Route /\ memory[l][k] # "none"
               /\ schemas[l][k] = IF Answered(l, k) /\ memory[l][k] \in Schemas!Compiles
                                  THEN memory[l][k] ELSE "none"
               /\ k \in warnings[l] <=> Answered(l, k) /\ memory[l][k] \notin Schemas!Compiles
    <3>1. ~\E i \in DOMAIN keys[l] : keys[l][i] = k
      BY <2>2
    <3>2. Answered(l, k) => memory[l][k] \in Docs
      BY <1>1 DEF SchemaInv, SchemaTypes, LoadInv, AnswerInv
    <3> QED
      BY <1>1, <2>2, <3>1, <3>2 DEF SchemaInv, LoadInv, AnswerInv, Docs
  <2>4. warnings[l] \subseteq Schemas!Keys
    BY <1>1 DEF SchemaInv, SchemaTypes
  <2>5. \A k \in Route : Schemas!Has(l, k) <=> k \notin warnings[l]
    BY <2>1, <2>3 DEF Schemas!Has
  <2>6. warnings[l] = Schemas!Unchecked(l)
    BY <2>1, <2>3, <2>4, <2>5 DEF Schemas!Unchecked, Route
  <2>7. {ks[i] : i \in DOMAIN ks} = Route
    BY <2>1
  <2>8. (Schemas!schemaValidationStatus(l) = "enabled") <=> \A k \in Route : Schemas!Has(l, k)
    BY <2>7 DEF Schemas!schemaValidationStatus
  <2> QED
    BY <2>6, <2>8 DEF Schemas!Unchecked, Route
<1>2. ASSUME SchemaInv PROVE Schemas!GetIsStable
  <2> SUFFICES ASSUME NEW l \in Loads, NEW k \in Schemas!Keys,
                      NEW d \in returned[l][k], NEW e \in returned[l][k]
               PROVE  d = e
    BY DEF Schemas!GetIsStable
  <2>1. returned[l][k] = {} \/ returned[l][k] = {memory[l][k]}
    BY <1>2 DEF SchemaInv, LoadInv, AnswerInv, Answered
  <2> QED
    BY <2>1
<1>3. ASSUME SchemaInv PROVE Schemas!OfflineUsesSnapshot
  <2> SUFFICES ASSUME NEW l \in Loads, Schemas!Serving(l), l \notin Online, NEW k \in Route, cache[k] = "none"
               PROVE  schemas[l][k] = "vendored"
    BY DEF Schemas!OfflineUsesSnapshot, Schemas!Offline, Route
  <2>1. k \in Schemas!Keys
    BY <1>3, KeysAreRoutes DEF SchemaInv, SchemaTypes
  <2>2. keys[l] = <<>> /\ loader[l] = "serving"
    BY <1>3 DEF Schemas!Serving, SchemaInv, LoadInv, AtKey
  <2>3. Answered(l, k) /\ memory[l][k] \in Docs
    <3>1. ~\E i \in DOMAIN keys[l] : keys[l][i] = k
      BY <2>2
    <3>2. Answered(l, k) /\ returned[l][k] = {memory[l][k]}
      BY <1>3, <2>1, <2>2, <3>1 DEF SchemaInv, LoadInv, AnswerInv
    <3>3. returned[l][k] \in SUBSET Docs
      BY <1>3, <2>1 DEF SchemaInv, SchemaTypes
    <3> QED
      BY <3>2, <3>3
  <2>4. memory[l][k] = "vendored"
    BY <1>3, <2>1, <2>3 DEF SchemaInv, LoadInv, OfflineInv, Docs
  <2> QED
    BY <1>3, <2>1, <2>3, <2>4 DEF SchemaInv, LoadInv, AnswerInv, Schemas!Compiles
<1>4. SchemaInv => SchemasHold
  BY <1>1, <1>2, <1>3 DEF SchemasHold, Schemas!SchemasHold
<1> QED
  BY <1>4, StartupInvariance, PTL

-----------------------------------------------------------------------------
(* Whatever an app does, its startup is one of StartSpec and its exchange  *)
(* one of AnySpec: what is proved of either holds for the whole app.       *)
THEOREM AppComposes == AppSpec => StartSpec /\ AnySpec
<1>1. AppInit => StartInit /\ AnyInit
  BY Zenon DEF AppInit
<1>2. [AppNext]_<<part, half, vars, lvars, route, xvars, jvars, wvars>>
        => /\ [StartNext]_<<half, vars, lvars>>
           /\ [AnyNext]_<<route, xvars, jvars, wvars>>
  BY Zenon DEF AppNext
<1> QED
  BY <1>1, <1>2, PTL DEF AppSpec, StartSpec, AnySpec
=============================================================================
