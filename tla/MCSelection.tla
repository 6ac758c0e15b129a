---------------------------- MODULE MCSelection ----------------------------
(***************************************************************************)
(* How one request's answer is chosen and paced: by the fixture selector   *)
(* (FixtureSelection), by a selector.wasm (WasmSelector), by a generator   *)
(* (WasmGenerator), and with the numbers and pauses of its profile         *)
(* (ProfileSequence).  They share no state; part tells which a behaviour   *)
(* is about, and the variables of the others keep their initial values.    *)
(* Three requests meet in the selector.wasm and in a sequence that cycles  *)
(* over two steps that nobody swaps (part "polls"), and two elsewhere.     *)
(***************************************************************************)
EXTENDS WasmSelector, TLC

CONSTANTS Parts, Pair,
          FixtureSets, Selectors, MaxSwaps,
          Surfaces, MaxResultBytes, MaxChunks, Results,
          Listeners, Delays, Templates, Width, Tick, MaxRequests, MaxPauses, MaxPuts

VARIABLES
  part,
  matcher, counters, warned, req, installed, handed, logs,
  surface, owner, held, at, taken, freed, answer, looping, expired, outcome,
  profile, listener, tally, stream, puts, arrivals, renders

fvars == <<matcher, counters, warned, req, installed, handed, logs>>
gvars == <<surface, owner, held, at, taken, freed, answer, looping, expired, outcome>>
pvars == <<profile, listener, tally, stream, puts, arrivals, renders>>
svars == <<part, vars, fvars, gvars, pvars>>

Fixtures  == INSTANCE FixtureSelection
Generator == INSTANCE WasmGenerator WITH Calls <- Pair, pc <- at, result <- answer
Profile   == INSTANCE ProfileSequence WITH
               Requests <- Pair, MaxChunks <- MaxPauses, counters <- tally, req <- stream

(* The selectors below are ones that the loader accepts.                   *)
ASSUME SelectorsMeet == Fixtures!SelectorsOK
ASSUME ResultsMeet == Generator!ResultsOK
ASSUME DelaysMeet == Profile!DelaysOK /\ Profile!WidthOK

F(id, route) == [id |-> id, route |-> route]
Single(f) == [fixture |-> f, sequence |-> "none", steps |-> <<>>, onExhaust |-> "last"]
Sequence(id, steps, policy) ==
  [fixture |-> "none", sequence |-> id, steps |-> steps, onExhaust |-> policy]
Yaml(entries) == [kind |-> "fixtures.yaml", namespace |-> "ns", entries |-> entries]
Polling == Yaml(<<Sequence("poll", <<"a", "b">>, "cycle"), Single("c")>>)

(* The matcher, the script and the results matter to their own part only.  *)
AnyInit ==
  /\ part \in Parts
  /\ IF part = "script" THEN Init
       ELSE Init /\ script = (CHOOSE s \in Scripts : TRUE) /\ fits = {}
  /\ CASE part = "fixtures" -> Fixtures!Init
       [] part = "polls"    -> Fixtures!Init /\ matcher.selector = Polling
       [] OTHER             -> /\ Fixtures!Init
                               /\ matcher = [fixtures |-> CHOOSE fs \in FixtureSets : TRUE,
                                             selector |-> CHOOSE s \in Selectors : TRUE]
  /\ IF part = "generator" THEN Generator!Init
       ELSE /\ Generator!Init /\ surface = "fine"
            /\ answer = [c \in Pair |-> CHOOSE x \in Results : TRUE]
  /\ Profile!Init

SelectNext ==
  /\ UNCHANGED part
  /\ \/ part = "script" /\ Next /\ UNCHANGED <<fvars, gvars, pvars>>
     \/ part = "fixtures" /\ Fixtures!Next /\ UNCHANGED <<vars, gvars, pvars>>
        /\ \A r \in Requests \ Pair : req'[r] = req[r]
     \/ part = "polls" /\ Fixtures!Next /\ UNCHANGED <<vars, gvars, pvars, installed>>
     \/ part = "generator" /\ Generator!Next /\ UNCHANGED <<vars, fvars, pvars>>
     \/ part = "profile" /\ Profile!Next /\ UNCHANGED <<vars, fvars, gvars>>
SelectSpec == AnyInit /\ [][SelectNext]_svars

SelectionIsRight   == Fixtures!SelectionIsRight
OneGeneration      == Fixtures!OneGeneration
StepsAreServed     == Fixtures!StepsAreServed
(* Requests that share a sequence, in any interleaving and across swaps of *)
(* the selector, are handed the steps of its script one after the other:   *)
(* none twice before the script says so, none left out                     *)
(* (SequenceCounters.Step).                                                *)
Keys     == Fixtures!Keys
Totals   == Fixtures!Totals
Exhausts == Fixtures!Exhausts
Script   == INSTANCE StepScript WITH Total <- Totals, Policy <- Exhausts
ImplementsScript == Script!ScriptSpec

GeneratesCleanly   == Generator!GeneratesCleanly
SequenceHolds      == Profile!SequenceHolds
AnyPauseInRange    == Profile!AnyPauseInRange

-----------------------------------------------------------------------------
(* Instances.                                                              *)
MCScripts == [1..3 -> Outcomes]

(* Two fixture sets of two routes, and selectors that use every policy.    *)
MCFixtureSets == {<<F("a", "chat"), F("b", "chat"), F("c", "responses")>>,
                  <<F("a", "responses"), F("b", "chat")>>}
MCSelectors == {
  Polling,
  Yaml(<<Sequence("first", <<"b">>, "fallthrough"), Sequence("once", <<"b">>, "error"),
         Sequence("end", <<"c", "a">>, "last")>>),
  Yaml(<<>>),
  [kind |-> "legacy", namespace |-> "ns", entries |-> <<>>]}

(* Results at the limits and beyond them.                                  *)
MCResults == {[bytes |-> b, utf8 |-> TRUE, chunks |-> n] : b \in 2..3, n \in 1..2}
               \cup {[bytes |-> 1, utf8 |-> FALSE, chunks |-> 1]}

(* What a PUT may say of stream_delay, and the largest int64.              *)
MaxMs == 2 ^ (Width - 1) - 1
Off == [mode |-> "unset", ms |-> 0, min |-> 0, max |-> 0, seed |-> 0]
Fixed(n)         == [Off EXCEPT !.mode = "fixed", !.ms = n]
Random(a, b, sd) == [Off EXCEPT !.mode = "random", !.min = a, !.max = b, !.seed = sd]
SmallDelays == {Off, Fixed(3), Random(2, 2, 1), Random(1, 9, 1), Random(5, 4, 0),
                [Off EXCEPT !.mode = "bogus"]}
AllDelays   == {Fixed(n) : n \in {0, 1, MaxMs}}
                 \cup {Random(0, MaxMs, 0), Random(0, 40, 0)}

(* The small delays meet the condition of theorem OneSequence.             *)
ASSUME SmallDelaysFit == Delays = SmallDelays => Profile!DelaysFit

Symmetry == Permutations(Pair) \cup Permutations(Listeners)
=============================================================================
