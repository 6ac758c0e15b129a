-------------------------- MODULE FixtureSelection --------------------------
(***************************************************************************)
(* Fixture selection of one listener: Matcher, the fixtures.yaml selector  *)
(* with its sequence counters and the legacy selector (internal/fixture).  *)
(* Every request runs Match in a goroutine of its own, while the fixtures  *)
(* and the selector may be swapped.                                        *)
(*                                                                         *)
(* What an expression or a module says of a request is an input: a score,  *)
(* or a failure.  One listener has one profile, so the counter's key       *)
(* (profile, namespace, id) is the pair of the last two.                   *)
(***************************************************************************)
EXTENDS Naturals, Integers, Sequences, FiniteSets

CONSTANTS Requests,     (* goroutines                                      *)
          FixtureSets,  (* sequences of fixtures [id, route]               *)
          Selectors,    (* [kind, namespace, entries], see SelectorsOK     *)
          MaxSwaps      (* bound on the number of swaps                    *)

Policies == {"last", "cycle", "error", "fallthrough"}
Routes   == UNION {{fs[i].route : i \in DOMAIN fs} : fs \in FixtureSets}
Entries  == UNION {{s.entries[i] : i \in DOMAIN s.entries} : s \in Selectors}
IsSequence(e) == e.sequence # "none"
Key(s, e) == <<s.namespace, e.sequence>>
Sequences(s) == {s.entries[i] : i \in {j \in DOMAIN s.entries : IsSequence(s.entries[j])}}
Keys == UNION {{Key(s, e) : e \in Sequences(s)} : s \in Selectors}
EntryOf == [k \in Keys |->
             CHOOSE e \in Entries : \E s \in Selectors : e \in Sequences(s) /\ Key(s, e) = k]
Totals   == [k \in Keys |-> Len(EntryOf[k].steps)]
Exhausts == [k \in Keys |-> EntryOf[k].onExhaust]

(* The loader refuses a sequence without steps.  It does not refuse two    *)
(* entries with one sequence id, which would share a counter; here they    *)
(* may, provided they have the same script.                                *)
SelectorsOK ==
  /\ \A s \in Selectors :
       /\ s.entries \in Seq(Entries)
       /\ \A i \in DOMAIN s.entries :
            /\ s.entries[i].onExhaust \in Policies
            /\ IsSequence(s.entries[i]) => Len(s.entries[i].steps) \in Nat \ {0}
  /\ \A s1, s2 \in Selectors : \A i \in DOMAIN s1.entries, j \in DOMAIN s2.entries :
       LET e1 == s1.entries[i] e2 == s2.entries[j] IN
       IsSequence(e1) /\ Key(s1, e1) = Key(s2, e2)
         => e1.steps = e2.steps /\ e1.onExhaust = e2.onExhaust

VARIABLES
  matcher,    (* [fixtures, selector]: the fields of Matcher               *)
  counters,   (* key -> counter of the sequence                            *)
  warned,     (* entries whose failure has been logged                     *)
  req,        (* request -> its locals                                     *)
  installed,  (* history: the matchers there have been                     *)
  handed,     (* history: key -> the indices handed out                    *)
  logs        (* history: the entries logged, in order                     *)

vars == <<matcher, counters, warned, req, installed, handed, logs>>

Nothing   == [kind |-> "nothing", id |-> "none"]
Found(id) == [kind |-> "fixture", id |-> id]
Exhausted == [kind |-> "exhausted", id |-> "none"]

NoSelector == [kind |-> "none", namespace |-> "none", entries |-> <<>>]
Idle == [pc |-> "idle", route |-> "none", matcher |-> [fixtures |-> <<>>, selector |-> NoSelector],
         candidates |-> <<>>, next |-> 1, seen |-> <<>>, best |-> 0, result |-> Nothing]

Init ==
  /\ \E fs \in FixtureSets, s \in Selectors : matcher = [fixtures |-> fs, selector |-> s]
  /\ counters  = [k \in Keys |-> 0]
  /\ warned    = {}
  /\ req       = [r \in Requests |-> Idle]
  /\ installed = {matcher}
  /\ handed    = [k \in Keys |-> <<>>]
  /\ logs      = <<>>

IDs(fs)  == {fs[i].id : i \in DOMAIN fs}
Candidates(fs, route) == SelectSeq(fs, LAMBDA f : f.route = route)

(*************************************** Matcher ***************************)

Install(m) ==
  /\ Cardinality(installed) <= MaxSwaps
  /\ matcher' = m
  /\ installed' = installed \cup {m}
  /\ UNCHANGED <<counters, warned, req, handed, logs>>

Swap == \E fs \in FixtureSets : Install([matcher EXCEPT !.fixtures = fs])

SwapWithSelector ==
  \E fs \in FixtureSets, s \in Selectors : Install([fixtures |-> fs, selector |-> s])

(* A mutant: the selector is read when it is needed, without the lock.     *)
MatchUnlocked(r) ==
  \/ /\ req[r].pc = "idle"
     /\ \E route \in Routes :
          LET c == Candidates(matcher.fixtures, route) IN
          req' = [req EXCEPT ![r] =
            [Idle EXCEPT !.pc = IF c = <<>> THEN "done" ELSE "unread",
                         !.route = route, !.matcher = matcher, !.candidates = c]]
     /\ UNCHANGED <<matcher, counters, warned, installed, handed, logs>>
  \/ /\ req[r].pc = "unread"
     /\ req' = [req EXCEPT ![r].matcher.selector = matcher.selector, ![r].pc = "select"]
     /\ UNCHANGED <<matcher, counters, warned, installed, handed, logs>>

(* Both fields are read under one read lock; without candidates nothing is *)
(* selected.                                                               *)
Match(r) ==
  /\ req[r].pc = "idle"
  /\ \E route \in Routes :
       LET c == Candidates(matcher.fixtures, route) IN
       req' = [req EXCEPT ![r] =
         [Idle EXCEPT !.pc = IF c = <<>> THEN "done" ELSE "select",
                      !.route = route, !.matcher = matcher, !.candidates = c]]
  /\ UNCHANGED <<matcher, counters, warned, installed, handed, logs>>

(********************************** fixtures.yaml selector *****************)
Selector(r) == req[r].matcher.selector
AtEntry(r) ==
  /\ req[r].pc = "select"
  /\ Selector(r).kind = "fixtures.yaml"
  /\ req[r].next <= Len(Selector(r).entries)
Entry(r) == Selector(r).entries[req[r].next]

Saw(r, what) == [req[r] EXCEPT !.next = @ + 1, !.seen = Append(@, what)]
Skip(r, what) == req' = [req EXCEPT ![r] = Saw(r, what)]
Select(r, what, res) ==
  req' = [req EXCEPT ![r] = [Saw(r, what) EXCEPT !.pc = "done", !.result = res]]
ServeOrStop(r, id) ==
  Select(r, "absent", IF id \in IDs(req[r].candidates) THEN Found(id) ELSE Nothing)
(* The fixture is served if it is a candidate; if not, the entry is passed *)
(* over.                                                                   *)
Serve(r, id) ==
  IF id \in IDs(req[r].candidates) THEN Select(r, "matched", Found(id)) ELSE Skip(r, "absent")

(* The expression fails: logged the first time, and no match.              *)
warnEntry(r) ==
  /\ AtEntry(r)
  /\ LET w == <<Selector(r), req[r].next>> IN
     /\ warned' = warned \cup {w}
     /\ logs' = IF w \in warned THEN logs ELSE Append(logs, w)
  /\ Skip(r, "failed")
  /\ UNCHANGED <<matcher, counters, installed, handed>>

NoMatch(r) ==
  /\ AtEntry(r)
  /\ Skip(r, "unmatched")
  /\ UNCHANGED <<matcher, counters, warned, installed, handed, logs>>

SingleMatch(r) ==
  /\ AtEntry(r)
  /\ ~IsSequence(Entry(r))
  /\ Serve(r, Entry(r).fixture)
  /\ UNCHANGED <<matcher, counters, warned, installed, handed, logs>>

StepIndexFromOne(e, n) ==
  IF n < Len(e.steps) THEN n
  ELSE IF e.onExhaust = "cycle" THEN (n + 1) % Len(e.steps) ELSE Len(e.steps) - 1

(* SequenceCounters.Step: the counter grows to the number of steps, and    *)
(* beyond it only for a cycle.                                             *)
HasStep(e, n) == n < Len(e.steps) \/ e.onExhaust \in {"last", "cycle"}
StepIndex(e, n) ==
  IF n < Len(e.steps) THEN n
  ELSE IF e.onExhaust = "cycle" THEN n % Len(e.steps) ELSE Len(e.steps) - 1
Advanced(e, n) == IF n < Len(e.steps) \/ e.onExhaust = "cycle" THEN n + 1 ELSE n

Step(r) ==
  LET e == Entry(r)
      k == Key(Selector(r), e)
      n == counters[k] IN
  /\ AtEntry(r)
  /\ IsSequence(e)
  /\ counters' = [counters EXCEPT ![k] = Advanced(e, n)]
  /\ IF HasStep(e, n)
       THEN /\ handed' = [handed EXCEPT ![k] = Append(@, StepIndex(e, n))]
            /\ Serve(r, e.steps[StepIndex(e, n) + 1])
       ELSE /\ handed' = handed
            /\ IF e.onExhaust = "error" THEN Select(r, "matched", Exhausted)
                                        ELSE Skip(r, "spent")
  /\ UNCHANGED <<matcher, warned, installed, logs>>

(* No entry is left.                                                       *)
EndOfEntries(r) ==
  /\ req[r].pc = "select"
  /\ Selector(r).kind = "fixtures.yaml"
  /\ req[r].next > Len(Selector(r).entries)
  /\ req' = [req EXCEPT ![r].pc = "done"]
  /\ UNCHANGED <<matcher, counters, warned, installed, handed, logs>>

(*************************************** legacy selector *******************)
Scores == -1..1     (* -1: no match, no matcher, or the matcher failed     *)

AtCandidate(r) ==
  /\ req[r].pc = "select"
  /\ Selector(r).kind = "legacy"
  /\ req[r].next <= Len(req[r].candidates)

(* bestScore starts at -1, so 0 is enough to be chosen.                    *)
BestScore(r) == IF req[r].best = 0 THEN -1 ELSE req[r].seen[req[r].best]
Better(r, s) == s >= 0 /\ s > BestScore(r)

ScoreCandidate(r) ==
  /\ AtCandidate(r)
  /\ \E s \in Scores :
       req' = [req EXCEPT ![r] =
         [Saw(r, s) EXCEPT !.best = IF Better(r, s) THEN req[r].next ELSE @]]
  /\ UNCHANGED <<matcher, counters, warned, installed, handed, logs>>

EndOfCandidates(r) ==
  /\ req[r].pc = "select"
  /\ Selector(r).kind = "legacy"
  /\ req[r].next > Len(req[r].candidates)
  /\ req' = [req EXCEPT ![r].pc = "done",
       ![r].result = IF req[r].best = 0 THEN Nothing
                     ELSE Found(req[r].candidates[req[r].best].id)]
  /\ UNCHANGED <<matcher, counters, warned, installed, handed, logs>>

Next ==
  \/ Swap \/ SwapWithSelector
  \/ \E r \in Requests :
       \/ Match(r)
       \/ warnEntry(r) \/ NoMatch(r) \/ SingleMatch(r) \/ Step(r) \/ EndOfEntries(r)
       \/ ScoreCandidate(r) \/ EndOfCandidates(r)

Spec == Init /\ [][Next]_vars

(*************************************** properties ************************)

(* A request selects with a matcher that was installed as a whole: the     *)
(* fixtures of one swap are never paired with the selector of another      *)
(* (matcher.go:62).                                                        *)
OneGeneration ==
  \A r \in Requests : req[r].pc # "idle" => req[r].matcher \in installed

(* First match wins: an entry decides a request only if no earlier entry   *)
(* of the selector matched, unless that one's fixture belongs to another   *)
(* route or its sequence fell through; and a request goes without a        *)
(* fixture only if that is so for every entry (selector.go:124).           *)
FirstMatchWins ==
  \A r \in Requests : req[r].pc = "done" /\ req[r].candidates # <<>>
                      /\ Selector(r).kind = "fixtures.yaml" =>
    LET seen == req[r].seen n == Len(seen) IN
    /\ \A i \in 1..n - 1 : seen[i] # "matched"
    /\ req[r].result = Nothing =>
         n = Len(Selector(r).entries) /\ \A i \in 1..n : seen[i] # "matched"
    /\ \A i \in 1..n : seen[i] = "spent" =>
         Selector(r).entries[i].onExhaust = "fallthrough"

(* The legacy selector picks the first of the candidates with the highest  *)
(* score, and none when every score is negative (selector.go:36).          *)
FirstBestWins ==
  \A r \in Requests : req[r].pc = "done" /\ req[r].candidates # <<>>
                      /\ Selector(r).kind = "legacy" =>
    LET s == req[r].seen c == req[r].candidates IN
    IF \A i \in DOMAIN s : s[i] < 0 THEN req[r].result = Nothing
    ELSE \E i \in DOMAIN s :
           /\ req[r].result = Found(c[i].id)
           /\ \A j \in DOMAIN s : s[j] <= s[i] /\ (j < i => s[j] < s[i])

(* A failing entry is logged once, however many requests meet it at the    *)
(* same time (selector.go:113).                                            *)
WarnOnce == \A i, j \in DOMAIN logs : i # j => logs[i] # logs[j]

(* A request is answered by the entry or the candidate that the selector's *)
(* order gives it, and the log names each failing entry once, under any    *)
(* interleaving of requests, steps and swaps.                              *)
SelectionIsRight == FirstMatchWins /\ FirstBestWins /\ WarnOnce

(* "A sequence entry steps through its steps fixtures, one per matching    *)
(* request", says docs/fixture-authoring.md: whenever no request is being  *)
(* selected for, each index handed out has been served to a request.       *)
ServedFrom(k) ==
  {r \in Requests :
     /\ req[r].pc = "done" /\ req[r].result.kind = "fixture"
     /\ Selector(r).kind = "fixtures.yaml"
     /\ LET decided == Selector(r).entries[Len(req[r].seen)] IN
        IsSequence(decided) /\ Key(Selector(r), decided) = k}
StepsAreServed ==
  (\A r \in Requests : req[r].pc # "select") =>
    \A k \in Keys : Len(handed[k]) = Cardinality(ServedFrom(k))
=============================================================================
