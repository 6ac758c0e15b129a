------------------------------ MODULE SystemOne ------------------------------
(***************************************************************************)
(* POST /v1/systemone of the TypeSafe provider (internal/provider/typesafe: *)
(* handler.go, synth.go, logprob.go, criteria.go, validate.go, errors.go). *)
(* Every question of a request gets a typed judgment with probabilities,   *)
(* from a fixture or from one of three backends, and whatever its source   *)
(* the answers are checked against the questions before they are served.   *)
(*                                                                         *)
(* Probabilities are exact, in units of 1/Unit.  A negative number stands  *)
(* for a field that is missing or not a number.                            *)
(***************************************************************************)
EXTENDS Exchange, FiniteSetsExt

VARIABLES left,      (* questions not yet answered                         *)
          answers,   (* question -> answer                                 *)
          asked,     (* outcomes of the calls to the upstream so far       *)
          verdict    (* why the reply is what it is                        *)

jvars == <<left, answers, asked, verdict>>
allvars == <<vars, jvars>>

Unit == 60
Missing == -1
NoAnswers == [k \in {} |-> Missing]
Blank == [type |-> "none", noul |-> Missing, choice |-> "none", score |-> Missing,
          legend |-> {}, probabilities |-> NoAnswers, confidence |-> Missing]
Levels == <<"0", "1", "2">>

Total(f) == MapThenSumSet(LAMBDA k : f[k], DOMAIN f)
MaxAt(f) == CHOOSE k \in DOMAIN f : \A l \in DOMAIN f : f[l] <= f[k]

-----------------------------------------------------------------------------
(* Criteria.  Options are the keys of a JSON object in source order, with  *)
(* the repetitions that a map would lose; levels are the items of an array. *)

choiceOptions(q) == Len(q.options) >= 2
scoreLevels(q) == Len(q.options) \in 2..10
levelIndices(q) == SubSeq(Levels, 1, Len(q.options))
HasRepeats(q) == Cardinality(Range(q.options)) # Len(q.options)

(* The request schema sees the decoded object: repetitions count once.     *)
SchemaAccepts(q) ==
  CASE q.type = "choice" -> Cardinality(Range(q.options)) \in 2..255
    [] q.type = "score"  -> Len(q.options) \in 2..10
    [] OTHER             -> q.type = "noul"

Checks == <<[fault |-> "auth", status |-> 401], [fault |-> "unreadable", status |-> 422],
            [fault |-> "invalid", status |-> 422], [fault |-> "malformed", status |-> 422],
            [fault |-> "no_model", status |-> 422]>>

writeForcedProfileError ==
  [e \in {"authentication", "permission", "invalid_request", "rate_limit", "overloaded",
          "server_error"} |->
     CASE e = "authentication" -> 401 [] e = "permission" -> 403
       [] e = "invalid_request" -> 400 [] e = "rate_limit" -> 429
       [] e = "overloaded" -> 503 [] e = "server_error" -> 500]

-----------------------------------------------------------------------------
(* ValidateAnswers, the gate of every 200.                                 *)

validateProbabilities(p, want) ==
  /\ Cardinality(DOMAIN p) = Len(want) /\ Range(want) \subseteq DOMAIN p
  /\ \A k \in DOMAIN p : p[k] \in 0..Unit
  /\ Total(p) = Unit
validateConfidence(a) == a.confidence \in 0..Unit
(* Mutant: the sum and range of the probabilities are left unchecked.      *)
validateChoiceLoosely(q, a) ==
  /\ choiceOptions(q) /\ a.choice \in Range(q.options)
  /\ Range(q.options) \subseteq DOMAIN a.probabilities
  /\ \A o \in Range(q.options) : a.probabilities[o] <= a.probabilities[a.choice]
validateChoiceAnswer(q, a) ==
  /\ choiceOptions(q)
  /\ a.choice \in Range(q.options)
  /\ validateProbabilities(a.probabilities, q.options)
  /\ \A o \in Range(q.options) : a.probabilities[o] <= a.probabilities[a.choice]
  /\ validateConfidence(a)
Position(q, p) == MapThenSumSet(LAMBDA i : (i - 1) * p[Levels[i]], 1..Len(q.options))
validateScoreAnswer(q, a) ==
  /\ scoreLevels(q)
  /\ validateProbabilities(a.probabilities, levelIndices(q))
  /\ a.score = Position(q, a.probabilities)
  /\ a.legend = Range(levelIndices(q))
  /\ validateConfidence(a)
ValidateAnswers(questions, as) ==
  /\ DOMAIN questions = DOMAIN as
  /\ \A k \in DOMAIN questions :
       /\ as[k].type = questions[k].type
       /\ CASE as[k].type = "noul"   -> as[k].noul \in 0..Unit
            [] as[k].type = "choice" -> validateChoiceAnswer(questions[k], as[k])
            [] as[k].type = "score"  -> validateScoreAnswer(questions[k], as[k])
            [] OTHER                 -> FALSE

-----------------------------------------------------------------------------
(* Synthesis.  A distribution is made by position and then kept by name:   *)
(* of a repeated name, the last one wins.                                  *)

ByName(names, p) ==
  [n \in Range(names) |-> p[CHOOSE i \in DOMAIN names :
                              names[i] = n /\ \A j \in DOMAIN names : names[j] = n => j <= i]]
Normalized(w) ==
  IF Total(w) = 0 THEN [i \in DOMAIN w |-> Unit \div Len(w)]
  ELSE [i \in DOMAIN w |-> (w[i] * Unit) \div Total(w)]
skewedDistribution(n) == [i \in 1..n |-> IF i = 1 THEN 54 ELSE 6 \div (n - 1)]

Answer(q, names, p, best, confidence) ==
  IF q.type = "choice"
    THEN [Blank EXCEPT !.type = "choice", !.choice = best, !.probabilities = ByName(names, p),
                       !.confidence = confidence]
    ELSE [Blank EXCEPT !.type = "score", !.score = Position(q, ByName(names, p)),
                       !.legend = Range(names), !.probabilities = ByName(names, p),
                       !.confidence = confidence]
Names(q) == IF q.type = "choice" THEN q.options ELSE levelIndices(q)
Answerable(q) ==
  \/ q.type = "noul"
  \/ q.type = "choice" /\ choiceOptions(q)
  \/ q.type = "score" /\ scoreLevels(q)

answerLorem(q) ==
  IF q.type = "noul" THEN {[Blank EXCEPT !.type = "noul", !.noul = 30]}
  ELSE LET p == skewedDistribution(Len(q.options))
       IN  {Answer(q, Names(q), p, Names(q)[1], ByName(Names(q), p)[Names(q)[1]])}
(* The seed may draw any weights, all of them positive.                    *)
answerFaker(q) ==
  IF q.type = "noul" THEN {[Blank EXCEPT !.type = "noul", !.noul = x] : x \in {0, 30, 59}}
  ELSE {LET p == ByName(Names(q), Normalized(w)) IN Answer(q, Names(q), Normalized(w), MaxAt(p), p[MaxAt(p)])
          : w \in [1..Len(q.options) -> 1..2]}

(* The mass of the candidate tokens on each label: none at all is answered *)
(* uniformly, and weights that overflow leave no number.                   *)
labelDistribution(n) ==
  {Normalized(w) : w \in [1..n -> 0..2]} \cup {[i \in 1..n |-> Missing]}
logprobAnswer(q) ==
  IF q.type = "noul" THEN {[Blank EXCEPT !.type = "noul", !.noul = p[1]] : p \in labelDistribution(2)}
  ELSE {Answer(q, Names(q), p, Names(q)[MaxAt(p)], p[MaxAt(p)]) : p \in labelDistribution(Len(q.options))}

-----------------------------------------------------------------------------
Reply(status, why) == Body(status, FALSE, -1) /\ verdict' = why

handleSystemOne ==
  /\ Force(writeForcedProfileError) \/ Refuse(Checks) \/ Admit(Checks)
  /\ UNCHANGED jvars
selectFixture == Match(500) /\ UNCHANGED jvars

renderFixtureBodyBytes ==
  /\ At("render")
  /\ IF fixture.template = "none" THEN UNCHANGED used ELSE Use("render")
  /\ IF fixture.template = "bad" THEN Reply(500, "backend") ELSE pc' = "serve" /\ UNCHANGED <<reply, verdict>>
  /\ UNCHANGED <<req, profile, fixture, text, todo, alive, left, answers, asked>>

(* A fixture that is no success is served as it is, any other only if its  *)
(* answers hold.                                                           *)
serveFixture ==
  /\ At("serve")
  /\ IF fixture.status \notin 200..299
       THEN Reply(fixture.status, "verbatim") /\ UNCHANGED answers
     ELSE IF fixture.body = "opaque"
       THEN Reply(500, "backend") /\ UNCHANGED answers
     ELSE /\ answers' = fixture.answers
          /\ IF ValidateAnswers(req.questions, fixture.answers)
               THEN Reply(fixture.status, "answers") ELSE Reply(500, "contract")
  /\ UNCHANGED <<req, profile, fixture, text, todo, used, alive, left, asked>>

Synthetic == {"default", "hybrid", "lorem", "fixture"}
answersForBackend ==
  /\ At("route") /\ Use("backend")
  /\ IF profile.backend \in Synthetic \cup {"faker", "ollama-logprob"}
       THEN pc' = "stream" /\ left' = DOMAIN req.questions /\ UNCHANGED <<reply, verdict>>
       ELSE Reply(500, "backend") /\ UNCHANGED left
  /\ UNCHANGED <<req, profile, fixture, text, todo, alive, answers, asked>>

(* Questions are a map: they are answered in any order, and the first      *)
(* failure ends the request.                                               *)
Answered(k, a) ==
  /\ answers' = [j \in DOMAIN answers \cup {k} |-> IF j = k THEN a ELSE answers[j]]
  /\ left' = left \ {k}
  /\ UNCHANGED <<pc, reply, verdict>>
answerOffline(k) ==
  /\ At("stream") /\ k \in left /\ profile.backend # "ollama-logprob"
  /\ IF ~Answerable(req.questions[k])
       THEN Reply(500, "backend") /\ UNCHANGED <<left, answers>>
       ELSE \E a \in IF profile.backend = "faker" THEN answerFaker(req.questions[k])
                     ELSE answerLorem(req.questions[k]) : Answered(k, a)
  /\ UNCHANGED <<req, profile, fixture, text, todo, used, alive, asked>>
(* One call to the upstream for a question: it fails if the upstream is    *)
(* down, answers with an error or without log probabilities, or if the     *)
(* client has gone.                                                        *)
answerUpstream(k) ==
  /\ At("stream") /\ k \in left /\ profile.backend = "ollama-logprob"
  /\ IF ~Answerable(req.questions[k])
       THEN Reply(500, "backend") /\ UNCHANGED <<left, answers, asked>>
       ELSE \E ok \in BOOLEAN :
              /\ (ok => alive) /\ asked' = Append(asked, ok)
              /\ IF ok THEN \E a \in logprobAnswer(req.questions[k]) : Answered(k, a)
                 ELSE Reply(502, "upstream") /\ UNCHANGED <<left, answers>>
  /\ UNCHANGED <<req, profile, fixture, text, todo, used, alive>>
FirstTokenLogprobs == \E k \in left : answerUpstream(k)

respond ==
  /\ At("stream") /\ left = {}
  /\ IF ValidateAnswers(req.questions, answers) THEN Reply(200, "answers") ELSE Reply(500, "contract")
  /\ UNCHANGED <<req, profile, fixture, text, todo, used, alive, left, answers, asked>>

Init ==
  /\ ExchangeInit
  /\ left = {} /\ answers = NoAnswers /\ asked = <<>> /\ verdict = "none"
Handle == handleSystemOne \/ selectFixture \/ renderFixtureBodyBytes \/ serveFixture
            \/ answersForBackend \/ (\E k \in left : answerOffline(k)) \/ FirstTokenLogprobs \/ respond
Done == Finished /\ UNCHANGED allvars
Next == Handle \/ (ClientLeaves /\ UNCHANGED jvars) \/ Done
Spec == Init /\ [][Next]_allvars

-----------------------------------------------------------------------------

(* What a client may rely on (docs/typesafe.md, "Answer validation"): each *)
(* question has one answer of its type, probabilities are a distribution   *)
(* over exactly the options (unless one is named twice, see below), a      *)
(* choice is a likeliest option, and a score is an expected level.         *)
Distribution(p, S) == DOMAIN p = S /\ (\A k \in S : p[k] >= 0) /\ Total(p) = Unit
ServedAnswersHold ==
  verdict = "answers" =>
    /\ DOMAIN answers = DOMAIN req.questions
    /\ \A k \in DOMAIN answers :
         LET q == req.questions[k]  a == answers[k] IN
         /\ a.type = q.type /\ (q.type = "noul" => a.noul \in 0..Unit)
         /\ q.type = "choice" =>
              /\ HasRepeats(q) \/ Distribution(a.probabilities, Range(q.options))
              /\ \A o \in Range(q.options) : a.probabilities[a.choice] >= a.probabilities[o]
         /\ q.type = "score" =>
              /\ Distribution(a.probabilities, Range(levelIndices(q)))
              /\ a.score \in 0..(Unit * (Len(q.options) - 1))

(* No backend of zolem breaks the contract by itself: a violation comes    *)
(* from a fixture, from an upstream whose numbers overflow, or from an     *)
(* option that is named twice (synth.go, logprob.go).                      *)
OnlyOthersViolate ==
  verdict = "contract" =>
    \/ fixture.match = "found" /\ UsesFixtures
    \/ \E k \in DOMAIN answers : Missing = IF answers[k].type = "noul" THEN answers[k].noul ELSE answers[k].confidence
    \/ \E k \in DOMAIN req.questions :
         req.questions[k].type = "choice" /\ HasRepeats(req.questions[k])

(* An upstream call that fails is the last one, and fails the request with *)
(* the status of a gateway, however many questions were answered before    *)
(* it.  The same status without a failed call is that of a fixture served  *)
(* as it is, or of a failed selection (writeBackendError, serveFixture).   *)
UpstreamFailureIs502 ==
  LET failed == \E i \in DOMAIN asked : ~asked[i] IN
  pc = "done" =>
    /\ failed => reply.status = 502 /\ ~reply.zolem
    /\ reply.status = 502 => failed \/ reply.zolem \/ verdict = "verbatim"
    /\ \A i \in 1..(Len(asked) - 1) : asked[i]

(* What is served holds, what does not hold is refused, and each failure   *)
(* has its own status: the three promises of one reply.                    *)
JudgmentsHold == ServedAnswersHold /\ OnlyOthersViolate /\ UpstreamFailureIs502

(* Refusals cost nothing, and a fixture excludes the backend.              *)
OneSource == HasOneSource(Checks)
=============================================================================
