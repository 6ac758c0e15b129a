---------------------------- MODULE MCProviders ----------------------------
(***************************************************************************)
(* A request of any route of any provider, from its first check to the     *)
(* last frame of its reply.  The handlers share Exchange's variables; the  *)
(* route tells whose handler runs.  The WebSocket of /v1/responses and the *)
(* judgments of /v1/systemone have variables of their own, which the other *)
(* routes leave alone.                                                     *)
(***************************************************************************)
EXTENDS Integers, Sequences, FiniteSets

CONSTANTS MaxChunks, MaxFrames

ASSUME MaxChunksAssumption == MaxChunks \in Nat

VARIABLES
  route,
  req, profile, fixture, pc, text, reply, todo, used, alive,
  left, answers, asked, verdict,
  open, backend, at, status, inbox, frames, events, wire, source, broken, received, sent, record

xvars == <<req, profile, fixture, pc, text, reply, todo, used, alive>>
jvars == <<left, answers, asked, verdict>>
wvars == <<open, backend, at, status, inbox, frames, events, wire, source, broken, received,
           sent, record>>

-----------------------------------------------------------------------------
(* Profiles and fixtures of all routes: every backend, paced or not, every *)
(* forced error, every outcome of the selection and of the template, and   *)
(* bodies that a provider can or cannot read.                              *)
MCProfiles ==
  [backend : {"fixture", "ollama", "wasm", "lorem"}, errorType : {"none"}, delay : BOOLEAN]
    \cup [backend : {"error"}, delay : {FALSE},
          errorType : {"authentication", "permission", "invalid_request", "rate_limit",
                       "overloaded", "server_error"}]

Unfound(how) == [match |-> how, template |-> "none", status |-> 200, body |-> "text", words |-> 0]
MCFixtures ==
  {Unfound("none"), Unfound("exhausted"), Unfound("failed")}
    \cup [match : {"found"}, template : {"none", "ok", "bad"}, status : {200},
          body : {"text"}, words : 0..2]
    \cup [match : {"found"}, template : {"none"}, status : {200, 429},
          body : {"opaque", "tool", "text"}, words : {1}]

NoChoice == [mode |-> "auto", name |-> "any"]
Ask(faults, modes, named) ==
  [faults : faults, stream : BOOLEAN, usage : BOOLEAN, choice : {NoChoice}, tools : {<<>>}]
    \cup [faults : {{}}, stream : BOOLEAN, usage : {TRUE},
          choice : {[mode |-> m, name |-> "any"] : m \in modes} \cup {named},
          tools : {<<>>, <<"a">>, <<"a", "b">>}]

-----------------------------------------------------------------------------
(* The requests of the five generation routes.                             *)
OpenAIRequests ==
  Ask({{}, {"auth"}, {"unreadable"}, {"invalid"}, {"malformed"}, {"no_model"}, {"auth", "no_model"}},
      {"auto", "required", "function"}, [mode |-> "function", name |-> "b"])

AnthropicRequests ==
  Ask({{}, {"auth"}, {"unreadable"}, {"invalid"}, {"malformed"}, {"no_model"}, {"no_max_tokens"}},
      {"auto", "any", "tool"}, [mode |-> "tool", name |-> "b"])

GeminiRequests ==
  [faults : {{}, {"auth"}, {"unreadable"}, {"invalid"}, {"malformed"}, {"no_contents"},
             {"auth", "malformed"}},
   action : {"generateContent", "streamGenerateContent", "countTokens"}, alt : {"sse"},
   choice : {NoChoice}, tools : {<<>>}]
  \cup
  [faults : {{}}, action : {"generateContent", "streamGenerateContent", "predict"},
   alt : {"sse", "none"}, choice : {NoChoice, [mode |-> "ANY", name |-> "any"], [mode |-> "ANY", name |-> "b"]},
   tools : {<<>>, <<"a">>, <<"a", "b">>}]

OllamaRequests ==
  [endpoint : {"chat", "generate"}, prompt : {"words"}, stream : {"true", "false", "absent"},
   faults : {{}, {"unreadable"}, {"invalid"}, {"malformed"}, {"no_model"}, {"malformed", "no_model"}}]
  \cup
  [endpoint : {"generate"}, prompt : {"empty"}, stream : {"absent"}, faults : {{}, {"no_model"}}]

(* Inputs of at most two items, and arrays of at most two events.          *)
Item(type, role, words) == [type |-> type, role |-> role, text |-> words]
Items == {Item("message", "developer", "words"), Item("empty", "user", "empty"), Item("message", "empty", "words"),
          Item("function_call_output", "empty", "words"), Item("reasoning", "user", "words")}
Inputs == {<<>>} \cup {<<i>> : i \in Items} \cup {<<Item("reasoning", "user", "words"), i>> : i \in Items}
PostRequests ==
  [faults : {{"auth"}, {"unreadable"}, {"invalid"}, {"malformed"}, {"no_model"}, {"stream"},
             {"invalid", "stream"}},
   input : {<<Item("message", "user", "words")>>}]
  \cup [faults : {{}}, input : Inputs]

PostEvent(type, object, response) == [type |-> type, object |-> object, response |-> response]
Events(response) == {PostEvent("response.completed", TRUE, response), PostEvent("response.created", TRUE, response),
                     PostEvent("response.completed", FALSE, response)}
MCEvents == {<<>>} \cup {<<e>> : e \in Events("a")} \cup {<<e, f>> : e \in Events("a"), f \in Events("b")}
PostFixtures ==
  {Unfound("none"), Unfound("exhausted"), Unfound("failed")}
    \cup [match : {"found"}, template : {"ok"}, status : {200, 429}, array : {TRUE}, events : MCEvents]
    \cup [match : {"found"}, template : {"none", "bad"}, status : {200, 429}, array : {FALSE},
          events : {<<>>}]

OpenAI    == INSTANCE OpenAIChat WITH
               Requests <- OpenAIRequests, Profiles <- MCProfiles, Fixtures <- MCFixtures
Anthropic == INSTANCE AnthropicMessages WITH
               Requests <- AnthropicRequests, Profiles <- MCProfiles, Fixtures <- MCFixtures
Gemini    == INSTANCE GeminiGenerate WITH
               Requests <- GeminiRequests, Profiles <- MCProfiles, Fixtures <- MCFixtures
Ollama    == INSTANCE OllamaApi WITH
               Requests <- OllamaRequests, Profiles <- MCProfiles, Fixtures <- MCFixtures
Post      == INSTANCE ResponsesPost WITH
               Requests <- PostRequests, Profiles <- MCProfiles, Fixtures <- PostFixtures

-----------------------------------------------------------------------------
(* Connections of /v1/responses, and fixtures of a whole response.         *)
SocketOpens ==
  [forced : {0, 429}, auth : {"Bearer sk-test", "Bearer other"}, handshake : {"good", "bad"}]
SocketAnswers ==
  [kind : {"nothing", "exhausted", "selection_failed", "render_failed", "no_array"}, events : {<<>>}]
  \cup {[kind |-> "fixture", events |-> <<[type |-> "response.created", n |-> 0], [type |-> "response.completed", n |-> 1]>>]}
Socket == INSTANCE ResponsesSocket WITH
  Opens <- SocketOpens, Answers <- SocketAnswers, Backends <- {"fixture", "ollama"},
  pc <- at, asked <- frames

-----------------------------------------------------------------------------
(* One or two questions of every type, with one to three options, repeated *)
(* or not; with the request schema loaded or not; and fixtures whose       *)
(* answers hold, or break one rule each.                                   *)
Scheme == INSTANCE SystemOne WITH Requests <- {}, Profiles <- {}, Fixtures <- {}
Q(type, options) == [type |-> type, options |-> options]
AB == Q("choice", <<"a", "b">>)
Scored == Q("score", <<"x", "y", "z">>)
Alone == {AB, Scored, Q("noul", <<>>), Q("choice", <<"a", "b", "c">>), Q("choice", <<"a">>),
          Q("choice", <<"a", "b", "a">>), Q("choice", <<"a", "a">>), Q("score", <<"x">>),
          Q("score", <<"x", "x">>), Q("other", <<>>)}
QuestionMaps ==
  {[k \in {"q1"} |-> q] : q \in Alone}
    \cup {[k \in {"q1", "q2"} |-> IF k = "q1" THEN AB ELSE q] : q \in {Scored, Q("noul", <<>>), Q("choice", <<"a">>)}}
Rejected(qs) == \E k \in DOMAIN qs : ~Scheme!SchemaAccepts(qs[k])
JudgeRequests ==
  {[faults |-> IF Rejected(qs) THEN {"invalid"} ELSE {}, questions |-> qs] : qs \in QuestionMaps}
    \cup {[faults |-> {}, questions |-> qs] : qs \in QuestionMaps}
    \cup [faults : {{"auth", "no_model"}, {"unreadable"}, {"malformed"}, {"no_model"}}, questions : {[k \in {"q1"} |-> AB]}]

JudgeProfiles ==
  [backend : {"lorem", "fixture", "faker", "ollama-logprob"}, errorType : {"none"}]
    \cup [backend : {"error"}, errorType : {"authentication", "permission", "invalid_request",
                                           "rate_limit", "overloaded", "server_error"}]

Good == [Scheme!Blank EXCEPT !.type = "choice", !.choice = "a", !.confidence = 40,
                      !.probabilities = [o \in {"a", "b"} |-> IF o = "a" THEN 40 ELSE 20]]
Scores == [Scheme!Blank EXCEPT !.type = "score", !.score = 60, !.legend = {"0", "1", "2"}, !.confidence = 20,
                        !.probabilities = [l \in {"0", "1", "2"} |-> 20]]
FixtureAnswers ==
  {Good, Scores, [Good EXCEPT !.choice = "b"], [Good EXCEPT !.choice = "z"], [Good EXCEPT !.confidence = Scheme!Missing],
   [Good EXCEPT !.probabilities["b"] = 30], [Good EXCEPT !.probabilities = [o \in {"a"} |-> 60]],
   [Good EXCEPT !.probabilities = [o \in {"a", "b", "z"} |-> IF o = "a" THEN 40 ELSE 10]],
   [Scores EXCEPT !.score = 30], [Scores EXCEPT !.legend = {"0"}], [Good EXCEPT !.type = "noul"],
   [Scheme!Blank EXCEPT !.type = "noul", !.noul = 61], [Scheme!Blank EXCEPT !.type = "noul", !.noul = 60]}
Fixture(match, template, code, body, as) ==
  [match |-> match, template |-> template, status |-> code, body |-> body, answers |-> as]
JudgeFixtures ==
  {Fixture(how, "none", 200, "text", Scheme!NoAnswers) : how \in {"none", "exhausted", "failed"}}
    \cup {Fixture("found", t, s, b, [k \in {"q1"} |-> Good]) : t \in {"none", "ok", "bad"}, s \in {201, 429, 502}, b \in {"text", "opaque"}}
    \cup {Fixture("found", "none", 200, "text", [k \in {"q1"} |-> a]) : a \in FixtureAnswers}
    \cup {Fixture("found", "none", 200, "text", [k \in {"q1", "q2"} |-> IF k = "q1" THEN Good ELSE a]) : a \in FixtureAnswers}

Judge == INSTANCE SystemOne WITH
  Requests <- JudgeRequests, Profiles <- JudgeProfiles, Fixtures <- JudgeFixtures

-----------------------------------------------------------------------------
Routes == {"openai", "anthropic", "gemini", "ollama", "post", "systemone", "socket"}

NoExchange ==
  /\ req = "none" /\ profile = "none" /\ fixture = "none" /\ pc = "done"
  /\ text = Scheme!NoText /\ todo = <<>> /\ alive = TRUE
  /\ reply = [status |-> 0, media |-> "none", zolem |-> FALSE, frames |-> <<>>]
  /\ used = [s \in Scheme!Sources |-> 0]
NoJudgment == left = {} /\ answers = Scheme!NoAnswers /\ asked = <<>> /\ verdict = "none"

AnyInit ==
  /\ route \in Routes
  /\ CASE route = "openai"    -> OpenAI!ExchangeInit /\ NoJudgment
       [] route = "anthropic" -> Anthropic!ExchangeInit /\ NoJudgment
       [] route = "gemini"    -> Gemini!ExchangeInit /\ NoJudgment
       [] route = "ollama"    -> Ollama!ExchangeInit /\ NoJudgment
       [] route = "post"      -> Post!ExchangeInit /\ NoJudgment
       [] route = "systemone" -> Judge!Init
       [] route = "socket"    -> NoExchange /\ NoJudgment
  /\ Socket!Init
  /\ route = "socket" \/ (open = (CHOOSE o \in SocketOpens : TRUE) /\ backend = "fixture")

AnyNext ==
  /\ UNCHANGED route
  /\ \/ /\ \/ route = "openai" /\ OpenAI!Next
           \/ route = "anthropic" /\ Anthropic!Next
           \/ route = "gemini" /\ Gemini!Next
           \/ route = "ollama" /\ Ollama!Next
           \/ route = "post" /\ Post!Next
        /\ UNCHANGED <<jvars, wvars>>
     \/ route = "systemone" /\ Judge!Next /\ UNCHANGED wvars
     \/ route = "socket" /\ Socket!Next /\ UNCHANGED <<xvars, jvars>>
AnySpec == AnyInit /\ [][AnyNext]_<<route, xvars, jvars, wvars>>

-----------------------------------------------------------------------------
(* An answer has one source, and a request that is refused or forced to    *)
(* fail reaches none (the order of the checks in every handler).           *)
OneSource ==
  CASE route = "openai"    -> OpenAI!OneSource
    [] route = "anthropic" -> Anthropic!OneSource
    [] route = "gemini"    -> Gemini!OneSource
    [] route = "ollama"    -> Ollama!OneSource
    [] route = "post"      -> Post!OneSource
    [] route = "systemone" -> Judge!OneSource
    [] route = "socket"    -> TRUE

(* Whatever the protocol, a client that stays gets a whole reply, or the   *)
(* whole text and its protocol's mark of the end, or an error and no mark. *)
Phase ==
  CASE route = "openai"    -> OpenAI!Phase
    [] route = "anthropic" -> Anthropic!Phase
    [] route = "gemini"    -> Gemini!Phase
    [] route = "ollama"    -> Ollama!Phase
    [] OTHER               -> IF reply.status = 0 THEN "waiting" ELSE "whole"
Contract == INSTANCE ReplyContract WITH
  phase <- Phase, status <- reply.status, sent <- Scheme!Sent
KeepsContract == Contract!ReplySpec

(* A reply is well-formed in its own protocol: the deltas that OpenAI's    *)
(* usage counts, the blocks of Anthropic's messages, the array of Gemini's *)
(* chunks, the errors of Gemini's and Ollama's streams, and the response   *)
(* that completes a fixture of events.                                     *)
WellFormed ==
  CASE route = "openai"    -> OpenAI!UsageCountsDeltas
    [] route = "anthropic" -> Anthropic!BlocksNest
    [] route = "gemini"    -> Gemini!ArrayIsClosed /\ Gemini!EarlyFailureHasStatus
    [] route = "ollama"    -> Ollama!EarlyFailureHasStatus
    [] route = "post"      -> Post!ServesLastCompleted
    [] OTHER               -> TRUE

JudgmentsHold  == route = "systemone" => Judge!JudgmentsHold
SocketInOrder  == route = "socket" => Socket!RecordIsExact /\ Socket!EventsInOrder
=============================================================================
