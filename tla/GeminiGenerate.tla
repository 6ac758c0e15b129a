--------------------------- MODULE GeminiGenerate ---------------------------
(***************************************************************************)
(* POST /v1/models/<model>:<action> (internal/provider/gemini: handler.go, *)
(* sse.go, tools.go, count_tokens.go, errors.go).  The action decides      *)
(* whether to stream and the alt parameter how: as events, or as the       *)
(* elements of one JSON array, whose status and "[" wait for the first     *)
(* element.  The last chunk carries STOP and the usage.                    *)
(***************************************************************************)
EXTENDS Exchange

AuthChecks == <<[fault |-> "auth", status |-> 403], [fault |-> "unreadable", status |-> 400]>>
Checks == AuthChecks \o
  <<[fault |-> "invalid", status |-> 400], [fault |-> "malformed", status |-> 400],
    [fault |-> "no_contents", status |-> 400]>>
CountChecks == AuthChecks \o
  <<[fault |-> "malformed", status |-> 400], [fault |-> "no_contents", status |-> 400]>>

writeForcedProfileError ==
  [e \in {"authentication", "permission", "invalid_request", "rate_limit", "overloaded",
          "server_error"} |->
     CASE e \in {"authentication", "permission"} -> 403
       [] e = "invalid_request" -> 400 [] e = "rate_limit" -> 429
       [] e = "overloaded" -> 503 [] e = "server_error" -> 500]

Generates == req.action \in {"generateContent", "streamGenerateContent"}
Streams   == req.action = "streamGenerateContent"
Media     == IF req.alt = "sse" THEN "sse" ELSE "array"

(* Mode ANY calls the first declared function that is allowed.             *)
geminiToolCallRequired ==
  IF req.choice.mode # "ANY" THEN "none"
  ELSE PickTool(req.tools, IF req.choice.name = "any" THEN {} ELSE {req.choice.name})

(* The part after the last colon of the path; without one nothing is found. *)
handleCatchAll ==
  /\ At("start") /\ ~Generates /\ req.action # "countTokens"
  /\ Body(404, FALSE, -1)
  /\ UNCHANGED <<req, profile, fixture, text, todo, used, alive>>

handleCountTokens ==
  /\ req.action = "countTokens"
  /\ \/ Force(writeForcedProfileError)
     \/ Refuse(CountChecks)
     \/ /\ At("start") /\ ~Forced /\ ~Faulty(CountChecks)
        /\ Body(200, FALSE, -1)
        /\ UNCHANGED <<req, profile, fixture, text, todo, used, alive>>

handleGenerate ==
  /\ Generates
  /\ Force(writeForcedProfileError) \/ Refuse(Checks) \/ Admit(Checks)
renderFixtureBody == Match(500) \/ RenderBody

(* The sinks.  Only the array is closed, and a failure before its first    *)
(* element is an error response of its own.                                *)
close == IF Media = "array" THEN <<Plain("]")>> ELSE <<>>
(* Mutant: a failure looks like the end.                                  *)
failSilently == Finish(<<Frame("STOP", FALSE, Sent)>> \o close)
fail ==
  IF Media = "array" /\ reply.status = 0
    THEN Body(502, FALSE, -1) /\ UNCHANGED <<req, profile, fixture, text, todo, used, alive>>
    ELSE Finish(<<Plain("error")>> \o close)

(* Without candidates the body is served as it is.  A fixture that is      *)
(* streamed loses its status and its function calls.                       *)
serveFixture ==
  /\ At("serve")
  /\ IF ~Streams \/ fixture.body = "opaque" THEN Verbatim ELSE OpenFixture(<<>>)

streamResponse ==
  /\ At("fixture_stream")
  /\ \/ BackendHasMore /\ Sent + 1 < Len(text.chunks) /\ StreamWrite(Frame("chunk", TRUE, 0), Media)
     \/ /\ BackendHasMore /\ Sent + 1 = Len(text.chunks)
        /\ StreamWrite(Frame("STOP", TRUE, CountNonEmpty(text)), Media)
     \/ DelayMayFail /\ Finish(close)
     \/ BackendEnds /\ Finish((IF text.chunks = <<>> THEN <<Frame("STOP", FALSE, 0)>> ELSE <<>>) \o close)

streamFunctionCallContent ==
  /\ todo' = <<Frame("STOP", TRUE, 1)>> \o close
  /\ pc' = "done" /\ UNCHANGED reply
serveGeminiFunctionCallResponse ==
  /\ At("route") /\ geminiToolCallRequired # "none"
  /\ Use("tool") /\ text' = Words(1)
  /\ IF Streams
       THEN streamFunctionCallContent
       ELSE Body(200, FALSE, 1) /\ UNCHANGED todo
  /\ UNCHANGED <<req, profile, fixture, alive>>

generate ==
  /\ At("route") /\ geminiToolCallRequired = "none"
  /\ IF Streams THEN OpenBackend(<<>>) ELSE Tokens(502)

streamGenerateContent ==
  /\ At("stream")
  /\ \/ BackendHasMore /\ StreamWrite(Frame("chunk", TRUE, 0), Media)
     \/ BackendMayFail /\ fail
     \/ BackendEnds /\ Finish(<<Frame("STOP", FALSE, Sent)>> \o close)

Handle == handleCatchAll \/ handleCountTokens \/ handleGenerate \/ renderFixtureBody
            \/ serveFixture \/ streamResponse \/ serveGeminiFunctionCallResponse \/ generate
            \/ streamGenerateContent \/ WriteNext(Media)
Done == Finished /\ UNCHANGED vars
Next == Handle \/ ClientLeaves \/ Done
Spec == ExchangeInit /\ [][Next]_vars

-----------------------------------------------------------------------------
Has(kind) == \E i \in DOMAIN reply.frames : reply.frames[i].kind = kind
Phase ==
  IF reply.status = 0 THEN "waiting"
  ELSE IF reply.media = "json" THEN "whole"
  ELSE IF Has("error") THEN "failed"
  ELSE IF Has("STOP") THEN "complete"
  ELSE IF Finished THEN "cut" ELSE "streaming"

(* Refusals come before every source of an answer, and fixtures, tools and *)
(* backends exclude each other (handleGenerate, in its order); counting    *)
(* tokens asks none of them.                                               *)
OneSource ==
  /\ Generates => HasOneSource(Checks)
  /\ ~Generates => \A s \in Sources : used[s] = 0

(* The array that a client has at the end is a JSON array, closed once and *)
(* last, whether the stream succeeded, failed or was left (jsonArraySink). *)
ArrayIsClosed ==
  /\ reply.media = "array" /\ Finished => reply.frames[Len(reply.frames)].kind = "]"
  /\ \A i \in DOMAIN reply.frames : reply.frames[i].kind = "]" => i = Len(reply.frames)

(* A failure before the first element is told by the status, never inside  *)
(* an array that says 200 (jsonArraySink.fail).                            *)
EarlyFailureHasStatus ==
  reply.media = "array" => reply.frames[1].kind # "error"
=============================================================================
