----------------------------- MODULE OpenAIChat -----------------------------
(***************************************************************************)
(* POST /v1/chat/completions (internal/provider/openai: handler.go, sse.go, *)
(* tools.go, errors.go).  A stream is a role chunk, the deltas, a stop     *)
(* chunk, a usage chunk if it is asked for, and "[DONE]"; a failure is an  *)
(* error chunk and no "[DONE]".                                            *)
(***************************************************************************)
EXTENDS Exchange

Checks == <<[fault |-> "auth", status |-> 401], [fault |-> "unreadable", status |-> 400],
            [fault |-> "invalid", status |-> 400], [fault |-> "malformed", status |-> 400],
            [fault |-> "no_model", status |-> 400]>>

writeForcedProfileError ==
  [e \in {"authentication", "permission", "invalid_request", "rate_limit", "overloaded",
          "server_error"} |->
     CASE e = "authentication" -> 401 [] e = "permission" -> 403
       [] e = "invalid_request" -> 400 [] e = "rate_limit" -> 429
       [] e = "overloaded" -> 503 [] e = "server_error" -> 500]

toolChoiceRequiresCall == req.choice.mode \in {"required", "function"}
pickTool ==
  PickTool(req.tools, IF req.choice.mode = "function" /\ req.choice.name # "any"
                        THEN {req.choice.name} ELSE {})
CallsTool == toolChoiceRequiresCall /\ pickTool # "none"

(* Mutant: the fixtures are asked before the request is checked.           *)
FixturesFirst ==
  /\ At("start")
  /\ IF UsesFixtures THEN pc' = "select" /\ UNCHANGED reply
     ELSE IF Faulty(Checks) THEN Body(Checks[FirstFault(Checks)].status, FALSE, -1)
     ELSE pc' = "route" /\ UNCHANGED reply
  /\ UNCHANGED <<req, profile, fixture, text, todo, used, alive>>
handleChatCompletions == Force(writeForcedProfileError) \/ Refuse(Checks) \/ Admit(Checks)
renderFixtureBody == Match(500) \/ RenderBody

Opening == <<Plain("role")>>
UsageChunk(n) == IF req.usage THEN <<Frame("usage", FALSE, n)>> ELSE <<>>
Closing(n) == <<Plain("stop")>> \o UsageChunk(n) \o <<Plain("[DONE]")>>

(* Without choices the body is served as it is even to a stream; with them *)
(* the fixture's status is not sent, nor are its tool calls.               *)
serveFixture ==
  /\ At("serve")
  /\ IF ~req.stream \/ fixture.body = "opaque" THEN Verbatim ELSE OpenFixture(Opening)

streamResponse ==
  /\ At("fixture_stream")
  /\ \/ BackendHasMore /\ StreamWrite(Frame("delta", TRUE, -1), "sse")
     \/ DelayMayFail /\ Finish(<<>>)
     \/ BackendEnds /\ Finish(Closing(CountNonEmpty(text)))

streamToolCallCompletions ==
  /\ todo' = Opening \o <<Frame("tool_calls", TRUE, -1)>> \o Closing(1)
  /\ pc' = "done" /\ UNCHANGED reply
serveToolCallResponse ==
  /\ At("route") /\ CallsTool
  /\ Use("tool") /\ text' = Words(1)
  /\ IF req.stream
       THEN streamToolCallCompletions
       ELSE Body(200, FALSE, 1) /\ UNCHANGED todo
  /\ UNCHANGED <<req, profile, fixture, alive>>

generate ==
  /\ At("route") /\ ~CallsTool
  /\ IF req.stream THEN OpenBackend(Opening) ELSE Tokens(502)

streamChatCompletions ==
  /\ At("stream")
  /\ \/ BackendHasMore /\ StreamWrite(Frame("delta", TRUE, -1), "sse")
     \/ BackendMayFail /\ Finish(<<Plain("error")>>)
     \/ BackendEnds /\ Finish(Closing(Sent))

Handle == handleChatCompletions \/ renderFixtureBody \/ serveFixture \/ streamResponse
            \/ serveToolCallResponse \/ generate \/ streamChatCompletions \/ WriteNext("sse")
Done == Finished /\ UNCHANGED vars
Next == Handle \/ ClientLeaves \/ Done
Spec == ExchangeInit /\ [][Next]_vars

-----------------------------------------------------------------------------
Phase ==
  IF reply.status = 0 THEN "waiting"
  ELSE IF reply.media = "json" THEN "whole"
  ELSE IF reply.frames[Len(reply.frames)].kind = "error" THEN "failed"
  ELSE IF reply.frames[Len(reply.frames)].kind = "[DONE]" THEN "complete"
  ELSE IF Finished THEN "cut" ELSE "streaming"

(* Refusals come before every source of an answer, and fixtures, tools and *)
(* backends exclude each other (handleChatCompletions, in its order).         *)
OneSource == HasOneSource(Checks)

(* A usage chunk tells how many deltas went before it, empty ones included, *)
(* since streamChatCompletions counts callbacks.                           *)
UsageCountsDeltas ==
  \A i \in DOMAIN reply.frames :
    reply.media = "sse" /\ reply.frames[i].usage >= 0 => reply.frames[i].usage = Sent
=============================================================================
