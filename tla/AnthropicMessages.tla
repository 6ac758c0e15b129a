-------------------------- MODULE AnthropicMessages --------------------------
(***************************************************************************)
(* POST /v1/messages (internal/provider/anthropic: handler.go, sse.go,     *)
(* tools.go, errors.go).  A stream is message_start, one content block     *)
(* that is opened and closed, and message_stop; a failure is an error      *)
(* event and nothing after it.                                             *)
(***************************************************************************)
EXTENDS Exchange

Checks == <<[fault |-> "auth", status |-> 401], [fault |-> "unreadable", status |-> 400],
            [fault |-> "invalid", status |-> 400], [fault |-> "malformed", status |-> 400],
            [fault |-> "no_model", status |-> 400], [fault |-> "no_max_tokens", status |-> 400]>>

writeForcedProfileError ==
  [e \in {"authentication", "permission", "invalid_request", "rate_limit", "overloaded",
          "server_error"} |->
     CASE e = "authentication" -> 401 [] e = "permission" -> 403
       [] e = "invalid_request" -> 400 [] e = "rate_limit" -> 429
       [] e = "overloaded" -> 529 [] e = "server_error" -> 500]

toolChoiceRequiresCall == req.choice.mode \in {"any", "tool"}
pickAnthropicTool ==
  PickTool(req.tools, IF req.choice.mode = "tool" /\ req.choice.name # "any"
                        THEN {req.choice.name} ELSE {})
CallsTool == toolChoiceRequiresCall /\ pickAnthropicTool # "none"

handleMessages == Force(writeForcedProfileError) \/ Refuse(Checks) \/ Admit(Checks)
renderFixtureBody == Match(500) \/ RenderBody

Opening(block) == <<Plain("message_start"), Plain(block), Plain("ping")>>
Closing(n) == <<Plain("content_block_stop"), Frame("message_delta", FALSE, n), Plain("message_stop")>>

(* The input of a call is one delta, and none when it is empty.            *)
streamToolUseResponse(input, n) ==
  /\ text' = [chunks |-> input, fails |-> FALSE]
  /\ todo' = Opening("start_tool_use") \o [i \in DOMAIN input |-> Frame("input_json_delta", TRUE, -1)]
               \o Closing(n)
  /\ pc' = "done"

(* Only the first block is streamed; without one the body is served as it  *)
(* is.  A fixture that is streamed loses its status.                       *)
serveFixture ==
  /\ At("serve")
  /\ IF ~req.stream \/ fixture.body = "opaque" THEN Verbatim
     ELSE IF fixture.body = "tool"
            THEN /\ \E input \in {<<>>, <<1>>} : streamToolUseResponse(input, fixture.words)
                 /\ UNCHANGED <<req, profile, fixture, reply, used, alive>>
            ELSE OpenFixture(Opening("start_text"))

streamResponse ==
  /\ At("fixture_stream")
  /\ \/ BackendHasMore /\ StreamWrite(Frame("text_delta", TRUE, -1), "sse")
     \/ DelayMayFail /\ Finish(<<>>)
     \/ BackendEnds /\ Finish(Closing(CountNonEmpty(text)))

serveAnthropicToolCallResponse ==
  /\ At("route") /\ CallsTool
  /\ Use("tool")
  /\ IF req.stream
       THEN \E input \in {<<>>, <<1>>} : streamToolUseResponse(input, 1) /\ UNCHANGED reply
       ELSE Body(200, FALSE, 1) /\ UNCHANGED <<text, todo>>
  /\ UNCHANGED <<req, profile, fixture, alive>>

generate ==
  /\ At("route") /\ ~CallsTool
  /\ IF req.stream THEN OpenBackend(Opening("start_text")) ELSE Tokens(502)

(* Mutant: the block stays open.                                          *)
streamUnclosed ==
  /\ At("stream")
  /\ \/ BackendHasMore /\ StreamWrite(Frame("text_delta", TRUE, -1), "sse")
     \/ BackendMayFail /\ Finish(<<Plain("error")>>)
     \/ BackendEnds /\ Finish(Tail(Closing(Sent)))
streamMessages ==
  /\ At("stream")
  /\ \/ BackendHasMore /\ StreamWrite(Frame("text_delta", TRUE, -1), "sse")
     \/ BackendMayFail /\ Finish(<<Plain("error")>>)
     \/ BackendEnds /\ Finish(Closing(Sent))

Handle == handleMessages \/ renderFixtureBody \/ serveFixture \/ streamResponse
            \/ serveAnthropicToolCallResponse \/ generate \/ streamMessages \/ WriteNext("sse")
Done == Finished /\ UNCHANGED vars
Next == Handle \/ ClientLeaves \/ Done
Spec == ExchangeInit /\ [][Next]_vars

-----------------------------------------------------------------------------
Phase ==
  IF reply.status = 0 THEN "waiting"
  ELSE IF reply.media = "json" THEN "whole"
  ELSE IF reply.frames[Len(reply.frames)].kind = "error" THEN "failed"
  ELSE IF reply.frames[Len(reply.frames)].kind = "message_stop" THEN "complete"
  ELSE IF Finished THEN "cut" ELSE "streaming"

(* Refusals come before every source of an answer, and fixtures, tools and *)
(* backends exclude each other (handleMessages, in its order).         *)
OneSource == HasOneSource(Checks)

(* Deltas and counts stand where Anthropic's protocol wants them: deltas   *)
(* of the block's own kind, inside the one block that message_start has    *)
(* made room for and that is closed before message_delta; only an error    *)
(* may leave it open (every stream function of sse.go).                    *)
Kinds == [i \in DOMAIN reply.frames |-> reply.frames[i].kind]
Before(i, kind) == \E j \in 1..(i - 1) : Kinds[j] = kind
BlocksNest ==
  reply.media = "sse" => \A i \in DOMAIN reply.frames :
    /\ (Kinds[i] = "message_start") = (i = 1)
    /\ Kinds[i] = "text_delta" => Before(i, "start_text")
    /\ Kinds[i] = "input_json_delta" => Before(i, "start_tool_use")
    /\ reply.frames[i].piece => ~Before(i, "content_block_stop")
    /\ Kinds[i] \in {"message_delta", "message_stop"} => Before(i, "content_block_stop")
    /\ Kinds[i] = "message_stop" => Before(i, "message_delta")
    /\ ~Before(i, "error")
=============================================================================
