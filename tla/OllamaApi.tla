------------------------------ MODULE OllamaApi ------------------------------
(***************************************************************************)
(* POST /api/chat and POST /api/generate of the Ollama provider            *)
(* (internal/provider/ollama: handler.go, generate.go, ndjson.go,          *)
(* errors.go).  A stream is one object per delta and a last object with    *)
(* done and the counts; its headers wait for the first object, so that a   *)
(* failure before it is an error response and after it an object.          *)
(***************************************************************************)
EXTENDS Exchange

Checks == <<[fault |-> "unreadable", status |-> 400], [fault |-> "invalid", status |-> 400],
            [fault |-> "malformed", status |-> 400], [fault |-> "no_model", status |-> 400]>>

writeForcedProfileError ==
  [e \in {"authentication", "permission", "invalid_request", "rate_limit", "overloaded",
          "server_error"} |->
     CASE e = "authentication" -> 401 [] e = "permission" -> 403
       [] e = "invalid_request" -> 400 [] e = "rate_limit" -> 429
       [] e = "overloaded" -> 503 [] e = "server_error" -> 500]

streamRequested == req.stream # "false"      (* absent means true          *)
LoadsModel == req.endpoint = "generate" /\ req.prompt = "empty"

handleChat ==
  /\ req.endpoint = "chat"
  /\ Force(writeForcedProfileError) \/ Refuse(Checks) \/ Admit(Checks)

(* An empty prompt loads or unloads the model, before any fixture.        *)
Load ==
  /\ At("start") /\ ~Forced /\ ~Faulty(Checks)
  /\ Body(200, FALSE, -1)
  /\ UNCHANGED <<req, profile, fixture, text, todo, used, alive>>
handleGenerate ==
  /\ req.endpoint = "generate"
  /\ \/ Force(writeForcedProfileError)
     \/ Refuse(Checks)
     \/ LoadsModel /\ Load
     \/ ~LoadsModel /\ Admit(Checks)
renderFixtureBody == Match(500) \/ RenderBody

(* A body that is no reply of the endpoint is served as it is, and so is   *)
(* one for /api/generate whose status is not 2xx.                          *)
serveChatFixture ==
  /\ At("serve") /\ req.endpoint = "chat"
  /\ IF ~streamRequested \/ fixture.body = "opaque" THEN Verbatim ELSE OpenFixture(<<>>)
serveGenerateFixture ==
  /\ At("serve") /\ req.endpoint = "generate"
  /\ IF ~streamRequested \/ fixture.body = "opaque" \/ fixture.status \notin 200..299
       THEN Verbatim ELSE OpenFixture(<<>>)

WriteFails == ~alive
streamFixture ==
  /\ At("fixture_stream")
  /\ \/ BackendHasMore /\ StreamWrite(Frame("object", TRUE, -1), "ndjson")
     \/ BackendHasMore /\ WriteFails /\ Finish(<<>>)
     \/ DelayMayFail /\ Finish(<<>>)
     \/ BackendEnds /\ Finish(<<Frame("done", FALSE, -1)>>)

generate ==
  /\ At("route")
  /\ IF streamRequested THEN OpenBackend(<<>>) ELSE Tokens(500)

SendError500 ==
  /\ Body(500, FALSE, -1)
  /\ UNCHANGED <<req, profile, fixture, text, todo, used, alive>>
streamBackend ==
  /\ At("stream")
  /\ \/ BackendHasMore /\ StreamWrite(Frame("object", TRUE, -1), "ndjson")
     \/ BackendHasMore /\ WriteFails /\ Finish(<<Plain("error")>>)
     \/ BackendMayFail /\ IF reply.status = 0 THEN SendError500 ELSE Finish(<<Plain("error")>>)
     \/ BackendEnds /\ Finish(<<Frame("done", FALSE, CountNonEmpty(text))>>)

Handle == handleChat \/ handleGenerate \/ renderFixtureBody \/ serveChatFixture
            \/ serveGenerateFixture \/ streamFixture \/ generate \/ streamBackend
            \/ WriteNext("ndjson")
Done == Finished /\ UNCHANGED vars
Next == Handle \/ ClientLeaves \/ Done
Spec == ExchangeInit /\ [][Next]_vars

-----------------------------------------------------------------------------
Phase ==
  IF reply.status = 0 THEN "waiting"
  ELSE IF reply.media = "json" THEN "whole"
  ELSE IF reply.frames[Len(reply.frames)].kind = "error" THEN "failed"
  ELSE IF reply.frames[Len(reply.frames)].kind = "done" THEN "complete"
  ELSE IF Finished THEN "cut" ELSE "streaming"

(* Refusals and model loads come before every source of an answer, and     *)
(* fixtures and backends exclude each other (handleChat, handleGenerate).  *)
OneSource ==
  /\ HasOneSource(Checks)
  /\ LoadsModel => \A s \in Sources : used[s] = 0

(* A failure before the first object is told by the status, and an object  *)
(* never comes after one with done or an error (streamBackend).            *)
EarlyFailureHasStatus ==
  \A i \in DOMAIN reply.frames :
    /\ reply.frames[i].kind = "error" => i > 1 \/ ~alive
    /\ reply.frames[i].kind \in {"error", "done"} => i = Len(reply.frames)
=============================================================================
