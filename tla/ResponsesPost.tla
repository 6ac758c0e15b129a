---------------------------- MODULE ResponsesPost ----------------------------
(***************************************************************************)
(* POST /v1/responses (internal/provider/openai/responses_http.go): never  *)
(* streamed.  A fixture is the array of events that the WebSocket sends;   *)
(* the reply is the object of the last response.completed event.           *)
(*                                                                         *)
(* An input is a sequence of items; a string is one item of user text.     *)
(* fixture.array tells whether the body is an array of events.             *)
(***************************************************************************)
EXTENDS Exchange

Checks == <<[fault |-> "auth", status |-> 401], [fault |-> "unreadable", status |-> 400],
            [fault |-> "invalid", status |-> 400], [fault |-> "malformed", status |-> 400],
            [fault |-> "no_model", status |-> 400], [fault |-> "stream", status |-> 400]>>
Statuses ==
  [e \in {"authentication", "permission", "invalid_request", "rate_limit", "overloaded",
          "server_error"} |->
     CASE e = "authentication" -> 401 [] e = "permission" -> 403
       [] e = "invalid_request" -> 400 [] e = "rate_limit" -> 429
       [] e = "overloaded" -> 503 [] e = "server_error" -> 500]

handleResponsesPost == Force(Statuses) \/ Refuse(Checks) \/ Admit(Checks)
renderFixtureBody == Match(500) \/ RenderBody

Completed(events) ==
  LET c == {i \in DOMAIN events : events[i].type = "response.completed" /\ events[i].object}
  IN  IF c = {} THEN "none" ELSE events[CHOOSE i \in c : \A j \in c : i >= j].response

Serve(response) ==
  /\ reply' = [status |-> fixture.status, media |-> "json", zolem |-> FALSE,
               frames |-> <<Frame(response, FALSE, -1)>>]
  /\ pc' = "done"
serveResponsesFixture ==
  /\ At("serve")
  /\ IF fixture.status \notin 200..299 THEN Serve("body")
     ELSE IF ~fixture.array \/ Completed(fixture.events) = "none" THEN Body(502, TRUE, -1)
     ELSE Serve(Completed(fixture.events))
  /\ UNCHANGED <<req, profile, fixture, text, todo, used, alive>>

(* The role and text an item adds to the messages; what is "empty" is not  *)
(* there.                                                                  *)
Message(item) ==
  [role |-> CASE item.type = "function_call_output" -> "tool"
              [] item.role = "developer" /\ item.type \in {"empty", "message"} -> "system"
              [] item.role # "developer" /\ item.type \in {"empty", "message"} -> item.role
              [] OTHER -> "empty",
   text |-> item.text]
responsesInputMessages ==
  {i \in DOMAIN req.input : "empty" \notin {Message(req.input[i]).role, Message(req.input[i]).text}}

generate ==
  /\ At("route")
  /\ IF responsesInputMessages = {}
       THEN /\ Body(400, FALSE, -1)
            /\ UNCHANGED <<req, profile, fixture, text, todo, used, alive>>
       ELSE Tokens(502)

Handle == handleResponsesPost \/ renderFixtureBody \/ serveResponsesFixture \/ generate
Done == Finished /\ UNCHANGED vars
Next == Handle \/ ClientLeaves \/ Done
Spec == ExchangeInit /\ [][Next]_vars

-----------------------------------------------------------------------------

(* Refusals come before every source of an answer, and a request whose     *)
(* input has no usable text reaches no backend (handleResponsesPost).      *)
OneSource ==
  /\ HasOneSource(Checks)
  /\ used["backend"] > 0 => \E i \in DOMAIN req.input : req.input[i].text # "empty"

(* A fixture's success is the response of an event that no completed event *)
(* with an object follows (serveResponsesFixture).                         *)
ServesLastCompleted ==
  fixture.match = "found" /\ reply.status = 200 /\ used["match"] = 1 =>
    \E i \in DOMAIN fixture.events :
      /\ fixture.events[i].response = reply.frames[1].kind
      /\ fixture.events[i].type = "response.completed"
      /\ \A j \in DOMAIN fixture.events :
           j > i => ~(fixture.events[j].type = "response.completed" /\ fixture.events[j].object)
=============================================================================
