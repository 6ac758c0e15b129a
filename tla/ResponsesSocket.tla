--------------------------- MODULE ResponsesSocket ---------------------------
(***************************************************************************)
(* GET /v1/responses (internal/provider/openai/responses_ws.go): one       *)
(* WebSocket connection whose requests are answered one after another, and *)
(* the counts of its frames that the recording middleware reads when the   *)
(* handler has returned (runtime/websocket_recording.go).                  *)
(*                                                                         *)
(* The client pipelines frames, and the connection may fail at any time,   *)
(* which the handler learns from its next read or write.  An event is its  *)
(* type and sequence number.                                               *)
(***************************************************************************)
EXTENDS Naturals, Sequences, FiniteSets

CONSTANTS Opens,     (* [forced, auth, handshake]: how connections begin   *)
          Backends,
          Answers,   (* what Match and rendering give a request: [kind, events] *)
          MaxFrames  (* bound on the frames the client sends               *)

VARIABLES open, backend,
  pc,        (* "start", "read", "write", "returned", "recorded"           *)
  status,    (* of the HTTP reply; 101 when upgraded                       *)
  inbox,     (* frames on their way to the handler                         *)
  asked,     (* history: the frames the client has sent                    *)
  events,    (* the events to be written for the current request           *)
  wire,      (* history: the events written to the connection              *)
  source,    (* history: what each answer came from                        *)
  broken,    (* the connection is gone                                     *)
  received, sent,   (* WebSocketStats                                      *)
  record     (* what the middleware recorded                               *)

vars == <<open, backend, pc, status, inbox, asked, events, wire, source, broken, received, sent, record>>
handler == <<pc, status, events, source, received, sent, record>>

Kinds == {"create", "prewarm", "other", "malformed", "binary"}
Event(type, n) == [type |-> type, n |-> n]
Numbered(types) == [i \in DOMAIN types |-> Event(types[i], i - 1)]

prewarmResponseEvents == Numbered(<<"response.created", "response.completed">>)
textResponseEvents ==
  Numbered(<<"response.created", "response.output_item.added", "response.output_text.delta",
             "response.output_text.done", "response.output_item.done", "response.completed">>)
responseFailedEvents == Numbered(<<"response.failed">>)

Init ==
  /\ open \in Opens /\ backend \in Backends
  /\ pc = "start" /\ status = 0 /\ inbox = <<>> /\ asked = <<>> /\ events = <<>> /\ wire = <<>>
  /\ source = <<>> /\ broken = FALSE /\ received = 0 /\ sent = 0
  /\ record = [kind |-> "none", sent |-> 0, received |-> 0]

ClientSends(kind) ==
  /\ status = 101 /\ ~broken /\ Len(asked) < MaxFrames
  /\ inbox' = Append(inbox, kind) /\ asked' = Append(asked, kind)
  /\ UNCHANGED <<open, backend, events, wire, broken, pc, status, source, received, sent, record>>
Break ==
  /\ status = 101 /\ ~broken /\ broken' = TRUE
  /\ UNCHANGED <<open, backend, inbox, asked, wire, handler>>

validResponsesAuthorization == open.auth = "Bearer sk-test"
(* A forced error and a wrong key come before the upgrade, which writes    *)
(* its own error.                                                          *)
Refuse ==
  /\ pc = "start"
  /\ \/ open.forced # 0 /\ status' = open.forced
     \/ open.forced = 0 /\ ~validResponsesAuthorization /\ status' = 403
     \/ open.forced = 0 /\ validResponsesAuthorization /\ open.handshake = "bad" /\ status' = 400
  /\ pc' = "returned"
  /\ UNCHANGED <<open, backend, inbox, asked, events, wire, source, broken, received, sent, record>>
Upgrade ==
  /\ pc = "start" /\ open.forced = 0 /\ validResponsesAuthorization /\ open.handshake = "good"
  /\ status' = 101 /\ pc' = "read"
  /\ UNCHANGED <<open, backend, inbox, asked, events, wire, source, broken, received, sent, record>>

UsesFixtures == backend \in {"fixture", "hybrid"}
(* Fixtures, or the generator: no other backend is asked.                  *)
responseCreateEvents(answer) ==
  IF ~UsesFixtures \/ answer.kind = "nothing"
    THEN /\ events' = textResponseEvents /\ source' = Append(source, "generator")
    ELSE IF answer.kind \in {"exhausted", "selection_failed", "render_failed", "no_array"}
    THEN /\ events' = responseFailedEvents /\ source' = Append(source, "failure")
    ELSE /\ events' = answer.events /\ source' = Append(source, "fixture")

Received(kind) == received' = IF kind = "binary" THEN received ELSE received + 1
Answer(kind) ==
  CASE kind = "prewarm" -> /\ events' = prewarmResponseEvents
                           /\ source' = Append(source, "prewarm") /\ pc' = "write"
    [] kind = "create"  -> (\E a \in Answers : responseCreateEvents(a)) /\ pc' = "write"
    [] OTHER            -> UNCHANGED <<events, source, pc>>
(* Anything but a request is passed over; only text is counted.            *)
Read ==
  /\ pc = "read" /\ inbox # <<>>
  /\ inbox' = Tail(inbox)
  /\ Received(Head(inbox)) /\ Answer(Head(inbox))
  /\ UNCHANGED <<open, backend, asked, wire, broken, status, sent, record>>
ReadFails ==
  /\ pc = "read" /\ broken
  /\ pc' = "returned"
  /\ UNCHANGED <<open, backend, inbox, asked, events, wire, source, broken, status, received, sent, record>>

(* Mutant: a frame is counted before it is written.                        *)
CountsFirst ==
  /\ pc = "write" /\ events # <<>>
  /\ sent' = sent + 1
  /\ \/ ~broken /\ wire' = Append(wire, Head(events)) /\ events' = Tail(events) /\ pc' = pc
     \/ broken /\ pc' = "returned" /\ UNCHANGED <<wire, events>>
  /\ UNCHANGED <<open, backend, inbox, asked, source, broken, status, received, record>>
(* A write to a broken connection fails and ends the connection; one that  *)
(* succeeds is counted.                                                    *)
writeResponseEvents ==
  /\ pc = "write" /\ events # <<>>
  /\ \/ /\ ~broken /\ wire' = Append(wire, Head(events)) /\ events' = Tail(events)
        /\ sent' = sent + 1 /\ pc' = pc
     \/ broken /\ pc' = "returned" /\ UNCHANGED <<wire, events, sent>>
  /\ UNCHANGED <<open, backend, inbox, asked, source, broken, status, received, record>>
Written ==
  /\ pc = "write" /\ events = <<>>
  /\ pc' = "read"
  /\ UNCHANGED <<open, backend, inbox, asked, events, wire, source, broken, status, received, sent, record>>

(* recordingMiddleware after the handler.                                  *)
Record ==
  /\ pc = "returned"
  /\ pc' = "recorded"
  /\ record' = [kind |-> IF status = 101 THEN "ws" ELSE "http", sent |-> sent, received |-> received]
  /\ UNCHANGED <<open, backend, inbox, asked, events, wire, source, broken, status, received, sent>>

Handler == Refuse \/ Upgrade \/ Read \/ ReadFails \/ writeResponseEvents \/ Written \/ Record
Done == pc = "recorded" /\ UNCHANGED vars
Next == Handler \/ (\E k \in Kinds : ClientSends(k)) \/ Break \/ Done
Spec == Init /\ [][Next]_vars

-----------------------------------------------------------------------------

(* The record of a connection tells exactly the frames written to it and   *)
(* the text frames the handler read, however the connection ended          *)
(* (RecordWebSocketFrameSent, RecordWebSocketFrameReceived).               *)
RecordIsExact ==
  pc = "recorded" /\ status = 101 =>
    /\ record.kind = "ws" /\ record.sent = Len(wire)
    /\ record.received =
         Cardinality({i \in 1..(Len(asked) - Len(inbox)) : asked[i] # "binary"})

(* The client never sees the events of two responses mixed: every event    *)
(* follows its predecessor or begins a response, and a response begins     *)
(* only when the last one is over.                                         *)
EventsInOrder ==
  \A i \in DOMAIN wire :
    IF i = 1 THEN wire[i].n = 0
    ELSE \/ wire[i].n = wire[i - 1].n + 1
         \/ wire[i].n = 0 /\ wire[i - 1].type \in {"response.completed", "response.failed"}
=============================================================================
