------------------------------ MODULE Exchange ------------------------------
(***************************************************************************)
(* What the handlers of all providers have in common: one request, the     *)
(* profile of its listener, the reply written so far, and the steps from   *)
(* the checks of the request to the source of its answer (a fixture, a     *)
(* synthesized tool call, or a content backend, internal/provider/backend). *)
(*                                                                         *)
(* A frame is one write that reaches the client.  It carries a chunk of    *)
(* the text or not, and a token count or not (-1).                         *)
(***************************************************************************)
EXTENDS Integers, Sequences, FiniteSets

CONSTANTS Requests,   (* [faults, stream, usage, choice, tools]            *)
          Profiles,   (* [backend, errorType, delay]                       *)
          Fixtures,   (* what Match finds: [match, template, status, body, words] *)
          MaxChunks   (* bound on a text's chunks and words (lorem makes 30)   *)

VARIABLES
  req, profile, fixture,
  pc,      (* what the handler does next                                   *)
  text,    (* [chunks, fails]: the text being answered with; 0 is an empty chunk *)
  reply,   (* [status, media, zolem, frames] as the client sees it         *)
  todo,    (* frames the handler is about to write                         *)
  used,    (* how often it has called each source                          *)
  alive    (* the client is there: the request's context is not done       *)

vars == <<req, profile, fixture, pc, text, reply, todo, used, alive>>

Sources == {"match", "render", "tool", "backend"}
NoText  == [chunks |-> <<>>, fails |-> FALSE]
Words(n) == [chunks |-> [i \in 1..n |-> 1], fails |-> FALSE]
Frame(kind, piece, usage) == [kind |-> kind, piece |-> piece, usage |-> usage]
Plain(kind) == Frame(kind, FALSE, -1)
CountNonEmpty(t) == Cardinality({i \in DOMAIN t.chunks : t.chunks[i] = 1})

ExchangeInit ==
  /\ req \in Requests /\ profile \in Profiles /\ fixture \in Fixtures
  /\ pc = "start" /\ text = NoText /\ todo = <<>> /\ alive = TRUE
  /\ reply = [status |-> 0, media |-> "none", zolem |-> FALSE, frames |-> <<>>]
  /\ used = [s \in Sources |-> 0]

Sent == Cardinality({i \in DOMAIN reply.frames : reply.frames[i].piece})
Finished == pc = "done" /\ todo = <<>>

(* The first write sends the status.                                       *)
Written(frame, media) ==
  [status |-> IF reply.status = 0 THEN 200 ELSE reply.status,
   media  |-> IF reply.media = "none" THEN media ELSE reply.media,
   zolem  |-> reply.zolem, frames |-> Append(reply.frames, frame)]
(* A whole JSON body with its status.                                      *)
Body(status, zolem, usage) ==
  /\ reply' = [status |-> status, media |-> "json", zolem |-> zolem,
               frames |-> <<Frame("body", FALSE, usage)>>]
  /\ pc' = "done"
At(step) == pc = step /\ todo = <<>>
Use(source) == used' = [used EXCEPT ![source] = @ + 1]

ClientLeaves ==
  /\ alive /\ ~Finished /\ alive' = FALSE
  /\ UNCHANGED <<req, profile, fixture, pc, text, reply, todo, used>>

WriteNext(media) ==
  /\ todo # <<>>
  /\ reply' = Written(Head(todo), media)
  /\ todo' = Tail(todo)
  /\ UNCHANGED <<req, profile, fixture, pc, text, used, alive>>

-----------------------------------------------------------------------------
(* The request's checks, given as a sequence [fault, status].              *)

Faulty(checks) == \E i \in DOMAIN checks : checks[i].fault \in req.faults
FirstFault(checks) ==
  CHOOSE i \in DOMAIN checks :
    /\ checks[i].fault \in req.faults
    /\ \A j \in 1..(i - 1) : checks[j].fault \notin req.faults

Forced == profile.backend = "error" /\ profile.errorType # "none"
UsesFixtures == profile.backend \in {"fixture", "hybrid"}

Force(statusOf) ==
  /\ At("start") /\ Forced
  /\ Body(statusOf[profile.errorType], FALSE, -1)
  /\ UNCHANGED <<req, profile, fixture, text, todo, used, alive>>

Refuse(checks) ==
  /\ At("start") /\ ~Forced /\ Faulty(checks)
  /\ Body(checks[FirstFault(checks)].status, FALSE, -1)
  /\ UNCHANGED <<req, profile, fixture, text, todo, used, alive>>

Admit(checks) ==
  /\ At("start") /\ ~Forced /\ ~Faulty(checks)
  /\ pc' = IF UsesFixtures THEN "select" ELSE "route"
  /\ UNCHANGED <<req, profile, fixture, text, reply, todo, used, alive>>

-----------------------------------------------------------------------------
(* Fixtures.  An exhausted sequence is answered by the provider, any other *)
(* failure of the selection or of the template by zolem itself.            *)

Match(exhaustedStatus) ==
  /\ At("select")
  /\ Use("match")
  /\ CASE fixture.match = "none"      -> pc' = "route" /\ UNCHANGED reply
       [] fixture.match = "found"     -> pc' = "render" /\ UNCHANGED reply
       [] fixture.match = "exhausted" -> Body(exhaustedStatus, TRUE, -1)
       [] fixture.match = "failed"    -> Body(502, TRUE, -1)
  /\ UNCHANGED <<req, profile, fixture, text, todo, alive>>

(* The number of the rendering is taken before it is known to succeed.     *)
RenderBody ==
  /\ At("render")
  /\ IF fixture.template = "none" THEN UNCHANGED used ELSE Use("render")
  /\ IF fixture.template = "bad" THEN Body(502, TRUE, -1)
     ELSE pc' = "serve" /\ UNCHANGED reply
  /\ UNCHANGED <<req, profile, fixture, text, todo, alive>>

Verbatim ==
  /\ Body(fixture.status, FALSE, -1)
  /\ UNCHANGED <<req, profile, fixture, text, todo, used, alive>>

-----------------------------------------------------------------------------
(* Content backends.                                                       *)

Texts == [chunks : UNION {[1..n -> 0..1] : n \in 0..MaxChunks}, fails : BOOLEAN]

(* Resolve, and what the backend it chooses may produce: the generator     *)
(* always its fixed number of words, the upstream any words and a failure  *)
(* at any time, a module any strings or nothing at all.                    *)
Generation ==
  CASE profile.backend = "ollama" -> {t \in Texts : CountNonEmpty(t) = Len(t.chunks)}
    [] profile.backend = "wasm"   -> {t \in Texts : t.fails => t.chunks = <<>>}
    [] OTHER                      -> {Words(MaxChunks)}

(* Only the generator and a module are paced; the upstream's request dies  *)
(* with its client.                                                        *)
BackendMayFail ==
  \/ text.fails /\ Sent = Len(text.chunks)
  \/ ~alive /\ IF profile.backend = "ollama" THEN TRUE ELSE profile.delay /\ Sent > 0
BackendHasMore == Sent < Len(text.chunks)
BackendEnds == Sent = Len(text.chunks) /\ ~text.fails

(* ContentBackend.Tokens, in one piece.  The tokens are those of a stream, *)
(* save for the upstream's: its text is joined and split at white space,   *)
(* so that any chunks may make any number of words, or none (Tokenize).    *)
Tokens(errorStatus) ==
  /\ Use("backend")
  /\ \E t \in Generation, n \in 0..MaxChunks :
       /\ text' = t
       /\ profile.backend # "ollama" \/ t.chunks = <<>> => n = CountNonEmpty(t)
       /\ \/ (t.fails \/ (~alive /\ profile.backend = "ollama")) /\ Body(errorStatus, FALSE, -1)
          \/ ~t.fails /\ Body(200, FALSE, n)
  /\ UNCHANGED <<req, profile, fixture, todo, alive>>

(* A stream begins: the source is called and the preamble is due.          *)
OpenBackend(opening) ==
  /\ Use("backend")
  /\ text' \in Generation
  /\ pc' = "stream" /\ todo' = opening
  /\ UNCHANGED <<req, profile, fixture, reply, alive>>
OpenFixture(opening) ==
  /\ text' = Words(fixture.words)
  /\ pc' = "fixture_stream" /\ todo' = opening
  /\ UNCHANGED <<req, profile, fixture, reply, used, alive>>

StreamWrite(frame, media) ==
  /\ reply' = Written(frame, media)
  /\ UNCHANGED <<req, profile, fixture, pc, text, todo, used, alive>>
Finish(frames) ==
  /\ todo' = frames /\ pc' = "done"
  /\ UNCHANGED <<req, profile, fixture, text, reply, used, alive>>

(* A paced fixture's delay ends early when the client has gone.            *)
DelayMayFail == profile.delay /\ ~alive /\ Sent > 0

-----------------------------------------------------------------------------
(* Tools: a sequence of names; choice is a mode and a name, or "any".      *)
PickTool(tools, names) ==
  LET found == SelectSeq(tools, LAMBDA t : names = {} \/ t \in names)
  IN  IF found = <<>> THEN "none" ELSE found[1]

-----------------------------------------------------------------------------

(* A request that is forced to fail or has a fault cost nothing, and an    *)
(* answer has one source: a fixture that is found excludes tools and       *)
(* backends, and a tool call excludes the backend.                         *)
HasOneSource(checks) ==
  /\ used["render"] <= used["match"] /\ used["match"] <= 1
  /\ used["tool"] + used["backend"] <= 1
  /\ fixture.match # "none" /\ UsesFixtures => used["tool"] + used["backend"] = 0
  /\ Forced \/ Faulty(checks) => \A s \in Sources : used[s] = 0
=============================================================================
