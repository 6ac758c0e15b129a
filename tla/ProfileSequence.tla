--------------------------- MODULE ProfileSequence ---------------------------
(***************************************************************************)
(* What a profile counts and how its streams are paced: ProfileCounters,   *)
(* shared by every listener of the control plane (internal/runtime), the   *)
(* pauses of StreamDelayForRequest (internal/runtime/store.go) and the     *)
(* renders of templated fixtures (internal/fixture/template.go).           *)
(*                                                                         *)
(* There is one profile name.  Its profile may be put again; a listener    *)
(* keeps the one it was created with, so two listeners can serve two       *)
(* versions of it over one counter.  Integers have a sign and Width bits,  *)
(* as int and time.Duration do; Tick is what a millisecond is multiplied   *)
(* by to make a duration.                                                  *)
(***************************************************************************)
EXTENDS Integers, Sequences, FiniteSets, Functions

CONSTANTS Requests,   (* goroutines that serve requests                    *)
          Listeners,  (* listener names                                    *)
          Delays,     (* what a PUT may say of stream_delay                *)
          Templates,  (* "fixed", "broken", "later": see Renders           *)
          Width, Tick,
          MaxRequests,(* bound on the requests counted, and on the renders *)
          MaxChunks,  (* bound on the pauses of one stream                 *)
          MaxPuts     (* bound on the PUTs of profile and listeners        *)

Top     == 2 ^ (Width - 1) - 1
Wrap(n) == ((n + Top + 1) % (2 ^ Width)) - Top - 1

VARIABLES
  profile,    (* the stored profile's stream_delay                         *)
  listener,   (* listener -> what it serves, its template, NoListener      *)
  counters,   (* ProfileSequence: [request, render]                        *)
  req,        (* request -> its locals                                     *)
  puts,       (* how many PUTs there were                                  *)
  arrivals,   (* history: ordinals handed out, in order                    *)
  renders     (* history: render numbers handed out, in order              *)

vars == <<profile, listener, counters, req, puts, arrivals, renders>>

(* The empty mode is "unset".                                              *)
NoDelay    == [mode |-> "unset", ms |-> 0, min |-> 0, max |-> 0, seed |-> 0]
NoListener == [up |-> FALSE, delay |-> NoDelay, template |-> "fixed"]
Idle       == [pc |-> "idle", on |-> NoListener, ordinal |-> 0, pauses |-> <<>>, body |-> "none"]

Init ==
  /\ profile = NoDelay
  /\ listener = [l \in Listeners |-> NoListener]
  /\ counters = [request |-> 0, render |-> 0]
  /\ req = [r \in Requests |-> Idle]
  /\ puts = 0 /\ arrivals = <<>> /\ renders = <<>>

validateStreamDelay(d) ==
  CASE d.mode = "unset"  -> d = NoDelay
    [] d.mode = "fixed"  -> d.ms >= 0 /\ d.min = 0 /\ d.max = 0 /\ d.seed = 0
    [] d.mode = "random" -> d.min >= 0 /\ d.max >= d.min /\ d.ms = 0
    [] OTHER             -> FALSE

(* A template's body for given sequence numbers: whether it is JSON.       *)
Renders(t, render) ==
  CASE t = "fixed" -> TRUE [] t = "broken" -> FALSE [] t = "later" -> render = 1

DelaysOK == \A d \in Delays : d.ms \in Int /\ d.min \in Int /\ d.max \in Int /\ d.seed \in Int

(* No accepted delay overflows when it is made a duration.                 *)
DelaysFit ==
  \A d \in Delays : validateStreamDelay(d) =>
    d.ms * Tick <= Top /\ d.max * Tick <= Top /\ d.max < Top

(* Two's complement: the facts about the powers of 2 that wrapping rests on. *)
WidthOK ==
  /\ Width \in Nat \ {0} /\ Tick \in Nat \ {0}
  /\ 2 ^ (Width - 1) \in Nat \ {0} /\ 2 ^ Width = 2 * 2 ^ (Width - 1)

Put == puts < MaxPuts /\ puts' = puts + 1

UpsertProfile(d) ==
  /\ Put
  /\ validateStreamDelay(d)
  /\ profile' = d
  /\ UNCHANGED <<listener, counters, req, arrivals, renders>>

Count == counters

(* The app takes the control plane's counters, and a copy of the profile;  *)
(* the template is rendered once, as render 1 of request 1.                *)
UpsertListener(l, t) ==
  /\ Put
  /\ Renders(t, 1)
  /\ listener' = [listener EXCEPT ![l] = [up |-> TRUE, delay |-> profile, template |-> t]]
  /\ counters' = Count
  /\ UNCHANGED <<profile, req, arrivals, renders>>

IncrementProfileRequest(r, l) ==
  /\ req[r].pc = "idle"
  /\ listener[l].up
  /\ counters.request < MaxRequests
  /\ counters' = [counters EXCEPT !.request = @ + 1]
  /\ arrivals' = Append(arrivals, counters.request + 1)
  /\ req' = [req EXCEPT ![r] = [Idle EXCEPT !.pc = "serving", !.on = listener[l],
                                            !.ordinal = counters.request + 1]]
  /\ UNCHANGED <<profile, listener, puts, renders>>

(* A request renders a fixture; one that became a WebSocket renders more.  *)
RenderBody(r) ==
  /\ req[r].pc = "serving"
  /\ counters.render < MaxRequests
  /\ counters' = [counters EXCEPT !.render = @ + 1]
  /\ renders' = Append(renders, counters.render + 1)
  /\ req' = [req EXCEPT ![r].body =
       IF Renders(req[r].on.template, counters.render + 1) THEN "json" ELSE "invalid"]
  /\ UNCHANGED <<profile, listener, puts, arrivals>>

(* streamSeed: a hash of the profile's name, the seed and the ordinal; and *)
(* the k-th draw of a generator so seeded.                                 *)
streamSeed(d, ordinal) == 3 * d.seed + ordinal
Intn(s, k, n) == (2 * s + k * k) % n

(* The k-th pause of a stream, as a duration; "panic" when Intn is called  *)
(* with a range that has overflowed.                                       *)
Pause(d, ordinal, k) ==
  IF d.mode = "fixed" THEN <<"sleep", Wrap(d.ms * Tick)>>
  ELSE IF d.max = d.min THEN <<"sleep", Wrap(d.min * Tick)>>
  ELSE LET n == Wrap(Wrap(d.max - d.min) + 1) IN
       IF n <= 0 THEN <<"panic", 0>>
       ELSE <<"sleep", Wrap((d.min + Intn(streamSeed(d, ordinal), k, n)) * Tick)>>

(* Mutant: the streams of a profile draw from one generator.               *)
DrawShared(r) == 1 + FoldFunction(+, 0, [q \in Requests |-> Len(req[q].pauses)])
Draw(r) == Len(req[r].pauses) + 1

(* Between two chunks; sleepContext returns at once for what is not        *)
(* positive, a panic drops the connection.                                 *)
StreamDelay(r) ==
  /\ req[r].pc = "serving"
  /\ req[r].on.delay.mode # "unset"
  /\ Len(req[r].pauses) < MaxChunks
  /\ LET p == Pause(req[r].on.delay, req[r].ordinal, Draw(r)) IN
     req' = [req EXCEPT ![r].pauses = Append(@, p),
                        ![r].pc = IF p[1] = "panic" THEN "dropped" ELSE "serving"]
  /\ UNCHANGED <<profile, listener, counters, puts, arrivals, renders>>

End(r) ==
  /\ req[r].pc \in {"serving", "dropped"}
  /\ req' = [req EXCEPT ![r] = Idle]
  /\ UNCHANGED <<profile, listener, counters, puts, arrivals, renders>>

Next ==
  \/ \E d \in Delays : UpsertProfile(d)
  \/ \E l \in Listeners, t \in Templates : UpsertListener(l, t)
  \/ \E r \in Requests : \/ \E l \in Listeners : IncrementProfileRequest(r, l)
                         \/ RenderBody(r) \/ StreamDelay(r) \/ End(r)

Spec == Init /\ [][Next]_vars

-----------------------------------------------------------------------------
(* Properties.                                                             *)

(* A profile numbers its requests 1, 2, 3 ... over all of its listeners,   *)
(* whatever is put again in between, and setting up a listener takes no    *)
(* number (docs/fixture-authoring.md:281 and 310).                         *)
RequestsNumbered == \A k \in DOMAIN arrivals : arrivals[k] = k

(* And its renders likewise, in the order of the renders and not of the    *)
(* requests.                                                               *)
RendersNumbered == \A k \in DOMAIN renders : renders[k] = k

(* A random pause is a number of the configured range, exactly.            *)
InRange(d, p) ==
  p[1] = "sleep" /\ \E ms \in (IF d.mode = "fixed" THEN {d.ms} ELSE d.min..d.max) :
                      p[2] = ms * Tick

(* The pauses of one stream are those of its profile, seed and ordinal,    *)
(* whatever other streams draw meanwhile (docs/admin-mode.md:453).         *)
PausesReproducible ==
  \A r \in Requests : \A k \in DOMAIN req[r].pauses :
    req[r].pauses[k] = Pause(req[r].on.delay, req[r].ordinal, k)

(* The pauses of an accepted profile are as long as it says.               *)
PausesInRange ==
  \A r \in Requests : \A k \in DOMAIN req[r].pauses : InRange(req[r].on.delay, req[r].pauses[k])

(* The numbers and the pauses of a profile are one sequence for all its    *)
(* listeners: gapless, and the same in every run of a scenario.            *)
SequenceHolds == RequestsNumbered /\ RendersNumbered /\ PausesReproducible /\ PausesInRange

(* "minimum streaming delay in milliseconds", "maximum streaming delay in  *)
(* milliseconds" (zolemc/main.go:163-164), for every accepted profile: the *)
(* code does not keep this when numbers overflow.                          *)
AnyPauseInRange == PausesInRange
=============================================================================
