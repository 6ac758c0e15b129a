----------------------------- MODULE UpstreamCall -----------------------------
(***************************************************************************)
(* Plain chat completions asked of an Ollama upstream (HTTPChatCompletion  *)
(* in internal/ollama/http.go): a profile's upstream is checked when the   *)
(* profile is put, and again, by address, at every dial.  The two clients, *)
(* one for each policy, keep connections that later requests reuse, so a   *)
(* dial's check has to hold for requests that never dialled.               *)
(*                                                                         *)
(* An address is what internal/upstreamip tells apart: which kind of       *)
(* address, in which wrapping.  A host is an address, "localhost" or       *)
(* another name; names resolve to anything, and differently each time.     *)
(***************************************************************************)
EXTENDS Naturals, FiniteSets

CONSTANTS Requests, Addresses, Nothing

Kinds == {"loopback", "private", "link-local", "unspecified", "multicast", "public", "zoned", "teredo", "local-use"}
Wraps == {"plain", "mapped", "nat64", "6to4", "compatible"}

VARIABLES
  profile,   (* request -> its profile's upstream: host and policy          *)
  pc,        (* request -> "do" | "sent" | "body" | "done"                  *)
  dialing,   (* the requests whose dial has not ended                       *)
  idle,      (* connections kept by the clients                             *)
  conn,      (* request -> the connection it holds                          *)
  used,      (* request -> the connections it was sent over                 *)
  result     (* request -> "none" | "ok" | "refused" | "unavailable" | "error" *)
vars == <<profile, pc, dialing, idle, conn, used, result>>

-----------------------------------------------------------------------------
tunneled(a) == a.wrap \in {"nat64", "6to4", "compatible"}
Classify(a) ==
  IF a.kind \in {"zoned", "local-use", "teredo", "link-local", "unspecified", "multicast"} THEN "blocked"
  ELSE IF a.kind \in {"loopback", "private"} /\ ~tunneled(a) THEN "private"
  ELSE "public"

Named(name) == [wrap |-> "name", kind |-> name]
Hosts == Addresses \cup {Named("localhost"), Named("other")}
Literal(h) == h.wrap # "name"
Connections == [client : BOOLEAN, host : Hosts, addr : Addresses]

(* What the constants have to satisfy.                                     *)
UpstreamAssumption ==
  Addresses \subseteq [wrap : Wraps, kind : Kinds] /\ Nothing \notin Connections

validateOllamaUpstream(h, external) ==
  /\ Literal(h) => Classify(h) # "blocked"
  /\ external \/ h = Named("localhost") \/ (Literal(h) /\ Classify(h) = "private")

dialAllowed(a, external) == Classify(a) = "private" \/ (Classify(a) = "public" /\ external)

clientForContext(p) == p.external

Resolves(h) == IF Literal(h) THEN {h} ELSE Addresses
Profiles == {p \in [host : Hosts, external : BOOLEAN] : validateOllamaUpstream(p.host, p.external)}

Init ==
  /\ profile \in [Requests -> Profiles]
  /\ pc = [r \in Requests |-> "do"] /\ dialing = {} /\ idle = {}
  /\ conn = [r \in Requests |-> Nothing] /\ used = [r \in Requests |-> {}]
  /\ result = [r \in Requests |-> "none"]

(* Mutant: the two clients share one transport.                            *)
UsableByBoth(r) == {c \in idle : c.host = profile[r].host}
Usable(r) == {c \in idle : c.client = clientForContext(profile[r]) /\ c.host = profile[r].host}

Hold(r, c) ==
  /\ conn' = [conn EXCEPT ![r] = c] /\ used' = [used EXCEPT ![r] = @ \cup {c}]
  /\ pc' = [pc EXCEPT ![r] = "sent"] /\ UNCHANGED result
Return(r, outcome) ==
  /\ result' = [result EXCEPT ![r] = outcome] /\ pc' = [pc EXCEPT ![r] = "done"]
  /\ conn' = [conn EXCEPT ![r] = Nothing] /\ UNCHANGED used

(************************ net/http's connections ***************************)
TakeIdle(r) ==
  /\ pc[r] = "do"
  /\ \E c \in Usable(r) : Hold(r, c) /\ idle' = idle \ {c}
  /\ UNCHANGED <<profile, dialing>>
StartDial(r) ==
  /\ pc[r] = "do" /\ r \notin dialing /\ Usable(r) = {}
  /\ dialing' = dialing \cup {r}
  /\ UNCHANGED <<profile, pc, idle, conn, used, result>>
(* Each dial resolves the host anew; Control sees the address.  A request  *)
(* that has found or given up another connection leaves this one idle.     *)
DialEnds(r) ==
  /\ r \in dialing /\ dialing' = dialing \ {r}
  /\ \E a \in Resolves(profile[r].host) :
       LET client == clientForContext(profile[r])
           c == [client |-> client, host |-> profile[r].host, addr |-> a]
       IN  IF ~dialAllowed(a, client) THEN
             /\ IF pc[r] = "do" THEN Return(r, "refused") ELSE UNCHANGED <<pc, conn, used, result>>
             /\ UNCHANGED idle
           ELSE IF pc[r] = "do" THEN Hold(r, c) /\ UNCHANGED idle
           ELSE idle' = idle \cup {c} /\ UNCHANGED <<pc, conn, used, result>>
  /\ UNCHANGED profile
DialFails(r) ==
  /\ r \in dialing /\ dialing' = dialing \ {r}
  /\ IF pc[r] = "do" THEN Return(r, "unavailable") ELSE UNCHANGED <<pc, conn, used, result>>
  /\ UNCHANGED <<profile, idle>>
ConnectionCloses ==
  /\ \E c \in idle : idle' = idle \ {c}
  /\ UNCHANGED <<profile, pc, dialing, conn, used, result>>
(* A kept connection may turn out closed: the transport tries another.     *)
TryAgain(r) ==
  /\ pc[r] = "sent"
  /\ pc' = [pc EXCEPT ![r] = "do"] /\ conn' = [conn EXCEPT ![r] = Nothing]
  /\ UNCHANGED <<profile, dialing, idle, used, result>>

(************************ HTTPChatCompletion *******************************)
(* What is left of a connection: kept when its response was read to the    *)
(* end, and closed otherwise.                                              *)
KeepOrClose(r) == idle' \in {idle, idle \cup {conn[r]}}

Answered(r) ==
  /\ pc[r] = "sent"
  /\ pc' = [pc EXCEPT ![r] = "body"] /\ UNCHANGED <<profile, dialing, idle, conn, used, result>>
(* A status that is no 200, or a redirect, which is not followed.          *)
ErrorStatus(r) ==
  /\ pc[r] = "sent" /\ Return(r, "error") /\ KeepOrClose(r) /\ UNCHANGED <<profile, dialing>>
Redirected(r) ==
  /\ pc[r] = "sent" /\ Return(r, "unavailable") /\ KeepOrClose(r) /\ UNCHANGED <<profile, dialing>>
(* The body: a reply, or nothing that is one (too long, broken, no JSON).  *)
ReadReply(r) ==
  /\ pc[r] = "body" /\ \E outcome \in {"ok", "error", "unavailable"} : Return(r, outcome)
  /\ KeepOrClose(r) /\ UNCHANGED <<profile, dialing>>
(* The overall timeout, or the client that has gone.                       *)
Timeout(r) ==
  /\ pc[r] # "done" /\ Return(r, "unavailable") /\ UNCHANGED <<profile, dialing, idle>>

Transport(r) == TakeIdle(r) \/ StartDial(r) \/ DialEnds(r) \/ DialFails(r) \/ TryAgain(r)
HTTPChatCompletion(r) ==
  Answered(r) \/ ErrorStatus(r) \/ Redirected(r) \/ ReadReply(r) \/ Timeout(r)
Next == ConnectionCloses \/ \E r \in Requests : Transport(r) \/ HTTPChatCompletion(r)
Spec == Init /\ [][Next]_vars

-----------------------------------------------------------------------------
(* The locals of the calls and the clients' pools have their types.        *)
TypeOK ==
  /\ pc \in [Requests -> {"do", "sent", "body", "done"}] /\ dialing \subseteq Requests
  /\ idle \subseteq Connections
  /\ \A r \in Requests : (conn[r] # Nothing) <=> pc[r] \in {"sent", "body"}
  /\ \A r \in Requests : (result[r] # "none") <=> pc[r] = "done"

(* A request is sent to its own profile's upstream only, and to no address *)
(* that its profile's policy would not let it dial, whoever dialled the    *)
(* connection and whatever the name stood for then (http.go:162).          *)
PolicyHolds ==
  \A r \in Requests : \A c \in used[r] :
    c.host = profile[r].host /\ dialAllowed(c.addr, profile[r].external)

(* An upstream given by its address that was accepted with its profile is  *)
(* never refused when it is dialled: the two checks have not drifted       *)
(* (upstreamip.go:1).                                                      *)
AcceptedIsDialled ==
  \A r \in Requests : Literal(profile[r].host) => result[r] # "refused"
=============================================================================
