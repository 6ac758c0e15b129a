--------------------------- MODULE ListenerHistory ---------------------------
(***************************************************************************)
(* What a PUT of a live listener does to the calls of its name: every PUT  *)
(* builds a new generation with a recorder of its own (UpsertListener,     *)
(* cmd/zolem/local_admin.go), while the counters of a profile are shared   *)
(* by all generations of all listeners (internal/runtime/counters.go).     *)
(*                                                                         *)
(* PUTs come one after another here; their interleavings are the subject   *)
(* of ControlPlane.  Calls run beside them.                                *)
(***************************************************************************)
EXTENDS Naturals, Sequences, FiniteSets

CONSTANTS Names, Ports, Profiles, Calls,
          Any,            (* the port 0 of an address: any free port       *)
          MaxGenerations, MaxNumber   (* bounds on PUTs and on calls       *)

VARIABLES
  gens,      (* generations: [name, port, profile, open, nextID, calls]    *)
             (* calls: what its recorder holds, each as [gen, id]          *)
  current,   (* name -> its registered generation, or 0                    *)
  requests,  (* counters: profile -> number of its last request            *)
  call,      (* goroutine -> [gen, id] of the call it serves; gen 0: none  *)
  put,       (* the last PUT: [name, port, ok, holder]                     *)
  numbered,  (* history: [gen, id, profile, number] of every call          *)
  born       (* history: name -> the generation that created it last       *)

vars == <<gens, current, requests, call, put, numbered, born>>

Generations == DOMAIN gens
HoldersOf(p) == {g \in Generations : gens[g].open /\ gens[g].port = p}
Free == {p \in Ports : HoldersOf(p) = {}}
None == [gen |-> 0, id |-> 0]

Init ==
  /\ gens = <<>> /\ current = [n \in Names |-> 0] /\ requests = [p \in Profiles |-> 0]
  /\ call = [c \in Calls |-> None] /\ numbered = {} /\ born = [n \in Names |-> 0]
  /\ put = [name |-> "none", port |-> Any, ok |-> TRUE, holder |-> 0]

Build(n, p, profile) ==
  [name |-> n, port |-> p, profile |-> profile, open |-> TRUE, nextID |-> 0, calls |-> <<>>]

(* Mutant: every listener gets counters of its own.                        *)
RegisterFresh(n, p, profile) ==
  /\ gens' = Append(gens, Build(n, p, profile))
  /\ current' = [current EXCEPT ![n] = Len(gens) + 1]
  /\ requests' = [requests EXCEPT ![profile] = 0]
Register(n, p, profile) ==
  /\ gens' = Append(gens, Build(n, p, profile))
  /\ current' = [current EXCEPT ![n] = Len(gens) + 1]
  /\ UNCHANGED requests
(* The new server is bound while the old one serves.                       *)
UpsertListener(n, addr, profile) ==
  /\ Len(gens) < MaxGenerations
  /\ \E p \in IF addr = Any THEN Free ELSE {addr} \cap Free :
       /\ Register(n, p, profile)
       /\ put' = [name |-> n, port |-> p, ok |-> TRUE, holder |-> 0]
  /\ born' = [born EXCEPT ![n] = IF current[n] = 0 THEN Len(gens) + 1 ELSE @]
  /\ UNCHANGED <<call, numbered>>
BindFails(n, addr) ==
  /\ addr # Any /\ addr \notin Free
  /\ put' = [name |-> n, port |-> addr, ok |-> FALSE, holder |-> CHOOSE g \in HoldersOf(addr) : TRUE]
  /\ UNCHANGED <<gens, current, requests, call, numbered, born>>
(* A generation that is not registered any more is closed.                 *)
CloseOld(g) ==
  /\ gens[g].open /\ current[gens[g].name] # g
  /\ gens' = [gens EXCEPT ![g].open = FALSE]
  /\ UNCHANGED <<current, requests, call, put, numbered, born>>
DeleteListener(n) ==
  /\ current[n] # 0
  /\ current' = [current EXCEPT ![n] = 0]
  /\ UNCHANGED <<gens, requests, call, put, numbered, born>>

(* The middleware takes an id of the generation's recorder, the handler a  *)
(* number of the profile.                                                  *)
Arrive(c, g) ==
  /\ call[c] = None /\ gens[g].open /\ requests[gens[g].profile] < MaxNumber
  /\ LET id == gens[g].nextID + 1
         profile == gens[g].profile
     IN  /\ gens' = [gens EXCEPT ![g].nextID = id]
         /\ call' = [call EXCEPT ![c] = [gen |-> g, id |-> id]]
         /\ requests' = [requests EXCEPT ![profile] = @ + 1]
         /\ numbered' = numbered \cup
              {[gen |-> g, id |-> id, profile |-> profile, number |-> requests[profile] + 1]}
  /\ UNCHANGED <<current, put, born>>

(* Mutant: a call is recorded where its name's history is now.             *)
RecorderByName(c) ==
  LET g == call[c].gen IN IF current[gens[g].name] # 0 THEN current[gens[g].name] ELSE g
Recorder(c) == call[c].gen
Record(c) ==
  /\ call[c] # None
  /\ gens' = [gens EXCEPT ![Recorder(c)].calls = Append(@, call[c])]
  /\ call' = [call EXCEPT ![c] = None]
  /\ UNCHANGED <<current, requests, put, numbered, born>>

(* GET of the calls of n.                                                  *)
ListCalls(n) == IF current[n] = 0 THEN <<>> ELSE gens[current[n]].calls

Next ==
  \/ \E n \in Names, p \in Profiles, a \in Ports \cup {Any} : UpsertListener(n, a, p)
  \/ \E n \in Names, a \in Ports : BindFails(n, a)
  \/ \E n \in Names : DeleteListener(n)
  \/ \E g \in Generations : CloseOld(g)
  \/ \E c \in Calls, g \in Generations : Arrive(c, g)
  \/ \E c \in Calls : Record(c)
Spec == Init /\ [][Next]_vars

-----------------------------------------------------------------------------

(* No two requests of a profile get one number, although listeners share   *)
(* the profile and are replaced while their requests run, so that a        *)
(* template never repeats a sequence (IncrementProfileRequest).            *)
NumbersUnique ==
  \A x, y \in numbered : x.profile = y.profile /\ x.number = y.number => x = y

(* A name's generations since it was last created.                         *)
Life(n) == {g \in Generations : gens[g].name = n /\ g >= born[n]}

(* Nothing is carried over a DELETE: the calls listed under a name arrived *)
(* after it was created again and have ended, and each has an id of its    *)
(* own, although calls of before the DELETE end later (the recorder that   *)
(* recordingMiddleware has captured).                                      *)
NoCarryover ==
  \A n \in Names : LET list == ListCalls(n) IN
    /\ \A i, j \in DOMAIN list : list[i].id = list[j].id => i = j
    /\ \A i \in DOMAIN list : list[i].gen \in Life(n) /\ \A c \in Calls : call[c] # list[i]

(* "Listener upsert (profile swap): history is preserved", says            *)
(* docs/specs/2026-05-22-call-history-design.md: what the generations of a *)
(* name have recorded since it was created is listed.                      *)
HistorySurvivesPut ==
  \A n \in Names : current[n] # 0 =>
    \A g \in Life(n) : \A i \in DOMAIN gens[g].calls :
      \E j \in DOMAIN ListCalls(n) : ListCalls(n)[j] = gens[g].calls[i]
=============================================================================
