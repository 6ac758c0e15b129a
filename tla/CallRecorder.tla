---------------------------- MODULE CallRecorder ----------------------------
(***************************************************************************)
(* The in-memory call history of one listener: inMemoryRecorder and the    *)
(* recordingMiddleware that feeds it (cmd/zolem/recording.go), called from *)
(* one goroutine per client call, while the admin API lists and clears it. *)
(*                                                                         *)
(* Every recorder method is atomic under the recorder's mutex.  What a     *)
(* call looked like (headers, bodies, events) is left out: a record is its *)
(* call_id and whether it is a plain or a WebSocket record.  List copies   *)
(* the history and changes nothing.                                        *)
(***************************************************************************)
EXTENDS Naturals, Sequences, FiniteSets

CONSTANTS Clients,      (* goroutines that serve client calls              *)
          MaxCallID,    (* bound on nextID: no call arrives beyond it      *)
          HandlersPanic (* whether a provider handler may panic            *)

ASSUME ClientsAssumption == IsFiniteSet(Clients)
ASSUME MaxCallIDAssumption == MaxCallID \in Nat
ASSUME HandlersPanicAssumption == HandlersPanic \in BOOLEAN

VARIABLES
  calls,      (* the recorded calls, in the order they completed           *)
  nextID,     (* the last call_id handed out                               *)
  inFlight,   (* how many calls were handed an id and are not recorded     *)
  callID,     (* goroutine -> its call_id, 0 when it serves no call        *)
  upgraded    (* goroutine -> its connection became a WebSocket            *)

vars == <<calls, nextID, inFlight, callID, upgraded>>

Kinds  == {"http", "websocket"}
Record == [id : Nat \ {0}, kind : Kinds]

Serving(c) == callID[c] # 0

Init ==
  /\ calls    = <<>>
  /\ nextID   = 0
  /\ inFlight = 0
  /\ callID   = [c \in Clients |-> 0]
  /\ upgraded = [c \in Clients |-> FALSE]

(* The middleware takes a call_id before it calls the handler.             *)
NextCallID(c) ==
  /\ ~Serving(c)
  /\ nextID < MaxCallID
  /\ nextID'   = nextID + 1
  /\ inFlight' = inFlight + 1
  /\ callID'   = [callID EXCEPT ![c] = nextID + 1]
  /\ UNCHANGED <<calls, upgraded>>

(* The handler marks the connection as upgraded.                           *)
Upgrade(c) ==
  /\ Serving(c)
  /\ ~upgraded[c]
  /\ upgraded' = [upgraded EXCEPT ![c] = TRUE]
  /\ UNCHANGED <<calls, nextID, inFlight, callID>>

LeaveFlight == inFlight' = IF inFlight > 0 THEN inFlight - 1 ELSE inFlight

Leave(c) ==
  /\ callID'   = [callID EXCEPT ![c] = 0]
  /\ upgraded' = [upgraded EXCEPT ![c] = FALSE]

(* The handler returned and the body is drained: the call is recorded.     *)
RecordCall(c) ==
  /\ Serving(c)
  /\ ~upgraded[c]
  /\ LeaveFlight
  /\ calls' = Append(calls, [id |-> callID[c], kind |-> "http"])
  /\ Leave(c)
  /\ UNCHANGED nextID

RecordWS(c) ==
  /\ Serving(c)
  /\ upgraded[c]
  /\ LeaveFlight
  /\ calls' = Append(calls, [id |-> callID[c], kind |-> "websocket"])
  /\ Leave(c)
  /\ UNCHANGED nextID

(* net/http recovers a handler's panic; the middleware has no deferred     *)
(* step, so the recorder is never told.                                    *)
Panic(c) ==
  /\ HandlersPanic
  /\ Serving(c)
  /\ Leave(c)
  /\ UNCHANGED <<calls, nextID, inFlight>>

(* Mutant: Clear does as its comment says and always restarts the ids.     *)
ClearAlwaysRestarts ==
  /\ calls' = <<>>
  /\ nextID' = 0
  /\ UNCHANGED <<inFlight, callID, upgraded>>

(* DELETE .../calls.  The ids restart only if no call is in flight.        *)
Clear ==
  /\ calls' = <<>>
  /\ nextID' = IF inFlight = 0 THEN 0 ELSE nextID
  /\ UNCHANGED <<inFlight, callID, upgraded>>

Next ==
  \/ \E c \in Clients : NextCallID(c) \/ Upgrade(c) \/ RecordCall(c)
                        \/ RecordWS(c) \/ Panic(c)
  \/ Clear

Spec == Init /\ [][Next]_vars

-----------------------------------------------------------------------------
(* Properties.                                                             *)

TypeOK ==
  /\ calls    \in Seq(Record)
  /\ nextID   \in Nat
  /\ inFlight \in Nat
  /\ callID   \in [Clients -> Nat]
  /\ upgraded \in [Clients -> BOOLEAN]

(* No two calls, recorded or in flight, have one call_id, whatever clears, *)
(* upgrades and panics happen in between (recording_test.go:107).          *)
UniqueIDs ==
  /\ \A j, k \in 1..Len(calls) : calls[j].id = calls[k].id => j = k
  /\ \A c, d \in Clients : callID[c] = callID[d] /\ Serving(c) => c = d
  /\ \A c \in Clients, k \in 1..Len(calls) : callID[c] # calls[k].id

(* A new call_id is above every id in the history and in flight: ids are   *)
(* handed out in arrival order (recording.go:317), across a Clear too.     *)
ArrivalOrdered ==
  [][\A c \in Clients : ~Serving(c) /\ Serving(c)' =>
       /\ \A k \in 1..Len(calls) : calls[k].id < callID'[c]
       /\ \A d \in Clients : callID[d] < callID'[c]]_vars

(* The counter that guards the reset counts the calls in flight exactly.   *)
InFlightExact == inFlight = Cardinality({c \in Clients : Serving(c)})

(* The recorder implements the ledger: ids are never reused while they     *)
(* mean something, a call is recorded once, and only Clear forgets.        *)
Ledger == INSTANCE CallLedger WITH
  Ids     <- 1..MaxCallID,
  open    <- {callID[c] : c \in {d \in Clients : Serving(d)}},
  history <- [k \in 1..Len(calls) |-> calls[k].id]
ImplementsLedger == Ledger!LedgerSpec
=============================================================================
