------------------------- MODULE CallHistoryProofs --------------------------
(***************************************************************************)
(* Proofs about CallRecorder and the client that follows it, for any       *)
(* finite set of goroutines and any number of calls, with and without      *)
(* panicking handlers; and about ListenerHistory, for any names, ports,    *)
(* profiles and calls.                                                     *)
(*                                                                         *)
(* Uniqueness of the recorder's ids rests on two facts: every id is at     *)
(* most nextID, and inFlight is at least the number of calls in flight, so *)
(* that a Clear that finds it 0 resets nextID when no id is in use.        *)
(***************************************************************************)
EXTENDS MCCallHistory, FiniteSetTheorems, SequenceTheorems, WellFoundedInduction, TLAPS

InFlight == {c \in Clients : Serving(c)}

IDsBounded ==
  /\ nextID <= MaxCallID
  /\ \A k \in 1..Len(calls) : calls[k].id <= nextID
  /\ \A c \in Clients : callID[c] <= nextID

FlightCovered == Cardinality(InFlight) <= inFlight

IInv == TypeOK /\ UniqueIDs /\ IDsBounded /\ FlightCovered

-----------------------------------------------------------------------------
(* The calls in flight are finitely many, so they can be counted.          *)
LEMMA InFlightFinite ==
  IsFiniteSet(InFlight) /\ Cardinality(InFlight) \in Nat
BY ClientsAssumption, FS_Subset, FS_CardinalityType DEF InFlight

(* A call that arrives is one more in flight, a call that leaves one less. *)
LEMMA ArrivalCounts ==
  ASSUME NEW c \in Clients, TypeOK, NextCallID(c)
  PROVE  Cardinality(InFlight') = Cardinality(InFlight) + 1
<1>1. InFlight' = InFlight \cup {c} /\ c \notin InFlight
  BY DEF InFlight, Serving, NextCallID, TypeOK
<1> QED
  BY <1>1, InFlightFinite, FS_AddElement

(* A call that leaves is one fewer in flight.                              *)
LEMMA DepartureCounts ==
  ASSUME NEW c \in Clients, TypeOK, Serving(c), Leave(c)
  PROVE  /\ Cardinality(InFlight') = Cardinality(InFlight) - 1
         /\ Cardinality(InFlight) > 0
<1>1. InFlight' = InFlight \ {c} /\ c \in InFlight
  BY DEF InFlight, Serving, Leave, TypeOK
<1>2. Cardinality(InFlight') = Cardinality(InFlight) - 1
  BY <1>1, InFlightFinite, FS_RemoveElement
<1>3. Cardinality(InFlight) # 0
  BY <1>1, InFlightFinite, FS_EmptySet
<1> QED
  BY <1>2, <1>3, InFlightFinite

-----------------------------------------------------------------------------
(* IInv holds of a recorder that has just been made.                       *)
LEMMA InitIInv == Init => IInv
<1> SUFFICES ASSUME Init PROVE IInv
  OBVIOUS
<1>1. TypeOK /\ UniqueIDs /\ IDsBounded
  BY MaxCallIDAssumption DEF Init, TypeOK, UniqueIDs, IDsBounded, Serving
<1>2. InFlight = {}
  BY DEF Init, InFlight, Serving
<1> QED
  BY <1>1, <1>2, FS_EmptySet DEF Init, IInv, FlightCovered

(* A recorded id is a positive number.                                     *)
LEMMA RecordedIDs ==
  ASSUME TypeOK
  PROVE  \A k \in 1..Len(calls) : calls[k].id \in Nat \ {0}
<1>1. \A k \in 1..Len(calls) : calls[k] \in Record
  BY DEF TypeOK
<1> QED
  BY <1>1 DEF Record

(* A call that arrives gets an id above all others.                        *)
LEMMA NextCallIDKeeps ==
  ASSUME IInv, NEW c \in Clients, NextCallID(c)
  PROVE  IInv'
<1>1. TypeOK'
  BY DEF IInv, TypeOK, NextCallID
<1>2. \A k \in 1..Len(calls) : calls[k].id \in Nat \ {0}
  BY RecordedIDs DEF IInv
<1>3. UniqueIDs'
  <2>1. /\ calls' = calls /\ nextID + 1 > nextID
        /\ \A d \in Clients : callID'[d] = IF d = c THEN nextID + 1 ELSE callID[d]
    BY DEF IInv, TypeOK, NextCallID
  <2>2. /\ \A k \in 1..Len(calls) : calls[k].id # nextID + 1
        /\ \A d \in Clients : callID[d] # nextID + 1
    BY <1>2 DEF IInv, TypeOK, IDsBounded
  <2>3. \A d, e \in Clients :
          callID'[d] = callID'[e] /\ callID'[d] # 0 => d = e
    BY <2>1, <2>2 DEF IInv, UniqueIDs, Serving
  <2>4. \A d \in Clients, k \in 1..Len(calls) : callID'[d] # calls[k].id
    BY <2>1, <2>2 DEF IInv, UniqueIDs
  <2> QED
    BY <2>1, <2>3, <2>4 DEF IInv, UniqueIDs, Serving
<1>4. IDsBounded'
  BY <1>2, MaxCallIDAssumption DEF IInv, TypeOK, IDsBounded, NextCallID
<1>5. Cardinality(InFlight') = Cardinality(InFlight) + 1
  BY ArrivalCounts DEF IInv
<1>6. FlightCovered'
  BY <1>5, InFlightFinite DEF IInv, TypeOK, FlightCovered, NextCallID
<1> QED
  BY <1>1, <1>3, <1>4, <1>6 DEF IInv

(* A call enters the history, of either kind.                              *)
LEMMA RecordKeeps ==
  ASSUME IInv, NEW c \in Clients, RecordCall(c) \/ RecordWS(c)
  PROVE  IInv'
<1>1. PICK kind \in Kinds :
        calls' = Append(calls, [id |-> callID[c], kind |-> kind])
  BY DEF RecordCall, RecordWS, Kinds
<1>2. Serving(c) /\ LeaveFlight /\ Leave(c) /\ nextID' = nextID
  BY DEF RecordCall, RecordWS
<1> DEFINE new == [id |-> callID[c], kind |-> kind]
<1>3. new \in Record
  BY <1>2 DEF IInv, TypeOK, Record, Serving
<1>4. /\ Len(calls') = Len(calls) + 1
      /\ calls'[Len(calls) + 1] = new
      /\ \A k \in 1..Len(calls) : calls'[k] = calls[k]
  BY <1>1, <1>3 DEF IInv, TypeOK
<1>5. TypeOK'
  BY <1>1, <1>2, <1>3 DEF IInv, TypeOK, LeaveFlight, Leave
<1>6. \A d \in Clients : callID'[d] = IF d = c THEN 0 ELSE callID[d]
  BY <1>2 DEF IInv, TypeOK, Leave
<1>7. /\ new.id = callID[c] /\ callID[c] \in Nat \ {0}
      /\ Len(calls) \in Nat
      /\ \A k \in 1..Len(calls) : calls[k].id \in Nat \ {0}
  BY <1>2, RecordedIDs DEF IInv, TypeOK, Serving
<1>8. UniqueIDs'
  <2>1. \A j, k \in 1..Len(calls') : calls'[j].id = calls'[k].id => j = k
    BY <1>4, <1>7 DEF IInv, UniqueIDs
  <2>2. \A d, e \in Clients :
          callID'[d] = callID'[e] /\ callID'[d] # 0 => d = e
    BY <1>6 DEF IInv, UniqueIDs, Serving
  <2>3. \A d \in Clients, k \in 1..Len(calls') : callID'[d] # calls'[k].id
    BY <1>2, <1>4, <1>6, <1>7 DEF IInv, UniqueIDs, Serving
  <2> QED
    BY <2>1, <2>2, <2>3 DEF UniqueIDs, Serving
<1>9. IDsBounded'
  <2>1. \A k \in 1..Len(calls') : calls'[k].id <= nextID
    BY <1>4, <1>7 DEF IInv, IDsBounded
  <2>2. \A d \in Clients : callID'[d] <= nextID
    BY <1>6 DEF IInv, TypeOK, IDsBounded
  <2> QED
    BY <1>2, <2>1, <2>2 DEF IInv, IDsBounded
<1>10. FlightCovered'
  <2>1. /\ Cardinality(InFlight') = Cardinality(InFlight) - 1
        /\ Cardinality(InFlight) > 0
    BY <1>2, DepartureCounts DEF IInv
  <2> QED
    BY <1>2, <2>1, InFlightFinite DEF IInv, TypeOK, FlightCovered, LeaveFlight
<1> QED
  BY <1>5, <1>8, <1>9, <1>10 DEF IInv

(* A panicking handler leaves its id behind, unrecorded.                   *)
LEMMA PanicKeeps ==
  ASSUME IInv, NEW c \in Clients, Panic(c)
  PROVE  IInv'
<1>1. \A k \in 1..Len(calls) : calls[k].id \in Nat \ {0}
  BY RecordedIDs DEF IInv
<1>2. /\ calls' = calls /\ nextID' = nextID
      /\ \A d \in Clients : callID'[d] = IF d = c THEN 0 ELSE callID[d]
  BY DEF IInv, TypeOK, Panic, Leave
<1>3. TypeOK'
  BY DEF IInv, TypeOK, Panic, Leave
<1>4. UniqueIDs'
  BY <1>1, <1>2 DEF IInv, UniqueIDs, Serving
<1>5. IDsBounded'
  BY <1>2 DEF IInv, TypeOK, IDsBounded
<1>6. FlightCovered'
  BY DepartureCounts, InFlightFinite DEF IInv, TypeOK, FlightCovered, Panic
<1> QED
  BY <1>3, <1>4, <1>5, <1>6 DEF IInv

(* When the counter is 0, no call is in flight.                            *)
LEMMA NobodyInFlight ==
  ASSUME IInv, inFlight = 0
  PROVE  \A c \in Clients : callID[c] = 0
<1> SUFFICES ASSUME NEW c \in Clients, callID[c] # 0
             PROVE  FALSE
  OBVIOUS
<1>1. InFlight # {}
  BY DEF InFlight, Serving
<1> QED
  BY <1>1, InFlightFinite, FS_EmptySet DEF IInv, FlightCovered

(* A Clear that resets nextID found nobody in flight.                      *)
LEMMA ClearKeeps ==
  ASSUME IInv, Clear
  PROVE  IInv'
<1>1. InFlight' = InFlight
  BY DEF Clear, InFlight, Serving
<1>2. inFlight = 0 => \A c \in Clients : callID[c] = 0
  BY NobodyInFlight
<1>3. TypeOK' /\ UniqueIDs'
  BY DEF IInv, TypeOK, UniqueIDs, Clear, Serving
<1>4. IDsBounded'
  BY <1>2, MaxCallIDAssumption DEF IInv, TypeOK, IDsBounded, Clear
<1>5. FlightCovered'
  BY <1>1 DEF IInv, FlightCovered, Clear
<1> QED
  BY <1>3, <1>4, <1>5 DEF IInv

(* Every step keeps IInv.                                                  *)
LEMMA NextKeeps == IInv /\ [Next]_vars => IInv'
<1> SUFFICES ASSUME IInv, [Next]_vars PROVE IInv'
  OBVIOUS
<1>1. ASSUME NEW c \in Clients, Upgrade(c) PROVE IInv'
  BY <1>1 DEF IInv, TypeOK, UniqueIDs, IDsBounded, FlightCovered, InFlight,
              Serving, Upgrade
<1>2. CASE UNCHANGED vars
  BY <1>2 DEF IInv, TypeOK, UniqueIDs, IDsBounded, FlightCovered, InFlight,
              Serving, vars
<1> QED
  BY <1>1, <1>2, NextCallIDKeeps, RecordKeeps, PanicKeeps, ClearKeeps DEF Next

(* IInv holds in every reachable state of a recorder.                      *)
THEOREM Invariance == Spec => []IInv
BY InitIInv, NextKeeps, PTL DEF Spec

-----------------------------------------------------------------------------
(* Every variable holds a value of its type.                               *)
THEOREM TypeCorrect == Spec => []TypeOK
BY Invariance, PTL DEF IInv

(* No two calls, in the history or in flight, ever have one call_id.       *)
THEOREM IDsAreUnique == Spec => []UniqueIDs
BY Invariance, PTL DEF IInv

(* Ids are handed out in arrival order, across clears.                     *)
THEOREM IDsFollowArrival == Spec => ArrivalOrdered
<1> DEFINE Ordered ==
      \A c \in Clients : ~Serving(c) /\ Serving(c)' =>
        /\ \A k \in 1..Len(calls) : calls[k].id < callID'[c]
        /\ \A d \in Clients : callID[d] < callID'[c]
<1>1. ASSUME IInv, [Next]_vars PROVE [Ordered]_vars
  <2> SUFFICES ASSUME Next PROVE Ordered
    BY <1>1
  <2> SUFFICES ASSUME NEW c \in Clients, ~Serving(c), Serving(c)'
               PROVE  /\ \A k \in 1..Len(calls) : calls[k].id < callID'[c]
                      /\ \A d \in Clients : callID[d] < callID'[c]
    OBVIOUS
  <2>1. NextCallID(c)
    BY <1>1 DEF Next, NextCallID, Upgrade, RecordCall, RecordWS, Panic, Clear,
                Leave, Serving, IInv, TypeOK
  <2> QED
    BY <1>1, <2>1, RecordedIDs DEF IInv, TypeOK, IDsBounded, NextCallID
<1> QED
  BY <1>1, Invariance, PTL DEF Spec, ArrivalOrdered

(* Without panics the counter is exact: only a panicking handler can keep  *)
(* an idle listener from restarting its ids on Clear.                      *)
THEOREM FlightIsExact ==
  ASSUME HandlersPanic = FALSE
  PROVE  Spec => []InFlightExact
<1>1. Init => InFlightExact
  <2> SUFFICES ASSUME Init PROVE InFlightExact
    OBVIOUS
  <2>1. InFlight = {}
    BY DEF Init, InFlight, Serving
  <2> QED
    BY <2>1, FS_EmptySet DEF Init, InFlightExact, InFlight
<1>2. IInv /\ InFlightExact /\ [Next]_vars => InFlightExact'
  <2> SUFFICES ASSUME IInv, InFlightExact, [Next]_vars PROVE InFlightExact'
    OBVIOUS
  <2>1. inFlight = Cardinality(InFlight) /\ inFlight \in Nat /\ TypeOK
    BY DEF InFlightExact, InFlight, IInv, TypeOK
  <2>2. ASSUME NEW c \in Clients, NextCallID(c) PROVE InFlightExact'
    <3>1. Cardinality(InFlight') = Cardinality(InFlight) + 1
      BY <2>1, <2>2, ArrivalCounts
    <3> QED
      BY <2>1, <2>2, <3>1 DEF InFlightExact, InFlight, NextCallID
  <2>3. ASSUME NEW c \in Clients, RecordCall(c) \/ RecordWS(c)
        PROVE  InFlightExact'
    <3>1. Serving(c) /\ LeaveFlight /\ Leave(c)
      BY <2>3 DEF RecordCall, RecordWS
    <3>2. /\ Cardinality(InFlight') = Cardinality(InFlight) - 1
          /\ Cardinality(InFlight) > 0
      BY <2>1, <3>1, DepartureCounts
    <3> QED
      BY <2>1, <3>1, <3>2 DEF InFlightExact, InFlight, LeaveFlight
  <2>4. ASSUME UNCHANGED <<callID, inFlight>> PROVE InFlightExact'
    <3>1. InFlight' = InFlight
      BY <2>4 DEF InFlight, Serving
    <3> QED
      BY <2>1, <2>4, <3>1 DEF InFlightExact, InFlight
  <2> QED
    BY <2>2, <2>3, <2>4 DEF Next, Upgrade, Panic, Clear, vars
<1> QED
  BY <1>1, <1>2, Invariance, PTL DEF Spec

-----------------------------------------------------------------------------
(* The recorder implements the ledger, step by step: an id that NextCallID *)
(* hands out is fresh, and every other step maps to a ledger step.         *)
Open == {callID[c] : c \in {d \in Clients : Serving(d)}}
Recorded == [k \in 1..Len(calls) |-> calls[k].id]

(* The id a call gets on arrival is new to the ledger.                     *)
LEMMA FreshID ==
  ASSUME IInv, NEW c \in Clients, NextCallID(c)
  PROVE  Ledger!Begin(nextID + 1)
<1>1. /\ nextID + 1 \notin Open
      /\ \A k \in 1..Len(calls) : calls[k].id # nextID + 1
  BY RecordedIDs DEF IInv, TypeOK, IDsBounded, Open
<1>2. Open' = Open \cup {nextID + 1}
  BY DEF IInv, TypeOK, Open, NextCallID, Serving
<1>3. Recorded' = Recorded
  BY DEF NextCallID, Recorded
<1>4. Len(Recorded) = Len(calls)
  BY DEF IInv, TypeOK, Recorded
<1> QED
  BY <1>1, <1>2, <1>3, <1>4 DEF Ledger!Begin, Ledger!InHistory, Open, Recorded

(* The id of a call that leaves is no other open call's.                   *)
LEMMA IDLeaves ==
  ASSUME IInv, NEW c \in Clients, Serving(c), Leave(c)
  PROVE  callID[c] \in Open /\ Open' = Open \ {callID[c]}
<1>1. \A d \in Clients : callID'[d] = IF d = c THEN 0 ELSE callID[d]
  BY DEF IInv, TypeOK, Leave
<1>2. \A d \in Clients : callID[d] = callID[c] => d = c
  BY DEF IInv, UniqueIDs, Serving
<1> QED
  BY <1>1, <1>2 DEF Open, Serving

(* A recorded call leaves the open ids for the ledger's history.           *)
LEMMA IDCompletes ==
  ASSUME IInv, NEW c \in Clients, RecordCall(c) \/ RecordWS(c)
  PROVE  Ledger!Complete(callID[c])
<1>1. PICK kind \in Kinds :
        calls' = Append(calls, [id |-> callID[c], kind |-> kind])
  BY DEF RecordCall, RecordWS, Kinds
<1>2. Serving(c) /\ Leave(c)
  BY DEF RecordCall, RecordWS
<1>3. callID[c] \in Open /\ Open' = Open \ {callID[c]}
  BY <1>2, IDLeaves
<1>4. Recorded' = Append(Recorded, callID[c])
  <2>1. /\ Len(calls) \in Nat /\ Len(calls') = Len(calls) + 1
        /\ calls'[Len(calls) + 1].id = callID[c]
        /\ \A k \in 1..Len(calls) : calls'[k] = calls[k]
    BY <1>1 DEF IInv, TypeOK
  <2>2. Recorded \in Seq(Nat) /\ Len(Recorded) = Len(calls)
    BY <2>1, RecordedIDs DEF Recorded, IInv
  <2>3. callID[c] \in Nat
    BY DEF IInv, TypeOK
  <2>4. Append(Recorded, callID[c]) =
          [k \in 1..Len(calls) + 1 |->
             IF k = Len(calls) + 1 THEN callID[c] ELSE calls[k].id]
    BY <2>1, <2>2, <2>3 DEF Recorded
  <2> QED
    BY <2>1, <2>4 DEF Recorded
<1> QED
  BY <1>3, <1>4 DEF Ledger!Complete, Open, Recorded

(* Every step of the recorder is one operation of the ledger, or none.     *)
THEOREM RefinesLedger == Spec => ImplementsLedger
<1>1. Init => Ledger!LedgerInit
  BY DEF Init, Ledger!LedgerInit, Serving
<1>2. IInv /\ IInv' /\ [Next]_vars => [Ledger!LedgerNext]_(Ledger!lvars)
  <2> SUFFICES ASSUME IInv, IInv', [Next]_vars
               PROVE  Ledger!LedgerNext \/ UNCHANGED Ledger!lvars
    OBVIOUS
  <2>1. \A c \in Clients : callID[c] # 0 => callID[c] \in 1..MaxCallID
    BY MaxCallIDAssumption DEF IInv, TypeOK, IDsBounded
  <2>2. ASSUME NEW c \in Clients, NextCallID(c) PROVE Ledger!LedgerNext
    <3>1. nextID + 1 \in 1..MaxCallID
      BY <2>2, MaxCallIDAssumption DEF IInv, TypeOK, NextCallID
    <3>2. Ledger!Begin(nextID + 1)
      BY <2>2, FreshID
    <3> QED
      BY <3>1, <3>2 DEF Ledger!LedgerNext, Ledger!Begin, Ledger!InHistory
  <2>3. ASSUME NEW c \in Clients, RecordCall(c) \/ RecordWS(c)
        PROVE  Ledger!LedgerNext
    <3>1. callID[c] \in 1..MaxCallID
      BY <2>1, <2>3 DEF RecordCall, RecordWS, Serving
    <3>2. Ledger!Complete(callID[c])
      BY <2>3, IDCompletes
    <3> QED
      BY <3>1, <3>2 DEF Ledger!LedgerNext, Ledger!Complete
  <2>4. ASSUME NEW c \in Clients, Panic(c) PROVE Ledger!LedgerNext
    <3>1. callID[c] \in 1..MaxCallID
      BY <2>1, <2>4 DEF Panic, Serving
    <3>2. /\ callID[c] \in Open /\ Open' = Open \ {callID[c]}
          /\ Recorded' = Recorded
      BY <2>4, IDLeaves DEF Panic, Recorded
    <3>3. Ledger!Abandon(callID[c])
      BY <3>2 DEF Ledger!Abandon, Open, Recorded
    <3> QED
      BY <3>1, <3>3 DEF Ledger!LedgerNext, Ledger!Abandon
  <2>5. ASSUME Clear PROVE Ledger!LedgerNext
    <3>1. Recorded' = <<>> /\ Open' = Open
      BY <2>5 DEF Clear, Recorded, Open, Serving
    <3> QED
      BY <3>1 DEF Ledger!LedgerNext, Ledger!Forget, Recorded, Open
  <2>6. ASSUME UNCHANGED <<calls, callID>> PROVE UNCHANGED Ledger!lvars
    BY <2>6 DEF Ledger!lvars, Serving
  <2> QED
    BY <2>2, <2>3, <2>4, <2>5, <2>6 DEF Next, Upgrade, vars
<1> QED
  BY <1>1, <1>2, Invariance, PTL DEF Spec, ImplementsLedger, Ledger!LedgerSpec

-----------------------------------------------------------------------------
(* The client that follows the calls (CallPoller).  What it has seen up to *)
(* `since` of the current numbering is printed, or was passed while it was *)
(* in flight, or has an id of before the restart; a new id is beyond       *)
(* `since` unless `since` is of before the restart, too.                   *)
Settled(id) == <<numbering, id>> \in overtaken \/ id <= floor

FollowInv ==
  /\ IInv
  /\ since \in Nat /\ floor \in Nat
  /\ since <= nextID \/ since <= floor
  /\ LosesOnlySlowCalls
  /\ \A c \in Clients : Serving(c) /\ callID[c] <= since => Settled(callID[c])

(* What is further from a bound is smaller.                                *)
LEMMA Swapped ==
  ASSUME NEW b \in Nat, NEW m \in Nat, NEW x \in Nat, b - m <= b - x
  PROVE  x <= m
OBVIOUS

(* A bounded set of natural numbers has a largest element.                 *)
LEMMA LargestExists ==
  ASSUME NEW S, S \subseteq Nat, S # {}, NEW b \in Nat, \A x \in S : x <= b
  PROVE  \E m \in S : \A x \in S : x <= m
<1> DEFINE T == {b - x : x \in S}
<1>1. T \subseteq Nat /\ T # {}
  <2>1. \A x \in S : b - x \in Nat
    OBVIOUS
  <2> QED
    BY <2>1
<1>2. PICK t \in T : \A y \in T : ~(<<y, t>> \in OpToRel(<, Nat))
  BY <1>1, WFMin, NatLessThanWellFounded
<1>3. \A y \in T : t <= y
  <2>1. \A y \in T : ~(y < t)
    BY <1>1, <1>2, Zenon DEF OpToRel
  <2> QED
    BY <1>1, <2>1
<1>4. PICK m \in S : t = b - m
  OBVIOUS
<1>5. \A x \in S : b - m <= b - x
  BY <1>3, <1>4
<1>6. S \subseteq Nat
  OBVIOUS
<1> HIDE DEF T
<1>7. ASSUME NEW x \in S PROVE x <= m
  <2>1. x \in Nat /\ m \in Nat
    BY <1>6
  <2>2. b - m <= b - x
    BY <1>5
  <2> QED
    BY <2>1, <2>2, Swapped
<1> QED
  BY <1>7

(* What is listed has ids that have been handed out.                       *)
LEMMA ListedIDs ==
  ASSUME IInv PROVE \A id \in Listed : id \in Nat \ {0} /\ id <= nextID
BY RecordedIDs DEF IInv, TypeOK, IDsBounded, Listed

(* A poll moves `since` to the largest id it has printed, or not at all.   *)
LEMMA PollMoves ==
  ASSUME FollowInv, Poll
  PROVE  /\ since' \in {since} \cup Listed
         /\ since <= since'
         /\ \A id \in Listed : id <= since'
<1> DEFINE S == last' \cup {since}
<1>1. last' = Rows(Listed, since) /\ last' \subseteq Listed
  BY DEF Poll, Rows
<1>2. \A x \in S : x \in Nat /\ x <= nextID + since
  BY <1>1, ListedIDs DEF FollowInv, IInv, TypeOK
<1>3. \E m \in S : \A x \in S : x <= m
  <2>1. nextID + since \in Nat /\ S # {}
    BY DEF FollowInv, IInv, TypeOK
  <2> HIDE DEF S
  <2> QED
    BY <1>2, <2>1, LargestExists
<1>4. since' \in S /\ \A x \in S : x <= since'
  <2>1. since' = CHOOSE m \in S : \A x \in S : x <= m
    BY DEF Poll
  <2> HIDE DEF S
  <2> QED
    BY <1>3, <2>1
<1>5. \A id \in Listed : id <= since \/ id \in last'
  BY <1>1, ListedIDs DEF FollowInv, Rows
<1> QED
  BY <1>1, <1>2, <1>4, <1>5, ListedIDs DEF FollowInv

(* Poll: what is listed beyond `since` is printed, what is in flight       *)
(* before the new `since` is overtaken.                                    *)
LEMMA PollKeeps == ASSUME FollowInv, Poll PROVE FollowInv'
<1>1. UNCHANGED <<vars, numbering, floor>>
  BY DEF Poll
<1>2. IInv'
  BY <1>1, NextKeeps DEF FollowInv
<1>3. since' \in Nat /\ (since' <= nextID \/ since' <= floor)
  BY PollMoves, ListedIDs DEF FollowInv, IInv, TypeOK
<1>4. LosesOnlySlowCalls'
  <2>1. Listed' = Listed
    BY <1>1 DEF vars, Listed
  <2>2. SUFFICES ASSUME NEW id \in Listed
                 PROVE  \/ <<numbering, id>> \in printed'
                        \/ <<numbering, id>> \in overtaken'
                        \/ id <= floor
    BY <1>1, <2>1 DEF LosesOnlySlowCalls
  <2>3. CASE id <= since
    BY <2>3 DEF FollowInv, LosesOnlySlowCalls, Poll
  <2>4. CASE ~(id <= since)
    <3>1. id \in last'
      BY <2>4, ListedIDs DEF FollowInv, Poll, Rows
    <3> QED
      BY <3>1 DEF Poll
  <2> QED
    BY <2>3, <2>4
<1>5. ASSUME NEW c \in Clients, Serving(c)', callID'[c] <= since'
      PROVE  Settled(callID[c])'
  <2>1. callID' = callID /\ Serving(c) /\ numbering' = numbering /\ floor' = floor
    BY <1>1, <1>5 DEF vars, Serving
  <2>2. callID[c] \notin Listed
    BY DEF FollowInv, IInv, UniqueIDs, Listed, TypeOK
  <2>3. CASE callID[c] <= since
    BY <2>1, <2>3 DEF FollowInv, Settled, Poll
  <2>4. CASE ~(callID[c] <= since)
    <3>1. callID[c] < since'
      BY <1>3, <1>5, <2>1, <2>2, <2>4, PollMoves DEF FollowInv, IInv, TypeOK
    <3>2. <<numbering, callID[c]>> \in overtaken'
      BY <2>1, <3>1 DEF Poll
    <3> QED
      BY <2>1, <3>2 DEF Settled
  <2> QED
    BY <2>3, <2>4
<1> QED
  BY <1>1, <1>2, <1>3, <1>4, <1>5 DEF FollowInv, vars

(* A call comes, is upgraded, is recorded or panics: its id moves from in  *)
(* flight to the history, or away.                                         *)
LEMMA CallKeeps == ASSUME FollowInv, Call PROVE FollowInv'
<1>1. PICK c \in Clients : NextCallID(c) \/ Upgrade(c) \/ RecordCall(c)
                           \/ RecordWS(c) \/ Panic(c)
  BY DEF Call
<1>2. UNCHANGED <<since, printed, overtaken, numbering, floor>>
  BY DEF Call, follower
<1>3. IInv'
  BY <1>1, NextKeeps DEF FollowInv, Next
<1>4. nextID \in Nat /\ nextID' \in Nat /\ nextID <= nextID'
  BY <1>1, <1>3 DEF NextCallID, Upgrade, RecordCall, RecordWS, Panic, FollowInv, IInv, TypeOK
<1>5. Listed' \subseteq Listed \cup {callID[c]}
  <2>1. calls' = calls \/ \E kind \in Kinds :
          calls' = Append(calls, [id |-> callID[c], kind |-> kind])
    BY <1>1 DEF NextCallID, Upgrade, RecordCall, RecordWS, Panic, Kinds
  <2>2. ASSUME NEW kind \in Kinds, calls' = Append(calls, [id |-> callID[c], kind |-> kind])
        PROVE  Listed' \subseteq Listed \cup {callID[c]}
    <3>1. \A k \in DOMAIN calls' : calls'[k].id = callID[c] \/ (k \in DOMAIN calls /\ calls'[k] = calls[k])
      BY <2>2 DEF FollowInv, IInv, TypeOK
    <3> QED
      BY <3>1 DEF Listed
  <2> QED
    BY <2>1, <2>2 DEF Listed
<1>6. Listed' # Listed => Serving(c)
  BY <1>1 DEF NextCallID, Upgrade, RecordCall, RecordWS, Panic, Listed
<1>7. \A d \in Clients :
        \/ callID'[d] = callID[d]
        \/ callID'[d] = 0
        \/ callID'[d] = nextID + 1
  BY <1>1 DEF NextCallID, Upgrade, RecordCall, RecordWS, Panic, Leave, FollowInv, IInv, TypeOK
<1>8. LosesOnlySlowCalls'
  BY <1>2, <1>5, <1>6 DEF FollowInv, LosesOnlySlowCalls, Settled, Serving
<1>9. ASSUME NEW d \in Clients, Serving(d)', callID'[d] <= since'
      PROVE  Settled(callID[d])'
  <2>1. CASE callID'[d] = callID[d]
    BY <1>2, <1>9, <2>1 DEF FollowInv, Settled, Serving
  <2>2. CASE callID'[d] = nextID + 1
    BY <1>2, <1>4, <1>9, <2>2 DEF FollowInv, Settled
  <2> QED
    BY <1>7, <1>9, <2>1, <2>2 DEF Serving
<1> QED
  BY <1>2, <1>3, <1>4, <1>8, <1>9 DEF FollowInv

(* A clear empties the history; if it restarts the ids, nobody is in       *)
(* flight.                                                                 *)
LEMMA ClearCallsKeeps == ASSUME FollowInv, ClearCalls PROVE FollowInv'
<1>1. Clear /\ UNCHANGED <<since, printed, overtaken>>
  BY DEF ClearCalls, follower
<1>2. IInv'
  BY <1>1, NextKeeps DEF FollowInv, Next
<1>3. Listed' = {} /\ callID' = callID
  BY <1>1 DEF Clear, Listed
<1>4. LosesOnlySlowCalls'
  BY <1>3 DEF LosesOnlySlowCalls
<1>5. CASE nextID' < nextID
  <2>1. numbering' = numbering + 1 /\ floor' = since
    BY <1>5 DEF ClearCalls
  <2>2. inFlight = 0
    BY <1>1, <1>5 DEF Clear, FollowInv, IInv, TypeOK
  <2>3. \A c \in Clients : ~Serving(c)
    BY <2>2, NobodyInFlight DEF FollowInv, Serving
  <2> QED
    BY <1>1, <1>2, <1>3, <1>4, <2>1, <2>3 DEF FollowInv, Serving
<1>6. CASE ~(nextID' < nextID)
  <2>1. UNCHANGED <<numbering, floor>> /\ nextID' = nextID
    BY <1>1, <1>6 DEF ClearCalls, Clear, FollowInv, IInv, TypeOK
  <2> QED
    BY <1>1, <1>2, <1>3, <1>4, <2>1 DEF FollowInv, Serving, Settled
<1> QED
  BY <1>5, <1>6

(* FollowInv holds however polls, calls and clears interleave.             *)
LEMMA FollowInductive ==
  /\ PInit => FollowInv
  /\ FollowInv /\ (PNext \/ UNCHANGED pvars) => FollowInv'
<1>1. PInit => FollowInv
  <2> SUFFICES ASSUME PInit PROVE FollowInv
    OBVIOUS
  <2>1. IInv
    BY InitIInv DEF PInit
  <2> QED
    BY <2>1 DEF PInit, Init, FollowInv, LosesOnlySlowCalls, Listed, Serving
<1>2. FollowInv /\ UNCHANGED pvars => FollowInv'
  <2> SUFFICES ASSUME FollowInv, UNCHANGED pvars PROVE FollowInv'
    OBVIOUS
  <2>1. IInv'
    BY NextKeeps DEF pvars, FollowInv
  <2> QED
    BY <2>1 DEF pvars, follower, vars, FollowInv, LosesOnlySlowCalls, Listed,
                Serving, Settled
<1> QED
  BY <1>1, <1>2, PollKeeps, CallKeeps, ClearCallsKeeps DEF PNext

-----------------------------------------------------------------------------
(* The histories of names whose listeners are replaced (ListenerHistory).  *)
None == Replaced!None
CallOf == [gen : Nat, id : Nat]
Generation == [name : Names, port : Ports, profile : Profiles,
               open : BOOLEAN, nextID : Nat, calls : Seq(CallOf)]

GenerationTypes ==
  /\ gens \in Seq(Generation)
  /\ current \in [Names -> Nat] /\ requests \in [Profiles -> Nat]
  /\ call \in [Calls -> CallOf] /\ born \in [Names -> Nat]

(* Numbers are handed out in order, and each once.                         *)
NumbersBounded ==
  \A x \in numbered : /\ x.profile \in Profiles /\ x.number \in Nat
                      /\ x.number <= requests[x.profile]

(* A name's registered generation is one of its own, and none from before  *)
(* the name was last created.                                              *)
CurrentIsOwn ==
  \A n \in Names :
    current[n] # 0 => /\ current[n] \in DOMAIN gens /\ gens[current[n]].name = n
                      /\ current[n] >= born[n]

(* A running call has an id of its own, of the generation it arrived at.   *)
RunningIsOwn ==
  /\ \A c \in Calls : call[c] # None =>
       /\ call[c].gen \in DOMAIN gens
       /\ call[c].id \in 1..gens[call[c].gen].nextID
  /\ \A c, d \in Calls : call[c] = call[d] /\ call[c] # None => c = d

(* What generation g has recorded: calls of its own, each once, and none   *)
(* that is running.                                                        *)
RecordedOnce(g) ==
  LET list == gens[g].calls IN
  /\ \A i \in DOMAIN list : list[i].gen = g /\ list[i].id \in 1..gens[g].nextID
  /\ \A i, j \in DOMAIN list : list[i].id = list[j].id => i = j
  /\ \A i \in DOMAIN list, c \in Calls : call[c] # list[i]

ReplacedInv ==
  /\ GenerationTypes /\ NumbersBounded /\ NumbersUnique
  /\ CurrentIsOwn /\ RunningIsOwn
  /\ \A g \in DOMAIN gens : RecordedOnce(g)

(* Nothing is served before the first PUT.                                 *)
LEMMA ReplacedInit == Replaced!Init => ReplacedInv
BY DEF Replaced!Init, ReplacedInv, GenerationTypes, NumbersBounded, NumbersUnique,
       Replaced!NumbersUnique, CurrentIsOwn, RunningIsOwn, RecordedOnce,
       CallOf, None, Replaced!None

(* A PUT appends a generation without calls and registers it.              *)
LEMMA UpsertKeeps ==
  ASSUME ReplacedInv, NEW n \in Names, NEW a \in Ports \cup {AnyPort}, NEW p \in Profiles,
         Replaced!UpsertListener(n, a, p)
  PROVE  ReplacedInv'
<1>1. PICK port \in Ports : gens' = Append(gens, Replaced!Build(n, port, p))
  BY DEF Replaced!UpsertListener, Replaced!Register, Replaced!Free
<1>2. /\ current' = [current EXCEPT ![n] = Len(gens) + 1]
      /\ born' = [born EXCEPT ![n] = IF current[n] = 0 THEN Len(gens) + 1 ELSE @]
      /\ UNCHANGED <<requests, call, numbered>>
  BY DEF Replaced!UpsertListener, Replaced!Register
<1> DEFINE new == Replaced!Build(n, port, p)
<1>3. new \in Generation /\ new.calls = <<>> /\ new.name = n
  BY DEF Replaced!Build, Generation
<1>4. /\ Len(gens) \in Nat /\ Len(gens') = Len(gens) + 1
      /\ gens' \in Seq(Generation)
      /\ gens'[Len(gens) + 1] = new
      /\ \A g \in DOMAIN gens : g # Len(gens) + 1 /\ gens'[g] = gens[g]
      /\ DOMAIN gens' = DOMAIN gens \cup {Len(gens) + 1}
  BY <1>1, <1>3 DEF ReplacedInv, GenerationTypes
<1>5. GenerationTypes'
  BY <1>2, <1>4 DEF ReplacedInv, GenerationTypes
<1>6. NumbersBounded' /\ NumbersUnique'
  BY <1>2 DEF ReplacedInv, NumbersBounded, NumbersUnique, Replaced!NumbersUnique
<1>7. \A m \in Names : current'[m] = IF m = n THEN Len(gens) + 1 ELSE current[m]
  BY <1>2 DEF ReplacedInv, GenerationTypes
<1>8. CurrentIsOwn'
  <2> SUFFICES ASSUME NEW m \in Names, current'[m] # 0
               PROVE  /\ current'[m] \in DOMAIN gens' /\ gens'[current'[m]].name = m
                      /\ current'[m] >= born'[m]
    BY DEF CurrentIsOwn
  <2>1. CASE m = n
    <3>1. born[n] \in Nat /\ (current[n] # 0 => Len(gens) >= born[n])
      BY <1>4 DEF ReplacedInv, CurrentIsOwn, GenerationTypes
    <3>2. born'[n] = IF current[n] = 0 THEN Len(gens) + 1 ELSE born[n]
      BY <1>2 DEF ReplacedInv, GenerationTypes
    <3> QED
      BY <1>3, <1>4, <1>7, <2>1, <3>1, <3>2
  <2>2. CASE m # n
    <3>1. /\ current'[m] = current[m] /\ born'[m] = born[m]
          /\ current[m] \in DOMAIN gens /\ gens[current[m]].name = m /\ current[m] >= born[m]
      BY <1>2, <1>7, <2>2 DEF ReplacedInv, CurrentIsOwn, GenerationTypes
    <3> QED
      BY <1>4, <3>1
  <2> QED
    BY <2>1, <2>2
<1>9. RunningIsOwn'
  BY <1>2, <1>4 DEF ReplacedInv, RunningIsOwn
<1>11. ASSUME NEW g \in DOMAIN gens' PROVE RecordedOnce(g)'
  <2>1. CASE g = Len(gens) + 1
    BY <1>3, <1>4, <2>1 DEF RecordedOnce
  <2>2. CASE g \in DOMAIN gens
    <3>1. gens'[g] = gens[g] /\ RecordedOnce(g)
      BY <1>4, <2>2 DEF ReplacedInv
    <3> QED
      BY <1>2, <3>1 DEF RecordedOnce
  <2> QED
    BY <1>4, <2>1, <2>2
<1> QED
  BY <1>5, <1>6, <1>8, <1>9, <1>11 DEF ReplacedInv

(* One generation changes.                                                 *)
LEMMA GenerationChanges ==
  ASSUME GenerationTypes, NEW g \in DOMAIN gens, NEW e \in Generation,
         gens' = [gens EXCEPT ![g] = e]
  PROVE  /\ gens' \in Seq(Generation) /\ DOMAIN gens' = DOMAIN gens /\ gens'[g] = e
         /\ \A h \in DOMAIN gens : h # g => gens'[h] = gens[h]
<1>1. gens \in Seq(Generation)
  BY DEF GenerationTypes
<1> HIDE DEF Generation
<1>2. gens' \in Seq(Generation)
  BY <1>1, ExceptSeq
<1> QED
  BY <1>1, <1>2

(* A call takes the next id of its generation and the next number of its   *)
(* profile.                                                                *)
LEMMA ArriveKeeps ==
  ASSUME ReplacedInv, NEW c \in Calls, NEW g \in DOMAIN gens, Replaced!Arrive(c, g)
  PROVE  ReplacedInv'
<1> DEFINE id == gens[g].nextID + 1
           p  == gens[g].profile
           x  == [gen |-> g, id |-> id, profile |-> p, number |-> requests[p] + 1]
<1>1. /\ call[c] = None
      /\ gens' = [gens EXCEPT ![g].nextID = id]
      /\ call' = [call EXCEPT ![c] = [gen |-> g, id |-> id]]
      /\ requests' = [requests EXCEPT ![p] = @ + 1]
      /\ numbered' = numbered \cup {x}
      /\ UNCHANGED <<current, born>>
  BY DEF Replaced!Arrive, None
<1>2. gens[g] \in Generation /\ p \in Profiles /\ id \in Nat /\ g \in Nat
  <2>1. gens[g] \in Generation /\ g \in Nat
    BY DEF ReplacedInv, GenerationTypes
  <2> QED
    BY <2>1 DEF Generation
<1>3. /\ DOMAIN gens' = DOMAIN gens
      /\ gens'[g] = [gens[g] EXCEPT !.nextID = id]
      /\ \A h \in DOMAIN gens : h # g => gens'[h] = gens[h]
  BY <1>1, <1>2 DEF ReplacedInv, GenerationTypes
<1>4. \A h \in DOMAIN gens : /\ gens'[h].name = gens[h].name
                             /\ gens'[h].calls = gens[h].calls
                             /\ gens[h].nextID \in Nat /\ gens'[h].nextID \in Nat
                             /\ gens'[h].nextID >= gens[h].nextID
  <2>1. \A h \in DOMAIN gens : gens[h] \in Generation
    BY DEF ReplacedInv, GenerationTypes
  <2>2. \A h \in DOMAIN gens : gens[h].nextID \in Nat
    BY <2>1 DEF Generation
  <2>3. /\ gens'[g].name = gens[g].name /\ gens'[g].calls = gens[g].calls
        /\ gens'[g].nextID = gens[g].nextID + 1
    BY <1>2, <1>3 DEF Generation
  <2>4. ASSUME NEW h \in DOMAIN gens
        PROVE  /\ gens'[h].name = gens[h].name /\ gens'[h].calls = gens[h].calls
               /\ gens'[h].nextID = gens[h].nextID \/ gens'[h].nextID = gens[h].nextID + 1
    BY <1>3, <2>3
  <2> HIDE DEF id, p, x
  <2> QED
    BY <2>2, <2>4
<1>5. \A d \in Calls : call'[d] = IF d = c THEN [gen |-> g, id |-> id] ELSE call[d]
  BY <1>1 DEF ReplacedInv, GenerationTypes
<1>6. GenerationTypes'
  <2>1. gens' \in Seq(Generation)
    <3>1. gens'[g] \in Generation
      BY <1>2, <1>3 DEF Generation
    <3> QED
      BY <1>1, <1>3, <3>1 DEF ReplacedInv, GenerationTypes
  <2> QED
    BY <1>1, <1>2, <2>1 DEF ReplacedInv, GenerationTypes, CallOf
<1>7. NumbersBounded' /\ NumbersUnique'
  BY <1>1, <1>2 DEF ReplacedInv, GenerationTypes, NumbersBounded, NumbersUnique,
                    Replaced!NumbersUnique
<1>8. CurrentIsOwn'
  BY <1>1, <1>3, <1>4 DEF ReplacedInv, CurrentIsOwn
<1>9. /\ \A d \in Calls : call[d] # [gen |-> g, id |-> id]
      /\ [gen |-> g, id |-> id] # None
  <2>1. \A d \in Calls : call[d] # None /\ call[d].gen = g => call[d].id < id
    BY <1>2 DEF ReplacedInv, RunningIsOwn, GenerationTypes, CallOf, Generation
  <2> QED
    BY <1>2, <2>1 DEF None, Replaced!None, Generation
<1>10. RunningIsOwn'
  <2>1. ASSUME NEW d \in Calls, call'[d] # None
        PROVE  /\ call'[d].gen \in DOMAIN gens'
               /\ call'[d].id \in 1..gens'[call'[d].gen].nextID
    <3>1. CASE d = c
      BY <1>2, <1>3, <1>5, <3>1 DEF Generation
    <3>2. CASE d # c
      <4>1. /\ call'[d] = call[d] /\ call[d].gen \in DOMAIN gens
            /\ call[d].id \in 1..gens[call[d].gen].nextID
        BY <1>5, <2>1, <3>2 DEF ReplacedInv, RunningIsOwn
      <4> QED
        BY <1>3, <1>4, <4>1
    <3> QED
      BY <3>1, <3>2
  <2>2. \A d, e \in Calls : call'[d] = call'[e] /\ call'[d] # None => d = e
    BY <1>5, <1>9 DEF ReplacedInv, RunningIsOwn
  <2> QED
    BY <2>1, <2>2 DEF RunningIsOwn, None, Replaced!None
<1>11. ASSUME NEW h \in DOMAIN gens' PROVE RecordedOnce(h)'
  <2> DEFINE list == gens[h].calls
  <2>1. list = gens'[h].calls /\ RecordedOnce(h) /\ h \in DOMAIN gens
    BY <1>3, <1>4 DEF ReplacedInv
  <2>2. gens[h] \in Generation /\ gens'[h] \in Generation
    BY <1>3, <1>6 DEF ReplacedInv, GenerationTypes
  <2>3. \A i \in DOMAIN list : list[i].gen = h /\ list[i].id \in 1..gens'[h].nextID
    BY <1>3, <1>4, <2>1, <2>2 DEF RecordedOnce, Generation
  <2>4. ASSUME NEW i \in DOMAIN list, NEW d \in Calls
        PROVE  call'[d] # list[i]
    <3>1. list[i].gen = h /\ list[i].id \in 1..gens[h].nextID /\ call[d] # list[i]
      BY <2>1 DEF RecordedOnce
    <3> QED
      BY <1>2, <1>4, <1>5, <2>1, <3>1
  <2> QED
    BY <2>1, <2>3, <2>4 DEF RecordedOnce
<1> QED
  BY <1>6, <1>7, <1>8, <1>10, <1>11 DEF ReplacedInv

(* A call that ends is recorded in the generation it arrived at.           *)
LEMMA RecordOwnKeeps ==
  ASSUME ReplacedInv, NEW c \in Calls, Replaced!Record(c)
  PROVE  ReplacedInv'
<1> DEFINE g  == call[c].gen
           id == call[c].id
           m  == gens[g].name
<1>1. /\ call[c] # None
      /\ gens' = [gens EXCEPT ![g].calls = Append(@, call[c])]
      /\ call' = [call EXCEPT ![c] = None]
      /\ UNCHANGED <<current, requests, numbered, born>>
  BY DEF Replaced!Record, Replaced!Recorder, None
<1>2. /\ g \in DOMAIN gens /\ id \in 1..gens[g].nextID
      /\ gens[g] \in Generation /\ m \in Names /\ id \in Nat
      /\ call[c] = [gen |-> g, id |-> id] /\ call[c] \in CallOf
  <2>1. g \in DOMAIN gens /\ id \in 1..gens[g].nextID
    BY <1>1 DEF ReplacedInv, RunningIsOwn
  <2>2. gens[g] \in Generation /\ call[c] \in CallOf
    BY <2>1 DEF ReplacedInv, GenerationTypes
  <2> QED
    BY <2>1, <2>2 DEF Generation, CallOf
<1>3. /\ DOMAIN gens' = DOMAIN gens
      /\ gens'[g] = [gens[g] EXCEPT !.calls = Append(gens[g].calls, call[c])]
      /\ \A h \in DOMAIN gens : h # g => gens'[h] = gens[h]
  BY <1>1, <1>2 DEF ReplacedInv, GenerationTypes
<1>4. \A h \in DOMAIN gens : /\ gens'[h].name = gens[h].name
                             /\ gens'[h].nextID = gens[h].nextID
  BY <1>2, <1>3 DEF Generation
<1>5. \A d \in Calls : call'[d] = IF d = c THEN None ELSE call[d]
  BY <1>1 DEF ReplacedInv, GenerationTypes
<1>6. GenerationTypes'
  <2>1. gens' \in Seq(Generation)
    <3>1. gens[g].calls \in Seq(CallOf)
      BY <1>2 DEF Generation
    <3>2. Append(gens[g].calls, call[c]) \in Seq(CallOf)
      BY <1>2, <3>1
    <3>3. gens'[g] \in Generation
      BY <1>2, <1>3, <3>2 DEF Generation
    <3>4. gens' = [gens EXCEPT ![g] = gens'[g]]
      BY <1>1, <1>2, <1>3 DEF ReplacedInv, GenerationTypes
    <3> QED
      BY <1>2, <3>3, <3>4, GenerationChanges DEF ReplacedInv
  <2>2. None \in CallOf
    BY DEF None, Replaced!None, CallOf
  <2> QED
    BY <1>1, <1>2, <2>1, <2>2 DEF ReplacedInv, GenerationTypes
<1>7. NumbersBounded' /\ NumbersUnique' /\ CurrentIsOwn'
  BY <1>1, <1>3, <1>4 DEF ReplacedInv, NumbersBounded, NumbersUnique,
                          Replaced!NumbersUnique, CurrentIsOwn
<1>8. RunningIsOwn'
  BY <1>3, <1>4, <1>5 DEF ReplacedInv, RunningIsOwn, None, Replaced!None
<1> DEFINE list == gens[g].calls
           more == gens'[g].calls
<1>9. /\ list \in Seq(CallOf) /\ more = Append(list, call[c])
      /\ DOMAIN more = DOMAIN list \cup {Len(list) + 1}
      /\ \A i \in DOMAIN list : more[i] = list[i] /\ list[i] \in CallOf
      /\ more[Len(list) + 1] = call[c] /\ Len(list) + 1 \notin DOMAIN list
  BY <1>2, <1>3 DEF Generation
<1>10. \A i \in DOMAIN list : list[i].id # id
  BY <1>2, <1>9 DEF ReplacedInv, RecordedOnce, CallOf
<1>12. ASSUME NEW h \in DOMAIN gens' PROVE RecordedOnce(h)'
  <2>1. h \in DOMAIN gens /\ RecordedOnce(h)
    BY <1>3 DEF ReplacedInv
  <2>2. CASE h # g
    <3>1. gens'[h] = gens[h] /\ h # 0
      BY <1>3, <2>1, <2>2 DEF ReplacedInv, GenerationTypes
    <3>2. \A i \in DOMAIN gens[h].calls, d \in Calls : call'[d] # gens[h].calls[i]
      BY <1>5, <2>1, <3>1 DEF RecordedOnce, None, Replaced!None
    <3> QED
      BY <2>1, <3>1, <3>2 DEF RecordedOnce
  <2>3. CASE h = g
    <3>1. \A i \in DOMAIN more : more[i].gen = g /\ more[i].id \in 1..gens'[g].nextID
      BY <1>2, <1>4, <1>9, <2>1, <2>3 DEF RecordedOnce
    <3>2. \A i, j \in DOMAIN more : more[i].id = more[j].id => i = j
      <4>1. \A i, j \in DOMAIN list : list[i].id = list[j].id => i = j
        BY <2>1, <2>3 DEF RecordedOnce
      <4>2. call[c].id = id
        OBVIOUS
      <4> HIDE DEF list, more, id
      <4> QED
        BY <1>9, <1>10, <4>1, <4>2
    <3>3. ASSUME NEW i \in DOMAIN more, NEW d \in Calls
          PROVE  call'[d] # more[i]
      <4>1. g # 0
        BY <1>2 DEF ReplacedInv, GenerationTypes
      <4>2. CASE d = c
        BY <1>5, <3>1, <4>1, <4>2 DEF None, Replaced!None
      <4>3. CASE d # c /\ i \in DOMAIN list
        <5>1. call'[d] = call[d] /\ more[i] = list[i]
          BY <1>5, <1>9, <4>3
        <5>2. call[d] # list[i]
          BY <2>1, <2>3, <4>3 DEF RecordedOnce
        <5> QED
          BY <5>1, <5>2
      <4>4. CASE d # c /\ i = Len(list) + 1
        <5>1. call'[d] = call[d] /\ more[i] = call[c] /\ call[d] # call[c]
          BY <1>1, <1>5, <1>9, <4>4 DEF ReplacedInv, RunningIsOwn
        <5> QED
          BY <1>2, <5>1
      <4> QED
        BY <1>9, <4>2, <4>3, <4>4
    <3> QED
      BY <2>3, <3>1, <3>2, <3>3 DEF RecordedOnce
  <2> QED
    BY <2>2, <2>3
<1> QED
  BY <1>6, <1>7, <1>8, <1>12 DEF ReplacedInv

(* The other steps leave every history as it is.                           *)
LEMMA OthersKeep ==
  ASSUME ReplacedInv,
         \/ \E n \in Names, a \in Ports : Replaced!BindFails(n, a)
         \/ \E n \in Names : Replaced!DeleteListener(n)
         \/ \E g \in DOMAIN gens : Replaced!CloseOld(g)
         \/ UNCHANGED rvars
  PROVE  ReplacedInv'
<1>1. CASE UNCHANGED <<gens, current, requests, call, numbered, born>>
  BY <1>1 DEF ReplacedInv, GenerationTypes, NumbersBounded, NumbersUnique,
       Replaced!NumbersUnique, CurrentIsOwn, RunningIsOwn, RecordedOnce
<1>2. ASSUME NEW n \in Names, Replaced!DeleteListener(n) PROVE ReplacedInv'
  <2>1. /\ current' = [current EXCEPT ![n] = 0]
        /\ UNCHANGED <<gens, requests, call, numbered, born>>
    BY <1>2 DEF Replaced!DeleteListener
  <2>2. \A m \in Names : current'[m] = 0 \/ current'[m] = current[m]
    BY <2>1 DEF ReplacedInv, GenerationTypes
  <2>3. GenerationTypes'
    BY <2>1 DEF ReplacedInv, GenerationTypes
  <2> QED
    BY <2>1, <2>2, <2>3 DEF ReplacedInv, NumbersBounded, NumbersUnique,
       Replaced!NumbersUnique, CurrentIsOwn, RunningIsOwn, RecordedOnce
<1>3. ASSUME NEW g \in DOMAIN gens, Replaced!CloseOld(g) PROVE ReplacedInv'
  <2>1. /\ gens' = [gens EXCEPT ![g].open = FALSE]
        /\ UNCHANGED <<current, requests, call, numbered, born>>
    BY <1>3 DEF Replaced!CloseOld
  <2>2. gens[g] \in Generation
    BY DEF ReplacedInv, GenerationTypes
  <2>3. /\ DOMAIN gens' = DOMAIN gens /\ gens' \in Seq(Generation)
        /\ \A h \in DOMAIN gens : /\ gens'[h].name = gens[h].name
                                  /\ gens'[h].nextID = gens[h].nextID
                                  /\ gens'[h].calls = gens[h].calls
    <3>1. /\ gens'[g] = [gens[g] EXCEPT !.open = FALSE] /\ DOMAIN gens' = DOMAIN gens
          /\ \A h \in DOMAIN gens : h # g => gens'[h] = gens[h]
      BY <2>1 DEF ReplacedInv, GenerationTypes
    <3>2. /\ gens'[g] \in Generation /\ gens'[g].name = gens[g].name
          /\ gens'[g].nextID = gens[g].nextID /\ gens'[g].calls = gens[g].calls
      BY <2>2, <3>1 DEF Generation
    <3>3. gens' = [gens EXCEPT ![g] = gens'[g]]
      BY <2>1, <3>1 DEF ReplacedInv, GenerationTypes
    <3> QED
      BY <3>1, <3>2, <3>3, GenerationChanges DEF ReplacedInv
  <2> QED
    BY <2>1, <2>3 DEF ReplacedInv, GenerationTypes, NumbersBounded, NumbersUnique,
       Replaced!NumbersUnique, CurrentIsOwn, RunningIsOwn, RecordedOnce
<1> QED
  BY <1>1, <1>2, <1>3 DEF Replaced!BindFails, rvars

(* Every step of ListenerHistory keeps its invariant.                      *)
LEMMA ReplacedKeeps == ReplacedInv /\ (Replaced!Next \/ UNCHANGED rvars) => ReplacedInv'
BY UpsertKeeps, ArriveKeeps, RecordOwnKeeps, OthersKeep
   DEF Replaced!Next, Replaced!Generations

-----------------------------------------------------------------------------
(* The run's specification: both parts keep their invariants.              *)
THEOREM HistoryInvariance == HSpec => [](FollowInv /\ ReplacedInv)
<1>1. HInit => FollowInv /\ ReplacedInv
  BY FollowInductive, ReplacedInit DEF HInit
<1>2. FollowInv /\ ReplacedInv /\ [HNext]_hvars => (FollowInv /\ ReplacedInv)'
  <2>1. HNext \/ UNCHANGED hvars =>
          (PNext \/ UNCHANGED pvars) /\ (Replaced!Next \/ UNCHANGED rvars)
    BY DEF HNext, hvars
  <2> QED
    BY <2>1, FollowInductive, ReplacedKeeps
<1> QED
  BY <1>1, <1>2, PTL DEF HSpec

(* A follower with -since loses no call but those that a later call        *)
(* overtook, and those whose ids were used before the ids restarted        *)
(* (runListenerCallsList).                                                 *)
THEOREM LosesNoOthers == HSpec => []LosesOnlySlowCalls
BY HistoryInvariance, PTL DEF FollowInv

(* No number of a profile's request is given out twice, whatever is put    *)
(* and deleted (IncrementProfileRequest).                                  *)
THEOREM NumbersStayUnique == HSpec => []NumbersUnique
BY HistoryInvariance, PTL DEF ReplacedInv

(* A name's history holds no call of before it was deleted, however late   *)
(* that call ends; it holds each call once, after it has ended             *)
(* (recordingMiddleware).                                                  *)
THEOREM NothingCarriesOver == HSpec => []NoCarryover
<1>1. ReplacedInv => NoCarryover
  <2> SUFFICES ASSUME ReplacedInv, NEW n \in Names, current[n] # 0
               PROVE  LET list == gens[current[n]].calls IN
                      /\ \A i, j \in DOMAIN list : list[i].id = list[j].id => i = j
                      /\ \A i \in DOMAIN list : /\ list[i].gen \in Replaced!Life(n)
                                                /\ \A c \in Calls : call[c] # list[i]
    BY DEF NoCarryover, Replaced!NoCarryover, Replaced!ListCalls
  <2>1. RecordedOnce(current[n]) /\ current[n] \in Replaced!Life(n)
    BY DEF ReplacedInv, CurrentIsOwn, Replaced!Life, Replaced!Generations
  <2> QED
    BY <2>1 DEF RecordedOnce
<1> QED
  BY <1>1, HistoryInvariance, PTL
=============================================================================
