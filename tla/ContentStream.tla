--------------------------- MODULE ContentStream ---------------------------
(***************************************************************************)
(* What a content backend promises the handler that streams from it: the   *)
(* deltas are handed over one at a time, in the order the source produced  *)
(* them and none twice, and the call ends once.  Success means that every  *)
(* delta of a finished source was handed over; a failure may come at any   *)
(* time.                                                                   *)
(***************************************************************************)
EXTENDS Naturals

VARIABLES produced,   (* positions of the deltas the source has produced   *)
          finished,   (* the source has ended properly                     *)
          taken,      (* positions of the deltas handed over               *)
          result      (* "none" until the call ends, then "ok" or "failed" *)

cvars == <<produced, finished, taken, result>>

ContentInit ==
  /\ produced = {}
  /\ finished = FALSE
  /\ taken = {}
  /\ result = "none"

(* The source goes on, or ends, whether the call is still there or not.    *)
Produce ==
  /\ ~finished
  /\ produced \subseteq produced'
  /\ finished' \in BOOLEAN
  /\ \A k \in produced' \ produced, j \in produced : j < k
  /\ UNCHANGED <<taken, result>>

Take(k) ==
  /\ result = "none"
  /\ k \in produced \ taken
  /\ \A j \in produced : j < k => j \in taken
  /\ taken' = taken \cup {k}
  /\ UNCHANGED <<produced, finished, result>>

Succeed ==
  /\ result = "none"
  /\ finished /\ taken = produced
  /\ result' = "ok"
  /\ UNCHANGED <<produced, finished, taken>>

Fail ==
  /\ result = "none"
  /\ result' = "failed"
  /\ UNCHANGED <<produced, finished, taken>>

ContentNext ==
  \/ Produce
  \/ \E k \in produced : Take(k)
  \/ Succeed
  \/ Fail

ContentSpec == ContentInit /\ [][ContentNext]_cvars
=============================================================================
