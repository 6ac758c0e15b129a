----------------------------- MODULE CallLedger -----------------------------
(***************************************************************************)
(* What a listener's call history promises: a call in flight and every     *)
(* call in the history has an identity of its own, a call enters the       *)
(* history once, when it completes, and only a Clear takes calls out.      *)
(* How identities are chosen is left open.                                 *)
(***************************************************************************)
EXTENDS Sequences, Naturals

CONSTANT Ids    (* the identities a call can get                           *)

VARIABLES open,      (* identities of the calls in flight                  *)
          history    (* identities of the recorded calls, oldest first     *)

lvars == <<open, history>>

InHistory(id) == \E k \in 1..Len(history) : history[k] = id

LedgerInit == open = {} /\ history = <<>>

Begin(id) ==
  /\ id \notin open
  /\ ~InHistory(id)
  /\ open' = open \cup {id}
  /\ UNCHANGED history

Complete(id) ==
  /\ id \in open
  /\ open' = open \ {id}
  /\ history' = Append(history, id)

(* The handler panics: net/http drops the connection, nothing is recorded. *)
Abandon(id) ==
  /\ id \in open
  /\ open' = open \ {id}
  /\ UNCHANGED history

Forget ==
  /\ history' = <<>>
  /\ UNCHANGED open

LedgerNext ==
  \/ \E id \in Ids : Begin(id) \/ Complete(id) \/ Abandon(id)
  \/ Forget

LedgerSpec == LedgerInit /\ [][LedgerNext]_lvars
=============================================================================
