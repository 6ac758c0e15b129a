----------------------------- MODULE MCListener -----------------------------
(***************************************************************************)
(* The end of a listener of either kind.  LocalListener's Managed is a     *)
(* constant: the module itself is checked as the fixed listener, and again *)
(* as a managed one, over the same variables; kind tells which it is.      *)
(***************************************************************************)
EXTENDS LocalListener

VARIABLE kind
kinds == <<vars, kind>>

Of(k, A) == kind = k /\ A /\ UNCHANGED kind
ManagedOne == INSTANCE LocalListener WITH Managed <- TRUE

KindInit == Init /\ kind \in {"fixed", "managed"}
KindNext == Of("fixed", Next) \/ Of("managed", ManagedOne!Next)
KindFairness ==
  /\ WF_kinds(Of("fixed", Owner) \/ Of("managed", ManagedOne!Owner))
  /\ \A c \in Calls : WF_kinds(Of("fixed", Sync(c)) \/ Of("managed", ManagedOne!Sync(c)))
KindSpec == KindInit /\ [][KindNext]_kinds /\ KindFairness
=============================================================================
