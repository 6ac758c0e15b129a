--------------------------- MODULE MCControlPlane ---------------------------
(***************************************************************************)
(* ControlPlane over several names for its safety, and over one of them,   *)
(* Lone, for its liveness: part tells which.  Nobody is bound to ask about *)
(* a name, so the second part has fewer requests and the same handlers.    *)
(***************************************************************************)
EXTENDS ControlPlane

CONSTANT Lone
VARIABLE part

AboutLone == \A t \in Requests : req[t] # None => req[t].name = Lone
PartInit  == Init /\ part \in {"all", "lone"}
PartNext  == Next /\ UNCHANGED part /\ (part = "lone" => AboutLone')
PartSpec  == PartInit /\ [][PartNext]_<<vars, part>> /\ Fairness

(* No request waits for c.mu forever, and Close gets it too, whatever      *)
(* requests about the name contend for it (local_admin.go).                *)
LoneReturns == part = "lone" => RequestsReturn
LoneCloses  == part = "lone" => CloseCompletes
=============================================================================
