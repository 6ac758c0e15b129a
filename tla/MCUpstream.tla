----------------------------- MODULE MCUpstream -----------------------------
(***************************************************************************)
(* Both ways of asking an Ollama upstream: one streamed call               *)
(* (OllamaStream), and two plain ones that share the clients' connections  *)
(* (UpstreamCall).  part tells which a behaviour is about; the other's     *)
(* variables keep their initial values.                                    *)
(***************************************************************************)
EXTENDS OllamaStream

CONSTANTS Requests, r1, r2, Addresses, Nothing
VARIABLES profile, at, dialing, pool, conn, used, result, part

cvars == <<profile, at, dialing, pool, conn, used, result>>
Plain == INSTANCE UpstreamCall WITH pc <- at, idle <- pool

ASSUME AddressesMeet == Plain!UpstreamAssumption

(* Addresses of every class, wrapped and not.                              *)
MCAddresses ==
  {[wrap |-> "plain", kind |-> k] : k \in {"private", "public"}}
  \cup {[wrap |-> "nat64", kind |-> "private"], [wrap |-> "6to4", kind |-> "link-local"]}

uvars == <<vars, cvars, part>>
Streamed(A) == part = "stream" /\ A /\ UNCHANGED <<cvars, part>>
Called(A)   == part = "call" /\ A /\ UNCHANGED <<vars, part>>

(* While a call streams, the profiles of the plain calls matter to nobody. *)
UInit ==
  /\ Init /\ Plain!Init
  /\ \/ part = "call"
     \/ part = "stream" /\ profile = CHOOSE p \in [Requests -> Plain!Profiles] : TRUE
UNext == Streamed(Next) \/ Called(Plain!Next)
USpec ==
  /\ UInit /\ [][UNext]_uvars
  /\ WF_uvars(Streamed(Caller))
  /\ \A c \in Callbacks : WF_uvars(Streamed(Alarm(c)))
  /\ <>[][~ResetTimer]_vars => WF_uvars(Streamed(\E c \in Callbacks : Expire(c)))

PolicyHolds == Plain!PolicyHolds

(* A streamed call that is cancelled, or whose upstream has fallen silent, *)
(* returns (StallEndsCall of OllamaStream).                                *)
StalledCallReturns == part = "stream" => StallEndsCall
=============================================================================
