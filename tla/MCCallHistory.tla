--------------------------- MODULE MCCallHistory ---------------------------
(***************************************************************************)
(* The call history of one listener with the client that follows it        *)
(* (CallPoller), and the histories of a name whose listener is replaced    *)
(* (ListenerHistory).  part tells which of the two a behaviour is about;   *)
(* the other's variables keep their initial values.                        *)
(***************************************************************************)
EXTENDS CallPoller, TLC

CONSTANTS Names, Ports, Profiles, Calls, AnyPort, MaxGenerations, MaxNumber
VARIABLES gens, current, requests, call, put, numbered, born, part

rvars == <<gens, current, requests, call, put, numbered, born>>
Replaced == INSTANCE ListenerHistory WITH Any <- AnyPort

HInit == PInit /\ Replaced!Init /\ part \in {"follow", "replace"}
HNext ==
  /\ \/ part = "follow" /\ PNext /\ UNCHANGED rvars
     \/ part = "replace" /\ Replaced!Next /\ UNCHANGED pvars
  /\ UNCHANGED part
hvars == <<pvars, rvars, part>>
HSpec == HInit /\ [][HNext]_hvars

NumbersUnique == Replaced!NumbersUnique
NoCarryover == Replaced!NoCarryover
HistorySurvivesPut == Replaced!HistorySurvivesPut

Symmetry == Permutations(Clients) \cup Permutations(Calls)
              \cup Permutations(Ports) \cup Permutations(Profiles)
=============================================================================
