-------------------------- MODULE ListenerRegistry --------------------------
(***************************************************************************)
(* What the admin API promises about its registry, with every operation    *)
(* atomic: profiles and listeners come and go one request at a time, a     *)
(* profile that a registered listener names is never deleted, a name keeps *)
(* its listener while it is being replaced, and no two registered          *)
(* listeners advertise the same address.  Nothing here knows of locks,     *)
(* sockets or handlers: ControlPlane is shown to implement this module.    *)
(***************************************************************************)
CONSTANTS Profiles,   (* profile names                                     *)
          Configs,    (* contents a profile can have                       *)
          Names,      (* listener names                                    *)
          Ports,      (* addresses a listener can be bound to              *)
          None        (* "no such entry"                                   *)

VARIABLES profiles,   (* profile name -> its content, or None              *)
          registry    (* listener name -> [profile, port], or None         *)

rvars == <<profiles, registry>>

Listener == [profile : Profiles, port : Ports]

RegistryInit ==
  /\ profiles = [p \in Profiles |-> None]
  /\ registry = [n \in Names |-> None]

PutProfile(p, c) ==
  /\ profiles' = [profiles EXCEPT ![p] = c]
  /\ UNCHANGED registry

(* A profile is deleted only while no registered listener names it.        *)
RemoveProfile(p) ==
  /\ profiles[p] # None
  /\ \A n \in Names : registry[n] # None => registry[n].profile # p
  /\ profiles' = [profiles EXCEPT ![p] = None]
  /\ UNCHANGED registry

(* A listener is created or replaced in one step, at an address that no    *)
(* registered listener has: not another name's, and not its own old one.   *)
PutListener(n, l) ==
  /\ \A m \in Names : registry[m] # None => registry[m].port # l.port
  /\ registry' = [registry EXCEPT ![n] = l]
  /\ UNCHANGED profiles

RemoveListener(n) ==
  /\ registry[n] # None
  /\ registry' = [registry EXCEPT ![n] = None]
  /\ UNCHANGED profiles

RegistryNext ==
  \/ \E p \in Profiles, c \in Configs : PutProfile(p, c)
  \/ \E p \in Profiles : RemoveProfile(p)
  \/ \E n \in Names, l \in Listener : PutListener(n, l)
  \/ \E n \in Names : RemoveListener(n)

RegistrySpec == RegistryInit /\ [][RegistryNext]_rvars
=============================================================================
