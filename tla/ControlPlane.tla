---------------------------- MODULE ControlPlane ----------------------------
(***************************************************************************)
(* The local admin control plane (cmd/zolem/local_admin.go) over its       *)
(* runtime store (internal/runtime/store.go).                              *)
(*                                                                         *)
(* Each admin HTTP request runs in a goroutine of its own, and one more    *)
(* thread, Main, is the goroutine that stops the admin server and closes   *)
(* the control plane.  They share the store (profiles, specs), each of     *)
(* whose methods is atomic under the store's own mutex, and the map of     *)
(* managed listeners, which is guarded by c.mu (mu here).  An instance is  *)
(* one listener generation: the app built for it and the server bound to   *)
(* a port.                                                                 *)
(*                                                                         *)
(* Requests that change nothing (a GET, a validation error, ErrNotFound,   *)
(* ErrProfileInUse) are stuttering steps unless they held a thread at a    *)
(* lock or after a snapshot.                                               *)
(***************************************************************************)
EXTENDS FiniteSets

CONSTANTS Requests,   (* admin request goroutines                          *)
          Main,       (* the goroutine that runs runLocalAdmin             *)
          Profiles,   (* profile names                                     *)
          Configs,    (* contents a profile can have                       *)
          Names,      (* listener names                                    *)
          Ports,      (* addresses a listener can be bound to              *)
          Instances,  (* identities of app + server pairs, reused once     *)
                      (* nothing refers to them                            *)
          None        (* nil: no entry, no instance, no lock owner         *)

Threads == Requests \cup {Main}

ASSUME MainIsNoRequest == Main \notin Requests
ASSUME NoneIsNoValue ==
  /\ None \notin Threads
  /\ None \notin Configs
  /\ None \notin Instances
  /\ None \notin Ports
  /\ None \notin [profile : Profiles, port : Ports]

VARIABLES
  profiles,   (* store: profile name -> content, or None                   *)
  specs,      (* store: listener name -> [profile, port], or None          *)
  managed,    (* c.listeners: listener name -> instance, or None           *)
  mu,         (* owner of c.mu, or None                                    *)
  stage,      (* instance -> "none", "built", "open", "draining",          *)
              (* "drained"                                                 *)
  port,       (* instance -> port of its socket, or None before the bind   *)
  config,     (* instance -> the profile content it serves, or None        *)
  pc,         (* thread -> where its handler is                            *)
  req,        (* thread -> the handler's parameters and profile snapshot   *)
  inst,       (* thread -> the instance its handler works on, or None      *)
  graceful    (* TRUE iff Close began after every admin request had        *)
              (* returned, i.e. Shutdown did not give up at its deadline   *)

store  == <<profiles, specs>>
world  == <<stage, port, config>>
locals == <<pc, req, inst>>
vars   == <<profiles, specs, managed, mu, stage, port, config, pc, req, inst,
            graceful>>

-----------------------------------------------------------------------------
(* Types.                                                                  *)

Spec0     == [profile : Profiles, port : Ports]
UpsertReq == [name : Names, profile : Profiles, config : Configs]
DeleteReq == [name : Names]

Teardown  == {"close_server", "drain", "close_app"}
Dropping  == {"drop_map", "drop_spec"}
Upserting == {"build", "bind", "register", "swap_store", "swap_map"}
RequestPC == {"idle", "delete"} \cup Upserting \cup Teardown \cup Dropping
MainPC    == {"serving", "stopping", "closing", "closed"}
             \cup Teardown \cup Dropping

(* A request that was accepted before the server stopped may act at any    *)
(* time until the program exits, unless Shutdown has seen all of them out. *)
Unfinished == ~graceful

Init ==
  /\ profiles = [p \in Profiles |-> None]
  /\ specs    = [n \in Names |-> None]
  /\ managed  = [n \in Names |-> None]
  /\ mu       = None
  /\ stage    = [i \in Instances |-> "none"]
  /\ port     = [i \in Instances |-> None]
  /\ config   = [i \in Instances |-> None]
  /\ pc       = [t \in Threads |-> IF t = Main THEN "serving" ELSE "idle"]
  /\ req      = [t \in Threads |-> None]
  /\ inst     = [t \in Threads |-> None]
  /\ graceful = FALSE

(* The thread moves on, or its handler returns and its locals go away.     *)
Goto(t, to) == pc' = [pc EXCEPT ![t] = to]

Return(t) ==
  /\ Goto(t, "idle")
  /\ req'  = [req EXCEPT ![t] = None]
  /\ inst' = [inst EXCEPT ![t] = None]

-----------------------------------------------------------------------------
(* Profiles.                                                               *)

(* PUT /_zolem/profiles/p with a payload that passes validation.           *)
PutProfile(t, p, c) ==
  /\ Unfinished
  /\ pc[t] = "idle"
  /\ profiles' = [profiles EXCEPT ![p] = c]
  /\ UNCHANGED <<specs, managed, mu, world, locals, graceful>>

(* Mutant: the in-use check is gone.                                       *)
RemoveProfileUnchecked(t, p) ==
  /\ Unfinished
  /\ pc[t] = "idle"
  /\ profiles[p] # None
  /\ profiles' = [profiles EXCEPT ![p] = None]
  /\ UNCHANGED <<specs, managed, mu, world, locals, graceful>>

(* DELETE /_zolem/profiles/p: refused while a registered spec names p.     *)
RemoveProfile(t, p) ==
  /\ Unfinished
  /\ pc[t] = "idle"
  /\ \A n \in Names : specs[n] # None => specs[n].profile # p
  /\ profiles[p] # None
  /\ profiles' = [profiles EXCEPT ![p] = None]
  /\ UNCHANGED <<specs, managed, mu, world, locals, graceful>>

-----------------------------------------------------------------------------
(* PUT /_zolem/listeners/n: snapshot, build, bind, swap, tear the old down. *)

SnapshotProfile(t, n, p) ==
  /\ Unfinished
  /\ pc[t] = "idle"
  /\ profiles[p] # None
  /\ Goto(t, "build")
  /\ req' = [req EXCEPT ![t] =
               [name |-> n, profile |-> p, config |-> profiles[p]]]
  /\ UNCHANGED <<store, managed, mu, world, inst, graceful>>

(* The app is closed and nothing of the instance is left.                  *)
Vanish(i) ==
  /\ stage'  = [stage EXCEPT ![i] = "none"]
  /\ port'   = [port EXCEPT ![i] = None]
  /\ config' = [config EXCEPT ![i] = None]

(* No map entry and no handler refers to i: the identity can be reused.    *)
Unreferenced(i) ==
  /\ \A n \in Names : managed[n] # i
  /\ \A t \in Threads : inst[t] # i

(* Identities are interchangeable, so any one that is fresh will do.       *)
Fresh == CHOOSE i \in Instances : stage[i] = "none" /\ Unreferenced(i)

BuildApp(t) ==
  /\ pc[t] = "build"
  /\ \E i \in Instances : stage[i] = "none" /\ Unreferenced(i)
  /\ stage'  = [stage EXCEPT ![Fresh] = "built"]
  /\ config' = [config EXCEPT ![Fresh] = req[t].config]
  /\ inst'   = [inst EXCEPT ![t] = Fresh]
  /\ Goto(t, "bind")
  /\ UNCHANGED <<store, managed, mu, port, req, graceful>>

(* A bad spec or cap, or fixtures, generator or WASM module that do not    *)
(* load: the handler answers with the error.                               *)
BuildFails(t) ==
  /\ pc[t] = "build"
  /\ Return(t)
  /\ UNCHANGED <<store, managed, mu, world, graceful>>

(* A port belongs to a server from its bind until its Shutdown begins.     *)
PortFree(p) == \A i \in Instances : stage[i] = "open" => port[i] # p

(* The requested port, or any port when the request says ":0".             *)
Bind(t) ==
  /\ pc[t] = "bind"
  /\ \E p \in Ports :
       /\ PortFree(p)
       /\ port' = [port EXCEPT ![inst[t]] = p]
  /\ stage' = [stage EXCEPT ![inst[t]] = "open"]
  /\ Goto(t, "register")
  /\ UNCHANGED <<store, managed, mu, config, req, inst, graceful>>

(* The port is taken, by this program or another, or TLS is not set up.    *)
BindFails(t) ==
  /\ pc[t] = "bind"
  /\ Vanish(inst[t])
  /\ Return(t)
  /\ UNCHANGED <<store, managed, mu, graceful>>

(* Mutant: the swap does not wait for c.mu.                                *)
RegisterUnlocked(t) ==
  /\ pc[t] = "register"
  /\ mu' = t
  /\ Goto(t, "swap_store")
  /\ UNCHANGED <<store, managed, world, req, inst, graceful>>

LockToRegister(t) ==
  /\ pc[t] = "register"
  /\ mu = None
  /\ mu' = t
  /\ Goto(t, "swap_store")
  /\ UNCHANGED <<store, managed, world, req, inst, graceful>>

StoreListener(t) ==
  /\ pc[t] = "swap_store"
  /\ specs' = [specs EXCEPT ![req[t].name] =
                 [profile |-> req[t].profile, port |-> port[inst[t]]]]
  /\ Goto(t, "swap_map")
  /\ UNCHANGED <<profiles, managed, mu, world, req, inst, graceful>>

(* The bound address fails the bind policy: the new server is torn down.   *)
RejectListener(t) ==
  /\ pc[t] = "swap_store"
  /\ mu' = None
  /\ Goto(t, "close_server")
  /\ UNCHANGED <<store, managed, world, req, inst, graceful>>

(* Mutant: the replaced instance is forgotten.                             *)
SwapForgetsOld(t) ==
  /\ pc[t] = "swap_map"
  /\ managed' = [managed EXCEPT ![req[t].name] = inst[t]]
  /\ mu' = None
  /\ Return(t)
  /\ UNCHANGED <<store, world, graceful>>

(* The map takes the new instance and c.mu is released; the handler is     *)
(* left with the one it replaced, if any.                                  *)
SwapMap(t) ==
  LET n == req[t].name
      old == managed[n]
  IN /\ pc[t] = "swap_map"
     /\ managed' = [managed EXCEPT ![n] = inst[t]]
     /\ mu' = None
     /\ \/ /\ old = None
           /\ Return(t)
        \/ /\ old # None
           /\ inst' = [inst EXCEPT ![t] = old]
           /\ Goto(t, "close_server")
           /\ UNCHANGED req
     /\ UNCHANGED <<store, world, graceful>>

-----------------------------------------------------------------------------
(* Tearing an instance down.  A PUT does it to the instance it replaced,   *)
(* without c.mu; DELETE and Close do it to a registered one, holding c.mu. *)

(* Shutdown or Close of the server begins: its port is free again.         *)
CloseServer(t) ==
  /\ pc[t] = "close_server"
  /\ stage' = [stage EXCEPT ![inst[t]] = "draining"]
  /\ Goto(t, "drain")
  /\ UNCHANGED <<store, managed, mu, port, config, req, inst, graceful>>

(* The connections are idle, or two seconds are over and they are closed.  *)
Drained(t) ==
  /\ pc[t] = "drain"
  /\ stage' = [stage EXCEPT ![inst[t]] = "drained"]
  /\ Goto(t, "close_app")
  /\ UNCHANGED <<store, managed, mu, port, config, req, inst, graceful>>

CloseApp(t) ==
  /\ pc[t] = "close_app"
  /\ Vanish(inst[t])
  /\ \/ /\ mu = t
        /\ Goto(t, "drop_map")
        /\ UNCHANGED <<req, inst>>
     \/ /\ mu # t
        /\ Return(t)
  /\ UNCHANGED <<store, managed, mu, graceful>>

(* Mutant: c.mu is released before the store forgets the spec.             *)
DropMapUnlocks(t) ==
  /\ pc[t] = "drop_map"
  /\ managed' = [managed EXCEPT ![req[t].name] = None]
  /\ inst' = [inst EXCEPT ![t] = None]
  /\ mu' = None
  /\ Goto(t, "drop_spec")
  /\ UNCHANGED <<store, world, req, graceful>>

DropMap(t) ==
  /\ pc[t] = "drop_map"
  /\ managed' = [managed EXCEPT ![req[t].name] = None]
  /\ inst' = [inst EXCEPT ![t] = None]
  /\ Goto(t, "drop_spec")
  /\ UNCHANGED <<store, mu, world, req, graceful>>

(* DELETE returns and releases c.mu; Close goes on to the next listener.   *)
DropSpec(t) ==
  /\ pc[t] = "drop_spec"
  /\ specs' = [specs EXCEPT ![req[t].name] = None]
  /\ req' = [req EXCEPT ![t] = None]
  /\ \/ /\ t = Main
        /\ Goto(t, "closing")
        /\ UNCHANGED mu
     \/ /\ t # Main
        /\ Goto(t, "idle")
        /\ mu' = None
  /\ UNCHANGED <<profiles, managed, world, inst, graceful>>

-----------------------------------------------------------------------------
(* DELETE /_zolem/listeners/n.                                             *)

StartDelete(t, n) ==
  /\ Unfinished
  /\ pc[t] = "idle"
  /\ Goto(t, "delete")
  /\ req' = [req EXCEPT ![t] = [name |-> n]]
  /\ UNCHANGED <<store, managed, mu, world, inst, graceful>>

(* Mutant: DELETE looks the entry up and drains it without keeping c.mu.   *)
DeleteUnlocked(t) ==
  LET entry == managed[req[t].name]
  IN /\ pc[t] = "delete"
     /\ mu = None
     /\ entry # None
     /\ inst' = [inst EXCEPT ![t] = entry]
     /\ Goto(t, "close_server")
     /\ UNCHANGED <<store, managed, mu, world, req, graceful>>

(* Mutant: the ErrListenerNotFound return forgets to unlock.               *)
NotFoundKeepsLock(t) ==
  /\ pc[t] = "delete"
  /\ mu = None
  /\ managed[req[t].name] = None
  /\ mu' = t
  /\ Return(t)
  /\ UNCHANGED <<store, managed, world, graceful>>

LockToDelete(t) ==
  LET entry == managed[req[t].name]
  IN /\ pc[t] = "delete"
     /\ mu = None
     /\ \/ /\ entry = None
           /\ Return(t)
           /\ UNCHANGED mu
        \/ /\ entry # None
           /\ mu' = t
           /\ inst' = [inst EXCEPT ![t] = entry]
           /\ Goto(t, "close_server")
           /\ UNCHANGED req
     /\ UNCHANGED <<store, managed, world, graceful>>

-----------------------------------------------------------------------------
(* SIGINT or SIGTERM: the admin server stops accepting and waits for its   *)
(* requests for two seconds, then the deferred Close runs.                 *)

Stop ==
  /\ pc[Main] = "serving"
  /\ Goto(Main, "stopping")
  /\ UNCHANGED <<store, managed, mu, world, req, inst, graceful>>

LockToClose ==
  /\ pc[Main] = "stopping"
  /\ mu = None
  /\ mu' = Main
  /\ graceful' = (\A t \in Requests : pc[t] = "idle")
  /\ Goto(Main, "closing")
  /\ UNCHANGED <<store, managed, world, req, inst>>

CloseNext(n) ==
  /\ pc[Main] = "closing"
  /\ managed[n] # None
  /\ req' = [req EXCEPT ![Main] = [name |-> n]]
  /\ inst' = [inst EXCEPT ![Main] = managed[n]]
  /\ Goto(Main, "close_server")
  /\ UNCHANGED <<store, managed, mu, world, graceful>>

(* Mutant: Close stops after any listener.                                 *)
CloseStopsEarly ==
  /\ pc[Main] = "closing"
  /\ mu' = None
  /\ Goto(Main, "closed")
  /\ UNCHANGED <<store, managed, world, req, inst, graceful>>

CloseDone ==
  /\ pc[Main] = "closing"
  /\ \A n \in Names : managed[n] = None
  /\ mu' = None
  /\ Goto(Main, "closed")
  /\ UNCHANGED <<store, managed, world, req, inst, graceful>>

(* The program is over: nothing more can happen, and that is no deadlock.  *)
Terminated ==
  /\ pc[Main] = "closed"
  /\ \A t \in Requests : pc[t] = "idle"
  /\ UNCHANGED vars

-----------------------------------------------------------------------------
Upsert(t) ==
  \/ BuildApp(t) \/ BuildFails(t)
  \/ Bind(t) \/ BindFails(t)
  \/ StoreListener(t) \/ RejectListener(t) \/ SwapMap(t)

TearDown(t) ==
  \/ CloseServer(t) \/ Drained(t) \/ CloseApp(t)
  \/ DropMap(t) \/ DropSpec(t)

Close == (\E n \in Names : CloseNext(n)) \/ CloseDone

Next ==
  \/ \E t \in Requests, p \in Profiles :
       \/ \E c \in Configs : PutProfile(t, p, c)
       \/ RemoveProfile(t, p)
       \/ \E n \in Names : SnapshotProfile(t, n, p)
  \/ \E t \in Requests, n \in Names : StartDelete(t, n)
  \/ \E t \in Requests : Upsert(t) \/ LockToRegister(t) \/ LockToDelete(t)
  \/ \E t \in Threads : TearDown(t)
  \/ Stop \/ LockToClose \/ Close
  \/ Terminated

Spec == Init /\ [][Next]_vars

(* A goroutine that can run does run, Shutdown is bounded by its deadline, *)
(* and a sync.Mutex is handed to a waiter that has starved for 1ms, so no  *)
(* waiter is passed over forever.  Nobody is bound to send a request or to *)
(* stop the server.                                                        *)
Fairness ==
  /\ \A t \in Requests : /\ WF_vars(Upsert(t))
                         /\ SF_vars(LockToRegister(t))
                         /\ SF_vars(LockToDelete(t))
  /\ \A t \in Threads : WF_vars(TearDown(t))
  /\ SF_vars(LockToClose)
  /\ WF_vars(Close)

FairSpec == Spec /\ Fairness
-----------------------------------------------------------------------------
(* Properties.                                                             *)

(* Every variable holds a value of its type; in particular a handler that  *)
(* is past GetProfile carries the content of a stored profile, never the   *)
(* zero value a lookup of a deleted profile gives (local_admin.go:218).    *)
TypeOK ==
  /\ profiles \in [Profiles -> Configs \cup {None}]
  /\ specs    \in [Names -> Spec0 \cup {None}]
  /\ managed  \in [Names -> Instances \cup {None}]
  /\ mu       \in Threads \cup {None}
  /\ stage    \in [Instances -> {"none", "built", "open", "draining", "drained"}]
  /\ port     \in [Instances -> Ports \cup {None}]
  /\ config   \in [Instances -> Configs \cup {None}]
  /\ pc       \in [Threads -> RequestPC \cup MainPC]
  /\ req      \in [Threads -> UpsertReq \cup DeleteReq \cup {None}]
  /\ inst     \in [Threads -> Instances \cup {None}]
  /\ graceful \in BOOLEAN

(* An app or server that exists is registered, or is the business of a     *)
(* handler that will register it or tear it down: no interleaving of PUTs, *)
(* DELETEs and Close orphans a server, a port or a WASM runtime            *)
(* (local_admin.go:268, local_admin_concurrency_test.go:30).               *)
NoOrphan ==
  \A i \in Instances : stage[i] # "none" =>
    \/ \E n \in Names : managed[n] = i
    \/ \E t \in Threads : inst[t] = i

(* Two handlers never work on one instance, and none works on an instance  *)
(* that is registered, unless it holds c.mu to delete it: nothing is       *)
(* closed twice, and nothing registered is closed behind c.mu's back.      *)
SoleOwner ==
  /\ \A t, u \in Threads : inst[t] = inst[u] /\ inst[t] # None => t = u
  /\ \A m, n \in Names : managed[m] = managed[n] /\ managed[m] # None => m = n
  /\ \A t \in Threads, n \in Names :
       managed[n] = inst[t] /\ inst[t] # None => mu = t

(* Whoever gets c.mu finds a spec in the store exactly for the listeners   *)
(* in the map, with the port that the server has: ListListeners' defensive *)
(* skip never skips (local_admin.go:334).                                  *)
StoreInSync ==
  mu = None => \A n \in Names :
    /\ (specs[n] = None) <=> (managed[n] = None)
    /\ managed[n] # None => specs[n].port = port[managed[n]]

(* Whoever gets c.mu finds every registered listener's server open, before *)
(* and after it is replaced: a PUT on a live name leaves no gap.           *)
RegisteredServes ==
  mu = None => \A n \in Names : managed[n] # None => stage[managed[n]] = "open"

(* No two specs of the store ever have one address, although the sockets   *)
(* are bound and closed outside the store, and outside c.mu in a PUT.      *)
UniqueAddr ==
  \A m, n \in Names :
    specs[m] # None /\ specs[n] # None /\ specs[m].port = specs[n].port => m = n

(* When Shutdown saw every admin request return, Close leaves nothing      *)
(* behind: no server, no app, no spec.                                     *)
GracefulCloseIsClean ==
  pc[Main] = "closed" /\ graceful =>
    /\ \A i \in Instances : stage[i] = "none"
    /\ \A n \in Names : specs[n] = None

(* A listener never refers to a profile that is gone: "a profile cannot be *)
(* deleted while a listener is still using it" (docs/admin-mode.md:231).   *)
(* The code does not keep this: a PUT has its snapshot before it is in the *)
(* store, and DeleteProfile asks the store only.                           *)
ProfileInUseStays ==
  \A n \in Names : specs[n] # None => profiles[specs[n].profile] # None

(* Every admin request returns: no request waits for c.mu forever, though  *)
(* DELETE holds it through a drain.                                        *)
RequestsReturn == \A t \in Requests : pc[t] # "idle" ~> pc[t] = "idle"

(* The program that was told to stop gets c.mu and closes every listener.  *)
CloseCompletes == pc[Main] = "stopping" ~> pc[Main] = "closed"

(* The store, seen from outside, is the registry of ListenerRegistry: its  *)
(* operations are atomic and keep the addresses apart.                     *)
Registry == INSTANCE ListenerRegistry WITH registry <- specs
RefinesRegistry == Registry!RegistrySpec
=============================================================================
