------------------------- MODULE ControlPlaneProofs -------------------------
(***************************************************************************)
(* Proofs about ControlPlane, for every set of requests, profiles, names,  *)
(* ports and instances.  IInv is the inductive invariant: it says of every *)
(* thread which instance it works on and in which stage that instance is,  *)
(* who holds c.mu, and how the map, the store and the sockets agree        *)
(* meanwhile; the safety properties of ControlPlane follow from it.        *)
(***************************************************************************)
EXTENDS ControlPlane, TLAPS

(* The threads that hold c.mu, by where their handler is.                  *)
Holding == {"swap_store", "swap_map", "drop_map", "drop_spec", "closing"}

(* The thread is tearing down a registered instance, holding c.mu.         *)
Deleting(t) == mu = t /\ pc[t] \in Teardown \cup {"drop_map"}

PCInv ==
  /\ pc[Main] \in MainPC
  /\ \A t \in Requests : pc[t] \in RequestPC

(* A request also tears down, without c.mu, what its PUT replaced.         *)
LockInv ==
  /\ \A t \in Threads :
       /\ pc[t] \in Holding => mu = t
       /\ mu = t => pc[t] \in Holding \cup Teardown
  /\ pc[Main] \in Teardown => mu = Main

(* What a handler works with, and the stage of its instance, at each place. *)
Opened  == {"register", "swap_store", "swap_map", "close_server"}
Working == Opened \cup {"bind", "drain", "close_app", "drop_map"}

InstInv ==
  \A t \in Threads :
    /\ pc[t] \in Working => inst[t] \in Instances
    /\ pc[t] \notin Working => inst[t] = None
    /\ pc[t] = "bind" => stage[inst[t]] = "built"
    /\ pc[t] \in Opened => stage[inst[t]] = "open"
    /\ pc[t] = "drain" => stage[inst[t]] = "draining"
    /\ pc[t] = "close_app" => stage[inst[t]] = "drained"
    /\ pc[t] = "drop_map" => stage[inst[t]] = "none"

ReqInv ==
  \A t \in Threads :
    /\ pc[t] \in Upserting => req[t] \in UpsertReq
    /\ pc[t] \in Dropping \cup {"delete"} \/ Deleting(t) =>
         req[t] \in DeleteReq

OwnInv ==
  /\ \A t, u \in Threads : inst[t] = inst[u] /\ inst[t] # None => t = u
  /\ \A m, n \in Names : managed[m] = managed[n] /\ managed[m] # None => m = n
  /\ \A t \in Threads, n \in Names :
       managed[n] = inst[t] /\ inst[t] # None => Deleting(t) /\ req[t].name = n
  /\ \A t \in Threads : Deleting(t) => managed[req[t].name] = inst[t]

RegInv ==
  \A n \in Names : managed[n] # None =>
    stage[managed[n]] = "open" \/ \E t \in Threads : inst[t] = managed[n]

(* A thread is between its two updates of name n, in the store and the map. *)
Between(n, places) == \E t \in Threads : pc[t] \in places /\ req[t].name = n

SyncInv ==
  /\ \A n \in Names : managed[n] # None =>
       /\ specs[n] # None
       /\ \/ specs[n].port = port[managed[n]]
          \/ Between(n, {"swap_map", "drop_map"})
  /\ \A n \in Names : specs[n] # None /\ managed[n] = None =>
       Between(n, {"swap_map", "drop_spec"})
  /\ \A t \in Threads : pc[t] = "swap_map" =>
       specs[req[t].name] = [profile |-> req[t].profile,
                                port |-> port[inst[t]]]
  /\ \A t \in Threads : pc[t] = "drop_spec" => managed[req[t].name] = None

PortInv ==
  /\ \A i \in Instances : stage[i] = "open" => port[i] \in Ports
  /\ \A i, j \in Instances :
       stage[i] = "open" /\ stage[j] = "open" /\ port[i] = port[j] => i = j

CloseInv ==
  /\ graceful => pc[Main] \notin {"serving", "stopping"}
  /\ graceful => \A t \in Requests : pc[t] = "idle"
  /\ graceful /\ pc[Main] = "closed" => \A n \in Names : managed[n] = None

IInv ==
  /\ TypeOK /\ PCInv /\ LockInv /\ InstInv /\ ReqInv
  /\ NoOrphan /\ OwnInv /\ RegInv /\ SyncInv /\ PortInv /\ UniqueAddr
  /\ CloseInv

(* A profile write touches the store's profiles only.                      *)
LEMMA PutProfileKeeps ==
  ASSUME IInv, NEW t \in Requests, NEW p \in Profiles, NEW c \in Configs,
         PutProfile(t, p, c)
  PROVE  IInv'
<1>1. TypeOK'
  BY DEF IInv, PutProfile, TypeOK, world, locals
<1>2. PCInv' /\ LockInv' /\ InstInv' /\ ReqInv' /\ NoOrphan' /\ OwnInv' /\
   RegInv' /\ SyncInv' /\ PortInv' /\ UniqueAddr' /\ CloseInv'
  BY DEF IInv, PutProfile, PCInv, LockInv, InstInv, ReqInv, NoOrphan, OwnInv,
     RegInv, SyncInv, PortInv, UniqueAddr, CloseInv, world, locals, Deleting,
     Between
<1> QED
  BY <1>1, <1>2 DEF IInv

(* Removing a profile touches the store's profiles only.                   *)
LEMMA RemoveProfileKeeps ==
  ASSUME IInv, NEW t \in Requests, NEW p \in Profiles, RemoveProfile(t, p)
  PROVE  IInv'
<1>1. TypeOK'
  BY DEF IInv, RemoveProfile, TypeOK, world, locals
<1>2. PCInv' /\ LockInv' /\ InstInv' /\ ReqInv' /\ NoOrphan' /\ OwnInv' /\
   RegInv' /\ SyncInv' /\ PortInv' /\ UniqueAddr' /\ CloseInv'
  BY DEF IInv, RemoveProfile, PCInv, LockInv, InstInv, ReqInv, NoOrphan,
     OwnInv, RegInv, SyncInv, PortInv, UniqueAddr, CloseInv, world, locals,
     Deleting, Between
<1> QED
  BY <1>1, <1>2 DEF IInv

(* An upsert that starts has its parameters and no instance yet.           *)
LEMMA SnapshotProfileKeeps ==
  ASSUME IInv, NEW t \in Requests, NEW n \in Names, NEW p \in Profiles,
         SnapshotProfile(t, n, p)
  PROVE  IInv'
<1>1. TypeOK'
  BY DEF IInv, SnapshotProfile, TypeOK, Goto, store, world, UpsertReq,
     Upserting, RequestPC
<1>2. PCInv'
  BY DEF IInv, SnapshotProfile, PCInv, Goto, Teardown, Dropping, Upserting,
     RequestPC, MainPC
<1>3. LockInv'
  BY DEF IInv, SnapshotProfile, LockInv, Goto, Teardown, Holding
<1>4. InstInv'
  BY DEF IInv, SnapshotProfile, InstInv, Goto, world, Opened, Working
<1>5. ReqInv'
  BY DEF IInv, SnapshotProfile, ReqInv, TypeOK, Goto, UpsertReq, Teardown,
     Dropping, Deleting
<1>6. OwnInv'
  BY DEF IInv, SnapshotProfile, OwnInv, Goto, Teardown, Deleting
<1>7. SyncInv'
  BY DEF IInv, SnapshotProfile, SyncInv, Goto, Unfinished, store, world,
      Between
<1>8. CloseInv'
  BY DEF IInv, SnapshotProfile, CloseInv, Unfinished
<1>9. NoOrphan' /\ RegInv' /\ PortInv' /\ UniqueAddr'
  BY DEF IInv, SnapshotProfile, NoOrphan, RegInv, PortInv, UniqueAddr, store,
     world
<1> QED
  BY <1>1, <1>2, <1>3, <1>4, <1>5, <1>6, <1>7, <1>8, <1>9 DEF IInv

(* A DELETE that starts has a name and no instance yet.                    *)
LEMMA StartDeleteKeeps ==
  ASSUME IInv, NEW t \in Requests, NEW n \in Names, StartDelete(t, n)
  PROVE  IInv'
<1>1. TypeOK'
  BY DEF IInv, StartDelete, TypeOK, Goto, store, world, DeleteReq, RequestPC
<1>2. PCInv'
  BY DEF IInv, StartDelete, PCInv, Goto, Teardown, Dropping, RequestPC, MainPC
<1>3. LockInv'
  BY DEF IInv, StartDelete, LockInv, Goto, Teardown, Holding
<1>4. InstInv'
  BY DEF IInv, StartDelete, InstInv, Goto, world, Opened, Working
<1>5. ReqInv'
  BY DEF IInv, StartDelete, ReqInv, TypeOK, Goto, DeleteReq, Upserting,
     Deleting
<1>6. OwnInv'
  BY DEF IInv, StartDelete, OwnInv, Goto, Teardown, Deleting
<1>7. SyncInv'
  BY DEF IInv, StartDelete, SyncInv, Goto, store, world, Between
<1>8. CloseInv'
  BY DEF IInv, StartDelete, CloseInv, Unfinished
<1>9. NoOrphan' /\ RegInv' /\ PortInv' /\ UniqueAddr'
  BY DEF IInv, StartDelete, NoOrphan, RegInv, PortInv, UniqueAddr, store, world
<1> QED
  BY <1>1, <1>2, <1>3, <1>4, <1>5, <1>6, <1>7, <1>8, <1>9 DEF IInv

(* The instance that is built was referred to by nobody.                   *)
LEMMA BuildAppKeeps ==
  ASSUME IInv, NEW t \in Requests, BuildApp(t)
  PROVE  IInv'
<1>1. TypeOK'
  BY DEF IInv, BuildApp, TypeOK, ReqInv, Goto, Fresh, store, Threads,
     UpsertReq, Upserting, RequestPC
<1>2. PCInv'
  BY DEF IInv, BuildApp, PCInv, Goto, Teardown, Dropping, Upserting, RequestPC,
     MainPC
<1>3. LockInv'
  BY DEF IInv, BuildApp, LockInv, Goto, Teardown, Holding
<1>4. InstInv'
  BY DEF IInv, BuildApp, InstInv, TypeOK, Goto, Unreferenced, Fresh, Opened,
     Working
<1>5. ReqInv'
  BY DEF IInv, BuildApp, ReqInv, Goto, Teardown, Dropping, Upserting, Deleting
<1>6. NoOrphan'
  BY NoneIsNoValue DEF IInv, BuildApp, NoOrphan, InstInv, TypeOK, Threads,
     Opened, Working
<1>7. OwnInv'
  BY DEF IInv, BuildApp, OwnInv, Goto, Unreferenced, Fresh, Teardown, Deleting
<1>8. RegInv'
  BY DEF IInv, BuildApp, RegInv, OwnInv, Fresh, Teardown, Deleting
<1>9. SyncInv'
  BY MainIsNoRequest DEF IInv, BuildApp, SyncInv, TypeOK, Goto, store, Between
<1>10. PortInv'
  BY DEF IInv, BuildApp, PortInv
<1>11. CloseInv'
  BY DEF IInv, BuildApp, CloseInv
<1>12. UniqueAddr'
  BY DEF IInv, BuildApp, UniqueAddr, store
<1> QED
  BY <1>1, <1>2, <1>3, <1>4, <1>5, <1>6, <1>7, <1>8, <1>9, <1>10, <1>11,
     <1>12 DEF IInv

(* A failed build returns with no instance in hand.                        *)
LEMMA BuildFailsKeeps ==
  ASSUME IInv, NEW t \in Requests, BuildFails(t)
  PROVE  IInv'
<1>1. TypeOK'
  BY DEF IInv, BuildFails, TypeOK, Goto, Return, store, world, RequestPC
<1>2. PCInv'
  BY DEF IInv, BuildFails, PCInv, Goto, Return, Teardown, Dropping, RequestPC,
     MainPC
<1>3. LockInv'
  BY DEF IInv, BuildFails, LockInv, Goto, Return, Teardown, Holding
<1>4. InstInv'
  BY DEF IInv, BuildFails, InstInv, Goto, Return, world, Opened, Working
<1>5. ReqInv'
  BY DEF IInv, BuildFails, ReqInv, TypeOK, Goto, Return, Teardown, Dropping,
     Upserting, Deleting
<1>6. NoOrphan'
  BY DEF IInv, BuildFails, NoOrphan, InstInv, Return, world, Opened, Working
<1>7. OwnInv'
  BY DEF IInv, BuildFails, OwnInv, Goto, Return, Teardown, Deleting
<1>8. RegInv'
  BY DEF IInv, BuildFails, RegInv, OwnInv, Return, world, Teardown, Deleting
<1>9. SyncInv'
  BY DEF IInv, BuildFails, SyncInv, Goto, Return, store, world, Between
<1>10. CloseInv'
  BY DEF IInv, BuildFails, CloseInv
<1>11. PortInv' /\ UniqueAddr'
  BY DEF IInv, BuildFails, PortInv, UniqueAddr, store, world
<1> QED
  BY <1>1, <1>2, <1>3, <1>4, <1>5, <1>6, <1>7, <1>8, <1>9, <1>10,
     <1>11 DEF IInv

(* The port that is bound is no open server's.                             *)
LEMMA BindKeeps ==
  ASSUME IInv, NEW t \in Requests, Bind(t)
  PROVE  IInv'
<1>1. TypeOK'
  BY DEF IInv, Bind, TypeOK, InstInv, Goto, store, UpsertReq, Spec0, Dropping,
     Upserting, RequestPC, MainPC, Opened, Working
<1>2. PCInv'
  BY DEF IInv, Bind, PCInv, Goto, Teardown, Dropping, Upserting, RequestPC,
     MainPC
<1>3. LockInv'
  BY DEF IInv, Bind, LockInv, Goto, Teardown, Holding
<1>4. InstInv'
  BY NoneIsNoValue DEF IInv, Bind, InstInv, OwnInv, TypeOK, Goto, Threads,
     Opened, Working
<1>5. ReqInv'
  BY DEF IInv, Bind, ReqInv, Goto, Teardown, Dropping, Upserting, Deleting
<1>6. NoOrphan'
  BY DEF IInv, Bind, NoOrphan, Threads
<1>7. OwnInv'
  BY DEF IInv, Bind, OwnInv, Goto, Teardown, Deleting
<1>8. RegInv'
  BY DEF IInv, Bind, RegInv
<1>9. SyncInv'
  BY MainIsNoRequest DEF IInv, Bind, SyncInv, InstInv, OwnInv, Goto, store,
     Threads, Teardown, Deleting, Between, Opened
<1>10. PortInv'
  BY DEF IInv, Bind, PortInv, TypeOK, PortFree
<1>11. CloseInv'
  BY DEF IInv, Bind, CloseInv
<1>12. UniqueAddr'
  BY DEF IInv, Bind, UniqueAddr, store
<1> QED
  BY <1>1, <1>2, <1>3, <1>4, <1>5, <1>6, <1>7, <1>8, <1>9, <1>10, <1>11,
     <1>12 DEF IInv

(* A failed bind takes its app away with it.                               *)
LEMMA BindFailsKeeps ==
  ASSUME IInv, NEW t \in Requests, BindFails(t)
  PROVE  IInv'
<1>1. TypeOK'
  BY DEF IInv, BindFails, TypeOK, Goto, Return, Vanish, store, RequestPC
<1>2. PCInv'
  BY DEF IInv, BindFails, PCInv, Goto, Return, Teardown, Dropping, RequestPC,
     MainPC
<1>3. LockInv'
  BY DEF IInv, BindFails, LockInv, Goto, Return, Teardown, Holding
<1>4. InstInv'
  BY NoneIsNoValue DEF IInv, BindFails, InstInv, OwnInv, TypeOK, Goto, Return,
     Vanish, Threads, Opened, Working
<1>5. ReqInv'
  BY DEF IInv, BindFails, ReqInv, TypeOK, Goto, Return, Teardown, Dropping,
     Upserting, Deleting
<1>6. NoOrphan'
  BY DEF IInv, BindFails, NoOrphan, TypeOK, Return, Vanish
<1>7. OwnInv'
  BY DEF IInv, BindFails, OwnInv, Goto, Return, Teardown, Deleting
<1>8. RegInv'
  BY DEF IInv, BindFails, RegInv, OwnInv, Return, Vanish, Threads, Teardown,
     Deleting
<1>9. SyncInv'
  BY NoneIsNoValue DEF IInv, BindFails, SyncInv, InstInv, OwnInv, TypeOK, Goto,
     Return, Vanish, store, Threads, UpsertReq, DeleteReq, Spec0, Teardown,
     Upserting, RequestPC, Deleting, Between, Working
<1>10. PortInv'
  BY DEF IInv, BindFails, PortInv, TypeOK, Vanish
<1>11. CloseInv'
  BY DEF IInv, BindFails, CloseInv
<1>12. UniqueAddr'
  BY DEF IInv, BindFails, UniqueAddr, store
<1> QED
  BY <1>1, <1>2, <1>3, <1>4, <1>5, <1>6, <1>7, <1>8, <1>9, <1>10, <1>11,
     <1>12 DEF IInv

(* c.mu goes to a handler whose server is open.                            *)
LEMMA LockToRegisterKeeps ==
  ASSUME IInv, NEW t \in Requests, LockToRegister(t)
  PROVE  IInv'
<1>1. TypeOK'
  BY DEF IInv, LockToRegister, TypeOK, Goto, store, world, Threads, Upserting,
     RequestPC
<1>2. PCInv'
  BY DEF IInv, LockToRegister, PCInv, Goto, Teardown, Dropping, Upserting,
     RequestPC, MainPC
<1>3. LockInv'
  BY NoneIsNoValue DEF IInv, LockToRegister, LockInv, TypeOK, Goto, Threads,
     Holding
<1>4. InstInv'
  BY DEF IInv, LockToRegister, InstInv, Goto, world, Opened, Working
<1>5. ReqInv'
  BY DEF IInv, LockToRegister, ReqInv, Goto, Teardown, Dropping, Upserting,
     Deleting
<1>6. OwnInv'
  BY NoneIsNoValue DEF IInv, LockToRegister, OwnInv, Goto, Teardown, Deleting
<1>7. SyncInv'
  BY DEF IInv, LockToRegister, SyncInv, Goto, store, world, Between
<1>8. CloseInv'
  BY DEF IInv, LockToRegister, CloseInv
<1>9. NoOrphan' /\ RegInv' /\ PortInv' /\ UniqueAddr'
  BY DEF IInv, LockToRegister, NoOrphan, RegInv, PortInv, UniqueAddr, store,
     world
<1> QED
  BY <1>1, <1>2, <1>3, <1>4, <1>5, <1>6, <1>7, <1>8, <1>9 DEF IInv

(* The spec is written for the port of the handler's open server.          *)
LEMMA StoreListenerKeeps ==
  ASSUME IInv, NEW t \in Requests, StoreListener(t)
  PROVE  IInv'
<1>1. TypeOK'
  BY DEF IInv, StoreListener, TypeOK, InstInv, ReqInv, PortInv, Goto, world,
     Threads, UpsertReq, Spec0, Upserting, RequestPC, Opened, Working
<1>2. PCInv'
  BY DEF IInv, StoreListener, PCInv, Goto, Teardown, Dropping, Upserting,
     RequestPC, MainPC
<1>3. LockInv'
  BY DEF IInv, StoreListener, LockInv, Goto, Teardown, Holding
<1>4. InstInv'
  BY DEF IInv, StoreListener, InstInv, Goto, world, Opened, Working
<1>5. ReqInv'
  BY DEF IInv, StoreListener, ReqInv, Goto, Teardown, Dropping, Upserting,
     Deleting
<1>6. OwnInv'
  BY DEF IInv, StoreListener, OwnInv, Goto, Teardown, Deleting
<1>7. SyncInv'
  BY NoneIsNoValue DEF IInv, StoreListener, SyncInv, TypeOK, LockInv, InstInv,
     ReqInv, PortInv, Goto, world, Threads, UpsertReq, Upserting, Holding,
     Between, Opened, Working
<1>8. UniqueAddr'
  BY DEF IInv, StoreListener, UniqueAddr, TypeOK, LockInv, InstInv, OwnInv,
     RegInv, SyncInv, PortInv, Threads, Holding, Deleting, Between, Opened,
     Working
<1>9. CloseInv'
  BY DEF IInv, StoreListener, CloseInv
<1>10. NoOrphan' /\ RegInv' /\ PortInv'
  BY DEF IInv, StoreListener, NoOrphan, RegInv, PortInv, world
<1> QED
  BY <1>1, <1>2, <1>3, <1>4, <1>5, <1>6, <1>7, <1>8, <1>9, <1>10 DEF IInv

(* A refused address gives c.mu back and leaves the teardown.              *)
LEMMA RejectListenerKeeps ==
  ASSUME IInv, NEW t \in Requests, RejectListener(t)
  PROVE  IInv'
<1>1. TypeOK'
  BY DEF IInv, RejectListener, TypeOK, Goto, store, world, Teardown, MainPC
<1>2. PCInv'
  BY DEF IInv, RejectListener, PCInv, Goto, Teardown, RequestPC, MainPC
<1>3. LockInv'
  BY MainIsNoRequest, NoneIsNoValue DEF IInv, RejectListener, LockInv, TypeOK,
     Goto, Threads, Holding
<1>4. InstInv'
  BY DEF IInv, RejectListener, InstInv, Goto, world, Opened, Working
<1>5. ReqInv'
  BY NoneIsNoValue DEF IInv, RejectListener, ReqInv, Goto, Dropping, Upserting,
     Deleting
<1>6. OwnInv'
  BY NoneIsNoValue DEF IInv, RejectListener, OwnInv, LockInv, Threads,
     Teardown, Holding, Deleting
<1>7. SyncInv'
  BY DEF IInv, RejectListener, SyncInv, Goto, store, world, Between
<1>8. CloseInv'
  BY DEF IInv, RejectListener, CloseInv
<1>9. NoOrphan' /\ RegInv' /\ PortInv' /\ UniqueAddr'
  BY DEF IInv, RejectListener, NoOrphan, RegInv, PortInv, UniqueAddr, store,
     world
<1> QED
  BY <1>1, <1>2, <1>3, <1>4, <1>5, <1>6, <1>7, <1>8, <1>9 DEF IInv

(* The new instance enters the map as the old one passes to the handler.   *)
LEMMA SwapMapKeeps ==
  ASSUME IInv, NEW t \in Requests, SwapMap(t)
  PROVE  IInv'
<1>1. TypeOK'
  BY DEF IInv, SwapMap, TypeOK, ReqInv, Goto, Return, store, world, Threads,
     UpsertReq, Teardown, Upserting, RequestPC
<1>2. PCInv'
  BY DEF IInv, SwapMap, PCInv, TypeOK, Goto, Return, Threads, Teardown,
     Dropping, RequestPC, MainPC
<1>3. LockInv'
  BY MainIsNoRequest, NoneIsNoValue DEF IInv, SwapMap, LockInv, TypeOK, Goto,
     Return, Threads, Holding
<1>4. InstInv'
  BY DEF IInv, SwapMap, InstInv, TypeOK, LockInv, ReqInv, OwnInv, RegInv, Goto,
     Return, world, UpsertReq, Upserting, Holding, Deleting, Opened, Working
<1>5. ReqInv'
  BY NoneIsNoValue DEF IInv, SwapMap, ReqInv, TypeOK, Goto, Return, Dropping,
     Upserting, Deleting
<1>6. NoOrphan'
  BY DEF IInv, SwapMap, NoOrphan, ReqInv, TypeOK, Return, world, Threads,
     UpsertReq, Upserting
<1>7. OwnInv'
  BY NoneIsNoValue DEF IInv, SwapMap, OwnInv, LockInv, ReqInv, TypeOK, Return,
     Threads, UpsertReq, Teardown, Upserting, Holding, Deleting
<1>8. RegInv'
  BY DEF IInv, SwapMap, RegInv, InstInv, TypeOK, Return, world, Threads,
     Working
<1>9. SyncInv'
  <2> DEFINE n == req[t].name
  <2>1. /\ t \in Threads /\ mu = t /\ pc[t] = "swap_map"
        /\ inst[t] \in Instances /\ inst[t] # None
        /\ req[t] \in UpsertReq /\ n \in Names
    BY NoneIsNoValue
       DEF IInv, LockInv, InstInv, ReqInv, SwapMap, Threads, Holding, Working,
           Opened, Upserting, UpsertReq
  <2>2. /\ specs' = specs /\ port' = port
        /\ pc'[t] \in {"idle", "close_server"}
        /\ managed' = [managed EXCEPT ![n] = inst[t]]
        /\ \A u \in Threads : u # t =>
             pc'[u] = pc[u] /\ req'[u] = req[u] /\ inst'[u] = inst[u]
    BY <2>1 DEF IInv, TypeOK, SwapMap, Return, Goto, store, world
  <2>3. \A u \in Threads : u # t => pc[u] \notin Holding
    BY <2>1 DEF IInv, LockInv
  <2>4. \A m \in Names, S \in SUBSET Holding :
          m # n /\ Between(m, S) => Between(m, S)'
    BY <2>1, <2>2 DEF Between
  <2>5. ASSUME NEW m \in Names, managed'[m] # None
        PROVE  /\ specs[m] # None
               /\ \/ specs[m].port = port[managed'[m]]
                  \/ Between(m, {"swap_map", "drop_map"})'
    <3>1. CASE m = n
      <4>1. specs[n] = [profile |-> req[t].profile, port |-> port[inst[t]]]
        BY <2>1 DEF IInv, SyncInv
      <4>2. req[t].profile \in Profiles /\ port[inst[t]] \in Ports
        BY <2>1 DEF IInv, InstInv, PortInv, Opened, UpsertReq
      <4>3. managed'[n] = inst[t]
        BY <2>1, <2>2 DEF IInv, TypeOK
      <4> QED
        BY <3>1, <4>1, <4>2, <4>3, NoneIsNoValue
    <3>2. CASE m # n
      <4>1. managed[m] # None /\ managed'[m] = managed[m]
        BY <2>2, <2>5, <3>2 DEF IInv, TypeOK
      <4> QED
        BY <2>4, <3>2, <4>1 DEF IInv, SyncInv, Holding
    <3> QED
      BY <3>1, <3>2
  <2>6. ASSUME NEW m \in Names, specs[m] # None, managed'[m] = None
        PROVE  Between(m, {"swap_map", "drop_spec"})'
    <3>1. m # n /\ managed[m] = None
      BY <2>1, <2>2, <2>6 DEF IInv, TypeOK
    <3> QED
      BY <2>4, <2>6, <3>1 DEF IInv, SyncInv, Holding
  <2>7. \A u \in Threads : pc'[u] \notin {"swap_map", "drop_spec"}
    BY <2>2, <2>3 DEF Holding
  <2> QED
    BY <2>2, <2>5, <2>6, <2>7 DEF SyncInv
<1>10. CloseInv'
  BY DEF IInv, SwapMap, CloseInv
<1>11. PortInv' /\ UniqueAddr'
  BY DEF IInv, SwapMap, PortInv, UniqueAddr, store, world
<1> QED
  BY <1>1, <1>2, <1>3, <1>4, <1>5, <1>6, <1>7, <1>8, <1>9, <1>10,
     <1>11 DEF IInv

(* The registered instance passes to the handler that took c.mu.           *)
LEMMA LockToDeleteKeeps ==
  ASSUME IInv, NEW t \in Requests, LockToDelete(t)
  PROVE  IInv'
<1>1. TypeOK'
  BY DEF IInv, LockToDelete, TypeOK, ReqInv, Goto, Return, store, world,
     Threads, DeleteReq, Teardown, RequestPC
<1>2. PCInv'
  BY DEF IInv, LockToDelete, PCInv, TypeOK, Goto, Return, Threads, Teardown,
     Dropping, RequestPC, MainPC
<1>3. LockInv'
  BY NoneIsNoValue DEF IInv, LockToDelete, LockInv, TypeOK, Goto, Return,
     Threads, Teardown, Holding
<1>4. InstInv'
  BY NoneIsNoValue DEF IInv, LockToDelete, InstInv, TypeOK, ReqInv, OwnInv,
     RegInv, Goto, Return, world, DeleteReq, Deleting, Opened, Working
<1>5. ReqInv'
  BY DEF IInv, LockToDelete, ReqInv, TypeOK, Goto, Return, Teardown, Dropping,
     Upserting, Deleting
<1>6. NoOrphan'
  BY NoneIsNoValue DEF IInv, LockToDelete, NoOrphan, InstInv, TypeOK, Return,
     world, Opened, Working
<1>7. OwnInv'
  BY NoneIsNoValue DEF IInv, LockToDelete, OwnInv, ReqInv, TypeOK, Goto,
     Return, DeleteReq, Teardown, Deleting
<1>8. RegInv'
  BY DEF IInv, LockToDelete, RegInv, OwnInv, TypeOK, Return, world
<1>9. SyncInv'
  BY NoneIsNoValue DEF IInv, LockToDelete, SyncInv, LockInv, TypeOK, Goto,
     Return, store, world, Between
<1>10. CloseInv'
  BY DEF IInv, LockToDelete, CloseInv
<1>11. PortInv' /\ UniqueAddr'
  BY DEF IInv, LockToDelete, PortInv, UniqueAddr, store, world
<1> QED
  BY <1>1, <1>2, <1>3, <1>4, <1>5, <1>6, <1>7, <1>8, <1>9, <1>10,
     <1>11 DEF IInv

(* A server stops being open in the hands of its only owner.               *)
LEMMA CloseServerKeeps ==
  ASSUME IInv, NEW t \in Threads, CloseServer(t)
  PROVE  IInv'
<1>1. TypeOK'
  BY DEF IInv, CloseServer, TypeOK, Goto, store, Teardown, MainPC
<1>2. PCInv'
  BY DEF IInv, CloseServer, PCInv, Goto, Teardown, RequestPC, MainPC
<1>3. LockInv'
  BY DEF IInv, CloseServer, LockInv, Goto, Teardown, Holding
<1>4. InstInv'
  BY NoneIsNoValue DEF IInv, CloseServer, InstInv, OwnInv, TypeOK, Goto,
     Opened, Working
<1>5. ReqInv'
  BY DEF IInv, CloseServer, ReqInv, Goto, Teardown, Dropping, Upserting,
     Deleting
<1>6. NoOrphan'
  BY DEF IInv, CloseServer, NoOrphan
<1>7. OwnInv'
  BY DEF IInv, CloseServer, OwnInv, Goto, Teardown, Deleting
<1>8. RegInv'
  BY DEF IInv, CloseServer, RegInv
<1>9. SyncInv'
  BY DEF IInv, CloseServer, SyncInv, Goto, store, Between
<1>10. PortInv'
  BY DEF IInv, CloseServer, PortInv
<1>11. CloseInv'
  BY DEF IInv, CloseServer, CloseInv, Goto
<1>12. UniqueAddr'
  BY DEF IInv, CloseServer, UniqueAddr, store
<1> QED
  BY <1>1, <1>2, <1>3, <1>4, <1>5, <1>6, <1>7, <1>8, <1>9, <1>10, <1>11,
     <1>12 DEF IInv

(* A drained server is still in the hands of its only owner.               *)
LEMMA DrainedKeeps ==
  ASSUME IInv, NEW t \in Threads, Drained(t)
  PROVE  IInv'
<1>1. TypeOK'
  BY DEF IInv, Drained, TypeOK, Goto, store, Teardown, MainPC
<1>2. PCInv'
  BY DEF IInv, Drained, PCInv, Goto, Teardown, RequestPC, MainPC
<1>3. LockInv'
  BY DEF IInv, Drained, LockInv, Goto, Teardown, Holding
<1>4. InstInv'
  BY NoneIsNoValue DEF IInv, Drained, InstInv, OwnInv, TypeOK, Goto, Opened,
     Working
<1>5. ReqInv'
  BY DEF IInv, Drained, ReqInv, Goto, Teardown, Dropping, Upserting, Deleting
<1>6. NoOrphan'
  BY DEF IInv, Drained, NoOrphan
<1>7. OwnInv'
  BY DEF IInv, Drained, OwnInv, Goto, Teardown, Deleting
<1>8. RegInv'
  BY DEF IInv, Drained, RegInv
<1>9. SyncInv'
  BY DEF IInv, Drained, SyncInv, Goto, store, Between
<1>10. PortInv'
  BY DEF IInv, Drained, PortInv
<1>11. CloseInv'
  BY DEF IInv, Drained, CloseInv, Goto
<1>12. UniqueAddr'
  BY DEF IInv, Drained, UniqueAddr, store
<1> QED
  BY <1>1, <1>2, <1>3, <1>4, <1>5, <1>6, <1>7, <1>8, <1>9, <1>10, <1>11,
     <1>12 DEF IInv

(* What is closed is referred to by its owner's map entry at most.         *)
LEMMA CloseAppKeeps ==
  ASSUME IInv, NEW t \in Threads, CloseApp(t)
  PROVE  IInv'
<1>1. TypeOK'
  BY DEF IInv, CloseApp, TypeOK, InstInv, Goto, Return, Vanish, store,
     Dropping, RequestPC
<1>2. PCInv'
  BY DEF IInv, CloseApp, PCInv, TypeOK, LockInv, Goto, Return, Threads,
     Dropping, RequestPC, MainPC
<1>3. LockInv'
  BY DEF IInv, CloseApp, LockInv, TypeOK, Goto, Return, Threads, Dropping,
     Upserting, RequestPC, MainPC, Holding
<1>4. InstInv'
  BY NoneIsNoValue DEF IInv, CloseApp, InstInv, OwnInv, TypeOK, Goto, Return,
     Vanish, Opened, Working
<1>5. ReqInv'
  BY DEF IInv, CloseApp, ReqInv, TypeOK, Goto, Return, Dropping, Upserting,
     RequestPC, MainPC, Deleting
<1>6. NoOrphan'
  BY DEF IInv, CloseApp, NoOrphan, TypeOK, Return, Vanish
<1>7. OwnInv'
  BY DEF IInv, CloseApp, OwnInv, TypeOK, Goto, Return, Dropping, Upserting,
     RequestPC, MainPC, Deleting
<1>8. RegInv'
  BY DEF IInv, CloseApp, RegInv, OwnInv, TypeOK, Return, Vanish, Deleting
<1>9. SyncInv'
  BY NoneIsNoValue DEF IInv, CloseApp, SyncInv, LockInv, OwnInv, ReqInv,
     TypeOK, Goto, Return, Vanish, store, Threads, UpsertReq, Dropping,
     RequestPC, Deleting, Between
<1>10. PortInv'
  BY DEF IInv, CloseApp, PortInv, TypeOK, Vanish
<1>11. CloseInv'
  BY DEF IInv, CloseApp, CloseInv, TypeOK, Goto, Return, Threads
<1>12. UniqueAddr'
  BY DEF IInv, CloseApp, UniqueAddr, store
<1> QED
  BY <1>1, <1>2, <1>3, <1>4, <1>5, <1>6, <1>7, <1>8, <1>9, <1>10, <1>11,
     <1>12 DEF IInv

(* The map forgets an instance that is already gone.                       *)
LEMMA DropMapKeeps ==
  ASSUME IInv, NEW t \in Threads, DropMap(t)
  PROVE  IInv'
<1>1. TypeOK'
  BY DEF IInv, DropMap, TypeOK, Goto, store, world, Dropping, MainPC
<1>2. PCInv'
  BY DEF IInv, DropMap, PCInv, Goto, Dropping, RequestPC, MainPC
<1>3. LockInv'
  BY DEF IInv, DropMap, LockInv, Goto, Holding
<1>4. InstInv'
  BY DEF IInv, DropMap, InstInv, TypeOK, Goto, world, Opened, Working
<1>5. ReqInv'
  BY DEF IInv, DropMap, ReqInv, Goto, Dropping, Upserting, Deleting
<1>6. NoOrphan'
  BY DEF IInv, DropMap, NoOrphan, InstInv, LockInv, OwnInv, world, Holding,
     Deleting
<1>7. OwnInv'
  BY DEF IInv, DropMap, OwnInv, LockInv, TypeOK, Goto, Teardown, Holding,
     Deleting
<1>8. RegInv'
  BY DEF IInv, DropMap, RegInv, OwnInv, TypeOK, world
<1>9. SyncInv'
  BY MainIsNoRequest DEF IInv, DropMap, SyncInv, ReqInv, TypeOK, Goto, store,
     world, DeleteReq, Dropping, Between
<1>10. CloseInv'
  BY DEF IInv, DropMap, CloseInv, Goto
<1>11. PortInv' /\ UniqueAddr'
  BY DEF IInv, DropMap, PortInv, UniqueAddr, store, world
<1> QED
  BY <1>1, <1>2, <1>3, <1>4, <1>5, <1>6, <1>7, <1>8, <1>9, <1>10,
     <1>11 DEF IInv

(* The store forgets the spec of a name the map has forgotten.             *)
LEMMA DropSpecKeeps ==
  ASSUME IInv, NEW t \in Threads, DropSpec(t)
  PROVE  IInv'
<1>1. TypeOK'
  BY DEF IInv, DropSpec, TypeOK, Goto, world, RequestPC, MainPC
<1>2. PCInv'
  BY MainIsNoRequest DEF IInv, DropSpec, PCInv, TypeOK, Goto, Threads,
     RequestPC, MainPC
<1>3. LockInv'
  BY NoneIsNoValue DEF IInv, DropSpec, LockInv, TypeOK, Goto, Threads, Holding
<1>4. InstInv'
  BY DEF IInv, DropSpec, InstInv, TypeOK, Goto, world, Opened, Working
<1>5. ReqInv'
  BY NoneIsNoValue DEF IInv, DropSpec, ReqInv, TypeOK, Goto, Teardown,
     Dropping, Upserting, Deleting
<1>6. OwnInv'
  BY NoneIsNoValue DEF IInv, DropSpec, OwnInv, LockInv, TypeOK, Goto, Teardown,
     Holding, Deleting
<1>7. SyncInv'
  BY DEF IInv, DropSpec, SyncInv, LockInv, TypeOK, Goto, world, Holding,
     Between
<1>8. UniqueAddr'
  BY DEF IInv, DropSpec, UniqueAddr
<1>9. CloseInv'
  BY DEF IInv, DropSpec, CloseInv, TypeOK, Goto, Threads
<1>10. NoOrphan' /\ RegInv' /\ PortInv'
  BY DEF IInv, DropSpec, NoOrphan, RegInv, PortInv, world
<1> QED
  BY <1>1, <1>2, <1>3, <1>4, <1>5, <1>6, <1>7, <1>8, <1>9, <1>10 DEF IInv

(* Stopping the admin server touches no listener.                          *)
LEMMA StopKeeps ==
  ASSUME IInv, Stop
  PROVE  IInv'
<1>1. TypeOK'
  BY DEF IInv, Stop, TypeOK, Goto, store, world, MainPC
<1>2. PCInv'
  BY DEF IInv, Stop, PCInv, Goto, Teardown, Dropping, Upserting, RequestPC,
     MainPC
<1>3. LockInv'
  BY DEF IInv, Stop, LockInv, Goto, Teardown, Holding
<1>4. InstInv'
  BY DEF IInv, Stop, InstInv, Goto, world, Opened, Working
<1>5. ReqInv'
  BY DEF IInv, Stop, ReqInv, Goto, Teardown, Dropping, Upserting, Deleting
<1>6. OwnInv'
  BY DEF IInv, Stop, OwnInv, Goto, Teardown, Deleting
<1>7. SyncInv'
  BY DEF IInv, Stop, SyncInv, Goto, store, world, Between
<1>8. CloseInv'
  BY DEF IInv, Stop, CloseInv
<1>9. NoOrphan' /\ RegInv' /\ PortInv' /\ UniqueAddr'
  BY DEF IInv, Stop, NoOrphan, RegInv, PortInv, UniqueAddr, store, world
<1> QED
  BY <1>1, <1>2, <1>3, <1>4, <1>5, <1>6, <1>7, <1>8, <1>9 DEF IInv

(* Close gets c.mu, and knows whether requests are still running.          *)
LEMMA LockToCloseKeeps ==
  ASSUME IInv, LockToClose
  PROVE  IInv'
<1>1. TypeOK'
  BY DEF IInv, LockToClose, TypeOK, Goto, store, world, Threads, MainPC
<1>2. PCInv'
  BY DEF IInv, LockToClose, PCInv, Goto, Teardown, Dropping, Upserting,
     RequestPC, MainPC
<1>3. LockInv'
  BY NoneIsNoValue DEF IInv, LockToClose, LockInv, TypeOK, Goto, Holding
<1>4. InstInv'
  BY DEF IInv, LockToClose, InstInv, Goto, world, Opened, Working
<1>5. ReqInv'
  BY DEF IInv, LockToClose, ReqInv, Goto, Teardown, Dropping, Upserting,
     Deleting
<1>6. OwnInv'
  BY NoneIsNoValue DEF IInv, LockToClose, OwnInv, Goto, Teardown, Deleting
<1>7. SyncInv'
  BY DEF IInv, LockToClose, SyncInv, Goto, store, world, Between
<1>8. CloseInv'
  BY DEF IInv, LockToClose, CloseInv, TypeOK, Goto, Threads
<1>9. NoOrphan' /\ RegInv' /\ PortInv' /\ UniqueAddr'
  BY DEF IInv, LockToClose, NoOrphan, RegInv, PortInv, UniqueAddr, store, world
<1> QED
  BY <1>1, <1>2, <1>3, <1>4, <1>5, <1>6, <1>7, <1>8, <1>9 DEF IInv

(* Close takes the next registered instance in hand.                       *)
LEMMA CloseNextKeeps ==
  ASSUME IInv, NEW n \in Names, CloseNext(n)
  PROVE  IInv'
<1>1. TypeOK'
  BY DEF IInv, CloseNext, TypeOK, Goto, store, world, DeleteReq, Teardown,
     MainPC
<1>2. PCInv'
  BY DEF IInv, CloseNext, PCInv, Goto, Teardown, RequestPC, MainPC
<1>3. LockInv'
  BY DEF IInv, CloseNext, LockInv, Goto, Threads, Teardown, Holding
<1>4. InstInv'
  BY DEF IInv, CloseNext, InstInv, TypeOK, LockInv, OwnInv, RegInv, Goto,
     world, Holding, Deleting, Opened, Working
<1>5. ReqInv'
  BY DEF IInv, CloseNext, ReqInv, TypeOK, Goto, DeleteReq, Upserting, Deleting
<1>6. NoOrphan'
  BY NoneIsNoValue DEF IInv, CloseNext, NoOrphan, InstInv, world, Opened,
     Working
<1>7. OwnInv'
  BY DEF IInv, CloseNext, OwnInv, LockInv, TypeOK, Goto, Teardown, Holding,
     Deleting
<1>8. RegInv'
  BY DEF IInv, CloseNext, RegInv, OwnInv, world, Teardown, Deleting
<1>9. SyncInv'
  BY DEF IInv, CloseNext, SyncInv, Goto, store, world, Between
<1>10. CloseInv'
  BY DEF IInv, CloseNext, CloseInv, Goto
<1>11. PortInv' /\ UniqueAddr'
  BY DEF IInv, CloseNext, PortInv, UniqueAddr, store, world
<1> QED
  BY <1>1, <1>2, <1>3, <1>4, <1>5, <1>6, <1>7, <1>8, <1>9, <1>10,
     <1>11 DEF IInv

(* Close ends when the map is empty.                                       *)
LEMMA CloseDoneKeeps ==
  ASSUME IInv, CloseDone
  PROVE  IInv'
<1>1. TypeOK'
  BY DEF IInv, CloseDone, TypeOK, Goto, store, world, MainPC
<1>2. PCInv'
  BY DEF IInv, CloseDone, PCInv, Goto, Teardown, Dropping, Upserting,
     RequestPC, MainPC
<1>3. LockInv'
  BY NoneIsNoValue DEF IInv, CloseDone, LockInv, TypeOK, Goto, Threads,
     Teardown, Holding
<1>4. InstInv'
  BY DEF IInv, CloseDone, InstInv, Goto, world, Opened, Working
<1>5. ReqInv'
  BY NoneIsNoValue DEF IInv, CloseDone, ReqInv, Goto, Dropping, Upserting,
     Deleting
<1>6. OwnInv'
  BY NoneIsNoValue DEF IInv, CloseDone, OwnInv, Deleting
<1>7. SyncInv'
  BY DEF IInv, CloseDone, SyncInv, Goto, store, world, Between
<1>8. CloseInv'
  BY DEF IInv, CloseDone, CloseInv, Goto
<1>9. NoOrphan' /\ RegInv' /\ PortInv' /\ UniqueAddr'
  BY DEF IInv, CloseDone, NoOrphan, RegInv, PortInv, UniqueAddr, store, world
<1> QED
  BY <1>1, <1>2, <1>3, <1>4, <1>5, <1>6, <1>7, <1>8, <1>9 DEF IInv

-----------------------------------------------------------------------------
(* IInv holds before the first request.                                    *)
LEMMA InitIInv == Init => IInv
<1> SUFFICES ASSUME Init PROVE IInv
  OBVIOUS
<1>1. TypeOK /\ PCInv /\ LockInv /\ InstInv /\ ReqInv
  BY MainIsNoRequest, NoneIsNoValue
     DEF Init, TypeOK, PCInv, LockInv, InstInv, ReqInv, Threads, RequestPC,
         MainPC, Holding, Deleting, Teardown, Dropping, Upserting, Working,
         Opened
<1>2. NoOrphan /\ OwnInv /\ RegInv /\ SyncInv /\ PortInv /\ UniqueAddr
  BY DEF Init, NoOrphan, OwnInv, RegInv, SyncInv, PortInv, UniqueAddr,
         Deleting, Teardown, Threads
<1>3. CloseInv
  BY MainIsNoRequest DEF Init, CloseInv
<1> QED
  BY <1>1, <1>2, <1>3 DEF IInv

(* Steps that change nothing, Terminated among them, keep IInv.            *)
LEMMA StutterKeeps == IInv /\ UNCHANGED vars => IInv'
BY DEF IInv, vars, TypeOK, PCInv, LockInv, InstInv, ReqInv, NoOrphan, OwnInv,
       RegInv, SyncInv, PortInv, UniqueAddr, CloseInv, Deleting, Between

(* Every step keeps IInv.                                                  *)
LEMMA NextKeeps == IInv /\ [Next]_vars => IInv'
<1> SUFFICES ASSUME IInv, [Next]_vars PROVE IInv'
  OBVIOUS
<1>1. ASSUME NEW t \in Requests, NEW p \in Profiles, NEW c \in Configs,
             PutProfile(t, p, c)
      PROVE  IInv'
  BY <1>1, PutProfileKeeps
<1>2. ASSUME NEW t \in Requests, NEW p \in Profiles, RemoveProfile(t, p)
      PROVE  IInv'
  BY <1>2, RemoveProfileKeeps
<1>3. ASSUME NEW t \in Requests, NEW p \in Profiles, NEW n \in Names,
             SnapshotProfile(t, n, p)
      PROVE  IInv'
  BY <1>3, SnapshotProfileKeeps
<1>4. ASSUME NEW t \in Requests, NEW n \in Names, StartDelete(t, n)
      PROVE  IInv'
  BY <1>4, StartDeleteKeeps
<1>5. ASSUME NEW t \in Requests, Upsert(t) PROVE IInv'
  BY <1>5, BuildAppKeeps, BuildFailsKeeps, BindKeeps, BindFailsKeeps,
     StoreListenerKeeps, RejectListenerKeeps, SwapMapKeeps DEF Upsert
<1>6. ASSUME NEW t \in Requests, LockToRegister(t) \/ LockToDelete(t)
      PROVE  IInv'
  BY <1>6, LockToRegisterKeeps, LockToDeleteKeeps
<1>7. ASSUME NEW t \in Threads, TearDown(t) PROVE IInv'
  BY <1>7, CloseServerKeeps, DrainedKeeps, CloseAppKeeps, DropMapKeeps,
     DropSpecKeeps DEF TearDown
<1>8. ASSUME Stop \/ LockToClose \/ Close PROVE IInv'
  BY <1>8, StopKeeps, LockToCloseKeeps, CloseNextKeeps,
      CloseDoneKeeps DEF Close
<1>9. ASSUME Terminated \/ UNCHANGED vars PROVE IInv'
  BY <1>9, StutterKeeps DEF Terminated
<1> QED
  BY <1>1, <1>2, <1>3, <1>4, <1>5, <1>6, <1>7, <1>8, <1>9 DEF Next

(* IInv holds in every reachable state.                                    *)
THEOREM Invariance == Spec => []IInv
BY InitIInv, NextKeeps, PTL DEF Spec

(* Every variable keeps its type: no handler builds from the zero value of *)
(* a profile that was deleted (local_admin.go:218).                        *)
THEOREM TypeCorrect == Spec => []TypeOK
<1>1. IInv => TypeOK
  BY DEF IInv
<1> QED
  BY <1>1, Invariance, PTL

(* However PUTs, DELETEs and Close interleave, no app or server is left    *)
(* with nobody to close it (local_admin.go:294-320).                       *)
THEOREM NothingIsOrphaned == Spec => []NoOrphan
<1>1. IInv => NoOrphan
  BY DEF IInv
<1> QED
  BY <1>1, Invariance, PTL

(* No instance is torn down by two handlers, and a registered one is torn  *)
(* down only under c.mu (local_admin.go:312-320, 355-372).                 *)
THEOREM OwnersAreSole == Spec => []SoleOwner
<1>1. IInv => SoleOwner
  BY DEF IInv, OwnInv, SoleOwner, Deleting
<1> QED
  BY <1>1, Invariance, PTL

(* With c.mu free no thread is between its update of the store and its     *)
(* update of the map, so the two name the same listeners at the same ports *)
(* (local_admin.go:294-310, 334).                                          *)
THEOREM StoreAgreesWithMap == Spec => []StoreInSync
<1>1. IInv => StoreInSync
  <2> SUFFICES ASSUME IInv, mu = None, NEW n \in Names
               PROVE  /\ (specs[n] = None) <=> (managed[n] = None)
                      /\ managed[n] # None => specs[n].port = port[managed[n]]
    BY DEF StoreInSync
  <2>1. \A t \in Threads : pc[t] \notin Holding
    BY NoneIsNoValue DEF IInv, LockInv
  <2>2. ~Between(n, {"swap_map", "drop_map"})
    BY <2>1 DEF Between, Holding
  <2>3. ~Between(n, {"swap_map", "drop_spec"})
    BY <2>1 DEF Between, Holding
  <2> QED
    BY <2>2, <2>3 DEF IInv, SyncInv
<1> QED
  BY <1>1, Invariance, PTL

(* With c.mu free every registered listener's server is open: only a       *)
(* handler that holds c.mu works on a registered instance                  *)
(* (local_admin.go:303-311).                                               *)
THEOREM ReplacementLeavesNoGap == Spec => []RegisteredServes
<1>1. IInv => RegisteredServes
  <2> SUFFICES ASSUME IInv, mu = None, NEW n \in Names, managed[n] # None
               PROVE  stage[managed[n]] = "open"
    BY DEF RegisteredServes
  <2>1. ASSUME NEW t \in Threads, inst[t] = managed[n] PROVE FALSE
    BY <2>1, NoneIsNoValue DEF IInv, OwnInv, Deleting
  <2> QED
    BY <2>1 DEF IInv, RegInv
<1> QED
  BY <1>1, Invariance, PTL

(* No two specs of the store ever have one address (local_admin.go:294).   *)
THEOREM AddressesAreUnique == Spec => []UniqueAddr
<1>1. IInv => UniqueAddr
  BY DEF IInv
<1> QED
  BY <1>1, Invariance, PTL

(* When every request had returned before Close took c.mu, the program     *)
(* that has closed leaves no app, no server and no spec                    *)
(* (local_admin.go:127-144).                                               *)
THEOREM GracefulCloseLeavesNothing == Spec => []GracefulCloseIsClean
<1>1. IInv => GracefulCloseIsClean
  <2> SUFFICES ASSUME IInv, pc[Main] = "closed", graceful
               PROVE  /\ \A i \in Instances : stage[i] = "none"
                      /\ \A n \in Names : specs[n] = None
    BY DEF GracefulCloseIsClean
  <2>1. \A t \in Threads : pc[t] \in {"idle", "closed"}
    BY DEF IInv, CloseInv, Threads
  <2>2. \A t \in Threads : inst[t] = None
    BY <2>1 DEF IInv, InstInv, Working, Opened
  <2>3. \A n \in Names : managed[n] = None
    BY DEF IInv, CloseInv
  <2>4. \A i \in Instances : stage[i] = "none"
    BY <2>2, <2>3, NoneIsNoValue DEF IInv, NoOrphan
  <2>5. \A n \in Names : ~Between(n, {"swap_map", "drop_spec"})
    BY <2>1 DEF Between
  <2>6. \A n \in Names : specs[n] = None
    BY <2>3, <2>5 DEF IInv, SyncInv
  <2> QED
    BY <2>4, <2>6
<1> QED
  BY <1>1, Invariance, PTL

-----------------------------------------------------------------------------
(* The store implements the registry.                                      *)

(* The port a handler is about to register belongs to an open server, so   *)
(* no registered listener has it: a spec's server is open, or the handler  *)
(* that holds c.mu is the one between the store and the map.               *)
LEMMA NewPortIsUnused ==
  ASSUME IInv, NEW t \in Requests, StoreListener(t)
  PROVE  /\ port[inst[t]] \in Ports
         /\ \A m \in Names : specs[m] # None => specs[m].port # port[inst[t]]
<1>1. /\ t \in Threads /\ mu = t /\ pc[t] = "swap_store"
      /\ inst[t] \in Instances /\ stage[inst[t]] = "open" /\ inst[t] # None
  BY NoneIsNoValue
     DEF IInv, StoreListener, LockInv, InstInv, Threads, Holding, Opened,
         Working
<1>2. port[inst[t]] \in Ports
  BY <1>1 DEF IInv, PortInv
<1>3. ASSUME NEW m \in Names, specs[m] # None
      PROVE  specs[m].port # port[inst[t]]
  <2>1. \A u \in Threads : pc[u] \notin {"swap_map", "drop_map", "drop_spec"}
    BY <1>1 DEF IInv, LockInv, Holding
  <2>2. ~Between(m, {"swap_map", "drop_map"}) /\ ~Between(m, {"swap_map",
      "drop_spec"})
    BY <2>1 DEF Between
  <2>3. managed[m] # None /\ specs[m].port = port[managed[m]]
    BY <1>3, <2>2 DEF IInv, SyncInv
  <2>4. managed[m] \in Instances
    BY <2>3 DEF IInv, TypeOK
  <2>5. managed[m] # inst[t]
    BY <1>1 DEF IInv, OwnInv, Deleting, Teardown
  <2>6. stage[managed[m]] = "open"
    <3>1. ASSUME NEW u \in Threads, inst[u] = managed[m] PROVE FALSE
      BY <1>1, <2>3, <3>1 DEF IInv, OwnInv, Deleting, Teardown
    <3> QED
      BY <2>3, <3>1 DEF IInv, RegInv
  <2> QED
    BY <1>1, <2>3, <2>4, <2>5, <2>6 DEF IInv, PortInv
<1> QED
  BY <1>2, <1>3

(* Storing a spec is the registry's put of an unused address.              *)
LEMMA StoreListenerPuts ==
  ASSUME IInv, NEW t \in Requests, StoreListener(t)
  PROVE  Registry!RegistryNext
<1> DEFINE l == [profile |-> req[t].profile, port |-> port[inst[t]]]
<1>1. req[t].name \in Names /\ req[t].profile \in Profiles
  BY DEF IInv, ReqInv, StoreListener, Threads, Upserting, UpsertReq
<1>2. l \in Registry!Listener
  BY <1>1, NewPortIsUnused DEF Registry!Listener
<1>3. \A m \in Names : specs[m] # None => specs[m].port # l.port
  BY NewPortIsUnused
<1>4. Registry!PutListener(req[t].name, l)
  BY <1>3 DEF StoreListener, Registry!PutListener
<1> QED
  BY <1>1, <1>2, <1>4 DEF Registry!RegistryNext, Registry!PutListener

(* Forgetting a spec is the registry's removal.                            *)
LEMMA DropSpecRemoves ==
  ASSUME IInv, NEW t \in Threads, DropSpec(t)
  PROVE  Registry!RegistryNext \/ UNCHANGED Registry!rvars
<1>1. req[t].name \in Names
  BY DEF IInv, ReqInv, DropSpec, Dropping, DeleteReq
<1>2. CASE specs[req[t].name] = None
  <2>1. specs' = specs
    BY <1>2 DEF IInv, TypeOK, DropSpec
  <2> QED
    BY <2>1 DEF DropSpec, Registry!rvars
<1>3. CASE specs[req[t].name] # None
  <2>1. Registry!RemoveListener(req[t].name)
    BY <1>3 DEF DropSpec, Registry!RemoveListener
  <2> QED
    BY <1>1, <2>1 DEF Registry!RegistryNext, Registry!RemoveListener
<1> QED
  BY <1>2, <1>3

(* Every step of the control plane is one operation of the registry, or is *)
(* invisible in it.                                                        *)
THEOREM ImplementsRegistry == Spec => RefinesRegistry
<1>1. Init => Registry!RegistryInit
  BY DEF Init, Registry!RegistryInit
<1>2. IInv /\ [Next]_vars => [Registry!RegistryNext]_(Registry!rvars)
  <2> SUFFICES ASSUME IInv, [Next]_vars
               PROVE  Registry!RegistryNext \/ UNCHANGED Registry!rvars
    OBVIOUS
  <2>1. ASSUME NEW t \in Requests, NEW p \in Profiles, NEW c \in Configs,
               PutProfile(t, p, c)
        PROVE  Registry!RegistryNext
    BY <2>1 DEF PutProfile, Registry!RegistryNext, Registry!PutProfile
  <2>2. ASSUME NEW t \in Requests, NEW p \in Profiles, RemoveProfile(t, p)
        PROVE  Registry!RegistryNext
    BY <2>2 DEF RemoveProfile, Registry!RegistryNext, Registry!RemoveProfile
  <2>3. ASSUME NEW t \in Requests, NEW n \in Names,
               \/ StartDelete(t, n)
               \/ \E p \in Profiles : SnapshotProfile(t, n, p)
        PROVE  UNCHANGED Registry!rvars
    BY <2>3 DEF StartDelete, SnapshotProfile, store, Registry!rvars
  <2>4. ASSUME NEW t \in Requests, Upsert(t)
        PROVE  Registry!RegistryNext \/ UNCHANGED Registry!rvars
    <3>1. CASE StoreListener(t)
      BY <3>1, StoreListenerPuts
    <3>2. CASE ~StoreListener(t)
      BY <2>4, <3>2 DEF Upsert, BuildApp, BuildFails, Bind, BindFails,
                        RejectListener, SwapMap, store, Registry!rvars
    <3> QED
      BY <3>1, <3>2
  <2>5. ASSUME NEW t \in Requests, LockToRegister(t) \/ LockToDelete(t)
        PROVE  UNCHANGED Registry!rvars
    BY <2>5 DEF LockToRegister, LockToDelete, store, Registry!rvars
  <2>6. ASSUME NEW t \in Threads, TearDown(t)
        PROVE  Registry!RegistryNext \/ UNCHANGED Registry!rvars
    <3>1. CASE DropSpec(t)
      BY <3>1, DropSpecRemoves
    <3>2. CASE ~DropSpec(t)
      BY <2>6, <3>2 DEF TearDown, CloseServer, Drained, CloseApp, DropMap,
                        store, Registry!rvars
    <3> QED
      BY <3>1, <3>2
  <2>7. ASSUME Stop \/ LockToClose \/ Close PROVE UNCHANGED Registry!rvars
    BY <2>7 DEF Stop, LockToClose, Close, CloseNext, CloseDone, store,
                Registry!rvars
  <2>8. ASSUME Terminated \/ UNCHANGED vars PROVE UNCHANGED Registry!rvars
    BY <2>8 DEF Terminated, vars, Registry!rvars
  <2> QED
    BY <2>1, <2>2, <2>3, <2>4, <2>5, <2>6, <2>7, <2>8 DEF Next
<1> QED
  BY <1>1, <1>2, Invariance, PTL DEF Spec, RefinesRegistry,
      Registry!RegistrySpec
=============================================================================
