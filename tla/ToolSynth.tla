------------------------------ MODULE ToolSynth ------------------------------
(***************************************************************************)
(* Concurrent calls of synthesize (internal/provider/backend/toolsynth.go):*)
(* each takes a slot of synthSem, hands its work to a goroutine, and       *)
(* returns the verified arguments or, when that fails or lasts too long,   *)
(* the simple ones.  A validation cannot be interrupted, so the goroutine  *)
(* may outlive its call; it keeps its slot.                                *)
(*                                                                         *)
(* What is generated is ArgsGenerator's: here a check of a candidate has   *)
(* any outcome.  Time is two facts: that a wait for a slot has lasted too  *)
(* long, and that a call's work deadline is over (late), which a hard      *)
(* timeout comes after.                                                    *)
(***************************************************************************)
EXTENDS Integers, FiniteSets

CONSTANTS Calls, Tools, ToolOf,
          MaxConcurrent,     (* slots                                      *)
          MaxWork,           (* ticks of a call                            *)
          MaxWholeChecks,    (* validations of a whole value, per call     *)
          MaxWarned          (* tools warned of, at most                   *)

ASSUME SynthAssumption ==
  /\ ToolOf \in [Calls -> Tools]
  /\ {MaxConcurrent, MaxWork, MaxWholeChecks, MaxWarned} \subseteq Nat \ {0}

VARIABLES caller,    (* "idle" | "waiting" | "running" | "simple" |        *)
                     (* "verified" | "rejected"                            *)
          worker,    (* "none" | "generating" | "ticking" | "checking" |   *)
                     (* "sending" | "sent" | "ended"                       *)
          result,    (* what the goroutine sends: "verified" | "nil"       *)
          done,      (* the channel, with room for one result              *)
          sem,       (* slots taken                                        *)
          work, whole, aborted, late,
          stray,     (* ticks counted after the call was aborted           *)
          warned,    (* the tools warned of                                *)
          log        (* lines logged, by tool                              *)

gen == <<work, whole, aborted, stray>>
vars == <<caller, worker, result, done, sem, work, whole, aborted, late, stray, warned, log>>

Init ==
  /\ caller = [c \in Calls |-> "idle"]
  /\ worker = [c \in Calls |-> "none"]
  /\ result = [c \in Calls |-> "nil"]
  /\ done = [c \in Calls |-> "empty"]
  /\ sem = 0
  /\ work = [c \in Calls |-> 0] /\ whole = [c \in Calls |-> 0]
  /\ aborted = [c \in Calls |-> FALSE] /\ late = [c \in Calls |-> FALSE]
  /\ stray = [c \in Calls |-> 0]
  /\ warned = {} /\ log = [t \in Tools |-> 0]

Alive(c) == worker[c] \notin {"none", "ended"}

warnOnce(t) ==
  IF t \in warned \/ Cardinality(warned) >= MaxWarned THEN UNCHANGED <<warned, log>>
  ELSE warned' = warned \cup {t} /\ log' = [log EXCEPT ![t] = @ + 1]

ReturnSimple(c) == caller' = [caller EXCEPT ![c] = "simple"] /\ warnOnce(ToolOf[c])

(* No schema, or none of an object: the arguments are {}, without a word.  *)
NoObjectSchema(c) ==
  /\ caller[c] = "idle"
  /\ caller' = [caller EXCEPT ![c] = "rejected"]
  /\ UNCHANGED <<worker, result, done, sem, gen, late, warned, log>>

(* The schema is too large or no tree can be built from it, or the request *)
(* goroutine panics.                                                       *)
Unverifiable(c) ==
  /\ caller[c] = "idle"
  /\ ReturnSimple(c)
  /\ UNCHANGED <<worker, result, done, sem, gen, late>>

Acquire(c) ==
  /\ caller[c] \in {"idle", "waiting"} /\ sem < MaxConcurrent
  /\ sem' = sem + 1
  /\ caller' = [caller EXCEPT ![c] = "running"]
  /\ worker' = [worker EXCEPT ![c] = "generating"]
  /\ UNCHANGED <<result, done, gen, late, warned, log>>

Wait(c) ==
  /\ caller[c] = "idle" /\ sem = MaxConcurrent
  /\ caller' = [caller EXCEPT ![c] = "waiting"]
  /\ UNCHANGED <<worker, result, done, sem, gen, late, warned, log>>

SemTimeout(c) ==
  /\ caller[c] = "waiting"
  /\ ReturnSimple(c)
  /\ UNCHANGED <<worker, result, done, sem, gen, late>>

DeadlinePasses(c) ==
  /\ caller[c] = "running" \/ Alive(c)
  /\ late' = [late EXCEPT ![c] = TRUE]
  /\ UNCHANGED <<caller, worker, result, done, sem, gen, warned, log>>

(************************************ the goroutine ************************)
Become(c, w) == worker' = [worker EXCEPT ![c] = w]
Send(c, r) == Become(c, "sending") /\ result' = [result EXCEPT ![c] = r]
Elsewhere == UNCHANGED <<caller, done, sem, late, warned, log>>

TickUnchecked(c) == /\ worker[c] = "generating"
                    /\ Become(c, "ticking") /\ UNCHANGED result
                    /\ UNCHANGED gen /\ Elsewhere
(* tick reads the flag, then counts: the caller may abort in between.      *)
Tick(c) ==
  /\ worker[c] = "generating"
  /\ IF aborted[c] THEN Send(c, "nil") ELSE Become(c, "ticking") /\ UNCHANGED result
  /\ UNCHANGED gen /\ Elsewhere

Count(c) ==
  /\ worker[c] = "ticking"
  /\ work' = [work EXCEPT ![c] = @ + 1]
  /\ stray' = [stray EXCEPT ![c] = IF aborted[c] THEN @ + 1 ELSE @]
  /\ IF work[c] + 1 > MaxWork \/ late[c]
     THEN aborted' = [aborted EXCEPT ![c] = TRUE] /\ Become(c, "generating")
     ELSE UNCHANGED aborted /\ Become(c, "checking")
  /\ UNCHANGED <<whole, result>> /\ Elsewhere

(* A part of the value is checked: generation goes on whatever it says.    *)
PartChecked(c) ==
  /\ worker[c] = "checking"
  /\ Become(c, "generating")
  /\ UNCHANGED <<result, gen>> /\ Elsewhere

(* The whole value: when it is valid, or no more may be checked, run ends. *)
(* A valid one counts only if the call was not given up meanwhile.         *)
WholeChecked(c) ==
  /\ worker[c] = "checking"
  /\ IF whole[c] >= MaxWholeChecks THEN Send(c, "nil") /\ UNCHANGED whole
     ELSE /\ whole' = [whole EXCEPT ![c] = @ + 1]
          /\ \/ Send(c, IF aborted[c] THEN "nil" ELSE "verified")
             \/ Send(c, "nil")
             \/ Become(c, "generating") /\ UNCHANGED result
  /\ UNCHANGED <<work, aborted, stray>> /\ Elsewhere

Panic(c) ==
  /\ worker[c] \in {"generating", "checking"}
  /\ Send(c, "nil")
  /\ UNCHANGED gen /\ Elsewhere

DeliverToReceiver(c) ==
  /\ worker[c] = "sending" /\ done[c] = "empty" /\ caller[c] = "running"
  /\ done' = [done EXCEPT ![c] = result[c]] /\ Become(c, "sent")
  /\ UNCHANGED <<caller, result, sem, gen, late, warned, log>>
(* The channel has room: nobody need be there to receive.                  *)
Deliver(c) ==
  /\ worker[c] = "sending" /\ done[c] = "empty"
  /\ done' = [done EXCEPT ![c] = result[c]] /\ Become(c, "sent")
  /\ UNCHANGED <<caller, result, sem, gen, late, warned, log>>

Release(c) ==
  /\ worker[c] = "sent"
  /\ Become(c, "ended") /\ sem' = sem - 1
  /\ UNCHANGED <<caller, result, done, gen, late, warned, log>>

(************************************ the caller again *********************)
Receive(c) ==
  /\ caller[c] = "running" /\ done[c] # "empty"
  /\ done' = [done EXCEPT ![c] = "empty"]
  /\ IF done[c] = "nil" THEN ReturnSimple(c)
     ELSE caller' = [caller EXCEPT ![c] = "verified"] /\ UNCHANGED <<warned, log>>
  /\ UNCHANGED <<worker, result, sem, gen, late>>

HardTimeoutFreesSlot(c) ==
  /\ caller[c] = "running" /\ late[c]
  /\ aborted' = [aborted EXCEPT ![c] = TRUE] /\ sem' = sem - 1
  /\ ReturnSimple(c)
  /\ UNCHANGED <<worker, result, done, work, whole, stray, late>>
HardTimeout(c) ==
  /\ caller[c] = "running" /\ late[c]
  /\ aborted' = [aborted EXCEPT ![c] = TRUE]
  /\ ReturnSimple(c)
  /\ UNCHANGED <<worker, result, done, sem, work, whole, stray, late>>

Call(c) == NoObjectSchema(c) \/ Unverifiable(c) \/ Acquire(c) \/ Wait(c) \/ SemTimeout(c)
           \/ Receive(c) \/ HardTimeout(c)
Generate(c) == Tick(c) \/ Count(c) \/ Panic(c) \/ Deliver(c) \/ Release(c)
Check(c) == PartChecked(c) \/ WholeChecked(c)

Next == \E c \in Calls : Call(c) \/ Generate(c) \/ Check(c) \/ DeadlinePasses(c)

Spec == Init /\ [][Next]_vars

(************************************ properties ***************************)
TypeOK ==
  /\ caller \in [Calls -> {"idle", "waiting", "running", "simple", "verified", "rejected"}]
  /\ worker \in [Calls -> {"none", "generating", "ticking", "checking", "sending", "sent", "ended"}]
  /\ result \in [Calls -> {"verified", "nil"}] /\ done \in [Calls -> {"empty", "verified", "nil"}]
  /\ work \in [Calls -> 0..MaxWork + 2] /\ whole \in [Calls -> 0..MaxWholeChecks]
  /\ aborted \in [Calls -> BOOLEAN] /\ late \in [Calls -> BOOLEAN] /\ stray \in [Calls -> Nat]
  /\ warned \subseteq Tools /\ log \in [Tools -> Nat]
  /\ sem \in 0..MaxConcurrent

(* A slot is held by each goroutine that has not ended, abandoned ones     *)
(* included, and by nobody else (toolsynth.go:178).                        *)
SlotsAreWorkers == sem = Cardinality({c \in Calls : Alive(c)}) /\ sem <= MaxConcurrent

(* A call that was given up stops at its next tick: it counts one more at  *)
(* most, and returns no arguments as verified (toolsynth.go:281).          *)
AbortStopsWork == \A c \in Calls : stray[c] <= 1 /\ (caller[c] = "verified" => ~aborted[c])

(* A tool is warned of once, whoever fails, and only some tools are; a     *)
(* call that got the simple arguments leaves its tool warned of, unless    *)
(* the limit was reached (toolsynth.go:77).                                *)
WarnOnce ==
  /\ \A t \in Tools : log[t] = IF t \in warned THEN 1 ELSE 0
  /\ Cardinality(warned) <= MaxWarned
  /\ \A c \in Calls : caller[c] = "simple" => ToolOf[c] \in warned \/ Cardinality(warned) = MaxWarned

(* Every call returns, even if the check it waits for never ends.          *)
CallsReturn == \A c \in Calls : <>(caller[c] \in {"simple", "verified", "rejected"})

(* If checks end, abandoned goroutines do, and give back their slots.      *)
SlotsReturn == <>[](sem = 0)
=============================================================================
