--------------------------- MODULE ToolSynthProofs ---------------------------
(***************************************************************************)
(* Proofs about ToolSynth, for any set of calls and any limits.  They do   *)
(* not need the calls to be finitely many: a slot is taken for each        *)
(* goroutine, so those are, and so are the tools warned of.                *)
(***************************************************************************)
EXTENDS ToolSynth, FiniteSetTheorems, TLAPS

Callers == {"idle", "waiting", "running", "simple", "verified", "rejected"}
Early   == {"none", "generating", "ticking", "checking"}
Workers == Early \cup {"sending", "sent", "ended"}

Shapes ==
  /\ caller \in [Calls -> Callers] /\ worker \in [Calls -> Workers]
  /\ result \in [Calls -> {"verified", "nil"}]
  /\ done \in [Calls -> {"empty", "verified", "nil"}]
  /\ work \in [Calls -> Nat] /\ whole \in [Calls -> 0..MaxWholeChecks]
  /\ aborted \in [Calls -> BOOLEAN] /\ late \in [Calls -> BOOLEAN]
  /\ stray \in [Calls -> Nat] /\ sem \in Nat
  /\ warned \subseteq Tools /\ log \in [Tools -> Nat]

(* A slot for each goroutine.                                              *)
Goroutines == {c \in Calls : Alive(c)}
Slots == IsFiniteSet(Goroutines) /\ sem = Cardinality(Goroutines) /\ sem <= MaxConcurrent

(* The budget: a call that was not given up is within it, and a goroutine  *)
(* that is about to count was within it when it looked.                    *)
Budget == \A c \in Calls :
  /\ work[c] <= MaxWork + 1 /\ stray[c] <= 1
  /\ ~aborted[c] \/ worker[c] = "ticking" => work[c] <= MaxWork
  /\ ~aborted[c] \/ worker[c] = "ticking" => stray[c] = 0

(* How far a result has come, and that it is verified only while nobody    *)
(* has given the call up.                                                  *)
Answers == \A c \in Calls :
  /\ caller[c] \in {"idle", "waiting"} => worker[c] = "none"
  /\ worker[c] \in Early => result[c] = "nil"
  /\ done[c] # "empty" => done[c] = result[c] /\ worker[c] \in {"sent", "ended"}
  /\ caller[c] = "running" /\ result[c] = "verified" => ~aborted[c]
  /\ caller[c] = "verified" => ~aborted[c] /\ worker[c] \in {"sent", "ended"}

Warned == WarnOnce /\ IsFiniteSet(warned)

IInv == Shapes /\ Slots /\ Budget /\ Answers /\ Warned

-----------------------------------------------------------------------------
(* The limits are positive.                                                *)
LEMMA Limits == MaxConcurrent \in Nat /\ MaxWork \in Nat /\ MaxWholeChecks \in Nat /\ MaxWarned \in Nat
BY SynthAssumption

(* Before the first call no slot is taken and nothing is logged.           *)
LEMMA InitIInv == Init => IInv
<1> SUFFICES ASSUME Init PROVE IInv
  OBVIOUS
<1>1. Shapes
  BY Limits DEF Init, Shapes, Callers, Workers, Early
<1>2. Slots
  <2>1. Goroutines = {}
    BY DEF Init, Goroutines, Alive
  <2> QED
    BY <2>1, FS_EmptySet, Limits DEF Init, Slots
<1>3. Budget
  BY Limits DEF Init, Budget
<1>4. Answers
  BY DEF Init, Answers
<1>5. Warned
  BY FS_EmptySet, Limits DEF Init, Warned, WarnOnce
<1> QED
  BY <1>1, <1>2, <1>3, <1>4, <1>5 DEF IInv

-----------------------------------------------------------------------------
(* warnOnce logs a tool once, and forgets none while there is room.        *)
LEMMA WarnKeeps ==
  ASSUME Shapes, Warned, NEW c \in Calls, warnOnce(ToolOf[c]),
         NEW now \in Callers, caller' = [caller EXCEPT ![c] = now]
  PROVE  /\ Warned'
         /\ warned' \subseteq Tools /\ log' \in [Tools -> Nat]
<1> DEFINE t == ToolOf[c]
<1>1. t \in Tools
  BY SynthAssumption
<1>2. Cardinality(warned) \in Nat /\ MaxWarned \in Nat
  BY FS_CardinalityType, Limits DEF Warned
<1>3. CASE t \in warned \/ Cardinality(warned) >= MaxWarned
  <2>1. UNCHANGED <<warned, log>>
    BY <1>3 DEF warnOnce
  <2>2. t \in warned \/ Cardinality(warned) = MaxWarned
    BY <1>2, <1>3 DEF Warned, WarnOnce
  <2>3. \A d \in Calls : caller'[d] = "simple" => d = c \/ caller[d] = "simple"
    BY DEF Shapes
  <2> QED
    BY <2>1, <2>2, <2>3 DEF Shapes, Warned, WarnOnce
<1>4. CASE ~(t \in warned \/ Cardinality(warned) >= MaxWarned)
  <2>1. warned' = warned \cup {t} /\ log' = [log EXCEPT ![t] = @ + 1]
    BY <1>4 DEF warnOnce
  <2>2. IsFiniteSet(warned') /\ Cardinality(warned') = Cardinality(warned) + 1
    BY <1>4, <2>1, FS_AddElement DEF Warned
  <2>3. Cardinality(warned') <= MaxWarned
    BY <1>2, <1>4, <2>2
  <2>4. \A u \in Tools : log'[u] = IF u \in warned' THEN 1 ELSE 0
    BY <1>1, <1>4, <2>1 DEF Shapes, Warned, WarnOnce
  <2>5. Cardinality(warned) # MaxWarned
    BY <1>2, <1>4
  <2>6. \A d \in Calls : caller'[d] = "simple" => ToolOf[d] \in warned'
    BY <2>1, <2>5 DEF Shapes, Warned, WarnOnce
  <2>7. log' \in [Tools -> Nat] /\ warned' \subseteq Tools
    BY <1>1, <2>1 DEF Shapes
  <2> QED
    BY <2>2, <2>3, <2>4, <2>6, <2>7 DEF Warned, WarnOnce
<1> QED
  BY <1>3, <1>4

(* A step that warns nobody and returns no simple arguments.               *)
LEMMA QuietKeeps ==
  ASSUME Warned, UNCHANGED <<warned, log>>,
         \A d \in Calls : caller'[d] = "simple" => caller[d] = "simple"
  PROVE  Warned'
BY DEF Warned, WarnOnce

(* A step after which the same goroutines live leaves the slots right.     *)
LEMMA SlotsKept ==
  ASSUME Slots, sem' = sem, \A d \in Calls : Alive(d)' <=> Alive(d)
  PROVE  Slots'
<1>1. Goroutines' = Goroutines
  BY DEF Goroutines
<1> QED
  BY <1>1 DEF Slots

-----------------------------------------------------------------------------
(* A step is a step of one call, its caller's or its goroutine's.          *)
Step(c) == Call(c) \/ Generate(c) \/ Check(c) \/ DeadlinePasses(c)

(* Every step keeps the types.                                             *)
LEMMA StepShapes == ASSUME IInv, NEW c \in Calls, Step(c) PROVE Shapes'
<1> USE SynthAssumption
<1>0. CASE NoObjectSchema(c)
  BY <1>0, Limits DEF IInv, Shapes, Callers, NoObjectSchema, gen
<1>1. CASE Unverifiable(c)
  <2>1. warned' \subseteq Tools /\ log' \in [Tools -> Nat]
    BY <1>1, WarnKeeps DEF IInv, Unverifiable, ReturnSimple, Callers
  <2> QED
    BY <1>1, <2>1 DEF IInv, Shapes, Callers, Unverifiable, ReturnSimple, gen
<1>2. CASE Acquire(c)
  BY <1>2, Limits DEF IInv, Shapes, Callers, Workers, Early, Acquire, gen
<1>3. CASE Wait(c)
  BY <1>3, Limits DEF IInv, Shapes, Callers, Workers, Early, Wait, gen
<1>4. CASE SemTimeout(c)
  <2>1. warned' \subseteq Tools /\ log' \in [Tools -> Nat]
    BY <1>4, WarnKeeps DEF IInv, SemTimeout, ReturnSimple, Callers
  <2> QED
    BY <1>4, <2>1 DEF IInv, Shapes, Callers, SemTimeout, ReturnSimple, gen
<1>5. CASE Receive(c)
  <2>1. warned' \subseteq Tools /\ log' \in [Tools -> Nat]
    BY <1>5, WarnKeeps DEF IInv, Shapes, Receive, ReturnSimple, Callers
  <2>2. caller' \in [Calls -> Callers] /\ done' \in [Calls -> {"empty", "verified", "nil"}]
    BY <1>5 DEF IInv, Shapes, Callers, Receive, ReturnSimple
  <2> QED
    BY <1>5, <2>1, <2>2 DEF IInv, Shapes, Receive, gen
<1>6. CASE HardTimeout(c)
  <2>1. warned' \subseteq Tools /\ log' \in [Tools -> Nat]
    BY <1>6, WarnKeeps DEF IInv, HardTimeout, ReturnSimple, Callers
  <2> QED
    BY <1>6, <2>1 DEF IInv, Shapes, Callers, HardTimeout, ReturnSimple, gen
<1>7. CASE Tick(c)
  BY <1>7, Limits DEF IInv, Shapes, Callers, Workers, Early, Tick, Send, Become, Elsewhere, gen
<1>8. CASE Count(c)
  <2>1. work' \in [Calls -> Nat] /\ stray' \in [Calls -> Nat]
    BY <1>8 DEF IInv, Shapes, Count
  <2>2. aborted' \in [Calls -> BOOLEAN] /\ worker' \in [Calls -> Workers]
    BY <1>8 DEF IInv, Shapes, Workers, Early, Count, Become
  <2> QED
    BY <1>8, <2>1, <2>2 DEF IInv, Shapes, Count, Elsewhere
<1>9. CASE Panic(c)
  BY <1>9, Limits DEF IInv, Shapes, Callers, Workers, Early, Panic, Send, Become, Elsewhere, gen
<1>10. CASE Deliver(c)
  BY <1>10, Limits DEF IInv, Shapes, Callers, Workers, Early, Deliver, Become, gen
<1>11. CASE Release(c)
  <2>1. c \in Goroutines
    BY <1>11 DEF Goroutines, Alive, Release
  <2>2. Cardinality(Goroutines) # 0 /\ sem = Cardinality(Goroutines)
    BY <2>1, FS_EmptySet DEF IInv, Slots
  <2>3. sem' \in Nat
    BY <1>11, <2>2 DEF IInv, Shapes, Release
  <2> QED
    BY <1>11, <2>3 DEF IInv, Shapes, Workers, Release, Become, gen
<1>12. CASE PartChecked(c)
  BY <1>12, Limits DEF IInv, Shapes, Callers, Workers, Early, PartChecked, Become,
     Elsewhere, gen
<1>13. CASE WholeChecked(c)
  BY <1>13, Limits DEF IInv, Shapes, Callers, Workers, Early, WholeChecked, Send, Become,
     Elsewhere, gen
<1>14. CASE DeadlinePasses(c)
  BY <1>14, Limits DEF IInv, Shapes, Callers, Workers, Early, DeadlinePasses, gen
<1> QED
  BY <1>0, <1>1, <1>2, <1>3, <1>4, <1>5, <1>6, <1>7, <1>8, <1>9, <1>10, <1>11, <1>12, <1>13, <1>14
     DEF Step, Call, Generate, Check

(* A slot is taken with a goroutine's start and given back with its end.   *)
LEMMA StepSlots == ASSUME IInv, NEW c \in Calls, Step(c) PROVE Slots'
<1> USE DEF IInv, Shapes, Alive
<1>0. CASE NoObjectSchema(c)
  BY <1>0, SlotsKept DEF NoObjectSchema, gen
<1>1. CASE Unverifiable(c)
  BY <1>1, SlotsKept DEF Unverifiable, ReturnSimple, gen
<1>2. CASE Acquire(c)
  <2>1. Goroutines' = Goroutines \cup {c} /\ c \notin Goroutines
    BY <1>2 DEF Goroutines, Acquire, Answers
  <2>2. IsFiniteSet(Goroutines') /\ Cardinality(Goroutines') = Cardinality(Goroutines) + 1
    BY <2>1, FS_AddElement DEF Slots
  <2>3. sem' = sem + 1 /\ sem < MaxConcurrent
    BY <1>2 DEF Acquire
  <2> QED
    BY <2>2, <2>3, Limits DEF Slots
<1>3. CASE Wait(c)
  BY <1>3, SlotsKept DEF Wait, gen
<1>4. CASE SemTimeout(c)
  BY <1>4, SlotsKept DEF SemTimeout, ReturnSimple, gen
<1>5. CASE Receive(c)
  BY <1>5, SlotsKept DEF Receive, ReturnSimple, gen
<1>6. CASE HardTimeout(c)
  BY <1>6, SlotsKept DEF HardTimeout, ReturnSimple, gen
<1>7. CASE Tick(c)
  BY <1>7, SlotsKept DEF Tick, Send, Become, Elsewhere, gen
<1>8. CASE Count(c)
  BY <1>8, SlotsKept DEF Count, Become, Elsewhere, gen
<1>9. CASE Panic(c)
  BY <1>9, SlotsKept DEF Panic, Send, Become, Elsewhere, gen
<1>10. CASE Deliver(c)
  BY <1>10, SlotsKept DEF Deliver, Become, gen
<1>11. CASE Release(c)
  <2>1. Goroutines' = Goroutines \ {c} /\ c \in Goroutines
    BY <1>11 DEF Goroutines, Release, Become
  <2>2. IsFiniteSet(Goroutines') /\ Cardinality(Goroutines') = Cardinality(Goroutines) - 1
    BY <2>1, FS_RemoveElement DEF Slots
  <2>3. sem' = sem - 1
    BY <1>11 DEF Release
  <2> QED
    BY <2>2, <2>3, Limits DEF Slots
<1>12. CASE PartChecked(c)
  BY <1>12, SlotsKept DEF PartChecked, Become, Elsewhere, gen
<1>13. CASE WholeChecked(c)
  BY <1>13, SlotsKept DEF WholeChecked, Send, Become, Elsewhere, gen
<1>14. CASE DeadlinePasses(c)
  BY <1>14, SlotsKept DEF DeadlinePasses, gen
<1> QED
  BY <1>0, <1>1, <1>2, <1>3, <1>4, <1>5, <1>6, <1>7, <1>8, <1>9, <1>10, <1>11, <1>12, <1>13, <1>14
     DEF Step, Call, Generate, Check

(* A goroutine counts at most once after the flag it looked at was set.    *)
LEMMA StepBudget == ASSUME IInv, NEW c \in Calls, Step(c) PROVE Budget'
<1> USE Limits DEF IInv, Shapes
<1>0. CASE NoObjectSchema(c)
  BY <1>0 DEF Budget, NoObjectSchema, gen
<1>1. CASE Unverifiable(c)
  BY <1>1 DEF Budget, Unverifiable, ReturnSimple, gen
<1>2. CASE Acquire(c)
  BY <1>2 DEF Budget, Acquire, gen
<1>3. CASE Wait(c)
  BY <1>3 DEF Budget, Wait, gen
<1>4. CASE SemTimeout(c)
  BY <1>4 DEF Budget, SemTimeout, ReturnSimple, gen
<1>5. CASE Receive(c)
  BY <1>5 DEF Budget, Receive, ReturnSimple, gen
<1>6. CASE HardTimeout(c)
  BY <1>6 DEF Budget, HardTimeout, ReturnSimple, gen
<1>7. CASE Tick(c)
  BY <1>7 DEF Budget, Tick, Send, Become, Elsewhere, gen
<1>8. CASE Count(c)
  BY <1>8 DEF Budget, Count, Become, Elsewhere, gen
<1>9. CASE Panic(c)
  BY <1>9 DEF Budget, Panic, Send, Become, Elsewhere, gen
<1>10. CASE Deliver(c)
  BY <1>10 DEF Budget, Deliver, Become, gen
<1>11. CASE Release(c)
  BY <1>11 DEF Budget, Release, Become, gen
<1>12. CASE PartChecked(c)
  BY <1>12 DEF Budget, PartChecked, Become, Elsewhere, gen
<1>13. CASE WholeChecked(c)
  BY <1>13 DEF Budget, WholeChecked, Send, Become, Elsewhere, gen
<1>14. CASE DeadlinePasses(c)
  BY <1>14 DEF Budget, DeadlinePasses, gen
<1> QED
  BY <1>0, <1>1, <1>2, <1>3, <1>4, <1>5, <1>6, <1>7, <1>8, <1>9, <1>10, <1>11, <1>12, <1>13, <1>14
     DEF Step, Call, Generate, Check

(* A verified result is the result of a call nobody gave up.               *)
LEMMA StepAnswers == ASSUME IInv, NEW c \in Calls, Step(c) PROVE Answers'
<1> USE DEF IInv, Shapes, Early
<1>0. CASE NoObjectSchema(c)
  BY <1>0 DEF Answers, NoObjectSchema, gen
<1>1. CASE Unverifiable(c)
  BY <1>1 DEF Answers, Unverifiable, ReturnSimple, gen
<1>2. CASE Acquire(c)
  BY <1>2 DEF Answers, Acquire, gen
<1>3. CASE Wait(c)
  BY <1>3 DEF Answers, Wait, gen
<1>4. CASE SemTimeout(c)
  BY <1>4 DEF Answers, SemTimeout, ReturnSimple, gen
<1>5. CASE Receive(c)
  BY <1>5 DEF Answers, Receive, ReturnSimple, gen
<1>6. CASE HardTimeout(c)
  BY <1>6 DEF Answers, HardTimeout, ReturnSimple, gen
<1>7. CASE Tick(c)
  BY <1>7 DEF Answers, Tick, Send, Become, Elsewhere, gen
<1>8. CASE Count(c)
  BY <1>8 DEF Answers, Count, Become, Elsewhere, gen
<1>9. CASE Panic(c)
  BY <1>9 DEF Answers, Panic, Send, Become, Elsewhere, gen
<1>10. CASE Deliver(c)
  BY <1>10 DEF Answers, Deliver, Become, gen
<1>11. CASE Release(c)
  BY <1>11 DEF Answers, Release, Become, gen
<1>12. CASE PartChecked(c)
  BY <1>12 DEF Answers, PartChecked, Become, Elsewhere, gen
<1>13. CASE WholeChecked(c)
  BY <1>13 DEF Answers, WholeChecked, Send, Become, Elsewhere, gen
<1>14. CASE DeadlinePasses(c)
  BY <1>14 DEF Answers, DeadlinePasses, gen
<1> QED
  BY <1>0, <1>1, <1>2, <1>3, <1>4, <1>5, <1>6, <1>7, <1>8, <1>9, <1>10, <1>11, <1>12, <1>13, <1>14
     DEF Step, Call, Generate, Check

(* A call that returns simple arguments warns of its tool.                 *)
LEMMA StepWarned == ASSUME IInv, NEW c \in Calls, Step(c) PROVE Warned'
<1> USE DEF IInv, Callers
<1>0. CASE NoObjectSchema(c)
  BY <1>0, QuietKeeps DEF Shapes, NoObjectSchema, gen
<1>1. CASE Unverifiable(c)
  BY <1>1, WarnKeeps DEF Unverifiable, ReturnSimple
<1>2. CASE Acquire(c)
  BY <1>2, QuietKeeps DEF Shapes, Acquire, gen
<1>3. CASE Wait(c)
  BY <1>3, QuietKeeps DEF Shapes, Wait, gen
<1>4. CASE SemTimeout(c)
  BY <1>4, WarnKeeps DEF SemTimeout, ReturnSimple
<1>5. CASE Receive(c)
  <2>1. CASE done[c] = "nil"
    BY <1>5, <2>1, WarnKeeps DEF Receive, ReturnSimple
  <2>2. CASE done[c] # "nil"
    BY <1>5, <2>2, QuietKeeps DEF Shapes, Receive
  <2> QED
    BY <2>1, <2>2
<1>6. CASE HardTimeout(c)
  BY <1>6, WarnKeeps DEF HardTimeout, ReturnSimple
<1>7. CASE Tick(c)
  BY <1>7, QuietKeeps DEF Shapes, Tick, Send, Become, Elsewhere, gen
<1>8. CASE Count(c)
  BY <1>8, QuietKeeps DEF Shapes, Count, Become, Elsewhere, gen
<1>9. CASE Panic(c)
  BY <1>9, QuietKeeps DEF Shapes, Panic, Send, Become, Elsewhere, gen
<1>10. CASE Deliver(c)
  BY <1>10, QuietKeeps DEF Shapes, Deliver, Become, gen
<1>11. CASE Release(c)
  BY <1>11, QuietKeeps DEF Shapes, Release, Become, gen
<1>12. CASE PartChecked(c)
  BY <1>12, QuietKeeps DEF Shapes, PartChecked, Become, Elsewhere, gen
<1>13. CASE WholeChecked(c)
  BY <1>13, QuietKeeps DEF Shapes, WholeChecked, Send, Become, Elsewhere, gen
<1>14. CASE DeadlinePasses(c)
  BY <1>14, QuietKeeps DEF Shapes, DeadlinePasses, gen
<1> QED
  BY <1>0, <1>1, <1>2, <1>3, <1>4, <1>5, <1>6, <1>7, <1>8, <1>9, <1>10, <1>11, <1>12, <1>13, <1>14
     DEF Step, Call, Generate, Check

(* Every step keeps the invariant.                                         *)
LEMMA NextIInv == IInv /\ [Next]_vars => IInv'
<1> SUFFICES ASSUME IInv, [Next]_vars PROVE IInv'
  OBVIOUS
<1>1. CASE \E c \in Calls : Step(c)
  BY <1>1, StepShapes, StepSlots, StepBudget, StepAnswers, StepWarned DEF IInv
<1>2. CASE UNCHANGED vars
  <2>1. \A d \in Calls : Alive(d)' <=> Alive(d)
    BY <1>2 DEF vars, Alive
  <2>2. Slots'
    BY <1>2, <2>1, SlotsKept DEF vars, IInv
  <2> QED
    BY <1>2, <2>2 DEF vars, IInv, Shapes, Budget, Answers, Warned, WarnOnce
<1> QED
  BY <1>1, <1>2 DEF Next, Step

-----------------------------------------------------------------------------
(* IInv is invariant (synthesize and the goroutine it starts).             *)
THEOREM Invariance == Spec => []IInv
<1> QED
  BY InitIInv, NextIInv, PTL DEF Spec

(* The locals of the calls, the semaphore and the warned set have their    *)
(* types; work stays within two of its limit.                              *)
THEOREM TypeCorrect == Spec => []TypeOK
<1>1. IInv => TypeOK
  <2> SUFFICES ASSUME IInv PROVE TypeOK
    OBVIOUS
  <2>1. work \in [Calls -> 0..MaxWork + 2]
    BY Limits DEF IInv, Shapes, Budget
  <2>2. sem \in 0..MaxConcurrent
    BY Limits DEF IInv, Shapes, Slots
  <2> QED
    BY <2>1, <2>2 DEF IInv, Shapes, Callers, Workers, Early, TypeOK
<1> QED
  BY <1>1, Invariance, PTL

(* Slots and goroutines are as many, abandoned goroutines included, and    *)
(* never more than the semaphore has (toolsynth.go:178).                   *)
THEOREM SlotsAreGoroutines == Spec => []SlotsAreWorkers
<1>1. IInv => SlotsAreWorkers
  BY DEF IInv, Slots, Goroutines, SlotsAreWorkers
<1> QED
  BY <1>1, Invariance, PTL

(* A call that was given up does at most one more tick, and its arguments  *)
(* never count as verified (toolsynth.go:281).                             *)
THEOREM AbortIsFinal == Spec => []AbortStopsWork
<1>1. IInv => AbortStopsWork
  BY DEF IInv, Budget, Answers, AbortStopsWork
<1> QED
  BY <1>1, Invariance, PTL

(* One line for a tool, and one for every tool that fell back to the       *)
(* simple arguments while there was room (warnOnce, toolsynth.go:77).      *)
THEOREM WarnsOnce == Spec => []WarnOnce
<1>1. IInv => WarnOnce
  BY DEF IInv, Warned
<1> QED
  BY <1>1, Invariance, PTL
=============================================================================
