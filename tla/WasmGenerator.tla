---------------------------- MODULE WasmGenerator ----------------------------
(***************************************************************************)
(* A profile's content generator (internal/wasmgen/generator.go): Compile  *)
(* makes one runtime and one compiled module, every Generate makes an      *)
(* instance of its own, which it takes through the calls of the ABI under  *)
(* a deadline and gives back whatever happens, and Close may come while    *)
(* calls run (cmd/zolem/startup.go).                                       *)
(*                                                                         *)
(* The module is code of the user: each of its functions may return,       *)
(* trap, or loop until the deadline closes the instance.                   *)
(***************************************************************************)
EXTENDS Naturals, Sequences, SequencesExt, FiniteSets

CONSTANTS Calls,
          Surfaces,        (* what a module imports and exports            *)
          MaxResultBytes, MaxChunks,
          Results          (* what result_len and the result may be: [bytes, utf8, chunks] *)

(* The host reads a length as an unsigned integer, and the limits are      *)
(* constants of the package.                                               *)
ResultsOK ==
  /\ MaxResultBytes \in Nat /\ MaxChunks \in Nat
  /\ \A x \in Results : x.bytes \in Nat /\ x.chunks \in Nat

VARIABLES
  surface,  (* the module, "fine" or how its validation goes wrong         *)
  owner,    (* the steps of Compile and Close: "compile", ..., "closed"    *)
  held,     (* what the generator holds: runtime, compiled                 *)
  pc,       (* call -> its next step                                       *)
  taken,    (* call -> what it has acquired, in order                      *)
  freed,    (* history: call -> what it has released, in order             *)
  result,   (* call -> the result it looks at                              *)
  looping,  (* calls whose module function does not return                 *)
  expired,  (* calls whose deadline has passed                             *)
  outcome   (* call -> "none", "ok", "error"                               *)

vars == <<surface, owner, held, pc, taken, freed, result, looping, expired, outcome>>
calls == <<pc, taken, freed, result, looping, expired, outcome>>

Init ==
  /\ surface \in Surfaces /\ owner = "validate" /\ held = {}
  /\ pc = [c \in Calls |-> "start"] /\ taken = [c \in Calls |-> <<>>] /\ freed = [c \in Calls |-> <<>>]
  /\ result \in [Calls -> Results] /\ looping = {} /\ expired = {}
  /\ outcome = [c \in Calls |-> "none"]

-----------------------------------------------------------------------------
(* Compile and Close.                                                      *)

Own(step, resources) == owner' = step /\ held' = resources /\ UNCHANGED <<surface, calls>>
validateImportExportSurface ==
  /\ owner = "validate"
  /\ Own(IF surface = "bad section" THEN "failed" ELSE "compile", {})
CompileModule ==
  /\ owner = "compile"
  /\ IF surface = "bad code" THEN Own("failed", {}) ELSE Own("check", {"runtime", "compiled"})
validateCompiledModule ==
  /\ owner = "check"
  /\ IF surface = "bad signature" THEN Own("failed", {}) ELSE Own("ready", held)
Close == owner = "ready" /\ Own("closed", {})

-----------------------------------------------------------------------------
(* Generate.                                                               *)

Steps == <<"instantiate", "alloc", "write", "generate", "len", "ptr", "read", "decode">>
StepAfter(step) ==
  LET i == CHOOSE j \in DOMAIN Steps : Steps[j] = step
  IN  IF i = Len(Steps) THEN "release" ELSE Steps[i + 1]
InModule == {"alloc", "generate", "len", "ptr"}
Acquires == [s \in {"instantiate", "alloc", "generate"} |->
               IF s = "instantiate" THEN "instance" ELSE IF s = "alloc" THEN "input" ELSE "result"]
(* Nothing of a closed runtime or instance works any more.                 *)
Dead(c) == c \in expired \/ owner = "closed"

Start(c) ==
  /\ pc[c] = "start" /\ owner \in {"ready", "closed"}
  /\ pc' = [pc EXCEPT ![c] = "instantiate"]
  /\ UNCHANGED <<surface, owner, held, taken, freed, result, looping, expired, outcome>>
Succeed(c) ==
  /\ ~Dead(c)
  /\ pc' = [pc EXCEPT ![c] = StepAfter(pc[c])]
  /\ taken' = IF pc[c] \in DOMAIN Acquires
                THEN [taken EXCEPT ![c] = Append(@, Acquires[pc[c]])] ELSE taken
  /\ outcome' = IF pc[c] = "decode" THEN [outcome EXCEPT ![c] = "ok"] ELSE outcome
  /\ UNCHANGED <<surface, owner, held, freed, result, looping, expired>>
Fail(c) ==
  /\ pc' = [pc EXCEPT ![c] = "release"] /\ outcome' = [outcome EXCEPT ![c] = "error"]
  /\ looping' = looping \ {c}
  /\ UNCHANGED <<surface, owner, held, taken, freed, result, expired>>
Loop(c) ==
  /\ pc[c] \in InModule /\ ~Dead(c) /\ looping' = looping \cup {c}
  /\ UNCHANGED <<surface, owner, held, pc, taken, freed, result, expired, outcome>>

TooLarge(c) == pc[c] = "len" /\ result[c].bytes > MaxResultBytes
Undecodable(c) == pc[c] = "decode" /\ (~result[c].utf8 \/ result[c].chunks > MaxChunks)
Generate(c) ==
  /\ pc[c] \in ToSet(Steps) /\ c \notin looping
  /\ IF TooLarge(c) \/ Undecodable(c) THEN Fail(c) ELSE Succeed(c) \/ Fail(c) \/ Loop(c)

(* The deadline closes the instance, and the function in it fails.         *)
Expire(c) ==
  /\ pc[c] \in ToSet(Steps) /\ c \notin expired /\ expired' = expired \cup {c}
  /\ UNCHANGED <<surface, owner, held, pc, taken, freed, result, looping, outcome>>
Interrupted(c) == c \in looping /\ Dead(c) /\ Fail(c)

(* Mutant: deferred calls in the order of their resources.                 *)
ReleaseFirst(c) ==
  /\ pc[c] = "release"
  /\ IF taken[c] = <<>> THEN pc' = [pc EXCEPT ![c] = "returned"] /\ UNCHANGED <<taken, freed>>
     ELSE /\ freed' = [freed EXCEPT ![c] = Append(@, Head(taken[c]))]
          /\ taken' = [taken EXCEPT ![c] = Tail(@)] /\ UNCHANGED pc
  /\ UNCHANGED <<surface, owner, held, result, looping, expired, outcome>>
(* The deferred calls, the last one first.                                 *)
Release(c) ==
  /\ pc[c] = "release"
  /\ IF taken[c] = <<>> THEN pc' = [pc EXCEPT ![c] = "returned"] /\ UNCHANGED <<taken, freed>>
     ELSE /\ freed' = [freed EXCEPT ![c] = Append(@, Last(taken[c]))]
          /\ taken' = [taken EXCEPT ![c] = Front(@)] /\ UNCHANGED pc
  /\ UNCHANGED <<surface, owner, held, result, looping, expired, outcome>>

Host(c) == Start(c) \/ Generate(c) \/ Interrupted(c) \/ Release(c)
Compile == validateImportExportSurface \/ CompileModule \/ validateCompiledModule
Done ==
  /\ owner \in {"failed", "closed"} /\ (\A c \in Calls : pc[c] \in {"start", "returned"})
  /\ UNCHANGED vars
Next == Compile \/ Close \/ (\E c \in Calls : Host(c) \/ Expire(c)) \/ Done
Spec == Init /\ [][Next]_vars

-----------------------------------------------------------------------------

(* A call gives back what it got, the result before the input and the      *)
(* instance last, on every path and once (the defers of Generate).         *)
ReleasesInOrder ==
  \A c \in Calls :
    /\ IsPrefix(taken[c] \o Reverse(freed[c]), <<"instance", "input", "result">>)
    /\ pc[c] = "returned" => taken[c] = <<>>

(* What a call returns was checked: never more bytes or chunks than the    *)
(* limits, never an answer of a module that failed (Generate).             *)
OnlyChecked ==
  \A c \in Calls : outcome[c] = "ok" =>
    /\ result[c].bytes <= MaxResultBytes /\ result[c].chunks <= MaxChunks /\ result[c].utf8
    /\ c \notin looping

(* A runtime is held exactly by a generator that was returned and not      *)
(* closed (Compile's error paths).                                         *)
NoRuntimeLeaks == owner \in {"failed", "closed"} => held = {}

(* Whichever step of a generator or of a call fails, or is cut by the      *)
(* deadline: neither keeps a resource, and only checked text is returned.  *)
GeneratesCleanly == ReleasesInOrder /\ NoRuntimeLeaks /\ OnlyChecked
=============================================================================
