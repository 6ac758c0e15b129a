---------------------------- MODULE WasmSelector ----------------------------
(***************************************************************************)
(* A namespace's selector.wasm (internal/fixture/wasm_selector.go): one    *)
(* instance with one linear memory and a state of its own serves every     *)
(* request, under a mutex that spans write, call and copy.                 *)
(*                                                                         *)
(* The module's k-th call has the outcome Script[k]; what it writes out    *)
(* depends on the input it finds, so the memory remembers whose input and  *)
(* whose answer it holds.                                                  *)
(***************************************************************************)
EXTENDS Naturals, Sequences, FiniteSets

CONSTANTS Requests, Ids, Nobody,
          Scripts    (* sequences of outcomes, one for every call          *)

Outcomes == Ids \cup {"null", "nothing", "unknown", "garbage", "outside", "traps", "arity"}

ASSUME SelectorAssumption ==
  /\ Nobody \notin Requests
  /\ Scripts \subseteq Seq(Outcomes)

VARIABLES
  script, fits,  (* the module, and the requests whose input its memory holds *)
  mu,            (* owner of s.mu                                          *)
  pc,            (* request -> its next step                               *)
  memory,        (* [input, output, k]: of which request, and of which call *)
  calls,         (* the module's own state: how often it was called        *)
  raw,           (* request -> the output it has copied                    *)
  result         (* request -> what Select returned                        *)

vars == <<script, fits, mu, pc, memory, calls, raw, result>>
NoOutput == [for |-> Nobody, k |-> 0]
NoResult == [kind |-> "none", id |-> Nobody]

Init ==
  /\ script \in Scripts /\ fits \in SUBSET Requests
  /\ mu = Nobody /\ pc = [r \in Requests |-> "select"] /\ calls = 0
  /\ memory = [input |-> Nobody, output |-> Nobody, k |-> 0]
  /\ raw = [r \in Requests |-> NoOutput] /\ result = [r \in Requests |-> NoResult]

Give(r, kind, id) ==
  /\ result' = [result EXCEPT ![r] = [kind |-> kind, id |-> id]]
  /\ pc' = [pc EXCEPT ![r] = "done"]
  /\ mu' = IF mu = r THEN Nobody ELSE mu
Error(r) == Give(r, "error", Nobody)
Goto(r, step) == pc' = [pc EXCEPT ![r] = step] /\ UNCHANGED <<mu, result>>

Lock(r) ==
  /\ pc[r] = "select" /\ mu = Nobody /\ mu' = r
  /\ pc' = [pc EXCEPT ![r] = "write"]
  /\ UNCHANGED <<script, fits, memory, calls, raw, result>>
WriteInput(r) ==
  /\ pc[r] = "write"
  /\ IF r \in fits THEN memory' = [memory EXCEPT !.input = r] /\ Goto(r, "call")
     ELSE Error(r) /\ UNCHANGED memory
  /\ UNCHANGED <<script, fits, calls, raw>>
(* Mutant: the lock is given back before the output is copied.             *)
CallUnlocks(r) ==
  /\ pc[r] = "call" /\ calls < Len(script)
  /\ calls' = calls + 1
  /\ memory' = [memory EXCEPT !.output = memory.input, !.k = calls + 1]
  /\ pc' = [pc EXCEPT ![r] = "copy"] /\ mu' = Nobody
  /\ UNCHANGED <<script, fits, raw, result>>
(* A trap or a wrong number of results ends the request, but the module    *)
(* has been called.                                                        *)
Call(r) ==
  /\ pc[r] = "call" /\ calls < Len(script)
  /\ calls' = calls + 1
  /\ LET outcome == script[calls + 1] IN
       IF outcome \in {"traps", "arity"} THEN Error(r) /\ UNCHANGED memory
       ELSE IF outcome = "nothing" THEN Give(r, "no match", Nobody) /\ UNCHANGED memory
       ELSE /\ memory' = [memory EXCEPT !.output = memory.input, !.k = calls + 1]
            /\ Goto(r, "copy")
  /\ UNCHANGED <<script, fits, raw>>
CopyOut(r) ==
  /\ pc[r] = "copy"
  /\ IF script[memory.k] = "outside" THEN Error(r) /\ UNCHANGED raw
     ELSE raw' = [raw EXCEPT ![r] = [for |-> memory.output, k |-> memory.k]] /\ Goto(r, "parse")
  /\ UNCHANGED <<script, fits, memory, calls>>
Parse(r) ==
  /\ pc[r] = "parse"
  /\ LET id == script[raw[r].k] IN
       IF id = "null" THEN Give(r, "no match", Nobody)
       ELSE IF id \in Ids THEN Give(r, "fixture", id)
       ELSE Error(r)
  /\ UNCHANGED <<script, fits, memory, calls, raw>>

Select(r) == Lock(r) \/ WriteInput(r) \/ Call(r) \/ CopyOut(r) \/ Parse(r)
Done == (\A r \in Requests : pc[r] = "done") /\ UNCHANGED vars
Next == (\E r \in Requests : Select(r)) \/ Done
(* A mutex is fair, and the module's calls return.                         *)
Spec == Init /\ [][Next]_vars /\ \A r \in Requests : SF_vars(Lock(r)) /\ WF_vars(Select(r))

-----------------------------------------------------------------------------
(* The selector's fields and the locals of its calls have their types.     *)
TypeOK ==
  /\ mu \in Requests \cup {Nobody} /\ calls \in 0..Len(script)
  /\ pc \in [Requests -> {"select", "write", "call", "copy", "parse", "done"}]
  /\ \A r \in Requests : result[r].id \in Ids \cup {Nobody}
  /\ \A r \in Requests : pc[r] \in {"write", "call", "copy", "parse"} => mu = r

(* A request gets the module's answer to its own input, and no two get one *)
(* answer: the state of the module steps once for each (Select's critical  *)
(* section).                                                               *)
OwnAnswer ==
  /\ \A r \in Requests : raw[r].for \in {r, Nobody}
  /\ \A r, s \in Requests : r # s /\ raw[r].k # 0 => raw[r].k # raw[s].k
=============================================================================
