----------------------------- MODULE StepScript -----------------------------
(***************************************************************************)
(* What the counter of a fixture sequence promises whoever shares it: the  *)
(* requests that ask it for a step are handed, one after the other, the    *)
(* steps that its script prescribes.  Whether a request is then served the *)
(* step it was handed is not the counter's affair: see StepsAreServed of   *)
(* FixtureSelection.                                                       *)
(***************************************************************************)
EXTENDS Naturals, Sequences

CONSTANTS Keys,      (* the sequences of all selectors                     *)
          Total,     (* key -> how many steps it has                       *)
          Policy     (* key -> what happens after the last one             *)

VARIABLE handed     (* key -> the indices handed out, in order            *)

(* The n-th request (from 0) for a step of k is to be handed this index.   *)
Prescribed(k, n) ==
  IF n < Total[k] THEN n
  ELSE IF Policy[k] = "cycle" THEN n % Total[k] ELSE Total[k] - 1

ScriptInit == handed = [k \in Keys |-> <<>>]

HandOut(k) ==
  /\ Len(handed[k]) < Total[k] \/ Policy[k] \in {"last", "cycle"}
  /\ handed' = [handed EXCEPT ![k] = Append(@, Prescribed(k, Len(@)))]

ScriptNext == \E k \in Keys : HandOut(k)

ScriptSpec == ScriptInit /\ [][ScriptNext]_handed
=============================================================================
