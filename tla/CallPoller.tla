----------------------------- MODULE CallPoller -----------------------------
(***************************************************************************)
(* A client that follows a listener's calls: it runs                       *)
(* `zolemc listeners calls list -since N` (cmd/zolemc/main.go) again and   *)
(* again, N being the highest call_id it has seen, over a CallRecorder     *)
(* whose clients go on calling and whose history may be cleared.           *)
(*                                                                         *)
(* The recorder hands out a call_id when a call arrives and records the    *)
(* call when it has ended, so the history is not sorted by call_id.        *)
(***************************************************************************)
EXTENDS CallRecorder, Integers

CONSTANTS MaxClears   (* bound on the number of clears                     *)

VARIABLES
  since,      (* the highest call_id printed so far                        *)
  printed,    (* the calls printed so far, as <<numbering, call_id>>       *)
  last,       (* what the last list printed                                *)
  numbering,  (* history: how often the ids have restarted                 *)
  floor,      (* history: `since` when the ids last restarted, 0 at first  *)
  overtaken,  (* history: calls that were in flight when `since` passed    *)
  clears      (* how often the history was cleared                         *)

follower == <<since, printed, last, overtaken>>
pvars == <<vars, follower, numbering, floor, clears>>

PInit ==
  /\ Init
  /\ since = 0 /\ printed = {} /\ last = {}
  /\ numbering = 0 /\ floor = 0 /\ overtaken = {} /\ clears = 0

Listed == {calls[k].id : k \in DOMAIN calls}

(* Mutant: the filter is off by one.                                      *)
PastSince(ids, n) == {id \in ids : n <= 0 \/ id > n + 1}

(* The table of runListenerCallsList, or filterCallsRawSince for -json.    *)
Rows(ids, n) == {id \in ids : n <= 0 \/ id > n}

(* The admin API lists the whole history in one step; the client filters.  *)
Poll ==
  /\ last' = Rows(Listed, since)
  /\ since' = CHOOSE n \in last' \cup {since} : \A m \in last' \cup {since} : m <= n
  /\ printed' = printed \cup {<<numbering, id>> : id \in last'}
  /\ overtaken' = overtaken \cup
       {<<numbering, callID[c]>> : c \in {d \in Clients : Serving(d) /\ callID[d] < since'}}
  /\ UNCHANGED <<vars, numbering, floor, clears>>

Call ==
  /\ \E c \in Clients : NextCallID(c) \/ Upgrade(c) \/ RecordCall(c)
                        \/ RecordWS(c) \/ Panic(c)
  /\ UNCHANGED <<follower, numbering, floor, clears>>

(* zolemc listeners calls clear.                                           *)
ClearCalls ==
  /\ clears < MaxClears
  /\ Clear
  /\ clears' = clears + 1
  /\ IF nextID' < nextID THEN numbering' = numbering + 1 /\ floor' = since
                          ELSE UNCHANGED <<numbering, floor>>
  /\ UNCHANGED follower

PNext == Poll \/ Call \/ ClearCalls

-----------------------------------------------------------------------------
(* Properties.                                                             *)

(* A call that is in the history and that no list will ever print was      *)
(* still in flight when a call that came after it was printed, or has an   *)
(* id that was used before the ids restarted.  So a follower that reads    *)
(* -since as "what I have not seen" loses slow calls, and the first ones   *)
(* after a clear, and no others.                                           *)
LosesOnlySlowCalls ==
  \A id \in Listed :
    id <= since => \/ <<numbering, id>> \in printed
                   \/ <<numbering, id>> \in overtaken
                   \/ id <= floor
=============================================================================
