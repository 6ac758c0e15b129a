---------------------------- MODULE OllamaStream ----------------------------
(***************************************************************************)
(* HTTPChatCompletionStream (internal/ollama/http.go): one call that reads *)
(* an upstream's event stream line by line and hands each content delta to *)
(* fn, while an idle timer may cancel it.                                  *)
(*                                                                         *)
(* The timer's callback runs in a goroutine of its own: it sets            *)
(* idleTimedOut and then cancels the request.  The caller clears the flag  *)
(* and resets the timer when the headers and when each line arrive, which  *)
(* does not stop a callback that has started.  Time is left out: an armed  *)
(* timer may expire at any moment.                                         *)
(*                                                                         *)
(* The upstream sends lines and may end, break, fall silent or never stop. *)
(* A line is a delta with content, the "[DONE]" marker, longer than the    *)
(* scanner takes ("huge"), or anything else; lines of that last kind may   *)
(* also come beyond the bound, for ever (KeepAlive).                       *)
(***************************************************************************)
EXTENDS Naturals, Sequences

CONSTANTS Callbacks,   (* identities for runs of the timer's callback      *)
          MaxLines     (* bound on the lines of the upstream that are kept *)

ASSUME CallbacksAssumption ==
  Callbacks \cap {"none", "client", "return"} = {}
ASSUME MaxLinesAssumption == MaxLines \in Nat

VARIABLES
  status,      (* the upstream's response: "none" yet, "ok" or "error"     *)
  sent,        (* the lines it has sent                                    *)
  closed,      (* its connection: "open", ended ("eof") or broken ("reset") *)
  read,        (* how many lines have reached the scanner's buffer         *)
  scanned,     (* how many lines Scan has returned                         *)
  line,        (* what arrived last: "headers" or a line                   *)
  delivered,   (* positions of the lines whose delta fn has accepted       *)
  pc,          (* where the caller is                                      *)
  outcome,     (* what the call returned, "none" while it runs             *)
  timer,       (* "armed" or "off"                                         *)
  idle,        (* idleTimedOut                                             *)
  cancelled,   (* who cancelled the request: a callback, the client, the   *)
               (* deferred cancel, or "none"                               *)
  callback,    (* callback run -> "off", "store", "cancel"                 *)
  progressed   (* callback run -> the caller made progress after it fired  *)

upstream == <<status, sent, closed>>
scanner  == <<read, scanned, line, delivered>>
alarm    == <<callback, progressed>>
vars     == <<status, sent, closed, read, scanned, line, delivered, pc, outcome,
              timer, idle, cancelled, callback, progressed>>

Lines    == {"delta", "done", "other", "huge"}
Outcomes == {"ok", "idle", "unavailable", "http_error", "consumer"}

Init ==
  /\ status = "none" /\ sent = <<>> /\ closed = "open"
  /\ read = 0 /\ scanned = 0 /\ line = "headers" /\ delivered = {}
  /\ pc = "request" /\ outcome = "none"
  /\ timer = "armed" /\ idle = FALSE /\ cancelled = "none"
  /\ callback = [c \in Callbacks |-> "off"]
  /\ progressed = [c \in Callbacks |-> FALSE]

-----------------------------------------------------------------------------
(* The upstream.                                                           *)

Respond(s) ==
  /\ status = "none" /\ closed = "open"
  /\ status' = s
  /\ UNCHANGED <<sent, closed, scanner, pc, outcome, timer, idle, cancelled, alarm>>

Send(l) ==
  /\ status = "ok" /\ closed = "open"
  /\ Len(sent) < MaxLines
  /\ sent' = Append(sent, l)
  /\ UNCHANGED <<status, closed, scanner, pc, outcome, timer, idle, cancelled, alarm>>

Hangup(how) ==
  /\ closed = "open"
  /\ closed' = how
  /\ UNCHANGED <<status, sent, scanner, pc, outcome, timer, idle, cancelled, alarm>>

-----------------------------------------------------------------------------
(* The timer and its callback.                                             *)

Expire(c) ==
  /\ timer = "armed"
  /\ callback[c] = "off" /\ cancelled # c
  /\ timer' = "off"
  /\ callback' = [callback EXCEPT ![c] = "store"]
  /\ progressed' = [progressed EXCEPT ![c] = FALSE]
  /\ UNCHANGED <<upstream, scanner, pc, outcome, idle, cancelled>>

(* Mutant: the callback only cancels.                                      *)
StoreNothing(c) ==
  /\ callback[c] = "store"
  /\ callback' = [callback EXCEPT ![c] = "cancel"]
  /\ UNCHANGED <<upstream, scanner, pc, outcome, timer, idle, cancelled, progressed>>

StoreIdle(c) ==
  /\ callback[c] = "store"
  /\ idle' = TRUE
  /\ callback' = [callback EXCEPT ![c] = "cancel"]
  /\ UNCHANGED <<upstream, scanner, pc, outcome, timer, cancelled, progressed>>

Cancel(c) ==
  /\ callback[c] = "cancel"
  /\ cancelled' = IF cancelled = "none" THEN c ELSE cancelled
  /\ callback' = [callback EXCEPT ![c] = "off"]
  /\ UNCHANGED <<upstream, scanner, pc, outcome, timer, idle, progressed>>

(* The context of the call is cancelled: the provider's client has left.   *)
ClientLeaves ==
  /\ cancelled = "none"
  /\ cancelled' = "client"
  /\ UNCHANGED <<upstream, scanner, pc, outcome, timer, idle, alarm>>

-----------------------------------------------------------------------------
(* The caller.                                                             *)

(* The call returns; its deferred steps stop the timer and cancel.         *)
Return(o) ==
  /\ pc' = "returned"
  /\ outcome' = o
  /\ timer' = "off"
  /\ cancelled' = IF cancelled = "none" THEN "return" ELSE cancelled
  /\ UNCHANGED <<upstream, scanner, idle, alarm>>

DoReturns ==
  /\ pc = "request"
  /\ status # "none"
  /\ pc' = "clear"
  /\ UNCHANGED <<upstream, scanner, outcome, timer, idle, cancelled, alarm>>

(* A refused dial or redirect, the header timeout, or a cancelled request. *)
DoFails ==
  /\ pc = "request"
  /\ pc' = "failed"
  /\ UNCHANGED <<upstream, scanner, outcome, timer, idle, cancelled, alarm>>

(* The transport hands the scanner what has arrived, also if the request   *)
(* has been cancelled meanwhile.                                           *)
Read ==
  /\ pc = "scan" /\ scanned = read
  /\ read' \in read + 1 .. Len(sent)
  /\ UNCHANGED <<upstream, scanned, line, delivered, pc, outcome, timer, idle,
                 cancelled, alarm>>

(* One more line that says nothing, read and scanned: nothing bounds how   *)
(* many of them an upstream sends.                                         *)
KeepAlive ==
  /\ pc = "scan" /\ scanned = read /\ read = Len(sent)
  /\ closed = "open" /\ cancelled = "none"
  /\ line' = "other" /\ pc' = "clear"
  /\ UNCHANGED <<upstream, read, scanned, delivered, outcome, timer, idle, cancelled, alarm>>

Scan ==
  /\ pc = "scan"
  /\ scanned < read
  /\ sent[scanned + 1] # "huge"
  /\ scanned' = scanned + 1
  /\ line' = sent[scanned + 1]
  /\ pc' = "clear"
  /\ UNCHANGED <<upstream, read, delivered, outcome, timer, idle, cancelled, alarm>>

ScanEnds ==
  /\ pc = "scan"
  /\ scanned = read /\ read = Len(sent) /\ closed = "eof"
  /\ pc' = "ended"
  /\ UNCHANGED <<upstream, scanner, outcome, timer, idle, cancelled, alarm>>

(* Mutant: scanner.Err is not asked.                                       *)
ScanFailsSilently ==
  /\ pc = "scan"
  /\ \/ scanned < read /\ sent[scanned + 1] = "huge"
     \/ scanned = read /\ (cancelled # "none" \/ closed = "reset")
  /\ pc' = "ended"
  /\ UNCHANGED <<upstream, scanner, outcome, timer, idle, cancelled, alarm>>

ScanFails ==
  /\ pc = "scan"
  /\ \/ scanned < read /\ sent[scanned + 1] = "huge"
     \/ scanned = read /\ (cancelled # "none" \/ closed = "reset")
  /\ pc' = "failed"
  /\ UNCHANGED <<upstream, scanner, outcome, timer, idle, cancelled, alarm>>

ClearIdle ==
  /\ pc = "clear"
  /\ idle' = FALSE
  /\ progressed' = [c \in Callbacks |-> TRUE]
  /\ pc' = "reset"
  /\ UNCHANGED <<upstream, scanner, outcome, timer, cancelled, callback>>

(* Mutant: the timer guards the headers only.                              *)
ResetTimerStops ==
  /\ pc = "reset"
  /\ \/ /\ line = "headers" /\ status = "error"
        /\ Return("http_error")
     \/ /\ line # "headers" \/ status = "ok"
        /\ timer' = "off"
        /\ pc' = CASE line = "done"  -> "ended"
                   [] line = "delta" -> "deliver"
                   [] OTHER          -> "scan"
        /\ UNCHANGED <<upstream, scanner, outcome, idle, cancelled, alarm>>

(* The timer is armed again, and the caller looks at what has arrived.     *)
ResetTimer ==
  /\ pc = "reset"
  /\ \/ /\ line = "headers" /\ status = "error"
        /\ Return("http_error")
     \/ /\ line # "headers" \/ status = "ok"
        /\ timer' = "armed"
        /\ pc' = CASE line = "done"  -> "ended"
                   [] line = "delta" -> "deliver"
                   [] OTHER          -> "scan"
        /\ UNCHANGED <<upstream, scanner, outcome, idle, cancelled, alarm>>

Deliver ==
  /\ pc = "deliver"
  /\ delivered' = delivered \cup {scanned}
  /\ pc' = "scan"
  /\ UNCHANGED <<upstream, read, scanned, line, outcome, timer, idle, cancelled, alarm>>

FnFails ==
  /\ pc = "deliver"
  /\ Return("consumer")

ReportEnd ==
  /\ pc = "ended"
  /\ Return(IF idle THEN "idle" ELSE "ok")

ReportFailure ==
  /\ pc = "failed"
  /\ Return(IF idle THEN "idle" ELSE "unavailable")

-----------------------------------------------------------------------------
Upstream ==
  \/ \E s \in {"ok", "error"} : Respond(s)
  \/ \E l \in Lines : Send(l)
  \/ \E how \in {"eof", "reset"} : Hangup(how)

Alarm(c) == StoreIdle(c) \/ Cancel(c)

Caller ==
  \/ DoReturns \/ DoFails
  \/ Read \/ Scan \/ ScanEnds \/ ScanFails
  \/ ClearIdle \/ ResetTimer
  \/ Deliver \/ FnFails
  \/ ReportEnd \/ ReportFailure

Next ==
  \/ Upstream
  \/ \E c \in Callbacks : Expire(c) \/ Alarm(c)
  \/ ClientLeaves
  \/ KeepAlive
  \/ Caller

Spec == Init /\ [][Next]_vars

(* Goroutines run, fn returns, and an armed timer expires unless it is     *)
(* reset again and again.  The upstream owes nothing, and no client need   *)
(* leave.                                                                  *)
Fairness ==
  /\ WF_vars(Caller)
  /\ \A c \in Callbacks : WF_vars(Alarm(c))
  /\ <>[][~ResetTimer]_vars => WF_vars(\E c \in Callbacks : Expire(c))

FairSpec == Spec /\ Fairness
-----------------------------------------------------------------------------
(* Properties.                                                             *)

(* Types; and the call has an outcome exactly when it has returned: no     *)
(* error is kept while the loop goes on.                                   *)
TypeOK ==
  /\ status \in {"none", "ok", "error"}
  /\ sent \in Seq(Lines)
  /\ closed \in {"open", "eof", "reset"}
  /\ read \in 0..Len(sent) /\ scanned \in 0..read
  /\ line \in Lines \cup {"headers"}
  /\ delivered \subseteq 1..scanned
  /\ pc \in {"request", "clear", "reset", "scan", "deliver", "ended", "failed",
             "returned"}
  /\ outcome \in Outcomes \cup {"none"}
  /\ outcome = "none" <=> pc # "returned"
  /\ timer \in {"armed", "off"}
  /\ idle \in BOOLEAN
  /\ cancelled \in Callbacks \cup {"none", "client", "return"}
  /\ callback \in [Callbacks -> {"off", "store", "cancel"}]
  /\ progressed \in [Callbacks -> BOOLEAN]

(* A stall is reported as one: when a callback's cancel ends the call and  *)
(* no line came after its timer fired, the error is the idle timeout, not  *)
(* the bare "context canceled" (http.go:374), in whatever order the flag,  *)
(* the cancel, the failing read and other callbacks come.                  *)
StallReported ==
  outcome = "unavailable" /\ cancelled \in Callbacks => progressed[cancelled]

(* A cancelled call returns, whoever cancelled it, although lines keep     *)
(* coming; and so does one whose upstream never answers or falls silent    *)
(* for good, which only the idle timer ends.  A call has no deadline: an   *)
(* upstream that never stops talking may hold it for ever (http.go:285).   *)
StallEndsCall ==
  /\ cancelled # "none" ~> pc = "returned"
  /\ <>[][~KeepAlive]_vars => <>(pc = "returned")

(* The stream's content ends at the first [DONE] or at the end of file.    *)
Counts(k) == \A j \in 1..k - 1 : sent[j] # "done"
Content == INSTANCE ContentStream WITH
  produced <- {k \in 1..Len(sent) : sent[k] = "delta" /\ Counts(k)},
  finished <- closed = "eof" \/ \E k \in 1..Len(sent) : sent[k] = "done",
  taken    <- delivered,
  result   <- CASE outcome = "none" -> "none"
                [] outcome = "ok"   -> "ok"
                [] OTHER            -> "failed"

(* The call is a content stream: deltas in order, none twice, and success  *)
(* only when a finished stream was handed over to its end, however the     *)
(* timer, a cancel and the end of the stream race.                         *)
ImplementsContent == Content!ContentSpec
=============================================================================
