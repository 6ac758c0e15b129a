--------------------------- MODULE UpstreamProofs ---------------------------
(***************************************************************************)
(* Proofs about a streamed call, for every set of callback runs and every  *)
(* bound on the lines, and about plain calls, for any requests and any     *)
(* addresses.                                                              *)
(*                                                                         *)
(* For the streamed call (OllamaStream), IInv adds to the types what a     *)
(* callback that has stored knows of the flag (AlarmInv), where the caller *)
(* is in the lines (LineInv) and which deltas it has handed over there     *)
(* (DeliveredInv).                                                         *)
(***************************************************************************)
EXTENDS MCUpstream, TLAPS

(* The flag is up from a callback's store until the caller makes progress. *)
AlarmInv ==
  /\ \A c \in Callbacks : callback[c] = "cancel" /\ ~progressed[c] => idle
  /\ cancelled \in Callbacks /\ ~progressed[cancelled] => idle
  /\ pc = "returned" => cancelled # "none" /\ timer = "off"

(* The caller stops at the first [DONE], so none of the lines before the   *)
(* last one it has scanned is one.                                         *)
LineInv ==
  /\ scanned = 0 => line \in {"headers", "other"}
  /\ scanned > 0 => line = sent[scanned] \/ (line = "other" /\ sent[scanned] # "done")
  /\ \A k \in 1..scanned : k < scanned => sent[k] # "done"
  /\ pc = "request" => scanned = 0
  /\ pc \in {"scan", "deliver"} => line # "done"
  /\ pc = "deliver" => line = "delta"
  /\ pc = "ended" => line = "done" \/ (closed = "eof" /\ scanned = Len(sent))

Deltas == {k \in 1..scanned : sent[k] = "delta"}

(* Every delta scanned so far is handed over, but the one in hand.         *)
DeliveredInv ==
  /\ pc \in {"clear", "reset", "deliver"} =>
       delivered = IF line = "delta" THEN Deltas \ {scanned} ELSE Deltas
  /\ pc \in {"scan", "ended"} => delivered = Deltas
  /\ pc = "request" => delivered = {}

IInv == TypeOK /\ AlarmInv /\ LineInv /\ DeliveredInv /\ StallReported

-----------------------------------------------------------------------------
(* A response changes nothing the caller has seen.                         *)
LEMMA RespondKeeps ==
  ASSUME IInv, NEW s \in {"ok", "error"}, Respond(s)
  PROVE  IInv'
<1>1. TypeOK'
  BY DEF IInv, TypeOK, Respond, scanner, alarm
<1>2. AlarmInv'
  BY DEF IInv, AlarmInv, Respond, alarm
<1>3. LineInv'
  BY DEF IInv, LineInv, Respond, scanner
<1>4. DeliveredInv'
  BY DEF IInv, DeliveredInv, Deltas, Respond, scanner
<1>5. StallReported'
  BY DEF IInv, StallReported, Respond, alarm
<1> QED
  BY <1>1, <1>2, <1>3, <1>4, <1>5 DEF IInv

(* A line that is sent leaves the lines before it alone.                   *)
LEMMA SendKeeps ==
  ASSUME IInv, NEW l \in Lines, Send(l)
  PROVE  IInv'
<1>1. TypeOK'
  BY DEF IInv, TypeOK, Send, scanner, alarm
<1>2. AlarmInv'
  BY DEF IInv, AlarmInv, Send, alarm
<1>3. LineInv'
  <2>1. /\ closed = "open" /\ Len(sent') = Len(sent) + 1
        /\ scanned \in Nat /\ scanned <= Len(sent)
        /\ \A k \in 1..Len(sent) : sent'[k] = sent[k]
    BY DEF IInv, TypeOK, Send, Lines
  <2>2. \A k \in 1..scanned : sent'[k] = sent[k]
    BY <2>1
  <2>3. scanned > 0 => sent'[scanned] = sent[scanned]
    BY <2>1, <2>2
  <2> QED
    BY <2>1, <2>2, <2>3 DEF IInv, LineInv, Send, scanner
<1>4. DeliveredInv'
  BY DEF IInv, TypeOK, DeliveredInv, Deltas, Send, scanner
<1>5. StallReported'
  BY DEF IInv, StallReported, Send, alarm
<1> QED
  BY <1>1, <1>2, <1>3, <1>4, <1>5 DEF IInv

(* A connection that ends leaves its lines alone.                          *)
LEMMA HangupKeeps ==
  ASSUME IInv, NEW how \in {"eof", "reset"}, Hangup(how)
  PROVE  IInv'
<1>1. TypeOK'
  BY DEF IInv, TypeOK, Hangup, scanner, alarm
<1>2. AlarmInv'
  BY DEF IInv, AlarmInv, Hangup, alarm
<1>3. LineInv'
  BY DEF IInv, LineInv, Hangup, scanner
<1>4. DeliveredInv'
  BY DEF IInv, DeliveredInv, Deltas, Hangup, scanner
<1>5. StallReported'
  BY DEF IInv, StallReported, Hangup, alarm
<1> QED
  BY <1>1, <1>2, <1>3, <1>4, <1>5 DEF IInv

(* A callback that starts has neither stored nor cancelled.                *)
LEMMA ExpireKeeps ==
  ASSUME IInv, NEW c \in Callbacks, Expire(c)
  PROVE  IInv'
<1>1. TypeOK'
  BY DEF IInv, TypeOK, Expire, upstream, scanner
<1>2. AlarmInv'
  BY DEF IInv, AlarmInv, Expire
<1>3. LineInv'
  BY DEF IInv, LineInv, Expire, upstream, scanner
<1>4. DeliveredInv'
  BY DEF IInv, DeliveredInv, Deltas, Expire, upstream, scanner
<1>5. StallReported'
  BY DEF IInv, StallReported, Expire
<1> QED
  BY <1>1, <1>2, <1>3, <1>4, <1>5 DEF IInv

(* A callback stores before it cancels.                                    *)
LEMMA StoreIdleKeeps ==
  ASSUME IInv, NEW c \in Callbacks, StoreIdle(c)
  PROVE  IInv'
<1>1. TypeOK'
  BY DEF IInv, TypeOK, StoreIdle, upstream, scanner
<1>2. AlarmInv'
  BY DEF IInv, AlarmInv, StoreIdle
<1>3. LineInv'
  BY DEF IInv, LineInv, StoreIdle, upstream, scanner
<1>4. DeliveredInv'
  BY DEF IInv, DeliveredInv, Deltas, StoreIdle, upstream, scanner
<1>5. StallReported'
  BY DEF IInv, StallReported, StoreIdle
<1> QED
  BY <1>1, <1>2, <1>3, <1>4, <1>5 DEF IInv

(* The first callback to cancel has left the flag up, or progress came.    *)
LEMMA CancelKeeps ==
  ASSUME IInv, NEW c \in Callbacks, Cancel(c)
  PROVE  IInv'
<1>1. TypeOK'
  BY DEF IInv, TypeOK, Cancel, upstream, scanner
<1>2. AlarmInv'
  BY DEF IInv, AlarmInv, Cancel
<1>3. LineInv'
  BY DEF IInv, LineInv, Cancel, upstream, scanner
<1>4. DeliveredInv'
  BY DEF IInv, DeliveredInv, Deltas, Cancel, upstream, scanner
<1>5. StallReported'
  BY DEF IInv, TypeOK, AlarmInv, StallReported, Cancel
<1> QED
  BY <1>1, <1>2, <1>3, <1>4, <1>5 DEF IInv

(* The client's cancel is no callback's.                                   *)
LEMMA ClientLeavesKeeps ==
  ASSUME IInv, ClientLeaves
  PROVE  IInv'
<1>1. TypeOK'
  BY DEF IInv, TypeOK, ClientLeaves, upstream, scanner, alarm
<1>2. AlarmInv'
  BY CallbacksAssumption DEF IInv, AlarmInv, ClientLeaves, alarm
<1>3. LineInv'
  BY DEF IInv, LineInv, ClientLeaves, upstream, scanner
<1>4. DeliveredInv'
  BY DEF IInv, DeliveredInv, Deltas, ClientLeaves, upstream, scanner
<1>5. StallReported'
  BY DEF IInv, TypeOK, AlarmInv, StallReported, ClientLeaves
<1> QED
  BY <1>1, <1>2, <1>3, <1>4, <1>5 DEF IInv

(* The headers arrive before any line.                                     *)
LEMMA DoReturnsKeeps ==
  ASSUME IInv, DoReturns
  PROVE  IInv'
<1>1. TypeOK'
  BY DEF IInv, TypeOK, DoReturns, upstream, scanner, alarm
<1>2. AlarmInv'
  BY DEF IInv, AlarmInv, DoReturns, alarm
<1>3. LineInv'
  BY DEF IInv, LineInv, DoReturns, scanner
<1>4. DeliveredInv'
  <2>1. scanned = 0 /\ delivered = {} /\ pc' = "clear"
    BY DEF IInv, LineInv, DeliveredInv, TypeOK, DoReturns
  <2>2. Deltas' = {} /\ delivered' = {}
    BY <2>1 DEF Deltas, DoReturns, upstream, scanner
  <2> QED
    BY <2>1, <2>2 DEF DeliveredInv
<1>5. StallReported'
  BY DEF IInv, StallReported, DoReturns, alarm
<1> QED
  BY <1>1, <1>2, <1>3, <1>4, <1>5 DEF IInv

(* A failed request has read nothing.                                      *)
LEMMA DoFailsKeeps ==
  ASSUME IInv, DoFails
  PROVE  IInv'
<1>1. TypeOK'
  BY DEF IInv, TypeOK, DoFails, upstream, scanner, alarm
<1>2. AlarmInv'
  BY DEF IInv, AlarmInv, DoFails, alarm
<1>3. LineInv'
  BY DEF IInv, LineInv, DoFails, scanner
<1>4. DeliveredInv'
  BY DEF IInv, DeliveredInv, DoFails
<1>5. StallReported'
  BY DEF IInv, StallReported, DoFails, alarm
<1> QED
  BY <1>1, <1>2, <1>3, <1>4, <1>5 DEF IInv

(* What reaches the buffer has been sent.                                  *)
LEMMA ReadKeeps ==
  ASSUME IInv, Read
  PROVE  IInv'
<1>1. TypeOK'
  BY DEF IInv, TypeOK, Read, upstream, alarm
<1>2. AlarmInv'
  BY DEF IInv, AlarmInv, Read, alarm
<1>3. LineInv'
  BY DEF IInv, LineInv, Read, upstream
<1>4. DeliveredInv'
  BY DEF IInv, DeliveredInv, Deltas, Read, upstream
<1>5. StallReported'
  BY DEF IInv, StallReported, Read, alarm
<1> QED
  BY <1>1, <1>2, <1>3, <1>4, <1>5 DEF IInv

(* A line that says nothing comes when all before it were handled.         *)
LEMMA KeepAliveKeeps ==
  ASSUME IInv, KeepAlive
  PROVE  IInv'
<1>1. TypeOK'
  BY DEF IInv, TypeOK, KeepAlive, Lines, upstream, alarm
<1>2. AlarmInv'
  BY DEF IInv, AlarmInv, KeepAlive, alarm
<1>3. LineInv'
  BY DEF IInv, TypeOK, LineInv, KeepAlive, upstream
<1>4. DeliveredInv'
  BY DEF IInv, DeliveredInv, Deltas, KeepAlive, upstream
<1>5. StallReported'
  BY DEF IInv, StallReported, KeepAlive, alarm
<1> QED
  BY <1>1, <1>2, <1>3, <1>4, <1>5 DEF IInv

(* The next line is scanned after all before it were handled.              *)
LEMMA ScanKeeps ==
  ASSUME IInv, Scan
  PROVE  IInv'
<1>1. TypeOK'
  BY DEF IInv, TypeOK, Scan, upstream, alarm
<1>2. AlarmInv'
  BY DEF IInv, AlarmInv, Scan, alarm
<1>3. LineInv'
  BY DEF IInv, TypeOK, LineInv, Scan, upstream
<1>4. DeliveredInv'
  BY DEF IInv, TypeOK, DeliveredInv, Deltas, Scan, upstream
<1>5. StallReported'
  BY DEF IInv, StallReported, Scan, alarm
<1> QED
  BY <1>1, <1>2, <1>3, <1>4, <1>5 DEF IInv

(* The scanner ends at the end of file, with every line handled.           *)
LEMMA ScanEndsKeeps ==
  ASSUME IInv, ScanEnds
  PROVE  IInv'
<1>1. TypeOK'
  BY DEF IInv, TypeOK, ScanEnds, upstream, scanner, alarm
<1>2. AlarmInv'
  BY DEF IInv, AlarmInv, ScanEnds, alarm
<1>3. LineInv'
  BY DEF IInv, LineInv, ScanEnds, upstream, scanner
<1>4. DeliveredInv'
  BY DEF IInv, DeliveredInv, Deltas, ScanEnds, upstream, scanner
<1>5. StallReported'
  BY DEF IInv, StallReported, ScanEnds, alarm
<1> QED
  BY <1>1, <1>2, <1>3, <1>4, <1>5 DEF IInv

(* A failed scan leaves the flag for the report.                           *)
LEMMA ScanFailsKeeps ==
  ASSUME IInv, ScanFails
  PROVE  IInv'
<1>1. TypeOK'
  BY DEF IInv, TypeOK, ScanFails, upstream, scanner, alarm
<1>2. AlarmInv'
  BY DEF IInv, AlarmInv, ScanFails, alarm
<1>3. LineInv'
  BY DEF IInv, LineInv, ScanFails, upstream, scanner
<1>4. DeliveredInv'
  BY DEF IInv, DeliveredInv, ScanFails
<1>5. StallReported'
  BY DEF IInv, StallReported, ScanFails, alarm
<1> QED
  BY <1>1, <1>2, <1>3, <1>4, <1>5 DEF IInv

(* The flag goes down only as progress is made.                            *)
LEMMA ClearIdleKeeps ==
  ASSUME IInv, ClearIdle
  PROVE  IInv'
<1>1. TypeOK'
  BY DEF IInv, TypeOK, ClearIdle, upstream, scanner
<1>2. AlarmInv'
  BY DEF IInv, AlarmInv, ClearIdle
<1>3. LineInv'
  BY DEF IInv, LineInv, ClearIdle, upstream, scanner
<1>4. DeliveredInv'
  BY DEF IInv, DeliveredInv, Deltas, ClearIdle, upstream, scanner
<1>5. StallReported'
  BY DEF IInv, StallReported, ClearIdle
<1> QED
  BY <1>1, <1>2, <1>3, <1>4, <1>5 DEF IInv

(* The caller goes on as the last line tells it.                           *)
LEMMA ResetTimerKeeps ==
  ASSUME IInv, ResetTimer
  PROVE  IInv'
<1>1. TypeOK'
  BY DEF IInv, TypeOK, Outcomes, ResetTimer, Return, upstream, scanner, alarm
<1>2. AlarmInv'
  BY CallbacksAssumption DEF IInv, AlarmInv, ResetTimer, Return, alarm
<1>3. LineInv'
  <2>1. CASE pc' = "returned"
    BY <2>1 DEF IInv, LineInv, ResetTimer, Return, upstream, scanner
  <2>2. CASE pc' # "returned"
    <3>1. /\ pc' \in {"ended", "deliver", "scan"}
          /\ pc' = "ended" => line = "done"
          /\ pc' = "deliver" => line = "delta"
          /\ pc' = "scan" => line # "done"
      BY <2>2 DEF ResetTimer, Return
    <3> QED
      BY <3>1 DEF IInv, LineInv, ResetTimer, Return, upstream, scanner
  <2> QED
    BY <2>1, <2>2
<1>4. DeliveredInv'
  BY DEF IInv, LineInv, DeliveredInv, Deltas, ResetTimer, Return, upstream,
     scanner
<1>5. StallReported'
  BY DEF IInv, StallReported, ResetTimer, Return, alarm
<1> QED
  BY <1>1, <1>2, <1>3, <1>4, <1>5 DEF IInv

(* The delta in hand is handed over.                                       *)
LEMMA DeliverKeeps ==
  ASSUME IInv, Deliver
  PROVE  IInv'
<1>1. TypeOK'
  BY DEF IInv, TypeOK, LineInv, Deliver, upstream, alarm
<1>2. AlarmInv'
  BY DEF IInv, AlarmInv, Deliver, alarm
<1>3. LineInv'
  BY DEF IInv, LineInv, Deliver, upstream
<1>4. DeliveredInv'
  BY DEF IInv, TypeOK, LineInv, DeliveredInv, Deltas, Deliver, upstream
<1>5. StallReported'
  BY DEF IInv, StallReported, Deliver, alarm
<1> QED
  BY <1>1, <1>2, <1>3, <1>4, <1>5 DEF IInv

(* A consumer's error ends the call.                                       *)
LEMMA FnFailsKeeps ==
  ASSUME IInv, FnFails
  PROVE  IInv'
<1>1. TypeOK'
  BY DEF IInv, TypeOK, Outcomes, FnFails, Return, upstream, scanner, alarm
<1>2. AlarmInv'
  BY CallbacksAssumption DEF IInv, AlarmInv, FnFails, Return, alarm
<1>3. LineInv'
  BY DEF IInv, LineInv, FnFails, Return, upstream, scanner
<1>4. DeliveredInv'
  BY DEF IInv, DeliveredInv, FnFails, Return
<1>5. StallReported'
  BY DEF IInv, StallReported, FnFails, Return
<1> QED
  BY <1>1, <1>2, <1>3, <1>4, <1>5 DEF IInv

(* The end of the stream ends the call.                                    *)
LEMMA ReportEndKeeps ==
  ASSUME IInv, ReportEnd
  PROVE  IInv'
<1>1. TypeOK'
  BY DEF IInv, TypeOK, Outcomes, ReportEnd, Return, upstream, scanner, alarm
<1>2. AlarmInv'
  BY CallbacksAssumption DEF IInv, AlarmInv, ReportEnd, Return, alarm
<1>3. LineInv'
  BY DEF IInv, LineInv, ReportEnd, Return, upstream, scanner
<1>4. DeliveredInv'
  BY DEF IInv, DeliveredInv, ReportEnd, Return
<1>5. StallReported'
  BY DEF IInv, StallReported, ReportEnd, Return
<1> QED
  BY <1>1, <1>2, <1>3, <1>4, <1>5 DEF IInv

(* A failure with the flag up is reported as idle.                         *)
LEMMA ReportFailureKeeps ==
  ASSUME IInv, ReportFailure
  PROVE  IInv'
<1>1. TypeOK'
  BY DEF IInv, TypeOK, Outcomes, ReportFailure, Return, upstream, scanner,
     alarm
<1>2. AlarmInv'
  BY CallbacksAssumption DEF IInv, AlarmInv, ReportFailure, Return, alarm
<1>3. LineInv'
  BY DEF IInv, LineInv, ReportFailure, Return, upstream, scanner
<1>4. DeliveredInv'
  BY DEF IInv, DeliveredInv, ReportFailure, Return
<1>5. StallReported'
  BY CallbacksAssumption DEF IInv, AlarmInv, StallReported, ReportFailure,
     Return, alarm
<1> QED
  BY <1>1, <1>2, <1>3, <1>4, <1>5 DEF IInv

-----------------------------------------------------------------------------
(* IInv holds before the call starts.                                      *)
LEMMA InitIInv == Init => IInv
<1> SUFFICES ASSUME Init PROVE IInv
  OBVIOUS
<1>1. TypeOK
  <2>1. sent \in Seq(Lines) /\ Len(sent) = 0
    BY DEF Init
  <2>2. /\ callback \in [Callbacks -> {"off", "store", "cancel"}]
        /\ progressed \in [Callbacks -> BOOLEAN]
    BY DEF Init
  <2>3. /\ read \in 0..Len(sent) /\ scanned \in 0..read
        /\ delivered \subseteq 1..scanned
    BY <2>1 DEF Init
  <2>4. /\ outcome = "none" /\ pc = "request"
        /\ line = "headers" /\ timer = "armed" /\ idle = FALSE
        /\ status = "none" /\ closed = "open" /\ cancelled = "none"
    BY DEF Init
  <2> QED
    BY <2>1, <2>2, <2>3, <2>4 DEF TypeOK
<1>2. AlarmInv /\ LineInv /\ DeliveredInv /\ StallReported
  BY CallbacksAssumption
     DEF Init, AlarmInv, LineInv, DeliveredInv, StallReported
<1> QED
  BY <1>1, <1>2 DEF IInv

(* Every step keeps IInv.                                                  *)
LEMMA NextKeeps == IInv /\ [Next]_vars => IInv'
<1> SUFFICES ASSUME IInv, [Next]_vars PROVE IInv'
  OBVIOUS
<1>1. CASE Upstream
  BY <1>1, RespondKeeps, SendKeeps, HangupKeeps DEF Upstream
<1>2. ASSUME NEW c \in Callbacks, Expire(c) \/ Alarm(c) PROVE IInv'
  BY <1>2, ExpireKeeps, StoreIdleKeeps, CancelKeeps DEF Alarm
<1>3. CASE ClientLeaves \/ KeepAlive
  BY <1>3, ClientLeavesKeeps, KeepAliveKeeps
<1>4. CASE Caller
  BY <1>4, DoReturnsKeeps, DoFailsKeeps, ReadKeeps, ScanKeeps, ScanEndsKeeps,
     ScanFailsKeeps, ClearIdleKeeps, ResetTimerKeeps, DeliverKeeps,
     FnFailsKeeps, ReportEndKeeps, ReportFailureKeeps DEF Caller
<1>5. CASE UNCHANGED vars
  BY <1>5 DEF vars, IInv, TypeOK, AlarmInv, LineInv, DeliveredInv, Deltas,
     StallReported
<1> QED
  BY <1>1, <1>2, <1>3, <1>4, <1>5 DEF Next

(* IInv holds throughout every call.                                       *)
THEOREM Invariance == Spec => []IInv
BY InitIInv, NextKeeps, PTL DEF Spec

-----------------------------------------------------------------------------
(* Every variable keeps its type, and the call has an outcome exactly when *)
(* it has returned (http.go:293-385).                                      *)
THEOREM TypeCorrect == Spec => []TypeOK
BY Invariance, PTL DEF IInv

(* A callback whose cancel ended the call without any progress after its   *)
(* fire had raised the flag, so the stall is reported as one               *)
(* (http.go:317-321, 374-384).                                             *)
THEOREM StallsAreReported == Spec => []StallReported
BY Invariance, PTL DEF IInv

-----------------------------------------------------------------------------
(* The state of the content stream, as OllamaStream maps it.               *)
Produced == {k \in 1..Len(sent) : sent[k] = "delta" /\ Counts(k)}
Finished == closed = "eof" \/ \E k \in 1..Len(sent) : sent[k] = "done"
Result   == CASE outcome = "none" -> "none"
              [] outcome = "ok"   -> "ok"
              [] OTHER            -> "failed"

(* A step that touches none of these is invisible.                         *)
LEMMA Invisible ==
  ASSUME UNCHANGED <<sent, closed, delivered, outcome>>
  PROVE  UNCHANGED Content!cvars
BY DEF Content!cvars, Counts

(* A line the upstream sends extends an unfinished stream, or comes after  *)
(* its end.                                                                *)
LEMMA SendProduces ==
  ASSUME IInv, NEW l \in Lines, Send(l)
  PROVE  Content!Produce \/ UNCHANGED Content!cvars
<1>1. /\ sent \in Seq(Lines) /\ sent' = Append(sent, l) /\ closed = "open"
      /\ UNCHANGED <<closed, delivered, outcome>>
  BY DEF IInv, TypeOK, Send, scanner
<1>2. /\ Len(sent') = Len(sent) + 1 /\ Len(sent) \in Nat
      /\ \A k \in 1..Len(sent) : sent'[k] = sent[k]
  BY <1>1 DEF Lines
<1>3. \A k \in 1..Len(sent) : Counts(k)' <=> Counts(k)
  <2> SUFFICES ASSUME NEW k \in 1..Len(sent) PROVE Counts(k)' <=> Counts(k)
    OBVIOUS
  <2>1. \A j \in 1..k - 1 : j \in 1..Len(sent)
    BY <1>2
  <2> QED
    BY <1>2, <2>1 DEF Counts
<1>4. /\ Produced \subseteq Produced'
      /\ Produced' \subseteq Produced \cup {Len(sent) + 1}
  BY <1>2, <1>3 DEF Produced
<1>5. Result' = Result
  BY <1>1 DEF Result
<1>6. CASE \E k \in 1..Len(sent) : sent[k] = "done"
  <2>1. PICK k \in 1..Len(sent) : sent[k] = "done"
    BY <1>6
  <2>2. ~Counts(Len(sent))'
    BY <1>2, <2>1 DEF Counts
  <2>3. Produced' = Produced
    BY <1>2, <1>4, <2>2 DEF Produced
  <2>4. Finished /\ Finished'
    BY <1>2, <2>1 DEF Finished
  <2> QED
    BY <1>1, <1>5, <2>3, <2>4 DEF Content!cvars, Produced, Finished, Result
<1>7. CASE ~\E k \in 1..Len(sent) : sent[k] = "done"
  <2>1. ~Finished /\ Finished' \in BOOLEAN
    BY <1>1, <1>7 DEF Finished
  <2>2. \A k \in Produced' \ Produced, j \in Produced : j < k
    BY <1>2, <1>4 DEF Produced
  <2> QED
    BY <1>1, <1>4, <1>5, <2>1, <2>2
       DEF Content!Produce, Produced, Finished, Result
<1> QED
  BY <1>6, <1>7

(* The end of file finishes the stream, if no [DONE] has.                  *)
LEMMA HangupFinishes ==
  ASSUME IInv, NEW how \in {"eof", "reset"}, Hangup(how)
  PROVE  Content!Produce \/ UNCHANGED Content!cvars
<1>1. UNCHANGED <<sent, delivered, outcome>>
  BY DEF Hangup, scanner
<1>2. Produced' = Produced /\ Result' = Result /\ Finished' \in BOOLEAN
  BY <1>1 DEF Produced, Result, Counts, Finished
<1>3. CASE Finished
  <2>1. Finished'
    BY <1>1, <1>3 DEF Finished, Hangup
  <2>2. Finished' = Finished
    BY <1>3, <2>1 DEF Finished
  <2> QED
    BY <1>1, <1>2, <2>2 DEF Content!cvars, Produced, Finished, Result
<1>4. CASE ~Finished
  BY <1>1, <1>2, <1>4 DEF Content!Produce, Produced, Finished, Result
<1> QED
  BY <1>3, <1>4

(* The delta in hand is the first that has not been handed over.           *)
LEMMA DeliverTakes ==
  ASSUME IInv, Deliver
  PROVE  \E k \in Produced : Content!Take(k)
<1>1. /\ scanned \in 1..Len(sent) /\ sent[scanned] = "delta"
      /\ outcome = "none"
      /\ delivered = Deltas \ {scanned}
  BY DEF IInv, TypeOK, LineInv, DeliveredInv, Deliver
<1>2. \A j \in 1..Len(sent) : j < scanned => sent[j] # "done"
  BY <1>1 DEF IInv, LineInv
<1>3. Counts(scanned)
  BY <1>1, <1>2 DEF Counts
<1>4. scanned \in Produced /\ scanned \notin delivered
  BY <1>1, <1>3 DEF Produced
<1>5. \A j \in Produced : j < scanned => j \in delivered
  BY <1>1 DEF Produced, Deltas
<1>6. /\ UNCHANGED <<sent, closed, outcome>>
      /\ delivered' = delivered \cup {scanned}
  BY DEF Deliver, upstream
<1>7. /\ Produced' = Produced /\ Finished' = Finished
      /\ Result' = Result /\ Result = "none"
  BY <1>1, <1>6 DEF Produced, Finished, Result, Counts
<1>8. Content!Take(scanned)
  BY <1>4, <1>5, <1>6, <1>7 DEF Content!Take, Produced, Finished, Result
<1> QED
  BY <1>4, <1>8

(* A call that returns an error fails.                                     *)
LEMMA ReturnFails ==
  ASSUME IInv, pc # "returned", NEW o \in Outcomes \ {"ok"}, Return(o)
  PROVE  Content!Fail
<1>1. outcome = "none" /\ outcome' = o /\ o # "none" /\ o # "ok"
  BY DEF IInv, TypeOK, Return, Outcomes
<1>2. UNCHANGED <<sent, closed, delivered>>
  BY DEF Return, upstream, scanner
<1>3. Produced' = Produced /\ Finished' = Finished
  BY <1>2 DEF Produced, Finished, Counts
<1>4. Result = "none" /\ Result' = "failed"
  BY <1>1 DEF Result
<1> QED
  BY <1>2, <1>3, <1>4 DEF Content!Fail, Produced, Finished, Result

(* A call succeeds when everything up to [DONE] or the end of file has     *)
(* been handed over.                                                       *)
LEMMA ReportEndSucceeds ==
  ASSUME IInv, ReportEnd
  PROVE  Content!Succeed \/ Content!Fail
<1>1. CASE idle
  BY <1>1, ReturnFails DEF ReportEnd, Outcomes
<1>2. CASE ~idle
  <2>1. /\ outcome = "none" /\ outcome' = "ok"
        /\ UNCHANGED <<sent, closed, delivered>>
    BY <1>2 DEF IInv, TypeOK, ReportEnd, Return, upstream, scanner
  <2>2. Produced' = Produced /\ Finished' = Finished
    BY <2>1 DEF Produced, Finished, Counts
  <2>3. Result = "none" /\ Result' = "ok"
    BY <2>1 DEF Result
  <2>4. /\ delivered = Deltas
        /\ scanned \in Nat /\ Len(sent) \in Nat /\ scanned <= Len(sent)
        /\ \A k \in 1..scanned : k < scanned => sent[k] # "done"
        /\ \/ scanned > 0 /\ sent[scanned] = "done"
           \/ closed = "eof" /\ scanned = Len(sent)
    BY DEF IInv, TypeOK, LineInv, DeliveredInv, ReportEnd
  <2>5. Finished
    BY <2>4 DEF Finished
  <2>6. \A k \in Deltas : k \in Produced
    <3> SUFFICES ASSUME NEW k \in Deltas PROVE k \in Produced
      OBVIOUS
    <3>1. k \in 1..scanned /\ sent[k] = "delta"
      BY DEF Deltas
    <3>2. \A j \in 1..k - 1 : j \in 1..scanned /\ j < scanned
      BY <2>4, <3>1
    <3> QED
      BY <2>4, <3>1, <3>2 DEF Produced, Counts
  <2>7. \A k \in Produced : k \in Deltas
    <3> SUFFICES ASSUME NEW k \in Produced PROVE k \in Deltas
      OBVIOUS
    <3>1. k \in 1..Len(sent) /\ sent[k] = "delta" /\ Counts(k)
      BY DEF Produced
    <3>2. CASE k <= scanned
      BY <2>4, <3>1, <3>2 DEF Deltas
    <3>3. CASE k > scanned
      <4>1. scanned \in 1..k - 1 /\ sent[scanned] = "done"
        BY <2>4, <3>1, <3>3
      <4> QED
        BY <3>1, <4>1 DEF Counts
    <3> QED
      BY <2>4, <3>1, <3>2, <3>3
  <2>8. delivered = Produced
    BY <2>4, <2>6, <2>7
  <2> QED
    BY <2>1, <2>2, <2>3, <2>5, <2>8
       DEF Content!Succeed, Produced, Finished, Result
<1> QED
  BY <1>1, <1>2

(* Every step of the call is one step of the content stream, or is         *)
(* invisible in it.                                                        *)
THEOREM ImplementsContentStream == Spec => ImplementsContent
<1>1. Init => Content!ContentInit
  <2> SUFFICES ASSUME Init PROVE Content!ContentInit
    OBVIOUS
  <2>1. sent = <<>> /\ closed = "open" /\ delivered = {} /\ outcome = "none"
    BY DEF Init
  <2>2. Produced = {} /\ Finished = FALSE /\ Result = "none"
    BY <2>1 DEF Produced, Finished, Result
  <2> QED
    BY <2>1, <2>2 DEF Content!ContentInit, Produced, Finished, Result
<1>2. IInv /\ [Next]_vars => [Content!ContentNext]_(Content!cvars)
  <2> SUFFICES ASSUME IInv, [Next]_vars
               PROVE  Content!ContentNext \/ UNCHANGED Content!cvars
    OBVIOUS
  <2>1. CASE Upstream
    <3>1. ASSUME NEW s \in {"ok", "error"}, Respond(s)
          PROVE  UNCHANGED Content!cvars
      BY <3>1, Invisible DEF Respond, scanner
    <3> QED
      BY <2>1, <3>1, SendProduces, HangupFinishes
         DEF Upstream, Content!ContentNext
  <2>2. ASSUME NEW c \in Callbacks, Expire(c) \/ Alarm(c)
        PROVE  UNCHANGED Content!cvars
    BY <2>2, Invisible
       DEF Expire, Alarm, StoreIdle, Cancel, upstream, scanner
  <2>3. CASE ClientLeaves
    BY <2>3, Invisible DEF ClientLeaves, upstream, scanner
  <2>4. CASE \/ DoReturns \/ DoFails \/ Read \/ KeepAlive \/ Scan
             \/ ScanEnds \/ ScanFails \/ ClearIdle
    BY <2>4, Invisible
       DEF DoReturns, DoFails, Read, KeepAlive, Scan, ScanEnds, ScanFails, ClearIdle,
           upstream, scanner
  <2>5. CASE ResetTimer
    <3>1. CASE Return("http_error")
      BY <2>5, <3>1, ReturnFails DEF ResetTimer, Outcomes, Content!ContentNext
    <3>2. CASE ~Return("http_error")
      BY <2>5, <3>2, Invisible DEF ResetTimer, upstream, scanner
    <3> QED
      BY <3>1, <3>2
  <2>6. CASE Deliver
    <3>1. PICK k \in Produced : Content!Take(k)
      BY <2>6, DeliverTakes
    <3> QED
      BY <3>1 DEF Content!ContentNext, Produced
  <2>7. CASE FnFails
    BY <2>7, ReturnFails DEF FnFails, Outcomes, Content!ContentNext
  <2>8. CASE ReportEnd
    BY <2>8, ReportEndSucceeds DEF Content!ContentNext
  <2>9. CASE ReportFailure
    BY <2>9, ReturnFails DEF ReportFailure, Outcomes, Content!ContentNext
  <2>10. CASE UNCHANGED vars
    BY <2>10, Invisible DEF vars
  <2> QED
    BY <2>1, <2>2, <2>3, <2>4, <2>5, <2>6, <2>7, <2>8, <2>9, <2>10
       DEF Next, Caller
<1> QED
  BY <1>1, <1>2, Invariance, PTL
     DEF Spec, ImplementsContent, Content!ContentSpec

-----------------------------------------------------------------------------
(* Plain calls (UpstreamCall): what a dial has checked stays true of the   *)
(* connection, whoever uses it later.                                      *)

Holding == {"sent", "body"}
Results == {"ok", "refused", "unavailable", "error"}

Shapes ==
  /\ profile \in [Requests -> Plain!Profiles]
  /\ at \in [Requests -> Holding \cup {"do", "done"}]
  /\ dialing \subseteq Requests /\ pool \subseteq Plain!Connections
  /\ conn \in [Requests -> Plain!Connections \cup {Nothing}]
  /\ used \in [Requests -> SUBSET Plain!Connections]
  /\ result \in [Requests -> Results \cup {"none"}]

Ends == \A r \in Requests :
  /\ conn[r] # Nothing <=> at[r] \in Holding
  /\ result[r] # "none" <=> at[r] = "done"

(* A connection is to an address its client may dial.                      *)
Checked(c) == Plain!dialAllowed(c.addr, c.client)
(* A request holds and has used connections of its own client and host.    *)
Own(r, c) == c.client = profile[r].external /\ c.host = profile[r].host
Dialled ==
  /\ \A c \in pool : Checked(c)
  /\ \A r \in Requests : conn[r] # Nothing => Checked(conn[r])
  /\ \A r \in Requests : \A c \in used[r] : Checked(c) /\ Own(r, c)

PlainInv == Shapes /\ Ends /\ Dialled /\ Plain!AcceptedIsDialled

-----------------------------------------------------------------------------
(* Nothing is dialled before the first call.                               *)
LEMMA PlainInitInv == Plain!Init => PlainInv
<1> SUFFICES ASSUME Plain!Init PROVE PlainInv
  OBVIOUS
<1>1. Shapes
  BY DEF Plain!Init, Shapes, Results
<1>2. Ends /\ Dialled /\ Plain!AcceptedIsDialled
  BY DEF Plain!Init, Ends, Dialled, Plain!AcceptedIsDialled, Holding
<1> QED
  BY <1>1, <1>2 DEF PlainInv

(* A request that takes a checked connection of its client and host.       *)
LEMMA HoldKeeps ==
  ASSUME PlainInv, NEW r \in Requests, NEW c \in Plain!Connections, Checked(c), Own(r, c),
         at[r] = "do", Plain!Hold(r, c), UNCHANGED profile,
         dialing' \subseteq Requests, pool' \subseteq pool
  PROVE  PlainInv'
<1>1. Shapes'
  BY DEF PlainInv, Shapes, Plain!Hold, Holding
<1>2. Ends'
  BY AddressesMeet DEF Plain!UpstreamAssumption, PlainInv, Shapes, Ends, Plain!Hold, Holding
<1>3. Dialled'
  BY DEF PlainInv, Shapes, Dialled, Plain!Hold, Checked, Own
<1>4. Plain!AcceptedIsDialled'
  BY DEF PlainInv, Plain!AcceptedIsDialled, Plain!Hold
<1> QED
  BY <1>1, <1>2, <1>3, <1>4 DEF PlainInv

(* A request that returns may leave its connection to the pool.            *)
LEMMA ReturnKeeps ==
  ASSUME PlainInv, NEW r \in Requests, NEW how \in Results, Plain!Return(r, how),
         Plain!Literal(profile[r].host) => how # "refused", UNCHANGED profile,
         dialing' \subseteq Requests,
         pool' = pool \/ (conn[r] # Nothing /\ pool' = pool \cup {conn[r]})
  PROVE  PlainInv'
<1>1. Shapes'
  BY DEF PlainInv, Shapes, Plain!Return
<1>2. Ends'
  BY DEF PlainInv, Shapes, Ends, Plain!Return, Holding, Results
<1>3. Dialled'
  BY DEF PlainInv, Shapes, Dialled, Plain!Return, Checked, Own
<1>4. Plain!AcceptedIsDialled'
  BY DEF PlainInv, Shapes, Plain!AcceptedIsDialled, Plain!Return
<1> QED
  BY <1>1, <1>2, <1>3, <1>4 DEF PlainInv

(* A step that only moves connections in and out of the pool.              *)
LEMMA PoolKeeps ==
  ASSUME PlainInv, UNCHANGED <<profile, at, conn, used, result>>,
         dialing' \subseteq Requests, pool' \subseteq Plain!Connections,
         \A c \in pool' : Checked(c)
  PROVE  PlainInv'
<1>1. Shapes' /\ Ends' /\ Plain!AcceptedIsDialled'
  BY DEF PlainInv, Shapes, Ends, Plain!AcceptedIsDialled
<1>2. Dialled'
  BY DEF PlainInv, Dialled, Checked, Own
<1> QED
  BY <1>1, <1>2 DEF PlainInv

(* A profile that was accepted with an address may dial that address.      *)
LEMMA LiteralIsDialled ==
  ASSUME NEW p \in Plain!Profiles, Plain!Literal(p.host)
  PROVE  Plain!dialAllowed(p.host, p.external)
BY DEF Plain!Profiles, Plain!validateOllamaUpstream, Plain!dialAllowed, Plain!Literal, Plain!Named,
         Plain!Classify

(* TakeIdle: what it takes is checked, and of its own client and host.     *)
LEMMA TakeIdleKeeps == ASSUME PlainInv, NEW r \in Requests, Plain!TakeIdle(r) PROVE PlainInv'
<1>1. PICK c \in Plain!Usable(r) : Plain!Hold(r, c) /\ pool' = pool \ {c}
  BY DEF Plain!TakeIdle
<1>2. c \in Plain!Connections /\ Checked(c) /\ Own(r, c)
  BY DEF PlainInv, Shapes, Dialled, Plain!Usable, Plain!clientForContext, Own
<1>3. dialing' \subseteq Requests /\ pool' \subseteq pool /\ at[r] = "do" /\ UNCHANGED profile
  BY <1>1 DEF Plain!TakeIdle, PlainInv, Shapes
<1> QED
  BY <1>1, <1>2, <1>3, HoldKeeps

(* DialEnds: the connection is checked under its client's policy.          *)
LEMMA DialEndsKeeps == ASSUME PlainInv, NEW r \in Requests, Plain!DialEnds(r) PROVE PlainInv'
<1> DEFINE client == Plain!clientForContext(profile[r])
           C(a) == [client |-> client, host |-> profile[r].host, addr |-> a]
<1>1. PICK a \in Plain!Resolves(profile[r].host) :
        IF ~Plain!dialAllowed(a, client) THEN
             /\ IF at[r] = "do" THEN Plain!Return(r, "refused")
                                 ELSE UNCHANGED <<at, conn, used, result>>
             /\ UNCHANGED pool
        ELSE IF at[r] = "do" THEN Plain!Hold(r, C(a)) /\ UNCHANGED pool
        ELSE pool' = pool \cup {C(a)} /\ UNCHANGED <<at, conn, used, result>>
  BY DEF Plain!DialEnds
<1>2. UNCHANGED profile /\ dialing' \subseteq Requests
  BY DEF Plain!DialEnds, PlainInv, Shapes
<1>3. /\ profile[r] \in Plain!Profiles /\ profile[r].host \in Plain!Hosts
      /\ client = profile[r].external
      /\ client \in BOOLEAN
  BY DEF PlainInv, Shapes, Plain!Profiles, Plain!clientForContext
<1>4. a \in Addresses
  BY <1>1, <1>3 DEF Plain!Resolves, Plain!Hosts, Plain!Literal, Plain!Named
<1>5. CASE ~Plain!dialAllowed(a, client)
  <2>1. ~Plain!Literal(profile[r].host)
    BY <1>3, <1>5, LiteralIsDialled DEF Plain!Resolves
  <2>2. CASE at[r] = "do"
    BY <1>1, <1>2, <1>5, <2>1, <2>2, ReturnKeeps DEF Results
  <2>3. CASE at[r] # "do"
    BY <1>1, <1>2, <1>5, <2>3, PoolKeeps DEF PlainInv, Shapes, Dialled
  <2> QED
    BY <2>2, <2>3
<1>6. CASE Plain!dialAllowed(a, client)
  <2>1. C(a) \in Plain!Connections /\ Checked(C(a)) /\ Own(r, C(a))
    BY <1>3, <1>4, <1>6 DEF Plain!Connections, Checked, Own
  <2>2. CASE at[r] = "do"
    BY <1>1, <1>2, <1>6, <2>1, <2>2, HoldKeeps
  <2>3. CASE at[r] # "do"
    BY <1>1, <1>2, <1>6, <2>1, <2>3, PoolKeeps DEF PlainInv, Shapes, Dialled
  <2> QED
    BY <2>2, <2>3
<1> QED
  BY <1>5, <1>6

(* The other steps of the transport.                                       *)
LEMMA TransportKeeps ==
  ASSUME PlainInv, NEW r \in Requests, Plain!StartDial(r) \/ Plain!DialFails(r) \/ Plain!TryAgain(r)
  PROVE  PlainInv'
<1>1. CASE Plain!StartDial(r)
  BY <1>1, PoolKeeps DEF Plain!StartDial, PlainInv, Shapes, Dialled
<1>2. CASE Plain!DialFails(r)
  <2>1. UNCHANGED <<profile, pool>> /\ dialing' \subseteq Requests
    BY <1>2 DEF Plain!DialFails, PlainInv, Shapes
  <2>2. CASE at[r] = "do"
    BY <1>2, <2>1, <2>2, ReturnKeeps DEF Plain!DialFails, Results
  <2>3. CASE at[r] # "do"
    BY <1>2, <2>1, <2>3, PoolKeeps DEF Plain!DialFails, PlainInv, Shapes, Dialled
  <2> QED
    BY <2>2, <2>3
<1>3. CASE Plain!TryAgain(r)
  <2>1. Shapes'
    BY <1>3 DEF Plain!TryAgain, PlainInv, Shapes
  <2>2. Ends'
    BY <1>3 DEF Plain!TryAgain, PlainInv, Shapes, Ends, Holding
  <2>3. Dialled' /\ Plain!AcceptedIsDialled'
    BY <1>3 DEF Plain!TryAgain, PlainInv, Shapes, Dialled, Checked, Own, Plain!AcceptedIsDialled
  <2> QED
    BY <2>1, <2>2, <2>3 DEF PlainInv
<1> QED
  BY <1>1, <1>2, <1>3

(* The steps of HTTPChatCompletion itself.                                 *)
LEMMA ChatKeeps == ASSUME PlainInv, NEW r \in Requests, Plain!HTTPChatCompletion(r) PROVE PlainInv'
<1>1. CASE Plain!Answered(r)
  <2>1. Shapes' /\ Ends'
    BY <1>1 DEF Plain!Answered, PlainInv, Shapes, Ends, Holding
  <2>2. Dialled' /\ Plain!AcceptedIsDialled'
    BY <1>1 DEF Plain!Answered, PlainInv, Dialled, Checked, Own, Plain!AcceptedIsDialled
  <2> QED
    BY <2>1, <2>2 DEF PlainInv
<1>2. CASE Plain!ErrorStatus(r) \/ Plain!Redirected(r) \/ Plain!ReadReply(r)
  <2>1. at[r] \in Holding /\ Plain!KeepOrClose(r) /\ UNCHANGED <<profile, dialing>>
    BY <1>2 DEF Plain!ErrorStatus, Plain!Redirected, Plain!ReadReply, Holding
  <2>2. \E how \in Results \ {"refused"} : Plain!Return(r, how)
    BY <1>2 DEF Plain!ErrorStatus, Plain!Redirected, Plain!ReadReply, Results
  <2>3. pool' = pool \/ (conn[r] # Nothing /\ pool' = pool \cup {conn[r]})
    BY <2>1 DEF Plain!KeepOrClose, PlainInv, Ends
  <2> QED
    BY <2>1, <2>2, <2>3, ReturnKeeps DEF PlainInv, Shapes
<1>3. CASE Plain!Timeout(r)
  BY <1>3, ReturnKeeps DEF Plain!Timeout, PlainInv, Shapes, Results
<1> QED
  BY <1>1, <1>2, <1>3 DEF Plain!HTTPChatCompletion

(* Every step keeps the invariant.                                         *)
LEMMA PlainKeeps == PlainInv /\ [Plain!Next]_(Plain!vars) => PlainInv'
<1> SUFFICES ASSUME PlainInv, [Plain!Next]_(Plain!vars) PROVE PlainInv'
  OBVIOUS
<1>1. CASE Plain!ConnectionCloses
  BY <1>1, PoolKeeps DEF Plain!ConnectionCloses, PlainInv, Shapes, Dialled
<1>2. CASE \E r \in Requests : Plain!Transport(r) \/ Plain!HTTPChatCompletion(r)
  BY <1>2, TakeIdleKeeps, DialEndsKeeps, TransportKeeps, ChatKeeps DEF Plain!Transport
<1>3. CASE UNCHANGED Plain!vars
  BY <1>3, PoolKeeps DEF Plain!vars, PlainInv, Shapes, Dialled
<1> QED
  BY <1>1, <1>2, <1>3 DEF Plain!Next

-----------------------------------------------------------------------------
(* What each part promises holds of the run's specification.               *)
THEOREM UpstreamInvariance == USpec => [](IInv /\ PlainInv)
<1>1. UInit => IInv /\ PlainInv
  BY InitIInv, PlainInitInv DEF UInit
<1>2. IInv /\ PlainInv /\ [UNext]_uvars => (IInv /\ PlainInv)'
  <2>1. UNext \/ UNCHANGED uvars => [Next]_vars /\ [Plain!Next]_(Plain!vars)
    BY DEF UNext, Streamed, Called, uvars, cvars, Plain!vars
  <2> QED
    BY <2>1, NextKeeps, PlainKeeps
<1> QED
  BY <1>1, <1>2, PTL DEF USpec

(* The shape of a plain call's state: it holds a connection while it is    *)
(* exchanging, and has an outcome when it has returned.                    *)
THEOREM PlainTypeCorrect == USpec => []Plain!TypeOK
<1>1. PlainInv => Plain!TypeOK
  BY DEF PlainInv, Shapes, Ends, Plain!TypeOK, Plain!Connections, Holding
<1> QED
  BY <1>1, UpstreamInvariance, PTL

(* No request is sent anywhere its own policy would not have dialled       *)
(* (newUpstreamClient).                                                    *)
THEOREM PolicyAlwaysHolds == USpec => []PolicyHolds
<1>1. PlainInv => PolicyHolds
  BY DEF PlainInv, Dialled, Checked, Own, PolicyHolds, Plain!PolicyHolds
<1> QED
  BY <1>1, UpstreamInvariance, PTL

(* The check of a profile and the check of a dial agree on addresses       *)
(* (package upstreamip).                                                   *)
THEOREM ChecksAgree == USpec => []Plain!AcceptedIsDialled
<1>1. PlainInv => Plain!AcceptedIsDialled
  BY DEF PlainInv
<1> QED
  BY <1>1, UpstreamInvariance, PTL
=============================================================================
