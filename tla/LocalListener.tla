---------------------------- MODULE LocalListener ----------------------------
(***************************************************************************)
(* The life and the end of one listener: its http.Server, the handlers of  *)
(* its calls, the app whose WASM runtimes the handlers use, and the        *)
(* recorder they report to.                                                *)
(*                                                                         *)
(* A fixed listener (runLocal, serveHTTPWithContext) ends by a signal and  *)
(* with its process, records into a JSONL file and may be started again on *)
(* the same file; the machine, the process or a write may fail at any      *)
(* time.  A managed one (httpLocalServer.Close and its callers in          *)
(* local_admin.go) breaks what its Shutdown could not end, records in      *)
(* memory, and its handlers may outlive it.                                *)
(*                                                                         *)
(* A file is a sequence of records [run, id, whole]; a record that is not  *)
(* whole has no newline, so that the next one continues its line.          *)
(***************************************************************************)
EXTENDS Naturals, Sequences, FiniteSets

CONSTANTS Calls,     (* goroutines that serve calls                        *)
          Managed,   (* the listener belongs to the control plane          *)
          MaxCallID, (* bound on the calls of one run                      *)
          MaxRuns,   (* bound on the starts of the process                 *)
          MaxFaults  (* bound on the failed writes                         *)
ASSUME ListenerAssumption == Managed \in BOOLEAN

VARIABLES
  stage,     (* what the owner of the server does next                     *)
  gaveUp,    (* Shutdown has given up                                      *)
  appOpen,   (* app.close has not run                                      *)
  fileOpen,  (* the recorder has its file                                  *)
  run, next, (* the process generation, and its last call id               *)
  call,      (* goroutine -> "idle", "running", "returned", "written"      *)
  id,        (* goroutine -> its call_id                                   *)
  hijacked,  (* goroutine -> its connection is a WebSocket                 *)
  streamed,  (* goroutine -> its whole answer was sent while it ran        *)
  late,      (* history: goroutines that used a closed app                 *)
  file, synced,        (* the records, and how many a power loss spares    *)
  recorded,  (* history: [run, id] of the calls whose Record has returned  *)
  sockets,   (* history: ids of this run's WebSockets                      *)
  answered,  (* history: ids of this run whose clients have their answers  *)
  crashes, failures    (* history: counts of faults                        *)

server == <<stage, gaveUp, appOpen, fileOpen, run>>
calls  == <<next, call, id, hijacked, streamed, late, sockets, answered>>
disk   == <<file, synced, recorded>>
faults == <<crashes, failures>>
vars   == <<server, calls, disk, faults>>

Stages == {"serving", "draining", "gave up", "drained", "app closed", "file closed", "exited"}
Rec(c, whole) == [run |-> run, id |-> id[c], whole |-> whole]

Init ==
  /\ stage = "serving" /\ gaveUp = FALSE /\ appOpen = TRUE /\ fileOpen = TRUE /\ run = 1 /\ next = 0
  /\ call = [c \in Calls |-> "idle"] /\ id = [c \in Calls |-> 0]
  /\ hijacked = [c \in Calls |-> FALSE] /\ streamed = [c \in Calls |-> FALSE]
  /\ late = {} /\ sockets = {} /\ answered = {}
  /\ file = <<>> /\ synced = 0 /\ recorded = {} /\ crashes = 0 /\ failures = 0

-----------------------------------------------------------------------------
(* Calls.  The connections that Shutdown has found idle are closed; one    *)
(* that is new may bring its request until Shutdown returns, and later     *)
(* unless Close breaks it.                                                 *)

Reachable ==
  \/ stage \in {"serving", "draining", "gave up"}
  \/ gaveUp /\ ~Managed /\ stage # "exited"
Arrive(c) ==
  /\ Reachable /\ call[c] = "idle" /\ next < MaxCallID
  /\ next' = next + 1 /\ id' = [id EXCEPT ![c] = next + 1]
  /\ call' = [call EXCEPT ![c] = "running"] /\ hijacked' = [hijacked EXCEPT ![c] = FALSE]
  /\ streamed' = [streamed EXCEPT ![c] = FALSE]
  /\ UNCHANGED <<late, sockets, answered, server, disk, faults>>

(* The handler selects a fixture or generates.                             *)
UseApp(c) ==
  /\ call[c] = "running"
  /\ late' = IF appOpen THEN late ELSE late \cup {c}
  /\ UNCHANGED <<next, call, id, hijacked, streamed, sockets, answered, server, disk, faults>>
Hijack(c) ==
  /\ call[c] = "running" /\ ~hijacked[c] /\ ~streamed[c]
  /\ hijacked' = [hijacked EXCEPT ![c] = TRUE] /\ sockets' = sockets \cup {id[c]}
  /\ UNCHANGED <<next, call, id, streamed, late, answered, server, disk, faults>>
(* A stream is flushed frame by frame, and so may be a reply larger than   *)
(* the server's buffer: the client has it all before it is recorded.       *)
Flush(c) ==
  /\ call[c] = "running" /\ ~hijacked[c] /\ ~streamed[c]
  /\ streamed' = [streamed EXCEPT ![c] = TRUE] /\ answered' = answered \cup {id[c]}
  /\ UNCHANGED <<next, call, id, hijacked, late, sockets, server, disk, faults>>
Return(c) ==
  /\ call[c] = "running"
  /\ call' = [call EXCEPT ![c] = "returned"]
  /\ UNCHANGED <<next, id, hijacked, streamed, late, sockets, answered, server, disk, faults>>

(* Record and RecordWS, under the recorder's mutex: one write, then Sync.  *)
(* Their errors are passed over.                                           *)
Unlocked == \A c \in Calls : call[c] # "written"
Fails == failures < MaxFaults /\ ~Managed
(* The middleware returns, and the rest of the answer is flushed.          *)
Answer(c) ==
  /\ call' = [call EXCEPT ![c] = "idle"]
  /\ answered' = IF hijacked[c] THEN answered ELSE answered \cup {id[c]}
Recorded(c) == recorded' = recorded \cup {[run |-> run, id |-> id[c]]}

(* Mutant: Record returns before the record is synced.                     *)
WriteUnsynced(c) ==
  /\ call[c] = "returned" /\ Unlocked /\ fileOpen
  /\ file' = Append(file, Rec(c, TRUE)) /\ Answer(c) /\ Recorded(c)
  /\ UNCHANGED <<next, id, hijacked, streamed, late, sockets, server, synced, faults>>
Write(c) ==
  /\ call[c] = "returned" /\ Unlocked /\ fileOpen
  /\ file' = Append(file, Rec(c, TRUE))
  /\ call' = [call EXCEPT ![c] = "written"]
  /\ UNCHANGED <<next, id, hijacked, streamed, late, sockets, answered, server, synced, recorded, faults>>
WriteFails(c) ==
  /\ call[c] = "returned" /\ Unlocked /\ fileOpen /\ Fails
  /\ failures' = failures + 1
  /\ file' \in {file, Append(file, Rec(c, FALSE))}
  /\ Answer(c) /\ Recorded(c)
  /\ UNCHANGED <<next, id, hijacked, streamed, late, sockets, server, synced, crashes>>
WriteToNil(c) ==
  /\ call[c] = "returned" /\ Unlocked /\ ~fileOpen
  /\ Answer(c)
  /\ UNCHANGED <<next, id, hijacked, streamed, late, sockets, server, disk, faults>>
Sync(c) ==
  /\ call[c] = "written"
  /\ synced' = Len(file) /\ Answer(c) /\ Recorded(c)
  /\ UNCHANGED <<next, id, hijacked, streamed, late, sockets, server, file, faults>>

-----------------------------------------------------------------------------
(* The end of the server.                                                  *)

Move(from, to) ==
  /\ stage = from /\ stage' = to
  /\ UNCHANGED <<run, calls, disk, faults>>

(* A signal, DELETE, or a PUT of the same name.                            *)
Stop == Move("serving", "draining") /\ UNCHANGED <<gaveUp, appOpen, fileOpen>>
(* Shutdown waits for every connection but the hijacked.                   *)
Active == {c \in Calls : call[c] # "idle" /\ ~hijacked[c]}
(* Mutant: connections are closed without waiting.                         *)
DrainAtOnce == Move("draining", "drained") /\ UNCHANGED <<gaveUp, appOpen, fileOpen>>
Drain == Active = {} /\ Move("draining", "drained") /\ UNCHANGED <<gaveUp, appOpen, fileOpen>>
(* Mutant: Shutdown has no deadline.                                       *)
GiveUpNever == FALSE /\ Move("draining", "gave up") /\ UNCHANGED <<gaveUp, appOpen, fileOpen>>
GiveUp ==
  /\ Active # {} /\ Move("draining", "gave up") /\ gaveUp' = TRUE
  /\ UNCHANGED <<appOpen, fileOpen>>
(* A managed server breaks its connections, a fixed one leaves them; no    *)
(* handler is waited for.                                                  *)
AfterGivingUp == Move("gave up", "drained") /\ UNCHANGED <<gaveUp, appOpen, fileOpen>>

(* Mutant: the app is closed while the server drains.                      *)
CloseAppEarly ==
  /\ stage \in {"draining", "drained"}
  /\ IF stage = "drained" THEN stage' = "app closed" ELSE stage' = stage
  /\ appOpen' = FALSE /\ UNCHANGED <<gaveUp, fileOpen, run, calls, disk, faults>>
CloseApp == Move("drained", "app closed") /\ appOpen' = FALSE /\ UNCHANGED <<gaveUp, fileOpen>>
(* The in-memory recorder's Close does nothing.                            *)
CloseFile ==
  /\ Unlocked /\ Move("app closed", "file closed") /\ fileOpen' = Managed
  /\ UNCHANGED <<gaveUp, appOpen>>

Kill ==
  /\ call' = [c \in Calls |-> "idle"] /\ stage' = "exited"
  /\ UNCHANGED <<gaveUp, appOpen, fileOpen, run, next, id, hijacked, streamed, late, sockets, answered>>
Exit ==
  /\ stage = "file closed"
  /\ IF Managed THEN Move("file closed", "exited") /\ UNCHANGED <<gaveUp, appOpen, fileOpen>>
     ELSE Kill /\ UNCHANGED <<disk, faults>>

Torn == {<<>>} \cup {<<Rec(c, FALSE)>> : c \in {d \in Calls : call[d] = "returned"}}
(* The process is killed, perhaps in the middle of a write; what it has    *)
(* written stays.                                                          *)
Crash ==
  /\ ~Managed /\ stage # "exited" /\ Kill /\ crashes' = crashes + 1
  /\ \E t \in IF Unlocked /\ fileOpen THEN Torn ELSE {<<>>} : file' = file \o t
  /\ UNCHANGED <<synced, recorded, failures>>
(* The machine stops: of what was not synced any part may be gone.         *)
PowerLoss ==
  /\ ~Managed /\ stage # "exited" /\ Kill /\ crashes' = crashes + 1
  /\ \E n \in synced..Len(file) :
       /\ file' \in {SubSeq(file, 1, n)}
                      \cup (IF n > synced THEN {[SubSeq(file, 1, n) EXCEPT ![n].whole = FALSE]} ELSE {})
       /\ synced' = n
  /\ UNCHANGED <<recorded, failures>>

Begin ==
  /\ stage = "exited" /\ ~Managed /\ run < MaxRuns
  /\ run' = run + 1 /\ next' = 0 /\ stage' = "serving"
  /\ gaveUp' = FALSE /\ appOpen' = TRUE /\ fileOpen' = TRUE /\ late' = {}
  /\ sockets' = {} /\ answered' = {}
  /\ hijacked' = [c \in Calls |-> FALSE] /\ streamed' = [c \in Calls |-> FALSE]
  /\ UNCHANGED <<call, id, recorded, faults>>
(* newJSONLRecorder appends to the file that is there, and counts from 1.  *)
Restart == Begin /\ UNCHANGED <<file, synced>>

Handler(c) == UseApp(c) \/ Hijack(c) \/ Flush(c) \/ Return(c)
Middleware(c) == Write(c) \/ WriteFails(c) \/ WriteToNil(c) \/ Sync(c)
Owner == Drain \/ GiveUp \/ AfterGivingUp \/ CloseApp \/ CloseFile \/ Exit
Done == stage = "exited" /\ UNCHANGED vars
Next ==
  \/ \E c \in Calls : Arrive(c) \/ Handler(c) \/ Middleware(c)
  \/ Stop \/ Owner \/ Crash \/ PowerLoss \/ Restart \/ Done

(* The owner's steps need nobody else, and a write to the disk returns.    *)
Fairness == WF_vars(Owner) /\ \A c \in Calls : WF_vars(Sync(c))
Spec == Init /\ [][Next]_vars /\ Fairness

-----------------------------------------------------------------------------
(* The server, its calls and the recorder have their types, and what is    *)
(* synced is in the file.                                                  *)
TypeOK ==
  /\ stage \in Stages /\ gaveUp \in BOOLEAN /\ appOpen \in BOOLEAN /\ fileOpen \in BOOLEAN
  /\ call \in [Calls -> {"idle", "running", "returned", "written"}]
  /\ hijacked \in [Calls -> BOOLEAN] /\ streamed \in [Calls -> BOOLEAN]
  /\ late \subseteq Calls /\ sockets \subseteq 1..next /\ answered \subseteq 1..next
  /\ synced \in 0..Len(file)

(* A handler meets a closed WASM runtime only on a hijacked connection or  *)
(* after Shutdown has given up (httpLocalServer.Close, then app.close;     *)
(* runLocal's defers).                                                     *)
NoLateUse == ~gaveUp => \A c \in late : hijacked[c]

(* A shutdown that does not give up loses no call: when the app is closed, *)
(* every call of the run but the WebSockets has been recorded              *)
(* (serveHTTPWithContext, recordingMiddleware).                            *)
Missing == {i \in 1..next : [run |-> run, id |-> i] \notin recorded}
GracefulKeepsAll == ~gaveUp /\ ~appOpen => Missing \subseteq sockets

(* What Record has returned for is on a line of its own, through crashes   *)
(* and restarts: a failed write costs at most its own record and the next, *)
(* a crash at most the first record after it (jsonlRecorder.Record).  And  *)
(* until the process is killed or Shutdown gives up, an answer whose call  *)
(* was not recorded is one that was sent while its handler ran, which has  *)
(* yet to come to Record: a kill at that point leaves it without a line    *)
(* (recording.go:652 against 384).                                         *)
Readable(i) == file[i].whole /\ (i > 1 => file[i - 1].whole)
Lost ==
  {a \in recorded :
     ~\E i \in DOMAIN file : Readable(i) /\ file[i].run = a.run /\ file[i].id = a.id}
Pending(i) == \E c \in Calls : call[c] # "idle" /\ streamed[c] /\ id[c] = i
AnswersAreKept ==
  ~gaveUp /\ (stage # "exited" \/ ~appOpen) =>
    \A i \in answered : [run |-> run, id |-> i] \in recorded \/ Pending(i)
FewAreLost == Cardinality(Lost) <= 2 * failures + crashes /\ AnswersAreKept

(* Once told to stop, the server is gone, whatever its handlers do         *)
(* (the two seconds of serveHTTPWithContext and httpLocalServer.Close).    *)
StopEnds == stage = "draining" ~> stage = "exited"
=============================================================================
