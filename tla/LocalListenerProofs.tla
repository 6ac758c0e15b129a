------------------------- MODULE LocalListenerProofs -------------------------
(***************************************************************************)
(* Proofs about LocalListener, for any number of calls, runs and faults,   *)
(* fixed or managed: a shutdown that does not give up closes the app under *)
(* nobody but WebSockets, and loses no other call.                         *)
(***************************************************************************)
EXTENDS LocalListener, FiniteSetTheorems, SequenceTheorems, TLAPS

Record == [run : Nat, id : Nat, whole : BOOLEAN]

Shapes ==
  /\ stage \in Stages /\ gaveUp \in BOOLEAN /\ appOpen \in BOOLEAN /\ fileOpen \in BOOLEAN
  /\ run \in Nat /\ next \in Nat /\ id \in [Calls -> Nat]
  /\ call \in [Calls -> {"idle", "running", "returned", "written"}]
  /\ hijacked \in [Calls -> BOOLEAN] /\ streamed \in [Calls -> BOOLEAN] /\ late \subseteq Calls
  /\ file \in Seq(Record) /\ synced \in Nat /\ synced <= Len(file)

(* What each stage has behind it; a process that is gone serves nobody.    *)
StageInv ==
  /\ stage = "gave up" => gaveUp
  /\ stage \in {"serving", "draining", "gave up", "drained"} => appOpen /\ fileOpen
  /\ stage = "app closed" => fileOpen
  /\ stage = "exited" /\ ~Managed => \A c \in Calls : call[c] = "idle"
  /\ appOpen => late = {}

(* Shutdown returned because only hijacked connections were left.          *)
DrainInv ==
  ~gaveUp /\ stage \in {"drained", "app closed", "file closed", "exited"} =>
    \A c \in Calls : call[c] # "idle" => hijacked[c]

IdInv ==
  /\ sockets \subseteq 1..next /\ answered \subseteq 1..next
  /\ \A c \in Calls : call[c] # "idle" => id[c] \in 1..next /\ (hijacked[c] => id[c] \in sockets)

(* Every call of the run was recorded, became a WebSocket or is under way. *)
Accounted(i) ==
  \/ [run |-> run, id |-> i] \in recorded
  \/ i \in sockets
  \/ \E c \in Calls : call[c] # "idle" /\ id[c] = i
CallInv == ~gaveUp /\ (stage # "exited" \/ ~appOpen) => \A i \in 1..next : Accounted(i)

(* No stream becomes a WebSocket, and what was answered is or will be      *)
(* recorded.                                                               *)
AnswerInv ==
  /\ \A c \in Calls : streamed[c] /\ call[c] # "idle" => ~hijacked[c]
  /\ AnswersAreKept

IInv == Shapes /\ StageInv /\ DrainInv /\ IdInv /\ CallInv /\ NoLateUse /\ AnswerInv

-----------------------------------------------------------------------------
(* The first run begins with nobody served and nothing written.            *)
LEMMA InitIInv == Init => IInv
<1> SUFFICES ASSUME Init PROVE IInv
  OBVIOUS
<1>1. Shapes
  <2>1. file \in Seq(Record) /\ synced = 0 /\ Len(file) = 0
    BY DEF Init
  <2>2. synced \in Nat /\ synced <= Len(file)
    BY <2>1
  <2>3. id \in [Calls -> Nat] /\ run \in Nat /\ next \in Nat
    BY DEF Init
  <2> QED
    BY <2>1, <2>2, <2>3 DEF Init, Shapes, Stages
<1>2. StageInv /\ DrainInv /\ NoLateUse
  BY DEF Init, StageInv, DrainInv, NoLateUse
<1>3. IdInv /\ CallInv /\ AnswerInv
  BY DEF Init, IdInv, CallInv, AnswerInv, AnswersAreKept
<1> QED
  BY <1>1, <1>2, <1>3 DEF IInv

(* A file that grows keeps what is synced.                                 *)
LEMMA FileGrows ==
  ASSUME Shapes, NEW t \in Seq(Record)
  PROVE  file \o t \in Seq(Record) /\ synced <= Len(file \o t)
<1>1. file \in Seq(Record) /\ synced \in Nat /\ synced <= Len(file)
  BY DEF Shapes
<1>2. file \o t \in Seq(Record) /\ Len(file \o t) = Len(file) + Len(t)
  BY <1>1, ConcatProperties
<1>3. Len(file) \in Nat /\ Len(t) \in Nat
  BY <1>1, LenProperties
<1>4. synced <= Len(file) + Len(t)
  BY <1>1, <1>3
<1> QED
  BY <1>2, <1>4

(* So does one record.                                                    *)
LEMMA RecordWritten ==
  ASSUME Shapes, NEW r \in Record
  PROVE  Append(file, r) \in Seq(Record) /\ synced <= Len(Append(file, r))
<1>1. file \in Seq(Record) /\ synced \in Nat /\ synced <= Len(file)
  BY DEF Shapes
<1>2. Append(file, r) \in Seq(Record) /\ Len(Append(file, r)) = Len(file) + 1
  BY <1>1, AppendProperties
<1>3. Len(file) \in Nat
  BY <1>1, LenProperties
<1>4. synced <= Len(file) + 1
  BY <1>1, <1>3
<1> QED
  BY <1>2, <1>4

(* A file may lose its end, and the last record that is left its newline.  *)
LEMMA FileShrinks ==
  ASSUME Shapes, NEW n \in synced..Len(file)
  PROVE  /\ n \in Nat /\ SubSeq(file, 1, n) \in Seq(Record) /\ Len(SubSeq(file, 1, n)) = n
         /\ n > synced =>
              LET torn == [SubSeq(file, 1, n) EXCEPT ![n].whole = FALSE]
              IN  torn \in Seq(Record) /\ Len(torn) = n
<1>1. file \in Seq(Record) /\ synced \in Nat
  BY DEF Shapes
<1>2. Len(file) \in Nat
  BY <1>1, LenProperties
<1>3. n \in Nat /\ n <= Len(file)
  BY <1>1, <1>2
<1>4. SubSeq(file, 1, n) \in Seq(Record) /\ Len(SubSeq(file, 1, n)) = n
  <2>1. \A i \in 1..n : file[i] \in Record
    BY <1>1, <1>3, LenProperties, ElementOfSeq
  <2>2. 1 \in Int /\ n \in Int /\ 1 <= 1 /\ n <= Len(file)
    BY <1>3
  <2> QED
    BY <1>1, <1>2, <1>3, <2>1
<1>5. ASSUME n > synced
      PROVE  LET torn == [SubSeq(file, 1, n) EXCEPT ![n].whole = FALSE]
             IN  torn \in Seq(Record) /\ Len(torn) = n
  <2> DEFINE short == SubSeq(file, 1, n)
             torn  == [short EXCEPT ![n].whole = FALSE]
  <2>1. short \in [1..n -> Record]
    BY <1>4, LenProperties
  <2>2. \A r \in Record : [r EXCEPT !.whole = FALSE] \in Record
    BY DEF Record
  <2>3. torn \in [1..n -> Record]
    BY <2>1, <2>2
  <2>4. \A f \in [1..n -> Record] : f \in Seq(Record) /\ Len(f) = n
    BY <1>3
  <2> QED
    BY <2>3, <2>4
<1> QED
  BY <1>3, <1>4, <1>5

(* One step of the listener.                                               *)
CallStep(c) == Arrive(c) \/ Handler(c) \/ Middleware(c)
Step == (\E c \in Calls : CallStep(c)) \/ Stop \/ Owner \/ Crash \/ PowerLoss \/ Restart

(* Every step keeps the types.                                             *)
LEMMA StepShapes == ASSUME IInv, Step PROVE Shapes'
<1>1. ASSUME NEW c \in Calls, Arrive(c) PROVE Shapes'
  <2>1. next' \in Nat
    BY <1>1 DEF IInv, Shapes, Arrive
  <2>2. next + 1 \in Nat
    BY DEF IInv, Shapes
  <2>3. id' \in [Calls -> Nat]
    BY <1>1, <2>2 DEF IInv, Shapes, Arrive
  <2>4. call' \in [Calls -> {"idle", "running", "returned", "written"}]
        /\ hijacked' \in [Calls -> BOOLEAN] /\ streamed' \in [Calls -> BOOLEAN]
    BY <1>1 DEF IInv, Shapes, Arrive
  <2> QED
    BY <1>1, <2>1, <2>3, <2>4 DEF IInv, Shapes, Arrive, server, calls, disk, faults
<1>2. ASSUME NEW c \in Calls, UseApp(c) PROVE Shapes'
  BY <1>2 DEF IInv, Shapes, Stages, Record, IdInv, UseApp, server, calls, disk, faults
<1>3. ASSUME NEW c \in Calls, Hijack(c) PROVE Shapes'
  BY <1>3 DEF IInv, Shapes, Stages, Record, IdInv, Hijack, server, calls, disk, faults
<1>4. ASSUME NEW c \in Calls, Return(c) PROVE Shapes'
  BY <1>4 DEF IInv, Shapes, Stages, Record, IdInv, Return, server, calls, disk, faults
<1>5. ASSUME NEW c \in Calls, Write(c) PROVE Shapes'
  <2>1. Rec(c, TRUE) \in Record
    BY DEF IInv, Shapes, Rec, Record
  <2>2. file' = Append(file, Rec(c, TRUE))
    BY <1>5 DEF Write
  <2>3. file' \in Seq(Record) /\ synced' = synced /\ synced <= Len(file')
    BY <1>5, <2>1, <2>2, RecordWritten DEF IInv, Shapes, Write
  <2>4. call' \in [Calls -> {"idle", "running", "returned", "written"}]
    BY <1>5 DEF IInv, Shapes, Write, Answer, Recorded
  <2> QED
    BY <1>5, <2>3, <2>4 DEF IInv, Shapes, Write, server, calls, disk, faults
<1>6. ASSUME NEW c \in Calls, WriteFails(c) PROVE Shapes'
  <2>1. Rec(c, FALSE) \in Record
    BY DEF IInv, Shapes, Rec, Record
  <2>2. file' = file \/ file' = Append(file, Rec(c, FALSE))
    BY <1>6 DEF WriteFails
  <2>3. file' \in Seq(Record) /\ synced' = synced /\ synced <= Len(file')
    BY <1>6, <2>1, <2>2, RecordWritten DEF IInv, Shapes, WriteFails
  <2>4. call' \in [Calls -> {"idle", "running", "returned", "written"}]
    BY <1>6 DEF IInv, Shapes, WriteFails, Answer, Recorded
  <2> QED
    BY <1>6, <2>3, <2>4 DEF IInv, Shapes, WriteFails, server, calls, disk, faults
<1>7. ASSUME NEW c \in Calls, WriteToNil(c) PROVE Shapes'
  BY <1>7 DEF IInv, Shapes, Stages, Record, IdInv, WriteToNil, Answer, server, calls, disk,
     faults
<1>8. ASSUME NEW c \in Calls, Sync(c) PROVE Shapes'
  <2>1. Len(file) \in Nat
    BY LenProperties DEF IInv, Shapes
  <2>2. Len(file) <= Len(file)
    BY <2>1
  <2>3. synced' \in Nat /\ synced' <= Len(file') /\ file' = file
    BY <1>8, <2>1, <2>2 DEF Sync
  <2>4. call' \in [Calls -> {"idle", "running", "returned", "written"}]
    BY <1>8 DEF IInv, Shapes, Sync, Answer, Recorded
  <2> QED
    BY <1>8, <2>3, <2>4 DEF IInv, Shapes, Sync, server, calls, disk, faults
<1>9. CASE Stop
  BY <1>9 DEF IInv, Shapes, Stages, Record, IdInv, Stop, Move, server, calls, disk, faults
<1>10. CASE Drain
  BY <1>10 DEF IInv, Shapes, Stages, Record, IdInv, Drain, Move, Active, server, calls,
     disk, faults
<1>11. CASE GiveUp
  BY <1>11 DEF IInv, Shapes, Stages, Record, IdInv, GiveUp, Move, server, calls, disk, faults
<1>12. CASE AfterGivingUp
  BY <1>12 DEF IInv, Shapes, Stages, Record, IdInv, AfterGivingUp, Move, server, calls,
     disk, faults
<1>13. CASE CloseApp
  BY <1>13 DEF IInv, Shapes, Stages, Record, IdInv, CloseApp, Move, server, calls, disk, faults
<1>14. CASE CloseFile
  BY <1>14, ListenerAssumption DEF IInv, Shapes, Stages, CloseFile, Move, server, calls,
     disk, faults
<1>15. CASE Exit
  BY <1>15 DEF IInv, Shapes, Stages, Record, IdInv, Exit, Move, Kill, server, calls, disk,
     faults
<1>16. CASE Crash
  <2>1. PICK t \in Torn \cup {<<>>} : file' = file \o t
    BY <1>16 DEF Crash, Torn
  <2>2. \A c \in Calls : Rec(c, FALSE) \in Record
    BY DEF IInv, Shapes, Rec, Record
  <2>3. t \in Seq(Record)
    <3>1. CASE t = <<>>
      BY <3>1
    <3>2. CASE t # <<>>
      <4>1. PICK d \in Calls : t = <<Rec(d, FALSE)>>
        BY <3>2 DEF Torn
      <4>2. \A r \in Record : <<r>> \in Seq(Record)
        OBVIOUS
      <4> QED
        BY <2>2, <4>1, <4>2
    <3> QED
      BY <3>1, <3>2
  <2>4. file' \in Seq(Record) /\ synced <= Len(file')
    BY <2>1, <2>3, FileGrows DEF IInv
  <2>5. call' \in [Calls -> {"idle", "running", "returned", "written"}] /\ synced' = synced
    BY <1>16 DEF Crash, Kill
  <2> QED
    BY <1>16, <2>4, <2>5 DEF IInv, Shapes, Stages, Crash, Kill
<1>17. CASE PowerLoss
  <2>1. PICK n \in synced..Len(file) :
          /\ file' \in {SubSeq(file, 1, n)}
               \cup (IF n > synced THEN {[SubSeq(file, 1, n) EXCEPT ![n].whole = FALSE]} ELSE {})
          /\ synced' = n
    BY <1>17 DEF PowerLoss
  <2>2. n \in Nat /\ file' \in Seq(Record) /\ Len(file') = n
    BY <2>1, FileShrinks DEF IInv
  <2>3. n <= n
    BY <2>2
  <2>4. synced' \in Nat /\ synced' <= Len(file')
    BY <2>1, <2>2, <2>3
  <2>5. call' \in [Calls -> {"idle", "running", "returned", "written"}]
    BY <1>17 DEF PowerLoss, Kill
  <2> QED
    BY <1>17, <2>2, <2>4, <2>5 DEF IInv, Shapes, Stages, PowerLoss, Kill
<1>18. CASE Restart
  <2>1. run' \in Nat /\ next' \in Nat
    BY <1>18 DEF IInv, Shapes, Restart, Begin
  <2>2. hijacked' \in [Calls -> BOOLEAN] /\ streamed' \in [Calls -> BOOLEAN] /\ stage' \in Stages
    BY <1>18 DEF Restart, Begin, Stages
  <2>3. UNCHANGED <<file, synced, call, id>>
    BY <1>18 DEF Restart, Begin
  <2> QED
    BY <1>18, <2>1, <2>2, <2>3 DEF IInv, Shapes, Restart, Begin
<1>19. ASSUME NEW c \in Calls, Flush(c) PROVE Shapes'
  BY <1>19 DEF IInv, Shapes, Stages, Record, IdInv, Flush, server, calls, disk, faults
<1> QED
  BY <1>1, <1>2, <1>3, <1>4, <1>5, <1>6, <1>7, <1>8, <1>9, <1>10, <1>11, <1>12, <1>13,
     <1>14, <1>15, <1>16, <1>17, <1>18, <1>19
  DEF Step, CallStep, Handler, Middleware, Owner

(* The stages follow one another.                                          *)
LEMMA StepStage == ASSUME IInv, Step PROVE StageInv'
<1>1. ASSUME NEW c \in Calls, Arrive(c) PROVE StageInv'
  <2>1. stage = "exited" => Managed
    BY <1>1 DEF IInv, Shapes, Stages, StageInv, Arrive, Reachable
  <2> QED
    BY <1>1, <2>1 DEF IInv, StageInv, Arrive, server, calls, disk, faults
<1>2. ASSUME NEW c \in Calls, UseApp(c) PROVE StageInv'
  BY <1>2 DEF IInv, Shapes, StageInv, Stages, DrainInv, UseApp, server, calls, disk, faults
<1>3. ASSUME NEW c \in Calls, Hijack(c) PROVE StageInv'
  BY <1>3 DEF IInv, Shapes, StageInv, Stages, DrainInv, Hijack, server, calls, disk, faults
<1>4. ASSUME NEW c \in Calls, Return(c) PROVE StageInv'
  BY <1>4 DEF IInv, Shapes, StageInv, Stages, DrainInv, Return, server, calls, disk, faults
<1>5. ASSUME NEW c \in Calls, Write(c) PROVE StageInv'
  BY <1>5 DEF IInv, Shapes, StageInv, Stages, DrainInv, Write, Rec, server, calls, disk, faults
<1>6. ASSUME NEW c \in Calls, WriteFails(c) PROVE StageInv'
  BY <1>6 DEF IInv, Shapes, StageInv, Stages, DrainInv, WriteFails, Answer, Recorded, Rec, server,
     calls, disk, faults
<1>7. ASSUME NEW c \in Calls, WriteToNil(c) PROVE StageInv'
  BY <1>7 DEF IInv, Shapes, StageInv, Stages, DrainInv, WriteToNil, Answer, server, calls,
     disk, faults
<1>8. ASSUME NEW c \in Calls, Sync(c) PROVE StageInv'
  BY <1>8 DEF IInv, Shapes, StageInv, Stages, DrainInv, Sync, Answer, Recorded, server, calls, disk,
     faults
<1>9. CASE Stop
  BY <1>9 DEF IInv, Shapes, StageInv, Stages, DrainInv, Stop, Move, server, calls, disk, faults
<1>10. CASE Drain
  BY <1>10 DEF IInv, Shapes, StageInv, Stages, DrainInv, Drain, Move, Active, server, calls,
     disk, faults
<1>11. CASE GiveUp
  BY <1>11 DEF IInv, Shapes, StageInv, Stages, DrainInv, GiveUp, Move, server, calls, disk,
     faults
<1>12. CASE AfterGivingUp
  BY <1>12 DEF IInv, Shapes, StageInv, Stages, DrainInv, AfterGivingUp, Move, server, calls,
     disk, faults
<1>13. CASE CloseApp
  BY <1>13 DEF IInv, Shapes, StageInv, Stages, DrainInv, CloseApp, Move, server, calls,
     disk, faults
<1>14. CASE CloseFile
  BY <1>14 DEF IInv, Shapes, StageInv, Stages, DrainInv, CloseFile, Move, server, calls,
     disk, faults
<1>15. CASE Exit
  BY <1>15 DEF IInv, Shapes, StageInv, Stages, DrainInv, Exit, Move, Kill, server, calls,
     disk, faults
<1>16. CASE Crash
  BY <1>16 DEF IInv, Shapes, StageInv, Stages, DrainInv, Crash, Kill, server, calls, disk,
     faults
<1>17. CASE PowerLoss
  BY <1>17 DEF IInv, Shapes, StageInv, Stages, DrainInv, PowerLoss, Kill, server, calls,
     disk, faults
<1>18. CASE Restart
  BY <1>18 DEF IInv, Shapes, StageInv, Stages, DrainInv, Restart, Begin, server, calls,
     disk, faults
<1>19. ASSUME NEW c \in Calls, Flush(c) PROVE StageInv'
  BY <1>19 DEF IInv, Shapes, StageInv, Stages, DrainInv, Flush, server, calls, disk, faults
<1> QED
  BY <1>1, <1>2, <1>3, <1>4, <1>5, <1>6, <1>7, <1>8, <1>9, <1>10, <1>11, <1>12, <1>13,
     <1>14, <1>15, <1>16, <1>17, <1>18, <1>19
  DEF Step, CallStep, Handler, Middleware, Owner

(* Nobody arrives once Shutdown has returned.                              *)
LEMMA StepDrain == ASSUME IInv, Step PROVE DrainInv'
<1>1. ASSUME NEW c \in Calls, Arrive(c) PROVE DrainInv'
  BY <1>1 DEF IInv, Shapes, StageInv, DrainInv, Reachable, Stages, Arrive, server, calls,
     disk, faults
<1>2. ASSUME NEW c \in Calls, UseApp(c) PROVE DrainInv'
  BY <1>2 DEF IInv, Shapes, StageInv, DrainInv, Reachable, Stages, UseApp, server, calls,
     disk, faults
<1>3. ASSUME NEW c \in Calls, Hijack(c) PROVE DrainInv'
  BY <1>3 DEF IInv, Shapes, StageInv, DrainInv, Reachable, Stages, Hijack, server, calls,
     disk, faults
<1>4. ASSUME NEW c \in Calls, Return(c) PROVE DrainInv'
  BY <1>4 DEF IInv, Shapes, StageInv, DrainInv, Reachable, Stages, Return, server, calls,
     disk, faults
<1>5. ASSUME NEW c \in Calls, Write(c) PROVE DrainInv'
  BY <1>5 DEF IInv, Shapes, StageInv, DrainInv, Reachable, Stages, Write, Rec, server,
     calls, disk, faults
<1>6. ASSUME NEW c \in Calls, WriteFails(c) PROVE DrainInv'
  BY <1>6 DEF IInv, Shapes, StageInv, DrainInv, Reachable, Stages, WriteFails, Answer, Recorded, Rec,
     server, calls, disk, faults
<1>7. ASSUME NEW c \in Calls, WriteToNil(c) PROVE DrainInv'
  BY <1>7 DEF IInv, Shapes, StageInv, DrainInv, Reachable, Stages, WriteToNil, Answer,
     server, calls, disk, faults
<1>8. ASSUME NEW c \in Calls, Sync(c) PROVE DrainInv'
  BY <1>8 DEF IInv, Shapes, StageInv, DrainInv, Reachable, Stages, Sync, Answer, Recorded, server,
     calls, disk, faults
<1>9. CASE Stop
  BY <1>9 DEF IInv, Shapes, StageInv, DrainInv, Reachable, Stages, Stop, Move, server,
     calls, disk, faults
<1>10. CASE Drain
  BY <1>10 DEF IInv, Shapes, StageInv, DrainInv, Reachable, Stages, Drain, Move, Active,
     server, calls, disk, faults
<1>11. CASE GiveUp
  BY <1>11 DEF IInv, Shapes, StageInv, DrainInv, Reachable, Stages, GiveUp, Move, server,
     calls, disk, faults
<1>12. CASE AfterGivingUp
  BY <1>12 DEF IInv, Shapes, StageInv, DrainInv, Reachable, Stages, AfterGivingUp, Move,
     server, calls, disk, faults
<1>13. CASE CloseApp
  BY <1>13 DEF IInv, Shapes, StageInv, DrainInv, Reachable, Stages, CloseApp, Move, server,
     calls, disk, faults
<1>14. CASE CloseFile
  BY <1>14 DEF IInv, Shapes, StageInv, DrainInv, Reachable, Stages, CloseFile, Move, server,
     calls, disk, faults
<1>15. CASE Exit
  BY <1>15 DEF IInv, Shapes, StageInv, DrainInv, Reachable, Stages, Exit, Move, Kill,
     server, calls, disk, faults
<1>16. CASE Crash
  BY <1>16 DEF IInv, Shapes, StageInv, DrainInv, Reachable, Stages, Crash, Kill, server,
     calls, disk, faults
<1>17. CASE PowerLoss
  BY <1>17 DEF IInv, Shapes, StageInv, DrainInv, Reachable, Stages, PowerLoss, Kill, server,
     calls, disk, faults
<1>18. CASE Restart
  BY <1>18 DEF IInv, Shapes, StageInv, DrainInv, Reachable, Stages, Restart, Begin, server,
     calls, disk, faults
<1>19. ASSUME NEW c \in Calls, Flush(c) PROVE DrainInv'
  BY <1>19 DEF IInv, Shapes, StageInv, DrainInv, Reachable, Stages, Flush, server, calls, disk, faults
<1> QED
  BY <1>1, <1>2, <1>3, <1>4, <1>5, <1>6, <1>7, <1>8, <1>9, <1>10, <1>11, <1>12, <1>13,
     <1>14, <1>15, <1>16, <1>17, <1>18, <1>19
  DEF Step, CallStep, Handler, Middleware, Owner

(* An id is that of one call until the next run.                           *)
LEMMA StepId == ASSUME IInv, Step PROVE IdInv'
<1>1. ASSUME NEW c \in Calls, Arrive(c) PROVE IdInv'
  <2>1. next' = next + 1 /\ next \in Nat /\ sockets' = sockets /\ answered' = answered
    BY <1>1 DEF IInv, Shapes, Arrive
  <2>2. 1..next \subseteq 1..next' /\ next + 1 \in 1..next'
    BY <2>1
  <2>3. id'[c] = next + 1 /\ ~hijacked'[c]
    BY <1>1 DEF IInv, Shapes, Arrive
  <2>4. \A d \in Calls : d # c => id'[d] = id[d] /\ call'[d] = call[d] /\ hijacked'[d] = hijacked[d]
    BY <1>1 DEF IInv, Shapes, Arrive
  <2> QED
    BY <2>1, <2>2, <2>3, <2>4 DEF IInv, IdInv
<1>2. ASSUME NEW c \in Calls, UseApp(c) PROVE IdInv'
  BY <1>2 DEF IInv, Shapes, StageInv, IdInv, UseApp, server, calls, disk, faults
<1>3. ASSUME NEW c \in Calls, Hijack(c) PROVE IdInv'
  BY <1>3 DEF IInv, Shapes, StageInv, IdInv, Hijack, server, calls, disk, faults
<1>4. ASSUME NEW c \in Calls, Return(c) PROVE IdInv'
  BY <1>4 DEF IInv, Shapes, StageInv, IdInv, Return, server, calls, disk, faults
<1>5. ASSUME NEW c \in Calls, Write(c) PROVE IdInv'
  BY <1>5 DEF IInv, Shapes, StageInv, IdInv, Write, Rec, server, calls, disk, faults
<1>6. ASSUME NEW c \in Calls, WriteFails(c) PROVE IdInv'
  BY <1>6 DEF IInv, Shapes, StageInv, IdInv, WriteFails, Answer, Recorded, Rec, server, calls, disk,
     faults
<1>7. ASSUME NEW c \in Calls, WriteToNil(c) PROVE IdInv'
  BY <1>7 DEF IInv, Shapes, StageInv, IdInv, WriteToNil, Answer, server, calls, disk, faults
<1>8. ASSUME NEW c \in Calls, Sync(c) PROVE IdInv'
  BY <1>8 DEF IInv, Shapes, StageInv, IdInv, Sync, Answer, Recorded, server, calls, disk, faults
<1>9. CASE Stop
  BY <1>9 DEF IInv, Shapes, StageInv, IdInv, Stop, Move, server, calls, disk, faults
<1>10. CASE Drain
  BY <1>10 DEF IInv, Shapes, StageInv, IdInv, Drain, Move, Active, server, calls, disk, faults
<1>11. CASE GiveUp
  BY <1>11 DEF IInv, Shapes, StageInv, IdInv, GiveUp, Move, server, calls, disk, faults
<1>12. CASE AfterGivingUp
  BY <1>12 DEF IInv, Shapes, StageInv, IdInv, AfterGivingUp, Move, server, calls, disk, faults
<1>13. CASE CloseApp
  BY <1>13 DEF IInv, Shapes, StageInv, IdInv, CloseApp, Move, server, calls, disk, faults
<1>14. CASE CloseFile
  BY <1>14 DEF IInv, Shapes, StageInv, IdInv, CloseFile, Move, server, calls, disk, faults
<1>15. CASE Exit
  BY <1>15 DEF IInv, Shapes, StageInv, IdInv, Exit, Move, Kill, server, calls, disk, faults
<1>16. CASE Crash
  BY <1>16 DEF IInv, Shapes, StageInv, IdInv, Crash, Kill, server, calls, disk, faults
<1>17. CASE PowerLoss
  BY <1>17 DEF IInv, Shapes, StageInv, IdInv, PowerLoss, Kill, server, calls, disk, faults
<1>18. CASE Restart
  BY <1>18 DEF IInv, Shapes, StageInv, IdInv, Restart, Begin, server, calls, disk, faults
<1>19. ASSUME NEW c \in Calls, Flush(c) PROVE IdInv'
  BY <1>19 DEF IInv, Shapes, StageInv, IdInv, Flush, server, calls, disk, faults
<1> QED
  BY <1>1, <1>2, <1>3, <1>4, <1>5, <1>6, <1>7, <1>8, <1>9, <1>10, <1>11, <1>12, <1>13,
     <1>14, <1>15, <1>16, <1>17, <1>18, <1>19
  DEF Step, CallStep, Handler, Middleware, Owner

(* A call is lost sight of only by a crash, which leaves the app open, or  *)
(* after Shutdown has given up.                                            *)
LEMMA StepCall == ASSUME IInv, Step PROVE CallInv'
<1>1. ASSUME NEW c \in Calls, Arrive(c) PROVE CallInv'
  <2>1. next' = next + 1 /\ next \in Nat /\ call'[c] = "running" /\ id'[c] = next + 1
    BY <1>1 DEF IInv, Shapes, Arrive
  <2>2. \A i \in 1..next' : i \in 1..next \/ i = next + 1
    BY <2>1
  <2>3. \A d \in Calls : call[d] # "idle" => call'[d] # "idle" /\ id'[d] = id[d]
    BY <1>1 DEF IInv, Shapes, Arrive
  <2>4. UNCHANGED <<run, recorded, sockets, gaveUp, stage, appOpen>>
    BY <1>1 DEF Arrive, server, calls, disk, faults
  <2> QED
    BY <2>1, <2>2, <2>3, <2>4 DEF IInv, CallInv, Accounted
<1>2. ASSUME NEW c \in Calls, UseApp(c) PROVE CallInv'
  BY <1>2 DEF IInv, Shapes, StageInv, DrainInv, IdInv, CallInv, Accounted, UseApp, server,
     calls, disk, faults
<1>3. ASSUME NEW c \in Calls, Hijack(c) PROVE CallInv'
  BY <1>3 DEF IInv, Shapes, StageInv, DrainInv, IdInv, CallInv, Accounted, Hijack, server,
     calls, disk, faults
<1>4. ASSUME NEW c \in Calls, Return(c) PROVE CallInv'
  BY <1>4 DEF IInv, Shapes, StageInv, DrainInv, IdInv, CallInv, Accounted, Return, server,
     calls, disk, faults
<1>5. ASSUME NEW c \in Calls, Write(c) PROVE CallInv'
  BY <1>5 DEF IInv, Shapes, StageInv, DrainInv, IdInv, CallInv, Accounted, Write, Rec,
     server, calls, disk, faults
<1>6. ASSUME NEW c \in Calls, WriteFails(c) PROVE CallInv'
  BY <1>6 DEF IInv, Shapes, StageInv, DrainInv, IdInv, CallInv, Accounted, WriteFails,
     Answer, Recorded, Rec, server, calls, disk, faults
<1>7. ASSUME NEW c \in Calls, WriteToNil(c) PROVE CallInv'
  <2>1. ~gaveUp => id[c] \in sockets
    BY <1>7 DEF IInv, Shapes, Stages, StageInv, DrainInv, IdInv, WriteToNil
  <2>2. \A d \in Calls : d # c => call'[d] = call[d]
    BY <1>7 DEF IInv, Shapes, WriteToNil, Answer, Recorded
  <2>3. UNCHANGED <<run, next, id, recorded, sockets, gaveUp, stage, appOpen>>
    BY <1>7 DEF WriteToNil, Answer, server, calls, disk, faults
  <2> QED
    BY <2>1, <2>2, <2>3 DEF IInv, CallInv, Accounted
<1>8. ASSUME NEW c \in Calls, Sync(c) PROVE CallInv'
  BY <1>8 DEF IInv, Shapes, StageInv, DrainInv, IdInv, CallInv, Accounted, Sync, Answer, Recorded,
     server, calls, disk, faults
<1>9. CASE Stop
  BY <1>9 DEF IInv, Shapes, StageInv, DrainInv, IdInv, CallInv, Accounted, Stop, Move,
     server, calls, disk, faults
<1>10. CASE Drain
  BY <1>10 DEF IInv, Shapes, StageInv, DrainInv, IdInv, CallInv, Accounted, Drain, Move,
     Active, server, calls, disk, faults
<1>11. CASE GiveUp
  BY <1>11 DEF IInv, Shapes, StageInv, DrainInv, IdInv, CallInv, Accounted, GiveUp, Move,
     server, calls, disk, faults
<1>12. CASE AfterGivingUp
  BY <1>12 DEF IInv, Shapes, StageInv, DrainInv, IdInv, CallInv, Accounted, AfterGivingUp,
     Move, server, calls, disk, faults
<1>13. CASE CloseApp
  BY <1>13 DEF IInv, Shapes, StageInv, DrainInv, IdInv, CallInv, Accounted, CloseApp, Move,
     server, calls, disk, faults
<1>14. CASE CloseFile
  BY <1>14 DEF IInv, Shapes, StageInv, DrainInv, IdInv, CallInv, Accounted, CloseFile, Move,
     server, calls, disk, faults
<1>15. CASE Exit
  <2>1. UNCHANGED <<run, next, recorded, sockets, gaveUp, appOpen>>
    BY <1>15 DEF Exit, Move, Kill, server, calls, disk, faults
  <2>2. stage = "file closed" /\ stage' = "exited"
    BY <1>15 DEF Exit, Move, Kill
  <2>3. ~gaveUp => \A c \in Calls : call[c] # "idle" => id[c] \in sockets
    BY <2>2 DEF IInv, DrainInv, IdInv
  <2>4. ~gaveUp => \A i \in 1..next : [run |-> run, id |-> i] \in recorded \/ i \in sockets
    BY <2>2, <2>3 DEF IInv, CallInv, Accounted
  <2> QED
    BY <2>1, <2>4 DEF CallInv, Accounted
<1>16. CASE Crash
  <2>1. UNCHANGED <<run, next, recorded, sockets, gaveUp>> /\ (~appOpen' => ~appOpen)
    BY <1>16 DEF Crash, Kill, server, calls, disk, faults
  <2>2. ~appOpen => stage \in {"app closed", "file closed", "exited"}
    BY DEF IInv, Shapes, Stages, StageInv
  <2>3. ~gaveUp /\ ~appOpen => \A c \in Calls : call[c] # "idle" => id[c] \in sockets
    BY <2>2 DEF IInv, DrainInv, IdInv
  <2>4. ~gaveUp /\ ~appOpen => \A i \in 1..next : [run |-> run, id |-> i] \in recorded \/ i \in sockets
    BY <2>3 DEF IInv, CallInv, Accounted
  <2>5. stage' = "exited"
    BY <1>16 DEF Crash, Kill
  <2> QED
    BY <2>1, <2>4, <2>5 DEF CallInv, Accounted
<1>17. CASE PowerLoss
  <2>1. UNCHANGED <<run, next, recorded, sockets, gaveUp>> /\ (~appOpen' => ~appOpen)
    BY <1>17 DEF PowerLoss, Kill, server, calls, disk, faults
  <2>2. ~appOpen => stage \in {"app closed", "file closed", "exited"}
    BY DEF IInv, Shapes, Stages, StageInv
  <2>3. ~gaveUp /\ ~appOpen => \A c \in Calls : call[c] # "idle" => id[c] \in sockets
    BY <2>2 DEF IInv, DrainInv, IdInv
  <2>4. ~gaveUp /\ ~appOpen => \A i \in 1..next : [run |-> run, id |-> i] \in recorded \/ i \in sockets
    BY <2>3 DEF IInv, CallInv, Accounted
  <2>5. stage' = "exited"
    BY <1>17 DEF PowerLoss, Kill
  <2> QED
    BY <2>1, <2>4, <2>5 DEF CallInv, Accounted
<1>18. CASE Restart
  BY <1>18 DEF IInv, Shapes, StageInv, DrainInv, IdInv, CallInv, Accounted, Restart, Begin,
     server, calls, disk, faults
<1>19. ASSUME NEW c \in Calls, Flush(c) PROVE CallInv'
  BY <1>19 DEF IInv, Shapes, StageInv, DrainInv, IdInv, CallInv, Accounted, Flush, server, calls, disk, faults
<1> QED
  BY <1>1, <1>2, <1>3, <1>4, <1>5, <1>6, <1>7, <1>8, <1>9, <1>10, <1>11, <1>12, <1>13,
     <1>14, <1>15, <1>16, <1>17, <1>18, <1>19
  DEF Step, CallStep, Handler, Middleware, Owner

(* Who meets a closed app is hijacked.                                     *)
LEMMA StepLate == ASSUME IInv, Step PROVE NoLateUse'
<1>1. ASSUME NEW c \in Calls, Arrive(c) PROVE NoLateUse'
  BY <1>1 DEF IInv, Shapes, StageInv, DrainInv, NoLateUse, Reachable, Arrive, server, calls,
     disk, faults
<1>2. ASSUME NEW c \in Calls, UseApp(c) PROVE NoLateUse'
  <2>1. appOpen \/ gaveUp \/ hijacked[c]
    BY <1>2 DEF IInv, Shapes, Stages, StageInv, DrainInv, UseApp
  <2>2. UNCHANGED <<gaveUp, hijacked>> /\ (late' = late \/ (late' = late \cup {c} /\ ~appOpen))
    BY <1>2 DEF UseApp, server, calls, disk, faults
  <2> QED
    BY <2>1, <2>2 DEF IInv, NoLateUse
<1>3. ASSUME NEW c \in Calls, Hijack(c) PROVE NoLateUse'
  BY <1>3 DEF IInv, Shapes, StageInv, DrainInv, NoLateUse, Reachable, Hijack, server, calls,
     disk, faults
<1>4. ASSUME NEW c \in Calls, Return(c) PROVE NoLateUse'
  BY <1>4 DEF IInv, Shapes, StageInv, DrainInv, NoLateUse, Reachable, Return, server, calls,
     disk, faults
<1>5. ASSUME NEW c \in Calls, Write(c) PROVE NoLateUse'
  BY <1>5 DEF IInv, Shapes, StageInv, DrainInv, NoLateUse, Reachable, Write, Rec, server,
     calls, disk, faults
<1>6. ASSUME NEW c \in Calls, WriteFails(c) PROVE NoLateUse'
  BY <1>6 DEF IInv, Shapes, StageInv, DrainInv, NoLateUse, Reachable, WriteFails, Answer, Recorded,
     Rec, server, calls, disk, faults
<1>7. ASSUME NEW c \in Calls, WriteToNil(c) PROVE NoLateUse'
  BY <1>7 DEF IInv, Shapes, StageInv, DrainInv, NoLateUse, Reachable, WriteToNil, Answer,
     server, calls, disk, faults
<1>8. ASSUME NEW c \in Calls, Sync(c) PROVE NoLateUse'
  BY <1>8 DEF IInv, Shapes, StageInv, DrainInv, NoLateUse, Reachable, Sync, Answer, Recorded, server,
     calls, disk, faults
<1>9. CASE Stop
  BY <1>9 DEF IInv, Shapes, StageInv, DrainInv, NoLateUse, Reachable, Stop, Move, server,
     calls, disk, faults
<1>10. CASE Drain
  BY <1>10 DEF IInv, Shapes, StageInv, DrainInv, NoLateUse, Reachable, Drain, Move, Active,
     server, calls, disk, faults
<1>11. CASE GiveUp
  BY <1>11 DEF IInv, Shapes, StageInv, DrainInv, NoLateUse, Reachable, GiveUp, Move, server,
     calls, disk, faults
<1>12. CASE AfterGivingUp
  BY <1>12 DEF IInv, Shapes, StageInv, DrainInv, NoLateUse, Reachable, AfterGivingUp, Move,
     server, calls, disk, faults
<1>13. CASE CloseApp
  BY <1>13 DEF IInv, Shapes, StageInv, DrainInv, NoLateUse, Reachable, CloseApp, Move,
     server, calls, disk, faults
<1>14. CASE CloseFile
  BY <1>14 DEF IInv, Shapes, StageInv, DrainInv, NoLateUse, Reachable, CloseFile, Move,
     server, calls, disk, faults
<1>15. CASE Exit
  BY <1>15 DEF IInv, Shapes, StageInv, DrainInv, NoLateUse, Reachable, Exit, Move, Kill,
     server, calls, disk, faults
<1>16. CASE Crash
  BY <1>16 DEF IInv, Shapes, StageInv, DrainInv, NoLateUse, Reachable, Crash, Kill, server,
     calls, disk, faults
<1>17. CASE PowerLoss
  BY <1>17 DEF IInv, Shapes, StageInv, DrainInv, NoLateUse, Reachable, PowerLoss, Kill,
     server, calls, disk, faults
<1>18. CASE Restart
  BY <1>18 DEF IInv, Shapes, StageInv, DrainInv, NoLateUse, Reachable, Restart, Begin,
     server, calls, disk, faults
<1>19. ASSUME NEW c \in Calls, Flush(c) PROVE NoLateUse'
  BY <1>19 DEF IInv, Shapes, StageInv, DrainInv, NoLateUse, Reachable, Flush, server, calls, disk, faults
<1> QED
  BY <1>1, <1>2, <1>3, <1>4, <1>5, <1>6, <1>7, <1>8, <1>9, <1>10, <1>11, <1>12, <1>13,
     <1>14, <1>15, <1>16, <1>17, <1>18, <1>19
  DEF Step, CallStep, Handler, Middleware, Owner

(* What was answered has been recorded, or is a stream on its way there.    *)
LEMMA StepAnswer == ASSUME IInv, Step PROVE AnswerInv'
<1> USE DEF IInv, AnswerInv, AnswersAreKept, Pending
<1>1. ASSUME NEW c \in Calls, Arrive(c) PROVE AnswerInv'
  <2>1. call[c] = "idle" /\ ~streamed'[c]
    BY <1>1 DEF Shapes, Arrive
  <2>2. \A d \in Calls : d # c => id'[d] = id[d] /\ call'[d] = call[d]
                                  /\ hijacked'[d] = hijacked[d] /\ streamed'[d] = streamed[d]
    BY <1>1 DEF Shapes, Arrive
  <2>3. UNCHANGED <<run, answered, recorded, gaveUp, stage, appOpen>>
    BY <1>1 DEF Arrive, server, disk
  <2> QED
    BY <2>1, <2>2, <2>3
<1>2. ASSUME NEW c \in Calls, UseApp(c) \/ Return(c) \/ Write(c) PROVE AnswerInv'
  <2>1. \A d \in Calls : call'[d] # "idle" <=> call[d] # "idle"
    BY <1>2 DEF Shapes, UseApp, Return, Write
  <2>2. UNCHANGED <<run, id, hijacked, streamed, answered, recorded, gaveUp, stage, appOpen>>
    BY <1>2 DEF UseApp, Return, Write, server, disk
  <2> QED
    BY <2>1, <2>2
<1>3. ASSUME NEW c \in Calls, Hijack(c) PROVE AnswerInv'
  BY <1>3 DEF Shapes, Hijack, server, disk
<1>4. ASSUME NEW c \in Calls, Flush(c) PROVE AnswerInv'
  <2>1. call[c] # "idle" /\ ~hijacked[c] /\ streamed'[c] /\ answered' = answered \cup {id[c]}
    BY <1>4 DEF Shapes, Flush
  <2>2. \A d \in Calls : streamed[d] => streamed'[d]
    BY <1>4 DEF Shapes, Flush
  <2>3. \A d \in Calls : d # c => streamed'[d] = streamed[d]
    BY <1>4 DEF Shapes, Flush
  <2>4. UNCHANGED <<run, call, id, hijacked, recorded, gaveUp, stage, appOpen>>
    BY <1>4 DEF Flush, server, disk
  <2> QED
    BY <2>1, <2>2, <2>3, <2>4
<1>5. ASSUME NEW c \in Calls, WriteFails(c) \/ Sync(c) PROVE AnswerInv'
  <2>1. recorded' = recorded \cup {[run |-> run, id |-> id[c]]} /\ answered' \subseteq answered \cup {id[c]}
    BY <1>5 DEF WriteFails, Sync, Answer, Recorded
  <2>2. \A d \in Calls : d # c => call'[d] = call[d]
    BY <1>5 DEF Shapes, WriteFails, Sync, Answer
  <2>3. call'[c] = "idle" /\ UNCHANGED <<run, id, hijacked, streamed, gaveUp, stage, appOpen>>
    BY <1>5 DEF Shapes, WriteFails, Sync, Answer, server
  <2> QED
    BY <2>1, <2>2, <2>3
<1>6. ASSUME NEW c \in Calls, WriteToNil(c) PROVE AnswerInv'
  <2>1. call[c] # "idle" /\ (~gaveUp => hijacked[c])
    BY <1>6 DEF Shapes, Stages, StageInv, DrainInv, WriteToNil
  <2>2. \A d \in Calls : d # c => call'[d] = call[d]
    BY <1>6 DEF Shapes, WriteToNil, Answer
  <2>3. call'[c] = "idle" /\ UNCHANGED <<run, id, hijacked, streamed, recorded, gaveUp, stage, appOpen>>
    BY <1>6 DEF Shapes, WriteToNil, Answer, server, disk
  <2>4. ~gaveUp => answered' = answered
    BY <1>6, <2>1 DEF WriteToNil, Answer
  <2> QED
    BY <2>1, <2>2, <2>3, <2>4
<1>7. CASE Stop \/ Drain \/ GiveUp \/ AfterGivingUp \/ CloseApp \/ CloseFile
  <2>1. UNCHANGED <<run, call, id, hijacked, streamed, answered, recorded>> /\ stage # "exited"
    BY <1>7 DEF Stop, Drain, GiveUp, AfterGivingUp, CloseApp, CloseFile, Move, calls, disk
  <2>2. gaveUp => gaveUp'
    BY <1>7 DEF Stop, Drain, GiveUp, AfterGivingUp, CloseApp, CloseFile
  <2> QED
    BY <2>1, <2>2
(* A process that ends after Shutdown has no stream under way.             *)
<1>8. ~gaveUp /\ ~appOpen => \A i \in answered : [run |-> run, id |-> i] \in recorded
  BY DEF Shapes, Stages, StageInv, DrainInv
<1>9. CASE Exit \/ Crash \/ PowerLoss
  <2>1. UNCHANGED <<run, recorded, answered, gaveUp, appOpen>> /\ stage' = "exited"
    BY <1>9 DEF Exit, Crash, PowerLoss, Move, Kill, calls, disk
  <2>2. (\A c \in Calls : call'[c] = "idle") \/ UNCHANGED <<call, streamed, hijacked>>
    BY <1>9 DEF Exit, Crash, PowerLoss, Move, Kill, calls
  <2> QED
    BY <1>8, <2>1, <2>2
<1>10. CASE Restart
  BY <1>10 DEF Restart, Begin
<1> QED
  BY <1>1, <1>2, <1>3, <1>4, <1>5, <1>6, <1>7, <1>9, <1>10
  DEF Step, CallStep, Handler, Middleware, Owner

(* Every step keeps the invariant.                                         *)
LEMMA NextIInv == IInv /\ [Next]_vars => IInv'
<1> SUFFICES ASSUME IInv, [Next]_vars PROVE IInv'
  OBVIOUS
<1>1. CASE Step
  BY <1>1, StepShapes, StepStage, StepDrain, StepId, StepCall, StepLate, StepAnswer DEF IInv
<1>2. CASE UNCHANGED vars
  BY <1>2 DEF vars, server, calls, disk, faults, IInv, Shapes, StageInv, DrainInv, IdInv,
     CallInv, Accounted, NoLateUse, AnswerInv, AnswersAreKept, Pending
<1> QED
  BY <1>1, <1>2 DEF Next, Step, CallStep, Done

-----------------------------------------------------------------------------
(* IInv is invariant (serveHTTPWithContext, runLocal, httpLocalServer).    *)
THEOREM Invariance == Spec => []IInv
<1> QED
  BY InitIInv, NextIInv, PTL DEF Spec

(* The server's, the calls' and the recorder's state have their types, and *)
(* what is synced is in the file.                                          *)
THEOREM TypeCorrect == Spec => []TypeOK
<1>1. IInv => TypeOK
  BY DEF IInv, Shapes, IdInv, TypeOK
<1> QED
  BY <1>1, Invariance, PTL

(* A closed WASM runtime is met only on a hijacked connection or after     *)
(* Shutdown has given up (httpLocalServer.Close, runLocal's defers).       *)
THEOREM NobodyIsLate == Spec => []NoLateUse
<1>1. IInv => NoLateUse
  BY DEF IInv
<1> QED
  BY <1>1, Invariance, PTL

(* A shutdown that does not give up has every call but the WebSockets      *)
(* recorded when the app is closed.                                        *)
THEOREM GracefulLosesNone == Spec => []GracefulKeepsAll
<1>1. IInv => GracefulKeepsAll
  <2> SUFFICES ASSUME IInv, ~gaveUp, ~appOpen, NEW i \in 1..next,
                      [run |-> run, id |-> i] \notin recorded
               PROVE  i \in sockets
    BY DEF GracefulKeepsAll, Missing
  <2>1. \A c \in Calls : call[c] # "idle" => id[c] \in sockets
    BY DEF IInv, Shapes, Stages, StageInv, DrainInv, IdInv
  <2> QED
    BY <2>1 DEF IInv, CallInv, Accounted
<1> QED
  BY <1>1, Invariance, PTL

-----------------------------------------------------------------------------
(* How much a file may lose.  What Record has returned for is whole and    *)
(* synced, unless its write failed (MissedInv); a line without             *)
(* its newline was left by a failed write or by a crash (BrokenInv); what  *)
(* a call under the recorder's mutex has written is the file's last line.  *)
Key(r)  == [run |-> r.run, id |-> r.id]
Safe(a) == \E i \in 1..synced : file[i].whole /\ file[i].run = a.run /\ file[i].id = a.id
MissedLines == {a \in recorded : ~Safe(a)}
Broken == {i \in DOMAIN file : ~file[i].whole}

MissedInv  == IsFiniteSet(MissedLines) /\ Cardinality(MissedLines) <= failures
BrokenInv  == Cardinality(Broken) <= failures + crashes
WrittenInv == \A c \in Calls : call[c] = "written" =>
                Len(file) > 0 /\ file[Len(file)] = Rec(c, TRUE)
FewInv ==
  /\ failures \in Nat /\ crashes \in Nat
  /\ \A a \in recorded : a = [run |-> a.run, id |-> a.id]
  /\ MissedInv /\ BrokenInv /\ WrittenInv

(* One element more makes a finite set at most one larger.                 *)
LEMMA OneMore ==
  ASSUME NEW S, IsFiniteSet(S), NEW x, NEW T, T \subseteq S \cup {x}
  PROVE  IsFiniteSet(T) /\ Cardinality(T) \in Nat /\ Cardinality(S) \in Nat
         /\ Cardinality(T) <= Cardinality(S) + 1
<1>1. IsFiniteSet(S \cup {x}) /\ Cardinality(S) \in Nat
      /\ Cardinality(S \cup {x}) = IF x \in S THEN Cardinality(S) ELSE Cardinality(S) + 1
  BY FS_AddElement, FS_CardinalityType
<1>2. IsFiniteSet(T) /\ Cardinality(T) <= Cardinality(S \cup {x})
  BY <1>1, FS_Subset
<1>3. Cardinality(T) \in Nat
  BY <1>2, FS_CardinalityType
<1> QED
  BY <1>1, <1>2, <1>3

(* The lines of a file are finitely many.                                  *)
LEMMA BrokenIsFinite == ASSUME Shapes PROVE IsFiniteSet(Broken)
<1>1. Len(file) \in Nat /\ DOMAIN file = 1..Len(file)
  BY LenProperties DEF Shapes
<1>2. IsFiniteSet(1..Len(file)) /\ Broken \in SUBSET (1..Len(file))
  BY <1>1, FS_Interval DEF Broken
<1> QED
  BY <1>2, FS_Subset

(* What is synced stays, so what it keeps safe stays safe.                 *)
LEMMA SafeStays ==
  ASSUME Shapes, synced' \in Nat, synced <= synced', \A i \in 1..synced : file'[i] = file[i]
  PROVE  MissedLines' \subseteq MissedLines \cup (recorded' \ recorded)
<1>1. synced \in Nat
  BY DEF Shapes
<1>2. 1..synced \subseteq 1..synced'
  BY <1>1
<1>3. \A a : Safe(a) => Safe(a)'
  BY <1>2 DEF Safe
<1> QED
  BY <1>3 DEF MissedLines

(* A line more at the end of a file.                                       *)
LEMMA LineAppended ==
  ASSUME Shapes, NEW r \in Record
  PROVE  /\ Len(file) \in Nat /\ synced \in Nat /\ synced <= Len(file) /\ DOMAIN file = 1..Len(file)
         /\ DOMAIN Append(file, r) = 1..Len(file) + 1 /\ Len(Append(file, r)) = Len(file) + 1
         /\ \A i \in 1..Len(file) : Append(file, r)[i] = file[i]
         /\ Append(file, r)[Len(file) + 1] = r
<1>1. file \in Seq(Record) /\ synced \in Nat /\ synced <= Len(file)
  BY DEF Shapes
<1>2. /\ Append(file, r) \in Seq(Record) /\ Len(Append(file, r)) = Len(file) + 1
      /\ \A i \in 1..Len(file) : Append(file, r)[i] = file[i]
      /\ Append(file, r)[Len(file) + 1] = r
  BY <1>1, AppendProperties
<1>3. /\ Len(file) \in Nat /\ DOMAIN file = 1..Len(file)
      /\ DOMAIN Append(file, r) = 1..Len(Append(file, r))
  BY <1>1, <1>2, LenProperties
<1> QED
  BY <1>1, <1>2, <1>3

(* A step that leaves the disk alone.                                      *)
LEMMA QuietKeepsFew ==
  ASSUME FewInv, UNCHANGED <<file, synced, recorded, failures, crashes>>,
         \A c \in Calls : call'[c] = "written" =>
           call[c] = "written" /\ id'[c] = id[c] /\ run' = run
  PROVE  FewInv'
<1>1. MissedInv' /\ BrokenInv'
  BY DEF FewInv, MissedInv, BrokenInv, MissedLines, Safe, Broken
<1>2. WrittenInv'
  BY DEF FewInv, WrittenInv, Rec
<1> QED
  BY <1>1, <1>2 DEF FewInv

(* A write appends a whole line, or fails and may leave a broken one.      *)
LEMMA WriteKeepsFew == ASSUME IInv, FewInv, NEW c \in Calls, Write(c) PROVE FewInv'
<1>1. /\ file' = Append(file, Rec(c, TRUE)) /\ call' = [call EXCEPT ![c] = "written"]
      /\ UNCHANGED <<id, run, synced, recorded, failures, crashes>> /\ Unlocked
  BY DEF Write, server, faults
<1>2. Shapes /\ Rec(c, TRUE) \in Record
  BY DEF IInv, Shapes, Rec, Record
<1>3. /\ Len(file) \in Nat /\ synced \in Nat /\ synced <= Len(file)
      /\ DOMAIN file = 1..Len(file) /\ DOMAIN file' = 1..Len(file) + 1 /\ Len(file') = Len(file) + 1
      /\ \A i \in 1..Len(file) : file'[i] = file[i]
      /\ file'[Len(file) + 1] = Rec(c, TRUE)
  BY <1>1, <1>2, LineAppended
<1>4. MissedInv'
  <2>1. MissedLines' \subseteq MissedLines
    <3>1. \A i \in 1..synced : file'[i] = file[i]
      BY <1>3
    <3>2. synced' \in Nat /\ synced <= synced' /\ recorded' \ recorded = {}
      BY <1>1, <1>3
    <3> QED
      BY <1>2, <3>1, <3>2, SafeStays
  <2>2. IsFiniteSet(MissedLines) /\ MissedLines' \in SUBSET MissedLines
    BY <2>1 DEF FewInv, MissedInv
  <2>3. IsFiniteSet(MissedLines') /\ Cardinality(MissedLines') <= Cardinality(MissedLines)
        /\ Cardinality(MissedLines) \in Nat /\ Cardinality(MissedLines') \in Nat
    BY <2>2, FS_Subset, FS_CardinalityType
  <2> QED
    BY <1>1, <2>3 DEF FewInv, MissedInv
<1>5. BrokenInv'
  <2>1. Rec(c, TRUE).whole
    BY DEF Rec
  <2>2. \A i \in DOMAIN file' : i \in DOMAIN file \/ i = Len(file) + 1
    BY <1>3
  <2>3. Broken' = Broken
    <3>1. \A i \in DOMAIN file : i \in DOMAIN file' /\ file'[i] = file[i]
      BY <1>3
    <3>2. file'[Len(file) + 1].whole
      BY <1>3, <2>1
    <3> QED
      BY <2>2, <3>1, <3>2 DEF Broken
  <2> QED
    BY <1>1, <2>3 DEF FewInv, BrokenInv
<1>6. WrittenInv'
  <2>1. \A d \in Calls : call'[d] = "written" => d = c
    BY <1>1 DEF Unlocked, IInv, Shapes
  <2>2. Rec(c, TRUE)' = Rec(c, TRUE)
    BY <1>1 DEF Rec
  <2> QED
    <3>1. Len(file') > 0 /\ file'[Len(file')] = Rec(c, TRUE)
      BY <1>3
    <3> QED
      BY <2>1, <2>2, <3>1 DEF WrittenInv
<1> QED
  BY <1>1, <1>4, <1>5, <1>6 DEF FewInv

(* A failed write costs its own record, and may leave its line broken.     *)
LEMMA WriteFailsKeepsFew == ASSUME IInv, FewInv, NEW c \in Calls, WriteFails(c) PROVE FewInv'
<1> DEFINE a == [run |-> run, id |-> id[c]]
<1>1. /\ failures' = failures + 1 /\ UNCHANGED <<id, run, synced, crashes>> /\ Unlocked
      /\ file' = file \/ file' = Append(file, Rec(c, FALSE))
      /\ recorded' = recorded \cup {a} /\ call' = [call EXCEPT ![c] = "idle"]
  BY DEF WriteFails, Answer, Recorded, server
<1>2. Shapes /\ Rec(c, FALSE) \in Record
  BY DEF IInv, Shapes, Rec, Record
<1>3. /\ Len(file) \in Nat /\ synced \in Nat /\ synced <= Len(file)
      /\ DOMAIN file = 1..Len(file) /\ DOMAIN file' \subseteq 1..Len(file) + 1
      /\ \A i \in 1..Len(file) : file'[i] = file[i]
  <2>1. /\ Len(file) \in Nat /\ synced \in Nat /\ synced <= Len(file) /\ DOMAIN file = 1..Len(file)
        /\ DOMAIN Append(file, Rec(c, FALSE)) = 1..Len(file) + 1
        /\ \A i \in 1..Len(file) : Append(file, Rec(c, FALSE))[i] = file[i]
    BY <1>2, LineAppended
  <2>2. 1..Len(file) \subseteq 1..Len(file) + 1
    BY <2>1
  <2> QED
    BY <1>1, <2>1, <2>2
<1>4. MissedInv'
  <2>1. MissedLines' \subseteq MissedLines \cup {a}
    BY <1>1, <1>2, <1>3, SafeStays
  <2> HIDE DEF a
  <2>2. IsFiniteSet(MissedLines') /\ Cardinality(MissedLines') \in Nat
        /\ Cardinality(MissedLines) \in Nat
        /\ Cardinality(MissedLines') <= Cardinality(MissedLines) + 1
    BY <2>1, OneMore DEF FewInv, MissedInv
  <2> QED
    BY <1>1, <2>2 DEF FewInv, MissedInv
<1>5. BrokenInv'
  <2>1. Broken' \subseteq Broken \cup {Len(file) + 1}
    BY <1>3 DEF Broken
  <2>2. Cardinality(Broken') \in Nat /\ Cardinality(Broken) \in Nat
        /\ Cardinality(Broken') <= Cardinality(Broken) + 1
    BY <1>2, <2>1, BrokenIsFinite, OneMore
  <2> QED
    BY <1>1, <2>2 DEF FewInv, BrokenInv
<1>6. WrittenInv'
  BY <1>1 DEF Unlocked, IInv, Shapes, WrittenInv
<1> QED
  BY <1>1, <1>4, <1>5, <1>6 DEF FewInv

(* A call that has synced answers for its line, the last one.              *)
LEMMA SyncKeepsFew == ASSUME IInv, FewInv, NEW c \in Calls, Sync(c) PROVE FewInv'
<1> DEFINE a == [run |-> run, id |-> id[c]]
<1>1. /\ UNCHANGED <<id, run, file, failures, crashes>> /\ synced' = Len(file)
      /\ recorded' = recorded \cup {a} /\ call' = [call EXCEPT ![c] = "idle"]
      /\ Len(file) > 0 /\ file[Len(file)] = Rec(c, TRUE)
  BY DEF Sync, Answer, Recorded, server, faults, FewInv, WrittenInv
<1>2. Shapes /\ Len(file) \in Nat /\ synced \in Nat /\ synced <= Len(file)
  BY LenProperties DEF IInv, Shapes
<1>3. MissedInv'
  <2>1. MissedLines' \subseteq MissedLines \cup {a}
    BY <1>1, <1>2, SafeStays
  <2>2. \E i \in 1..synced' : file'[i].whole /\ file'[i].run = a.run /\ file'[i].id = a.id
    <3>1. Len(file) \in 1..synced'
      BY <1>1, <1>2
    <3> QED
      BY <1>1, <3>1 DEF Rec
  <2>3. IsFiniteSet(MissedLines) /\ MissedLines' \in SUBSET MissedLines
    <3>1. a \notin MissedLines'
      <4> HIDE DEF a
      <4> QED
        BY <2>2 DEF MissedLines, Safe
    <3> HIDE DEF a
    <3> QED
      BY <2>1, <3>1 DEF FewInv, MissedInv
  <2>4. IsFiniteSet(MissedLines') /\ Cardinality(MissedLines') <= Cardinality(MissedLines)
        /\ Cardinality(MissedLines) \in Nat /\ Cardinality(MissedLines') \in Nat
    BY <2>3, FS_Subset, FS_CardinalityType
  <2> QED
    BY <1>1, <2>4 DEF FewInv, MissedInv
<1>4. BrokenInv'
  BY <1>1 DEF FewInv, BrokenInv, Broken
<1>5. WrittenInv'
  <2>1. \A d \in Calls : call'[d] = "written" => call[d] = "written"
    BY <1>1 DEF IInv, Shapes
  <2> QED
    BY <1>1, <2>1 DEF FewInv, WrittenInv, Rec
<1> QED
  BY <1>1, <1>3, <1>4, <1>5 DEF FewInv

(* A fault that ends the process breaks one line at most: the one it was   *)
(* writing, or the last that is left.                                      *)
LEMMA KillKeepsFew ==
  ASSUME IInv, FewInv, Kill, UNCHANGED <<recorded, failures>>, crashes' = crashes + 1,
         synced' \in Nat, synced <= synced', \A i \in 1..synced : file'[i] = file[i],
         NEW n, Broken' \subseteq Broken \cup {n}
  PROVE  FewInv'
<1>1. Shapes
  BY DEF IInv
<1>2. MissedInv'
  <2>1. MissedLines' \subseteq MissedLines
    BY <1>1, SafeStays
  <2>2. IsFiniteSet(MissedLines) /\ MissedLines' \in SUBSET MissedLines
    BY <2>1 DEF FewInv, MissedInv
  <2>3. IsFiniteSet(MissedLines') /\ Cardinality(MissedLines') <= Cardinality(MissedLines)
        /\ Cardinality(MissedLines) \in Nat /\ Cardinality(MissedLines') \in Nat
    BY <2>2, FS_Subset, FS_CardinalityType
  <2> QED
    BY <2>3 DEF FewInv, MissedInv
<1>3. BrokenInv'
  <2>1. Cardinality(Broken') \in Nat /\ Cardinality(Broken) \in Nat
        /\ Cardinality(Broken') <= Cardinality(Broken) + 1
    BY <1>1, BrokenIsFinite, OneMore
  <2> QED
    BY <2>1 DEF FewInv, BrokenInv
<1>4. WrittenInv'
  BY DEF Kill, WrittenInv
<1> QED
  BY <1>2, <1>3, <1>4 DEF FewInv

(* A crash of the process leaves at most one line without its end.         *)
LEMMA CrashKeepsFew == ASSUME IInv, FewInv, Crash PROVE FewInv'
<1>1. PICK t \in Torn \cup {<<>>} : file' = file \o t
  BY DEF Crash
<1>2. file \in Seq(Record) /\ Len(file) \in Nat /\ synced \in Nat /\ synced <= Len(file)
      /\ DOMAIN file = 1..Len(file)
  BY LenProperties DEF IInv, Shapes
<1>3. t \in Seq(Record) /\ Len(t) <= 1 /\ Len(t) \in Nat
  <2>1. \A c \in Calls : Rec(c, FALSE) \in Record
    BY DEF IInv, Shapes, Rec, Record
  <2>2. \A r \in Record : <<r>> \in Seq(Record) /\ Len(<<r>>) = 1
    OBVIOUS
  <2>3. <<>> \in Seq(Record) /\ Len(<<>>) = 0
    OBVIOUS
  <2>4. t = <<>> \/ \E r \in Record : t = <<r>>
    BY <2>1 DEF Torn
  <2>5. CASE t = <<>>
    BY <2>3, <2>5
  <2>6. ASSUME NEW r \in Record, t = <<r>> PROVE t \in Seq(Record) /\ Len(t) <= 1 /\ Len(t) \in Nat
    BY <2>2, <2>6
  <2> QED
    BY <2>4, <2>5, <2>6
<1>4. /\ file' \in Seq(Record) /\ Len(file') = Len(file) + Len(t)
      /\ \A i \in 1..Len(file) + Len(t) : file'[i] = IF i <= Len(file) THEN file[i] ELSE t[i - Len(file)]
      /\ DOMAIN file' = 1..Len(file')
  BY <1>1, <1>2, <1>3, ConcatProperties, LenProperties
<1>5. /\ \A i \in 1..Len(file) : i \in 1..Len(file) + Len(t) /\ file'[i] = file[i]
      /\ \A i \in DOMAIN file' : i \in 1..Len(file) \/ i = Len(file) + 1
  BY <1>2, <1>3, <1>4
<1>6. Broken' \subseteq Broken \cup {Len(file) + 1}
  BY <1>2, <1>5 DEF Broken
<1>7. \A i \in 1..synced : file'[i] = file[i]
  BY <1>2, <1>5
<1> QED
  <2>1. Kill /\ UNCHANGED <<synced, recorded, failures>> /\ crashes' = crashes + 1
    BY DEF Crash
  <2> QED
    <3>1. synced' \in Nat /\ synced <= synced' /\ \A i \in 1..synced : file'[i] = file[i]
      BY <1>2, <1>7, <2>1
    <3> QED
      BY <1>6, <2>1, <3>1, KillKeepsFew

(* A loss of power takes no synced line, and breaks at most one.           *)
LEMMA PowerLossKeepsFew == ASSUME IInv, FewInv, PowerLoss PROVE FewInv'
<1>1. PICK n \in synced..Len(file) :
        /\ file' \in {SubSeq(file, 1, n)}
                       \cup (IF n > synced THEN {[SubSeq(file, 1, n) EXCEPT ![n].whole = FALSE]} ELSE {})
        /\ synced' = n
  BY DEF PowerLoss
<1>2. /\ file \in Seq(Record) /\ Len(file) \in Nat /\ synced \in Nat /\ n \in Nat
      /\ synced <= n /\ n <= Len(file) /\ DOMAIN file = 1..Len(file)
  BY LenProperties DEF IInv, Shapes
<1> DEFINE short == SubSeq(file, 1, n)
<1>3. short \in Seq(Record) /\ Len(short) = n /\ DOMAIN short = 1..n
      /\ \A i \in 1..n : short[i] = file[i]
  BY <1>2, FileShrinks, LenProperties DEF IInv
<1> HIDE DEF short
<1>4. DOMAIN file' = 1..n /\ \A i \in 1..n : file'[i] = file[i] \/ (i = n /\ n > synced)
  BY <1>1, <1>2, <1>3 DEF short
<1>5. Broken' \subseteq Broken \cup {n}
  BY <1>2, <1>4 DEF Broken
<1>6. \A i \in 1..synced : file'[i] = file[i]
  BY <1>2, <1>4
<1> QED
  BY <1>1, <1>2, <1>5, <1>6, KillKeepsFew DEF PowerLoss

(* Every step keeps what the count rests on.                               *)
LEMMA StepKeepsFew == ASSUME IInv, FewInv, Step PROVE FewInv'
<1>1. ASSUME NEW c \in Calls, Arrive(c) PROVE FewInv'
  BY <1>1, QuietKeepsFew DEF Arrive, server, disk, faults, IInv, Shapes
<1>2. ASSUME NEW c \in Calls, UseApp(c) \/ Hijack(c) \/ Flush(c) \/ Return(c) PROVE FewInv'
  BY <1>2, QuietKeepsFew DEF UseApp, Hijack, Flush, Return, server, disk, faults, IInv, Shapes
<1>3. ASSUME NEW c \in Calls, WriteToNil(c) PROVE FewInv'
  BY <1>3, QuietKeepsFew DEF WriteToNil, Answer, server, disk, faults, IInv, Shapes
<1>4. ASSUME NEW c \in Calls, Write(c) \/ WriteFails(c) \/ Sync(c) PROVE FewInv'
  BY <1>4, WriteKeepsFew, WriteFailsKeepsFew, SyncKeepsFew
<1>5. CASE Stop \/ Drain \/ GiveUp \/ AfterGivingUp \/ CloseApp \/ CloseFile
  <2>1. UNCHANGED <<run, calls, disk, faults>>
    BY <1>5 DEF Stop, Drain, GiveUp, AfterGivingUp, CloseApp, CloseFile, Move
  <2> QED
    BY <2>1, QuietKeepsFew DEF calls, disk, faults
<1>6. CASE Exit
  <2>1. UNCHANGED <<run, id, disk, faults>> /\ \A c \in Calls : call'[c] = "written" => call[c] = "written"
    BY <1>6 DEF Exit, Move, Kill, calls
  <2> QED
    BY <2>1, QuietKeepsFew DEF disk, faults
<1>7. CASE Restart
  <2>1. \A c \in Calls : call'[c] = "idle"
    BY <1>7 DEF Restart, Begin, IInv, StageInv
  <2> QED
    BY <1>7, <2>1, QuietKeepsFew DEF Restart, Begin, faults
<1> QED
  BY <1>1, <1>2, <1>3, <1>4, <1>5, <1>6, <1>7, CrashKeepsFew, PowerLossKeepsFew
  DEF Step, CallStep, Handler, Middleware, Owner

(* What is lost had no safe line, or follows a broken one.                 *)
LEMMA FewFollows == ASSUME IInv, FewInv PROVE FewAreLost
<1> DEFINE after == [i \in Broken |-> IF i + 1 \in DOMAIN file THEN Key(file[i + 1]) ELSE 0]
           T == {after[i] : i \in Broken}
<1>1. Shapes /\ IsFiniteSet(Broken)
  BY BrokenIsFinite DEF IInv
<1>2. after \in Surjection(Broken, T)
  BY DEF Surjection
<1>3. IsFiniteSet(T) /\ Cardinality(T) <= Cardinality(Broken)
      /\ Cardinality(T) \in Nat /\ Cardinality(Broken) \in Nat
  BY <1>1, <1>2, FS_Surjection, FS_CardinalityType
<1>4. Lost \subseteq MissedLines \cup T
  <2> SUFFICES ASSUME NEW a \in recorded, Safe(a),
                      ~\E i \in DOMAIN file : Readable(i) /\ file[i].run = a.run /\ file[i].id = a.id
               PROVE  a \in T
    BY DEF Lost, MissedLines
  <2>1. PICK i \in 1..synced : file[i].whole /\ file[i].run = a.run /\ file[i].id = a.id
    BY DEF Safe
  <2>2. Len(file) \in Nat /\ DOMAIN file = 1..Len(file) /\ synced \in Nat /\ synced <= Len(file)
    BY <1>1, LenProperties DEF Shapes
  <2>3. i \in DOMAIN file /\ i > 1 /\ ~file[i - 1].whole
    BY <2>1, <2>2 DEF Readable
  <2>4. i - 1 \in Broken /\ (i - 1) + 1 = i
    BY <2>2, <2>3 DEF Broken
  <2>5. after[i - 1] = Key(file[i])
    BY <2>3, <2>4
  <2>6. Key(file[i]) = a
    BY <2>1 DEF Key, FewInv
  <2> HIDE DEF after
  <2> QED
    BY <2>4, <2>5, <2>6
<1> HIDE DEF T
<1>5. /\ IsFiniteSet(MissedLines) /\ Cardinality(MissedLines) <= failures
      /\ Cardinality(MissedLines) \in Nat
  BY FS_CardinalityType DEF FewInv, MissedInv
<1>6. /\ IsFiniteSet(MissedLines \cup T)
      /\ Cardinality(MissedLines \cup T)
           = Cardinality(MissedLines) + Cardinality(T) - Cardinality(MissedLines \cap T)
  BY <1>3, <1>5, FS_Union
<1>7. Cardinality(MissedLines \cap T) \in Nat
  <2>1. IsFiniteSet(MissedLines \cap T)
    BY <1>5, FS_Subset
  <2> QED
    BY <2>1, FS_CardinalityType
<1>8. Cardinality(Lost) \in Nat /\ Cardinality(Lost) <= Cardinality(MissedLines \cup T)
  BY <1>4, <1>6, FS_Subset, FS_CardinalityType
<1>9. failures \in Nat /\ crashes \in Nat /\ Cardinality(Broken) <= failures + crashes
  BY DEF FewInv, BrokenInv
<1> QED
  BY <1>3, <1>5, <1>6, <1>7, <1>8, <1>9 DEF FewAreLost, IInv, AnswerInv

(* Through any crashes and restarts a file loses, of the records that      *)
(* Record has returned for, at most two for a failed write and one for a   *)
(* crash (jsonlRecorder.Record); an answer whose call is not recorded      *)
(* belongs to a stream under way, unless Shutdown gave up or the process   *)
(* was killed.                                                             *)
THEOREM FewRecordsAreLost == Spec => []FewAreLost
<1>1. Init => FewInv
  <2> SUFFICES ASSUME Init PROVE FewInv
    OBVIOUS
  <2>1. MissedLines = {} /\ Broken = {}
    BY DEF Init, MissedLines, Broken
  <2>2. MissedInv /\ BrokenInv
    BY <2>1, FS_EmptySet DEF Init, MissedInv, BrokenInv
  <2> QED
    BY <2>2 DEF Init, FewInv, WrittenInv
<1>2. IInv /\ FewInv /\ [Next]_vars => FewInv'
  <2>1. ASSUME IInv, FewInv, UNCHANGED vars PROVE FewInv'
    BY <2>1, QuietKeepsFew DEF vars, server, calls, disk, faults
  <2> QED
    BY <2>1, StepKeepsFew DEF Next, Step, CallStep, Done
<1>3. IInv /\ FewInv => FewAreLost
  BY FewFollows
<1> QED
  BY <1>1, <1>2, <1>3, Invariance, PTL DEF Spec
=============================================================================
