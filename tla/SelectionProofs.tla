--------------------------- MODULE SelectionProofs ---------------------------
(***************************************************************************)
(* Proofs about the specification that MCSelection checks, for any sets of *)
(* requests, fixtures, selectors, scripts and results.                     *)
(*                                                                         *)
(* The selector.wasm: OwnAnswer rests on the critical section.  The        *)
(* request that stands in it finds its own input when it calls, and its    *)
(* own answer when it copies; the answer it copies is that of the last     *)
(* call, which nobody has copied.                                          *)
(*                                                                         *)
(* The fixture selectors: what a request has seen so far decides its       *)
(* answer, and the counter of a sequence is the number of indices that the *)
(* sequence has handed out, whoever asked for them.                        *)
(*                                                                         *)
(* The generator: what a call holds is the beginning of what it can take,  *)
(* and what it has given back the rest, from the end.  The profile: every  *)
(* delay in use was accepted, every counter is the length of its history.  *)
(***************************************************************************)
EXTENDS MCSelection, SequenceTheorems, TLAPS

-----------------------------------------------------------------------------
(* The selector.wasm.                                                      *)

Memory == [input : Requests \cup {Nobody}, output : Requests \cup {Nobody}, k : Nat]
Output == [for : Requests \cup {Nobody}, k : Nat]
Result == [kind : {"none", "error", "no match", "fixture"}, id : Ids \cup {Nobody}]
Critical == {"write", "call", "copy", "parse"}

Shapes ==
  /\ script \in Seq(Outcomes)
  /\ mu \in Requests \cup {Nobody}
  /\ pc \in [Requests -> Critical \cup {"select", "done"}]
  /\ memory \in Memory
  /\ calls \in Nat /\ calls <= Len(script)
  /\ raw \in [Requests -> Output]
  /\ result \in [Requests -> Result]

Exclusive == \A r \in Requests : pc[r] \in Critical => mu = r

(* What the request in the critical section finds in the memory.           *)
InputOwn  == \A r \in Requests : pc[r] = "call" => memory.input = r
OutputOwn ==
  \A r \in Requests : pc[r] = "copy" =>
    /\ memory.output = r
    /\ \A s \in Requests : raw[s].k < memory.k

(* Answers that were copied are answers of calls.                          *)
CopiedEarlier ==
  /\ memory.k <= calls
  /\ \A r \in Requests : raw[r].k <= calls

IInv == Shapes /\ Exclusive /\ InputOwn /\ OutputOwn /\ CopiedEarlier /\ OwnAnswer

-----------------------------------------------------------------------------
(* Before the first request nothing is locked, written or copied.          *)
LEMMA InitIInv == Init => IInv
<1> SUFFICES ASSUME Init PROVE IInv
  OBVIOUS
<1>1. Shapes
  BY SelectorAssumption
  DEF Init, Shapes, Memory, Output, Result, NoOutput, NoResult, Critical
<1>2. Exclusive /\ InputOwn /\ OutputOwn
  BY DEF Init, Exclusive, InputOwn, OutputOwn, Critical
<1>3. CopiedEarlier /\ OwnAnswer
  BY DEF Init, CopiedEarlier, OwnAnswer, NoOutput
<1> QED
  BY <1>1, <1>2, <1>3 DEF IInv

(* The module's calls are counted up to the length of its script.          *)
LEMMA CallsCounted ==
  ASSUME IInv
  PROVE  Len(script) \in Nat /\ calls \in Nat /\ calls <= Len(script)
BY DEF IInv, Shapes

(* A number that is not above an earlier count is not above a later one.   *)
LEMMA LaterStill ==
  \A k, c, d \in Nat : k <= c /\ c <= d => k <= d
OBVIOUS

(* A step that does not call leaves the count within the script.           *)
LEMMA CallsKept ==
  ASSUME IInv, UNCHANGED calls
  PROVE  calls' \in Nat /\ calls <= calls' /\ calls' <= Len(script)
<1>1. Len(script) \in Nat
  BY CallsCounted
<1>2. calls \in Nat
  BY CallsCounted
<1>3. calls <= Len(script)
  BY CallsCounted
<1>4. calls <= calls'
  BY <1>2
<1> QED
  BY <1>2, <1>3, <1>4

(* A request that leaves the critical section lets go of the mutex and of  *)
(* nothing else.                                                           *)
LEMMA GiveKeeps ==
  ASSUME IInv, NEW r \in Requests, pc[r] \in Critical,
         NEW kind \in {"error", "no match", "fixture"}, NEW id \in Ids \cup {Nobody},
         Give(r, kind, id), UNCHANGED <<script, memory, raw>>,
         calls' \in Nat, calls <= calls', calls' <= Len(script)
  PROVE  IInv'
<1>1. mu = r /\ mu' = Nobody
  BY DEF IInv, Exclusive, Give
<1>2. Shapes'
  <2>1. calls' \in Nat /\ calls' <= Len(script') /\ script' \in Seq(Outcomes)
    BY DEF IInv, Shapes
  <2>2. pc' \in [Requests -> Critical \cup {"select", "done"}]
    BY DEF IInv, Shapes, Give
  <2>3. result' \in [Requests -> Result]
    BY DEF IInv, Shapes, Give, Result
  <2> QED
    BY <1>1, <2>1, <2>2, <2>3 DEF IInv, Shapes
<1>3. \A q \in Requests : pc'[q] \notin Critical
  BY <1>1 DEF IInv, Shapes, Exclusive, Give, Critical
<1>4. Exclusive' /\ InputOwn' /\ OutputOwn'
  BY <1>3 DEF Exclusive, InputOwn, OutputOwn, Critical
<1>5. CopiedEarlier' /\ OwnAnswer'
  <2>1. calls \in Nat /\ calls' \in Nat /\ calls <= calls'
    BY CallsCounted
  <2>2. memory.k \in Nat /\ \A q \in Requests : raw[q].k \in Nat
    BY DEF IInv, Shapes, Memory, Output
  <2>3. memory.k <= calls /\ \A q \in Requests : raw[q].k <= calls
    BY DEF IInv, CopiedEarlier
  <2>4. memory.k <= calls'
    BY <2>1, <2>2, <2>3, LaterStill
  <2>5. \A q \in Requests : raw[q].k <= calls'
    BY <2>1, <2>2, <2>3, LaterStill
  <2>6. OwnAnswer'
    BY DEF IInv, OwnAnswer
  <2> QED
    BY <2>4, <2>5, <2>6 DEF CopiedEarlier
<1> QED
  BY <1>2, <1>4, <1>5 DEF IInv

(* Lock: the newcomer is alone.                                            *)
LEMMA LockKeeps == ASSUME IInv, NEW r \in Requests, Lock(r) PROVE IInv'
<1>1. Shapes'
  BY DEF IInv, Shapes, Lock, Critical
<1>2. \A q \in Requests : q # r => pc'[q] \notin Critical
  BY SelectorAssumption DEF IInv, Shapes, Exclusive, Lock
<1>3. pc'[r] = "write" /\ mu' = r
  BY DEF IInv, Shapes, Lock
<1>4. Exclusive' /\ InputOwn' /\ OutputOwn'
  BY <1>2, <1>3 DEF Exclusive, InputOwn, OutputOwn, Critical
<1>5. CopiedEarlier' /\ OwnAnswer'
  BY DEF IInv, CopiedEarlier, OwnAnswer, Lock
<1> QED
  BY <1>1, <1>4, <1>5 DEF IInv

(* WriteInput: an input that fits is the one the call will find.           *)
LEMMA WriteInputKeeps == ASSUME IInv, NEW r \in Requests, WriteInput(r) PROVE IInv'
<1>1. CASE r \notin fits
  <2>1. Give(r, "error", Nobody) /\ UNCHANGED <<script, memory, raw, calls>> /\ pc[r] \in Critical
    BY <1>1 DEF WriteInput, Error, Critical
  <2> QED
    BY <2>1, CallsKept, GiveKeeps
<1>2. CASE r \in fits
  <2>1. memory' = [memory EXCEPT !.input = r] /\ pc' = [pc EXCEPT ![r] = "call"]
        /\ UNCHANGED <<script, mu, calls, raw, result>>
    BY <1>2 DEF WriteInput, Goto
  <2>2. Shapes'
    BY <2>1 DEF IInv, Shapes, Memory, Critical
  <2>3. memory'.input = r /\ memory'.output = memory.output /\ memory'.k = memory.k
    BY <2>1 DEF IInv, Shapes, Memory
  <2>4. mu = r /\ \A q \in Requests : q # r => pc[q] \notin Critical
    BY DEF IInv, Exclusive, WriteInput, Critical
  <2>5. pc'[r] = "call" /\ \A q \in Requests : q # r => pc'[q] = pc[q]
    BY <2>1 DEF IInv, Shapes
  <2>6. Exclusive' /\ InputOwn' /\ OutputOwn'
    BY <2>1, <2>3, <2>4, <2>5 DEF Exclusive, InputOwn, OutputOwn, Critical
  <2>7. CopiedEarlier' /\ OwnAnswer'
    BY <2>1, <2>3 DEF IInv, CopiedEarlier, OwnAnswer
  <2> QED
    BY <2>2, <2>6, <2>7 DEF IInv
<1> QED
  BY <1>1, <1>2

(* Call: the answer that is in the memory now is newer than any copied.    *)
LEMMA CallKeeps == ASSUME IInv, NEW r \in Requests, Call(r) PROVE IInv'
<1> DEFINE scripted == script[calls + 1]
<1>1. calls' = calls + 1 /\ calls' \in Nat /\ calls <= calls' /\ calls' <= Len(script) /\ script' = script
  <2>1. Len(script) \in Nat
    BY CallsCounted
  <2>2. calls \in Nat
    BY CallsCounted
  <2>3. calls < Len(script) /\ calls' = calls + 1 /\ script' = script
    BY DEF Call
  <2>4. calls' \in Nat
    BY <2>2, <2>3
  <2>5. calls <= calls'
    BY <2>2, <2>3
  <2>6. calls' <= Len(script)
    BY <2>1, <2>2, <2>3
  <2> QED
    BY <2>3, <2>4, <2>5, <2>6
<1>2. CASE scripted \in {"traps", "arity"}
  BY <1>1, <1>2, GiveKeeps DEF Call, Error, Critical
<1>3. CASE scripted = "nothing"
  BY <1>1, <1>3, GiveKeeps DEF Call, Critical
<1>4. CASE scripted \notin {"traps", "arity", "nothing"}
  <2>1. /\ memory' = [memory EXCEPT !.output = memory.input, !.k = calls + 1]
        /\ pc' = [pc EXCEPT ![r] = "copy"] /\ UNCHANGED <<mu, raw, result>>
    BY <1>4 DEF Call, Goto
  <2>2. memory.input = r /\ mu = r
    BY DEF IInv, InputOwn, Exclusive, Call, Critical
  <2>3. Shapes'
    <3>1. calls' \in Nat /\ calls' <= Len(script') /\ calls + 1 \in Nat
      BY <1>1, CallsCounted
    <3>2. memory' \in Memory
      BY <2>1, <3>1 DEF IInv, Shapes, Memory
    <3>3. pc' \in [Requests -> Critical \cup {"select", "done"}]
      BY <2>1 DEF IInv, Shapes, Critical
    <3> QED
      BY <1>1, <2>1, <3>1, <3>2, <3>3 DEF IInv, Shapes
  <2>4. memory'.output = r /\ memory'.k = calls + 1
    BY <2>1, <2>2 DEF IInv, Shapes, Memory
  <2>5. pc'[r] = "copy" /\ \A q \in Requests : q # r => pc'[q] = pc[q] /\ pc[q] \notin Critical
    BY <2>1, <2>2 DEF IInv, Shapes, Exclusive
  <2>6. \A s \in Requests : raw[s].k < calls + 1 /\ raw[s].k <= calls + 1
    BY DEF IInv, Shapes, CopiedEarlier, Output
  <2>7. Exclusive' /\ InputOwn' /\ OutputOwn'
    BY <2>1, <2>2, <2>4, <2>5, <2>6 DEF Exclusive, InputOwn, OutputOwn, Critical
  <2>8. CopiedEarlier' /\ OwnAnswer'
    BY <1>1, <2>1, <2>4, <2>6 DEF IInv, Shapes, CopiedEarlier, OwnAnswer
  <2> QED
    BY <2>3, <2>7, <2>8 DEF IInv
<1> QED
  BY <1>2, <1>3, <1>4

(* CopyOut: what is copied is the request's own, and copied once.          *)
LEMMA CopyOutKeeps == ASSUME IInv, NEW r \in Requests, CopyOut(r) PROVE IInv'
<1>1. CASE script[memory.k] = "outside"
  <2>1. Give(r, "error", Nobody) /\ UNCHANGED <<script, memory, raw, calls>> /\ pc[r] \in Critical
    BY <1>1 DEF CopyOut, Error, Critical
  <2> QED
    BY <2>1, CallsKept, GiveKeeps
<1>2. CASE script[memory.k] # "outside"
  <2>1. /\ raw' = [raw EXCEPT ![r] = [for |-> memory.output, k |-> memory.k]]
        /\ pc' = [pc EXCEPT ![r] = "parse"] /\ UNCHANGED <<script, mu, memory, calls, result>>
    BY <1>2 DEF CopyOut, Goto
  <2>2. memory.output = r /\ mu = r /\ \A s \in Requests : raw[s].k < memory.k
    BY DEF IInv, OutputOwn, Exclusive, CopyOut, Critical
  <2>3. Shapes'
    BY <2>1 DEF IInv, Shapes, Memory, Output, Critical
  <2>4. raw'[r] = [for |-> r, k |-> memory.k] /\ \A q \in Requests : q # r => raw'[q] = raw[q]
    BY <2>1, <2>2 DEF IInv, Shapes
  <2>5. pc'[r] = "parse" /\ \A q \in Requests : q # r => pc'[q] = pc[q] /\ pc[q] \notin Critical
    BY <2>1, <2>2 DEF IInv, Shapes, Exclusive
  <2>6. Exclusive' /\ InputOwn' /\ OutputOwn'
    BY <2>1, <2>2, <2>5 DEF Exclusive, InputOwn, OutputOwn, Critical
  <2>7. CopiedEarlier'
    BY <2>1, <2>4 DEF IInv, CopiedEarlier
  <2>8. \A q \in Requests : raw'[q].for \in {q, Nobody}
    BY <2>4 DEF IInv, OwnAnswer
  <2>9. \A q, s \in Requests : q # s /\ raw'[q].k # 0 => raw'[q].k # raw'[s].k
    <3> SUFFICES ASSUME NEW q \in Requests, NEW s \in Requests, q # s, raw'[q].k # 0
                 PROVE  raw'[q].k # raw'[s].k
      OBVIOUS
    <3>1. raw[q].k \in Nat /\ raw[s].k \in Nat /\ memory.k \in Nat
      BY DEF IInv, Shapes, Output, Memory
    <3>2. CASE q = r
      BY <2>2, <2>4, <3>1, <3>2
    <3>3. CASE s = r
      BY <2>2, <2>4, <3>1, <3>3
    <3>4. CASE q # r /\ s # r
      BY <2>4, <3>4 DEF IInv, OwnAnswer
    <3> QED
      BY <3>2, <3>3, <3>4
  <2>10. OwnAnswer'
    BY <2>8, <2>9 DEF OwnAnswer
  <2> QED
    BY <2>3, <2>6, <2>7, <2>10 DEF IInv
<1> QED
  BY <1>1, <1>2

(* Parse: the end of every call that had an answer.                        *)
LEMMA ParseKeeps == ASSUME IInv, NEW r \in Requests, Parse(r) PROVE IInv'
<1>1. pc[r] \in Critical /\ UNCHANGED <<script, memory, raw, calls>>
  BY DEF Parse, Critical
<1> DEFINE id == script[raw[r].k]
<1>2. CASE id = "null"
  BY <1>1, <1>2, CallsKept, GiveKeeps DEF Parse
<1>3. CASE id # "null" /\ id \in Ids
  BY <1>1, <1>3, CallsKept, GiveKeeps DEF Parse
<1>4. CASE id # "null" /\ id \notin Ids
  BY <1>1, <1>4, CallsKept, GiveKeeps DEF Parse, Error
<1> QED
  BY <1>2, <1>3, <1>4

(* Every step keeps the invariant.                                         *)
LEMMA NextIInv == IInv /\ [Next]_vars => IInv'
<1> SUFFICES ASSUME IInv, [Next]_vars PROVE IInv'
  OBVIOUS
<1>1. CASE \E r \in Requests : Select(r)
  BY <1>1, LockKeeps, WriteInputKeeps, CallKeeps, CopyOutKeeps, ParseKeeps DEF Select
<1>2. CASE UNCHANGED vars
  BY <1>2
  DEF vars, IInv, Shapes, Exclusive, InputOwn, OutputOwn, CopiedEarlier, OwnAnswer
<1> QED
  BY <1>1, <1>2 DEF Next, Done

-----------------------------------------------------------------------------
(* The fixture selectors.                                                  *)

Matchers == [fixtures : FixtureSets, selector : Selectors]
Fields   == {"pc", "route", "matcher", "candidates", "next", "seen", "best", "result"}
Marks    == {"matched", "absent", "failed", "unmatched", "spent"}
Chosen(q)  == q.matcher.selector
Answers(q) == q.pc # "idle" /\ q.candidates # <<>>

(* What a request has seen of its selector's entries: none that matched,   *)
(* until one did.                                                          *)
YamlSeen(q) ==
  /\ q.seen \in Seq(Marks)
  /\ q.next = Len(q.seen) + 1
  /\ Len(q.seen) <= Len(Chosen(q).entries)
  /\ \A i \in 1..Len(q.seen) : q.seen[i] = "spent" => Chosen(q).entries[i].onExhaust = "fallthrough"
  /\ \A i \in 1..Len(q.seen) - 1 : q.seen[i] # "matched"
  /\ q.pc = "select" => \A i \in 1..Len(q.seen) : q.seen[i] # "matched"
  /\ q.pc = "done" /\ q.result = Fixtures!Nothing =>
       Len(q.seen) = Len(Chosen(q).entries) /\ \A i \in 1..Len(q.seen) : q.seen[i] # "matched"

(* What it has seen of its candidates: best is the first of the best.      *)
FirstBest(seen, best) ==
  IF best = 0 THEN \A i \in 1..Len(seen) : seen[i] < 0
  ELSE /\ seen[best] >= 0
       /\ \A j \in 1..Len(seen) : seen[j] <= seen[best] /\ (j < best => seen[j] < seen[best])
LegacySeen(q) ==
  /\ q.seen \in Seq(Fixtures!Scores)
  /\ q.next = Len(q.seen) + 1
  /\ q.best \in 0..Len(q.seen)
  /\ FirstBest(q.seen, q.best)
  /\ q.pc = "done" =>
       q.result = IF q.best = 0 THEN Fixtures!Nothing ELSE Fixtures!Found(q.candidates[q.best].id)

RequestInv(q) ==
  /\ DOMAIN q = Fields
  /\ q.pc \in {"idle", "select", "done"}
  /\ q.pc = "select" => q.candidates # <<>>
  /\ Answers(q) /\ Chosen(q).kind = "fixtures.yaml" => YamlSeen(q)
  /\ Answers(q) /\ Chosen(q).kind = "legacy" => LegacySeen(q)

RequestsInv == DOMAIN req = Requests /\ \A r \in Requests : RequestInv(req[r])
MatcherInv  == matcher \in installed /\ installed \subseteq Matchers
LogInv      == logs \in Seq(warned) /\ Fixtures!WarnOnce

(* A counter is what its sequence has handed out, up to the last step.     *)
CounterInv(k) ==
  counters[k] = IF Exhausts[k] = "cycle" \/ Len(handed[k]) < Totals[k]
                  THEN Len(handed[k]) ELSE Totals[k]
CountersInv ==
  /\ counters \in [Keys -> Nat]
  /\ handed \in [Keys -> Seq(Int)]
  /\ \A k \in Keys : CounterInv(k)

FixtureInv == MatcherInv /\ OneGeneration /\ RequestsInv /\ LogInv /\ CountersInv

-----------------------------------------------------------------------------
(* The scripts.                                                            *)

(* A sequence entry of a selector has the script that EntryOf gives its    *)
(* key, though selectors may share the key.                                *)
LEMMA ScriptsAgree ==
  ASSUME NEW s \in Selectors, NEW i \in DOMAIN s.entries, Fixtures!IsSequence(s.entries[i])
  PROVE  LET e == s.entries[i] k == Fixtures!Key(s, e) IN
         /\ k \in Keys
         /\ Totals[k] = Len(e.steps) /\ Exhausts[k] = e.onExhaust
<1> DEFINE e == s.entries[i]
           k == Fixtures!Key(s, e)
           P(x) == \E t \in Selectors : x \in Fixtures!Sequences(t) /\ Fixtures!Key(t, x) = k
           x0 == CHOOSE x \in Fixtures!Entries : P(x)
<1>1. e \in Fixtures!Sequences(s)
  BY DEF Fixtures!Sequences
<1>2. k \in Keys
  BY <1>1 DEF Keys, Fixtures!Keys
<1>3. e \in Fixtures!Entries
  BY DEF Fixtures!Entries
<1>4. P(x0)
  <2>1. \E x \in Fixtures!Entries : P(x)
    BY <1>1, <1>3
  <2> HIDE DEF P
  <2> QED
    BY <2>1
<1>5. Fixtures!EntryOf[k] = x0
  BY <1>2 DEF Fixtures!EntryOf, Keys
<1> HIDE DEF x0
<1>6. PICK t \in Selectors : x0 \in Fixtures!Sequences(t) /\ Fixtures!Key(t, x0) = k
  BY <1>4
<1>7. PICK j \in DOMAIN t.entries : x0 = t.entries[j] /\ Fixtures!IsSequence(x0)
  BY <1>6 DEF Fixtures!Sequences
<1>8. e.steps = x0.steps /\ e.onExhaust = x0.onExhaust
  BY <1>6, <1>7, SelectorsMeet DEF Fixtures!SelectorsOK
<1> QED
  BY <1>2, <1>5, <1>8 DEF Totals, Exhausts, Fixtures!Totals, Fixtures!Exhausts, Keys

(* Every script has a step and a policy.                                   *)
LEMMA ScriptsHaveSteps ==
  \A k \in Keys : Totals[k] \in Nat \ {0} /\ Exhausts[k] \in Fixtures!Policies
<1> SUFFICES ASSUME NEW k \in Keys
             PROVE  Totals[k] \in Nat \ {0} /\ Exhausts[k] \in Fixtures!Policies
  OBVIOUS
<1>1. PICK s \in Selectors : \E e \in Fixtures!Sequences(s) : Fixtures!Key(s, e) = k
  BY DEF Keys, Fixtures!Keys
<1>2. PICK i \in DOMAIN s.entries : Fixtures!IsSequence(s.entries[i])
                                    /\ Fixtures!Key(s, s.entries[i]) = k
  BY <1>1 DEF Fixtures!Sequences
<1>3. Totals[k] = Len(s.entries[i].steps) /\ Exhausts[k] = s.entries[i].onExhaust
  BY <1>2, ScriptsAgree
<1>4. Len(s.entries[i].steps) \in Nat \ {0} /\ s.entries[i].onExhaust \in Fixtures!Policies
  BY <1>2, SelectorsMeet DEF Fixtures!SelectorsOK
<1> QED
  BY <1>3, <1>4

-----------------------------------------------------------------------------
(* The first matcher is the only one, and nobody has asked for anything.   *)
LEMMA InitFixtureInv == Fixtures!Init => FixtureInv
<1> SUFFICES ASSUME Fixtures!Init PROVE FixtureInv
  OBVIOUS
<1>1. MatcherInv
  BY DEF Fixtures!Init, MatcherInv, Matchers
<1>2. \A r \in Requests : req[r].pc = "idle" /\ DOMAIN req[r] = Fields
  BY DEF Fixtures!Init, Fixtures!Idle, Fields
<1>3. OneGeneration
  BY <1>2 DEF OneGeneration, Fixtures!OneGeneration
<1>4. RequestsInv
  <2>1. DOMAIN req = Requests
    BY DEF Fixtures!Init
  <2> QED
    BY <1>2, <2>1 DEF RequestsInv, RequestInv, Answers
<1>5. LogInv
  BY DEF Fixtures!Init, LogInv, Fixtures!WarnOnce
<1>6. CountersInv
  <2>1. counters = [k \in Keys |-> 0] /\ handed = [k \in Keys |-> <<>>]
    BY DEF Fixtures!Init, Keys
  <2>2. counters \in [Keys -> Nat] /\ handed \in [Keys -> Seq(Int)]
    BY <2>1
  <2>3. \A k \in Keys : counters[k] = 0 /\ Len(handed[k]) = 0
    BY <2>1
  <2>4. \A k \in Keys : Totals[k] \in Nat \ {0}
    BY ScriptsHaveSteps
  <2> QED
    BY <2>2, <2>3, <2>4 DEF CountersInv, CounterInv
<1> QED
  BY <1>1, <1>3, <1>4, <1>5, <1>6 DEF FixtureInv


-----------------------------------------------------------------------------
(* One request goes on.                                                    *)

Advance(q, q1, what, pc1, res) ==
  /\ DOMAIN q1 = DOMAIN q
  /\ q1.matcher = q.matcher /\ q1.candidates = q.candidates
  /\ q1.next = q.next + 1 /\ q1.seen = Append(q.seen, what)
  /\ q1.pc = pc1 /\ q1.result = res

(* A step of one request leaves the others as they are.                    *)
Only(r) == DOMAIN req' = DOMAIN req /\ \A s \in Requests \ {r} : req'[s] = req[s]

(* Passing an entry over only notes it.                                    *)
LEMMA SkipAdvances ==
  ASSUME RequestsInv, NEW r \in Requests, NEW what, Fixtures!Skip(r, what)
  PROVE  Only(r) /\ Advance(req[r], req'[r], what, req[r].pc, req[r].result)
<1> DEFINE q == req[r]
           q1 == [q EXCEPT !.next = @ + 1, !.seen = Append(@, what)]
<1>1. DOMAIN q = Fields /\ DOMAIN req = Requests
  BY DEF RequestsInv, RequestInv
<1>2. req' = [req EXCEPT ![r] = q1]
  BY DEF Fixtures!Skip, Fixtures!Saw
<1>3. Only(r) /\ req'[r] = q1
  BY <1>1, <1>2 DEF Only
<1>4. Advance(q, q1, what, q.pc, q.result)
  BY <1>1 DEF Advance, Fields
<1> QED
  BY <1>3, <1>4

(* Selecting an entry notes it and ends the selection.                     *)
LEMMA SelectAdvances ==
  ASSUME RequestsInv, NEW r \in Requests, NEW what, NEW res, Fixtures!Select(r, what, res)
  PROVE  Only(r) /\ Advance(req[r], req'[r], what, "done", res)
<1> DEFINE q == req[r]
           q1 == [q EXCEPT !.next = @ + 1, !.seen = Append(@, what)]
           q2 == [q1 EXCEPT !.pc = "done", !.result = res]
<1>1. DOMAIN q = Fields /\ DOMAIN req = Requests
  BY DEF RequestsInv, RequestInv
<1>2. req' = [req EXCEPT ![r] = q2]
  BY DEF Fixtures!Select, Fixtures!Saw
<1>3. Only(r) /\ req'[r] = q2
  BY <1>1, <1>2 DEF Only
<1>4. Advance(q, q1, what, q.pc, q.result)
  BY <1>1 DEF Advance, Fields
<1>5. DOMAIN q1 = Fields
  BY <1>1
<1> HIDE DEF q1
<1>6. Advance(q, q2, what, "done", res)
  BY <1>1, <1>4, <1>5 DEF Advance, Fields
<1> QED
  BY <1>3, <1>6

(* The selectors have their types.                                         *)
LEMMA ChosenTypes ==
  ASSUME FixtureInv, NEW r \in Requests, req[r].pc # "idle"
  PROVE  /\ req[r].matcher \in installed /\ Chosen(req[r]) \in Selectors
         /\ Chosen(req[r]).entries \in Seq(Fixtures!Entries)
<1>1. req[r].matcher \in installed
  BY DEF FixtureInv, OneGeneration, Fixtures!OneGeneration
<1>2. Chosen(req[r]) \in Selectors
  BY <1>1 DEF FixtureInv, MatcherInv, Matchers, Chosen
<1> QED
  BY <1>1, <1>2, SelectorsMeet DEF Fixtures!SelectorsOK

(* At an entry, the request is in the middle of the entries.               *)
LEMMA EntryTypes ==
  ASSUME FixtureInv, NEW r \in Requests, Fixtures!AtEntry(r)
  PROVE  /\ req[r].pc = "select" /\ Answers(req[r]) /\ Chosen(req[r]).kind = "fixtures.yaml"
         /\ YamlSeen(req[r])
         /\ Chosen(req[r]) \in Selectors /\ Chosen(req[r]) = Fixtures!Selector(r)
         /\ req[r].next \in DOMAIN Chosen(req[r]).entries
         /\ Fixtures!Entry(r) = Chosen(req[r]).entries[req[r].next]
<1>1. req[r].pc = "select" /\ Chosen(req[r]) = Fixtures!Selector(r)
      /\ Chosen(req[r]).kind = "fixtures.yaml" /\ req[r].next <= Len(Chosen(req[r]).entries)
  BY DEF Fixtures!AtEntry, Fixtures!Selector, Chosen
<1>2. RequestInv(req[r])
  BY DEF FixtureInv, RequestsInv
<1>3. Answers(req[r])
  BY <1>1, <1>2 DEF RequestInv, Answers
<1>4. YamlSeen(req[r])
  BY <1>1, <1>2, <1>3 DEF RequestInv
<1>5. Chosen(req[r]) \in Selectors /\ Chosen(req[r]).entries \in Seq(Fixtures!Entries)
  BY <1>1, ChosenTypes
<1>6. req[r].next \in DOMAIN Chosen(req[r]).entries
  BY <1>1, <1>4, <1>5 DEF YamlSeen
<1>7. Fixtures!Entry(r) = Chosen(req[r]).entries[req[r].next]
  BY <1>1 DEF Fixtures!Entry
<1> QED
  BY <1>1, <1>3, <1>4, <1>5, <1>6, <1>7

(* What is seen of one more entry.                                         *)
LEMMA YamlAdvances ==
  ASSUME NEW q, NEW q1, NEW what \in Marks, NEW pc1 \in {"select", "done"}, NEW res,
         RequestInv(q), YamlSeen(q), Chosen(q).kind = "fixtures.yaml", q.pc = "select",
         q.next \in DOMAIN Chosen(q).entries, Chosen(q).entries \in Seq(Fixtures!Entries),
         Advance(q, q1, what, pc1, res),
         pc1 = "select" => what # "matched",
         pc1 = "done" => res # Fixtures!Nothing,
         what = "spent" => Chosen(q).entries[q.next].onExhaust = "fallthrough"
  PROVE  RequestInv(q1)
<1> DEFINE n == Len(q.seen)
<1>1. q.seen \in Seq(Marks) /\ n \in Nat /\ q.next = n + 1 /\ n + 1 <= Len(Chosen(q).entries)
  BY DEF YamlSeen
<1>2. Chosen(q1) = Chosen(q) /\ q1.candidates = q.candidates /\ q1.pc = pc1 /\ q1.result = res
  BY DEF Advance, Chosen
<1>3. q1.seen \in Seq(Marks) /\ Len(q1.seen) = n + 1 /\ q1.next = n + 2
  BY <1>1 DEF Advance
<1>4. q1.seen[n + 1] = what /\ \A i \in 1..n : q1.seen[i] = q.seen[i]
  BY <1>1 DEF Advance
<1>5. \A i \in 1..n : q.seen[i] # "matched"
        /\ (q.seen[i] = "spent" => Chosen(q).entries[i].onExhaust = "fallthrough")
  BY DEF YamlSeen
<1> HIDE DEF n
<1>6. \A i \in 1..n + 1 : q1.seen[i] = "spent" => Chosen(q1).entries[i].onExhaust = "fallthrough"
  <2> SUFFICES ASSUME NEW i \in 1..n + 1, q1.seen[i] = "spent"
               PROVE  Chosen(q).entries[i].onExhaust = "fallthrough"
    BY <1>2
  <2>1. CASE i = n + 1
    BY <1>1, <1>4, <2>1
  <2>2. CASE i \in 1..n
    BY <1>4, <1>5, <2>2
  <2> QED
    BY <1>1, <2>1, <2>2
<1>7. \A i \in 1..n : q1.seen[i] # "matched"
  BY <1>4, <1>5
<1>8. pc1 = "select" => \A i \in 1..n + 1 : q1.seen[i] # "matched"
  <2> SUFFICES ASSUME pc1 = "select", NEW i \in 1..n + 1 PROVE q1.seen[i] # "matched"
    OBVIOUS
  <2>1. CASE i = n + 1
    BY <1>4, <2>1
  <2>2. CASE i \in 1..n
    BY <1>7, <2>2
  <2> QED
    BY <1>1, <2>1, <2>2
<1>9. YamlSeen(q1)
  <2>1. (n + 1) - 1 = n /\ q1.next = (n + 1) + 1
    BY <1>1, <1>3
  <2> QED
    BY <1>1, <1>2, <1>3, <1>6, <1>7, <1>8, <2>1 DEF YamlSeen
<1>10. DOMAIN q1 = Fields /\ q1.candidates # <<>> /\ q1.pc \in {"select", "done"}
  BY <1>2 DEF RequestInv, Advance
<1> QED
  BY <1>2, <1>9, <1>10 DEF RequestInv

(* A request that goes on keeps its matcher and disturbs no other.         *)
LEMMA RequestKeeps ==
  ASSUME FixtureInv, NEW r \in Requests, Only(r), UNCHANGED <<matcher, installed>>,
         RequestInv(req'[r]), req'[r].matcher \in installed
  PROVE  MatcherInv' /\ OneGeneration' /\ RequestsInv'
<1>1. MatcherInv'
  BY DEF FixtureInv, MatcherInv
<1>2. OneGeneration'
  BY DEF FixtureInv, OneGeneration, Fixtures!OneGeneration, Only
<1>3. RequestsInv'
  <2>1. DOMAIN req' = Requests
    BY DEF FixtureInv, RequestsInv, Only
  <2>2. \A s \in Requests : RequestInv(req'[s])
    BY DEF FixtureInv, RequestsInv, Only
  <2> QED
    BY <2>1, <2>2 DEF RequestsInv
<1> QED
  BY <1>1, <1>2, <1>3

(* An entry is passed over.                                                *)
LEMMA SkipKeeps ==
  ASSUME FixtureInv, NEW r \in Requests, Fixtures!AtEntry(r), UNCHANGED <<matcher, installed>>,
         NEW what \in Marks \ {"matched"}, Fixtures!Skip(r, what),
         what = "spent" => Fixtures!Entry(r).onExhaust = "fallthrough"
  PROVE  MatcherInv' /\ OneGeneration' /\ RequestsInv'
<1> DEFINE q == req[r]
<1>1. RequestInv(q) /\ RequestsInv
  BY DEF FixtureInv, RequestsInv
<1>2. Only(r) /\ Advance(q, req'[r], what, q.pc, q.result)
  BY <1>1, SkipAdvances
<1>3. q.pc = "select" /\ YamlSeen(q) /\ q.next \in DOMAIN Chosen(q).entries
      /\ Chosen(q).kind = "fixtures.yaml" /\ Fixtures!Entry(r) = Chosen(q).entries[q.next]
  BY EntryTypes
<1>4. q.matcher \in installed /\ Chosen(q).entries \in Seq(Fixtures!Entries)
  BY <1>3, ChosenTypes
<1>5. RequestInv(req'[r])
  BY <1>1, <1>2, <1>3, <1>4, YamlAdvances
<1>6. req'[r].matcher \in installed
  BY <1>2, <1>4 DEF Advance
<1> QED
  BY <1>2, <1>5, <1>6, RequestKeeps

(* An entry is selected.                                                   *)
LEMMA SelectKeeps ==
  ASSUME FixtureInv, NEW r \in Requests, Fixtures!AtEntry(r), UNCHANGED <<matcher, installed>>,
         NEW res, res # Fixtures!Nothing, Fixtures!Select(r, "matched", res)
  PROVE  MatcherInv' /\ OneGeneration' /\ RequestsInv'
<1> DEFINE q == req[r]
<1>1. RequestInv(q) /\ RequestsInv
  BY DEF FixtureInv, RequestsInv
<1>2. Only(r) /\ Advance(q, req'[r], "matched", "done", res)
  BY <1>1, SelectAdvances
<1>3. q.pc = "select" /\ YamlSeen(q) /\ q.next \in DOMAIN Chosen(q).entries
      /\ Chosen(q).kind = "fixtures.yaml"
  BY EntryTypes
<1>4. q.matcher \in installed /\ Chosen(q).entries \in Seq(Fixtures!Entries)
  BY <1>3, ChosenTypes
<1>5. RequestInv(req'[r])
  BY <1>1, <1>2, <1>3, <1>4, YamlAdvances DEF Marks
<1>6. req'[r].matcher \in installed
  BY <1>2, <1>4 DEF Advance
<1> QED
  BY <1>2, <1>5, <1>6, RequestKeeps

(* An entry names a fixture, which is served or passed over.               *)
LEMMA ServeKeeps ==
  ASSUME FixtureInv, NEW r \in Requests, Fixtures!AtEntry(r), UNCHANGED <<matcher, installed>>,
         NEW id, Fixtures!Serve(r, id)
  PROVE  MatcherInv' /\ OneGeneration' /\ RequestsInv'
<1>1. CASE Fixtures!Select(r, "matched", Fixtures!Found(id))
  <2>1. Fixtures!Found(id) # Fixtures!Nothing
    BY DEF Fixtures!Found, Fixtures!Nothing
  <2> QED
    BY <1>1, <2>1, SelectKeeps
<1>2. CASE Fixtures!Skip(r, "absent")
  BY <1>2, SkipKeeps DEF Marks
<1> QED
  BY <1>1, <1>2 DEF Fixtures!Serve

(* warnEntry: what is logged was not logged before.                        *)
LEMMA WarnKeeps ==
  ASSUME FixtureInv, NEW r \in Requests, Fixtures!warnEntry(r) PROVE FixtureInv'
<1>1. MatcherInv' /\ OneGeneration' /\ RequestsInv'
  BY SkipKeeps DEF Fixtures!warnEntry, Marks
<1>2. LogInv'
  <2> DEFINE w == <<Fixtures!Selector(r), req[r].next>>
  <2>1. warned' = warned \cup {w} /\ logs' = IF w \in warned THEN logs ELSE Append(logs, w)
    BY DEF Fixtures!warnEntry
  <2>2. logs \in Seq(warned) /\ \A i, j \in DOMAIN logs : i # j => logs[i] # logs[j]
    BY DEF FixtureInv, LogInv, Fixtures!WarnOnce
  <2> HIDE DEF w
  <2>3. logs \in Seq(warned') /\ w \in warned'
    BY <2>1, <2>2
  <2>4. logs' \in Seq(warned')
    BY <2>1, <2>3
  <2>5. \A i, j \in DOMAIN logs' : i # j => logs'[i] # logs'[j]
    <3>1. CASE w \in warned
      BY <2>1, <2>2, <3>1
    <3>2. CASE w \notin warned
      <4>1. \A i \in 1..Len(logs) : logs'[i] = logs[i] /\ logs[i] \in warned
        BY <2>1, <2>2, <3>2
      <4>2. logs'[Len(logs) + 1] = w /\ DOMAIN logs' = 1..Len(logs) + 1 /\ Len(logs) \in Nat
        BY <2>1, <2>2, <3>2
      <4>3. DOMAIN logs = 1..Len(logs)
        BY <2>2
      <4> QED
        BY <2>2, <3>2, <4>1, <4>2, <4>3
    <3> QED
      BY <3>1, <3>2
  <2> QED
    BY <2>4, <2>5 DEF LogInv, Fixtures!WarnOnce
<1>3. CountersInv'
  BY DEF FixtureInv, CountersInv, CounterInv, Fixtures!warnEntry
<1> QED
  BY <1>1, <1>2, <1>3 DEF FixtureInv

(* NoMatch, SingleMatch: neither logs nor counts.                          *)
LEMMA QuietKeeps ==
  ASSUME FixtureInv, UNCHANGED <<warned, logs, counters, handed>> PROVE LogInv' /\ CountersInv'
<1>1. LogInv'
  BY DEF FixtureInv, LogInv, Fixtures!WarnOnce
<1>2. CountersInv'
  BY DEF FixtureInv, CountersInv, CounterInv
<1> QED
  BY <1>1, <1>2

(* NoMatch passes over its entry.                                          *)
LEMMA NoMatchKeeps ==
  ASSUME FixtureInv, NEW r \in Requests, Fixtures!NoMatch(r) PROVE FixtureInv'
<1>1. MatcherInv' /\ OneGeneration' /\ RequestsInv'
  BY SkipKeeps DEF Fixtures!NoMatch, Marks
<1> QED
  BY <1>1, QuietKeeps DEF Fixtures!NoMatch, FixtureInv

(* SingleMatch serves its entry's fixture.                                 *)
LEMMA SingleMatchKeeps ==
  ASSUME FixtureInv, NEW r \in Requests, Fixtures!SingleMatch(r) PROVE FixtureInv'
<1>1. MatcherInv' /\ OneGeneration' /\ RequestsInv'
  BY ServeKeeps DEF Fixtures!SingleMatch
<1> QED
  BY <1>1, QuietKeeps DEF Fixtures!SingleMatch, FixtureInv

(* The counter and the script agree on the next index.                     *)
LEMMA CountersAgree ==
  ASSUME CountersInv, NEW k \in Keys
  PROVE  LET h == Len(handed[k]) n == counters[k] IN
         /\ n \in Nat /\ h \in Nat /\ Totals[k] \in Nat \ {0}
         /\ n < Totals[k] <=> h < Totals[k]
         /\ n < Totals[k] => n = h
         /\ Exhausts[k] = "cycle" => n = h
<1>1. counters[k] \in Nat /\ Len(handed[k]) \in Nat /\ CounterInv(k)
  BY DEF CountersInv
<1>2. Totals[k] \in Nat \ {0}
  BY ScriptsHaveSteps
<1> QED
  BY <1>1, <1>2 DEF CounterInv

(* Counter k moves on with what is handed out of k, by one index or none.  *)
LEMMA CountKeeps ==
  ASSUME CountersInv, NEW k \in Keys, NEW n1 \in Nat, NEW h1 \in Seq(Int),
         counters' = [counters EXCEPT ![k] = n1], handed' = [handed EXCEPT ![k] = h1],
         n1 = IF Exhausts[k] = "cycle" \/ Len(h1) < Totals[k] THEN Len(h1) ELSE Totals[k]
  PROVE  CountersInv'
<1>1. counters \in [Keys -> Nat] /\ handed \in [Keys -> Seq(Int)]
  BY DEF CountersInv
<1>2. counters' \in [Keys -> Nat] /\ handed' \in [Keys -> Seq(Int)]
  BY <1>1
<1>3. ASSUME NEW j \in Keys PROVE CounterInv(j)'
  <2>1. CASE j = k
    BY <1>1, <2>1 DEF CounterInv
  <2>2. CASE j # k
    <3>1. counters'[j] = counters[j] /\ handed'[j] = handed[j]
      BY <1>1, <2>2
    <3> QED
      BY <3>1 DEF CountersInv, CounterInv
  <2> QED
    BY <2>1, <2>2
<1> QED
  BY <1>2, <1>3 DEF CountersInv

(* A step of a sequence is the one its script prescribes next.             *)
LEMMA CounterHandsOut ==
  ASSUME CountersInv, NEW k \in Keys, NEW e,
         Totals[k] = Len(e.steps), Exhausts[k] = e.onExhaust, Fixtures!HasStep(e, counters[k]),
         counters' = [counters EXCEPT ![k] = Fixtures!Advanced(e, counters[k])],
         handed' = [handed EXCEPT ![k] = Append(@, Fixtures!StepIndex(e, counters[k]))]
  PROVE  CountersInv' /\ Script!HandOut(k)
<1> DEFINE n == counters[k]
           h == Len(handed[k])
           T == Totals[k]
           x == Fixtures!StepIndex(e, n)
           n1 == Fixtures!Advanced(e, n)
           h1 == Append(handed[k], x)
<1>1. n \in Nat /\ h \in Nat /\ T \in Nat \ {0} /\ (n < T <=> h < T) /\ (n < T => n = h)
      /\ (Exhausts[k] = "cycle" => n = h)
  BY CountersAgree
<1>2. n1 = IF n < T \/ Exhausts[k] = "cycle" THEN n + 1 ELSE n
  BY DEF Fixtures!Advanced
<1>3. x = IF n < T THEN n ELSE IF Exhausts[k] = "cycle" THEN n % T ELSE T - 1
  BY DEF Fixtures!StepIndex
<1>4. n < T \/ Exhausts[k] \in {"last", "cycle"}
  BY DEF Fixtures!HasStep
<1>5. handed[k] \in Seq(Int) /\ CounterInv(k)
  BY DEF CountersInv
<1>6. n = IF Exhausts[k] = "cycle" \/ h < T THEN h ELSE T
  BY <1>5 DEF CounterInv
<1>7. counters' = [counters EXCEPT ![k] = n1] /\ handed' = [handed EXCEPT ![k] = h1]
  OBVIOUS
<1> HIDE DEF n, T, x, n1
<1>8. x \in Int
  BY <1>1, <1>3
<1>9. h1 \in Seq(Int) /\ Len(h1) = h + 1
  BY <1>5, <1>8
<1>10. n1 \in Nat
  BY <1>1, <1>2
<1>11. n1 = IF Exhausts[k] = "cycle" \/ h + 1 < T THEN h + 1 ELSE T
  BY <1>1, <1>2, <1>6
<1>12. CountersInv'
  <2> HIDE DEF h1
  <2>1. n1 = IF Exhausts[k] = "cycle" \/ Len(h1) < T THEN Len(h1) ELSE T
    BY <1>9, <1>11
  <2> QED
    BY <1>7, <1>9, <1>10, <2>1, CountKeeps DEF T
<1>13. x = Script!Prescribed(k, h)
  BY <1>1, <1>3 DEF Script!Prescribed, T
<1>14. h < T \/ Exhausts[k] \in {"last", "cycle"}
  BY <1>1, <1>4
<1>15. Script!HandOut(k)
  BY <1>7, <1>13, <1>14 DEF Script!HandOut, T
<1> QED
  BY <1>12, <1>15

(* A sequence that is exhausted stays where it is.                         *)
LEMMA CounterStays ==
  ASSUME CountersInv, NEW k \in Keys, NEW e,
         Totals[k] = Len(e.steps), Exhausts[k] = e.onExhaust, ~Fixtures!HasStep(e, counters[k]),
         counters' = [counters EXCEPT ![k] = Fixtures!Advanced(e, counters[k])],
         handed' = handed
  PROVE  CountersInv'
<1>1. Fixtures!Advanced(e, counters[k]) = counters[k]
  BY DEF Fixtures!Advanced, Fixtures!HasStep
<1>2. counters' = counters
  BY <1>1 DEF CountersInv
<1> QED
  BY <1>2 DEF CountersInv, CounterInv

(* Step: the request is served its step, told that there is none, or       *)
(* passed over.                                                            *)
LEMMA StepKeeps ==
  ASSUME FixtureInv, NEW r \in Requests, Fixtures!Step(r)
  PROVE  FixtureInv' /\ [Script!ScriptNext]_handed
<1> DEFINE e == Fixtures!Entry(r)
           k == Fixtures!Key(Fixtures!Selector(r), e)
           n == counters[k]
<1>1. Fixtures!AtEntry(r) /\ Fixtures!IsSequence(e)
      /\ UNCHANGED <<matcher, warned, installed, logs>>
      /\ counters' = [counters EXCEPT ![k] = Fixtures!Advanced(e, n)]
  BY DEF Fixtures!Step
<1>2. IF Fixtures!HasStep(e, n)
        THEN /\ handed' = [handed EXCEPT ![k] = Append(@, Fixtures!StepIndex(e, n))]
             /\ Fixtures!Serve(r, e.steps[Fixtures!StepIndex(e, n) + 1])
        ELSE /\ handed' = handed
             /\ IF e.onExhaust = "error" THEN Fixtures!Select(r, "matched", Fixtures!Exhausted)
                                         ELSE Fixtures!Skip(r, "spent")
  BY DEF Fixtures!Step
<1>3. k \in Keys /\ Totals[k] = Len(e.steps) /\ Exhausts[k] = e.onExhaust
  BY <1>1, EntryTypes, ScriptsAgree
<1>4. Exhausts[k] \in Fixtures!Policies
  BY <1>3, ScriptsHaveSteps
<1>5. CountersInv
  BY DEF FixtureInv
<1>6. CountersInv' /\ [Script!ScriptNext]_handed
  <2>1. CASE Fixtures!HasStep(e, n)
    <3>1. CountersInv' /\ Script!HandOut(k)
      BY <1>1, <1>2, <1>3, <1>5, <2>1, CounterHandsOut
    <3> QED
      BY <1>3, <3>1 DEF Script!ScriptNext
  <2>2. CASE ~Fixtures!HasStep(e, n)
    BY <1>1, <1>2, <1>3, <1>5, <2>2, CounterStays
  <2> QED
    BY <2>1, <2>2
<1>7. MatcherInv' /\ OneGeneration' /\ RequestsInv'
  <2>1. CASE Fixtures!HasStep(e, n)
    BY <1>1, <1>2, <2>1, ServeKeeps
  <2>2. CASE ~Fixtures!HasStep(e, n) /\ e.onExhaust = "error"
    <3>1. Fixtures!Exhausted # Fixtures!Nothing
      BY DEF Fixtures!Exhausted, Fixtures!Nothing
    <3> QED
      BY <1>1, <1>2, <2>2, <3>1, SelectKeeps
  <2>3. CASE ~Fixtures!HasStep(e, n) /\ e.onExhaust # "error"
    <3>1. e.onExhaust = "fallthrough"
      BY <1>3, <1>4, <2>3 DEF Fixtures!HasStep, Fixtures!Policies
    <3> QED
      BY <1>1, <1>2, <2>3, <3>1, SkipKeeps DEF Marks
  <2> QED
    BY <2>1, <2>2, <2>3
<1>8. LogInv'
  BY <1>1 DEF FixtureInv, LogInv, Fixtures!WarnOnce
<1> QED
  BY <1>6, <1>7, <1>8 DEF FixtureInv

(* EndOfEntries: nothing matched, and no entry is left.                    *)
LEMMA EndOfEntriesKeeps ==
  ASSUME FixtureInv, NEW r \in Requests, Fixtures!EndOfEntries(r) PROVE FixtureInv'
<1> DEFINE q == req[r]
           q1 == [q EXCEPT !.pc = "done"]
<1>1. RequestInv(q) /\ DOMAIN q = Fields /\ DOMAIN req = Requests
  BY DEF FixtureInv, RequestsInv, RequestInv
<1>2. req' = [req EXCEPT ![r] = q1]
  BY DEF Fixtures!EndOfEntries
<1>3. Only(r) /\ req'[r] = q1
  BY <1>1, <1>2 DEF Only
<1>4. q.pc = "select" /\ Chosen(q).kind = "fixtures.yaml" /\ q.next > Len(Chosen(q).entries)
  BY DEF Fixtures!EndOfEntries, Fixtures!Selector, Chosen
<1>5. Answers(q) /\ YamlSeen(q)
  BY <1>1, <1>4 DEF RequestInv, Answers
<1>6. Chosen(q).entries \in Seq(Fixtures!Entries) /\ q.matcher \in installed
  BY <1>4, ChosenTypes
<1>7. DOMAIN q1 = Fields /\ q1.pc = "done" /\ q1.matcher = q.matcher /\ q1.candidates = q.candidates
      /\ q1.seen = q.seen /\ q1.next = q.next
  BY <1>1 DEF Fields
<1> HIDE DEF q1
<1>8. Len(q.seen) = Len(Chosen(q).entries)
  BY <1>4, <1>5, <1>6 DEF YamlSeen
<1>9. YamlSeen(q1)
  BY <1>4, <1>5, <1>7, <1>8 DEF YamlSeen, Chosen
<1>10. RequestInv(q1)
  BY <1>4, <1>7, <1>9 DEF RequestInv, Chosen
<1>11. MatcherInv' /\ OneGeneration' /\ RequestsInv'
  BY <1>3, <1>6, <1>7, <1>10, RequestKeeps DEF Fixtures!EndOfEntries
<1> QED
  BY <1>11, QuietKeeps DEF Fixtures!EndOfEntries, FixtureInv

(* At a candidate, the request is in the middle of the candidates.         *)
LEMMA CandidateTypes ==
  ASSUME FixtureInv, NEW r \in Requests, req[r].pc = "select", Fixtures!Selector(r).kind = "legacy"
  PROVE  /\ RequestInv(req[r]) /\ DOMAIN req[r] = Fields /\ DOMAIN req = Requests
         /\ Answers(req[r]) /\ Chosen(req[r]).kind = "legacy"
         /\ LegacySeen(req[r]) /\ req[r].matcher \in installed
<1>1. RequestInv(req[r]) /\ DOMAIN req[r] = Fields /\ DOMAIN req = Requests
  BY DEF FixtureInv, RequestsInv, RequestInv
<1>2. Answers(req[r]) /\ Chosen(req[r]).kind = "legacy"
  BY <1>1 DEF RequestInv, Answers, Chosen, Fixtures!Selector
<1>3. LegacySeen(req[r])
  BY <1>1, <1>2 DEF RequestInv
<1> QED
  BY <1>1, <1>2, <1>3, ChosenTypes

(* One more score: the new best, or not better than the best so far.       *)
LEMMA ScoreKeepsFirstBest ==
  ASSUME NEW seen \in Seq(Fixtures!Scores), NEW best \in 0..Len(seen), NEW score \in Fixtures!Scores,
         FirstBest(seen, best), NEW best1,
         best1 = IF score >= 0 /\ score > (IF best = 0 THEN -1 ELSE seen[best])
                   THEN Len(seen) + 1 ELSE best
  PROVE  best1 \in 0..Len(seen) + 1 /\ FirstBest(Append(seen, score), best1)
<1> DEFINE n == Len(seen)
           seen1 == Append(seen, score)
<1>1. n \in Nat /\ best \in Int /\ score \in Int
  BY DEF Fixtures!Scores
<1>2. Len(seen1) = n + 1 /\ seen1[n + 1] = score /\ \A i \in 1..n : seen1[i] = seen[i]
  OBVIOUS
<1>3. \A i \in 1..n : seen[i] \in Int
  BY DEF Fixtures!Scores
<1> HIDE DEF seen1
<1>4. CASE best = 0
  <2>1. \A i \in 1..n : seen[i] < 0
    BY <1>4 DEF FirstBest
  <2>2. CASE score >= 0
    <3>1. best1 = n + 1
      BY <1>1, <1>4, <2>2
    <3>2. \A j \in 1..n + 1 : seen1[j] <= seen1[n + 1] /\ (j < n + 1 => seen1[j] < seen1[n + 1])
      <4> TAKE j \in 1..n + 1
      <4>1. CASE j = n + 1
        BY <1>1, <1>2, <4>1
      <4>2. CASE j \in 1..n
        BY <1>1, <1>2, <1>3, <2>1, <2>2, <4>2
      <4> QED
        BY <1>1, <4>1, <4>2
    <3> QED
      BY <1>1, <1>2, <2>2, <3>1, <3>2 DEF FirstBest
  <2>3. CASE score < 0
    <3>1. best1 = 0
      BY <1>1, <1>4, <2>3
    <3>2. \A j \in 1..n + 1 : seen1[j] < 0
      <4> TAKE j \in 1..n + 1
      <4>1. CASE j = n + 1
        BY <1>2, <2>3, <4>1
      <4>2. CASE j \in 1..n
        BY <1>2, <2>1, <4>2
      <4> QED
        BY <1>1, <4>1, <4>2
    <3> QED
      BY <1>1, <1>2, <3>1, <3>2 DEF FirstBest
  <2> QED
    BY <1>1, <2>2, <2>3
<1>5. CASE best # 0
  <2>1. best \in 1..n /\ seen[best] >= 0
        /\ \A j \in 1..n : seen[j] <= seen[best] /\ (j < best => seen[j] < seen[best])
    BY <1>1, <1>5 DEF FirstBest
  <2>2. CASE score > seen[best]
    <3>1. score >= 0 /\ best1 = n + 1
      BY <1>1, <1>3, <1>5, <2>1, <2>2
    <3>2. \A j \in 1..n + 1 : seen1[j] <= seen1[n + 1] /\ (j < n + 1 => seen1[j] < seen1[n + 1])
      <4> TAKE j \in 1..n + 1
      <4>1. CASE j = n + 1
        BY <1>1, <1>2, <4>1
      <4>2. CASE j \in 1..n
        BY <1>1, <1>2, <1>3, <2>1, <2>2, <4>2
      <4> QED
        BY <1>1, <4>1, <4>2
    <3> QED
      BY <1>1, <1>2, <3>1, <3>2 DEF FirstBest
  <2>3. CASE ~(score > seen[best])
    <3>1. best1 = best /\ seen1[best] = seen[best] /\ score <= seen[best]
      BY <1>1, <1>2, <1>3, <1>5, <2>1, <2>3
    <3>2. \A j \in 1..n + 1 : seen1[j] <= seen[best] /\ (j < best => seen1[j] < seen[best])
      <4> TAKE j \in 1..n + 1
      <4>1. CASE j = n + 1
        BY <1>1, <1>2, <2>1, <3>1, <4>1
      <4>2. CASE j \in 1..n
        BY <1>2, <2>1, <4>2
      <4> QED
        BY <1>1, <4>1, <4>2
    <3> QED
      BY <1>1, <1>2, <1>5, <2>1, <3>1, <3>2 DEF FirstBest
  <2> QED
    BY <2>2, <2>3
<1> QED
  BY <1>4, <1>5

(* ScoreCandidate: the best is still the first of the best.                *)
LEMMA ScoreKeeps ==
  ASSUME FixtureInv, NEW r \in Requests, Fixtures!ScoreCandidate(r) PROVE FixtureInv'
<1> DEFINE q == req[r]
<1>1. q.pc = "select" /\ Fixtures!Selector(r).kind = "legacy"
  BY DEF Fixtures!ScoreCandidate, Fixtures!AtCandidate
<1>2. RequestInv(q) /\ DOMAIN q = Fields /\ DOMAIN req = Requests /\ Answers(q)
      /\ Chosen(q).kind = "legacy" /\ LegacySeen(q) /\ q.matcher \in installed
  BY <1>1, CandidateTypes
<1>3. PICK score \in Fixtures!Scores :
        req' = [req EXCEPT ![r] = [Fixtures!Saw(r, score) EXCEPT
                 !.best = IF Fixtures!Better(r, score) THEN req[r].next ELSE @]]
  BY DEF Fixtures!ScoreCandidate
<1> DEFINE saw == [q EXCEPT !.next = @ + 1, !.seen = Append(@, score)]
           best1 == IF Fixtures!Better(r, score) THEN q.next ELSE q.best
           q1 == [saw EXCEPT !.best = best1]
<1>4. Advance(q, saw, score, q.pc, q.result) /\ saw.best = q.best
  BY <1>2 DEF Advance, Fields
<1>5. DOMAIN saw = Fields /\ Fixtures!Saw(r, score) = saw
  BY <1>2 DEF Fixtures!Saw
<1> HIDE DEF saw
<1>6. req' = [req EXCEPT ![r] = q1]
  BY <1>3, <1>4, <1>5
<1>7. Only(r) /\ req'[r] = q1
  BY <1>2, <1>6 DEF Only
<1> HIDE DEF best1
<1>8. DOMAIN q1 = Fields /\ q1.pc = "select" /\ q1.matcher = q.matcher /\ q1.candidates = q.candidates
      /\ q1.seen = Append(q.seen, score) /\ q1.next = q.next + 1 /\ q1.best = best1
  BY <1>1, <1>4, <1>5 DEF Advance, Fields
<1> HIDE DEF q1
<1>9. q.seen \in Seq(Fixtures!Scores) /\ q.next = Len(q.seen) + 1 /\ q.best \in 0..Len(q.seen)
      /\ FirstBest(q.seen, q.best)
  BY <1>2 DEF LegacySeen
<1>10. best1 = IF score >= 0 /\ score > (IF q.best = 0 THEN -1 ELSE q.seen[q.best])
                 THEN Len(q.seen) + 1 ELSE q.best
  BY <1>9 DEF best1, Fixtures!Better, Fixtures!BestScore
<1>11. best1 \in 0..Len(q.seen) + 1 /\ FirstBest(q1.seen, best1)
  BY <1>8, <1>9, <1>10, ScoreKeepsFirstBest
<1>12. q1.seen \in Seq(Fixtures!Scores) /\ Len(q1.seen) = Len(q.seen) + 1
  BY <1>8, <1>9
<1>13. LegacySeen(q1)
  BY <1>8, <1>9, <1>11, <1>12 DEF LegacySeen
<1>14. RequestInv(q1)
  BY <1>2, <1>8, <1>13 DEF RequestInv, Chosen, Answers
<1>15. MatcherInv' /\ OneGeneration' /\ RequestsInv'
  BY <1>2, <1>7, <1>8, <1>14, RequestKeeps DEF Fixtures!ScoreCandidate
<1> QED
  BY <1>15, QuietKeeps DEF Fixtures!ScoreCandidate, FixtureInv

(* EndOfCandidates: the best one is the answer.                            *)
LEMMA EndOfCandidatesKeeps ==
  ASSUME FixtureInv, NEW r \in Requests, Fixtures!EndOfCandidates(r) PROVE FixtureInv'
<1> DEFINE q == req[r]
           res == IF q.best = 0 THEN Fixtures!Nothing ELSE Fixtures!Found(q.candidates[q.best].id)
           q1 == [q EXCEPT !.pc = "done", !.result = res]
<1>1. q.pc = "select" /\ Fixtures!Selector(r).kind = "legacy"
  BY DEF Fixtures!EndOfCandidates
<1>2. RequestInv(q) /\ DOMAIN q = Fields /\ DOMAIN req = Requests /\ Answers(q)
      /\ Chosen(q).kind = "legacy" /\ LegacySeen(q) /\ q.matcher \in installed
  BY <1>1, CandidateTypes
<1>3. req' = [req EXCEPT ![r].pc = "done", ![r].result = res]
  BY DEF Fixtures!EndOfCandidates
<1> HIDE DEF res
<1>4. DOMAIN req' = DOMAIN req /\ (\A s \in Requests \ {r} : req'[s] = req[s])
  BY <1>2, <1>3
<1>5. req'[r] = q1
  BY <1>2, <1>3 DEF Fields
<1>6. DOMAIN q1 = Fields /\ q1.pc = "done" /\ q1.result = res /\ q1.matcher = q.matcher
      /\ q1.candidates = q.candidates /\ q1.seen = q.seen /\ q1.next = q.next /\ q1.best = q.best
  BY <1>2 DEF Fields
<1> HIDE DEF q1
<1>7. LegacySeen(q1)
  BY <1>2, <1>6 DEF LegacySeen, res
<1>8. RequestInv(q1)
  BY <1>2, <1>6, <1>7 DEF RequestInv, Chosen, Answers
<1>9. MatcherInv' /\ OneGeneration' /\ RequestsInv'
  BY <1>2, <1>4, <1>5, <1>6, <1>8, RequestKeeps DEF Fixtures!EndOfCandidates, Only
<1> QED
  BY <1>9, QuietKeeps DEF Fixtures!EndOfCandidates, FixtureInv

(* Match takes the matcher of the moment, and has seen nothing yet.        *)
LEMMA MatchKeeps ==
  ASSUME FixtureInv, NEW r \in Requests, Fixtures!Match(r) PROVE FixtureInv'
<1>1. PICK route \in Fixtures!Routes :
        LET c == Fixtures!Candidates(matcher.fixtures, route) IN
        req' = [req EXCEPT ![r] =
         [Fixtures!Idle EXCEPT !.pc = IF c = <<>> THEN "done" ELSE "select",
                      !.route = route, !.matcher = matcher, !.candidates = c]]
  BY DEF Fixtures!Match
<1> DEFINE c == Fixtures!Candidates(matcher.fixtures, route)
           pc1 == IF c = <<>> THEN "done" ELSE "select"
           q1 == [Fixtures!Idle EXCEPT !.pc = pc1,
                      !.route = route, !.matcher = matcher, !.candidates = c]
<1>2. req' = [req EXCEPT ![r] = q1] /\ DOMAIN req = Requests
  BY <1>1 DEF FixtureInv, RequestsInv
<1>3. Only(r) /\ req'[r] = q1
  BY <1>2 DEF Only
<1>4. pc1 \in {"select", "done"} /\ (pc1 = "select" <=> c # <<>>)
  OBVIOUS
<1> HIDE DEF c, pc1
<1>5. DOMAIN q1 = Fields /\ q1.pc = pc1 /\ q1.matcher = matcher /\ q1.candidates = c
      /\ q1.seen = <<>> /\ q1.next = 1 /\ q1.best = 0
  BY DEF Fixtures!Idle, Fields
<1> HIDE DEF q1
<1>6. matcher \in installed /\ Chosen(q1) \in Selectors
  BY <1>5 DEF FixtureInv, MatcherInv, Matchers, Chosen
<1>7. Chosen(q1).entries \in Seq(Fixtures!Entries)
  BY <1>6, SelectorsMeet DEF Fixtures!SelectorsOK
<1>8. c # <<>> => YamlSeen(q1) /\ LegacySeen(q1)
  <2> SUFFICES ASSUME c # <<>> PROVE YamlSeen(q1) /\ LegacySeen(q1)
    OBVIOUS
  <2>1. q1.seen \in Seq(Marks) /\ q1.seen \in Seq(Fixtures!Scores) /\ Len(q1.seen) = 0
    BY <1>5
  <2>2. q1.pc = "select" /\ Len(Chosen(q1).entries) \in Nat
    BY <1>4, <1>5, <1>7
  <2>3. YamlSeen(q1)
    BY <1>5, <2>1, <2>2 DEF YamlSeen
  <2>4. LegacySeen(q1)
    BY <1>5, <2>1, <2>2 DEF LegacySeen, FirstBest
  <2> QED
    BY <2>3, <2>4
<1>9. RequestInv(q1)
  BY <1>4, <1>5, <1>8 DEF RequestInv, Answers
<1>10. MatcherInv' /\ OneGeneration' /\ RequestsInv'
  BY <1>3, <1>5, <1>6, <1>9, RequestKeeps DEF Fixtures!Match
<1> QED
  BY <1>10, QuietKeeps DEF Fixtures!Match, FixtureInv

(* Swap, SwapWithSelector: requests keep the matcher they have.            *)
LEMMA InstallKeeps ==
  ASSUME FixtureInv, NEW m \in Matchers, Fixtures!Install(m) PROVE FixtureInv'
<1>1. matcher' = m /\ installed' = installed \cup {m}
      /\ UNCHANGED <<counters, warned, req, handed, logs>>
  BY DEF Fixtures!Install
<1>2. MatcherInv'
  BY <1>1 DEF FixtureInv, MatcherInv
<1>3. OneGeneration'
  BY <1>1 DEF FixtureInv, OneGeneration, Fixtures!OneGeneration
<1>4. RequestsInv'
  BY <1>1 DEF FixtureInv, RequestsInv
<1> QED
  BY <1>1, <1>2, <1>3, <1>4, QuietKeeps DEF FixtureInv

(* A swap installs fixtures and a selector that may be installed.          *)
LEMMA SwapsInstall ==
  ASSUME FixtureInv, Fixtures!Swap \/ Fixtures!SwapWithSelector
  PROVE  \E m \in Matchers : Fixtures!Install(m)
<1>1. CASE Fixtures!Swap
  <2>1. PICK fs \in FixtureSets : Fixtures!Install([matcher EXCEPT !.fixtures = fs])
    BY <1>1 DEF Fixtures!Swap
  <2>2. [matcher EXCEPT !.fixtures = fs] \in Matchers
    BY DEF FixtureInv, MatcherInv, Matchers
  <2> QED
    BY <2>1, <2>2
<1>2. CASE Fixtures!SwapWithSelector
  BY <1>2 DEF Fixtures!SwapWithSelector, Matchers
<1> QED
  BY <1>1, <1>2

(* Every step of the fixtures keeps the invariant, and is a step of the    *)
(* scripts or none.                                                        *)
LEMMA NextFixtureInv ==
  ASSUME FixtureInv, [Fixtures!Next]_fvars
  PROVE  FixtureInv' /\ [Script!ScriptNext]_handed
<1>1. CASE Fixtures!Swap \/ Fixtures!SwapWithSelector
  <2>1. PICK m \in Matchers : Fixtures!Install(m)
    BY <1>1, SwapsInstall
  <2> QED
    BY <2>1, InstallKeeps DEF Fixtures!Install
<1>2. ASSUME NEW r \in Requests, Fixtures!Match(r) PROVE FixtureInv' /\ UNCHANGED handed
  BY <1>2, MatchKeeps DEF Fixtures!Match
<1>3. ASSUME NEW r \in Requests, Fixtures!warnEntry(r) PROVE FixtureInv' /\ UNCHANGED handed
  BY <1>3, WarnKeeps DEF Fixtures!warnEntry
<1>4. ASSUME NEW r \in Requests, Fixtures!NoMatch(r) PROVE FixtureInv' /\ UNCHANGED handed
  BY <1>4, NoMatchKeeps DEF Fixtures!NoMatch
<1>5. ASSUME NEW r \in Requests, Fixtures!SingleMatch(r) PROVE FixtureInv' /\ UNCHANGED handed
  BY <1>5, SingleMatchKeeps DEF Fixtures!SingleMatch
<1>6. ASSUME NEW r \in Requests, Fixtures!EndOfEntries(r) PROVE FixtureInv' /\ UNCHANGED handed
  BY <1>6, EndOfEntriesKeeps DEF Fixtures!EndOfEntries
<1>7. ASSUME NEW r \in Requests, Fixtures!ScoreCandidate(r) PROVE FixtureInv' /\ UNCHANGED handed
  BY <1>7, ScoreKeeps DEF Fixtures!ScoreCandidate
<1>8. ASSUME NEW r \in Requests, Fixtures!EndOfCandidates(r) PROVE FixtureInv' /\ UNCHANGED handed
  BY <1>8, EndOfCandidatesKeeps DEF Fixtures!EndOfCandidates
<1>9. CASE UNCHANGED fvars
  <2>1. UNCHANGED <<matcher, counters, warned, req, installed, handed, logs>>
    BY <1>9 DEF fvars
  <2>2. LogInv' /\ CountersInv'
    BY <2>1, QuietKeeps
  <2>3. MatcherInv' /\ OneGeneration' /\ RequestsInv'
    BY <2>1 DEF FixtureInv, MatcherInv, OneGeneration, Fixtures!OneGeneration, RequestsInv
  <2> QED
    BY <2>1, <2>2, <2>3 DEF FixtureInv
<1> QED
  BY <1>1, <1>2, <1>3, <1>4, <1>5, <1>6, <1>7, <1>8, <1>9, StepKeeps DEF Fixtures!Next

(* The invariant says that the selection is right.                         *)
LEMMA FixtureInvSuffices == FixtureInv => SelectionIsRight
<1> SUFFICES ASSUME FixtureInv PROVE SelectionIsRight
  OBVIOUS
<1>1. ASSUME NEW r \in Requests, req[r].pc = "done", req[r].candidates # <<>>
      PROVE  /\ Chosen(req[r]).kind = "fixtures.yaml" => YamlSeen(req[r])
             /\ Chosen(req[r]).kind = "legacy" => LegacySeen(req[r])
  BY <1>1 DEF FixtureInv, RequestsInv, RequestInv, Answers
<1>2. Fixtures!FirstMatchWins
  <2> SUFFICES ASSUME NEW r \in Requests, req[r].pc = "done", req[r].candidates # <<>>,
                      Fixtures!Selector(r).kind = "fixtures.yaml"
               PROVE  LET seen == req[r].seen n == Len(seen) IN
                      /\ \A i \in 1..n - 1 : seen[i] # "matched"
                      /\ req[r].result = Fixtures!Nothing =>
                           n = Len(Fixtures!Selector(r).entries) /\ \A i \in 1..n : seen[i] # "matched"
                      /\ \A i \in 1..n : seen[i] = "spent" =>
                           Fixtures!Selector(r).entries[i].onExhaust = "fallthrough"
    BY DEF Fixtures!FirstMatchWins
  <2>1. YamlSeen(req[r]) /\ Chosen(req[r]) = Fixtures!Selector(r)
    BY <1>1 DEF Fixtures!Selector, Chosen
  <2> QED
    BY <2>1 DEF YamlSeen
<1>3. Fixtures!FirstBestWins
  <2> SUFFICES ASSUME NEW r \in Requests, req[r].pc = "done", req[r].candidates # <<>>,
                      Fixtures!Selector(r).kind = "legacy"
               PROVE  LET s == req[r].seen c == req[r].candidates IN
                      IF \A i \in DOMAIN s : s[i] < 0 THEN req[r].result = Fixtures!Nothing
                      ELSE \E i \in DOMAIN s :
                             /\ req[r].result = Fixtures!Found(c[i].id)
                             /\ \A j \in DOMAIN s : s[j] <= s[i] /\ (j < i => s[j] < s[i])
    BY DEF Fixtures!FirstBestWins
  <2> DEFINE q == req[r]
  <2>1. LegacySeen(q)
    BY <1>1 DEF Fixtures!Selector, Chosen
  <2>2. q.seen \in Seq(Fixtures!Scores) /\ DOMAIN q.seen = 1..Len(q.seen) /\ Len(q.seen) \in Nat
        /\ q.best \in 0..Len(q.seen) /\ FirstBest(q.seen, q.best)
    BY <2>1 DEF LegacySeen
  <2>3. q.result = IF q.best = 0 THEN Fixtures!Nothing ELSE Fixtures!Found(q.candidates[q.best].id)
    BY <2>1 DEF LegacySeen
  <2>4. CASE q.best = 0
    BY <2>2, <2>3, <2>4 DEF FirstBest
  <2>5. CASE q.best # 0
    <3>1. q.best \in 1..Len(q.seen) /\ q.seen[q.best] >= 0
      BY <2>2, <2>5 DEF FirstBest
    <3>2. q.seen[q.best] \in Int /\ ~(q.seen[q.best] < 0)
      BY <2>2, <3>1 DEF Fixtures!Scores
    <3>3. \A j \in 1..Len(q.seen) : q.seen[j] <= q.seen[q.best]
                                    /\ (j < q.best => q.seen[j] < q.seen[q.best])
      BY <2>2, <2>5 DEF FirstBest
    <3>4. q.result = Fixtures!Found(q.candidates[q.best].id)
      BY <2>3, <2>5
    <3> HIDE DEF q
    <3> QED
      BY <2>2, <3>1, <3>2, <3>3, <3>4 DEF q
  <2> QED
    BY <2>4, <2>5
<1> QED
  BY <1>2, <1>3 DEF SelectionIsRight, Fixtures!SelectionIsRight, FixtureInv, LogInv

-----------------------------------------------------------------------------
(* The generator.                                                          *)

Phases == {"instantiate", "alloc", "write", "generate", "len", "ptr", "read", "decode"}
Order  == <<"instance", "input", "result">>
(* How much a call has acquired when it comes to a step.                   *)
Had(phase) == CASE phase \in {"start", "instantiate"} -> 0
                [] phase = "alloc" -> 1
                [] phase \in {"write", "generate"} -> 2
                [] OTHER -> 3

(* A call has acquired so many resources, in their order, and has given    *)
(* back the last of them.                                                  *)
InOrder(t, f) ==
  LET n == Len(t) + Len(f) IN
  /\ n <= 3
  /\ \A i \in 1..Len(t) : t[i] = Order[i]
  /\ \A j \in 1..Len(f) : f[j] = Order[n + 1 - j]

Small(c) == answer[c].bytes <= MaxResultBytes
CallInv(c) ==
  /\ InOrder(taken[c], freed[c])
  /\ at[c] \notin {"release", "returned"} => freed[c] = <<>> /\ Len(taken[c]) = Had(at[c])
  /\ at[c] = "returned" => taken[c] = <<>>
  /\ c \in looping => at[c] \in Phases \ {"decode"}
  /\ at[c] \in {"ptr", "read", "decode"} => Small(c)
  /\ outcome[c] = "ok" =>
       /\ at[c] \in {"release", "returned"}
       /\ Small(c) /\ answer[c].chunks <= MaxChunks /\ answer[c].utf8

Resources == {"instance", "input", "result"}
GenShapes ==
  /\ at \in [Pair -> Phases \cup {"start", "release", "returned"}]
  /\ taken \in [Pair -> Seq(Resources)] /\ freed \in [Pair -> Seq(Resources)]
  /\ answer \in [Pair -> Results]
  /\ outcome \in [Pair -> {"none", "ok", "error"}]
GenInv == GenShapes /\ (\A c \in Pair : CallInv(c)) /\ Generator!NoRuntimeLeaks

(* Nothing is acquired before the start.                                   *)
LEMMA InitGenInv == Generator!Init => GenInv
<1> SUFFICES ASSUME Generator!Init PROVE GenInv
  OBVIOUS
<1>1. GenShapes
  BY DEF Generator!Init, GenShapes
<1>2. ASSUME NEW c \in Pair PROVE CallInv(c)
  <2>1. at[c] = "start" /\ taken[c] = <<>> /\ freed[c] = <<>> /\ outcome[c] = "none" /\ looping = {}
    BY DEF Generator!Init
  <2>2. InOrder(taken[c], freed[c])
    BY <2>1 DEF InOrder
  <2> QED
    BY <2>1, <2>2 DEF CallInv, Had
<1>3. Generator!NoRuntimeLeaks
  BY DEF Generator!Init, Generator!NoRuntimeLeaks
<1> QED
  BY <1>1, <1>2, <1>3 DEF GenInv

(* The steps of a call, one after the other.                               *)
LEMMA StepsInOrder ==
  /\ Generator!ToSet(Generator!Steps) = Phases
  /\ Generator!StepAfter("instantiate") = "alloc"
  /\ Generator!StepAfter("alloc") = "write"
  /\ Generator!StepAfter("write") = "generate"
  /\ Generator!StepAfter("generate") = "len"
  /\ Generator!StepAfter("len") = "ptr"
  /\ Generator!StepAfter("ptr") = "read"
  /\ Generator!StepAfter("read") = "decode"
  /\ Generator!StepAfter("decode") = "release"
<1> DEFINE S == Generator!Steps
           At(step) == CHOOSE j \in DOMAIN S : S[j] = step
<1>1. /\ DOMAIN S = {1, 2, 3, 4, 5, 6, 7, 8} /\ Len(S) = 8
      /\ S[1] = "instantiate" /\ S[2] = "alloc" /\ S[3] = "write" /\ S[4] = "generate"
      /\ S[5] = "len" /\ S[6] = "ptr" /\ S[7] = "read" /\ S[8] = "decode"
  BY DEF Generator!Steps
<1>2. \A step : Generator!StepAfter(step) = IF At(step) = Len(S) THEN "release" ELSE S[At(step) + 1]
  BY DEF Generator!StepAfter
<1> HIDE DEF S
<1>3. Generator!ToSet(S) = Phases
  BY <1>1 DEF Generator!ToSet, Phases
<1>4. \A k \in DOMAIN S : At(S[k]) = k
  <2> SUFFICES ASSUME NEW k \in DOMAIN S PROVE At(S[k]) = k
    OBVIOUS
  <2>1. At(S[k]) \in DOMAIN S /\ S[At(S[k])] = S[k]
    OBVIOUS
  <2>2. \A i, j \in DOMAIN S : S[i] = S[j] => i = j
    BY <1>1
  <2> HIDE DEF At
  <2> QED
    BY <2>1, <2>2
<1> HIDE DEF At
<1>5. /\ At("instantiate") = 1 /\ At("alloc") = 2 /\ At("write") = 3 /\ At("generate") = 4
      /\ At("len") = 5 /\ At("ptr") = 6 /\ At("read") = 7 /\ At("decode") = 8
  BY <1>1, <1>4
<1> QED
  BY <1>1, <1>2, <1>3, <1>5 DEF S

(* A resource more, while nothing was given back yet.                      *)
LEMMA AcquireInOrder ==
  ASSUME NEW t \in Seq(Resources), InOrder(t, <<>>), Len(t) < 3
  PROVE  InOrder(Append(t, Order[Len(t) + 1]), <<>>)
<1> DEFINE x == Order[Len(t) + 1]
           n == Len(t)
           t1 == Append(t, x)
<1>1. n \in Nat /\ n < 3 /\ \A i \in 1..n : t[i] = Order[i]
  BY DEF InOrder
<1>2. Len(t1) = n + 1 /\ t1[n + 1] = x /\ \A i \in 1..n : t1[i] = t[i]
  OBVIOUS
<1>3. Len(<<>>) = 0
  OBVIOUS
<1> HIDE DEF t1
<1>4. \A i \in 1..n + 1 : t1[i] = Order[i]
  BY <1>1, <1>2
<1> HIDE DEF n
<1>5. n + 1 <= 3
  BY <1>1
<1> QED
  BY <1>1, <1>2, <1>3, <1>4, <1>5 DEF InOrder

(* A resource given back, the last one first.                              *)
LEMMA ReleaseInOrder ==
  ASSUME NEW t \in Seq(Resources), NEW f \in Seq(Resources), InOrder(t, f), t # <<>>
  PROVE  /\ Generator!Front(t) \in Seq(Resources) /\ Generator!Last(t) \in Resources
         /\ InOrder(Generator!Front(t), Append(f, Generator!Last(t)))
<1> DEFINE n == Len(t)
           m == Len(f)
           t1 == Generator!Front(t)
           x == Generator!Last(t)
           f1 == Append(f, x)
<1>1. n \in Nat \ {0} /\ m \in Nat /\ n + m <= 3
  BY DEF InOrder
<1>2. (\A i \in 1..n : t[i] = Order[i]) /\ (\A j \in 1..m : f[j] = Order[n + m + 1 - j])
  BY DEF InOrder
<1>3. x = t[n] /\ x \in Resources
  BY <1>1 DEF Generator!Last
<1>4. t1 \in Seq(Resources) /\ Len(t1) = n - 1 /\ \A i \in 1..n - 1 : t1[i] = t[i]
  <2>1. t1 = SubSeq(t, 1, n - 1)
    BY DEF Generator!Front
  <2>2. 1 \in 1..n + 1 /\ n - 1 \in 0..n
    BY <1>1
  <2>3. t1 \in Seq(Resources) /\ Len(t1) = IF 1 <= n - 1 THEN n - 1 - 1 + 1 ELSE 0
    BY <2>1, <2>2, <1>1, SubSeqProperties
  <2>4. \A i \in 1..n - 1 : t1[i] = t[i]
    BY <2>1, <1>1
  <2> HIDE DEF t1, n
  <2>5. Len(t1) = n - 1
    BY <1>1, <2>3
  <2> QED
    BY <2>3, <2>4, <2>5
<1>5. f1 \in Seq(Resources) /\ Len(f1) = m + 1 /\ f1[m + 1] = x /\ \A j \in 1..m : f1[j] = f[j]
  BY <1>3
<1> HIDE DEF t1, x, f1, n, m
<1>6. Len(t1) + Len(f1) = n + m
  BY <1>1, <1>4, <1>5
<1>7. \A i \in 1..n - 1 : t1[i] = Order[i]
  BY <1>1, <1>2, <1>4
<1>8. ASSUME NEW j \in 1..m + 1 PROVE f1[j] = Order[n + m + 1 - j]
  <2>1. CASE j \in 1..m
    BY <1>2, <1>5, <2>1
  <2>2. CASE j = m + 1
    <3>1. n + m + 1 - j = n /\ n \in 1..n
      BY <1>1, <2>2
    <3> QED
      BY <1>2, <1>3, <1>5, <2>2, <3>1
  <2> QED
    BY <1>1, <2>1, <2>2
<1>9. InOrder(t1, f1)
  BY <1>1, <1>4, <1>5, <1>6, <1>7, <1>8 DEF InOrder
<1> QED
  BY <1>3, <1>4, <1>9 DEF t1, x, f1

(* A step of one call leaves the others as they are.                       *)
OnlyCall(c) ==
  /\ \A d \in Pair \ {c} : at'[d] = at[d] /\ taken'[d] = taken[d] /\ freed'[d] = freed[d]
                           /\ outcome'[d] = outcome[d] /\ (d \in looping' <=> d \in looping)
  /\ UNCHANGED <<answer, owner, held>>

(* It keeps the invariant if it keeps the one of its call.                 *)
LEMMA CallStepKeeps ==
  ASSUME GenInv, NEW c \in Pair, OnlyCall(c), GenShapes', CallInv(c)'
  PROVE  GenInv'
<1>1. ASSUME NEW d \in Pair PROVE CallInv(d)'
  <2>1. CASE d # c
    BY <2>1 DEF GenInv, CallInv, OnlyCall, Small
  <2> QED
    BY <2>1
<1>2. Generator!NoRuntimeLeaks'
  BY DEF GenInv, Generator!NoRuntimeLeaks, OnlyCall
<1> QED
  BY <1>1, <1>2 DEF GenInv

(* Compile and Close: whoever fails or closes gives back the runtime.      *)
LEMMA OwnerKeeps ==
  ASSUME GenInv, Generator!Compile \/ Generator!Close PROVE GenInv'
<1>1. UNCHANGED <<at, taken, freed, answer, looping, expired, outcome>>
  BY DEF Generator!Compile, Generator!Close, Generator!validateImportExportSurface,
         Generator!CompileModule, Generator!validateCompiledModule, Generator!Own, Generator!calls
<1>2. GenShapes' /\ \A c \in Pair : CallInv(c)'
  BY <1>1 DEF GenInv, GenShapes, CallInv, Small
<1>3. Generator!NoRuntimeLeaks'
  BY DEF GenInv, Generator!NoRuntimeLeaks,
         Generator!Compile, Generator!Close, Generator!validateImportExportSurface,
         Generator!CompileModule, Generator!validateCompiledModule, Generator!Own
<1> QED
  BY <1>2, <1>3 DEF GenInv

(* Start: the call has nothing yet.                                        *)
LEMMA StartKeeps == ASSUME GenInv, NEW c \in Pair, Generator!Start(c) PROVE GenInv'
<1>1. at[c] = "start" /\ at' = [at EXCEPT ![c] = "instantiate"]
      /\ UNCHANGED <<owner, held, taken, freed, answer, looping, outcome>>
  BY DEF Generator!Start
<1>2. OnlyCall(c) /\ at'[c] = "instantiate"
  BY <1>1 DEF OnlyCall, GenInv, GenShapes
<1>3. GenShapes'
  BY <1>1 DEF GenInv, GenShapes, Phases
<1>4. CallInv(c)'
  <2>1. CallInv(c)
    BY DEF GenInv
  <2>2. freed[c] = <<>> /\ Len(taken[c]) = 0 /\ c \notin looping /\ outcome[c] # "ok"
    BY <1>1, <2>1 DEF CallInv, Had, Phases
  <2> QED
    BY <1>1, <1>2, <2>1, <2>2 DEF CallInv, Had
<1> QED
  BY <1>2, <1>3, <1>4, CallStepKeeps

(* Fail: what was acquired is still to be given back.                      *)
LEMMA FailKeeps ==
  ASSUME GenInv, NEW c \in Pair, Generator!Fail(c), at[c] \in Phases PROVE GenInv'
<1>1. at' = [at EXCEPT ![c] = "release"] /\ outcome' = [outcome EXCEPT ![c] = "error"]
      /\ looping' = looping \ {c} /\ UNCHANGED <<owner, held, taken, freed, answer>>
  BY DEF Generator!Fail
<1>2. OnlyCall(c) /\ at'[c] = "release" /\ outcome'[c] = "error" /\ c \notin looping'
  BY <1>1 DEF OnlyCall, GenInv, GenShapes
<1>3. GenShapes'
  BY <1>1 DEF GenInv, GenShapes
<1>4. CallInv(c)'
  BY <1>1, <1>2 DEF GenInv, CallInv
<1> QED
  BY <1>2, <1>3, <1>4, CallStepKeeps

(* Loop: a function of the module does not return.                         *)
LEMMA LoopKeeps ==
  ASSUME GenInv, NEW c \in Pair, Generator!Loop(c) PROVE GenInv'
<1>1. at[c] \in {"alloc", "generate", "len", "ptr"} /\ looping' = looping \cup {c}
      /\ UNCHANGED <<owner, held, at, taken, freed, answer, outcome>>
  BY DEF Generator!Loop, Generator!InModule
<1>2. OnlyCall(c)
  BY <1>1 DEF OnlyCall
<1>3. GenShapes'
  BY <1>1 DEF GenInv, GenShapes
<1>4. CallInv(c)'
  BY <1>1 DEF GenInv, CallInv, Phases, Small
<1> QED
  BY <1>2, <1>3, <1>4, CallStepKeeps

(* Succeed: a step that may acquire a resource.                            *)
LEMMA SucceedKeeps ==
  ASSUME GenInv, NEW c \in Pair, Generator!Succeed(c), at[c] \in Phases, c \notin looping,
         ~Generator!TooLarge(c), ~Generator!Undecodable(c)
  PROVE  GenInv'
<1> DEFINE p == at[c]
           p1 == Generator!StepAfter(p)
<1>1. at' = [at EXCEPT ![c] = p1] /\ UNCHANGED <<owner, held, freed, answer, looping>>
  BY DEF Generator!Succeed
<1>2. taken' = IF p \in DOMAIN Generator!Acquires
                 THEN [taken EXCEPT ![c] = Append(@, Generator!Acquires[p])] ELSE taken
  BY DEF Generator!Succeed
<1>3. outcome' = IF p = "decode" THEN [outcome EXCEPT ![c] = "ok"] ELSE outcome
  BY DEF Generator!Succeed
<1>4. /\ DOMAIN Generator!Acquires = {"instantiate", "alloc", "generate"}
      /\ Generator!Acquires["instantiate"] = "instance"
      /\ Generator!Acquires["alloc"] = "input"
      /\ Generator!Acquires["generate"] = "result"
  BY DEF Generator!Acquires
<1>5. CallInv(c) /\ GenShapes
  BY DEF GenInv
<1>6. freed[c] = <<>> /\ Len(taken[c]) = Had(p) /\ InOrder(taken[c], <<>>) /\ taken[c] \in Seq(Resources)
  BY <1>5 DEF CallInv, GenShapes, Phases
<1>7. p1 \in (Phases \ {"instantiate"}) \cup {"release"} /\ (p1 = "release" <=> p = "decode")
  BY StepsInOrder DEF Phases
<1>8. outcome[c] # "ok"
  BY <1>5 DEF CallInv, Phases
<1> DEFINE t1 == IF p \in DOMAIN Generator!Acquires
                   THEN Append(taken[c], Generator!Acquires[p]) ELSE taken[c]
<1>9. taken' = [taken EXCEPT ![c] = t1]
  BY <1>2, <1>5 DEF GenShapes
<1>10. t1 \in Seq(Resources) /\ InOrder(t1, <<>>) /\ (p # "decode" => Len(t1) = Had(p1))
  <2>1. Order[1] = "instance" /\ Order[2] = "input" /\ Order[3] = "result"
    BY DEF Order
  <2>2. CASE p \in {"instantiate", "alloc", "generate"}
    <3>1. Len(taken[c]) < 3 /\ Generator!Acquires[p] = Order[Len(taken[c]) + 1]
          /\ Had(p1) = Len(taken[c]) + 1
      BY <1>4, <1>6, <2>1, <2>2, StepsInOrder DEF Had
    <3>2. t1 = Append(taken[c], Order[Len(taken[c]) + 1]) /\ Generator!Acquires[p] \in Resources
      BY <1>4, <2>2, <3>1 DEF Resources
    <3>3. t1 \in Seq(Resources) /\ Len(t1) = Len(taken[c]) + 1
      BY <1>6, <3>1, <3>2
    <3>4. InOrder(t1, <<>>)
      BY <1>6, <3>1, <3>2, AcquireInOrder
    <3> QED
      BY <3>1, <3>3, <3>4
  <2>3. CASE p \in {"write", "len", "ptr", "read", "decode"}
    <3>1. t1 = taken[c]
      BY <1>4, <2>3
    <3>2. p # "decode" => Had(p1) = Had(p)
      BY <2>3, StepsInOrder DEF Had
    <3> QED
      BY <1>6, <3>1, <3>2
  <2> QED
    BY <2>2, <2>3 DEF Phases
<1> HIDE DEF t1
<1>11. taken'[c] = t1 /\ \A d \in Pair \ {c} : taken'[d] = taken[d]
  BY <1>5, <1>9 DEF GenShapes
<1>12. at'[c] = p1 /\ \A d \in Pair \ {c} : at'[d] = at[d]
  BY <1>1, <1>5 DEF GenShapes
<1>13. (outcome'[c] = "ok" <=> p = "decode") /\ \A d \in Pair \ {c} : outcome'[d] = outcome[d]
  BY <1>3, <1>5, <1>8 DEF GenShapes
<1>14. OnlyCall(c)
  BY <1>1, <1>11, <1>12, <1>13 DEF OnlyCall
<1>15. GenShapes'
  <2>1. at' \in [Pair -> Phases \cup {"start", "release", "returned"}]
    BY <1>1, <1>5, <1>7 DEF GenShapes
  <2>2. taken' \in [Pair -> Seq(Resources)]
    BY <1>5, <1>9, <1>10 DEF GenShapes
  <2>3. outcome' \in [Pair -> {"none", "ok", "error"}]
    BY <1>3, <1>5 DEF GenShapes
  <2> QED
    BY <1>1, <1>5, <2>1, <2>2, <2>3 DEF GenShapes
<1>16. p1 \in {"ptr", "read", "decode"} \/ p = "decode" => Small(c)
  <2>1. answer[c].bytes \in Nat /\ MaxResultBytes \in Nat
    BY <1>5, ResultsMeet DEF GenShapes, Generator!ResultsOK
  <2>2. p = "len" => Small(c)
    BY <2>1 DEF Generator!TooLarge, Small
  <2>3. p \in {"ptr", "read", "decode"} => Small(c)
    BY <1>5 DEF CallInv
  <2>4. p1 \in {"ptr", "read", "decode"} => p \in {"len", "ptr", "read"}
    BY StepsInOrder DEF Phases
  <2> QED
    BY <2>2, <2>3, <2>4
<1>17. p = "decode" => answer[c].chunks <= MaxChunks /\ answer[c].utf8
  <2>1. answer[c].chunks \in Nat /\ MaxChunks \in Nat
    BY <1>5, ResultsMeet DEF GenShapes, Generator!ResultsOK
  <2> QED
    BY <2>1 DEF Generator!Undecodable
<1> HIDE DEF p1
<1>18. CallInv(c)'
  <2>1. InOrder(t1, freed'[c])
    BY <1>1, <1>6, <1>10
  <2>2. p1 \notin {"release", "returned"} => freed'[c] = <<>> /\ Len(t1) = Had(p1)
    BY <1>1, <1>6, <1>7, <1>10
  <2>3. p1 # "returned" /\ c \notin looping'
    BY <1>1, <1>7 DEF Phases
  <2>4. p1 \in {"ptr", "read", "decode"} => Small(c)'
    BY <1>1, <1>16 DEF Small
  <2>5. outcome'[c] = "ok" => /\ p1 \in {"release", "returned"}
                              /\ Small(c)' /\ answer'[c].chunks <= MaxChunks /\ answer'[c].utf8
    BY <1>1, <1>7, <1>13, <1>16, <1>17 DEF Small
  <2> QED
    BY <1>11, <1>12, <2>1, <2>2, <2>3, <2>4, <2>5 DEF CallInv
<1> QED
  BY <1>14, <1>15, <1>18, CallStepKeeps

(* Release: the last resource that is left is given back.                  *)
LEMMA ReleaseKeeps ==
  ASSUME GenInv, NEW c \in Pair, Generator!Release(c) PROVE GenInv'
<1>1. at[c] = "release" /\ UNCHANGED <<owner, held, answer, looping, outcome>>
  BY DEF Generator!Release
<1>2. CallInv(c) /\ GenShapes
  BY DEF GenInv
<1>3. CASE taken[c] = <<>>
  <2>1. at' = [at EXCEPT ![c] = "returned"] /\ UNCHANGED <<taken, freed>>
    BY <1>3 DEF Generator!Release
  <2>2. OnlyCall(c) /\ at'[c] = "returned"
    BY <1>1, <1>2, <2>1 DEF OnlyCall, GenShapes
  <2>3. GenShapes'
    BY <1>1, <1>2, <2>1 DEF GenShapes
  <2>4. CallInv(c)'
    BY <1>1, <1>2, <1>3, <2>1, <2>2 DEF CallInv, Small, Phases
  <2> QED
    BY <2>2, <2>3, <2>4, CallStepKeeps
<1>4. CASE taken[c] # <<>>
  <2> DEFINE x == Generator!Last(taken[c])
             t1 == Generator!Front(taken[c])
             f1 == Append(freed[c], x)
  <2>1. freed' = [freed EXCEPT ![c] = f1] /\ taken' = [taken EXCEPT ![c] = t1] /\ UNCHANGED at
    BY <1>4 DEF Generator!Release
  <2>2. InOrder(taken[c], freed[c]) /\ taken[c] \in Seq(Resources) /\ freed[c] \in Seq(Resources)
    BY <1>2 DEF CallInv, GenShapes
  <2>3. t1 \in Seq(Resources) /\ x \in Resources /\ InOrder(t1, f1)
    BY <1>4, <2>2, ReleaseInOrder
  <2> HIDE DEF t1, x
  <2>4. f1 \in Seq(Resources)
    BY <2>2, <2>3
  <2> HIDE DEF f1
  <2>5. OnlyCall(c) /\ taken'[c] = t1 /\ freed'[c] = f1
    BY <1>1, <1>2, <2>1 DEF OnlyCall, GenShapes
  <2>6. GenShapes'
    <3>1. taken' \in [Pair -> Seq(Resources)] /\ freed' \in [Pair -> Seq(Resources)]
      BY <1>2, <2>1, <2>3, <2>4 DEF GenShapes
    <3> QED
      BY <1>1, <1>2, <2>1, <3>1 DEF GenShapes
  <2>7. CallInv(c)'
    BY <1>1, <1>2, <2>1, <2>3, <2>5 DEF CallInv, Small, Phases
  <2> QED
    BY <2>5, <2>6, <2>7, CallStepKeeps
<1> QED
  BY <1>3, <1>4

(* Every step of the generator keeps the invariant.                        *)
LEMMA NextGenInv == ASSUME GenInv, [Generator!Next]_gvars PROVE GenInv'
<1>1. CASE Generator!Compile \/ Generator!Close
  BY <1>1, OwnerKeeps
<1>2. ASSUME NEW c \in Pair, Generator!Host(c) PROVE GenInv'
  <2>1. CASE Generator!Start(c)
    BY <2>1, StartKeeps
  <2>2. CASE Generator!Generate(c)
    <3>1. at[c] \in Phases /\ c \notin looping
      BY <2>2, StepsInOrder DEF Generator!Generate
    <3>2. CASE Generator!Fail(c)
      BY <3>1, <3>2, FailKeeps
    <3>3. CASE Generator!Loop(c)
      BY <3>3, LoopKeeps
    <3>4. CASE Generator!Succeed(c) /\ ~Generator!TooLarge(c) /\ ~Generator!Undecodable(c)
      BY <3>1, <3>4, SucceedKeeps
    <3> QED
      BY <2>2, <3>2, <3>3, <3>4 DEF Generator!Generate
  <2>3. CASE Generator!Interrupted(c)
    <3>1. at[c] \in Phases
      BY <2>3 DEF Generator!Interrupted, GenInv, CallInv
    <3> QED
      BY <2>3, <3>1, FailKeeps DEF Generator!Interrupted
  <2>4. CASE Generator!Release(c)
    BY <2>4, ReleaseKeeps
  <2> QED
    BY <1>2, <2>1, <2>2, <2>3, <2>4 DEF Generator!Host
<1>3. CASE UNCHANGED <<owner, held, at, taken, freed, answer, looping, outcome>>
  BY <1>3 DEF GenInv, GenShapes, CallInv, Small, Generator!NoRuntimeLeaks
<1>4. ASSUME NEW c \in Pair, Generator!Expire(c)
      PROVE  UNCHANGED <<owner, held, at, taken, freed, answer, looping, outcome>>
  BY <1>4 DEF Generator!Expire
<1>5. Generator!Done \/ UNCHANGED gvars
        => UNCHANGED <<owner, held, at, taken, freed, answer, looping, outcome>>
  BY DEF Generator!Done, Generator!vars, gvars
<1> QED
  BY <1>1, <1>2, <1>3, <1>4, <1>5 DEF Generator!Next

(* Two sequences joined, index by index.                                   *)
LEMMA Joined ==
  ASSUME NEW t \in Seq(Resources), NEW b \in Seq(Resources), NEW n, NEW m, n = Len(t), m = Len(b)
  PROVE  /\ t \o b \in Seq(Resources) /\ Len(t \o b) = n + m
         /\ \A i \in 1..n + m : (t \o b)[i] = IF i <= n THEN t[i] ELSE b[i - n]
BY ConcatProperties

(* The invariant says that a generator is clean.                           *)
LEMMA GenInvSuffices == GenInv => GeneratesCleanly
<1> SUFFICES ASSUME GenInv PROVE GeneratesCleanly
  OBVIOUS
<1>1. ASSUME NEW c \in Pair
      PROVE  Generator!IsPrefix(taken[c] \o Generator!Reverse(freed[c]), Order)
  <2> DEFINE t == taken[c]
             f == freed[c]
             n == Len(t)
             m == Len(f)
             b == Generator!Reverse(f)
             s == t \o b
  <2>1. t \in Seq(Resources) /\ f \in Seq(Resources) /\ InOrder(t, f)
    BY DEF GenInv, GenShapes, CallInv
  <2>2. n \in Nat /\ m \in Nat /\ n + m <= 3
        /\ (\A i \in 1..n : t[i] = Order[i]) /\ (\A j \in 1..m : f[j] = Order[n + m + 1 - j])
    <3>1. n \in Nat /\ m \in Nat
      BY <2>1
    <3>2. n + m <= 3 /\ (\A i \in 1..n : t[i] = Order[i])
          /\ (\A j \in 1..m : f[j] = Order[n + m + 1 - j])
      BY <2>1, Zenon DEF InOrder
    <3> QED
      BY <3>1, <3>2
  <2>3. b \in Seq(Resources) /\ Len(b) = m /\ \A i \in 1..m : b[i] = f[m - i + 1]
    <3>1. b = [i \in 1..m |-> f[(m - i) + 1]]
      BY DEF Generator!Reverse
    <3>2. \A i \in 1..m : f[(m - i) + 1] \in Resources
      BY <2>1, <2>2
    <3> HIDE DEF b, f, m
    <3>3. b \in Seq(Resources)
      BY <2>2, <3>1, <3>2, IsASeq
    <3>4. Len(b) = m /\ \A i \in 1..m : b[i] = f[(m - i) + 1]
      BY <2>2, <3>1, <3>3
    <3> QED
      BY <2>2, <3>3, <3>4
  <2> HIDE DEF b
  <2>4. s \in Seq(Resources) /\ Len(s) = n + m
        /\ (\A i \in 1..n : s[i] = t[i]) /\ (\A i \in n + 1..n + m : s[i] = b[i - n])
    <3> HIDE DEF t, f
    <3>1. /\ s \in Seq(Resources) /\ Len(s) = n + m
          /\ \A i \in 1..n + m : s[i] = IF i <= n THEN t[i] ELSE b[i - n]
      <4>1. t \in Seq(Resources) /\ b \in Seq(Resources) /\ Len(b) = m
        BY <2>1, <2>3
      <4> QED
        BY <4>1, Joined DEF s
    <3> HIDE DEF s, n, m
    <3>2. ASSUME NEW i \in n + 1..n + m PROVE s[i] = b[i - n]
      <4>1. i \in 1..n + m /\ ~(i <= n)
        BY <2>2
      <4> QED
        BY <3>1, <4>1
    <3>3. ASSUME NEW i \in 1..n PROVE s[i] = t[i]
      <4>1. i \in 1..n + m /\ i <= n
        BY <2>2
      <4> QED
        BY <3>1, <4>1
    <3> QED
      BY <3>1, <3>2, <3>3
  <2> HIDE DEF s, n, m, t, f
  <2>5. ASSUME NEW i \in 1..n + m PROVE s[i] = Order[i]
    <3>1. CASE i \in 1..n
      BY <2>2, <2>4, <3>1
    <3>2. CASE i \in n + 1..n + m
      <4> DEFINE j == m - (i - n) + 1
      <4>1. i - n \in 1..m /\ j \in 1..m /\ n + m + 1 - j = i
        BY <2>2, <3>2
      <4>2. s[i] = b[i - n] /\ b[i - n] = f[j] /\ f[j] = Order[n + m + 1 - j]
        BY <2>2, <2>3, <2>4, <3>2, <4>1
      <4> QED
        BY <4>1, <4>2
    <3> QED
      BY <2>2, <3>1, <3>2
  <2>6. Order \in Seq(Resources) /\ Len(Order) = 3
    BY DEF Order, Resources
  <2>7. SubSeq(s, 1, n + m) = SubSeq(Order, 1, n + m)
    <3>1. SubSeq(s, 1, n + m) = [i \in 1..n + m |-> s[i]]
      BY <2>2, <2>4
    <3>2. SubSeq(Order, 1, n + m) = [i \in 1..n + m |-> Order[i]]
      BY <2>2, <2>6
    <3> QED
      BY <2>5, <3>1, <3>2
  <2> QED
    BY <2>2, <2>4, <2>6, <2>7 DEF Generator!IsPrefix, s, b, t, f
<1>2. Generator!ReleasesInOrder
  <2>1. \A c \in Pair : at[c] = "returned" => taken[c] = <<>>
    BY DEF GenInv, CallInv
  <2> QED
    BY <1>1, <2>1 DEF Generator!ReleasesInOrder, Order
<1>3. Generator!OnlyChecked
  BY DEF Generator!OnlyChecked, GenInv, CallInv, Small, Phases
<1> QED
  BY <1>2, <1>3 DEF GeneratesCleanly, Generator!GeneratesCleanly, GenInv

-----------------------------------------------------------------------------
(* The profile.                                                            *)

Durations  == {"sleep", "panic"} \X Int
Typed(d)   == d.ms \in Int /\ d.min \in Int /\ d.max \in Int /\ d.seed \in Int
DelayOK(d) == d = Profile!NoDelay \/ (d \in Delays /\ Profile!validateStreamDelay(d))
Serving    == {"pc", "on", "ordinal", "pauses", "body"}

Numbered(s) == \A k \in DOMAIN s : s[k] = k
NumbersInv ==
  /\ tally \in [request : Nat, render : Nat]
  /\ arrivals \in Seq(Nat) /\ Len(arrivals) = tally.request /\ Numbered(arrivals)
  /\ renders \in Seq(Nat) /\ Len(renders) = tally.render /\ Numbered(renders)

(* Every copy of the profile's delay is one that was accepted.             *)
DelaysInv ==
  /\ DelayOK(profile)
  /\ DOMAIN listener = Listeners /\ \A l \in Listeners : DelayOK(listener[l].delay)

StreamInv(q) ==
  /\ DOMAIN q = Serving
  /\ DelayOK(q.on.delay) /\ q.ordinal \in Nat
  /\ q.pauses \in Seq(Durations)
  /\ q.pauses # <<>> => q.on.delay.mode # "unset"
  /\ \A k \in DOMAIN q.pauses : q.pauses[k] = Profile!Pause(q.on.delay, q.ordinal, k)
StreamsInv == DOMAIN stream = Pair /\ \A r \in Pair : StreamInv(stream[r])
ProfileInv == NumbersInv /\ DelaysInv /\ StreamsInv

(* A wrapped number is a number, and one that fits is not changed.         *)
LEMMA Wraps ==
  /\ Profile!Top \in Nat
  /\ \A n \in Int : Profile!Wrap(n) \in Int
  /\ \A n \in 0..Profile!Top : Profile!Wrap(n) = n
<1> DEFINE H == 2 ^ (Width - 1)
           T == Profile!Top
<1>1. H \in Nat \ {0} /\ 2 ^ Width = 2 * H /\ T = H - 1
  BY DelaysMeet DEF Profile!WidthOK, Profile!Top
<1>2. \A n : Profile!Wrap(n) = ((n + T + 1) % (2 * H)) - T - 1
  BY <1>1 DEF Profile!Wrap
<1> HIDE DEF H, T
<1>3. T \in Nat
  BY <1>1
<1>4. ASSUME NEW n \in Int PROVE Profile!Wrap(n) \in Int
  <2>1. (n + T + 1) % (2 * H) \in Int
    BY <1>1
  <2> QED
    BY <1>2, <1>3, <2>1
<1>5. ASSUME NEW n \in 0..T PROVE Profile!Wrap(n) = n
  <2>1. n + T + 1 \in 0..(2 * H) - 1
    BY <1>1
  <2>2. (n + T + 1) % (2 * H) = n + T + 1
    BY <1>1, <2>1
  <2> QED
    BY <1>2, <1>3, <2>2
<1> QED
  BY <1>3, <1>4, <1>5 DEF T

(* Accepted delays have their type.                                        *)
LEMMA DelaysTyped == ASSUME NEW d, DelayOK(d) PROVE Typed(d)
<1>1. CASE d = Profile!NoDelay
  BY <1>1 DEF Profile!NoDelay, Typed
<1>2. CASE d \in Delays
  BY <1>2, DelaysMeet DEF Profile!DelaysOK, Typed
<1> QED
  BY <1>1, <1>2 DEF DelayOK

(* What Intn returns is below its bound.                                   *)
LEMMA Draws ==
  ASSUME NEW s \in Int, NEW k \in Int, NEW n \in Nat \ {0}
  PROVE  Profile!Intn(s, k, n) \in 0..n - 1
<1>1. 2 * s + k * k \in Int
  OBVIOUS
<1> QED
  BY <1>1 DEF Profile!Intn

(* A pause is a duration.                                                  *)
LEMMA PausesTyped ==
  ASSUME NEW d, Typed(d), NEW ordinal \in Nat, NEW k \in Nat
  PROVE  Profile!Pause(d, ordinal, k) \in Durations
<1> DEFINE m == Profile!Wrap(d.max - d.min)
           n == Profile!Wrap(m + 1)
           x == Profile!Intn(Profile!streamSeed(d, ordinal), k, n)
<1>1. d.ms \in Int /\ d.min \in Int /\ d.max \in Int /\ d.seed \in Int /\ Tick \in Int
  BY DelaysMeet DEF Typed, Profile!WidthOK
<1>2. d.ms * Tick \in Int /\ d.min * Tick \in Int
  BY <1>1
<1>3. Profile!Wrap(d.ms * Tick) \in Int /\ Profile!Wrap(d.min * Tick) \in Int
  BY <1>2, Wraps
<1>4. m \in Int
  BY <1>1, Wraps
<1>5. n \in Int
  BY <1>4, Wraps
<1>6. Profile!streamSeed(d, ordinal) \in Int
  BY <1>1 DEF Profile!streamSeed
<1>7. ~(n <= 0) => x \in Int
  BY <1>5, <1>6, Draws
<1>8. ~(n <= 0) => (d.min + x) * Tick \in Int
  BY <1>1, <1>7
<1>9. ~(n <= 0) => Profile!Wrap((d.min + x) * Tick) \in Int
  BY <1>8, Wraps
<1>10. Profile!Pause(d, ordinal, k) =
         IF d.mode = "fixed" THEN <<"sleep", Profile!Wrap(d.ms * Tick)>>
         ELSE IF d.max = d.min THEN <<"sleep", Profile!Wrap(d.min * Tick)>>
         ELSE IF n <= 0 THEN <<"panic", 0>>
         ELSE <<"sleep", Profile!Wrap((d.min + x) * Tick)>>
  BY DEF Profile!Pause
<1> HIDE DEF m, n, x
<1> QED
  BY <1>3, <1>9, <1>10 DEF Durations

(* If no delay overflows, a pause is exactly a number of its range.        *)
LEMMA PausesFit ==
  ASSUME Profile!DelaysFit, NEW d \in Delays, Profile!validateStreamDelay(d), d.mode # "unset",
         NEW ordinal \in Nat, NEW k \in Nat
  PROVE  Profile!InRange(d, Profile!Pause(d, ordinal, k))
<1> DEFINE T == Profile!Top
           m == Profile!Wrap(d.max - d.min)
           n == Profile!Wrap(m + 1)
           x == Profile!Intn(Profile!streamSeed(d, ordinal), k, n)
<1>1. d.ms \in Int /\ d.min \in Int /\ d.max \in Int /\ d.seed \in Int /\ Tick \in Nat \ {0}
  BY DelaysMeet DEF Profile!DelaysOK, Profile!WidthOK
<1>2. T \in Nat /\ \A i \in 0..T : Profile!Wrap(i) = i
  BY Wraps
<1>3. d.ms * Tick <= T /\ d.max * Tick <= T /\ d.max < T
  BY DEF Profile!DelaysFit
<1>4. Profile!Pause(d, ordinal, k) =
         IF d.mode = "fixed" THEN <<"sleep", Profile!Wrap(d.ms * Tick)>>
         ELSE IF d.max = d.min THEN <<"sleep", Profile!Wrap(d.min * Tick)>>
         ELSE IF n <= 0 THEN <<"panic", 0>>
         ELSE <<"sleep", Profile!Wrap((d.min + x) * Tick)>>
  BY DEF Profile!Pause
<1>5. CASE d.mode = "fixed"
  <2>1. d.ms >= 0
    BY <1>5 DEF Profile!validateStreamDelay
  <2>2. d.ms * Tick \in 0..T
    <3>1. d.ms * Tick \in Nat
      BY <1>1, <2>1
    <3> QED
      BY <1>2, <1>3, <3>1
  <2>3. Profile!Pause(d, ordinal, k) = <<"sleep", d.ms * Tick>>
    BY <1>2, <1>4, <1>5, <2>2
  <2> QED
    BY <1>5, <2>3 DEF Profile!InRange
<1>6. CASE d.mode # "fixed"
  <2>1. d.min >= 0 /\ d.max >= d.min
    BY <1>6 DEF Profile!validateStreamDelay
  <2>2. ASSUME NEW i \in d.min..d.max PROVE i * Tick \in 0..T
    <3>1. i \in Nat /\ d.max - i \in Nat
      BY <1>1, <2>1
    <3>2. i * Tick \in Nat /\ (d.max - i) * Tick \in Nat
      BY <1>1, <3>1
    <3>3. (d.max - i) * Tick = d.max * Tick - i * Tick
      BY <1>1, <3>1
    <3>4. d.max * Tick \in Int
      BY <1>1
    <3> QED
      BY <1>2, <1>3, <3>2, <3>3, <3>4
  <2>3. ASSUME NEW i \in d.min..d.max
        PROVE  Profile!InRange(d, <<"sleep", Profile!Wrap(i * Tick)>>)
    <3>1. Profile!Wrap(i * Tick) = i * Tick
      BY <1>2, <2>2
    <3> QED
      BY <1>6, <3>1 DEF Profile!InRange
  <2>4. CASE d.max = d.min
    <3>1. d.min \in d.min..d.max
      BY <1>1, <2>4
    <3> QED
      BY <1>4, <1>6, <2>3, <2>4, <3>1
  <2>5. CASE d.max # d.min
    <3>1. d.max - d.min \in 0..T /\ d.max - d.min + 1 \in 0..T
      BY <1>1, <1>2, <1>3, <2>1
    <3>2. m = d.max - d.min
      BY <1>2, <3>1
    <3>3. n = d.max - d.min + 1
      BY <1>2, <3>1, <3>2
    <3>4. n \in Nat \ {0}
      BY <1>1, <2>1, <3>3
    <3>5. Profile!streamSeed(d, ordinal) \in Int
      BY <1>1 DEF Profile!streamSeed
    <3> HIDE DEF n
    <3>6. x \in 0..n - 1
      BY <3>4, <3>5, Draws
    <3> HIDE DEF x
    <3>7. d.min + x \in d.min..d.max
      BY <1>1, <3>3, <3>6
    <3>8. Profile!Pause(d, ordinal, k) = <<"sleep", Profile!Wrap((d.min + x) * Tick)>>
      BY <1>4, <1>6, <2>5, <3>4
    <3> QED
      BY <2>3, <3>7, <3>8
  <2> QED
    BY <2>4, <2>5
<1> QED
  BY <1>5, <1>6

(* A stream that has not started is one of no pauses.                      *)
LEMMA IdleStream == StreamInv(Profile!Idle)
<1> DEFINE q == Profile!Idle
<1>1. DOMAIN q = Serving /\ q.on = Profile!NoListener /\ q.ordinal = 0 /\ q.pauses = <<>>
  BY DEF Profile!Idle, Serving
<1>2. q.on.delay = Profile!NoDelay
  BY <1>1 DEF Profile!NoListener
<1> HIDE DEF q
<1>3. q.pauses \in Seq(Durations) /\ DOMAIN q.pauses = {}
  BY <1>1
<1> QED
  BY <1>1, <1>2, <1>3 DEF StreamInv, DelayOK, q

(* At the start nothing is counted and nobody is paced.                    *)
LEMMA InitProfileInv == Profile!Init => ProfileInv
<1> SUFFICES ASSUME Profile!Init PROVE ProfileInv
  OBVIOUS
<1>1. NumbersInv
  BY DEF Profile!Init, NumbersInv, Numbered
<1>2. DelaysInv
  BY DEF Profile!Init, DelaysInv, DelayOK, Profile!NoListener
<1>3. StreamsInv
  BY IdleStream DEF Profile!Init, StreamsInv
<1> QED
  BY <1>1, <1>2, <1>3 DEF ProfileInv

(* The next number goes to the end of the numbers.                         *)
LEMMA NextNumber ==
  ASSUME NEW s \in Seq(Nat), NEW n \in Nat, Len(s) = n, Numbered(s)
  PROVE  Append(s, n + 1) \in Seq(Nat) /\ Len(Append(s, n + 1)) = n + 1 /\ Numbered(Append(s, n + 1))
<1> DEFINE s1 == Append(s, n + 1)
<1>1. s1 \in Seq(Nat) /\ Len(s1) = n + 1 /\ s1[n + 1] = n + 1 /\ \A k \in 1..n : s1[k] = s[k]
  OBVIOUS
<1>2. DOMAIN s = 1..n
  OBVIOUS
<1>3. DOMAIN s1 = 1..n + 1
  BY <1>1
<1> HIDE DEF s1
<1>4. ASSUME NEW k \in 1..n + 1 PROVE s1[k] = k
  <2>1. CASE k = n + 1
    BY <1>1, <2>1
  <2>2. CASE k \in 1..n
    BY <1>1, <1>2, <2>2 DEF Numbered
  <2> QED
    BY <2>1, <2>2
<1> QED
  BY <1>1, <1>3, <1>4 DEF Numbered, s1

(* A step of one request leaves the others as they are.                    *)
LEMMA StreamKeeps ==
  ASSUME StreamsInv, NEW r \in Pair, NEW q1, stream' = [stream EXCEPT ![r] = q1], StreamInv(q1)
  PROVE  StreamsInv'
BY DEF StreamsInv

(* UpsertProfile stores what was accepted.                                 *)
LEMMA UpsertProfileKeeps ==
  ASSUME ProfileInv, NEW d \in Delays, Profile!UpsertProfile(d) PROVE ProfileInv'
<1>1. Profile!validateStreamDelay(d) /\ profile' = d
      /\ UNCHANGED <<listener, tally, stream, arrivals, renders>>
  BY DEF Profile!UpsertProfile
<1>2. DelaysInv'
  BY <1>1 DEF ProfileInv, DelaysInv, DelayOK
<1>3. NumbersInv' /\ StreamsInv'
  BY <1>1 DEF ProfileInv, NumbersInv, StreamsInv
<1> QED
  BY <1>2, <1>3 DEF ProfileInv

(* UpsertListener copies the stored profile and keeps the counters.        *)
LEMMA UpsertListenerKeeps ==
  ASSUME ProfileInv, NEW l \in Listeners, NEW t, Profile!UpsertListener(l, t) PROVE ProfileInv'
<1>1. listener' = [listener EXCEPT ![l] = [up |-> TRUE, delay |-> profile, template |-> t]]
      /\ UNCHANGED <<tally, profile, stream, arrivals, renders>>
  BY DEF Profile!UpsertListener, Profile!Count
<1>2. DelaysInv'
  BY <1>1 DEF ProfileInv, DelaysInv
<1>3. NumbersInv' /\ StreamsInv'
  BY <1>1 DEF ProfileInv, NumbersInv, StreamsInv
<1> QED
  BY <1>2, <1>3 DEF ProfileInv

(* IncrementProfileRequest: the next number, and the listener's delay.     *)
LEMMA IncrementKeeps ==
  ASSUME ProfileInv, NEW r \in Pair, NEW l \in Listeners, Profile!IncrementProfileRequest(r, l)
  PROVE  ProfileInv'
<1> DEFINE n == tally.request
           q1 == [Profile!Idle EXCEPT !.pc = "serving", !.on = listener[l], !.ordinal = n + 1]
<1>1. tally' = [tally EXCEPT !.request = @ + 1] /\ arrivals' = Append(arrivals, n + 1)
      /\ stream' = [stream EXCEPT ![r] = q1] /\ UNCHANGED <<profile, listener, renders>>
  BY DEF Profile!IncrementProfileRequest
<1>2. NumbersInv
  BY DEF ProfileInv
<1>3. n \in Nat /\ tally.render \in Nat
  BY <1>2 DEF NumbersInv
<1>4. tally' \in [request : Nat, render : Nat] /\ tally'.request = n + 1 /\ tally'.render = tally.render
  BY <1>1, <1>2 DEF NumbersInv
<1>5. arrivals' \in Seq(Nat) /\ Len(arrivals') = n + 1 /\ Numbered(arrivals')
  BY <1>1, <1>2, <1>3, NextNumber DEF NumbersInv
<1>6. NumbersInv'
  BY <1>1, <1>2, <1>4, <1>5 DEF NumbersInv
<1>7. DOMAIN q1 = Serving /\ q1.on = listener[l] /\ q1.ordinal = n + 1 /\ q1.pauses = <<>>
  BY DEF Profile!Idle, Serving
<1>8. StreamInv(q1)
  <2>1. DelayOK(listener[l].delay)
    BY DEF ProfileInv, DelaysInv
  <2> HIDE DEF q1
  <2>2. q1.pauses \in Seq(Durations) /\ DOMAIN q1.pauses = {}
    BY <1>7
  <2> QED
    BY <1>3, <1>7, <2>1, <2>2 DEF StreamInv
<1> HIDE DEF q1
<1>9. StreamsInv'
  BY <1>1, <1>8, StreamKeeps DEF ProfileInv
<1>10. DelaysInv'
  BY <1>1 DEF ProfileInv, DelaysInv
<1> QED
  BY <1>6, <1>9, <1>10 DEF ProfileInv

(* RenderBody: the next render.                                            *)
LEMMA RenderKeeps ==
  ASSUME ProfileInv, NEW r \in Pair, Profile!RenderBody(r) PROVE ProfileInv'
<1> DEFINE n == tally.render
<1>1. tally' = [tally EXCEPT !.render = @ + 1] /\ renders' = Append(renders, n + 1)
      /\ UNCHANGED <<profile, listener, arrivals>>
  BY DEF Profile!RenderBody
<1>2. PICK b : stream' = [stream EXCEPT ![r].body = b]
  BY DEF Profile!RenderBody
<1>3. NumbersInv
  BY DEF ProfileInv
<1>4. n \in Nat
  BY <1>3 DEF NumbersInv
<1>5. tally' \in [request : Nat, render : Nat] /\ tally'.render = n + 1 /\ tally'.request = tally.request
  <2>1. tally \in [request : Nat, render : Nat] /\ tally' = [tally EXCEPT !.render = @ + 1]
    BY <1>1, <1>3 DEF NumbersInv
  <2> QED
    BY <1>4, <2>1
<1>6. renders' \in Seq(Nat) /\ Len(renders') = n + 1 /\ Numbered(renders')
  BY <1>1, <1>3, <1>4, NextNumber DEF NumbersInv
<1>7. NumbersInv'
  BY <1>1, <1>3, <1>5, <1>6 DEF NumbersInv
<1> DEFINE q == stream[r]
           q1 == [q EXCEPT !.body = b]
<1>8. StreamInv(q)
  BY DEF ProfileInv, StreamsInv
<1>9. DOMAIN q1 = Serving /\ q1.on = q.on /\ q1.ordinal = q.ordinal /\ q1.pauses = q.pauses
  BY <1>8 DEF StreamInv, Serving
<1>10. stream' = [stream EXCEPT ![r] = q1]
  BY <1>2
<1> HIDE DEF q1
<1>11. StreamInv(q1)
  BY <1>8, <1>9 DEF StreamInv
<1>12. StreamsInv'
  BY <1>10, <1>11, StreamKeeps DEF ProfileInv
<1>13. DelaysInv'
  BY <1>1 DEF ProfileInv, DelaysInv
<1> QED
  BY <1>7, <1>12, <1>13 DEF ProfileInv

(* StreamDelay: the stream's next pause is drawn from its own generator.   *)
LEMMA StreamDelayKeeps ==
  ASSUME ProfileInv, NEW r \in Pair, Profile!StreamDelay(r) PROVE ProfileInv'
<1> DEFINE q == stream[r]
           n == Len(q.pauses)
           p == Profile!Pause(q.on.delay, q.ordinal, n + 1)
           pc1 == IF p[1] = "panic" THEN "dropped" ELSE "serving"
           q1 == [q EXCEPT !.pauses = Append(@, p), !.pc = pc1]
<1>1. StreamInv(q) /\ DOMAIN stream = Pair
  BY DEF ProfileInv, StreamsInv
<1>2. q.on.delay.mode # "unset" /\ UNCHANGED <<profile, listener, tally, arrivals, renders>>
  BY DEF Profile!StreamDelay
<1>3. stream' = [stream EXCEPT ![r].pauses = Append(@, p), ![r].pc = pc1]
  BY DEF Profile!StreamDelay, Profile!Draw
<1>4. q.pauses \in Seq(Durations) /\ n \in Nat /\ q.ordinal \in Nat /\ DelayOK(q.on.delay)
      /\ DOMAIN q = Serving /\ \A k \in 1..n : q.pauses[k] = Profile!Pause(q.on.delay, q.ordinal, k)
  BY <1>1 DEF StreamInv
<1>5. p \in Durations
  BY <1>4, DelaysTyped, PausesTyped
<1> HIDE DEF p, pc1
<1>6. stream' = [stream EXCEPT ![r] = q1]
  BY <1>1, <1>3, <1>4 DEF Serving
<1>7. DOMAIN q1 = Serving /\ q1.on = q.on /\ q1.ordinal = q.ordinal /\ q1.pauses = Append(q.pauses, p)
  BY <1>4 DEF Serving
<1> HIDE DEF q1
<1>8. q1.pauses \in Seq(Durations) /\ DOMAIN q1.pauses = 1..n + 1 /\ q1.pauses[n + 1] = p
      /\ \A k \in 1..n : q1.pauses[k] = q.pauses[k]
  BY <1>4, <1>5, <1>7
<1>9. ASSUME NEW k \in 1..n + 1 PROVE q1.pauses[k] = Profile!Pause(q.on.delay, q.ordinal, k)
  <2>1. CASE k = n + 1
    BY <1>8, <2>1 DEF p
  <2>2. CASE k \in 1..n
    BY <1>4, <1>8, <2>2
  <2> HIDE DEF n
  <2> QED
    BY <1>4, <2>1, <2>2
<1>10. StreamInv(q1)
  BY <1>2, <1>4, <1>7, <1>8, <1>9 DEF StreamInv
<1>11. StreamsInv'
  BY <1>6, <1>10, StreamKeeps DEF ProfileInv
<1>12. NumbersInv' /\ DelaysInv'
  BY <1>2 DEF ProfileInv, NumbersInv, DelaysInv
<1> QED
  BY <1>11, <1>12 DEF ProfileInv

(* End: the next request starts anew.                                      *)
LEMMA EndKeeps == ASSUME ProfileInv, NEW r \in Pair, Profile!End(r) PROVE ProfileInv'
<1>1. stream' = [stream EXCEPT ![r] = Profile!Idle]
      /\ UNCHANGED <<profile, listener, tally, arrivals, renders>>
  BY DEF Profile!End
<1>2. StreamsInv'
  BY <1>1, IdleStream, StreamKeeps DEF ProfileInv
<1>3. NumbersInv' /\ DelaysInv'
  BY <1>1 DEF ProfileInv, NumbersInv, DelaysInv
<1> QED
  BY <1>2, <1>3 DEF ProfileInv

(* Every step of the profile keeps the invariant.                          *)
LEMMA NextProfileInv == ASSUME ProfileInv, [Profile!Next]_pvars PROVE ProfileInv'
<1>1. CASE UNCHANGED pvars
  BY <1>1 DEF pvars, ProfileInv, NumbersInv, DelaysInv, StreamsInv
<1> QED
  BY <1>1, UpsertProfileKeeps, UpsertListenerKeeps, IncrementKeeps, RenderKeeps, StreamDelayKeeps,
     EndKeeps DEF Profile!Next

(* With delays that fit, the invariant says that the sequence holds.       *)
LEMMA ProfileInvSuffices == ASSUME Profile!DelaysFit, ProfileInv PROVE SequenceHolds
<1>1. Profile!RequestsNumbered /\ Profile!RendersNumbered
  BY DEF ProfileInv, NumbersInv, Numbered, Profile!RequestsNumbered, Profile!RendersNumbered
<1>2. Profile!PausesReproducible
  BY DEF ProfileInv, StreamsInv, StreamInv, Profile!PausesReproducible
<1>3. Profile!PausesInRange
  <2> SUFFICES ASSUME NEW r \in Pair, NEW k \in DOMAIN stream[r].pauses
               PROVE  Profile!InRange(stream[r].on.delay, stream[r].pauses[k])
    BY DEF Profile!PausesInRange
  <2> DEFINE q == stream[r]
             d == q.on.delay
  <2>1. StreamInv(q)
    BY DEF ProfileInv, StreamsInv
  <2>2. q.pauses \in Seq(Durations) /\ q.pauses # <<>> /\ k \in Nat
    BY <2>1 DEF StreamInv
  <2>3. DelayOK(d) /\ d.mode # "unset" /\ q.ordinal \in Nat
        /\ q.pauses[k] = Profile!Pause(d, q.ordinal, k)
    BY <2>1, <2>2 DEF StreamInv
  <2>4. d # Profile!NoDelay
    BY <2>3 DEF Profile!NoDelay
  <2>5. d \in Delays /\ Profile!validateStreamDelay(d)
    BY <2>3, <2>4 DEF DelayOK
  <2> HIDE DEF d, q
  <2>6. Profile!InRange(d, Profile!Pause(d, q.ordinal, k))
    BY <2>2, <2>3, <2>5, PausesFit
  <2> QED
    BY <2>3, <2>6 DEF d, q
<1> QED
  BY <1>1, <1>2, <1>3 DEF SequenceHolds, Profile!SequenceHolds

-----------------------------------------------------------------------------
(* The parts side by side.                                                 *)

(* Whichever part a behaviour is about, every part starts as it should.    *)
LEMMA InitAll == AnyInit => Init /\ Fixtures!Init /\ Generator!Init /\ Profile!Init
<1> SUFFICES ASSUME AnyInit PROVE Init /\ Fixtures!Init /\ Generator!Init /\ Profile!Init
  OBVIOUS
<1>1. Init
  BY DEF AnyInit
<1>2. Fixtures!Init
  BY DEF AnyInit
<1>3. Generator!Init
  BY DEF AnyInit
<1>4. Profile!Init
  BY DEF AnyInit
<1> QED
  BY <1>1, <1>2, <1>3, <1>4

(* A step is one of some part, and the others stand still.                 *)
LEMMA NextOfEach ==
  ASSUME [SelectNext]_svars
  PROVE  /\ [Next]_vars /\ [Fixtures!Next]_fvars
         /\ [Generator!Next]_gvars /\ [Profile!Next]_pvars
<1>1. [Next]_vars
  BY DEF SelectNext, svars
<1>2. [Fixtures!Next]_fvars
  BY DEF SelectNext, svars
<1>3. [Generator!Next]_gvars
  BY DEF SelectNext, svars
<1>4. [Profile!Next]_pvars
  BY DEF SelectNext, svars
<1> QED
  BY <1>1, <1>2, <1>3, <1>4

(* The invariants of the parts, together.                                  *)
SelectInv == IInv /\ FixtureInv /\ GenInv /\ ProfileInv
(* Every reachable state of the composed selectors satisfies SelectInv.    *)
THEOREM SelectInvariance == SelectSpec => []SelectInv
<1>1. AnyInit => SelectInv
  BY InitAll, InitIInv, InitFixtureInv, InitGenInv, InitProfileInv DEF SelectInv
<1>2. SelectInv /\ [SelectNext]_svars => SelectInv'
  <2> SUFFICES ASSUME SelectInv, [SelectNext]_svars PROVE SelectInv'
    OBVIOUS
  <2>1. IInv'
    BY NextOfEach, NextIInv DEF SelectInv
  <2>2. FixtureInv'
    BY NextOfEach, NextFixtureInv DEF SelectInv
  <2>3. GenInv'
    BY NextOfEach, NextGenInv DEF SelectInv
  <2>4. ProfileInv'
    BY NextOfEach, NextProfileInv DEF SelectInv
  <2> QED
    BY <2>1, <2>2, <2>3, <2>4 DEF SelectInv
<1> QED
  BY <1>1, <1>2, PTL DEF SelectSpec

(* The selector.wasm's fields and the locals of its calls have their       *)
(* types, and only one request is between Lock and Unlock.                 *)
THEOREM TypeCorrect == SelectSpec => []TypeOK
<1>1. SelectInv => TypeOK
  <2> SUFFICES ASSUME IInv PROVE TypeOK
    BY DEF SelectInv
  <2>1. calls \in 0..Len(script)
    BY CallsCounted
  <2>2. \A r \in Requests : result[r].id \in Ids \cup {Nobody}
    BY DEF IInv, Shapes, Result
  <2> QED
    BY <2>1, <2>2 DEF IInv, Shapes, Exclusive, TypeOK, Critical
<1> QED
  BY <1>1, SelectInvariance, PTL

(* However requests overlap and whatever the module answers, a request     *)
(* gets the answer to its own input, and no answer goes to two.            *)
THEOREM AnswersAreOwn == SelectSpec => []OwnAnswer
<1>1. SelectInv => OwnAnswer
  BY DEF SelectInv, IInv
<1> QED
  BY <1>1, SelectInvariance, PTL

(* First match wins in a fixtures.yaml, the first best in a legacy         *)
(* namespace, and a failing entry is logged once, whatever is swapped in   *)
(* the middle of a selection and whoever else selects.                     *)
THEOREM SelectionStaysRight == SelectSpec => []SelectionIsRight
<1>1. SelectInv => SelectionIsRight
  BY FixtureInvSuffices DEF SelectInv
<1> QED
  BY <1>1, SelectInvariance, PTL

(* No request ever pairs the fixtures of one swap with the selector of     *)
(* another.                                                                *)
THEOREM MatchersStayWhole == SelectSpec => []OneGeneration
<1>1. SelectInv => OneGeneration
  BY DEF SelectInv, FixtureInv
<1> QED
  BY <1>1, SelectInvariance, PTL

(* The counters of SequenceCounters implement the scripts: every index     *)
(* handed out is the one that StepScript prescribes next.                  *)
THEOREM RefinesScript == SelectSpec => ImplementsScript
<1>1. AnyInit => Script!ScriptInit
  BY InitAll DEF Fixtures!Init, Script!ScriptInit, Keys
<1>2. SelectInv /\ [SelectNext]_svars => [Script!ScriptNext]_handed
  BY NextOfEach, NextFixtureInv DEF SelectInv
<1> QED
  BY <1>1, <1>2, SelectInvariance, PTL DEF SelectSpec, ImplementsScript, Script!ScriptSpec

(* Whatever a generator's module does, whenever its deadline passes and    *)
(* the generator is closed: a call gives back what it took, in the order   *)
(* of its defers and once, no runtime is left behind, and only what was    *)
(* checked is returned.                                                    *)
THEOREM GeneratorsStayClean == SelectSpec => []GeneratesCleanly
<1>1. SelectInv => GeneratesCleanly
  BY GenInvSuffices DEF SelectInv
<1> QED
  BY <1>1, SelectInvariance, PTL

(* The numbers of a profile's requests and renders are gapless over all    *)
(* its listeners, and its pauses are those of its seed and in its range:   *)
(* under the condition that the run pause_overflow shows to be needed,     *)
(* that no accepted delay overflows.                                       *)
THEOREM OneSequence == ASSUME Profile!DelaysFit PROVE SelectSpec => []SequenceHolds
<1>1. SelectInv => SequenceHolds
  BY ProfileInvSuffices DEF SelectInv
<1> QED
  BY <1>1, SelectInvariance, PTL
=============================================================================
