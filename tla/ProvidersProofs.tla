-------------------------- MODULE ProvidersProofs --------------------------
(***************************************************************************)
(* Proofs about the routes of the providers, for texts of any length and   *)
(* sockets with any number of frames.                                      *)
(***************************************************************************)
EXTENDS MCProviders, FiniteSetTheorems, SequenceTheorems, TLAPS

avars == <<route, xvars, jvars, wvars>>

(* An instance counts as this module does.                                 *)
LEMMA SocketCounts == \A S : Socket!Cardinality(S) = Cardinality(S)
BY DEF Socket!Cardinality, Cardinality

-----------------------------------------------------------------------------
(* Counting the positions up to n at which something holds: T adds to S at *)
(* most the next position.                                                 *)
LEMMA CountNext ==
  ASSUME NEW n \in Nat, NEW S, S \subseteq 1..n, NEW T, T = S \/ T = S \cup {n + 1}
  PROVE  /\ Cardinality(S) \in Nat /\ Cardinality(S) <= n
         /\ Cardinality(T) = IF T = S THEN Cardinality(S) ELSE Cardinality(S) + 1
         /\ T = S \cup {n + 1} => n + 1 \notin S
<1>1. IsFiniteSet(1..n) /\ Cardinality(1..n) = n
  BY FS_Interval
<1>2. IsFiniteSet(S) /\ Cardinality(S) <= n
  BY <1>1, FS_Subset, ZenonT(60)
<1>3. Cardinality(S) \in Nat
  BY <1>2, FS_CardinalityType
<1>4. n + 1 \notin S
  BY SMT
<1>5. Cardinality(S \cup {n + 1}) = Cardinality(S) + 1
  BY <1>2, <1>4, FS_AddElement
<1> QED
  BY <1>2, <1>3, <1>4, <1>5, Zenon

-----------------------------------------------------------------------------
(* The WebSocket of /v1/responses.                                         *)

(* The events of one response: numbered from 0, the last one ends it.      *)
Ends  == {"response.completed", "response.failed"}
Types == Ends \cup {"response.created", "response.output_item.added", "response.output_text.delta",
                    "response.output_text.done", "response.output_item.done"}
Wired == [type : Types, n : Nat]
Response(ev) ==
  /\ ev \in Seq(Wired) /\ ev # <<>>
  /\ ev[1].n = 0
  /\ \A i \in DOMAIN ev : i > 1 => ev[i].n = ev[i - 1].n + 1
  /\ ev[Len(ev)].type \in Ends

(* What is left of a response: it goes on where the wire stands.           *)
Follows(ev) ==
  /\ ev \in Seq(Wired)
  /\ \A i \in DOMAIN ev : i > 1 => ev[i].n = ev[i - 1].n + 1
  /\ ev # <<>> => ev[Len(ev)].type \in Ends
  /\ ev # <<>> => \/ ev[1].n = 0 /\ (wire = <<>> \/ wire[Len(wire)].type \in Ends)
                  \/ wire # <<>> /\ ev[1].n = wire[Len(wire)].n + 1
  /\ ev = <<>> => wire = <<>> \/ wire[Len(wire)].type \in Ends

(* The frames that are in flight are the last ones sent.                   *)
Handled == Len(frames) - Len(inbox)
Pipelined ==
  /\ frames \in Seq(Socket!Kinds) /\ inbox \in Seq(Socket!Kinds)
  /\ Handled \in Nat
  /\ \A i \in DOMAIN inbox : inbox[i] = frames[Handled + i]

Counted ==
  /\ sent \in Nat /\ sent = Len(wire)
  /\ received \in Nat /\ received = Cardinality({i \in 1..Handled : frames[i] # "binary"})
  /\ at = "recorded" => record = [kind |-> IF status = 101 THEN "ws" ELSE "http",
                                  sent |-> sent, received |-> received]

WireInv ==
  /\ wire \in Seq(Wired)
  /\ at \in {"start", "read", "write", "returned", "recorded"}
  /\ at \in {"start", "read"} => events = <<>>
  /\ at \in {"start", "read", "write"} => Follows(events)
  /\ Socket!EventsInOrder

SocketInv == Pipelined /\ Counted /\ WireInv

(* Numbered gives a whole response if the last type ends it.               *)
LEMMA NumberedIsWhole ==
  ASSUME NEW types \in Seq(Types), NEW k \in Nat \ {0}, Len(types) = k, types[k] \in Ends
  PROVE  Response(Socket!Numbered(types))
<1> DEFINE ev == Socket!Numbered(types)
<1>1. /\ DOMAIN types = 1..k
      /\ \A i \in 1..k : types[i] \in Types
  OBVIOUS
<1>2. ev = [i \in 1..k |-> [type |-> types[i], n |-> i - 1]]
  BY <1>1 DEF Socket!Numbered, Socket!Event
<1>3. \A i \in 1..k : ev[i].type = types[i] /\ ev[i].n = i - 1
  BY <1>2
<1>4. \A i \in 1..k : ev[i] \in Wired
  BY <1>1, <1>2 DEF Wired
<1>5. ev \in [1..k -> Wired]
  BY <1>2, <1>4
<1> HIDE DEF ev
<1>6. ev \in Seq(Wired) /\ Len(ev) = k /\ DOMAIN ev = 1..k
  BY <1>5
<1>7. ev # <<>>
  BY <1>6
<1>8. Response(ev)
  BY <1>3, <1>6, <1>7 DEF Response
<1> QED
  BY <1>8 DEF ev

(* Whatever a request is answered with is one whole response.              *)
LEMMA FixedResponses ==
  /\ Response(Socket!prewarmResponseEvents)
  /\ Response(Socket!textResponseEvents)
  /\ Response(Socket!responseFailedEvents)
<1>1. Response(Socket!responseFailedEvents)
  <2> DEFINE types == <<"response.failed">>
  <2>1. types \in Seq(Types) /\ Len(types) = 1 /\ types[1] \in Ends
    BY DEF Ends, Types
  <2>2. Response(Socket!Numbered(types))
    <3> HIDE DEF types
    <3> QED
      BY <2>1, NumberedIsWhole
  <2> QED
    BY <2>2 DEF Socket!responseFailedEvents
<1>2. Response(Socket!prewarmResponseEvents)
  <2> DEFINE types == <<"response.created", "response.completed">>
  <2>1. types \in Seq(Types) /\ Len(types) = 2 /\ types[2] \in Ends
    BY DEF Ends, Types
  <2>2. Response(Socket!Numbered(types))
    <3> HIDE DEF types
    <3> QED
      BY <2>1, NumberedIsWhole
  <2> QED
    BY <2>2 DEF Socket!prewarmResponseEvents
<1>3. Response(Socket!textResponseEvents)
  <2> DEFINE types == <<"response.created", "response.output_item.added", "response.output_text.delta",
                        "response.output_text.done", "response.output_item.done", "response.completed">>
  <2>1. types \in Seq(Types) /\ Len(types) = 6 /\ types[6] \in Ends
    BY DEF Ends, Types
  <2>2. Response(Socket!Numbered(types))
    <3> HIDE DEF types
    <3>1. 6 \in Nat \ {0}
      OBVIOUS
    <3> QED
      BY <2>1, <3>1, NumberedIsWhole, Zenon
  <2> QED
    BY <2>2 DEF Socket!textResponseEvents
<1> QED
  BY <1>1, <1>2, <1>3

(* So is the array of a fixture.                                           *)
LEMMA FixtureResponses ==
  ASSUME NEW a \in SocketAnswers, a.kind \notin {"nothing", "exhausted", "selection_failed", "render_failed", "no_array"}
  PROVE  Response(a.events)
<1> DEFINE ev == <<[type |-> "response.created", n |-> 0], [type |-> "response.completed", n |-> 1]>>
<1>1. a.events = ev
  <2>1. a \in [kind : {"nothing", "exhausted", "selection_failed", "render_failed", "no_array"}, events : {<<>>}]
          => a.kind \in {"nothing", "exhausted", "selection_failed", "render_failed", "no_array"}
    OBVIOUS
  <2>2. a = [kind |-> "fixture", events |-> ev]
    BY <2>1 DEF SocketAnswers
  <2> HIDE DEF ev
  <2> QED
    BY <2>2
<1>2. /\ Len(ev) = 2 /\ DOMAIN ev = 1..2 /\ ev # <<>>
      /\ ev[1] = [type |-> "response.created", n |-> 0]
      /\ ev[2] = [type |-> "response.completed", n |-> 1]
  OBVIOUS
<1>3. ev \in Seq(Wired)
  BY DEF Wired, Types, Ends
<1> HIDE DEF ev
<1>4. \A i \in 1..2 : i > 1 => i = 2
  OBVIOUS
<1>5. ev[1].n = 0 /\ ev[2].n = 1 /\ ev[2].type \in Ends
  BY <1>2 DEF Ends, Types
<1>6. \A i \in DOMAIN ev : i > 1 => ev[i].n = ev[i - 1].n + 1
  BY <1>2, <1>4, <1>5
<1> QED
  BY <1>1, <1>2, <1>3, <1>5, <1>6 DEF Response

(* Before the upgrade there is nothing.                                    *)
LEMMA InitSocketInv == Socket!Init => SocketInv
<1> SUFFICES ASSUME Socket!Init PROVE SocketInv
  OBVIOUS
<1>1. Cardinality({i \in 1..0 : frames[i] # "binary"}) = 0
  <2>1. {i \in 1..0 : frames[i] # "binary"} = {}
    OBVIOUS
  <2> QED
    BY <2>1, FS_EmptySet, Zenon
<1>2. Pipelined /\ Handled = 0
  BY DEF Socket!Init, Pipelined, Handled
<1>3. Counted
  BY <1>1, <1>2 DEF Socket!Init, Counted
<1>4. WireInv
  BY DEF Socket!Init, WireInv, Follows, Socket!EventsInOrder
<1> QED
  BY <1>2, <1>3, <1>4 DEF SocketInv

(* A response begins where the last one is over.                           *)
LEMMA ResponseFollows ==
  ASSUME Follows(<<>>), NEW ev, Response(ev) PROVE Follows(ev)
<1>1. wire = <<>> \/ wire[Len(wire)].type \in Ends
  BY DEF Follows
<1> QED
  BY <1>1 DEF Follows, Response

(* Read: the first frame in flight is handled, and counted if it is text.  *)
LEMMA ReadKeeps == ASSUME SocketInv, Socket!Read PROVE SocketInv'
<1>1. /\ inbox' = Tail(inbox) /\ inbox # <<>> /\ at = "read"
      /\ UNCHANGED <<frames, wire, status, sent, record>>
  BY DEF Socket!Read
<1>2. /\ inbox \in Seq(Socket!Kinds) /\ Len(inbox) \in Nat \ {0} /\ frames \in Seq(Socket!Kinds)
      /\ Len(frames) \in Nat /\ Handled \in Nat
  BY <1>1 DEF SocketInv, Pipelined
<1>3. /\ inbox' \in Seq(Socket!Kinds) /\ Len(inbox') = Len(inbox) - 1
      /\ \A i \in DOMAIN inbox' : inbox'[i] = inbox[i + 1] /\ i + 1 \in DOMAIN inbox
  BY <1>1, <1>2
<1>4. Handled' = Handled + 1 /\ Handled' <= Len(frames)
  BY <1>1, <1>2, <1>3 DEF Handled
<1>5. Pipelined'
  <2>1. ASSUME NEW i \in DOMAIN inbox' PROVE inbox'[i] = frames[Handled + 1 + i]
    <3>1. inbox'[i] = inbox[i + 1] /\ i + 1 \in DOMAIN inbox /\ i \in Nat
      BY <1>3
    <3>2. inbox[i + 1] = frames[Handled + (i + 1)]
      BY <3>1 DEF SocketInv, Pipelined
    <3> QED
      BY <1>2, <3>1, <3>2
  <2> QED
    BY <1>1, <1>2, <1>3, <1>4, <2>1 DEF Pipelined
<1>6. Head(inbox) = frames[Handled + 1]
  <2>1. 1 \in DOMAIN inbox
    BY <1>2
  <2> QED
    BY <1>2, <2>1 DEF SocketInv, Pipelined
<1>7. Counted'
  <2> DEFINE S == {i \in 1..Handled : frames[i] # "binary"}
             T == {i \in 1..(Handled + 1) : frames[i] # "binary"}
  <2>1. T = IF frames[Handled + 1] # "binary" THEN S \cup {Handled + 1} ELSE S
    BY <1>2
  <2>2. S \subseteq 1..Handled
    OBVIOUS
  <2>3. Handled + 1 \notin S
    BY <1>2
  <2> HIDE DEF S, T
  <2>4. /\ Cardinality(S) \in Nat
        /\ Cardinality(T) = IF frames[Handled + 1] # "binary" THEN Cardinality(S) + 1 ELSE Cardinality(S)
    <3>1. T = S \/ T = S \cup {Handled + 1}
      BY <2>1
    <3>2. /\ Cardinality(S) \in Nat
          /\ Cardinality(T) = IF T = S THEN Cardinality(S) ELSE Cardinality(S) + 1
      BY <1>2, <2>2, <3>1, CountNext
    <3>3. T = S <=> ~(frames[Handled + 1] # "binary")
      BY <2>1, <2>3
    <3> QED
      BY <3>2, <3>3
  <2>5. received = Cardinality(S) /\ received \in Nat
    BY DEF SocketInv, Counted, S
  <2>6. received' = IF frames[Handled + 1] = "binary" THEN received ELSE received + 1
    BY <1>6 DEF Socket!Read, Socket!Received
  <2>7. received' = Cardinality(T) /\ received' \in Nat
    BY <2>4, <2>5, <2>6
  <2>8. at' # "recorded"
    BY <1>1 DEF Socket!Read, Socket!Answer
  <2>9. received' = Cardinality({i \in 1..Handled' : frames'[i] # "binary"})
    BY <1>1, <1>4, <2>7 DEF T
  <2> QED
    BY <1>1, <2>7, <2>8, <2>9 DEF SocketInv, Counted
<1>8. events = <<>> /\ Follows(<<>>)
  BY <1>1 DEF SocketInv, WireInv
<1>9. (at' = "write" /\ Response(events')) \/ UNCHANGED <<events, at>>
  <2>1. CASE Head(inbox) = "prewarm"
    BY <2>1, FixedResponses DEF Socket!Read, Socket!Answer
  <2>2. CASE Head(inbox) = "create"
    <3>1. at' = "write" /\ \E a \in SocketAnswers : Socket!responseCreateEvents(a)
      BY <2>2 DEF Socket!Read, Socket!Answer
    <3>2. Response(events')
      BY <3>1, FixedResponses, FixtureResponses DEF Socket!responseCreateEvents
    <3> QED
      BY <3>1, <3>2
  <2>3. CASE Head(inbox) \notin {"prewarm", "create"}
    BY <2>3 DEF Socket!Read, Socket!Answer
  <2> QED
    BY <2>1, <2>2, <2>3
<1>10. Follows(events')
  BY <1>8, <1>9, ResponseFollows
<1>12. WireInv'
  <2>1. Socket!EventsInOrder' /\ wire' \in Seq(Wired)
    BY <1>1 DEF SocketInv, WireInv, Socket!EventsInOrder
  <2>2. at' \in {"read", "write"} /\ (at' = "read" => events' = <<>>)
    BY <1>1, <1>8, <1>9
  <2>3. Follows(events)'
    BY <1>1, <1>10 DEF Follows
  <2> QED
    BY <2>1, <2>2, <2>3 DEF WireInv
<1> QED
  BY <1>5, <1>7, <1>12 DEF SocketInv

(* A write: the wire has one event more, or the connection is over.        *)
LEMMA WriteKeeps == ASSUME SocketInv, Socket!writeResponseEvents PROVE SocketInv'
<1>1. /\ at = "write" /\ events # <<>> /\ UNCHANGED <<frames, inbox, status, received, record>>
      /\ \/ at' = "write" /\ wire' = Append(wire, Head(events)) /\ events' = Tail(events) /\ sent' = sent + 1
         \/ at' = "returned" /\ UNCHANGED <<wire, events, sent>>
  BY DEF Socket!writeResponseEvents
<1>2. Pipelined'
  BY <1>1 DEF SocketInv, Pipelined, Handled
<1>3. wire \in Seq(Wired) /\ Len(wire) \in Nat /\ events \in Seq(Wired) /\ Len(events) \in Nat \ {0}
  BY <1>1 DEF SocketInv, WireInv, Follows
<1>4. Counted'
  <2>1. sent' \in Nat /\ sent' = Len(wire')
    BY <1>1, <1>3 DEF SocketInv, Counted
  <2>2. received' = Cardinality({i \in 1..Handled' : frames'[i] # "binary"})
    BY <1>1 DEF SocketInv, Counted, Handled
  <2> QED
    BY <1>1, <2>1, <2>2 DEF SocketInv, Counted
<1>5. CASE UNCHANGED <<wire, events>> /\ at' = "returned"
  BY <1>2, <1>4, <1>5 DEF SocketInv, WireInv, Socket!EventsInOrder
<1>6. CASE at' = "write" /\ wire' = Append(wire, Head(events)) /\ events' = Tail(events)
  <2>1. /\ wire' \in Seq(Wired) /\ Len(wire') = Len(wire) + 1
        /\ wire'[Len(wire')] = events[1]
        /\ DOMAIN wire' = 1..(Len(wire) + 1) /\ wire' # <<>>
        /\ \A i \in 1..Len(wire) : wire'[i] = wire[i]
    BY <1>3, <1>6
  <2>2. /\ events' \in Seq(Wired) /\ Len(events') = Len(events) - 1
        /\ DOMAIN events' = 1..(Len(events) - 1)
        /\ \A i \in DOMAIN events' : events'[i] = events[i + 1]
    BY <1>3, <1>6
  <2>3. Follows(events)
    BY <1>1 DEF SocketInv, WireInv
  <2>4. \A i \in 1..Len(events) : i > 1 => events[i].n = events[i - 1].n + 1
    <3>1. DOMAIN events = 1..Len(events)
      BY <1>3
    <3> QED
      BY <2>3, <3>1 DEF Follows
  <2>5. \A i \in DOMAIN events' : i > 1 => events'[i].n = events'[i - 1].n + 1
    <3>1. ASSUME NEW i \in DOMAIN events', i > 1 PROVE events'[i].n = events'[i - 1].n + 1
      <4>1. i \in 2..(Len(events) - 1) /\ i - 1 \in DOMAIN events' /\ i + 1 \in 1..Len(events) /\ (i + 1) - 1 = i
        BY <1>3, <2>2, <3>1
      <4>2. events'[i] = events[i + 1] /\ events'[i - 1] = events[i]
        BY <2>2, <4>1
      <4>3. events[i + 1].n = events[(i + 1) - 1].n + 1
        BY <2>4, <4>1
      <4> QED
        BY <4>1, <4>2, <4>3
    <3> QED
      BY <3>1
  <2>6. events[Len(events)].type \in Ends
    BY <1>1, <2>3 DEF Follows
  <2>7. events' # <<>> => /\ events'[Len(events')].type \in Ends
                          /\ events'[1].n = wire'[Len(wire')].n + 1
    <3> SUFFICES ASSUME events' # <<>> PROVE /\ events'[Len(events')].type \in Ends
                                             /\ events'[1].n = wire'[Len(wire')].n + 1
      OBVIOUS
    <3>1. Len(events) >= 2 /\ 1 \in DOMAIN events' /\ Len(events') \in DOMAIN events'
      BY <1>3, <2>2
    <3>2. events'[1] = events[2] /\ events'[Len(events')] = events[Len(events)]
      BY <1>3, <2>2, <3>1
    <3>3. events[2].n = events[1].n + 1
      BY <1>3, <2>4, <3>1
    <3> QED
      BY <2>1, <2>6, <3>2, <3>3
  <2>8. events' = <<>> => wire'[Len(wire')].type \in Ends
    <3>1. events' = <<>> => Len(events) = 1
      BY <1>3, <2>2
    <3> QED
      BY <2>1, <2>6, <3>1, Zenon
  <2>9. Follows(events)'
    BY <2>1, <2>2, <2>5, <2>7, <2>8 DEF Follows
  <2>10. \/ events[1].n = 0 /\ (wire = <<>> \/ wire[Len(wire)].type \in Ends)
         \/ wire # <<>> /\ events[1].n = wire[Len(wire)].n + 1
    BY <1>1, <2>3 DEF Follows
  <2>11. Socket!EventsInOrder'
    <3> SUFFICES ASSUME NEW i \in DOMAIN wire'
                 PROVE  IF i = 1 THEN wire'[i].n = 0
                        ELSE \/ wire'[i].n = wire'[i - 1].n + 1
                             \/ wire'[i].n = 0 /\ wire'[i - 1].type \in {"response.completed", "response.failed"}
      BY DEF Socket!EventsInOrder
    <3>1. CASE i <= Len(wire)
      <4>1. i \in DOMAIN wire /\ wire'[i] = wire[i] /\ (i # 1 => wire'[i - 1] = wire[i - 1])
        BY <1>3, <2>1, <3>1
      <4> QED
        BY <4>1 DEF SocketInv, WireInv, Socket!EventsInOrder
    <3>2. CASE i = Len(wire) + 1
      <4>1. wire'[i] = events[1]
        BY <2>1, <3>2
      <4>2. CASE wire = <<>>
        BY <2>10, <3>2, <4>1, <4>2
      <4>3. CASE wire # <<>>
        <5>1. Len(wire) \in 1..Len(wire) /\ i # 1 /\ i - 1 = Len(wire)
          BY <1>3, <3>2, <4>3
        <5>2. wire'[i - 1] = wire[Len(wire)]
          BY <2>1, <5>1
        <5> QED
          BY <2>10, <4>1, <4>3, <5>1, <5>2 DEF Ends
      <4> QED
        BY <4>2, <4>3
    <3> QED
      BY <1>3, <2>1, <3>1, <3>2
  <2> QED
    BY <1>2, <1>4, <1>6, <2>1, <2>9, <2>11 DEF SocketInv, WireInv
<1> QED
  BY <1>1, <1>5, <1>6

(* The client sends: what it has in flight stays at the end.               *)
LEMMA SendKeeps == ASSUME SocketInv, NEW k \in Socket!Kinds, Socket!ClientSends(k) PROVE SocketInv'
<1>1. /\ inbox' = Append(inbox, k) /\ frames' = Append(frames, k)
      /\ UNCHANGED <<events, wire, at, status, received, sent, record>>
  BY DEF Socket!ClientSends
<1>2. /\ inbox \in Seq(Socket!Kinds) /\ Len(inbox) \in Nat /\ frames \in Seq(Socket!Kinds)
      /\ Len(frames) \in Nat /\ Handled \in Nat /\ Len(frames) = Handled + Len(inbox)
  BY DEF SocketInv, Pipelined, Handled
<1>3. /\ Len(inbox') = Len(inbox) + 1 /\ Len(frames') = Len(frames) + 1
      /\ inbox' \in Seq(Socket!Kinds) /\ frames' \in Seq(Socket!Kinds)
      /\ DOMAIN inbox' = 1..(Len(inbox) + 1)
      /\ \A i \in 1..Len(inbox) : inbox'[i] = inbox[i]
      /\ \A i \in 1..Len(frames) : frames'[i] = frames[i]
      /\ inbox'[Len(inbox) + 1] = k /\ frames'[Len(frames) + 1] = k
  <2> DEFINE A == Socket!Kinds
  <2>1. inbox \in Seq(A) /\ frames \in Seq(A) /\ k \in A
    BY <1>2
  <2> HIDE DEF A
  <2>2. /\ Len(inbox') = Len(inbox) + 1 /\ inbox' \in Seq(A) /\ DOMAIN inbox' = 1..(Len(inbox) + 1)
        /\ \A i \in 1..Len(inbox) : inbox'[i] = inbox[i]
        /\ inbox'[Len(inbox) + 1] = k
    BY <1>1, <2>1
  <2>3. /\ Len(frames') = Len(frames) + 1 /\ frames' \in Seq(A)
        /\ \A i \in 1..Len(frames) : frames'[i] = frames[i]
        /\ frames'[Len(frames) + 1] = k
    BY <1>1, <2>1
  <2> QED
    BY <2>2, <2>3 DEF A
<1>4. Handled' = Handled
  BY <1>2, <1>3 DEF Handled
<1>5. ASSUME NEW i \in DOMAIN inbox' PROVE inbox'[i] = frames'[Handled + i]
  <2>1. CASE i = Len(inbox) + 1
    BY <1>2, <1>3, <2>1
  <2>2. CASE i \in 1..Len(inbox)
    <3>1. Handled + i \in 1..Len(frames)
      BY <1>2, <2>2
    <3>2. inbox[i] = frames[Handled + i]
      BY <1>2, <2>2 DEF SocketInv, Pipelined
    <3> QED
      BY <1>3, <2>2, <3>1, <3>2
  <2> QED
    BY <1>2, <1>3, <2>1, <2>2
<1>6. Pipelined'
  BY <1>2, <1>3, <1>4, <1>5 DEF Pipelined
<1>7. Counted'
  <2>1. {i \in 1..Handled : frames'[i] # "binary"} = {i \in 1..Handled : frames[i] # "binary"}
    BY <1>2, <1>3
  <2> QED
    BY <1>1, <1>4, <2>1 DEF SocketInv, Counted
<1>8. WireInv'
  BY <1>1 DEF SocketInv, WireInv, Follows, Socket!EventsInOrder
<1> QED
  BY <1>6, <1>7, <1>8 DEF SocketInv

(* The other steps of the handler and of the network.                      *)
LEMMA SocketNextKeeps == ASSUME SocketInv, [Socket!Next]_wvars PROVE SocketInv'
<1>1. CASE /\ UNCHANGED <<frames, inbox, received, sent, wire>>
           /\ at' \in {"read", "returned"} /\ at \in {"start", "read"} /\ events' = events
  <2>1. Pipelined' /\ Counted'
    BY <1>1 DEF SocketInv, Pipelined, Counted, Handled
  <2>2. Follows(events)' = Follows(events) /\ Socket!EventsInOrder' = Socket!EventsInOrder
    BY <1>1 DEF Follows, Socket!EventsInOrder
  <2> QED
    BY <1>1, <2>1, <2>2 DEF SocketInv, WireInv
<1>2. CASE Socket!Refuse \/ Socket!Upgrade \/ Socket!ReadFails
  BY <1>1, <1>2 DEF Socket!Refuse, Socket!Upgrade, Socket!ReadFails
<1>3. CASE Socket!Written
  <2>1. UNCHANGED <<frames, inbox, status, received, sent, record, wire, events>> /\ at = "write" /\ at' = "read"
        /\ events = <<>>
    BY <1>3 DEF Socket!Written
  <2>2. Pipelined' /\ Counted'
    BY <2>1 DEF SocketInv, Pipelined, Counted, Handled
  <2>3. Follows(events)' = Follows(events) /\ Socket!EventsInOrder' = Socket!EventsInOrder
    BY <2>1 DEF Follows, Socket!EventsInOrder
  <2> QED
    BY <2>1, <2>2, <2>3 DEF SocketInv, WireInv
<1>4. CASE Socket!Record
  <2>1. UNCHANGED <<frames, inbox, status, received, sent, wire, events>> /\ at = "returned" /\ at' = "recorded"
        /\ record' = [kind |-> IF status = 101 THEN "ws" ELSE "http", sent |-> sent, received |-> received]
    BY <1>4 DEF Socket!Record
  <2>2. Pipelined' /\ Counted'
    BY <2>1 DEF SocketInv, Pipelined, Counted, Handled
  <2>3. Socket!EventsInOrder' = Socket!EventsInOrder
    BY <2>1 DEF Socket!EventsInOrder
  <2> QED
    BY <2>1, <2>2, <2>3 DEF SocketInv, WireInv
<1>5. CASE Socket!Break \/ UNCHANGED wvars
  <2>1. UNCHANGED <<frames, inbox, status, received, sent, record, wire, at, events>>
    BY <1>5 DEF Socket!Break, Socket!handler, wvars
  <2>2. Pipelined' /\ Counted'
    BY <2>1 DEF SocketInv, Pipelined, Counted, Handled
  <2>3. Follows(events)' = Follows(events) /\ Socket!EventsInOrder' = Socket!EventsInOrder
    BY <2>1 DEF Follows, Socket!EventsInOrder
  <2> QED
    BY <2>1, <2>2, <2>3 DEF SocketInv, WireInv
<1> QED
  BY <1>2, <1>3, <1>4, <1>5, ReadKeeps, WriteKeeps, SendKeeps
     DEF Socket!Next, Socket!Handler, Socket!Done, Socket!vars, wvars

(* Every route leaves the variables of the socket alone, or is the socket. *)
LEMMA SocketSteps == ASSUME [AnyNext]_avars PROVE [Socket!Next]_wvars
BY DEF AnyNext, avars

(* Every state of a connection satisfies SocketInv.                        *)
LEMMA SocketInvariance == AnySpec => []SocketInv
<1>1. AnyInit => SocketInv
  BY InitSocketInv DEF AnyInit
<1>2. SocketInv /\ [AnyNext]_avars => SocketInv'
  BY SocketSteps, SocketNextKeeps
<1> QED
  BY <1>1, <1>2, PTL DEF AnySpec, avars

(* The record of a connection tells the frames that were written and the   *)
(* text frames that were read, and responses are never mixed: for any      *)
(* number of frames, sent at any time, and whenever the connection breaks  *)
(* (handleResponses, recordingMiddleware).                                 *)
THEOREM SocketStaysInOrder == AnySpec => []SocketInOrder
<1>1. SocketInv => SocketInOrder
  <2> SUFFICES ASSUME SocketInv PROVE Socket!RecordIsExact /\ Socket!EventsInOrder
    BY DEF SocketInOrder
  <2>1. Socket!EventsInOrder
    BY DEF SocketInv, WireInv
  <2>2. Socket!RecordIsExact
    <3> DEFINE S == {i \in 1..Handled : frames[i] # "binary"}
    <3>1. Socket!Cardinality(S) = received
      BY SocketCounts DEF SocketInv, Counted
    <3>2. S = {i \in 1..(Len(frames) - Len(inbox)) : frames[i] # "binary"}
      BY DEF Handled
    <3>3. received = Socket!Cardinality({i \in 1..(Len(frames) - Len(inbox)) : frames[i] # "binary"})
      BY <3>1, <3>2, Zenon
    <3> QED
      BY <3>3 DEF SocketInv, Counted, Socket!RecordIsExact
  <2> QED
    BY <2>1, <2>2
<1> QED
  BY <1>1, SocketInvariance, PTL

-----------------------------------------------------------------------------
(* What an answer costs, on every route.                                   *)
IsForced == profile.backend = "error" /\ profile.errorType # "none"
Fixtured == profile.backend \in {"fixture", "hybrid"}

(* A request that must reach no source: it has a fault, or asks for        *)
(* something that needs none.                                              *)
Barred ==
  CASE route = "openai"    -> OpenAI!Faulty(OpenAI!Checks)
    [] route = "anthropic" -> Anthropic!Faulty(Anthropic!Checks)
    [] route = "gemini"    -> ~Gemini!Generates \/ Gemini!Faulty(Gemini!Checks)
    [] route = "ollama"    -> Ollama!LoadsModel \/ Ollama!Faulty(Ollama!Checks)
    [] route = "post"      -> Post!Faulty(Post!Checks)
    [] route = "systemone" -> Judge!Faulty(Judge!Checks)
    [] OTHER               -> FALSE

Costs(m, r, t, b) == used["match"] = m /\ used["render"] = r /\ used["tool"] = t /\ used["backend"] = b

Matches == {"none", "found", "exhausted", "failed"}
CostInv ==
  /\ route \in Routes
  /\ route # "socket" => fixture.match \in Matches
  /\ used \in [{"match", "render", "tool", "backend"} -> Nat]
  /\ IsForced \/ Barred => Costs(0, 0, 0, 0) /\ pc \in {"start", "done"}
  /\ pc = "start" => Costs(0, 0, 0, 0)
  /\ pc = "select" => Costs(0, 0, 0, 0) /\ Fixtured
  /\ pc = "render" => Costs(1, 0, 0, 0) /\ fixture.match # "none"
  /\ pc = "serve" => used["match"] = 1 /\ used["render"] <= 1 /\ used["tool"] = 0 /\ used["backend"] = 0
  /\ pc = "route" => /\ used["match"] <= 1 /\ used["render"] = 0 /\ used["tool"] = 0 /\ used["backend"] = 0
                     /\ Fixtured => fixture.match = "none"
  /\ used["render"] <= used["match"] /\ used["match"] <= 1
  /\ used["tool"] + used["backend"] <= 1
  /\ fixture.match # "none" /\ Fixtured => used["tool"] + used["backend"] = 0

(* What a step of any route may cost.                                      *)
Spends(what) == used' = [used EXCEPT ![what] = @ + 1]
CostStep ==
  /\ UNCHANGED <<route, req, profile, fixture>>
  /\ \/ UNCHANGED <<used, pc>>
     \/ UNCHANGED used /\ pc' = "done"
     \/ UNCHANGED used /\ pc = "start" /\ ~IsForced /\ ~Barred /\ pc' = IF Fixtured THEN "select" ELSE "route"
     \/ UNCHANGED used /\ pc = "serve" /\ pc' = "fixture_stream"
     \/ /\ Spends("match") /\ pc = "select"
        /\ \/ pc' = "done"
           \/ pc' = "route" /\ fixture.match = "none"
           \/ pc' = "render" /\ fixture.match # "none"
     \/ Spends("render") /\ pc = "render" /\ pc' \in {"serve", "done"}
     \/ UNCHANGED used /\ pc = "render" /\ pc' = "serve"
     \/ (Spends("tool") \/ Spends("backend")) /\ pc = "route" /\ pc' \in {"stream", "done"}

(* Nothing is spent before the first check.                                *)
LEMMA InitCostInv == AnyInit => CostInv
<1> SUFFICES ASSUME AnyInit PROVE CostInv
  OBVIOUS
<1>1. used = [s \in {"match", "render", "tool", "backend"} |-> 0] /\ pc \in {"start", "done"}
  BY DEF AnyInit, Routes, NoExchange, OpenAI!ExchangeInit, Anthropic!ExchangeInit, Gemini!ExchangeInit,
         Ollama!ExchangeInit, Post!ExchangeInit, Judge!Init, Judge!ExchangeInit, Scheme!Sources,
         OpenAI!Sources, Anthropic!Sources, Gemini!Sources, Ollama!Sources, Post!Sources, Judge!Sources
<1>2. route # "socket" => fixture \in MCFixtures \cup PostFixtures \cup JudgeFixtures
  BY DEF AnyInit, Routes, OpenAI!ExchangeInit, Anthropic!ExchangeInit, Gemini!ExchangeInit,
         Ollama!ExchangeInit, Post!ExchangeInit, Judge!Init, Judge!ExchangeInit
<1>3. fixture \in MCFixtures \cup PostFixtures \cup JudgeFixtures => fixture.match \in Matches
  <2>1. fixture \in MCFixtures => fixture.match \in Matches
    BY DEF MCFixtures, Unfound, Matches
  <2>2. fixture \in PostFixtures => fixture.match \in Matches
    <3>1. fixture \in [match : {"found"}, template : {"ok"}, status : {200, 429}, array : {TRUE}, events : MCEvents]
            => fixture.match = "found"
      OBVIOUS
    <3>2. fixture \in [match : {"found"}, template : {"none", "bad"}, status : {200, 429}, array : {FALSE}, events : {<<>>}]
            => fixture.match = "found"
      OBVIOUS
    <3>3. fixture \in {Unfound("none"), Unfound("exhausted"), Unfound("failed")} => fixture.match \in Matches
      BY DEF Unfound, Matches
    <3> QED
      BY <3>1, <3>2, <3>3, ZenonT(60) DEF PostFixtures, Matches
  <2>3. fixture \in JudgeFixtures => fixture.match \in Matches
    BY DEF JudgeFixtures, Fixture, Matches
  <2> QED
    BY <2>1, <2>2, <2>3
<1> QED
  BY <1>1, <1>2, <1>3 DEF AnyInit, CostInv, Costs

(* What bars a request does not change, since the request does not.        *)
LEMMA BarredStays == ASSUME UNCHANGED <<route, req>> PROVE Barred' = Barred
BY DEF Barred, OpenAI!Faulty, Anthropic!Faulty, Gemini!Faulty, Gemini!Generates, Ollama!Faulty,
       Ollama!LoadsModel, Post!Faulty, Judge!Faulty, OpenAI!Checks, Anthropic!Checks, Gemini!Checks,
       Ollama!Checks, Post!Checks, Judge!Checks

(* A step within these costs keeps the invariant.                          *)
LEMMA CostStepKeeps == ASSUME CostInv, CostStep PROVE CostInv'
<1>1. Barred' = Barred /\ IsForced' = IsForced /\ Fixtured' = Fixtured /\ UNCHANGED <<route, fixture>>
  BY BarredStays DEF CostStep, IsForced, Fixtured
<1>2. CASE UNCHANGED used
  <2>1. CASE UNCHANGED pc \/ pc' = "done"
    BY <1>1, <1>2, <2>1 DEF CostInv, Costs
  <2>2. CASE pc = "start" /\ ~IsForced /\ ~Barred /\ pc' = IF Fixtured THEN "select" ELSE "route"
    <3>1. Costs(0, 0, 0, 0) /\ Costs(0, 0, 0, 0)'
      BY <1>2, <2>2 DEF CostInv, Costs
    <3> QED
      BY <1>1, <1>2, <2>2, <3>1 DEF CostInv, Costs
  <2>3. CASE pc = "serve" /\ pc' = "fixture_stream"
    BY <1>1, <1>2, <2>3 DEF CostInv, Costs
  <2>4. CASE pc = "render" /\ pc' = "serve"
    BY <1>1, <1>2, <2>4 DEF CostInv, Costs
  <2> QED
    BY <1>2, <2>1, <2>2, <2>3, <2>4 DEF CostStep, Spends, CostInv
<1>3. CASE Spends("match") /\ pc = "select"
  BY <1>1, <1>3 DEF CostInv, CostStep, Costs, Spends
<1>4. CASE Spends("render") /\ pc = "render"
  BY <1>1, <1>4 DEF CostInv, CostStep, Costs, Spends
<1>5. CASE (Spends("tool") \/ Spends("backend")) /\ pc = "route"
  BY <1>1, <1>5 DEF CostInv, CostStep, Costs, Spends
<1> QED
  BY <1>2, <1>3, <1>4, <1>5 DEF CostStep

(* The steps of each handler are within these costs.                       *)
LEMMA OpenAICosts == ASSUME route = "openai", CostInv, OpenAI!Next, UNCHANGED route PROVE CostStep
<1> USE DEF CostStep, Spends, IsForced, Fixtured, OpenAI!At, OpenAI!Forced, OpenAI!UsesFixtures
<1>1. Barred = (OpenAI!Faulty(OpenAI!Checks)) /\ fixture.match \in Matches
  BY DEF Barred, CostInv
<1>2. CASE OpenAI!handleChatCompletions
  BY <1>1, <1>2 DEF OpenAI!handleChatCompletions, OpenAI!Force, OpenAI!Refuse, OpenAI!Admit, OpenAI!Body
<1>3. CASE OpenAI!Match(500)
  BY <1>1, <1>3 DEF OpenAI!Match, OpenAI!Body, OpenAI!Use, Matches
<1>4. CASE OpenAI!RenderBody
  BY <1>1, <1>4 DEF OpenAI!RenderBody, OpenAI!Body, OpenAI!Use
<1>5. CASE OpenAI!serveFixture
  BY <1>1, <1>5 DEF OpenAI!serveFixture, OpenAI!Verbatim, OpenAI!Body, OpenAI!OpenFixture
<1>6. CASE OpenAI!streamResponse \/ OpenAI!streamChatCompletions
  BY <1>1, <1>6 DEF OpenAI!streamResponse, OpenAI!streamChatCompletions, OpenAI!StreamWrite, OpenAI!Finish
<1>7. CASE OpenAI!serveToolCallResponse
  BY <1>1, <1>7 DEF OpenAI!serveToolCallResponse, OpenAI!streamToolCallCompletions, OpenAI!Body, OpenAI!Use
<1>8. CASE OpenAI!generate
  BY <1>1, <1>8 DEF OpenAI!generate, OpenAI!OpenBackend, OpenAI!Tokens, OpenAI!Body, OpenAI!Use
<1>9. CASE OpenAI!WriteNext("sse") \/ OpenAI!ClientLeaves \/ OpenAI!Done
  BY <1>1, <1>9 DEF OpenAI!WriteNext, OpenAI!ClientLeaves, OpenAI!Done, OpenAI!vars
<1> QED
  BY <1>2, <1>3, <1>4, <1>5, <1>6, <1>7, <1>8, <1>9 DEF OpenAI!Next, OpenAI!Handle, OpenAI!renderFixtureBody

(* Anthropic.                                                              *)
LEMMA AnthropicCosts == ASSUME route = "anthropic", CostInv, Anthropic!Next, UNCHANGED route PROVE CostStep
<1> USE DEF CostStep, Spends, IsForced, Fixtured, Anthropic!At, Anthropic!Forced, Anthropic!UsesFixtures
<1>1. Barred = (Anthropic!Faulty(Anthropic!Checks)) /\ fixture.match \in Matches
  BY DEF Barred, CostInv
<1>2. CASE Anthropic!handleMessages
  BY <1>1, <1>2 DEF Anthropic!handleMessages, Anthropic!Force, Anthropic!Refuse, Anthropic!Admit, Anthropic!Body
<1>3. CASE Anthropic!Match(500)
  BY <1>1, <1>3 DEF Anthropic!Match, Anthropic!Body, Anthropic!Use, Matches
<1>4. CASE Anthropic!RenderBody
  BY <1>1, <1>4 DEF Anthropic!RenderBody, Anthropic!Body, Anthropic!Use
<1>5. CASE Anthropic!serveFixture
  BY <1>1, <1>5 DEF Anthropic!serveFixture, Anthropic!Verbatim, Anthropic!Body, Anthropic!OpenFixture, Anthropic!streamToolUseResponse
<1>6. CASE Anthropic!streamResponse \/ Anthropic!streamMessages
  BY <1>1, <1>6 DEF Anthropic!streamResponse, Anthropic!streamMessages, Anthropic!StreamWrite, Anthropic!Finish
<1>7. CASE Anthropic!serveAnthropicToolCallResponse
  BY <1>1, <1>7 DEF Anthropic!serveAnthropicToolCallResponse, Anthropic!streamToolUseResponse, Anthropic!Body, Anthropic!Use
<1>8. CASE Anthropic!generate
  BY <1>1, <1>8 DEF Anthropic!generate, Anthropic!OpenBackend, Anthropic!Tokens, Anthropic!Body, Anthropic!Use
<1>9. CASE Anthropic!WriteNext("sse") \/ Anthropic!ClientLeaves \/ Anthropic!Done
  BY <1>1, <1>9 DEF Anthropic!WriteNext, Anthropic!ClientLeaves, Anthropic!Done, Anthropic!vars
<1> QED
  BY <1>2, <1>3, <1>4, <1>5, <1>6, <1>7, <1>8, <1>9 DEF Anthropic!Next, Anthropic!Handle, Anthropic!renderFixtureBody

(* Gemini: what is not generated costs nothing.                            *)
LEMMA GeminiCosts == ASSUME route = "gemini", CostInv, Gemini!Next, UNCHANGED route PROVE CostStep
<1> USE DEF CostStep, Spends, IsForced, Fixtured, Gemini!At, Gemini!Forced, Gemini!UsesFixtures
<1>1. Barred = (~Gemini!Generates \/ Gemini!Faulty(Gemini!Checks)) /\ fixture.match \in Matches
  BY DEF Barred, CostInv
<1>2. CASE Gemini!handleGenerate
  BY <1>1, <1>2, Zenon DEF Gemini!handleGenerate, Gemini!Force, Gemini!Refuse, Gemini!Admit, Gemini!Body
<1>3. CASE Gemini!handleCatchAll \/ Gemini!handleCountTokens
  BY <1>1, <1>3, Zenon DEF Gemini!handleCatchAll, Gemini!handleCountTokens, Gemini!Force, Gemini!Refuse, Gemini!Body
<1>4. CASE Gemini!Match(500)
  BY <1>1, <1>4 DEF Gemini!Match, Gemini!Body, Gemini!Use, Matches
<1>5. CASE Gemini!RenderBody
  BY <1>1, <1>5 DEF Gemini!RenderBody, Gemini!Body, Gemini!Use
<1>6. CASE Gemini!serveFixture
  BY <1>1, <1>6 DEF Gemini!serveFixture, Gemini!Verbatim, Gemini!Body, Gemini!OpenFixture
<1>7. CASE Gemini!streamResponse \/ Gemini!streamGenerateContent
  BY <1>1, <1>7 DEF Gemini!streamResponse, Gemini!streamGenerateContent, Gemini!StreamWrite, Gemini!Finish, Gemini!fail, Gemini!Body
<1>8. CASE Gemini!serveGeminiFunctionCallResponse
  BY <1>1, <1>8 DEF Gemini!serveGeminiFunctionCallResponse, Gemini!streamFunctionCallContent, Gemini!Body, Gemini!Use
<1>9. CASE Gemini!generate
  BY <1>1, <1>9 DEF Gemini!generate, Gemini!OpenBackend, Gemini!Tokens, Gemini!Body, Gemini!Use
<1>10. CASE Gemini!WriteNext(Gemini!Media) \/ Gemini!ClientLeaves \/ Gemini!Done
  BY <1>1, <1>10 DEF Gemini!WriteNext, Gemini!ClientLeaves, Gemini!Done, Gemini!vars
<1> QED
  BY <1>2, <1>3, <1>4, <1>5, <1>6, <1>7, <1>8, <1>9, <1>10 DEF Gemini!Next, Gemini!Handle, Gemini!renderFixtureBody

(* Ollama: neither does loading a model.                                   *)
LEMMA OllamaCosts == ASSUME route = "ollama", CostInv, Ollama!Next, UNCHANGED route PROVE CostStep
<1> USE DEF CostStep, Spends, IsForced, Fixtured, Ollama!At, Ollama!Forced, Ollama!UsesFixtures
<1>1. Barred = (Ollama!LoadsModel \/ Ollama!Faulty(Ollama!Checks)) /\ fixture.match \in Matches
  BY DEF Barred, CostInv
<1>2. CASE Ollama!handleChat \/ Ollama!handleGenerate
  BY <1>1, <1>2 DEF Ollama!handleChat, Ollama!handleGenerate, Ollama!LoadsModel, Ollama!Load, Ollama!Force, Ollama!Refuse, Ollama!Admit, Ollama!Body
<1>3. CASE Ollama!Match(500)
  BY <1>1, <1>3 DEF Ollama!Match, Ollama!Body, Ollama!Use, Matches
<1>4. CASE Ollama!RenderBody
  BY <1>1, <1>4 DEF Ollama!RenderBody, Ollama!Body, Ollama!Use
<1>5. CASE Ollama!serveChatFixture \/ Ollama!serveGenerateFixture
  BY <1>1, <1>5 DEF Ollama!serveChatFixture, Ollama!serveGenerateFixture, Ollama!Verbatim, Ollama!Body, Ollama!OpenFixture
<1>6. CASE Ollama!streamFixture \/ Ollama!streamBackend
  BY <1>1, <1>6 DEF Ollama!streamFixture, Ollama!streamBackend, Ollama!StreamWrite, Ollama!Finish, Ollama!SendError500, Ollama!Body
<1>7. CASE Ollama!generate
  BY <1>1, <1>7 DEF Ollama!generate, Ollama!OpenBackend, Ollama!Tokens, Ollama!Body, Ollama!Use
<1>8. CASE Ollama!WriteNext("ndjson") \/ Ollama!ClientLeaves \/ Ollama!Done
  BY <1>1, <1>8 DEF Ollama!WriteNext, Ollama!ClientLeaves, Ollama!Done, Ollama!vars
<1> QED
  BY <1>2, <1>3, <1>4, <1>5, <1>6, <1>7, <1>8 DEF Ollama!Next, Ollama!Handle, Ollama!renderFixtureBody

(* POST /v1/responses.                                                     *)
LEMMA PostCosts == ASSUME route = "post", CostInv, Post!Next, UNCHANGED route PROVE CostStep
<1> USE DEF CostStep, Spends, IsForced, Fixtured, Post!At, Post!Forced, Post!UsesFixtures
<1>1. Barred = (Post!Faulty(Post!Checks)) /\ fixture.match \in Matches
  BY DEF Barred, CostInv
<1>2. CASE Post!handleResponsesPost
  BY <1>1, <1>2, Zenon DEF Post!handleResponsesPost, Post!Force, Post!Refuse, Post!Admit, Post!Body
<1>3. CASE Post!Match(500)
  BY <1>1, <1>3, ZenonT(60) DEF Post!Match, Post!Body, Post!Use, Matches
<1>4. CASE Post!RenderBody
  BY <1>1, <1>4 DEF Post!RenderBody, Post!Body, Post!Use
<1>5. CASE Post!serveResponsesFixture
  BY <1>1, <1>5 DEF Post!serveResponsesFixture, Post!Serve, Post!Body
<1>6. CASE Post!generate
  BY <1>1, <1>6, ZenonT(60) DEF Post!generate, Post!OpenBackend, Post!Tokens, Post!Body, Post!Use
<1>7. CASE Post!ClientLeaves \/ Post!Done
  BY <1>1, <1>7 DEF Post!WriteNext, Post!ClientLeaves, Post!Done, Post!vars
<1> QED
  BY <1>2, <1>3, <1>4, <1>5, <1>6, <1>7 DEF Post!Next, Post!Handle, Post!renderFixtureBody

(* POST /v1/systemone.                                                     *)
LEMMA JudgeCosts == ASSUME route = "systemone", CostInv, Judge!Next, UNCHANGED route PROVE CostStep
<1> USE DEF CostStep, Spends, IsForced, Fixtured, Judge!At, Judge!Forced, Judge!UsesFixtures, Judge!Body, Judge!Use,
            Judge!Reply
<1>1. Barred = Judge!Faulty(Judge!Checks) /\ fixture.match \in Matches
  BY DEF Barred, CostInv
<1>2. CASE Judge!handleSystemOne
  BY <1>1, <1>2 DEF Judge!handleSystemOne, Judge!Force, Judge!Refuse, Judge!Admit
<1>3. CASE Judge!selectFixture
  BY <1>1, <1>3 DEF Judge!selectFixture, Judge!Match, Matches
<1>4. CASE Judge!renderFixtureBodyBytes
  BY <1>4 DEF Judge!renderFixtureBodyBytes
<1>5. CASE Judge!serveFixture
  BY <1>5 DEF Judge!serveFixture
<1>6. CASE Judge!answersForBackend
  BY <1>6 DEF Judge!answersForBackend
<1>7. CASE \E k \in left : Judge!answerOffline(k)
  BY <1>7 DEF Judge!answerOffline, Judge!Answered
<1>8. CASE Judge!FirstTokenLogprobs
  BY <1>8 DEF Judge!FirstTokenLogprobs, Judge!answerUpstream, Judge!Answered
<1>9. CASE Judge!respond
  BY <1>9 DEF Judge!respond
<1>10. CASE Judge!ClientLeaves \/ Judge!Done
  BY <1>10 DEF Judge!ClientLeaves, Judge!Done, Judge!allvars, Judge!vars
<1> QED
  BY <1>2, <1>3, <1>4, <1>5, <1>6, <1>7, <1>8, <1>9, <1>10 DEF Judge!Next, Judge!Handle

(* Every step is within the costs.                                         *)
LEMMA NextCosts == ASSUME CostInv, [AnyNext]_avars PROVE CostStep
<1>1. CASE UNCHANGED avars
  BY <1>1 DEF avars, xvars, CostStep
<1>2. CASE AnyNext
  <2>1. UNCHANGED route
    BY <1>2 DEF AnyNext
  <2>2. CASE route = "socket" /\ UNCHANGED xvars
    BY <2>1, <2>2 DEF xvars, CostStep
  <2> QED
    BY <1>2, <2>1, <2>2, OpenAICosts, AnthropicCosts, GeminiCosts, OllamaCosts, PostCosts, JudgeCosts DEF AnyNext
<1> QED
  BY <1>1, <1>2

(* An input without any text reaches no backend.                           *)
HasText == \E i \in DOMAIN req.input : req.input[i].text # "empty"
TextInv == route = "post" /\ used["backend"] > 0 => HasText

(* A text is chosen once, and only by a route that generates one.           *)
LEMMA NextTextInv == ASSUME CostInv, TextInv, [AnyNext]_avars PROVE TextInv'
<1> SUFFICES ASSUME route = "post", used'["backend"] > 0, ~HasText PROVE FALSE
  BY NextCosts DEF TextInv, HasText, CostStep
<1>1. ~(used["backend"] > 0) /\ used["backend"] \in Nat
  BY DEF TextInv, CostInv
<1>2. used' # used
  BY <1>1
<1>3. Post!Next
  BY <1>2 DEF AnyNext, avars, xvars
<1>4. CASE Post!generate
  <2>1. PICK i \in DOMAIN req.input : "empty" \notin {Post!Message(req.input[i]).role, Post!Message(req.input[i]).text}
    BY <1>2, <1>4 DEF Post!generate, Post!responsesInputMessages
  <2>2. req.input[i].text # "empty"
    BY <2>1 DEF Post!Message
  <2> QED
    BY <2>2 DEF HasText
<1>5. CASE ~Post!generate
  <2>1. CASE Post!renderFixtureBody
    <3>1. used'["backend"] = used["backend"]
      BY <2>1 DEF Post!renderFixtureBody, Post!Match, Post!RenderBody, Post!Use, CostInv
    <3> QED
      BY <1>1, <3>1
  <2>2. CASE ~Post!renderFixtureBody
    BY <1>2, <1>3, <1>5, <2>2
       DEF Post!Next, Post!Handle, Post!handleResponsesPost, Post!Force, Post!Refuse, Post!Admit,
           Post!serveResponsesFixture, Post!ClientLeaves, Post!Done, Post!vars
  <2> QED
    BY <2>1, <2>2
<1> QED
  BY <1>4, <1>5

(* Every exchange satisfies CostInv and TextInv.                           *)
LEMMA CostInvariance == AnySpec => [](CostInv /\ TextInv)
<1>1. AnyInit => CostInv /\ TextInv
  <2>1. AnyInit /\ route = "post" => used["backend"] = 0
    BY DEF AnyInit, Post!ExchangeInit, Post!Sources
  <2> QED
    BY <2>1, InitCostInv DEF TextInv
<1>2. CostInv /\ TextInv /\ [AnyNext]_avars => (CostInv /\ TextInv)'
  BY NextCosts, CostStepKeeps, NextTextInv
<1> QED
  BY <1>1, <1>2, PTL DEF AnySpec, avars

(* An answer has one source on every route: a fixture that was found       *)
(* excludes tools and backends, a tool call excludes the backend, no       *)
(* source is asked twice, and a request that is refused, forced to fail,   *)
(* or that needs none, asks none (the order of checks in every handler).   *)
THEOREM AnswersHaveOneSource == AnySpec => []OneSource
<1>1. CostInv /\ TextInv => OneSource
  <2> SUFFICES ASSUME CostInv, TextInv PROVE OneSource
    OBVIOUS
  <2>1. /\ used["render"] <= used["match"] /\ used["match"] <= 1 /\ used["tool"] + used["backend"] <= 1
        /\ fixture.match # "none" /\ Fixtured => used["tool"] + used["backend"] = 0
        /\ IsForced \/ Barred => \A s \in {"match", "render", "tool", "backend"} : used[s] = 0
    BY DEF CostInv, Costs
  <2>2. CASE route = "openai"
    BY <2>1, <2>2 DEF OneSource, Barred, IsForced, Fixtured, OpenAI!OneSource, OpenAI!HasOneSource, OpenAI!Forced,
                      OpenAI!UsesFixtures, OpenAI!Sources
  <2>3. CASE route = "anthropic"
    BY <2>1, <2>3 DEF OneSource, Barred, IsForced, Fixtured, Anthropic!OneSource, Anthropic!HasOneSource,
                      Anthropic!Forced, Anthropic!UsesFixtures, Anthropic!Sources
  <2>4. CASE route = "gemini"
    BY <2>1, <2>4 DEF OneSource, Barred, IsForced, Fixtured, Gemini!OneSource, Gemini!HasOneSource, Gemini!Forced,
                      Gemini!UsesFixtures, Gemini!Sources
  <2>5. CASE route = "ollama"
    BY <2>1, <2>5 DEF OneSource, Barred, IsForced, Fixtured, Ollama!OneSource, Ollama!HasOneSource, Ollama!Forced,
                      Ollama!UsesFixtures, Ollama!Sources
  <2>6. CASE route = "post"
    BY <2>1, <2>6 DEF OneSource, Barred, IsForced, Fixtured, Post!OneSource, Post!HasOneSource, Post!Forced,
                      Post!UsesFixtures, Post!Sources, TextInv, HasText
  <2>7. CASE route = "systemone"
    BY <2>1, <2>7 DEF OneSource, Barred, IsForced, Fixtured, Judge!OneSource, Judge!HasOneSource, Judge!Forced,
                      Judge!UsesFixtures, Judge!Sources
  <2>8. CASE route = "socket"
    BY <2>8 DEF OneSource
  <2>9. route \in Routes
    BY DEF CostInv
  <2> QED
    BY <2>2, <2>3, <2>4, <2>5, <2>6, <2>7, <2>8, <2>9 DEF Routes
<1> QED
  BY <1>1, CostInvariance, PTL
-----------------------------------------------------------------------------
(* The replies of all routes.                                              *)
StreamKinds ==
  {"role", "delta", "tool_calls", "stop", "usage", "[DONE]", "message_start", "start_text", "start_tool_use",
   "ping", "text_delta", "input_json_delta", "content_block_stop", "message_delta", "message_stop",
   "chunk", "STOP", "]", "object", "done", "error"}
StreamFrame == [kind : StreamKinds, piece : BOOLEAN, usage : Int]
StreamMedia == {"sse", "array", "ndjson"}
Streaming   == {"openai", "anthropic", "gemini", "ollama"}
Early       == {"start", "select", "render", "serve", "route"}
Streams     == {"stream", "fixture_stream"}

(* What marks the end of a stream, in one protocol or another.             *)
EndKinds  == {"[DONE]", "message_stop", "STOP", "done"}
Ended(s)  == \E i \in DOMAIN s : s[i].kind \in EndKinds
Failed(s) == \E i \in DOMAIN s : s[i].kind = "error"
Pieces(s) == {i \in DOMAIN s : s[i].piece}
SentNow   == Cardinality(Pieces(reply.frames))
Due       == IF Pieces(todo) = {} THEN 0 ELSE 1

Nothing == reply.media = "none" /\ reply.status = 0 /\ reply.frames = <<>>
InOne   == /\ reply.media = "json" /\ reply.status # 0 /\ pc = "done" /\ todo = <<>>
           /\ \E f : reply.frames = <<f>> /\ f.piece = FALSE
InParts == /\ reply.media \in StreamMedia /\ reply.status = 200 /\ pc \notin Early
           /\ reply.frames \in Seq(StreamFrame) /\ reply.frames # <<>>

ReplyShape ==
  /\ reply = [status |-> reply.status, media |-> reply.media, zolem |-> reply.zolem, frames |-> reply.frames]
  /\ todo \in Seq(StreamFrame) /\ text.chunks \in Seq({0, 1}) /\ text.fails \in BOOLEAN /\ alive \in BOOLEAN
  /\ pc \in Early \cup Streams \cup {"done"}
  /\ Nothing \/ InOne \/ InParts
  /\ pc \in Early => todo = <<>>
  /\ route \notin Streaming => todo = <<>> /\ ~InParts

(* While the source is asked, nothing but a preamble is due, and only the  *)
(* last chunk of a fixture may carry the mark of the end.                  *)
Asking ==
  /\ pc \in Streams => /\ Pieces(todo) = {} /\ ~Ended(todo) /\ ~Failed(todo) /\ ~Failed(reply.frames)
                       /\ SentNow <= Len(text.chunks)
  /\ pc = "stream" => ~Ended(reply.frames)

(* The end is marked if the whole text is sent, or is due before the mark; *)
(* a failure is told, and a stream without a mark is left, only for cause. *)
Marks ==
  /\ Ended(reply.frames) => SentNow = Len(text.chunks) /\ ~text.fails /\ Pieces(todo) = {}
  /\ Ended(todo) => /\ SentNow + Due = Len(text.chunks) /\ ~text.fails
                    /\ \A i, j \in DOMAIN todo : todo[i].kind \in EndKinds /\ todo[j].piece => j <= i
  /\ Failed(reply.frames) \/ Failed(todo) =>
       /\ text.fails \/ ~alive
       /\ ~Ended(reply.frames) /\ ~Ended(todo) /\ Pieces(todo) = {}
  /\ Pieces(todo) # {} => Ended(todo)
  /\ \A i, j \in DOMAIN todo : todo[i].piece /\ todo[j].piece => i = j
  /\ pc = "done" => Ended(reply.frames) \/ Ended(todo) \/ Failed(reply.frames) \/ Failed(todo) \/ ~alive

(* But for Gemini, whose array is closed behind it, a mark is the last     *)
(* frame.                                                                  *)
IsMark(f) == f.kind \in EndKinds \/ f.kind = "error"
Mark == [openai |-> "[DONE]", anthropic |-> "message_stop", gemini |-> "STOP", ollama |-> "done"]
Own(s) == \A i \in DOMAIN s : s[i].kind \in EndKinds => s[i].kind = Mark[route]
MarksLast ==
  /\ \A i \in DOMAIN reply.frames : IsMark(reply.frames[i]) => i = Len(reply.frames) /\ todo = <<>> /\ pc = "done"
  /\ \A i \in DOMAIN todo : IsMark(todo[i]) => i = Len(todo)

ReplyInv ==
  /\ ReplyShape
  /\ route \in Streaming /\ ~InOne => /\ Asking /\ Marks /\ Own(reply.frames) /\ Own(todo)
                                      /\ route # "gemini" => MarksLast

-----------------------------------------------------------------------------
(* The steps of all routes, as far as the reply goes.                      *)
WrittenTo(f, media) ==
  [status |-> IF reply.status = 0 THEN 200 ELSE reply.status,
   media  |-> IF reply.media = "none" THEN media ELSE reply.media,
   zolem  |-> reply.zolem, frames |-> Append(reply.frames, f)]

Leaves == alive /\ alive' = FALSE /\ UNCHANGED <<reply, todo, text, pc>>
Writes ==
  /\ todo # <<>> /\ todo' = Tail(todo)
  /\ \E media \in StreamMedia : reply' = WrittenTo(Head(todo), media)
  /\ UNCHANGED <<text, pc, alive>>
Replies ==
  /\ Nothing /\ todo = <<>> /\ pc # "done" /\ pc' = "done"
  /\ \E s, z, f : /\ s # 0 /\ f.piece = FALSE
                  /\ reply' = [status |-> s, media |-> "json", zolem |-> z, frames |-> <<f>>]
  /\ text'.chunks \in Seq({0, 1}) /\ text'.fails \in BOOLEAN
  /\ UNCHANGED <<todo, alive>>
Proceeds == pc \in Early /\ pc' \in Early /\ UNCHANGED <<reply, todo, text, alive>>
Opens(preamble) ==
  /\ pc \in Early /\ pc' \in Streams
  /\ todo' = preamble /\ preamble \in Seq(StreamFrame)
  /\ route \notin Streaming => preamble = <<>>
  /\ \A i \in DOMAIN preamble : ~preamble[i].piece /\ ~IsMark(preamble[i])
  /\ pc' = "fixture_stream" => ~text'.fails
  /\ text'.chunks \in Seq({0, 1}) /\ text'.fails \in BOOLEAN
  /\ UNCHANGED <<reply, alive>>
(* A call of a tool is due as a whole.                                     *)
Calls(fs) ==
  /\ pc \in Early /\ pc' = "done" /\ route \in Streaming
  /\ todo' = fs /\ fs \in Seq(StreamFrame) /\ Own(fs) /\ Ended(fs) /\ ~Failed(fs)
  /\ text'.chunks \in Seq({0, 1}) /\ Len(text'.chunks) = (IF Pieces(fs) = {} THEN 0 ELSE 1) /\ text'.fails = FALSE
  /\ \A i, j \in DOMAIN fs : fs[i].kind \in EndKinds /\ fs[j].piece => j <= i
  /\ \A i, j \in DOMAIN fs : fs[i].piece /\ fs[j].piece => i = j
  /\ route # "gemini" => \A i \in DOMAIN fs : IsMark(fs[i]) => i = Len(fs)
  /\ UNCHANGED <<reply, alive>>
Sends(f) ==
  /\ pc \in Streams /\ todo = <<>> /\ route \in Streaming /\ SentNow < Len(text.chunks)
  /\ f \in StreamFrame /\ f.piece /\ f.kind # "error"
  /\ f.kind \in EndKinds =>
       route = "gemini" /\ f.kind = "STOP" /\ pc = "fixture_stream" /\ SentNow + 1 = Len(text.chunks) /\ ~text.fails
  /\ route = "gemini" /\ pc = "fixture_stream" /\ SentNow + 1 = Len(text.chunks) => f.kind \in EndKinds
  /\ \E media \in StreamMedia : reply' = WrittenTo(f, media)
  /\ UNCHANGED <<todo, text, pc, alive>>
Finishes(fs) ==
  /\ pc \in Streams /\ todo = <<>> /\ pc' = "done" /\ route \in Streaming
  /\ todo' = fs /\ fs \in Seq(StreamFrame) /\ Own(fs) /\ Pieces(fs) = {}
  /\ Ended(fs) => SentNow = Len(text.chunks) /\ ~text.fails /\ ~Failed(fs)
  /\ Failed(fs) => (text.fails \/ ~alive) /\ pc = "stream"
  /\ Ended(fs) \/ Failed(fs) \/ Ended(reply.frames) \/ ~alive
  /\ route # "gemini" => \A i \in DOMAIN fs : IsMark(fs[i]) => i = Len(fs)
  /\ UNCHANGED <<reply, text, alive>>

ReplyStep ==
  /\ UNCHANGED route
  /\ \/ UNCHANGED <<reply, todo, text, pc, alive>>
     \/ Leaves \/ Writes \/ Replies \/ Proceeds
     \/ \E fs : Opens(fs) \/ Calls(fs) \/ Finishes(fs)
     \/ \E f : Sends(f)

-----------------------------------------------------------------------------
(* A frame more is at most a piece more.                                   *)
LEMMA PiecesGrow ==
  ASSUME NEW s \in Seq(StreamFrame), NEW f \in StreamFrame
  PROVE  /\ Cardinality(Pieces(s)) \in Nat
         /\ Cardinality(Pieces(Append(s, f))) = Cardinality(Pieces(s)) + (IF f.piece THEN 1 ELSE 0)
<1> DEFINE T == Pieces(Append(s, f))
           n == Len(s)
<1>1. n \in Nat /\ DOMAIN s = 1..n /\ DOMAIN Append(s, f) = 1..(n + 1)
      /\ Append(s, f)[n + 1] = f /\ \A i \in 1..n : Append(s, f)[i] = s[i]
  OBVIOUS
<1>2. Pieces(s) \subseteq 1..n /\ n + 1 \notin Pieces(s)
  BY <1>1 DEF Pieces
<1>3. T = IF f.piece THEN Pieces(s) \cup {n + 1} ELSE Pieces(s)
  BY <1>1 DEF Pieces
<1> HIDE DEF n, T
<1>4. /\ Cardinality(Pieces(s)) \in Nat
      /\ Cardinality(T) = IF T = Pieces(s) THEN Cardinality(Pieces(s)) ELSE Cardinality(Pieces(s)) + 1
  BY <1>1, <1>2, <1>3, CountNext
<1>5. T = Pieces(s) <=> ~f.piece
  BY <1>2, <1>3
<1>6. Cardinality(T) = Cardinality(Pieces(s)) + (IF f.piece THEN 1 ELSE 0)
  BY <1>4, <1>5
<1> QED
  BY <1>4, <1>6 DEF T

(* Nothing has no pieces and no marks.                                     *)
LEMMA NoFrames == Pieces(<<>>) = {} /\ ~Ended(<<>>) /\ ~Failed(<<>>) /\ Cardinality(Pieces(<<>>)) = 0
<1>1. Pieces(<<>>) = {}
  BY DEF Pieces
<1> QED
  BY <1>1, FS_EmptySet DEF Ended, Failed

(* One frame more at the end.                                              *)
LEMMA MarksGrow ==
  ASSUME NEW s \in Seq(StreamFrame), NEW f \in StreamFrame
  PROVE  /\ Append(s, f) \in Seq(StreamFrame) /\ Append(s, f) # <<>>
         /\ Ended(Append(s, f)) <=> Ended(s) \/ f.kind \in EndKinds
         /\ Failed(Append(s, f)) <=> Failed(s) \/ f.kind = "error"
<1>1. /\ Len(s) \in Nat /\ DOMAIN s = 1..Len(s) /\ DOMAIN Append(s, f) = 1..(Len(s) + 1)
      /\ Append(s, f)[Len(s) + 1] = f /\ \A i \in 1..Len(s) : Append(s, f)[i] = s[i]
      /\ Append(s, f) \in Seq(StreamFrame) /\ Append(s, f) # <<>>
  OBVIOUS
<1>2. \A i \in 1..(Len(s) + 1) : i \in 1..Len(s) \/ i = Len(s) + 1
  BY <1>1
<1>3. 1..Len(s) \subseteq 1..(Len(s) + 1) /\ Len(s) + 1 \in 1..(Len(s) + 1)
  BY <1>1
<1>4. Ended(Append(s, f)) <=> Ended(s) \/ f.kind \in EndKinds
  BY <1>1, <1>2, <1>3 DEF Ended
<1>5. Failed(Append(s, f)) <=> Failed(s) \/ f.kind = "error"
  BY <1>1, <1>2, <1>3 DEF Failed
<1> QED
  BY <1>1, <1>4, <1>5

(* One frame less at the front.                                            *)
LEMMA MarksShrink ==
  ASSUME NEW s \in Seq(StreamFrame), s # <<>>
  PROVE  /\ Head(s) \in StreamFrame /\ Tail(s) \in Seq(StreamFrame) /\ Len(s) \in Nat \ {0}
         /\ Len(Tail(s)) = Len(s) - 1 /\ DOMAIN Tail(s) = 1..(Len(s) - 1)
         /\ \A i \in DOMAIN Tail(s) : Tail(s)[i] = s[i + 1] /\ i + 1 \in DOMAIN s
         /\ Head(s) = s[1] /\ 1 \in DOMAIN s
         /\ Ended(s) <=> Head(s).kind \in EndKinds \/ Ended(Tail(s))
         /\ Failed(s) <=> Head(s).kind = "error" \/ Failed(Tail(s))
         /\ Pieces(s) = {} <=> ~Head(s).piece /\ Pieces(Tail(s)) = {}
<1>1. /\ Head(s) \in StreamFrame /\ Tail(s) \in Seq(StreamFrame) /\ Len(s) \in Nat \ {0}
      /\ Len(Tail(s)) = Len(s) - 1 /\ DOMAIN Tail(s) = 1..(Len(s) - 1)
      /\ \A i \in DOMAIN Tail(s) : Tail(s)[i] = s[i + 1] /\ i + 1 \in DOMAIN s
      /\ Head(s) = s[1] /\ 1 \in DOMAIN s
  OBVIOUS
<1>2. \A i \in DOMAIN s : i = 1 \/ (i - 1 \in DOMAIN Tail(s) /\ s[i] = Tail(s)[i - 1])
  <2> SUFFICES ASSUME NEW i \in DOMAIN s, i # 1 PROVE i - 1 \in DOMAIN Tail(s) /\ s[i] = Tail(s)[i - 1]
    OBVIOUS
  <2>1. i \in 2..Len(s)
    BY <1>1
  <2>2. i - 1 \in 1..(Len(s) - 1) /\ (i - 1) + 1 = i
    BY <1>1, <2>1
  <2> QED
    BY <1>1, <2>2
<1>3. Ended(s) <=> Head(s).kind \in EndKinds \/ Ended(Tail(s))
  BY <1>1, <1>2 DEF Ended
<1>4. Failed(s) <=> Head(s).kind = "error" \/ Failed(Tail(s))
  BY <1>1, <1>2 DEF Failed
<1>5. Pieces(s) = {} <=> ~Head(s).piece /\ Pieces(Tail(s)) = {}
  <2>1. Pieces(s) = {} <=> \A i \in DOMAIN s : ~s[i].piece
    BY DEF Pieces
  <2>2. Pieces(Tail(s)) = {} <=> \A i \in DOMAIN Tail(s) : ~Tail(s)[i].piece
    BY DEF Pieces
  <2>3. ~Head(s).piece /\ (\A i \in DOMAIN Tail(s) : ~Tail(s)[i].piece) => \A i \in DOMAIN s : ~s[i].piece
    BY <1>1, <1>2
  <2>4. (\A i \in DOMAIN s : ~s[i].piece) => ~Head(s).piece /\ \A i \in DOMAIN Tail(s) : ~Tail(s)[i].piece
    BY <1>1
  <2> QED
    BY <2>1, <2>2, <2>3, <2>4, Zenon
<1> QED
  BY <1>1, <1>3, <1>4, <1>5

(* What has been sent is counted by a natural number.                      *)
LEMMA SentIsNat == ASSUME ReplyInv, ~InOne PROVE SentNow \in Nat /\ (Nothing => SentNow = 0)
<1>1. CASE Nothing
  BY <1>1, NoFrames DEF Nothing, SentNow
<1>2. CASE InParts
  <2>1. \A s \in Seq(StreamFrame), f \in StreamFrame : Cardinality(Pieces(s)) \in Nat
    BY PiecesGrow
  <2>2. reply.frames[1] \in StreamFrame
    BY <1>2 DEF InParts
  <2>3. SentNow \in Nat
    BY <1>2, <2>1, <2>2 DEF InParts, SentNow
  <2> QED
    BY <1>2, <2>3 DEF InParts, Nothing, StreamMedia
<1> QED
  BY <1>1, <1>2 DEF ReplyInv, ReplyShape

(* At the start nothing is written or due.                                 *)
LEMMA InitReplyInv == AnyInit => ReplyInv
<1> SUFFICES ASSUME AnyInit PROVE ReplyInv
  OBVIOUS
<1> DEFINE Blank == /\ reply = [status |-> 0, media |-> "none", zolem |-> FALSE, frames |-> <<>>]
                    /\ todo = <<>> /\ alive = TRUE /\ text = [chunks |-> <<>>, fails |-> FALSE]
           Ready == pc = "start" \/ (pc = "done" /\ route = "socket")
<1>1. route \in Routes
  BY DEF AnyInit
<1>2. ASSUME route = "openai" PROVE Blank /\ Ready
  <2>1. OpenAI!ExchangeInit
    BY <1>2 DEF AnyInit
  <2> QED
    BY <2>1 DEF OpenAI!ExchangeInit, OpenAI!NoText
<1>3. ASSUME route = "anthropic" PROVE Blank /\ Ready
  <2>1. Anthropic!ExchangeInit
    BY <1>3 DEF AnyInit
  <2> QED
    BY <2>1 DEF Anthropic!ExchangeInit, Anthropic!NoText
<1>4. ASSUME route = "gemini" PROVE Blank /\ Ready
  <2>1. Gemini!ExchangeInit
    BY <1>4 DEF AnyInit
  <2> QED
    BY <2>1 DEF Gemini!ExchangeInit, Gemini!NoText
<1>5. ASSUME route = "ollama" PROVE Blank /\ Ready
  <2>1. Ollama!ExchangeInit
    BY <1>5 DEF AnyInit
  <2> QED
    BY <2>1 DEF Ollama!ExchangeInit, Ollama!NoText
<1>6. ASSUME route = "post" PROVE Blank /\ Ready
  <2>1. Post!ExchangeInit
    BY <1>6 DEF AnyInit
  <2> QED
    BY <2>1 DEF Post!ExchangeInit, Post!NoText
<1>7. ASSUME route = "systemone" PROVE Blank /\ Ready
  <2>1. Judge!ExchangeInit
    BY <1>7 DEF AnyInit, Judge!Init
  <2> QED
    BY <2>1 DEF Judge!ExchangeInit, Judge!NoText
<1>8. ASSUME route = "socket" PROVE Blank /\ Ready
  <2>1. NoExchange
    BY <1>8 DEF AnyInit
  <2> QED
    BY <1>8, <2>1 DEF NoExchange, Scheme!NoText
<1>9. Blank /\ Ready
  BY <1>1, <1>2, <1>3, <1>4, <1>5, <1>6, <1>7, <1>8 DEF Routes
<1>10. ReplyShape
  BY <1>9 DEF ReplyShape, Nothing, InOne, InParts, StreamMedia, Early, Streaming
<1>11. pc \notin Streams /\ (route \in Streaming => pc # "done")
  BY <1>9 DEF Streams, Streaming
<1>12. Asking /\ MarksLast /\ Own(reply.frames) /\ Own(todo)
  BY <1>9, <1>11 DEF Asking, MarksLast, Streams, Own
<1>13. route \in Streaming => Marks
  BY <1>9, <1>11, NoFrames DEF Marks
<1> QED
  BY <1>10, <1>12, <1>13 DEF ReplyInv

(* The client goes.                                                        *)
LEMMA LeavesKeeps == ASSUME ReplyInv, Leaves, UNCHANGED route PROVE ReplyInv'
<1>1. UNCHANGED <<reply, todo, text, pc, route>> /\ alive = TRUE /\ alive' = FALSE
  BY DEF Leaves, ReplyInv, ReplyShape
<1>2. Nothing' = Nothing /\ InOne' = InOne /\ InParts' = InParts
  BY <1>1 DEF Nothing, InOne, InParts
<1>3. SentNow' = SentNow /\ Due' = Due /\ (MarksLast => MarksLast') /\ (Asking => Asking')
  BY <1>1 DEF SentNow, Due, MarksLast, Asking
<1>4. Marks => Marks'
  BY <1>1, <1>3 DEF Marks
<1>5. (Own(reply.frames) => Own(reply.frames)') /\ (Own(todo) => Own(todo)')
  BY <1>1 DEF Own
<1>6. ReplyShape'
  BY <1>1, <1>2 DEF ReplyInv, ReplyShape
<1> QED
  BY <1>1, <1>2, <1>3, <1>4, <1>5, <1>6 DEF ReplyInv

(* The handler goes on to its next check.                                  *)
LEMMA ProceedsKeeps == ASSUME ReplyInv, Proceeds, UNCHANGED route PROVE ReplyInv'
<1>1. pc \notin Streams /\ pc' \notin Streams /\ pc # "done" /\ pc' # "done" /\ ~InOne /\ ~InOne'
  BY DEF Proceeds, Early, Streams, InOne
<1>2. UNCHANGED <<reply, todo, text, alive, route>> /\ pc \in Early /\ pc' \in Early
  BY DEF Proceeds
<1>3. ReplyShape'
  BY <1>1, <1>2 DEF ReplyInv, ReplyShape, Nothing, InOne, InParts
<1>4. SentNow' = SentNow /\ Due' = Due /\ Asking'
  BY <1>1, <1>2 DEF SentNow, Due, Asking, Streams
<1>5. Marks => Marks'
  BY <1>1, <1>2, <1>4 DEF Marks
<1>6. MarksLast => MarksLast'
  BY <1>1, <1>2 DEF MarksLast
<1>7. (Own(reply.frames) => Own(reply.frames)') /\ (Own(todo) => Own(todo)')
  BY <1>2 DEF Own
<1> QED
  BY <1>1, <1>2, <1>3, <1>4, <1>5, <1>6, <1>7 DEF ReplyInv

(* A whole reply.                                                          *)
LEMMA RepliesKeeps == ASSUME ReplyInv, Replies, UNCHANGED route PROVE ReplyInv'
<1>1. /\ todo = <<>> /\ todo' = todo /\ pc' = "done" /\ alive' = alive
      /\ text'.chunks \in Seq({0, 1}) /\ text'.fails \in BOOLEAN
  BY DEF Replies
<1>2. PICK s, z, f : /\ s # 0 /\ f.piece = FALSE
                     /\ reply' = [status |-> s, media |-> "json", zolem |-> z, frames |-> <<f>>]
  BY DEF Replies
<1>3. InOne'
  BY <1>1, <1>2 DEF InOne
<1>4. ~InParts'
  BY <1>2 DEF InParts, StreamMedia
<1>5. reply' = [status |-> reply'.status, media |-> reply'.media, zolem |-> reply'.zolem, frames |-> reply'.frames]
  BY <1>2
<1> QED
  BY <1>1, <1>3, <1>4, <1>5 DEF ReplyInv, ReplyShape, Early

(* A stream begins.                                                        *)
LEMMA OpensKeeps == ASSUME ReplyInv, NEW fs, Opens(fs), UNCHANGED route PROVE ReplyInv'
<1>1. /\ pc \in Early /\ pc' \in Streams /\ todo' = fs /\ fs \in Seq(StreamFrame)
      /\ route \notin Streaming => fs = <<>>
      /\ \A i \in DOMAIN fs : ~fs[i].piece /\ ~IsMark(fs[i])
      /\ text'.chunks \in Seq({0, 1}) /\ text'.fails \in BOOLEAN /\ UNCHANGED <<reply, alive, route>>
  BY DEF Opens
<1>2. Nothing /\ pc # "done" /\ pc' \notin Early /\ pc' # "done"
  BY <1>1 DEF ReplyInv, ReplyShape, InOne, InParts, Early, Streams
<1>3. ReplyShape' /\ ~InOne'
  BY <1>1, <1>2 DEF ReplyInv, ReplyShape, Nothing, InOne, InParts, StreamMedia
<1>4. Pieces(fs) = {} /\ ~Ended(fs) /\ ~Failed(fs)
  BY <1>1 DEF Pieces, Ended, Failed, IsMark
<1>5. reply.frames = <<>> /\ SentNow' = 0
  BY <1>1, <1>2, NoFrames DEF Nothing, SentNow
<1>6. Asking' /\ Marks'
  BY <1>1, <1>2, <1>4, <1>5, NoFrames DEF Asking, Marks
<1>7. MarksLast'
  BY <1>1, <1>5 DEF MarksLast
<1>8. Own(reply.frames)' /\ Own(todo)'
  BY <1>1, <1>5 DEF Own, IsMark
<1> QED
  BY <1>3, <1>6, <1>7, <1>8 DEF ReplyInv

(* A tool is called.                                                       *)
LEMMA CallsKeeps == ASSUME ReplyInv, NEW fs, Calls(fs), UNCHANGED route PROVE ReplyInv'
<1>1. /\ pc \in Early /\ pc' = "done" /\ todo' = fs /\ fs \in Seq(StreamFrame) /\ route \in Streaming
      /\ Ended(fs) /\ ~Failed(fs) /\ Own(fs)
      /\ Len(text'.chunks) = (IF Pieces(fs) = {} THEN 0 ELSE 1) /\ text'.fails = FALSE
      /\ UNCHANGED <<reply, alive, route>>
  BY DEF Calls
<1>2. Nothing
  BY <1>1 DEF ReplyInv, ReplyShape, InOne, InParts, Early
<1>3. ReplyShape' /\ ~InOne'
  <2>1. text'.chunks \in Seq({0, 1}) /\ text'.fails \in BOOLEAN
    <3>1. text'.chunks \in Seq({0, 1})
      BY DEF Calls
    <3>2. text'.fails = FALSE
      BY DEF Calls
    <3>3. text'.fails \in BOOLEAN
      BY <3>2, Zenon
    <3> QED
      BY <3>1, <3>3
  <2>2. Nothing' /\ pc' \notin Early
    BY <1>1, <1>2 DEF Nothing, Early
  <2>3. ~InOne' /\ ~InParts'
    BY <2>2 DEF Nothing, InOne, InParts, StreamMedia
  <2> QED
    BY <1>1, <2>1, <2>2, <2>3 DEF ReplyInv, ReplyShape
<1>4. reply.frames = <<>> /\ SentNow' = 0 /\ Due' = IF Pieces(fs) = {} THEN 0 ELSE 1
  BY <1>1, <1>2, NoFrames DEF Nothing, SentNow, Due
<1>5. Asking'
  BY <1>1 DEF Asking, Streams
<1>6. Marks'
  BY <1>1, <1>4, NoFrames DEF Marks, Calls
<1>7. (route # "gemini" => MarksLast)'
  BY <1>1, <1>4 DEF MarksLast, Calls
<1>8. Own(reply.frames)' /\ Own(todo)'
  BY <1>1, <1>4 DEF Own
<1> QED
  BY <1>3, <1>5, <1>6, <1>7, <1>8 DEF ReplyInv
(* A frame is written.                                                     *)
LEMMA OneWritten ==
  ASSUME ReplyInv, ~InOne, route \in Streaming, pc \notin Early, NEW f \in StreamFrame, NEW media \in StreamMedia,
         reply' = WrittenTo(f, media), UNCHANGED <<pc, route>>
  PROVE  /\ InParts' /\ ~InOne' /\ ~Nothing'
         /\ reply' = [status |-> reply'.status, media |-> reply'.media, zolem |-> reply'.zolem, frames |-> reply'.frames]
         /\ reply.frames \in Seq(StreamFrame)
         /\ reply'.frames = Append(reply.frames, f)
         /\ Ended(reply'.frames) <=> Ended(reply.frames) \/ f.kind \in EndKinds
         /\ Failed(reply'.frames) <=> Failed(reply.frames) \/ f.kind = "error"
         /\ SentNow \in Nat /\ SentNow' = SentNow + (IF f.piece THEN 1 ELSE 0)
<1>1. reply.frames \in Seq(StreamFrame) /\ (Nothing \/ InParts)
  <2>1. Nothing \/ InParts
    BY DEF ReplyInv, ReplyShape
  <2>2. reply.frames = <<>> \/ reply.frames \in Seq(StreamFrame)
    BY <2>1 DEF Nothing, InParts
  <2>3. reply.frames \in Seq(StreamFrame)
    <3>1. <<>> \in Seq(StreamFrame)
      OBVIOUS
    <3> QED
      BY <2>2, <3>1, Zenon
  <2> QED
    BY <2>1, <2>3
<1>2. reply'.frames = Append(reply.frames, f)
      /\ reply' = [status |-> reply'.status, media |-> reply'.media, zolem |-> reply'.zolem, frames |-> reply'.frames]
  BY DEF WrittenTo
<1>3. reply'.status = 200 /\ reply'.media \in StreamMedia
  BY <1>1 DEF WrittenTo, Nothing, InParts, StreamMedia
<1>4. InParts' /\ ~InOne' /\ ~Nothing'
  BY <1>1, <1>2, <1>3, MarksGrow DEF InParts, InOne, Nothing, StreamMedia
<1>5. SentNow \in Nat /\ SentNow' = SentNow + (IF f.piece THEN 1 ELSE 0)
  BY <1>1, <1>2, PiecesGrow DEF SentNow
<1> QED
  BY <1>1, <1>2, <1>4, <1>5, MarksGrow

(* The source sends a chunk.                                               *)
LEMMA SendsKeeps == ASSUME ReplyInv, NEW f, Sends(f), UNCHANGED route PROVE ReplyInv'
<1>1. /\ pc \in Streams /\ todo = <<>> /\ route \in Streaming /\ SentNow < Len(text.chunks)
      /\ f \in StreamFrame /\ f.piece = TRUE /\ f.kind # "error" /\ UNCHANGED <<todo, text, pc, alive, route>>
      /\ f.kind \in EndKinds =>
           route = "gemini" /\ f.kind = "STOP" /\ pc = "fixture_stream" /\ SentNow + 1 = Len(text.chunks) /\ ~text.fails
  BY DEF Sends, StreamFrame
<1>2. PICK media \in StreamMedia : reply' = WrittenTo(f, media)
  BY DEF Sends
<1>3. pc \notin Early /\ pc # "done" /\ ~InOne
  BY <1>1 DEF Streams, Early, InOne
<1>4. /\ InParts' /\ ~InOne' /\ ~Nothing'
      /\ reply' = [status |-> reply'.status, media |-> reply'.media, zolem |-> reply'.zolem, frames |-> reply'.frames]
      /\ reply.frames \in Seq(StreamFrame)
      /\ reply'.frames = Append(reply.frames, f)
      /\ Ended(reply'.frames) <=> Ended(reply.frames) \/ f.kind \in EndKinds
      /\ Failed(reply'.frames) <=> Failed(reply.frames)
      /\ SentNow \in Nat /\ SentNow' = SentNow + 1
  BY <1>1, <1>2, <1>3, OneWritten
<1>5. Asking /\ Marks /\ Own(reply.frames) /\ Own(todo) /\ Len(text.chunks) \in Nat
  BY <1>1, <1>3 DEF ReplyInv, ReplyShape
<1>6. ReplyShape'
  BY <1>1, <1>3, <1>4 DEF ReplyInv, ReplyShape
<1>7. Asking'
  BY <1>1, <1>4, <1>5, NoFrames DEF Asking, EndKinds
<1>8. Marks'
  BY <1>1, <1>3, <1>4, <1>5, NoFrames DEF Marks, Asking
<1>9. Own(reply.frames)' /\ Own(todo)'
  BY <1>1, <1>4, <1>5 DEF Own, Mark
<1>10. (route # "gemini" => MarksLast)'
  <2> SUFFICES ASSUME route # "gemini" PROVE MarksLast'
    BY <1>1
  <2>1. MarksLast /\ ~IsMark(f)
    BY <1>1, <1>3 DEF ReplyInv, IsMark
  <2>2. \A i \in DOMAIN reply.frames : ~IsMark(reply.frames[i])
    BY <1>3, <2>1 DEF MarksLast
  <2>3. \A i \in DOMAIN reply'.frames : reply'.frames[i] = f \/ (i \in DOMAIN reply.frames /\ reply'.frames[i] = reply.frames[i])
    BY <1>1, <1>4
  <2>4. \A i \in DOMAIN reply'.frames : ~IsMark(reply'.frames[i])
    BY <2>1, <2>2, <2>3
  <2> QED
    BY <1>1, <2>4 DEF MarksLast
<1> QED
  BY <1>4, <1>6, <1>7, <1>8, <1>9, <1>10 DEF ReplyInv

(* The source ends or fails, or is left.                                   *)
LEMMA FinishesKeeps == ASSUME ReplyInv, NEW fs, Finishes(fs), UNCHANGED route PROVE ReplyInv'
<1>1. /\ pc \in Streams /\ todo = <<>> /\ pc' = "done" /\ route \in Streaming
      /\ todo' = fs /\ fs \in Seq(StreamFrame) /\ Own(fs) /\ Pieces(fs) = {}
      /\ Ended(fs) => SentNow = Len(text.chunks) /\ ~text.fails /\ ~Failed(fs)
      /\ Failed(fs) => (text.fails \/ ~alive) /\ pc = "stream"
      /\ Ended(fs) \/ Failed(fs) \/ Ended(reply.frames) \/ ~alive
      /\ route # "gemini" => \A i \in DOMAIN fs : IsMark(fs[i]) => i = Len(fs)
      /\ UNCHANGED <<reply, text, alive, route>>
  BY DEF Finishes
<1>2. pc \notin Early /\ pc # "done" /\ ~InOne
  BY <1>1 DEF Streams, Early, InOne
<1>3. /\ Asking /\ Marks /\ Own(reply.frames) /\ (route # "gemini" => MarksLast) /\ Len(text.chunks) \in Nat
      /\ SentNow' = SentNow /\ SentNow \in Nat
  BY <1>1, <1>2, SentIsNat DEF ReplyInv, ReplyShape, SentNow
<1>4. ReplyShape' /\ ~InOne'
  <2>1. Nothing' = Nothing /\ (InParts => InParts') /\ (Nothing \/ InParts)
    BY <1>1, <1>2 DEF ReplyInv, ReplyShape, Nothing, InParts, Early
  <2>2. ~InOne'
    BY <2>1 DEF Nothing, InParts, InOne, StreamMedia
  <2> QED
    BY <1>1, <2>1, <2>2 DEF ReplyInv, ReplyShape, Early
<1>5. Asking'
  BY <1>1 DEF Asking, Streams
<1>6. Marks'
  BY <1>1, <1>2, <1>3 DEF Marks, Asking, Streams, Due, Pieces
<1>7. Own(reply.frames)' /\ Own(todo)'
  BY <1>1, <1>3 DEF Own
<1>8. (route # "gemini" => MarksLast)'
  BY <1>1, <1>2, <1>3 DEF MarksLast
<1> QED
  BY <1>1, <1>4, <1>5, <1>6, <1>7, <1>8 DEF ReplyInv
(* A frame that is due is written.                                         *)
LEMMA WritesKeeps == ASSUME ReplyInv, Writes, UNCHANGED route PROVE ReplyInv'
<1> DEFINE f == Head(todo)
<1>1. /\ todo # <<>> /\ todo' = Tail(todo) /\ UNCHANGED <<text, pc, alive, route>>
      /\ todo \in Seq(StreamFrame)
  BY DEF Writes, ReplyInv, ReplyShape
<1>2. PICK media \in StreamMedia : reply' = WrittenTo(f, media)
  BY DEF Writes
<1>3. /\ f \in StreamFrame /\ Tail(todo) \in Seq(StreamFrame) /\ Len(todo) \in Nat \ {0}
      /\ Len(Tail(todo)) = Len(todo) - 1 /\ DOMAIN Tail(todo) = 1..(Len(todo) - 1)
      /\ \A i \in DOMAIN Tail(todo) : Tail(todo)[i] = todo[i + 1] /\ i + 1 \in DOMAIN todo
      /\ f = todo[1] /\ 1 \in DOMAIN todo
      /\ Ended(todo) <=> f.kind \in EndKinds \/ Ended(Tail(todo))
      /\ Failed(todo) <=> f.kind = "error" \/ Failed(Tail(todo))
      /\ Pieces(todo) = {} <=> ~f.piece /\ Pieces(Tail(todo)) = {}
  BY <1>1, MarksShrink
<1> HIDE DEF f
<1>4. pc \notin Early /\ ~InOne /\ route \in Streaming /\ pc \in Streams \cup {"done"}
  BY <1>1 DEF ReplyInv, ReplyShape, InOne
<1>5. /\ InParts' /\ ~InOne' /\ ~Nothing'
      /\ reply' = [status |-> reply'.status, media |-> reply'.media, zolem |-> reply'.zolem, frames |-> reply'.frames]
      /\ reply.frames \in Seq(StreamFrame)
      /\ reply'.frames = Append(reply.frames, f)
      /\ Ended(reply'.frames) <=> Ended(reply.frames) \/ f.kind \in EndKinds
      /\ Failed(reply'.frames) <=> Failed(reply.frames) \/ f.kind = "error"
      /\ SentNow \in Nat /\ SentNow' = SentNow + (IF f.piece THEN 1 ELSE 0)
  BY <1>1, <1>2, <1>3, <1>4, OneWritten
<1>6. Asking /\ Marks /\ Own(reply.frames) /\ Own(todo) /\ Len(text.chunks) \in Nat
  BY <1>4 DEF ReplyInv, ReplyShape
<1>7. ReplyShape'
  BY <1>1, <1>3, <1>4, <1>5 DEF ReplyInv, ReplyShape
<1>8. Asking'
  <2> SUFFICES ASSUME pc \in Streams PROVE Asking'
    BY <1>1 DEF Asking, Streams
  <2>1. /\ Pieces(todo) = {} /\ ~Ended(todo) /\ ~Failed(todo) /\ ~Failed(reply.frames)
        /\ SentNow <= Len(text.chunks) /\ (pc = "stream" => ~Ended(reply.frames))
    BY <1>6 DEF Asking
  <2>2. SentNow' = SentNow
    BY <1>3, <1>5, <2>1
  <2> QED
    BY <1>1, <1>3, <1>5, <2>1, <2>2 DEF Asking
<1>9. Pieces(Tail(todo)) # {} => ~f.piece
  <2> SUFFICES ASSUME NEW j \in Pieces(Tail(todo)), f.piece PROVE FALSE
    BY Zenon
  <2>1. j \in DOMAIN Tail(todo) /\ todo[j + 1].piece /\ todo[1].piece /\ j + 1 # 1 /\ j + 1 \in DOMAIN todo
    BY <1>3 DEF Pieces
  <2> QED
    BY <1>3, <1>6, <2>1 DEF Marks
<1>10. SentNow' + Due' = SentNow + Due
  <2>1. CASE f.piece
    <3>1. Pieces(todo) # {} /\ Pieces(Tail(todo)) = {} /\ SentNow' = SentNow + 1
      BY <1>3, <1>5, <1>9, <2>1
    <3> QED
      BY <1>1, <1>5, <3>1 DEF Due
  <2>2. CASE ~f.piece
    <3>1. (Pieces(todo) = {} <=> Pieces(Tail(todo)) = {}) /\ SentNow' = SentNow
      BY <1>3, <1>5, <2>2
    <3> QED
      BY <1>1, <1>5, <3>1 DEF Due
  <2> QED
    BY <2>1, <2>2
<1>11. f.kind \in EndKinds => Pieces(Tail(todo)) = {}
  <2> SUFFICES ASSUME f.kind \in EndKinds, NEW j \in Pieces(Tail(todo)) PROVE FALSE
    BY Zenon
  <2>1. j \in Nat \ {0} /\ todo[j + 1].piece /\ todo[1].kind \in EndKinds /\ j + 1 \in DOMAIN todo
    BY <1>3 DEF Pieces
  <2>2. j + 1 <= 1
    BY <1>3, <1>6, <2>1 DEF Marks
  <2> QED
    BY <2>1, <2>2
<1>12. Marks'
  <2>1. (Ended(reply.frames) => SentNow = Len(text.chunks) /\ ~text.fails /\ Pieces(todo) = {})'
    BY <1>1, <1>3, <1>5, <1>6, <1>10, <1>11 DEF Marks, Due
  <2>2. (Ended(todo) => SentNow + Due = Len(text.chunks) /\ ~text.fails)'
    BY <1>1, <1>3, <1>6, <1>10 DEF Marks
  <2>3. (Ended(todo) => \A i, j \in DOMAIN todo : todo[i].kind \in EndKinds /\ todo[j].piece => j <= i)'
    BY <1>1, <1>3, <1>6 DEF Marks
  <2>4. (Failed(reply.frames) \/ Failed(todo) => /\ text.fails \/ ~alive
                                                 /\ ~Ended(reply.frames) /\ ~Ended(todo) /\ Pieces(todo) = {})'
    BY <1>1, <1>3, <1>5, <1>6 DEF Marks, EndKinds
  <2>5. (Pieces(todo) # {} => Ended(todo))'
    BY <1>1, <1>3, <1>6, <1>11 DEF Marks
  <2>6. (\A i, j \in DOMAIN todo : todo[i].piece /\ todo[j].piece => i = j)'
    BY <1>1, <1>3, <1>6 DEF Marks
  <2>7. (pc = "done" => Ended(reply.frames) \/ Ended(todo) \/ Failed(reply.frames) \/ Failed(todo) \/ ~alive)'
    BY <1>1, <1>3, <1>5, <1>6 DEF Marks
  <2> QED
    BY <2>1, <2>2, <2>3, <2>4, <2>5, <2>6, <2>7 DEF Marks
<1>13. Own(reply.frames)' /\ Own(todo)'
  <2>1. Own(todo)'
    BY <1>1, <1>3, <1>6 DEF Own
  <2>2. Own(reply.frames)'
    BY <1>1, <1>3, <1>5, <1>6 DEF Own
  <2> QED
    BY <2>1, <2>2
<1>14. (route # "gemini" => MarksLast)'
  <2> SUFFICES ASSUME route # "gemini" PROVE MarksLast'
    BY <1>1
  <2>1. MarksLast
    BY <1>4 DEF ReplyInv
  <2>2. \A i \in DOMAIN reply.frames : ~IsMark(reply.frames[i])
    BY <1>1, <2>1 DEF MarksLast
  <2>3. \A i \in DOMAIN Tail(todo) : IsMark(Tail(todo)[i]) => i = Len(Tail(todo))
    BY <1>3, <2>1 DEF MarksLast
  <2>4. IsMark(f) => Len(todo) = 1 /\ pc = "done"
    BY <1>3, <1>4, <1>6, <2>1 DEF MarksLast, Asking, IsMark
  <2>5. \A i \in DOMAIN reply'.frames : \/ (i = Len(reply'.frames) /\ reply'.frames[i] = f)
                                         \/ (i \in DOMAIN reply.frames /\ reply'.frames[i] = reply.frames[i])
    <3>1. \A s \in Seq(StreamFrame) : \A i \in DOMAIN Append(s, f) :
            (i = Len(Append(s, f)) /\ Append(s, f)[i] = f) \/ (i \in DOMAIN s /\ Append(s, f)[i] = s[i])
      BY <1>3
    <3> QED
      BY <1>5, <3>1
  <2>6. Len(todo) = 1 => Tail(todo) = <<>>
    BY <1>3
  <2>7. \A i \in DOMAIN reply'.frames : IsMark(reply'.frames[i]) => i = Len(reply'.frames) /\ Tail(todo) = <<>> /\ pc = "done"
    BY <2>2, <2>4, <2>5, <2>6
  <2> QED
    BY <1>1, <2>3, <2>7 DEF MarksLast
<1> QED
  BY <1>5, <1>7, <1>8, <1>12, <1>13, <1>14 DEF ReplyInv

(* Every step of a reply keeps the invariant.                              *)
LEMMA ReplyStepKeeps == ASSUME ReplyInv, ReplyStep PROVE ReplyInv'
<1>1. CASE UNCHANGED <<reply, todo, text, pc, alive, route>>
  <2>1. Nothing' = Nothing /\ InOne' = InOne /\ InParts' = InParts
    BY <1>1 DEF Nothing, InOne, InParts
  <2>2. ReplyShape' = ReplyShape
    BY <1>1, <2>1 DEF ReplyShape
  <2>3. SentNow' = SentNow /\ Due' = Due /\ MarksLast' = MarksLast /\ Asking' = Asking
    BY <1>1 DEF SentNow, Due, MarksLast, Asking
  <2>4. Marks' = Marks
    BY <1>1, <2>3 DEF Marks
  <2>5. Own(reply.frames)' = Own(reply.frames) /\ Own(todo)' = Own(todo)
    BY <1>1 DEF Own
  <2> QED
    BY <1>1, <2>1, <2>2, <2>3, <2>4, <2>5 DEF ReplyInv
<1> QED
  BY <1>1, LeavesKeeps, WritesKeeps, RepliesKeeps, ProceedsKeeps, OpensKeeps, CallsKeeps, FinishesKeeps, SendsKeeps
     DEF ReplyStep
-----------------------------------------------------------------------------
(* The reply as the contract sees it, on every route.                      *)
Stage ==
  IF reply.status = 0 THEN "waiting"
  ELSE IF ~InParts THEN "whole"
  ELSE IF Failed(reply.frames) THEN "failed"
  ELSE IF Ended(reply.frames) THEN "complete"
  ELSE IF pc = "done" /\ todo = <<>> THEN "cut" ELSE "streaming"

(* The instances count the text sent alike.                                *)
LEMMA SchemeCounts == Scheme!Sent = SentNow
BY DEF Scheme!Sent, Scheme!Cardinality, Cardinality, SentNow, Pieces

(* A mark is the last frame.                                               *)
LEMMA LastIsMark ==
  ASSUME ReplyInv, InParts, route \in Streaming \ {"gemini"}
  PROVE  /\ reply.frames # <<>> /\ Len(reply.frames) \in DOMAIN reply.frames
         /\ Failed(reply.frames) <=> reply.frames[Len(reply.frames)].kind = "error"
         /\ ~Failed(reply.frames) => (Ended(reply.frames) <=> reply.frames[Len(reply.frames)].kind = Mark[route])
<1>1. reply.frames # <<>> /\ Len(reply.frames) \in DOMAIN reply.frames
  BY DEF InParts
<1>2. ~InOne /\ MarksLast /\ Own(reply.frames)
  BY DEF ReplyInv, InParts, InOne, StreamMedia
<1>3. Failed(reply.frames) <=> reply.frames[Len(reply.frames)].kind = "error"
  BY <1>1, <1>2 DEF Failed, MarksLast, IsMark
<1>4. Mark[route] \in EndKinds
  BY DEF Mark, EndKinds, Streaming
<1>5. Ended(reply.frames) <=> reply.frames[Len(reply.frames)].kind = Mark[route]
  BY <1>1, <1>2, <1>4 DEF Ended, MarksLast, IsMark, Own
<1> QED
  BY <1>1, <1>3, <1>5

(* The phase of every route is its stage.                                  *)
LEMMA PhaseIsStage == ReplyInv => Phase = Stage
<1> SUFFICES ASSUME ReplyInv PROVE Phase = Stage
  OBVIOUS
<1>1. /\ Nothing \/ InOne \/ InParts
      /\ Nothing => reply.status = 0
      /\ InOne => reply.status # 0 /\ reply.media = "json" /\ ~InParts
      /\ InParts => reply.status # 0 /\ reply.media # "json"
      /\ route \notin Streaming => ~InParts
  BY DEF ReplyInv, ReplyShape, Nothing, InOne, InParts, StreamMedia
<1>2. CASE route = "openai"
  <2>1. InParts => /\ (reply.frames[Len(reply.frames)].kind = "error" <=> Failed(reply.frames))
                   /\ ~Failed(reply.frames) => (reply.frames[Len(reply.frames)].kind = "[DONE]" <=> Ended(reply.frames))
    BY <1>2, LastIsMark DEF Streaming, Mark
  <2> QED
    BY <1>1, <1>2, <2>1 DEF Phase, Stage, OpenAI!Phase, OpenAI!Finished
<1>3. CASE route = "anthropic"
  <2>1. InParts => /\ (reply.frames[Len(reply.frames)].kind = "error" <=> Failed(reply.frames))
                   /\ ~Failed(reply.frames) => (reply.frames[Len(reply.frames)].kind = "message_stop" <=> Ended(reply.frames))
    BY <1>3, LastIsMark DEF Streaming, Mark
  <2> QED
    BY <1>1, <1>3, <2>1 DEF Phase, Stage, Anthropic!Phase, Anthropic!Finished
<1>4. CASE route = "ollama"
  <2>1. InParts => /\ (reply.frames[Len(reply.frames)].kind = "error" <=> Failed(reply.frames))
                   /\ ~Failed(reply.frames) => (reply.frames[Len(reply.frames)].kind = "done" <=> Ended(reply.frames))
    BY <1>4, LastIsMark DEF Streaming, Mark
  <2> QED
    BY <1>1, <1>4, <2>1 DEF Phase, Stage, Ollama!Phase, Ollama!Finished
<1>5. CASE route = "gemini"
  <2>1. InParts => Own(reply.frames)
    BY <1>1, <1>5 DEF ReplyInv, Streaming
  <2>2. Failed(reply.frames) <=> Gemini!Has("error")
    BY DEF Failed, Gemini!Has
  <2>3. InParts => (Ended(reply.frames) <=> Gemini!Has("STOP"))
    BY <1>5, <2>1 DEF Ended, Gemini!Has, Own, Mark, EndKinds
  <2> QED
    BY <1>1, <1>5, <2>2, <2>3 DEF Phase, Stage, Gemini!Phase, Gemini!Finished
<1>6. CASE route \notin Streaming
  BY <1>1, <1>6 DEF Phase, Stage, Streaming
<1> QED
  BY <1>2, <1>3, <1>4, <1>5, <1>6 DEF Streaming
(* What the contract asks of a step, in the words of the routes.           *)
ContractStep ==
  \/ alive' = FALSE /\ UNCHANGED <<Stage, reply.status, text, SentNow>>
  \/ Stage = "waiting" /\ Stage' = "waiting" /\ UNCHANGED <<reply.status, SentNow, alive>>
  \/ Stage = "waiting" /\ Stage' = "whole" /\ reply'.status # 0 /\ UNCHANGED <<SentNow, alive>>
  \/ /\ Stage = "waiting" /\ reply'.status = 200 /\ SentNow' \in {0, 1}
     /\ \/ Stage' = "streaming"
        \/ Stage' = "complete" /\ SentNow' = Len(text.chunks) /\ ~text.fails
        \/ Stage' = "failed" /\ (text.fails \/ ~alive)
        \/ Stage' = "cut" /\ ~alive
     /\ UNCHANGED <<text, alive>>
  \/ /\ Stage = "streaming" /\ Stage' \in {"streaming", "complete"}
     /\ SentNow < Len(text.chunks) /\ SentNow' = SentNow + 1
     /\ Stage' = "complete" => SentNow' = Len(text.chunks) /\ ~text.fails
     /\ UNCHANGED <<reply.status, text, alive>>
  \/ /\ Stage = "streaming"
     /\ \/ Stage' = "complete" /\ SentNow = Len(text.chunks) /\ ~text.fails
        \/ Stage' = "failed" /\ (text.fails \/ ~alive)
        \/ Stage' = "cut" /\ ~alive
     /\ UNCHANGED <<reply.status, text, SentNow, alive>>
  \/ UNCHANGED <<Stage, reply.status, text, SentNow, alive>>

(* And so it is after a step.                                              *)
LEMMA PhaseIsStageNext == ReplyInv' => (Phase = Stage)'
BY PhaseIsStage, PTL

(* Such a step is one that the contract allows.                            *)
LEMMA ContractStepIs ==
  ASSUME ReplyInv, ReplyInv', ContractStep PROVE [Contract!ReplyNext]_(Contract!rvars)
<1>1. Phase = Stage /\ Phase' = Stage'
  BY PhaseIsStage, PhaseIsStageNext
<1>2. Scheme!Sent = SentNow /\ Scheme!Sent' = SentNow'
  <2>1. Scheme!Sent' = SentNow'
    BY DEF Scheme!Sent, Scheme!Cardinality, Cardinality, SentNow, Pieces
  <2> QED
    BY <2>1, SchemeCounts
<1> QED
  BY <1>1, <1>2 DEF ContractStep, Contract!ReplyNext, Contract!rvars, Contract!ClientGoes, Contract!Choose,
     Contract!Whole, Contract!Begin, Contract!Send, Contract!Complete, Contract!Fail, Contract!CutOff

(* Stages, by the shape of the reply.                                      *)
LEMMA Stages ==
  ASSUME ReplyInv
  PROVE  /\ Nothing \/ InOne \/ InParts
         /\ Nothing => Stage = "waiting" /\ reply.status = 0 /\ SentNow = 0
         /\ InOne => Stage = "whole" /\ reply.status # 0
         /\ InParts => /\ reply.status = 200 /\ ~Nothing /\ ~InOne /\ route \in Streaming
                       /\ Stage = IF Failed(reply.frames) THEN "failed"
                                  ELSE IF Ended(reply.frames) THEN "complete"
                                  ELSE IF pc = "done" /\ todo = <<>> THEN "cut" ELSE "streaming"
         /\ pc \in Early => Nothing
<1>1. (Nothing \/ InOne \/ InParts) /\ (route \notin Streaming => ~InParts)
  BY DEF ReplyInv, ReplyShape
<1>2. Nothing => ~InParts /\ reply.status = 0 /\ SentNow = 0
  BY NoFrames DEF Nothing, InParts, SentNow, StreamMedia
<1>3. InOne => ~InParts /\ reply.status # 0 /\ pc \notin Early
  BY DEF InOne, InParts, StreamMedia, Early
<1>4. InParts => reply.status = 200 /\ ~Nothing /\ ~InOne /\ pc \notin Early
  BY DEF InOne, InParts, Nothing, StreamMedia
<1> QED
  BY <1>1, <1>2, <1>3, <1>4 DEF Stage

(* The client leaves, or nothing happens to the reply.                     *)
LEMMA QuietIsContract ==
  ASSUME ReplyInv, UNCHANGED <<reply, todo, text, pc, route>>, alive' = alive \/ alive' = FALSE PROVE ContractStep
<1>1. Stage' = Stage /\ SentNow' = SentNow
  BY DEF Stage, InParts, SentNow
<1> QED
  BY <1>1 DEF ContractStep

(* A whole reply, and what comes before any reply.                         *)
LEMMA WaitingIsContract ==
  ASSUME ReplyInv, ReplyInv', UNCHANGED <<route, alive>>, pc \in Early, UNCHANGED reply PROVE ContractStep
<1>1. Nothing /\ Stage = "waiting" /\ reply.status = 0 /\ SentNow' = SentNow
  BY Stages DEF SentNow
<1>2. Stage' = "waiting"
  BY <1>1 DEF Stage
<1> QED
  BY <1>1, <1>2 DEF ContractStep

(* A whole reply ends the waiting.                                         *)
LEMMA RepliesIsContract == ASSUME ReplyInv, Replies, UNCHANGED route PROVE ContractStep
<1>1. Stage = "waiting" /\ SentNow = 0 /\ UNCHANGED alive
  BY Stages DEF Replies
<1>2. PICK s, z, f : /\ s # 0 /\ f.piece = FALSE
                     /\ reply' = [status |-> s, media |-> "json", zolem |-> z, frames |-> <<f>>]
  BY DEF Replies
<1>3. Stage' = "whole" /\ reply'.status # 0
  BY <1>2 DEF Stage, InParts, StreamMedia
<1>4. SentNow' = 0
  <2>1. Pieces(<<f>>) = {}
    BY <1>2 DEF Pieces
  <2> QED
    BY <1>2, <2>1, FS_EmptySet DEF SentNow
<1> QED
  BY <1>1, <1>3, <1>4 DEF ContractStep

(* A piece of the text begins the stream, goes on with it or completes it. *)
LEMMA SendsIsContract == ASSUME ReplyInv, ReplyInv', NEW f, Sends(f), UNCHANGED route PROVE ContractStep
<1>1. /\ pc \in Streams /\ todo = <<>> /\ route \in Streaming /\ SentNow < Len(text.chunks)
      /\ f \in StreamFrame /\ f.piece = TRUE /\ f.kind # "error" /\ UNCHANGED <<todo, text, pc, alive, route>>
      /\ f.kind \in EndKinds => SentNow + 1 = Len(text.chunks) /\ ~text.fails
  BY DEF Sends, StreamFrame
<1>2. PICK media \in StreamMedia : reply' = WrittenTo(f, media)
  BY DEF Sends
<1>3. pc \notin Early /\ pc # "done" /\ ~InOne
  BY <1>1 DEF Streams, Early, InOne
<1>4. /\ InParts'
      /\ Ended(reply'.frames) <=> Ended(reply.frames) \/ f.kind \in EndKinds
      /\ Failed(reply'.frames) <=> Failed(reply.frames)
      /\ SentNow \in Nat /\ SentNow' = SentNow + 1
  BY <1>1, <1>2, <1>3, OneWritten
<1>5. Marks /\ ~Failed(reply.frames)
  BY <1>1, <1>3 DEF ReplyInv, Asking
<1>6. ~Ended(reply.frames)
  BY <1>1, <1>5 DEF Marks
<1>7. reply'.status = 200 /\ Stage' = IF f.kind \in EndKinds THEN "complete" ELSE "streaming"
  BY <1>1, <1>3, <1>4, <1>5, <1>6 DEF Stage, InParts
<1>8. CASE Nothing
  BY <1>1, <1>4, <1>7, <1>8, Stages DEF ContractStep
<1>9. CASE InParts
  <2>1. Stage = "streaming" /\ reply.status = 200
    BY <1>3, <1>5, <1>6, <1>9, Stages
  <2> QED
    BY <1>1, <1>4, <1>7, <2>1 DEF ContractStep
<1> QED
  BY <1>3, <1>8, <1>9, Stages

(* What becomes due is not seen yet; with nothing due, the stream is cut.  *)
LEMMA FinishesIsContract == ASSUME ReplyInv, NEW fs, Finishes(fs), UNCHANGED route PROVE ContractStep
<1>1. /\ pc \in Streams /\ todo = <<>> /\ pc' = "done" /\ route \in Streaming /\ todo' = fs
      /\ Ended(fs) \/ Failed(fs) \/ Ended(reply.frames) \/ ~alive
      /\ UNCHANGED <<reply, text, alive, route>>
  BY DEF Finishes
<1>2. pc \notin Early /\ pc # "done" /\ ~InOne /\ SentNow' = SentNow
  BY <1>1 DEF Streams, Early, InOne, SentNow
<1>3. ~Failed(reply.frames)
  BY <1>1, <1>2 DEF ReplyInv, Asking
<1>4. CASE Nothing
  <2>1. Stage = "waiting" /\ Stage' = "waiting"
    BY <1>1, <1>4, Stages DEF Nothing, Stage
  <2> QED
    BY <1>1, <1>2, <2>1 DEF ContractStep
<1>5. CASE InParts
  <2>1. InParts'
    BY <1>1, <1>5 DEF InParts, Early
  <2>2. Stage = IF Ended(reply.frames) THEN "complete" ELSE "streaming"
    BY <1>2, <1>3, <1>5, Stages
  <2>3. Stage' = IF Ended(reply.frames) THEN "complete" ELSE IF fs = <<>> THEN "cut" ELSE "streaming"
    BY <1>1, <1>3, <2>1 DEF Stage, InParts
  <2>4. fs = <<>> => Ended(reply.frames) \/ ~alive
    BY <1>1, NoFrames
  <2> QED
    BY <1>1, <1>2, <2>2, <2>3, <2>4 DEF ContractStep
<1> QED
  BY <1>2, <1>4, <1>5, Stages

(* A frame that was due begins, completes or fails the stream.             *)
LEMMA WritesIsContract == ASSUME ReplyInv, ReplyInv', Writes, UNCHANGED route PROVE ContractStep
<1> DEFINE f == Head(todo)
<1>1. /\ todo # <<>> /\ todo' = Tail(todo) /\ UNCHANGED <<text, pc, alive, route>>
      /\ todo \in Seq(StreamFrame)
  BY DEF Writes, ReplyInv, ReplyShape
<1>2. PICK media \in StreamMedia : reply' = WrittenTo(f, media)
  BY DEF Writes
<1>3. /\ f \in StreamFrame
      /\ Ended(todo) <=> f.kind \in EndKinds \/ Ended(Tail(todo))
      /\ Failed(todo) <=> f.kind = "error" \/ Failed(Tail(todo))
      /\ Pieces(todo) = {} <=> ~f.piece /\ Pieces(Tail(todo)) = {}
  BY <1>1, MarksShrink
<1> HIDE DEF f
<1>4. pc \notin Early /\ ~InOne /\ route \in Streaming
  BY <1>1 DEF ReplyInv, ReplyShape, InOne
<1>5. /\ InParts' /\ ~InOne'
      /\ Ended(reply'.frames) <=> Ended(reply.frames) \/ f.kind \in EndKinds
      /\ Failed(reply'.frames) <=> Failed(reply.frames) \/ f.kind = "error"
      /\ SentNow \in Nat /\ SentNow' = SentNow + (IF f.piece THEN 1 ELSE 0)
  BY <1>1, <1>2, <1>3, <1>4, OneWritten
<1>6. Marks /\ Marks' /\ Len(text.chunks) \in Nat
  BY <1>1, <1>4, <1>5 DEF ReplyInv, ReplyShape
<1>7. reply'.status = 200
      /\ Stage' = IF Failed(reply'.frames) THEN "failed" ELSE IF Ended(reply'.frames) THEN "complete"
                  ELSE IF pc = "done" /\ todo' = <<>> THEN "cut" ELSE "streaming"
  BY <1>1, <1>5 DEF Stage, InParts
<1>8. \/ Nothing /\ Stage = "waiting" /\ SentNow = 0 /\ ~Failed(reply.frames) /\ ~Ended(reply.frames)
      \/ /\ reply.status = 200
         /\ Stage = IF Failed(reply.frames) THEN "failed" ELSE IF Ended(reply.frames) THEN "complete" ELSE "streaming"
  BY <1>1, <1>4, Stages, NoFrames DEF Nothing
<1>9. Pieces(todo) = {} => SentNow' = SentNow
  BY <1>3, <1>5
<1>10. CASE Failed(reply.frames) \/ Ended(reply.frames)
  <2>1. Pieces(todo) = {} /\ (Ended(reply.frames) => ~Failed(todo) /\ ~Failed(reply.frames))
    BY <1>6, <1>10 DEF Marks
  <2>2. Stage' = Stage /\ reply.status = 200
    BY <1>3, <1>5, <1>7, <1>8, <1>10, <2>1
  <2> QED
    BY <1>1, <1>7, <1>9, <2>1, <2>2 DEF ContractStep
<1>11. CASE ~Failed(reply.frames) /\ ~Ended(reply.frames) /\ f.kind = "error"
  <2>1. Stage' = "failed" /\ Pieces(todo) = {} /\ (text.fails \/ ~alive)
    BY <1>3, <1>5, <1>6, <1>7, <1>11 DEF Marks
  <2> QED
    BY <1>1, <1>7, <1>8, <1>9, <1>11, <2>1 DEF ContractStep
<1>12. CASE ~Failed(reply.frames) /\ ~Ended(reply.frames) /\ f.kind # "error" /\ f.kind \in EndKinds
  <2>1. Stage' = "complete" /\ SentNow' = Len(text.chunks) /\ ~text.fails
    <3>1. Ended(reply.frames')
      BY <1>5, <1>12
    <3>2. SentNow' = Len(text'.chunks) /\ ~text'.fails
      BY <1>6, <3>1 DEF Marks
    <3> QED
      BY <1>1, <1>5, <1>7, <1>12, <3>2
  <2> QED
    BY <1>1, <1>5, <1>7, <1>8, <1>12, <2>1 DEF ContractStep
<1>13. CASE ~Failed(reply.frames) /\ ~Ended(reply.frames) /\ f.kind # "error" /\ f.kind \notin EndKinds
  <2>1. ~Failed(reply'.frames) /\ ~Ended(reply'.frames)
    BY <1>5, <1>13
  <2>2. f.piece => Tail(todo) # <<>> /\ SentNow < Len(text.chunks)
    <3> SUFFICES ASSUME f.piece PROVE Tail(todo) # <<>> /\ SentNow < Len(text.chunks)
      OBVIOUS
    <3>1. Pieces(todo) # {} /\ Due = 1
      BY <1>3 DEF Due
    <3>2. Ended(todo) /\ SentNow + 1 = Len(text.chunks)
      BY <1>6, <3>1 DEF Marks
    <3>3. Ended(Tail(todo))
      BY <1>3, <1>13, <3>2
    <3>4. Tail(todo) # <<>>
      BY <3>3, NoFrames
    <3>5. SentNow < Len(text.chunks)
      BY <1>5, <1>6, <3>2
    <3> QED
      BY <3>4, <3>5
  <2>3. pc = "done" /\ Tail(todo) = <<>> => ~alive
    <3> SUFFICES ASSUME pc = "done", Tail(todo) = <<>> PROVE ~alive
      OBVIOUS
    <3>1. ~Ended(todo') /\ ~Failed(todo') /\ pc' = "done"
      BY <1>1, NoFrames
    <3> QED
      BY <1>1, <1>6, <2>1, <3>1 DEF Marks
  <2>4. CASE f.piece
    <3>1. Stage' = "streaming" /\ SentNow' = SentNow + 1
      BY <1>1, <1>5, <1>7, <2>1, <2>2, <2>4
    <3> QED
      BY <1>1, <1>7, <1>8, <1>13, <2>2, <2>4, <3>1 DEF ContractStep
  <2>5. CASE ~f.piece
    <3>1. SentNow' = SentNow /\ (Stage' = "streaming" \/ (Stage' = "cut" /\ ~alive))
      BY <1>1, <1>5, <1>7, <2>1, <2>3, <2>5
    <3> QED
      BY <1>1, <1>7, <1>8, <1>13, <3>1 DEF ContractStep
  <2> QED
    BY <2>4, <2>5
<1> QED
  BY <1>10, <1>11, <1>12, <1>13

(* Every step is a step of the contract or a stutter.                      *)
LEMMA ReplyStepIsContract == ASSUME ReplyInv, ReplyStep PROVE [Contract!ReplyNext]_(Contract!rvars)
<1>1. ReplyInv' /\ UNCHANGED route
  BY ReplyStepKeeps DEF ReplyStep
<1>2. ASSUME UNCHANGED <<reply, todo, text, pc, alive>> \/ Leaves PROVE ContractStep
  BY <1>1, <1>2, QuietIsContract, Zenon DEF Leaves
<1>3. ASSUME Writes \/ Replies PROVE ContractStep
  BY <1>1, <1>3, WritesIsContract, RepliesIsContract
<1>4. ASSUME NEW fs, Proceeds \/ Opens(fs) \/ Calls(fs) PROVE ContractStep
  BY <1>1, <1>4, WaitingIsContract DEF Proceeds, Opens, Calls
<1>5. ASSUME (\E fs : Finishes(fs)) \/ (\E f : Sends(f)) PROVE ContractStep
  BY <1>1, <1>5, FinishesIsContract, SendsIsContract
<1>6. ContractStep
  BY <1>2, <1>3, <1>4, <1>5 DEF ReplyStep
<1> QED
  BY <1>1, <1>6, ContractStepIs

-----------------------------------------------------------------------------
(* A fixture does not fail, and Gemini's last chunk of one carries the     *)
(* mark.                                                                   *)
Served ==
  pc = "fixture_stream" =>
    /\ ~text.fails
    /\ route = "gemini" /\ SentNow > 0 /\ SentNow = Len(text.chunks) => Ended(reply.frames)

(* Every step keeps that.                                                  *)
LEMMA ServedKeeps == ASSUME ReplyInv, Served, ReplyStep PROVE Served'
<1> SUFFICES ASSUME pc' = "fixture_stream" PROVE Served'
  BY DEF Served
<1>1. UNCHANGED route
  BY DEF ReplyStep
<1>2. CASE UNCHANGED <<reply, todo, text, pc, alive>> \/ Leaves
  BY <1>1, <1>2 DEF Leaves, Served, SentNow
<1>3. CASE Replies \/ Proceeds
  BY <1>3 DEF Replies, Proceeds, Early
<1>4. ASSUME NEW fs, Calls(fs) \/ Finishes(fs) PROVE Served'
  BY <1>4 DEF Calls, Finishes
<1>5. ASSUME NEW fs, Opens(fs) PROVE Served'
  <2>1. pc \in Early /\ UNCHANGED reply /\ ~text'.fails
    BY <1>5 DEF Opens
  <2>2. SentNow' = 0
    BY <2>1, Stages DEF SentNow
  <2> QED
    BY <2>1, <2>2 DEF Served
<1>6. ASSUME NEW f, Sends(f) PROVE Served'
  <2>1. /\ pc \in Streams /\ route \in Streaming /\ f \in StreamFrame /\ f.piece = TRUE
        /\ (route = "gemini" /\ pc = "fixture_stream" /\ SentNow + 1 = Len(text.chunks) => f.kind \in EndKinds)
        /\ UNCHANGED <<todo, text, pc, alive, route>>
    BY <1>1, <1>6 DEF Sends, StreamFrame
  <2>2. PICK media \in StreamMedia : reply' = WrittenTo(f, media)
    BY <1>6 DEF Sends
  <2>3. pc \notin Early /\ ~InOne
    BY <2>1 DEF Streams, Early, InOne
  <2>4. /\ Ended(reply'.frames) <=> Ended(reply.frames) \/ f.kind \in EndKinds
        /\ SentNow' = SentNow + 1
    BY <2>1, <2>2, <2>3, OneWritten
  <2> QED
    BY <2>1, <2>4 DEF Served
<1>7. CASE Writes
  <2>1. pc = "fixture_stream" /\ UNCHANGED <<text, pc, alive>> /\ todo # <<>> /\ todo \in Seq(StreamFrame)
        /\ pc \notin Early /\ ~InOne
    BY <1>7 DEF Writes, ReplyInv, ReplyShape, Early, InOne
  <2>2. PICK media \in StreamMedia : reply' = WrittenTo(Head(todo), media)
    BY <1>7 DEF Writes
  <2>3. Head(todo) \in StreamFrame /\ (Pieces(todo) = {} => ~Head(todo).piece)
    BY <2>1, MarksShrink
  <2>4. route \in Streaming /\ Pieces(todo) = {}
    BY <2>1 DEF ReplyInv, ReplyShape, Asking, Streams
  <2>5. (Ended(reply'.frames) <=> Ended(reply.frames) \/ Head(todo).kind \in EndKinds) /\ SentNow \in Nat
        /\ SentNow' = SentNow + (IF Head(todo).piece THEN 1 ELSE 0)
    BY <1>1, <2>1, <2>2, <2>3, <2>4, OneWritten
  <2>6. SentNow' = SentNow
    BY <2>3, <2>4, <2>5
  <2> QED
    BY <1>1, <2>1, <2>5, <2>6 DEF Served
<1> QED
  BY <1>2, <1>3, <1>4, <1>5, <1>6, <1>7 DEF ReplyStep
-----------------------------------------------------------------------------
(* What a request is answered with never changes.                          *)
ErrorTypes == {"authentication", "permission", "invalid_request", "rate_limit", "overloaded", "server_error"}
Given ==
  /\ route \in Routes
  /\ route # "socket" =>
       profile.errorType \in ErrorTypes \cup {"none"} /\ fixture.status # 0 /\ fixture.match \in Matches
  /\ route \in Streaming => fixture.words \in Nat

(* The requests, profiles and fixtures of all routes are such.             *)
LEMMA InitGiven == AnyInit => Given
<1> SUFFICES ASSUME AnyInit PROVE Given
  OBVIOUS
<1>1. route \in Routes /\ (route # "socket" => fixture.match \in Matches)
  BY InitCostInv DEF CostInv
<1>2. ASSUME profile \in MCProfiles \cup JudgeProfiles PROVE profile.errorType \in ErrorTypes \cup {"none"}
  BY <1>2 DEF MCProfiles, JudgeProfiles, ErrorTypes
<1>3. ASSUME fixture \in MCFixtures PROVE fixture.status # 0 /\ fixture.words \in Nat
  <2>1. CASE fixture \in {Unfound("none"), Unfound("exhausted"), Unfound("failed")}
    BY <2>1 DEF Unfound
  <2>2. CASE fixture \in [match : {"found"}, template : {"none", "ok", "bad"}, status : {200}, body : {"text"}, words : 0..2]
    BY <2>2
  <2>3. CASE fixture \in [match : {"found"}, template : {"none"}, status : {200, 429}, body : {"opaque", "tool", "text"},
                          words : {1}]
    BY <2>3
  <2> QED
    BY <1>3, <2>1, <2>2, <2>3, ZenonT(60) DEF MCFixtures
<1>4. ASSUME fixture \in PostFixtures PROVE fixture.status # 0
  <2>1. CASE fixture \in {Unfound("none"), Unfound("exhausted"), Unfound("failed")}
    BY <2>1 DEF Unfound
  <2>2. CASE fixture \in [match : {"found"}, template : {"ok"}, status : {200, 429}, array : {TRUE}, events : MCEvents]
    BY <2>2
  <2>3. CASE fixture \in [match : {"found"}, template : {"none", "bad"}, status : {200, 429}, array : {FALSE}, events : {<<>>}]
    BY <2>3
  <2> QED
    BY <1>4, <2>1, <2>2, <2>3, ZenonT(60) DEF PostFixtures
<1>5. ASSUME fixture \in JudgeFixtures PROVE fixture.status # 0
  BY <1>5 DEF JudgeFixtures, Fixture
<1>6. CASE route = "openai"
  BY <1>1, <1>2, <1>3, <1>6 DEF AnyInit, OpenAI!ExchangeInit, Given
<1>7. CASE route = "anthropic"
  BY <1>1, <1>2, <1>3, <1>7 DEF AnyInit, Anthropic!ExchangeInit, Given
<1>8. CASE route = "gemini"
  BY <1>1, <1>2, <1>3, <1>8 DEF AnyInit, Gemini!ExchangeInit, Given
<1>9. CASE route = "ollama"
  BY <1>1, <1>2, <1>3, <1>9 DEF AnyInit, Ollama!ExchangeInit, Given
<1>10. CASE route = "post"
  BY <1>1, <1>2, <1>4, <1>10 DEF AnyInit, Post!ExchangeInit, Given, Streaming
<1>11. CASE route = "systemone"
  BY <1>1, <1>2, <1>5, <1>11 DEF AnyInit, Judge!Init, Judge!ExchangeInit, Given, Streaming
<1>12. CASE route = "socket"
  BY <1>1, <1>12 DEF Given, Streaming
<1> QED
  BY <1>1, <1>6, <1>7, <1>8, <1>9, <1>10, <1>11, <1>12 DEF Routes

(* Of up to six checks that a request fails, one is the first.             *)
LEMMA FirstIs ==
  ASSUME NEW checks, NEW faults, NEW n \in 0..6, DOMAIN checks = 1..n,
         \E i \in DOMAIN checks : checks[i].fault \in faults
  PROVE  \E i \in DOMAIN checks : /\ checks[i].fault \in faults
                                  /\ \A j \in 1..(i - 1) : checks[j].fault \notin faults
<1> DEFINE S == {i \in 1..n : checks[i].fault \in faults}
<1>1. S # {} /\ S \subseteq 1..6
  OBVIOUS
<1> HIDE DEF S
<1>2. \E i \in S : \A j \in 1..(i - 1) : j \notin S
  <2>1. CASE 1 \in S
    BY <2>1
  <2>2. CASE 1 \notin S /\ 2 \in S
    BY <2>2
  <2>3. CASE 1 \notin S /\ 2 \notin S /\ 3 \in S
    BY <2>3
  <2>4. CASE 1 \notin S /\ 2 \notin S /\ 3 \notin S /\ 4 \in S
    BY <2>4
  <2>5. CASE 1 \notin S /\ 2 \notin S /\ 3 \notin S /\ 4 \notin S /\ 5 \in S
    BY <2>5
  <2>6. CASE 1 \notin S /\ 2 \notin S /\ 3 \notin S /\ 4 \notin S /\ 5 \notin S
    <3>1. \A i \in 1..6 : i = 1 \/ i = 2 \/ i = 3 \/ i = 4 \/ i = 5 \/ i = 6
      OBVIOUS
    <3>2. 6 \in S
      BY <1>1, <2>6, <3>1
    <3>3. \A j \in 1..(6 - 1) : j = 1 \/ j = 2 \/ j = 3 \/ j = 4 \/ j = 5
      OBVIOUS
    <3>4. \A j \in 1..(6 - 1) : j \notin S
      BY <2>6, <3>3, Zenon
    <3> QED
      BY <3>2, <3>4, Zenon
  <2> QED
    BY <2>1, <2>2, <2>3, <2>4, <2>5, <2>6
<1> QED
  BY <1>2 DEF S

(* What a text may be is a sequence of empty and other chunks.             *)
TextOk(t) == t.chunks \in Seq({0, 1}) /\ t.fails \in BOOLEAN
(* The generator's words are a text.                                       *)
LEMMA WordsOk ==
  ASSUME NEW n \in Nat
  PROVE  TextOk([chunks |-> [i \in 1..n |-> 1], fails |-> FALSE]) /\ Len([i \in 1..n |-> 1]) = n
<1>1. [i \in 1..n |-> 1] \in Seq({0, 1}) /\ Len([i \in 1..n |-> 1]) = n
  OBVIOUS
<1> HIDE <1>1
<1> QED
  BY <1>1 DEF TextOk
(* So is whatever a backend makes.                                         *)
LEMMA TextsOk ==
  ASSUME NEW t \in [chunks : UNION {[1..n -> 0..1] : n \in 0..MaxChunks}, fails : BOOLEAN]
  PROVE  TextOk(t)
<1>1. PICK n \in 0..MaxChunks : t.chunks \in [1..n -> 0..1]
  OBVIOUS
<1>2. t.chunks \in Seq(0..1)
  BY <1>1
<1>3. 0..1 = {0, 1}
  OBVIOUS
<1>4. t.chunks \in Seq({0, 1})
  BY <1>2, <1>3
<1> QED
  BY <1>4 DEF TextOk

(* The chunks that are not empty are counted by a natural number.          *)
LEMMA CountIsNat ==
  ASSUME NEW c \in Seq({0, 1}) PROVE Cardinality({i \in DOMAIN c : c[i] = 1}) \in Nat
<1>1. DOMAIN c = 1..Len(c) /\ Len(c) \in Nat
  OBVIOUS
<1> QED
  BY <1>1, CountNext

(* A whole reply is a step of every route.                                 *)
LEMMA WholeReply ==
  ASSUME ReplyInv, NEW s, NEW z, NEW k, NEW u, s # 0, pc # "done", pc \in Early \/ reply.status = 0, todo = <<>>, pc' = "done",
         reply' = [status |-> s, media |-> "json", zolem |-> z, frames |-> <<[kind |-> k, piece |-> FALSE, usage |-> u]>>],
         TextOk(text'), UNCHANGED <<todo, alive, route>>
  PROVE  ReplyStep
<1>1. Nothing
  <2>1. Nothing \/ InOne \/ InParts
    BY Stages
  <2>2. reply.status = 0 => Nothing
    BY <2>1 DEF InOne, InParts
  <2> QED
    BY <2>2, Stages
<1>2. [kind |-> k, piece |-> FALSE, usage |-> u].piece = FALSE
  OBVIOUS
<1>3. Replies
  BY <1>1, <1>2 DEF Replies, TextOk
<1> QED
  BY <1>3 DEF ReplyStep

(* Sequences of frames that are due, put together.                         *)
LastOnly(s) == \A i \in DOMAIN s : IsMark(s[i]) => i = Len(s)
Goes(s) == s \in Seq(StreamFrame) /\ Pieces(s) = {} /\ ~Ended(s) /\ ~Failed(s) /\ Own(s)
Closes(s) == s \in Seq(StreamFrame) /\ Pieces(s) = {} /\ Ended(s) /\ ~Failed(s) /\ Own(s)

(* One frame.                                                              *)
LEMMA Single ==
  ASSUME NEW f \in StreamFrame
  PROVE  /\ <<f>> \in Seq(StreamFrame)
         /\ Ended(<<f>>) <=> f.kind \in EndKinds
         /\ Failed(<<f>>) <=> f.kind = "error"
         /\ Pieces(<<f>>) = {} <=> ~f.piece
         /\ LastOnly(<<f>>)
         /\ f.kind \notin EndKinds \/ f.kind = Mark[route] => Own(<<f>>)
<1>1. <<f>> \in Seq(StreamFrame) /\ DOMAIN <<f>> = {1} /\ <<f>>[1] = f /\ Len(<<f>>) = 1
  OBVIOUS
<1> QED
  BY <1>1 DEF Ended, Failed, Pieces, LastOnly, Own

(* Two sequences of frames, one after the other.                           *)
LEMMA Joined ==
  ASSUME NEW s \in Seq(StreamFrame), NEW t \in Seq(StreamFrame)
  PROVE  /\ s \o t \in Seq(StreamFrame)
         /\ Ended(s \o t) <=> Ended(s) \/ Ended(t)
         /\ Failed(s \o t) <=> Failed(s) \/ Failed(t)
         /\ Pieces(s \o t) = {} <=> Pieces(s) = {} /\ Pieces(t) = {}
         /\ Own(s) /\ Own(t) => Own(s \o t)
         /\ ~Ended(s) /\ ~Failed(s) /\ LastOnly(t) => LastOnly(s \o t)
<1> DEFINE u == s \o t  m == Len(s)  n == Len(t)
<1>1. /\ u \in Seq(StreamFrame) /\ m \in Nat /\ n \in Nat /\ DOMAIN s = 1..m /\ DOMAIN t = 1..n
      /\ DOMAIN u = 1..(m + n) /\ Len(u) = m + n
      /\ \A i \in 1..m : u[i] = s[i]
      /\ \A i \in 1..n : u[m + i] = t[i]
  OBVIOUS
<1> HIDE DEF u, m, n
<1>2. /\ \A i \in DOMAIN u : \/ (i \in DOMAIN s /\ u[i] = s[i])
                             \/ (i - m \in DOMAIN t /\ u[i] = t[i - m])
      /\ \A i \in DOMAIN s : i \in DOMAIN u
      /\ \A i \in DOMAIN t : m + i \in DOMAIN u
  <2>1. ASSUME NEW i \in DOMAIN u, i \notin DOMAIN s PROVE i - m \in DOMAIN t /\ u[i] = t[i - m]
    <3>1. i \in Int /\ m < i /\ i <= m + n
      BY <1>1, <2>1
    <3>2. i - m \in 1..n /\ m + (i - m) = i
      BY <1>1, <3>1
    <3> QED
      BY <1>1, <3>2
  <2> QED
    BY <1>1, <2>1
<1>3. Ended(u) <=> Ended(s) \/ Ended(t)
  BY <1>1, <1>2 DEF Ended
<1>4. Failed(u) <=> Failed(s) \/ Failed(t)
  BY <1>1, <1>2, ZenonT(60) DEF Failed
<1>5. Pieces(u) = {} <=> Pieces(s) = {} /\ Pieces(t) = {}
  <2>1. ASSUME NEW i \in Pieces(u) PROVE Pieces(s) # {} \/ Pieces(t) # {}
    BY <1>2, <2>1 DEF Pieces
  <2>2. ASSUME NEW i \in Pieces(s) PROVE Pieces(u) # {}
    BY <1>1, <1>2, <2>2 DEF Pieces
  <2>3. ASSUME NEW i \in Pieces(t) PROVE Pieces(u) # {}
    BY <1>1, <1>2, <2>3 DEF Pieces
  <2> QED
    BY <2>1, <2>2, <2>3
<1>6. Own(s) /\ Own(t) => Own(u)
  BY <1>1, <1>2 DEF Own
<1>7. ~Ended(s) /\ ~Failed(s) /\ LastOnly(t) => LastOnly(u)
  <2> SUFFICES ASSUME ~Ended(s), ~Failed(s), LastOnly(t), NEW i \in DOMAIN u, IsMark(u[i]) PROVE i = Len(u)
    BY DEF LastOnly
  <2>1. ~(i \in DOMAIN s /\ u[i] = s[i])
    BY DEF Ended, Failed, IsMark
  <2>2. i - m \in DOMAIN t /\ IsMark(t[i - m])
    BY <1>2, <2>1
  <2>3. i - m = n /\ i \in Int
    BY <1>1, <2>2 DEF LastOnly, n
  <2> QED
    BY <1>1, <2>3
<1> QED
  BY <1>1, <1>3, <1>4, <1>5, <1>6, <1>7 DEF u

(* Three frames of which at most the last is a mark.                       *)
LEMMA Triple ==
  ASSUME NEW x \in StreamFrame, NEW y \in StreamFrame, NEW z \in StreamFrame, ~x.piece, ~y.piece, ~z.piece,
         ~IsMark(x), ~IsMark(y), z.kind # "error", z.kind \in EndKinds => z.kind = Mark[route]
  PROVE  LET s == <<x, y, z>> IN
           /\ s \in Seq(StreamFrame) /\ Pieces(s) = {} /\ ~Failed(s) /\ Own(s) /\ LastOnly(s)
           /\ Ended(s) <=> z.kind \in EndKinds
<1> DEFINE s == <<x, y, z>>
<1>1. s \in Seq(StreamFrame) /\ DOMAIN s = {1, 2, 3} /\ s[1] = x /\ s[2] = y /\ s[3] = z /\ Len(s) = 3
  OBVIOUS
<1> HIDE DEF s
<1>2. Pieces(s) = {} /\ ~Failed(s)
  BY <1>1 DEF Pieces, Failed, IsMark
<1>3. Own(s) /\ LastOnly(s) /\ (Ended(s) <=> z.kind \in EndKinds)
  BY <1>1 DEF Own, LastOnly, Ended, IsMark
<1> QED
  BY <1>1, <1>2, <1>3 DEF s

(* A tool's call: one piece, and the mark not before it.                   *)
LEMMA JoinedCall ==
  ASSUME NEW a, Goes(a), NEW f \in StreamFrame, NEW c \in Seq(StreamFrame), Pieces(c) = {}
  PROVE  LET fs == (a \o <<f>>) \o c IN
           /\ \A i, j \in DOMAIN fs : fs[i].kind \in EndKinds /\ fs[j].piece => j <= i
           /\ \A i, j \in DOMAIN fs : fs[i].piece /\ fs[j].piece => i = j
<1> DEFINE fs == (a \o <<f>>) \o c  m == Len(a)  n == Len(c)
<1>1. /\ m \in Nat /\ n \in Nat /\ DOMAIN a = 1..m /\ DOMAIN c = 1..n /\ DOMAIN fs = 1..(m + 1 + n)
      /\ \A i \in 1..m : fs[i] = a[i]
      /\ fs[m + 1] = f
      /\ \A i \in 1..n : fs[m + 1 + i] = c[i]
  BY DEF Goes
<1> HIDE DEF fs, m, n
<1>2. ASSUME NEW i \in DOMAIN fs, fs[i].piece PROVE i = m + 1
  <2>1. CASE i \in 1..m
    BY <1>1, <1>2, <2>1 DEF Goes, Pieces
  <2>2. CASE i > m + 1
    <3>1. i - (m + 1) \in 1..n /\ m + 1 + (i - (m + 1)) = i
      BY <1>1, <2>2
    <3>2. c[i - (m + 1)].piece
      BY <1>1, <1>2, <3>1
    <3> QED
      BY <1>1, <3>1, <3>2 DEF Pieces
  <2> QED
    BY <1>1, <2>1, <2>2
<1>3. ASSUME NEW i \in DOMAIN fs, fs[i].kind \in EndKinds PROVE i >= m + 1
  BY <1>1, <1>3 DEF Goes, Ended
<1> QED
  BY <1>1, <1>2, <1>3 DEF fs

(* Where a handler stands.                                                 *)
LEMMA Standing ==
  ASSUME ReplyInv
  PROVE  /\ TextOk(text)
         /\ pc \in Early => Nothing /\ reply.status = 0 /\ reply.media = "none" /\ SentNow = 0
         /\ pc \in Streams /\ route \in Streaming => SentNow \in Nat /\ SentNow <= Len(text.chunks)
BY Stages, SentIsNat DEF ReplyInv, ReplyShape, TextOk, Asking, Nothing, InOne, Streams

(* A stream begins with a preamble.                                        *)
LEMMA OpensStep ==
  ASSUME NEW fs, Goes(fs), pc \in Early, pc' \in Streams, todo' = fs, TextOk(text'),
         pc' = "fixture_stream" => ~text'.fails, route \in Streaming, UNCHANGED <<reply, alive, route>>
  PROVE  ReplyStep
<1>1. \A i \in DOMAIN fs : ~fs[i].piece /\ ~IsMark(fs[i])
  BY DEF Goes, Pieces, Ended, Failed, IsMark
<1>2. Opens(fs)
  BY <1>1 DEF Opens, Goes, TextOk
<1> QED
  BY <1>2 DEF ReplyStep

(* A piece of the text is sent.                                            *)
LEMMA SendsStep ==
  ASSUME NEW f \in StreamFrame, NEW media \in StreamMedia, f.piece, f.kind # "error",
         pc \in Streams, todo = <<>>, route \in Streaming, SentNow < Len(text.chunks),
         f.kind \in EndKinds => /\ route = "gemini" /\ f.kind = "STOP" /\ pc = "fixture_stream"
                               /\ SentNow + 1 = Len(text.chunks) /\ ~text.fails,
         route = "gemini" /\ pc = "fixture_stream" /\ SentNow + 1 = Len(text.chunks) => f.kind \in EndKinds,
         reply' = WrittenTo(f, media), UNCHANGED <<todo, text, pc, alive, route>>
  PROVE  ReplyStep
<1>1. Sends(f)
  BY DEF Sends
<1> QED
  BY <1>1 DEF ReplyStep

(* The source is at its end: the rest is due.                              *)
LEMMA FinishesStep ==
  ASSUME NEW fs, fs \in Seq(StreamFrame), Pieces(fs) = {}, Own(fs), pc \in Streams, todo = <<>>, pc' = "done", todo' = fs,
         Ended(fs) => SentNow = Len(text.chunks) /\ ~text.fails /\ ~Failed(fs),
         Failed(fs) => (text.fails \/ ~alive) /\ pc = "stream",
         Ended(fs) \/ Failed(fs) \/ Ended(reply.frames) \/ ~alive,
         LastOnly(fs) \/ route = "gemini", route \in Streaming, UNCHANGED <<reply, text, alive, route>>
  PROVE  ReplyStep
<1>1. Finishes(fs)
  BY DEF Finishes, LastOnly
<1> QED
  BY <1>1 DEF ReplyStep

(* A whole tool call is due.                                               *)
LEMMA CallsStep ==
  ASSUME NEW a, Goes(a), NEW b, b = <<>> \/ (\E f \in StreamFrame : b = <<f>> /\ f.piece /\ f.kind # "error" /\ Own(b)),
         NEW c, c \in Seq(StreamFrame), Pieces(c) = {}, ~Failed(c), Own(c), Ended(b) \/ Ended(c),
         (LastOnly(c) /\ ~Ended(b)) \/ route = "gemini",
         pc \in Early, pc' = "done", route \in Streaming, todo' = (a \o b) \o c,
         text'.chunks \in Seq({0, 1}), Len(text'.chunks) = Len(b), text'.fails = FALSE, UNCHANGED <<reply, alive, route>>
  PROVE  ReplyStep
<1> DEFINE fs == (a \o b) \o c
<1>1. a \in Seq(StreamFrame) /\ b \in Seq(StreamFrame) /\ Own(a) /\ Own(b)
  <2>1. CASE b = <<>>
    BY <2>1 DEF Goes, Own
  <2>2. CASE \E f \in StreamFrame : b = <<f>> /\ Own(b)
    BY <2>2 DEF Goes
  <2> QED
    BY <2>1, <2>2
<1>2. ~Failed(b) /\ (Pieces(b) = {} <=> b = <<>>)
  BY NoFrames, Single
<1>3. /\ a \o b \in Seq(StreamFrame) /\ ~Failed(a \o b) /\ (Ended(a \o b) <=> Ended(b)) /\ Own(a \o b)
      /\ Pieces(a \o b) = {} <=> b = <<>>
  BY <1>1, <1>2, Joined DEF Goes
<1>4. /\ fs \in Seq(StreamFrame) /\ ~Failed(fs) /\ Ended(fs) /\ Own(fs) /\ (Pieces(fs) = {} <=> b = <<>>)
      /\ LastOnly(fs) \/ route = "gemini"
  BY <1>3, Joined
<1>5. /\ \A i, j \in DOMAIN fs : fs[i].kind \in EndKinds /\ fs[j].piece => j <= i
      /\ \A i, j \in DOMAIN fs : fs[i].piece /\ fs[j].piece => i = j
  <2>1. CASE b = <<>>
    <3>1. \A i \in DOMAIN fs : ~fs[i].piece
      BY <1>4, <2>1 DEF Pieces
    <3> QED
      BY <3>1
  <2>2. CASE \E f \in StreamFrame : b = <<f>>
    BY <2>2, JoinedCall
  <2> QED
    BY <2>1, <2>2
<1>6. Len(text'.chunks) = IF Pieces(fs) = {} THEN 0 ELSE 1
  BY <1>4
<1> HIDE DEF fs
<1>7. todo' = fs
  BY DEF fs
<1>8. Calls(fs)
  BY <1>4, <1>5, <1>6, <1>7 DEF Calls, LastOnly
<1> QED
  BY <1>8 DEF ReplyStep

-----------------------------------------------------------------------------
(* OpenAI's route takes only such steps.                                   *)
LEMMA OpenAISteps ==
  ASSUME route = "openai", ReplyInv, Served, Given, OpenAI!Next, UNCHANGED route PROVE ReplyStep
<1>1. /\ TextOk(text) /\ SentNow = OpenAI!Sent
      /\ pc \in Streams => SentNow \in Nat /\ SentNow <= Len(text.chunks)
      /\ profile.errorType \in ErrorTypes \cup {"none"} /\ fixture.status # 0 /\ fixture.words \in Nat
      /\ fixture.match \in Matches
      /\ route \in Streaming /\ route # "gemini" /\ Mark[route] = "[DONE]"
  <2>1. route \in Streaming /\ route # "gemini" /\ Mark[route] = "[DONE]"
    BY DEF Streaming, Mark
  <2>2. SentNow = OpenAI!Sent
    BY DEF OpenAI!Sent, OpenAI!Cardinality, Cardinality, SentNow, Pieces
  <2> QED
    BY <2>1, <2>2, Standing DEF Given
<1>2. CASE OpenAI!Force(OpenAI!writeForcedProfileError)
  BY <1>1, <1>2, WholeReply DEF OpenAI!Force, OpenAI!Forced, OpenAI!At, OpenAI!Body, OpenAI!Frame, Early,
     OpenAI!writeForcedProfileError, ErrorTypes
<1>3. CASE OpenAI!Refuse(OpenAI!Checks)
  <2>1. OpenAI!FirstFault(OpenAI!Checks) \in DOMAIN OpenAI!Checks
    <3>1. DOMAIN OpenAI!Checks = 1..5 /\ 5 \in 0..6
      BY DEF OpenAI!Checks
    <3> QED
      BY <1>3, <3>1, FirstIs DEF OpenAI!Refuse, OpenAI!Faulty, OpenAI!FirstFault
  <2>2. \A i \in DOMAIN OpenAI!Checks : OpenAI!Checks[i].status # 0
    BY DEF OpenAI!Checks
  <2> QED
    BY <1>1, <1>3, <2>1, <2>2, WholeReply DEF OpenAI!Refuse, OpenAI!At, OpenAI!Body, OpenAI!Frame, Early
<1>4. CASE OpenAI!Admit(OpenAI!Checks)
  BY <1>4 DEF OpenAI!Admit, OpenAI!At, ReplyStep, Proceeds, Early
<1>5. CASE OpenAI!Match(500)
  <2>1. pc = "select" /\ todo = <<>> /\ UNCHANGED <<text, todo, alive>>
    BY <1>5 DEF OpenAI!Match, OpenAI!At
  <2>2. CASE fixture.match \in {"none", "found"}
    <3>1. pc' \in {"route", "render"} /\ UNCHANGED reply
      BY <1>5, <2>2, ZenonT(60) DEF OpenAI!Match
    <3> QED
      BY <1>1, <2>1, <3>1 DEF ReplyStep, Proceeds, Early
  <2>3. CASE fixture.match \in {"exhausted", "failed"}
    <3>1. OpenAI!Body(500, TRUE, -1) \/ OpenAI!Body(502, TRUE, -1)
      BY <1>5, <2>3 DEF OpenAI!Match
    <3> QED
      BY <1>1, <2>1, <3>1, WholeReply DEF OpenAI!Body, OpenAI!Frame, Early
  <2> QED
    BY <1>1, <2>2, <2>3 DEF Matches
<1>6. CASE OpenAI!RenderBody
  BY <1>1, <1>6, WholeReply DEF OpenAI!RenderBody, OpenAI!At, OpenAI!Body, OpenAI!Frame, ReplyStep, Proceeds, Early
<1>7. \A n \in Int : Closes(OpenAI!Closing(n)) /\ LastOnly(OpenAI!Closing(n))
  <2> SUFFICES ASSUME NEW n \in Int PROVE Closes(OpenAI!Closing(n)) /\ LastOnly(OpenAI!Closing(n))
    BY Zenon
  <2> DEFINE stop == OpenAI!Plain("stop")  usage == OpenAI!Frame("usage", FALSE, n)  done == OpenAI!Plain("[DONE]")
             u == OpenAI!UsageChunk(n)
  <2>1. /\ stop \in StreamFrame /\ usage \in StreamFrame /\ done \in StreamFrame
        /\ ~stop.piece /\ ~usage.piece /\ ~done.piece
        /\ stop.kind = "stop" /\ usage.kind = "usage" /\ done.kind = "[DONE]"
    BY DEF OpenAI!Plain, OpenAI!Frame, StreamFrame, StreamKinds
  <2>2. u = <<>> \/ u = <<usage>>
    BY Zenon DEF OpenAI!UsageChunk
  <2>3. OpenAI!Closing(n) = <<stop>> \o u \o <<done>>
    BY DEF OpenAI!Closing
  <2> HIDE DEF stop, usage, done, u
  <2>4. Goes(<<stop>>) /\ Goes(<<usage>>)
    BY <2>1, Single DEF Goes, EndKinds
  <2>5. Goes(<<>>)
    BY NoFrames DEF Goes, Own
  <2>6. Goes(<<stop>> \o u)
    BY <2>2, <2>4, <2>5, Joined DEF Goes
  <2>7. Closes(<<done>>) /\ LastOnly(<<done>>)
    BY <1>1, <2>1, Single DEF Closes, EndKinds
  <2> DEFINE s == <<stop>> \o u  t == <<done>>
  <2>8. s \in Seq(StreamFrame) /\ t \in Seq(StreamFrame) /\ Goes(s) /\ Closes(t) /\ LastOnly(t)
    BY <2>6, <2>7 DEF Goes, Closes
  <2> HIDE DEF s, t
  <2>9. Closes(s \o t) /\ LastOnly(s \o t)
    BY <2>8, Joined DEF Goes, Closes
  <2> QED
    BY <2>3, <2>9 DEF s, t
<1>8. Goes(OpenAI!Opening) /\ Goes(<<>>)
  <2>1. OpenAI!Plain("role") \in StreamFrame /\ ~OpenAI!Plain("role").piece /\ OpenAI!Plain("role").kind = "role"
    BY DEF OpenAI!Plain, OpenAI!Frame, StreamFrame, StreamKinds
  <2> QED
    BY <2>1, Single, NoFrames DEF Goes, OpenAI!Opening, EndKinds, Own
<1>9. OpenAI!CountNonEmpty(text) \in Int /\ (pc \in Streams => OpenAI!Sent \in Int)
  <2>1. OpenAI!CountNonEmpty(text) = Cardinality({i \in DOMAIN text.chunks : text.chunks[i] = 1})
    BY DEF OpenAI!CountNonEmpty, OpenAI!Cardinality, Cardinality
  <2> QED
    BY <1>1, <2>1, CountIsNat DEF TextOk
<1>10. ASSUME NEW t \in OpenAI!Generation PROVE TextOk(t)
  BY <1>10, WordsOk, TextsOk, MaxChunksAssumption DEF OpenAI!Generation, OpenAI!Texts, OpenAI!Words
<1>11. CASE OpenAI!serveFixture
  <2>1. CASE OpenAI!Verbatim
    BY <1>1, <1>11, <2>1, WholeReply DEF OpenAI!serveFixture, OpenAI!At, OpenAI!Verbatim, OpenAI!Body, OpenAI!Frame, Early
  <2>2. CASE OpenAI!OpenFixture(OpenAI!Opening)
    <3>1. TextOk(text') /\ text'.fails = FALSE
      BY <1>1, <2>2, WordsOk DEF OpenAI!OpenFixture, OpenAI!Words
    <3> QED
      BY <1>1, <1>8, <1>11, <2>2, <3>1, OpensStep DEF OpenAI!serveFixture, OpenAI!At, OpenAI!OpenFixture, Early, Streams
  <2> QED
    BY <1>11, <2>1, <2>2 DEF OpenAI!serveFixture
<1>12. CASE OpenAI!streamResponse \/ OpenAI!streamChatCompletions
  <2>1. pc \in Streams /\ todo = <<>>
    BY <1>12 DEF OpenAI!streamResponse, OpenAI!streamChatCompletions, OpenAI!At, Streams
  <2>2. CASE OpenAI!BackendHasMore /\ OpenAI!StreamWrite(OpenAI!Frame("delta", TRUE, -1), "sse")
    <3>1. OpenAI!Frame("delta", TRUE, -1) \in StreamFrame /\ OpenAI!Frame("delta", TRUE, -1).piece
          /\ OpenAI!Frame("delta", TRUE, -1).kind = "delta" /\ "sse" \in StreamMedia
      BY DEF OpenAI!Frame, StreamFrame, StreamKinds, StreamMedia
    <3> QED
      BY <1>1, <2>1, <2>2, <3>1, SendsStep, Zenon DEF OpenAI!BackendHasMore, OpenAI!StreamWrite, OpenAI!Written, WrittenTo, EndKinds
  <2>3. CASE pc = "fixture_stream" /\ OpenAI!DelayMayFail /\ OpenAI!Finish(<<>>)
    <3>1. /\ <<>> \in Seq(StreamFrame) /\ Pieces(<<>>) = {} /\ Own(<<>>) /\ LastOnly(<<>>)
          /\ ~Ended(<<>>) /\ ~Failed(<<>>)
      BY <1>8 DEF Goes, LastOnly
    <3>2. ~alive /\ pc' = "done" /\ todo' = <<>> /\ UNCHANGED <<reply, text, alive>>
      BY <2>3 DEF OpenAI!DelayMayFail, OpenAI!Finish
    <3> QED
      BY <1>1, <2>1, <3>1, <3>2, FinishesStep
  <2>4. CASE pc = "stream" /\ OpenAI!BackendMayFail /\ OpenAI!Finish(<<OpenAI!Plain("error")>>)
    <3>1. OpenAI!Plain("error") \in StreamFrame /\ ~OpenAI!Plain("error").piece /\ OpenAI!Plain("error").kind = "error"
      BY DEF OpenAI!Plain, OpenAI!Frame, StreamFrame, StreamKinds
    <3>2. text.fails \/ ~alive
      BY <2>4 DEF OpenAI!BackendMayFail
    <3>3. LET e == <<OpenAI!Plain("error")>> IN
            e \in Seq(StreamFrame) /\ Pieces(e) = {} /\ Own(e) /\ Failed(e) /\ ~Ended(e) /\ LastOnly(e)
      BY <3>1, Single DEF EndKinds
    <3> QED
      BY <1>1, <2>1, <2>4, <3>2, <3>3, FinishesStep DEF OpenAI!Finish
  <2>5. ASSUME NEW n \in Int, OpenAI!BackendEnds, OpenAI!Finish(OpenAI!Closing(n)) PROVE ReplyStep
    BY <1>1, <1>7, <2>1, <2>5, FinishesStep DEF OpenAI!BackendEnds, OpenAI!Finish, Closes
  <2> QED
    BY <1>9, <1>12, <2>1, <2>2, <2>3, <2>4, <2>5 DEF OpenAI!streamResponse, OpenAI!streamChatCompletions, OpenAI!At
<1>13. CASE OpenAI!serveToolCallResponse
  <2>1. pc = "route" /\ todo = <<>> /\ text' = OpenAI!Words(1) /\ UNCHANGED alive
    BY <1>13 DEF OpenAI!serveToolCallResponse, OpenAI!At
  <2>2. TextOk(text') /\ Len(text'.chunks) = 1 /\ text'.fails = FALSE
    BY <2>1, WordsOk DEF OpenAI!Words
  <2>3. CASE OpenAI!Body(200, FALSE, 1) /\ UNCHANGED todo
    BY <1>1, <2>1, <2>2, <2>3, WholeReply DEF OpenAI!Body, OpenAI!Frame, Early
  <2>4. CASE OpenAI!streamToolCallCompletions
    <3> DEFINE f == OpenAI!Frame("tool_calls", TRUE, -1)
    <3>1. f \in StreamFrame /\ f.piece /\ f.kind = "tool_calls"
      BY DEF OpenAI!Frame, StreamFrame, StreamKinds
    <3>2. todo' = (OpenAI!Opening \o <<f>>) \o OpenAI!Closing(1) /\ pc' = "done" /\ UNCHANGED reply
      BY <2>4 DEF OpenAI!streamToolCallCompletions
    <3> HIDE DEF f
    <3>3. ~Ended(<<f>>) /\ Own(<<f>>) /\ Len(<<f>>) = 1
      BY <3>1, Single DEF EndKinds
    <3>4. Closes(OpenAI!Closing(1)) /\ LastOnly(OpenAI!Closing(1))
      BY <1>7
    <3> QED
      BY <1>1, <1>8, <2>1, <2>2, <3>1, <3>2, <3>3, <3>4, CallsStep DEF Closes, TextOk, Early
  <2> QED
    BY <1>13, <2>3, <2>4 DEF OpenAI!serveToolCallResponse
<1>14. CASE OpenAI!generate
  <2>1. pc = "route" /\ todo = <<>>
    BY <1>14 DEF OpenAI!generate, OpenAI!At
  <2>2. CASE OpenAI!OpenBackend(OpenAI!Opening)
    BY <1>1, <1>8, <1>10, <2>1, <2>2, OpensStep DEF OpenAI!OpenBackend, Early, Streams
  <2>3. CASE OpenAI!Tokens(502)
    <3>1. PICK t \in OpenAI!Generation : /\ text' = t
                                          /\ \/ OpenAI!Body(502, FALSE, -1)
                                             \/ \E n : OpenAI!Body(200, FALSE, n)
      BY <2>3, ZenonT(60) DEF OpenAI!Tokens
    <3>2. TextOk(text') /\ UNCHANGED <<todo, alive>>
      BY <1>10, <2>3, <3>1 DEF OpenAI!Tokens
    <3> QED
      BY <1>1, <2>1, <3>1, <3>2, WholeReply DEF OpenAI!Body, OpenAI!Frame, Early
  <2> QED
    BY <1>14, <2>2, <2>3 DEF OpenAI!generate
<1>15. CASE OpenAI!WriteNext("sse")
  <2>1. Writes
    BY <1>15 DEF OpenAI!WriteNext, OpenAI!Written, Writes, WrittenTo, StreamMedia
  <2> QED
    BY <2>1 DEF ReplyStep
<1>16. CASE OpenAI!ClientLeaves \/ OpenAI!Done
  BY <1>16 DEF OpenAI!ClientLeaves, OpenAI!Done, OpenAI!vars, ReplyStep, Leaves
<1> QED
  BY <1>2, <1>3, <1>4, <1>5, <1>6, <1>11, <1>12, <1>13, <1>14, <1>15, <1>16
     DEF OpenAI!Next, OpenAI!Handle, OpenAI!renderFixtureBody, OpenAI!handleChatCompletions

(* So does Anthropic's, whose streams close the block before the mark.     *)
LEMMA AnthropicSteps ==
  ASSUME route = "anthropic", ReplyInv, Served, Given, Anthropic!Next, UNCHANGED route PROVE ReplyStep
<1>1. /\ TextOk(text) /\ SentNow = Anthropic!Sent
      /\ pc \in Streams => SentNow \in Nat /\ SentNow <= Len(text.chunks)
      /\ profile.errorType \in ErrorTypes \cup {"none"} /\ fixture.status # 0 /\ fixture.words \in Nat
      /\ fixture.match \in Matches
      /\ route \in Streaming /\ route # "gemini" /\ Mark[route] = "message_stop"
  <2>1. route \in Streaming /\ route # "gemini" /\ Mark[route] = "message_stop"
    BY DEF Streaming, Mark
  <2>2. SentNow = Anthropic!Sent
    BY DEF Anthropic!Sent, Anthropic!Cardinality, Cardinality, SentNow, Pieces
  <2> QED
    BY <2>1, <2>2, Standing DEF Given
<1>2. CASE Anthropic!Force(Anthropic!writeForcedProfileError)
  BY <1>1, <1>2, WholeReply DEF Anthropic!Force, Anthropic!Forced, Anthropic!At, Anthropic!Body, Anthropic!Frame, Early,
     Anthropic!writeForcedProfileError, ErrorTypes
<1>3. CASE Anthropic!Refuse(Anthropic!Checks)
  <2>1. Anthropic!FirstFault(Anthropic!Checks) \in DOMAIN Anthropic!Checks
    <3>1. DOMAIN Anthropic!Checks = 1..6 /\ 6 \in 0..6
      BY DEF Anthropic!Checks
    <3> QED
      BY <1>3, <3>1, FirstIs DEF Anthropic!Refuse, Anthropic!Faulty, Anthropic!FirstFault
  <2>2. \A i \in DOMAIN Anthropic!Checks : Anthropic!Checks[i].status # 0
    BY DEF Anthropic!Checks
  <2> QED
    BY <1>1, <1>3, <2>1, <2>2, WholeReply DEF Anthropic!Refuse, Anthropic!At, Anthropic!Body, Anthropic!Frame, Early
<1>4. CASE Anthropic!Admit(Anthropic!Checks)
  BY <1>4 DEF Anthropic!Admit, Anthropic!At, ReplyStep, Proceeds, Early
<1>5. CASE Anthropic!Match(500)
  <2>1. pc = "select" /\ todo = <<>> /\ UNCHANGED <<text, todo, alive>>
    BY <1>5 DEF Anthropic!Match, Anthropic!At
  <2>2. CASE fixture.match \in {"none", "found"}
    <3>1. pc' \in {"route", "render"} /\ UNCHANGED reply
      BY <1>5, <2>2, ZenonT(60) DEF Anthropic!Match
    <3> QED
      BY <1>1, <2>1, <3>1 DEF ReplyStep, Proceeds, Early
  <2>3. CASE fixture.match \in {"exhausted", "failed"}
    <3>1. Anthropic!Body(500, TRUE, -1) \/ Anthropic!Body(502, TRUE, -1)
      BY <1>5, <2>3 DEF Anthropic!Match
    <3> QED
      BY <1>1, <2>1, <3>1, WholeReply DEF Anthropic!Body, Anthropic!Frame, Early
  <2> QED
    BY <1>1, <2>2, <2>3 DEF Matches
<1>6. CASE Anthropic!RenderBody
  BY <1>1, <1>6, WholeReply DEF Anthropic!RenderBody, Anthropic!At, Anthropic!Body, Anthropic!Frame, ReplyStep, Proceeds, Early
<1>7. \A n \in Int : Closes(Anthropic!Closing(n)) /\ LastOnly(Anthropic!Closing(n))
  <2> SUFFICES ASSUME NEW n \in Int PROVE Closes(Anthropic!Closing(n)) /\ LastOnly(Anthropic!Closing(n))
    BY Zenon
  <2> DEFINE x == Anthropic!Plain("content_block_stop")  y == Anthropic!Frame("message_delta", FALSE, n)
             z == Anthropic!Plain("message_stop")
  <2>1. /\ x \in StreamFrame /\ ~x.piece /\ x.kind = "content_block_stop"
        /\ y \in StreamFrame /\ ~y.piece /\ y.kind = "message_delta"
        /\ z \in StreamFrame /\ ~z.piece /\ z.kind = "message_stop"
    BY DEF Anthropic!Plain, Anthropic!Frame, StreamFrame, StreamKinds
  <2>2. Anthropic!Closing(n) = <<x, y, z>>
    BY DEF Anthropic!Closing
  <2> HIDE DEF x, y, z
  <2>3. Closes(<<x, y, z>>) /\ LastOnly(<<x, y, z>>)
    BY <1>1, <2>1, Triple DEF Closes, EndKinds, IsMark
  <2> QED
    BY <2>2, <2>3
<1>8. Goes(Anthropic!Opening("start_text")) /\ Goes(Anthropic!Opening("start_tool_use")) /\ Goes(<<>>)
  <2>1. ASSUME NEW block \in {"start_text", "start_tool_use"} PROVE Goes(Anthropic!Opening(block))
    <3> DEFINE x == Anthropic!Plain("message_start")  y == Anthropic!Plain(block)  z == Anthropic!Plain("ping")
    <3>1. /\ x \in StreamFrame /\ ~x.piece /\ x.kind = "message_start"
          /\ y \in StreamFrame /\ ~y.piece /\ y.kind = block
          /\ z \in StreamFrame /\ ~z.piece /\ z.kind = "ping"
      BY DEF Anthropic!Plain, Anthropic!Frame, StreamFrame, StreamKinds
    <3>2. Anthropic!Opening(block) = <<x, y, z>>
      BY DEF Anthropic!Opening
    <3> HIDE DEF x, y, z
    <3> QED
      BY <3>1, <3>2, Triple DEF Goes, EndKinds, IsMark
  <2>2. Goes(<<>>)
    BY NoFrames DEF Goes, Own
  <2> QED
    BY <2>1, <2>2
<1>9. Anthropic!CountNonEmpty(text) \in Int /\ (pc \in Streams => Anthropic!Sent \in Int)
  <2>1. Anthropic!CountNonEmpty(text) = Cardinality({i \in DOMAIN text.chunks : text.chunks[i] = 1})
    BY DEF Anthropic!CountNonEmpty, Anthropic!Cardinality, Cardinality
  <2> QED
    BY <1>1, <2>1, CountIsNat DEF TextOk
<1>10. ASSUME NEW t \in Anthropic!Generation PROVE TextOk(t)
  BY <1>10, WordsOk, TextsOk, MaxChunksAssumption DEF Anthropic!Generation, Anthropic!Texts, Anthropic!Words
<1> DEFINE Arguments == {<<>>, <<1>>}
<1>11. ASSUME NEW input \in Arguments, NEW n \in Int, Anthropic!streamToolUseResponse(input, n),
             pc \in Early, UNCHANGED <<reply, alive>>
      PROVE  ReplyStep
  <2> DEFINE f == Anthropic!Frame("input_json_delta", TRUE, -1)  b == [i \in DOMAIN input |-> f]
  <2>1. f \in StreamFrame /\ f.piece /\ f.kind = "input_json_delta"
    BY DEF Anthropic!Frame, StreamFrame, StreamKinds
  <2>2. /\ todo' = (Anthropic!Opening("start_tool_use") \o b) \o Anthropic!Closing(n) /\ pc' = "done"
        /\ text'.chunks = input /\ text'.fails = FALSE
    BY <1>11 DEF Anthropic!streamToolUseResponse
  <2> HIDE DEF f
  <2>3. (input = <<>> /\ b = <<>>) \/ (input = <<1>> /\ b = <<f>>)
    OBVIOUS
  <2>4. input \in Seq({0, 1}) /\ Len(input) = Len(b)
    BY <2>3
  <2> HIDE DEF b
  <2>5. b = <<>> \/ (b = <<f>> /\ Own(b) /\ ~Ended(b))
    BY <2>1, <2>3, Single DEF EndKinds
  <2>6. ~Ended(b)
    BY <2>5, NoFrames
  <2>7. Closes(Anthropic!Closing(n)) /\ LastOnly(Anthropic!Closing(n))
    BY <1>7
  <2>8. b = <<>> \/ (\E g \in StreamFrame : b = <<g>> /\ g.piece /\ g.kind # "error" /\ Own(b))
    BY <2>1, <2>5
  <2> QED
    BY <1>1, <1>8, <1>11, <2>2, <2>4, <2>6, <2>7, <2>8, CallsStep DEF Closes
<1>17. CASE Anthropic!serveFixture
  <2>1. pc = "serve" /\ pc \in Early /\ todo = <<>>
    BY <1>17 DEF Anthropic!serveFixture, Anthropic!At, Early
  <2>2. CASE Anthropic!Verbatim
    BY <1>1, <2>1, <2>2, WholeReply DEF Anthropic!Verbatim, Anthropic!Body, Anthropic!Frame
  <2>3. CASE Anthropic!OpenFixture(Anthropic!Opening("start_text"))
    <3>1. TextOk(text') /\ text'.fails = FALSE
      BY <1>1, <2>3, WordsOk DEF Anthropic!OpenFixture, Anthropic!Words
    <3> QED
      BY <1>1, <1>8, <2>1, <2>3, <3>1, OpensStep DEF Anthropic!OpenFixture, Streams
  <2>4. CASE /\ \E input \in {<<>>, <<1>>} : Anthropic!streamToolUseResponse(input, fixture.words)
             /\ UNCHANGED <<req, profile, fixture, reply, used, alive>>
    <3>1. PICK input \in {<<>>, <<1>>} : Anthropic!streamToolUseResponse(input, fixture.words)
      BY <2>4
    <3> QED
      BY <1>1, <1>11, <2>1, <2>4, <3>1
  <2> QED
    BY <1>17, <2>2, <2>3, <2>4 DEF Anthropic!serveFixture
<1>12. CASE Anthropic!streamResponse \/ Anthropic!streamMessages
  <2>1. pc \in Streams /\ todo = <<>>
    BY <1>12 DEF Anthropic!streamResponse, Anthropic!streamMessages, Anthropic!At, Streams
  <2>2. CASE Anthropic!BackendHasMore /\ Anthropic!StreamWrite(Anthropic!Frame("text_delta", TRUE, -1), "sse")
    <3>1. Anthropic!Frame("text_delta", TRUE, -1) \in StreamFrame /\ Anthropic!Frame("text_delta", TRUE, -1).piece
          /\ Anthropic!Frame("text_delta", TRUE, -1).kind = "text_delta" /\ "sse" \in StreamMedia
      BY DEF Anthropic!Frame, StreamFrame, StreamKinds, StreamMedia
    <3> QED
      BY <1>1, <2>1, <2>2, <3>1, SendsStep DEF Anthropic!BackendHasMore, Anthropic!StreamWrite, Anthropic!Written, WrittenTo, EndKinds
  <2>3. CASE pc = "fixture_stream" /\ Anthropic!DelayMayFail /\ Anthropic!Finish(<<>>)
    <3>1. /\ <<>> \in Seq(StreamFrame) /\ Pieces(<<>>) = {} /\ Own(<<>>) /\ LastOnly(<<>>)
          /\ ~Ended(<<>>) /\ ~Failed(<<>>)
      BY <1>8 DEF Goes, LastOnly
    <3>2. ~alive /\ pc' = "done" /\ todo' = <<>> /\ UNCHANGED <<reply, text, alive>>
      BY <2>3 DEF Anthropic!DelayMayFail, Anthropic!Finish
    <3> QED
      BY <1>1, <2>1, <3>1, <3>2, FinishesStep
  <2>4. CASE pc = "stream" /\ Anthropic!BackendMayFail /\ Anthropic!Finish(<<Anthropic!Plain("error")>>)
    <3>1. Anthropic!Plain("error") \in StreamFrame /\ ~Anthropic!Plain("error").piece /\ Anthropic!Plain("error").kind = "error"
      BY DEF Anthropic!Plain, Anthropic!Frame, StreamFrame, StreamKinds
    <3>2. text.fails \/ ~alive
      BY <2>4 DEF Anthropic!BackendMayFail
    <3>3. LET e == <<Anthropic!Plain("error")>> IN
            e \in Seq(StreamFrame) /\ Pieces(e) = {} /\ Own(e) /\ Failed(e) /\ ~Ended(e) /\ LastOnly(e)
      BY <3>1, Single DEF EndKinds
    <3> QED
      BY <1>1, <2>1, <2>4, <3>2, <3>3, FinishesStep DEF Anthropic!Finish
  <2>5. ASSUME NEW n \in Int, Anthropic!BackendEnds, Anthropic!Finish(Anthropic!Closing(n)) PROVE ReplyStep
    BY <1>1, <1>7, <2>1, <2>5, FinishesStep DEF Anthropic!BackendEnds, Anthropic!Finish, Closes
  <2> QED
    BY <1>9, <1>12, <2>1, <2>2, <2>3, <2>4, <2>5 DEF Anthropic!streamResponse, Anthropic!streamMessages, Anthropic!At
<1>13. CASE Anthropic!serveAnthropicToolCallResponse
  <2>1. pc = "route" /\ pc \in Early /\ todo = <<>> /\ UNCHANGED alive
    BY <1>13 DEF Anthropic!serveAnthropicToolCallResponse, Anthropic!At, Early
  <2>2. CASE Anthropic!Body(200, FALSE, 1) /\ UNCHANGED <<text, todo>>
    BY <1>1, <2>1, <2>2, WholeReply DEF Anthropic!Body, Anthropic!Frame
  <2>3. CASE \E input \in {<<>>, <<1>>} : Anthropic!streamToolUseResponse(input, 1) /\ UNCHANGED reply
    BY <1>11, <2>1, <2>3
  <2> QED
    BY <1>13, <2>2, <2>3 DEF Anthropic!serveAnthropicToolCallResponse
<1>14. CASE Anthropic!generate
  <2>1. pc = "route" /\ todo = <<>>
    BY <1>14 DEF Anthropic!generate, Anthropic!At
  <2>2. CASE Anthropic!OpenBackend(Anthropic!Opening("start_text"))
    BY <1>1, <1>8, <1>10, <2>1, <2>2, OpensStep DEF Anthropic!OpenBackend, Early, Streams
  <2>3. CASE Anthropic!Tokens(502)
    <3>1. PICK t \in Anthropic!Generation : /\ text' = t
                                          /\ \/ Anthropic!Body(502, FALSE, -1)
                                             \/ \E n : Anthropic!Body(200, FALSE, n)
      BY <2>3 DEF Anthropic!Tokens
    <3>2. TextOk(text') /\ UNCHANGED <<todo, alive>>
      BY <1>10, <2>3, <3>1 DEF Anthropic!Tokens
    <3> QED
      BY <1>1, <2>1, <3>1, <3>2, WholeReply DEF Anthropic!Body, Anthropic!Frame, Early
  <2> QED
    BY <1>14, <2>2, <2>3 DEF Anthropic!generate
<1>15. CASE Anthropic!WriteNext("sse")
  <2>1. Writes
    BY <1>15 DEF Anthropic!WriteNext, Anthropic!Written, Writes, WrittenTo, StreamMedia
  <2> QED
    BY <2>1 DEF ReplyStep
<1>16. CASE Anthropic!ClientLeaves \/ Anthropic!Done
  BY <1>16 DEF Anthropic!ClientLeaves, Anthropic!Done, Anthropic!vars, ReplyStep, Leaves
<1> QED
  BY <1>2, <1>3, <1>4, <1>5, <1>6, <1>17, <1>12, <1>13, <1>14, <1>15, <1>16
     DEF Anthropic!Next, Anthropic!Handle, Anthropic!renderFixtureBody, Anthropic!handleMessages

(* So does Ollama's, which tells a failure by the status while it can.      *)
LEMMA OllamaSteps ==
  ASSUME route = "ollama", ReplyInv, Served, Given, Ollama!Next, UNCHANGED route PROVE ReplyStep
<1>1. /\ TextOk(text) /\ SentNow = Ollama!Sent
      /\ pc \in Streams => SentNow \in Nat /\ SentNow <= Len(text.chunks)
      /\ profile.errorType \in ErrorTypes \cup {"none"} /\ fixture.status # 0 /\ fixture.words \in Nat
      /\ fixture.match \in Matches
      /\ route \in Streaming /\ route # "gemini" /\ Mark[route] = "done"
  <2>1. route \in Streaming /\ route # "gemini" /\ Mark[route] = "done"
    BY DEF Streaming, Mark
  <2>2. SentNow = Ollama!Sent
    BY DEF Ollama!Sent, Ollama!Cardinality, Cardinality, SentNow, Pieces
  <2> QED
    BY <2>1, <2>2, Standing DEF Given
<1>2. CASE Ollama!Force(Ollama!writeForcedProfileError)
  BY <1>1, <1>2, WholeReply DEF Ollama!Force, Ollama!Forced, Ollama!At, Ollama!Body, Ollama!Frame, Early,
     Ollama!writeForcedProfileError, ErrorTypes
<1>3. CASE Ollama!Refuse(Ollama!Checks)
  <2>1. Ollama!FirstFault(Ollama!Checks) \in DOMAIN Ollama!Checks
    <3>1. DOMAIN Ollama!Checks = 1..4 /\ 4 \in 0..6
      BY DEF Ollama!Checks
    <3> QED
      BY <1>3, <3>1, FirstIs DEF Ollama!Refuse, Ollama!Faulty, Ollama!FirstFault
  <2>2. \A i \in DOMAIN Ollama!Checks : Ollama!Checks[i].status # 0
    BY DEF Ollama!Checks
  <2> QED
    BY <1>1, <1>3, <2>1, <2>2, WholeReply DEF Ollama!Refuse, Ollama!At, Ollama!Body, Ollama!Frame, Early
<1>4. CASE Ollama!Admit(Ollama!Checks)
  BY <1>4 DEF Ollama!Admit, Ollama!At, ReplyStep, Proceeds, Early
<1>18. CASE Ollama!Load
  BY <1>1, <1>18, WholeReply DEF Ollama!Load, Ollama!At, Ollama!Body, Ollama!Frame, Early
<1>5. CASE Ollama!Match(500)
  <2>1. pc = "select" /\ todo = <<>> /\ UNCHANGED <<text, todo, alive>>
    BY <1>5 DEF Ollama!Match, Ollama!At
  <2>2. CASE fixture.match \in {"none", "found"}
    <3>1. pc' \in {"route", "render"} /\ UNCHANGED reply
      BY <1>5, <2>2, ZenonT(60) DEF Ollama!Match
    <3> QED
      BY <1>1, <2>1, <3>1 DEF ReplyStep, Proceeds, Early
  <2>3. CASE fixture.match \in {"exhausted", "failed"}
    <3>1. Ollama!Body(500, TRUE, -1) \/ Ollama!Body(502, TRUE, -1)
      BY <1>5, <2>3 DEF Ollama!Match
    <3> QED
      BY <1>1, <2>1, <3>1, WholeReply DEF Ollama!Body, Ollama!Frame, Early
  <2> QED
    BY <1>1, <2>2, <2>3 DEF Matches
<1>6. CASE Ollama!RenderBody
  BY <1>1, <1>6, WholeReply DEF Ollama!RenderBody, Ollama!At, Ollama!Body, Ollama!Frame, ReplyStep, Proceeds, Early
<1>7. Goes(<<>>) /\ LastOnly(<<>>)
  BY NoFrames DEF Goes, Own, LastOnly
<1>8. ASSUME NEW n \in Int
      PROVE  LET s == <<Ollama!Frame("done", FALSE, n)>> IN Closes(s) /\ LastOnly(s)
  <2>1. Ollama!Frame("done", FALSE, n) \in StreamFrame /\ ~Ollama!Frame("done", FALSE, n).piece
        /\ Ollama!Frame("done", FALSE, n).kind = "done"
    BY DEF Ollama!Frame, StreamFrame, StreamKinds
  <2> QED
    BY <1>1, <2>1, Single DEF Closes, EndKinds
<1>9. Ollama!CountNonEmpty(text) \in Int /\ (pc \in Streams => Ollama!Sent \in Int)
  <2>1. Ollama!CountNonEmpty(text) = Cardinality({i \in DOMAIN text.chunks : text.chunks[i] = 1})
    BY DEF Ollama!CountNonEmpty, Ollama!Cardinality, Cardinality
  <2> QED
    BY <1>1, <2>1, CountIsNat DEF TextOk
<1>10. ASSUME NEW t \in Ollama!Generation PROVE TextOk(t)
  BY <1>10, WordsOk, TextsOk, MaxChunksAssumption DEF Ollama!Generation, Ollama!Texts, Ollama!Words
<1>11. CASE Ollama!serveChatFixture \/ Ollama!serveGenerateFixture
  <2>1. pc = "serve" /\ pc \in Early /\ todo = <<>>
    BY <1>11 DEF Ollama!serveChatFixture, Ollama!serveGenerateFixture, Ollama!At, Early
  <2>2. CASE Ollama!Verbatim
    BY <1>1, <2>1, <2>2, WholeReply DEF Ollama!Verbatim, Ollama!Body, Ollama!Frame
  <2>3. CASE Ollama!OpenFixture(<<>>)
    <3>1. TextOk(text') /\ text'.fails = FALSE
      BY <1>1, <2>3, WordsOk DEF Ollama!OpenFixture, Ollama!Words
    <3> QED
      BY <1>1, <1>7, <2>1, <2>3, <3>1, OpensStep DEF Ollama!OpenFixture, Streams
  <2> QED
    BY <1>11, <2>2, <2>3 DEF Ollama!serveChatFixture, Ollama!serveGenerateFixture
<1>12. CASE Ollama!streamFixture \/ Ollama!streamBackend
  <2>1. pc \in Streams /\ todo = <<>> /\ pc # "done"
    BY <1>12 DEF Ollama!streamFixture, Ollama!streamBackend, Ollama!At, Streams
  <2>2. CASE Ollama!BackendHasMore /\ Ollama!StreamWrite(Ollama!Frame("object", TRUE, -1), "ndjson")
    <3>1. Ollama!Frame("object", TRUE, -1) \in StreamFrame /\ Ollama!Frame("object", TRUE, -1).piece
          /\ Ollama!Frame("object", TRUE, -1).kind = "object" /\ "ndjson" \in StreamMedia
      BY DEF Ollama!Frame, StreamFrame, StreamKinds, StreamMedia
    <3> QED
      BY <1>1, <2>1, <2>2, <3>1, SendsStep DEF Ollama!BackendHasMore, Ollama!StreamWrite, Ollama!Written, WrittenTo, EndKinds
  <2>3. CASE ~alive /\ Ollama!Finish(<<>>)
    <3>1. /\ <<>> \in Seq(StreamFrame) /\ Pieces(<<>>) = {} /\ Own(<<>>) /\ LastOnly(<<>>)
          /\ ~Ended(<<>>) /\ ~Failed(<<>>)
      BY <1>7 DEF Goes
    <3>2. ~alive /\ pc' = "done" /\ todo' = <<>> /\ UNCHANGED <<reply, text, alive>>
      BY <2>3 DEF Ollama!Finish
    <3> QED
      BY <1>1, <2>1, <3>1, <3>2, FinishesStep
  <2>4. CASE pc = "stream" /\ (text.fails \/ ~alive) /\ Ollama!Finish(<<Ollama!Plain("error")>>)
    <3>1. Ollama!Plain("error") \in StreamFrame /\ ~Ollama!Plain("error").piece /\ Ollama!Plain("error").kind = "error"
      BY DEF Ollama!Plain, Ollama!Frame, StreamFrame, StreamKinds
    <3>2. LET e == <<Ollama!Plain("error")>> IN
            e \in Seq(StreamFrame) /\ Pieces(e) = {} /\ Own(e) /\ Failed(e) /\ ~Ended(e) /\ LastOnly(e)
      BY <3>1, Single DEF EndKinds
    <3> QED
      BY <1>1, <2>1, <2>4, <3>2, FinishesStep DEF Ollama!Finish
  <2>5. CASE reply.status = 0 /\ Ollama!SendError500
    BY <1>1, <2>1, <2>5, WholeReply DEF Ollama!SendError500, Ollama!Body, Ollama!Frame
  <2>6. ASSUME NEW n \in Int, Ollama!BackendEnds, Ollama!Finish(<<Ollama!Frame("done", FALSE, n)>>) PROVE ReplyStep
    <3> DEFINE s == <<Ollama!Frame("done", FALSE, n)>>
    <3>1. Closes(s) /\ LastOnly(s)
      BY <1>8
    <3>2. todo' = s /\ pc' = "done" /\ UNCHANGED <<reply, text, alive>> /\ SentNow = Len(text.chunks) /\ ~text.fails
      BY <1>1, <2>6 DEF Ollama!Finish, Ollama!BackendEnds
    <3> HIDE DEF s
    <3> QED
      BY <1>1, <2>1, <3>1, <3>2, FinishesStep DEF Closes
  <2>7. Ollama!BackendMayFail => text.fails \/ ~alive
    BY DEF Ollama!BackendMayFail
  <2>8. CASE Ollama!streamFixture
    <3>1. CASE Ollama!BackendEnds /\ Ollama!Finish(<<Ollama!Frame("done", FALSE, -1)>>)
      <4>1. -1 \in Int
        OBVIOUS
      <4> QED
        BY <2>6, <3>1, <4>1
    <3> QED
      BY <2>2, <2>3, <2>8, <3>1, Zenon DEF Ollama!streamFixture, Ollama!WriteFails, Ollama!DelayMayFail
  <2>9. CASE Ollama!streamBackend
    <3>1. pc = "stream"
      BY <2>9 DEF Ollama!streamBackend, Ollama!At
    <3> QED
      BY <1>9, <2>2, <2>4, <2>5, <2>6, <2>7, <2>9, <3>1 DEF Ollama!streamBackend, Ollama!WriteFails
  <2> QED
    BY <1>12, <2>8, <2>9
<1>14. CASE Ollama!generate
  <2>1. pc = "route" /\ todo = <<>>
    BY <1>14 DEF Ollama!generate, Ollama!At
  <2>2. CASE Ollama!OpenBackend(<<>>)
    BY <1>1, <1>7, <1>10, <2>1, <2>2, OpensStep DEF Ollama!OpenBackend, Early, Streams
  <2>3. CASE Ollama!Tokens(500)
    <3>1. PICK t \in Ollama!Generation : /\ text' = t
                                          /\ \/ Ollama!Body(500, FALSE, -1)
                                             \/ \E n : Ollama!Body(200, FALSE, n)
      BY <2>3 DEF Ollama!Tokens
    <3>2. TextOk(text') /\ UNCHANGED <<todo, alive>>
      BY <1>10, <2>3, <3>1 DEF Ollama!Tokens
    <3> QED
      BY <1>1, <2>1, <3>1, <3>2, WholeReply DEF Ollama!Body, Ollama!Frame, Early
  <2> QED
    BY <1>14, <2>2, <2>3 DEF Ollama!generate
<1>15. CASE Ollama!WriteNext("ndjson")
  <2>1. Writes
    BY <1>15 DEF Ollama!WriteNext, Ollama!Written, Writes, WrittenTo, StreamMedia
  <2> QED
    BY <2>1 DEF ReplyStep
<1>16. CASE Ollama!ClientLeaves \/ Ollama!Done
  BY <1>16 DEF Ollama!ClientLeaves, Ollama!Done, Ollama!vars, ReplyStep, Leaves
<1> QED
  BY <1>2, <1>3, <1>4, <1>5, <1>6, <1>11, <1>12, <1>14, <1>15, <1>16, <1>18
     DEF Ollama!Next, Ollama!Handle, Ollama!renderFixtureBody, Ollama!handleChat, Ollama!handleGenerate

(* So does Gemini's, whose last chunk is the mark, or the array's "]".      *)
LEMMA GeminiSteps ==
  ASSUME route = "gemini", ReplyInv, Served, Given, Gemini!Next, UNCHANGED route PROVE ReplyStep
<1>1. /\ TextOk(text) /\ SentNow = Gemini!Sent
      /\ pc \in Streams => SentNow \in Nat /\ SentNow <= Len(text.chunks)
      /\ profile.errorType \in ErrorTypes \cup {"none"} /\ fixture.status # 0 /\ fixture.words \in Nat
      /\ fixture.match \in Matches
      /\ route \in Streaming /\ Mark[route] = "STOP"
  <2>1. route \in Streaming /\ Mark[route] = "STOP"
    BY DEF Streaming, Mark
  <2>2. SentNow = Gemini!Sent
    BY DEF Gemini!Sent, Gemini!Cardinality, Cardinality, SentNow, Pieces
  <2> QED
    BY <2>1, <2>2, Standing DEF Given
<1>2. CASE Gemini!Force(Gemini!writeForcedProfileError)
  BY <1>1, <1>2, WholeReply DEF Gemini!Force, Gemini!Forced, Gemini!At, Gemini!Body, Gemini!Frame, Early,
     Gemini!writeForcedProfileError, ErrorTypes
<1>3. ASSUME NEW checks \in {Gemini!Checks, Gemini!CountChecks}, Gemini!Refuse(checks) PROVE ReplyStep
  <2> DEFINE a == [fault |-> "auth", status |-> 403]       b == [fault |-> "unreadable", status |-> 400]
             c == [fault |-> "invalid", status |-> 400]    d == [fault |-> "malformed", status |-> 400]
             e == [fault |-> "no_contents", status |-> 400]  R == {a, b, c, d, e}
  <2>1. \A r \in R : r.status # 0
    OBVIOUS
  <2>2. checks = <<a, b>> \o <<c, d, e>> \/ checks = <<a, b>> \o <<d, e>>
    BY DEF Gemini!Checks, Gemini!CountChecks, Gemini!AuthChecks
  <2> HIDE DEF a, b, c, d, e
  <2>3. checks \in Seq(R) /\ (DOMAIN checks = 1..5 \/ DOMAIN checks = 1..4)
    <3>1. CASE checks = <<a, b>> \o <<c, d, e>>
      BY <3>1
    <3>2. CASE checks = <<a, b>> \o <<d, e>>
      BY <3>2
    <3> QED
      BY <2>2, <3>1, <3>2
  <2> HIDE DEF R
  <2>4. Gemini!FirstFault(checks) \in DOMAIN checks
    <3>1. PICK n \in 0..6 : DOMAIN checks = 1..n
      BY <2>3
    <3> QED
      BY <1>3, <3>1, FirstIs DEF Gemini!Refuse, Gemini!Faulty, Gemini!FirstFault
  <2>5. \A i \in DOMAIN checks : checks[i].status # 0
    <3>1. \A i \in DOMAIN checks : checks[i] \in R
      BY <2>3
    <3> QED
      BY <2>1, <3>1
  <2> QED
    BY <1>1, <1>3, <2>4, <2>5, WholeReply DEF Gemini!Refuse, Gemini!At, Gemini!Body, Gemini!Frame, Early
<1>4. CASE Gemini!Admit(Gemini!Checks)
  BY <1>4 DEF Gemini!Admit, Gemini!At, ReplyStep, Proceeds, Early
<1>18. CASE Gemini!handleCatchAll \/ Gemini!handleCountTokens
  <2>1. ASSUME NEW s \in {200, 404}, Gemini!At("start"), Gemini!Body(s, FALSE, -1), UNCHANGED <<text, todo, alive>>
        PROVE  ReplyStep
    BY <1>1, <2>1, WholeReply DEF Gemini!At, Gemini!Body, Gemini!Frame, Early
  <2> QED
    BY <1>2, <1>3, <1>18, <2>1, ZenonT(60) DEF Gemini!handleCatchAll, Gemini!handleCountTokens
<1>5. CASE Gemini!Match(500)
  <2>1. pc = "select" /\ todo = <<>> /\ UNCHANGED <<text, todo, alive>>
    BY <1>5 DEF Gemini!Match, Gemini!At
  <2>2. CASE fixture.match \in {"none", "found"}
    <3>1. pc' \in {"route", "render"} /\ UNCHANGED reply
      BY <1>5, <2>2, ZenonT(60) DEF Gemini!Match
    <3> QED
      BY <1>1, <2>1, <3>1 DEF ReplyStep, Proceeds, Early
  <2>3. CASE fixture.match \in {"exhausted", "failed"}
    <3>1. Gemini!Body(500, TRUE, -1) \/ Gemini!Body(502, TRUE, -1)
      BY <1>5, <2>3, Zenon DEF Gemini!Match
    <3> QED
      BY <1>1, <2>1, <3>1, WholeReply DEF Gemini!Body, Gemini!Frame, Early
  <2> QED
    BY <1>1, <2>2, <2>3 DEF Matches
<1>6. CASE Gemini!RenderBody
  BY <1>1, <1>6, WholeReply DEF Gemini!RenderBody, Gemini!At, Gemini!Body, Gemini!Frame, ReplyStep, Proceeds, Early
<1>7. Goes(<<>>) /\ Goes(Gemini!close) /\ Gemini!Media \in StreamMedia
  <2>1. Gemini!Plain("]") \in StreamFrame /\ ~Gemini!Plain("]").piece /\ Gemini!Plain("]").kind = "]"
    BY DEF Gemini!Plain, Gemini!Frame, StreamFrame, StreamKinds
  <2>2. Goes(<<>>) /\ Goes(<<Gemini!Plain("]")>>)
    BY <2>1, Single, NoFrames DEF Goes, EndKinds, Own
  <2> QED
    BY <2>2 DEF Gemini!close, Gemini!Media, StreamMedia
<1>8. ASSUME NEW n \in Int PROVE Closes(<<Gemini!Frame("STOP", FALSE, n)>> \o Gemini!close)
  <2> DEFINE s == <<Gemini!Frame("STOP", FALSE, n)>>
  <2>1. Gemini!Frame("STOP", FALSE, n) \in StreamFrame /\ ~Gemini!Frame("STOP", FALSE, n).piece
        /\ Gemini!Frame("STOP", FALSE, n).kind = "STOP"
    BY DEF Gemini!Frame, StreamFrame, StreamKinds
  <2>2. Closes(s)
    BY <1>1, <2>1, Single, Zenon DEF Closes, EndKinds
  <2> HIDE DEF s
  <2>3. Closes(s \o Gemini!close)
    BY <1>7, <2>2, Joined DEF Goes, Closes
  <2> QED
    BY <2>3 DEF s
<1>9. Gemini!CountNonEmpty(text) \in Int /\ (pc \in Streams => Gemini!Sent \in Int)
  <2>1. Gemini!CountNonEmpty(text) = Cardinality({i \in DOMAIN text.chunks : text.chunks[i] = 1})
    BY DEF Gemini!CountNonEmpty, Gemini!Cardinality, Cardinality
  <2> QED
    BY <1>1, <2>1, CountIsNat DEF TextOk
<1>10. ASSUME NEW t \in Gemini!Generation PROVE TextOk(t)
  BY <1>10, WordsOk, TextsOk, MaxChunksAssumption DEF Gemini!Generation, Gemini!Texts, Gemini!Words
<1>11. CASE Gemini!serveFixture
  <2>1. pc = "serve" /\ pc \in Early /\ todo = <<>>
    BY <1>11 DEF Gemini!serveFixture, Gemini!At, Early
  <2>2. CASE Gemini!Verbatim
    BY <1>1, <2>1, <2>2, WholeReply DEF Gemini!Verbatim, Gemini!Body, Gemini!Frame
  <2>3. CASE Gemini!OpenFixture(<<>>)
    <3>1. TextOk(text') /\ text'.fails = FALSE
      BY <1>1, <2>3, WordsOk DEF Gemini!OpenFixture, Gemini!Words
    <3> QED
      BY <1>1, <1>7, <2>1, <2>3, <3>1, OpensStep DEF Gemini!OpenFixture, Streams
  <2> QED
    BY <1>11, <2>2, <2>3 DEF Gemini!serveFixture
<1>12. CASE Gemini!streamResponse \/ Gemini!streamGenerateContent
  <2>1. pc \in Streams /\ todo = <<>> /\ pc # "done"
    BY <1>12 DEF Gemini!streamResponse, Gemini!streamGenerateContent, Gemini!At, Streams
  <2>2. CASE /\ Gemini!BackendHasMore /\ Gemini!StreamWrite(Gemini!Frame("chunk", TRUE, 0), Gemini!Media)
             /\ pc = "fixture_stream" => SentNow + 1 # Len(text.chunks)
    <3>1. Gemini!Frame("chunk", TRUE, 0) \in StreamFrame /\ Gemini!Frame("chunk", TRUE, 0).piece
          /\ Gemini!Frame("chunk", TRUE, 0).kind = "chunk"
      BY DEF Gemini!Frame, StreamFrame, StreamKinds
    <3> QED
      BY <1>1, <1>7, <2>1, <2>2, <3>1, SendsStep DEF Gemini!BackendHasMore, Gemini!StreamWrite, Gemini!Written, WrittenTo,
         EndKinds
  <2>3. CASE /\ Gemini!BackendHasMore /\ SentNow + 1 = Len(text.chunks) /\ pc = "fixture_stream"
             /\ Gemini!StreamWrite(Gemini!Frame("STOP", TRUE, Gemini!CountNonEmpty(text)), Gemini!Media)
    <3> DEFINE f == Gemini!Frame("STOP", TRUE, Gemini!CountNonEmpty(text))
    <3>1. f \in StreamFrame /\ f.piece /\ f.kind = "STOP"
      BY <1>9 DEF Gemini!Frame, StreamFrame, StreamKinds
    <3>2. ~text.fails
      BY <2>3 DEF Served
    <3>3. reply' = WrittenTo(f, Gemini!Media) /\ UNCHANGED <<todo, text, pc, alive>>
      BY <2>3 DEF Gemini!StreamWrite, Gemini!Written, WrittenTo
    <3>4. SentNow < Len(text.chunks)
      BY <1>1, <2>3 DEF Gemini!BackendHasMore
    <3> HIDE DEF f
    <3> QED
      BY <1>1, <1>7, <2>1, <2>3, <3>1, <3>2, <3>3, <3>4, SendsStep DEF EndKinds
  <2>4. ASSUME NEW fs, Goes(fs), ~alive \/ Ended(reply.frames), Gemini!Finish(fs) PROVE ReplyStep
    BY <1>1, <2>1, <2>4, FinishesStep DEF Gemini!Finish, Goes
  <2>5. CASE pc = "stream" /\ (text.fails \/ ~alive) /\ Gemini!Finish(<<Gemini!Plain("error")>> \o Gemini!close)
    <3> DEFINE e == <<Gemini!Plain("error")>>
    <3>1. Gemini!Plain("error") \in StreamFrame /\ ~Gemini!Plain("error").piece /\ Gemini!Plain("error").kind = "error"
      BY DEF Gemini!Plain, Gemini!Frame, StreamFrame, StreamKinds
    <3>2. e \in Seq(StreamFrame) /\ Pieces(e) = {} /\ Own(e) /\ Failed(e) /\ ~Ended(e)
      BY <3>1, Single DEF EndKinds
    <3> HIDE DEF e
    <3>3. LET fs == e \o Gemini!close IN fs \in Seq(StreamFrame) /\ Pieces(fs) = {} /\ Own(fs) /\ Failed(fs) /\ ~Ended(fs)
      BY <1>7, <3>2, Joined DEF Goes
    <3>4. todo' = e \o Gemini!close /\ pc' = "done" /\ UNCHANGED <<reply, text, alive>>
      BY <2>5 DEF e, Gemini!Finish
    <3> QED
      BY <1>1, <2>1, <2>5, <3>3, <3>4, FinishesStep
  <2>6. CASE reply.status = 0 /\ Gemini!Body(502, FALSE, -1) /\ UNCHANGED <<text, todo, alive>>
    BY <1>1, <2>1, <2>6, WholeReply DEF Gemini!Body, Gemini!Frame
  <2>7. ASSUME NEW n \in Int, Gemini!BackendEnds, Gemini!Finish(<<Gemini!Frame("STOP", FALSE, n)>> \o Gemini!close)
        PROVE  ReplyStep
    <3> DEFINE s == <<Gemini!Frame("STOP", FALSE, n)>> \o Gemini!close
    <3>1. Closes(s)
      BY <1>8
    <3>2. todo' = s /\ pc' = "done" /\ UNCHANGED <<reply, text, alive>> /\ SentNow = Len(text.chunks) /\ ~text.fails
      BY <1>1, <2>7 DEF Gemini!Finish, Gemini!BackendEnds
    <3> HIDE DEF s
    <3> QED
      BY <1>1, <2>1, <3>1, <3>2, FinishesStep DEF Closes
  <2>8. CASE Gemini!streamResponse
    <3>1. pc = "fixture_stream"
      BY <2>8 DEF Gemini!streamResponse, Gemini!At
    <3>2. CASE Gemini!BackendHasMore /\ Gemini!Sent + 1 < Len(text.chunks)
               /\ Gemini!StreamWrite(Gemini!Frame("chunk", TRUE, 0), Gemini!Media)
      <4>1. SentNow + 1 # Len(text.chunks)
        BY <1>1, <3>2
      <4> QED
        BY <2>2, <3>2, <4>1
    <3>3. CASE Gemini!DelayMayFail /\ Gemini!Finish(Gemini!close)
      BY <1>7, <2>4, <3>3 DEF Gemini!DelayMayFail
    <3>4. CASE Gemini!BackendEnds /\ text.chunks = <<>> /\ Gemini!Finish(<<Gemini!Frame("STOP", FALSE, 0)>> \o Gemini!close)
      <4>1. 0 \in Int
        OBVIOUS
      <4> QED
        BY <2>7, <3>4, <4>1, Zenon
    <3>5. CASE Gemini!BackendEnds /\ text.chunks # <<>> /\ Gemini!Finish(<<>> \o Gemini!close)
      <4>1. <<>> \o Gemini!close = Gemini!close
        BY <1>7 DEF Goes
      <4>2. SentNow > 0 /\ SentNow = Len(text.chunks)
        BY <1>1, <3>5 DEF Gemini!BackendEnds, TextOk
      <4>3. Ended(reply.frames)
        BY <1>1, <3>1, <4>2 DEF Served
      <4> QED
        BY <1>7, <2>4, <3>5, <4>1, <4>3
    <3>6. CASE /\ Gemini!BackendHasMore /\ Gemini!Sent + 1 = Len(text.chunks)
               /\ Gemini!StreamWrite(Gemini!Frame("STOP", TRUE, Gemini!CountNonEmpty(text)), Gemini!Media)
      BY <1>1, <2>3, <3>1, <3>6
    <3> QED
      BY <2>8, <3>2, <3>3, <3>4, <3>5, <3>6 DEF Gemini!streamResponse
  <2>9. CASE Gemini!streamGenerateContent
    <3>1. pc = "stream"
      BY <2>9 DEF Gemini!streamGenerateContent, Gemini!At
    <3>2. CASE Gemini!BackendMayFail /\ Gemini!fail
      <4>1. text.fails \/ ~alive
        BY <3>2 DEF Gemini!BackendMayFail
      <4> QED
        BY <2>5, <2>6, <3>1, <3>2, <4>1, ZenonT(60) DEF Gemini!fail
    <3>3. CASE Gemini!BackendEnds /\ Gemini!Finish(<<Gemini!Frame("STOP", FALSE, Gemini!Sent)>> \o Gemini!close)
      BY <1>9, <2>1, <2>7, <3>3
    <3> QED
      BY <2>2, <2>9, <3>1, <3>2, <3>3 DEF Gemini!streamGenerateContent
  <2> QED
    BY <1>12, <2>8, <2>9
<1>13. CASE Gemini!serveGeminiFunctionCallResponse
  <2>1. pc = "route" /\ pc \in Early /\ todo = <<>> /\ text' = Gemini!Words(1) /\ UNCHANGED alive
    BY <1>13 DEF Gemini!serveGeminiFunctionCallResponse, Gemini!At, Early
  <2>2. TextOk(text') /\ Len(text'.chunks) = 1 /\ text'.fails = FALSE
    BY <2>1, WordsOk DEF Gemini!Words
  <2>3. CASE Gemini!Body(200, FALSE, 1) /\ UNCHANGED todo
    BY <1>1, <2>1, <2>2, <2>3, WholeReply DEF Gemini!Body, Gemini!Frame
  <2>4. CASE Gemini!streamFunctionCallContent
    <3> DEFINE f == Gemini!Frame("STOP", TRUE, 1)  b == <<f>>
    <3>1. f \in StreamFrame /\ f.piece /\ f.kind = "STOP"
      BY DEF Gemini!Frame, StreamFrame, StreamKinds
    <3>2. todo' = b \o Gemini!close /\ pc' = "done" /\ UNCHANGED reply
      BY <2>4 DEF Gemini!streamFunctionCallContent
    <3> HIDE DEF f
    <3>3. b \in Seq(StreamFrame) /\ Own(b) /\ Ended(b) /\ Len(b) = 1
      BY <1>1, <3>1, Single DEF EndKinds
    <3>4. \E g \in StreamFrame : b = <<g>> /\ g.piece /\ g.kind # "error" /\ Own(b)
      BY <3>1, <3>3
    <3> HIDE DEF b
    <3>5. (<<>> \o b) \o Gemini!close = b \o Gemini!close
      BY <3>3
    <3> QED
      BY <1>1, <1>7, <2>1, <2>2, <3>2, <3>3, <3>4, <3>5, CallsStep DEF Goes, TextOk
  <2> QED
    BY <1>13, <2>3, <2>4 DEF Gemini!serveGeminiFunctionCallResponse
<1>14. CASE Gemini!generate
  <2>1. pc = "route" /\ todo = <<>>
    BY <1>14 DEF Gemini!generate, Gemini!At
  <2>2. CASE Gemini!OpenBackend(<<>>)
    BY <1>1, <1>7, <1>10, <2>1, <2>2, OpensStep DEF Gemini!OpenBackend, Early, Streams
  <2>3. CASE Gemini!Tokens(502)
    <3>1. PICK t \in Gemini!Generation : /\ text' = t
                                          /\ \/ Gemini!Body(502, FALSE, -1)
                                             \/ \E n : Gemini!Body(200, FALSE, n)
      BY <2>3 DEF Gemini!Tokens
    <3>2. TextOk(text') /\ UNCHANGED <<todo, alive>>
      BY <1>10, <2>3, <3>1 DEF Gemini!Tokens
    <3> QED
      BY <1>1, <2>1, <3>1, <3>2, WholeReply DEF Gemini!Body, Gemini!Frame, Early
  <2> QED
    BY <1>14, <2>2, <2>3 DEF Gemini!generate
<1>15. CASE Gemini!WriteNext(Gemini!Media)
  <2>1. Writes
    BY <1>7, <1>15 DEF Gemini!WriteNext, Gemini!Written, Writes, WrittenTo
  <2> QED
    BY <2>1 DEF ReplyStep
<1>16. CASE Gemini!ClientLeaves \/ Gemini!Done
  BY <1>16 DEF Gemini!ClientLeaves, Gemini!Done, Gemini!vars, ReplyStep, Leaves
<1> QED
  BY <1>2, <1>3, <1>4, <1>5, <1>6, <1>11, <1>12, <1>13, <1>14, <1>15, <1>16, <1>18
     DEF Gemini!Next, Gemini!Handle, Gemini!renderFixtureBody, Gemini!handleGenerate

(* The responses of a post are whole.                                     *)
LEMMA PostSteps ==
  ASSUME route = "post", ReplyInv, Served, Given, Post!Next, UNCHANGED route PROVE ReplyStep
<1>1. /\ TextOk(text) /\ (pc # "done" => reply.status = 0)
      /\ profile.errorType \in ErrorTypes \cup {"none"} /\ fixture.status # 0 /\ fixture.match \in Matches
  <2>1. route \notin Streaming
    BY DEF Streaming
  <2>2. pc # "done" => reply.status = 0
    BY <2>1, Stages DEF ReplyInv, ReplyShape, Nothing, InOne
  <2> QED
    BY <2>2, Standing DEF Given
<1>2. CASE Post!Force(Post!Statuses)
  BY <1>1, <1>2, WholeReply DEF Post!Force, Post!Forced, Post!At, Post!Body, Post!Frame, Early,
     Post!Statuses, ErrorTypes
<1>3. CASE Post!Refuse(Post!Checks)
  <2>1. Post!FirstFault(Post!Checks) \in DOMAIN Post!Checks
    <3>1. DOMAIN Post!Checks = 1..6 /\ 6 \in 0..6
      BY DEF Post!Checks
    <3> QED
      BY <1>3, <3>1, FirstIs DEF Post!Refuse, Post!Faulty, Post!FirstFault
  <2>2. \A i \in DOMAIN Post!Checks : Post!Checks[i].status # 0
    BY DEF Post!Checks
  <2> QED
    BY <1>1, <1>3, <2>1, <2>2, WholeReply DEF Post!Refuse, Post!At, Post!Body, Post!Frame, Early
<1>4. CASE Post!Admit(Post!Checks)
  BY <1>4 DEF Post!Admit, Post!At, ReplyStep, Proceeds, Early
<1>5. CASE Post!Match(500)
  <2>1. pc = "select" /\ todo = <<>> /\ UNCHANGED <<text, todo, alive>>
    BY <1>5 DEF Post!Match, Post!At
  <2>2. CASE fixture.match \in {"none", "found"}
    <3>1. pc' \in {"route", "render"} /\ UNCHANGED reply
      BY <1>5, <2>2, ZenonT(60) DEF Post!Match
    <3> QED
      BY <1>1, <2>1, <3>1 DEF ReplyStep, Proceeds, Early
  <2>3. CASE fixture.match \in {"exhausted", "failed"}
    <3>1. Post!Body(500, TRUE, -1) \/ Post!Body(502, TRUE, -1)
      BY <1>5, <2>3 DEF Post!Match
    <3> QED
      BY <1>1, <2>1, <3>1, WholeReply DEF Post!Body, Post!Frame, Early
  <2> QED
    BY <1>1, <2>2, <2>3 DEF Matches
<1>6. CASE Post!RenderBody
  BY <1>1, <1>6, WholeReply DEF Post!RenderBody, Post!At, Post!Body, Post!Frame, ReplyStep, Proceeds, Early
<1>7. CASE Post!serveResponsesFixture
  <2>1. pc = "serve" /\ pc \in Early /\ todo = <<>> /\ UNCHANGED <<text, todo, alive>>
    BY <1>7 DEF Post!serveResponsesFixture, Post!At, Early
  <2>2. ASSUME NEW response, Post!Serve(response) PROVE ReplyStep
    BY <1>1, <2>1, <2>2, WholeReply DEF Post!Serve, Post!Frame
  <2>3. CASE Post!Body(502, TRUE, -1)
    BY <1>1, <2>1, <2>3, WholeReply DEF Post!Body, Post!Frame
  <2> QED
    BY <1>7, <2>2, <2>3, Zenon DEF Post!serveResponsesFixture
<1>8. ASSUME NEW t \in Post!Generation PROVE TextOk(t)
  BY <1>8, WordsOk, TextsOk, MaxChunksAssumption DEF Post!Generation, Post!Texts, Post!Words
<1>9. CASE Post!generate
  <2>1. pc = "route" /\ pc \in Early /\ todo = <<>>
    BY <1>9 DEF Post!generate, Post!At, Early
  <2>2. CASE Post!Body(400, FALSE, -1) /\ UNCHANGED <<text, todo, alive>>
    BY <1>1, <2>1, <2>2, WholeReply DEF Post!Body, Post!Frame
  <2>3. CASE Post!Tokens(502)
    <3>1. PICK t \in Post!Generation : /\ text' = t
                                       /\ \/ Post!Body(502, FALSE, -1)
                                          \/ \E n : Post!Body(200, FALSE, n)
      BY <2>3 DEF Post!Tokens
    <3>2. TextOk(text') /\ UNCHANGED <<todo, alive>>
      BY <1>8, <2>3, <3>1 DEF Post!Tokens
    <3> QED
      BY <1>1, <2>1, <3>1, <3>2, WholeReply DEF Post!Body, Post!Frame
  <2> QED
    BY <1>9, <2>2, <2>3, ZenonT(60) DEF Post!generate
<1>10. CASE Post!ClientLeaves \/ Post!Done
  BY <1>10 DEF Post!ClientLeaves, Post!Done, Post!vars, ReplyStep, Leaves
<1> QED
  BY <1>2, <1>3, <1>4, <1>5, <1>6, <1>7, <1>9, <1>10
     DEF Post!Next, Post!Handle, Post!renderFixtureBody, Post!handleResponsesPost

(* And so are judgments, however many questions are asked for them.       *)
LEMMA JudgeSteps ==
  ASSUME route = "systemone", ReplyInv, Served, Given, Judge!Next, UNCHANGED route PROVE ReplyStep
<1>1. /\ TextOk(text) /\ (pc # "done" => reply.status = 0)
      /\ profile.errorType \in ErrorTypes \cup {"none"} /\ fixture.status # 0 /\ fixture.match \in Matches
  <2>1. route \notin Streaming
    BY DEF Streaming
  <2>2. pc # "done" => reply.status = 0
    BY <2>1, Stages DEF ReplyInv, ReplyShape, Nothing, InOne
  <2> QED
    BY <2>2, Standing DEF Given
<1>2. CASE Judge!Force(Judge!writeForcedProfileError)
  BY <1>1, <1>2, WholeReply DEF Judge!Force, Judge!Forced, Judge!At, Judge!Body, Judge!Frame, Early,
     Judge!writeForcedProfileError, ErrorTypes
<1>3. CASE Judge!Refuse(Judge!Checks)
  <2>1. Judge!FirstFault(Judge!Checks) \in DOMAIN Judge!Checks
    <3>1. DOMAIN Judge!Checks = 1..5 /\ 5 \in 0..6
      BY DEF Judge!Checks
    <3> QED
      BY <1>3, <3>1, FirstIs DEF Judge!Refuse, Judge!Faulty, Judge!FirstFault
  <2>2. \A i \in DOMAIN Judge!Checks : Judge!Checks[i].status # 0
    BY DEF Judge!Checks
  <2> QED
    BY <1>1, <1>3, <2>1, <2>2, WholeReply DEF Judge!Refuse, Judge!At, Judge!Body, Judge!Frame, Early
<1>4. CASE Judge!Admit(Judge!Checks)
  BY <1>4 DEF Judge!Admit, Judge!At, ReplyStep, Proceeds, Early
<1>5. CASE Judge!Match(500)
  <2>1. pc = "select" /\ todo = <<>> /\ UNCHANGED <<text, todo, alive>>
    BY <1>5 DEF Judge!Match, Judge!At
  <2>2. CASE fixture.match \in {"none", "found"}
    <3>1. pc' \in {"route", "render"} /\ UNCHANGED reply
      BY <1>5, <2>2, ZenonT(60) DEF Judge!Match
    <3> QED
      BY <1>1, <2>1, <3>1 DEF ReplyStep, Proceeds, Early
  <2>3. CASE fixture.match \in {"exhausted", "failed"}
    <3>1. Judge!Body(500, TRUE, -1) \/ Judge!Body(502, TRUE, -1)
      BY <1>5, <2>3 DEF Judge!Match
    <3> QED
      BY <1>1, <2>1, <3>1, WholeReply DEF Judge!Body, Judge!Frame, Early
  <2> QED
    BY <1>1, <2>2, <2>3 DEF Matches
<1>6. ASSUME NEW s, NEW why, s # 0, Judge!Reply(s, why), pc # "done", todo = <<>>, UNCHANGED <<text, todo, alive>>
      PROVE  ReplyStep
  BY <1>1, <1>6, WholeReply DEF Judge!Reply, Judge!Body, Judge!Frame
<1>7. CASE Judge!renderFixtureBodyBytes
  <2>1. pc = "render" /\ todo = <<>> /\ UNCHANGED <<text, todo, alive>>
    BY <1>7 DEF Judge!renderFixtureBodyBytes, Judge!At
  <2>2. CASE Judge!Reply(500, "backend")
    BY <1>6, <2>1, <2>2
  <2>3. CASE pc' = "serve" /\ UNCHANGED reply
    BY <2>1, <2>3 DEF ReplyStep, Proceeds, Early
  <2> QED
    BY <1>7, <2>2, <2>3 DEF Judge!renderFixtureBodyBytes
<1>8. CASE Judge!serveFixture
  <2>1. pc = "serve" /\ todo = <<>> /\ UNCHANGED <<text, todo, alive>>
    BY <1>8 DEF Judge!serveFixture, Judge!At
  <2>2. \E s \in {500, fixture.status} : \E why : Judge!Reply(s, why)
    BY <1>8 DEF Judge!serveFixture
  <2>3. PICK s \in {500, fixture.status} : \E why : Judge!Reply(s, why)
    BY <2>2
  <2> QED
    BY <1>1, <1>6, <2>1, <2>3
<1>9. CASE Judge!answersForBackend
  <2>1. pc = "route" /\ todo = <<>> /\ UNCHANGED <<text, todo, alive>>
    BY <1>9 DEF Judge!answersForBackend, Judge!At
  <2>2. CASE Judge!Reply(500, "backend")
    BY <1>6, <2>1, <2>2
  <2>3. CASE pc' = "stream" /\ UNCHANGED reply
    <3>1. Opens(<<>>)
      BY <1>1, <2>1, <2>3 DEF Opens, Early, Streams, TextOk
    <3> QED
      BY <3>1 DEF ReplyStep
  <2> QED
    BY <1>9, <2>2, <2>3 DEF Judge!answersForBackend
<1>10. ASSUME NEW k \in left, Judge!answerOffline(k) \/ Judge!answerUpstream(k) PROVE ReplyStep
  <2>1. pc = "stream" /\ todo = <<>> /\ UNCHANGED <<text, todo, alive>>
    BY <1>10 DEF Judge!answerOffline, Judge!answerUpstream, Judge!At
  <2>2. CASE Judge!Reply(500, "backend") \/ Judge!Reply(502, "upstream")
    BY <1>6, <2>1, <2>2
  <2>3. CASE \E a : Judge!Answered(k, a)
    BY <2>1, <2>3 DEF Judge!Answered, ReplyStep
  <2>4. CASE Judge!answerOffline(k)
    BY <2>2, <2>3, <2>4, Zenon DEF Judge!answerOffline
  <2>5. CASE Judge!answerUpstream(k)
    BY <2>2, <2>3, <2>5, Zenon DEF Judge!answerUpstream
  <2> QED
    BY <1>10, <2>4, <2>5
<1>11. CASE Judge!respond
  <2>1. pc = "stream" /\ todo = <<>> /\ UNCHANGED <<text, todo, alive>>
    BY <1>11 DEF Judge!respond, Judge!At
  <2> QED
    BY <1>6, <1>11, <2>1 DEF Judge!respond
<1>12. CASE Judge!ClientLeaves \/ Judge!Done
  BY <1>12 DEF Judge!ClientLeaves, Judge!Done, Judge!allvars, Judge!vars, ReplyStep, Leaves
<1> QED
  BY <1>2, <1>3, <1>4, <1>5, <1>7, <1>8, <1>9, <1>10, <1>11, <1>12
     DEF Judge!Next, Judge!Handle, Judge!selectFixture, Judge!handleSystemOne, Judge!FirstTokenLogprobs

(* Every step is one of these.                                             *)
LEMMA NextIsReplyStep == ASSUME ReplyInv, Served, Given, [AnyNext]_avars PROVE ReplyStep
<1>1. CASE UNCHANGED avars \/ (route = "socket" /\ AnyNext)
  <2>1. UNCHANGED <<route, reply, todo, text, pc, alive>>
    BY <1>1 DEF AnyNext, avars, xvars
  <2> QED
    BY <2>1 DEF ReplyStep
<1>2. CASE AnyNext /\ route # "socket"
  <2>1. UNCHANGED route
    BY <1>2 DEF AnyNext
  <2> QED
    BY <1>2, <2>1, OpenAISteps, AnthropicSteps, GeminiSteps, OllamaSteps, PostSteps, JudgeSteps DEF AnyNext
<1> QED
  BY <1>1, <1>2

(* Every reply satisfies ReplyInv and Served.                              *)
LEMMA ReplyInvariance == AnySpec => [](CostInv /\ ReplyInv /\ Served /\ Given)
<1> DEFINE Inv == CostInv /\ ReplyInv /\ Served /\ Given
<1>1. AnyInit => Inv
  <2>1. ASSUME AnyInit PROVE pc # "fixture_stream"
    BY <2>1 DEF AnyInit, OpenAI!ExchangeInit, Anthropic!ExchangeInit, Gemini!ExchangeInit, Ollama!ExchangeInit,
                Post!ExchangeInit, Judge!Init, Judge!ExchangeInit, NoExchange, Routes
  <2> QED
    BY <2>1, InitCostInv, InitReplyInv, InitGiven DEF Served
<1>2. Inv /\ [AnyNext]_avars => Inv'
  <2> SUFFICES ASSUME Inv, [AnyNext]_avars PROVE Inv'
    OBVIOUS
  <2>1. CostStep /\ CostInv'
    BY NextCosts, CostStepKeeps
  <2>2. ReplyStep
    BY NextIsReplyStep
  <2>3. ReplyInv' /\ Served'
    BY <2>2, ReplyStepKeeps, ServedKeeps
  <2>4. Given'
    BY <2>1 DEF CostStep, Given
  <2> QED
    BY <2>1, <2>3, <2>4
<1> QED
  BY <1>1, <1>2, PTL DEF AnySpec, avars

(* Every provider keeps the one contract of replies, whatever its protocol: *)
(* a status and then a whole reply, or the text piece by piece and the mark *)
(* of the end exactly when all of it was sent, a failure told in the        *)
(* stream, and silence only for a client that has gone (sse.go, ndjson.go   *)
(* and handler.go of the providers).                                        *)
THEOREM RepliesKeepContract == AnySpec => KeepsContract
<1>1. AnyInit => Contract!ReplyInit
  <2> SUFFICES ASSUME AnyInit PROVE Contract!ReplyInit
    OBVIOUS
  <2> DEFINE none == [status |-> 0, media |-> "none", zolem |-> FALSE, frames |-> <<>>]
  <2>4. reply = none /\ alive = TRUE
    BY Zenon DEF AnyInit, OpenAI!ExchangeInit, Anthropic!ExchangeInit, Gemini!ExchangeInit, Ollama!ExchangeInit,
           Post!ExchangeInit, Judge!Init, Judge!ExchangeInit, NoExchange, Routes
  <2>1. reply.status = 0 /\ reply.frames = <<>> /\ alive = TRUE
    BY <2>4
  <2>2. Phase = "waiting"
    BY <2>1 DEF Phase, OpenAI!Phase, Anthropic!Phase, Gemini!Phase, Ollama!Phase
  <2>3. Scheme!Sent = 0
    <3>1. SentNow = Cardinality(Pieces(<<>>))
      BY <2>1 DEF SentNow
    <3> QED
      BY <3>1, SchemeCounts, NoFrames
  <2> QED
    BY <2>1, <2>2, <2>3 DEF Contract!ReplyInit
<1>2. ReplyInv /\ Served /\ Given /\ [AnyNext]_avars => [Contract!ReplyNext]_(Contract!rvars)
  BY NextIsReplyStep, ReplyStepIsContract
<1> QED
  BY <1>1, <1>2, ReplyInvariance, PTL DEF AnySpec, avars, KeepsContract, Contract!ReplySpec

-----------------------------------------------------------------------------
(* What is sent and what is due, in one sequence: writing does not change  *)
(* it.                                                                     *)
Flow == reply.frames \o todo
Streamed == reply.media # "json"

(* A stream's frames are those of its flow.                                *)
LEMMA FlowIs ==
  ASSUME ReplyInv, Streamed
  PROVE  /\ reply.frames \in Seq(StreamFrame) /\ todo \in Seq(StreamFrame) /\ Flow \in Seq(StreamFrame)
         /\ \A i \in DOMAIN reply.frames : i \in DOMAIN Flow /\ Flow[i] = reply.frames[i]
         /\ todo = <<>> => Flow = reply.frames
         /\ pc \in Early => reply.frames = <<>> /\ todo = <<>> /\ Flow = <<>>
<1>1. reply.frames = <<>> \/ reply.frames \in Seq(StreamFrame)
  BY DEF ReplyInv, ReplyShape, Streamed, Nothing, InOne, InParts
<1>2. todo \in Seq(StreamFrame) /\ (pc \in Early => reply.frames = <<>> /\ todo = <<>>)
  BY Stages DEF ReplyInv, ReplyShape, Nothing
<1>3. reply.frames \in Seq(StreamFrame)
  <2>1. <<>> \in Seq(StreamFrame)
    OBVIOUS
  <2> QED
    BY <1>1, <2>1, Zenon
<1>4. Flow \in Seq(StreamFrame) /\ \A i \in DOMAIN reply.frames : i \in DOMAIN Flow /\ Flow[i] = reply.frames[i]
  BY <1>2, <1>3 DEF Flow
<1>5. todo = <<>> => Flow = reply.frames
  BY <1>2, <1>3 DEF Flow
<1> QED
  BY <1>2, <1>3, <1>4, <1>5

(* Writing a frame moves it from what is due to what is sent.              *)
LEMMA FlowWrites == ASSUME ReplyInv, Writes PROVE Streamed /\ Flow' = Flow
<1>1. Streamed
  BY DEF Writes, Streamed, ReplyInv, ReplyShape, Nothing, InOne, InParts, StreamMedia
<1>2. /\ reply.frames \in Seq(StreamFrame) /\ todo \in Seq(StreamFrame) /\ todo # <<>> /\ todo' = Tail(todo)
      /\ reply'.frames = Append(reply.frames, Head(todo))
  BY <1>1, FlowIs DEF Writes, WrittenTo
<1>3. ASSUME NEW s \in Seq(StreamFrame), NEW t \in Seq(StreamFrame), t # <<>> PROVE Append(s, Head(t)) \o Tail(t) = s \o t
  <2> DEFINE u == Append(s, Head(t)) \o Tail(t)  v == s \o t
  <2>1. u \in Seq(StreamFrame) /\ v \in Seq(StreamFrame) /\ Len(u) = Len(v)
    BY <1>3
  <2>2. ASSUME NEW i \in 1..Len(v) PROVE u[i] = v[i]
    BY <1>3, <2>2
  <2> HIDE DEF u, v
  <2>3. u = v
    BY <2>1, <2>2
  <2> QED
    BY <2>3 DEF u, v
<1> QED
  BY <1>1, <1>2, <1>3 DEF Flow

(* A chunk that is sent at once is the next of the flow.                   *)
LEMMA FlowSends ==
  ASSUME ReplyInv, Streamed, todo = <<>>, UNCHANGED todo, NEW f \in StreamFrame, reply'.frames = Append(reply.frames, f)
  PROVE  Flow' = Flow \o <<f>>
<1>1. reply.frames \in Seq(StreamFrame) /\ Flow = reply.frames
  BY FlowIs
<1>2. Append(reply.frames, f) \o <<>> = reply.frames \o <<f>>
  BY <1>1
<1> QED
  BY <1>1, <1>2 DEF Flow

(* What becomes due ends the flow.                                         *)
LEMMA FlowEnds ==
  ASSUME ReplyInv, Streamed, todo = <<>>, NEW fs, todo' = fs, UNCHANGED reply
  PROVE  Flow' = Flow \o fs
BY FlowIs DEF Flow

-----------------------------------------------------------------------------
(* The count of OpenAI's usage.                                            *)
NoUsage(s) == \A i \in DOMAIN s : s[i].usage < 0
UsageLast(s) ==
  \A i \in DOMAIN s : s[i].usage >= 0 => s[i].usage = Cardinality(Pieces(s)) /\ \A j \in Pieces(s) : j < i
UsageHolds ==
  /\ UsageLast(Flow)
  /\ pc \in Streams => NoUsage(Flow)
  /\ pc = "fixture_stream" => \A i \in DOMAIN text.chunks : text.chunks[i] = 1
UsageInv == route = "openai" /\ Streamed => UsageHolds

(* A count follows all that it counts.                                     *)
LEMMA UsageJoined ==
  ASSUME NEW s \in Seq(StreamFrame), NEW t \in Seq(StreamFrame), NoUsage(s)
  PROVE  /\ NoUsage(t) => NoUsage(s \o t)
         /\ UsageLast(s)
         /\ Pieces(t) = {} /\ (\A i \in DOMAIN t : t[i].usage >= 0 => t[i].usage = Cardinality(Pieces(s))) => UsageLast(s \o t)
<1> DEFINE u == s \o t  m == Len(s)
<1>1. /\ m \in Nat /\ u \in Seq(StreamFrame) /\ DOMAIN s = 1..m /\ DOMAIN t = 1..Len(t) /\ Len(t) \in Nat
      /\ DOMAIN u = 1..(m + Len(t))
      /\ \A i \in 1..m : u[i] = s[i]
      /\ \A i \in 1..Len(t) : u[m + i] = t[i]
  OBVIOUS
<1> HIDE DEF u, m
<1>2. \A i \in DOMAIN u : (i \in DOMAIN s /\ u[i] = s[i]) \/ (i > m /\ i - m \in DOMAIN t /\ u[i] = t[i - m])
  <2> SUFFICES ASSUME NEW i \in DOMAIN u, i \notin DOMAIN s PROVE i > m /\ i - m \in DOMAIN t /\ u[i] = t[i - m]
    BY <1>1
  <2>1. i \in Int /\ i > m /\ i - m \in 1..Len(t) /\ m + (i - m) = i
    BY <1>1
  <2> QED
    BY <1>1, <2>1
<1>6. \A i \in DOMAIN s : s[i].usage \in Int
  <2>1. \A i \in DOMAIN s : s[i] \in StreamFrame
    OBVIOUS
  <2>2. \A f \in StreamFrame : f.usage \in Int
    BY DEF StreamFrame
  <2> QED
    BY <2>1, <2>2
<1>3. NoUsage(t) => NoUsage(u)
  BY <1>2 DEF NoUsage
<1>4. UsageLast(s)
  <2>1. \A i \in DOMAIN s : s[i].usage \in Int
    BY <1>6
  <2> QED
    BY <2>1 DEF NoUsage, UsageLast
<1>5. ASSUME Pieces(t) = {}, \A i \in DOMAIN t : t[i].usage >= 0 => t[i].usage = Cardinality(Pieces(s)) PROVE UsageLast(u)
  <2>1. Pieces(u) = Pieces(s)
    BY <1>1, <1>2, <1>5 DEF Pieces
  <2>2. \A i \in DOMAIN s : s[i].usage \in Int
    BY <1>6
  <2>3. \A j \in Pieces(s) : j \in 1..m
    BY <1>1 DEF Pieces
  <2> QED
    BY <1>1, <1>2, <1>5, <2>1, <2>2, <2>3 DEF UsageLast, NoUsage
<1> QED
  BY <1>3, <1>4, <1>5 DEF u

(* Sequences of the same frames are the same.                              *)
LEMMA SameFrames ==
  ASSUME NEW u \in Seq(StreamFrame), NEW v \in Seq(StreamFrame), Len(u) = Len(v), \A i \in 1..Len(u) : u[i] = v[i]
  PROVE  u = v
OBVIOUS

(* Short sequences, put together.                                          *)
LEMMA Joins ==
  ASSUME NEW x \in StreamFrame, NEW y \in StreamFrame, NEW z \in StreamFrame
  PROVE  /\ <<x>> \o <<y>> = <<x, y>>
         /\ (<<x>> \o <<>>) \o <<z>> = <<x, z>> /\ (<<x>> \o <<y>>) \o <<z>> = <<x, y, z>>
<1>1. ASSUME NEW a \in StreamFrame, NEW b \in StreamFrame PROVE <<a>> \o <<b>> = <<a, b>>
  <2> DEFINE u == <<a>> \o <<b>>  v == <<a, b>>
  <2>1. u \in Seq(StreamFrame) /\ Len(u) = 2 /\ u[1] = a /\ u[2] = b
    OBVIOUS
  <2>2. v \in Seq(StreamFrame) /\ Len(v) = 2 /\ v[1] = a /\ v[2] = b
    OBVIOUS
  <2> HIDE DEF u, v
  <2>3. u = v
    BY <2>1, <2>2, SameFrames
  <2> QED
    BY <2>3 DEF u, v
<1>2. <<x>> \o <<>> = <<x>>
  <2> DEFINE u == <<x>> \o <<>>  v == <<x>>
  <2>1. u \in Seq(StreamFrame) /\ Len(u) = 1 /\ u[1] = x
    OBVIOUS
  <2>2. v \in Seq(StreamFrame) /\ Len(v) = 1 /\ v[1] = x
    OBVIOUS
  <2> HIDE DEF u, v
  <2>3. u = v
    BY <2>1, <2>2, SameFrames
  <2> QED
    BY <2>3 DEF u, v
<1>3. <<x, y>> \o <<z>> = <<x, y, z>>
  <2> DEFINE u == <<x, y>> \o <<z>>  v == <<x, y, z>>
  <2>1. u \in Seq(StreamFrame) /\ Len(u) = 3 /\ u[1] = x /\ u[2] = y /\ u[3] = z
    OBVIOUS
  <2>2. v \in Seq(StreamFrame) /\ Len(v) = 3 /\ v[1] = x /\ v[2] = y /\ v[3] = z
    OBVIOUS
  <2> HIDE DEF u, v
  <2>3. u = v
    BY <2>1, <2>2, SameFrames
  <2> QED
    BY <2>3 DEF u, v
<1> QED
  BY <1>1, <1>2, <1>3

(* What OpenAI's stream begins and ends with.                              *)
LEMMA OpenAIFrame ==
  ASSUME NEW k \in {"role", "delta", "tool_calls", "error"}, NEW p \in BOOLEAN
  PROVE  LET f == OpenAI!Frame(k, p, -1) IN
           f \in StreamFrame /\ f.piece = p /\ <<f>> \in Seq(StreamFrame) /\ NoUsage(<<f>>) /\ f.usage = -1
<1> DEFINE f == OpenAI!Frame(k, p, -1)
<1>1. f \in StreamFrame /\ f.piece = p /\ f.usage = -1
  BY DEF OpenAI!Frame, StreamFrame, StreamKinds
<1> HIDE DEF f
<1>2. <<f>> \in Seq(StreamFrame) /\ NoUsage(<<f>>)
  BY <1>1 DEF NoUsage
<1> QED
  BY <1>1, <1>2 DEF f

(* The frames that open and close a stream, or that are all of a call's.   *)
LEMMA OpenAIFrames ==
  /\ NoUsage(<<>>)
  /\ OpenAI!Opening \in Seq(StreamFrame) /\ NoUsage(OpenAI!Opening) /\ Pieces(OpenAI!Opening) = {}
  /\ \A n \in Int : LET c == OpenAI!Closing(n) IN
       c \in Seq(StreamFrame) /\ Pieces(c) = {} /\ \A i \in DOMAIN c : c[i].usage >= 0 => c[i].usage = n
<1>1. \A k \in StreamKinds, p \in BOOLEAN, n \in Int :
        /\ OpenAI!Frame(k, p, n) \in StreamFrame /\ OpenAI!Frame(k, p, n).usage = n /\ OpenAI!Frame(k, p, n).piece = p
        /\ n < 0 => NoUsage(<<OpenAI!Frame(k, p, n)>>)
  BY DEF OpenAI!Frame, StreamFrame, NoUsage
<1>2. {"role", "delta", "tool_calls", "error", "stop", "usage", "[DONE]"} \subseteq StreamKinds
  BY DEF StreamKinds
<1>3. NoUsage(<<>>)
  BY DEF NoUsage
<1>4. -1 \in Int /\ -1 < 0
  OBVIOUS
<1>5. \A k \in {"role", "delta", "tool_calls", "error", "stop", "[DONE]"}, p \in BOOLEAN :
        /\ OpenAI!Frame(k, p, -1) \in StreamFrame /\ NoUsage(<<OpenAI!Frame(k, p, -1)>>) /\ OpenAI!Frame(k, p, -1).piece = p
        /\ OpenAI!Frame(k, p, -1).usage = -1
  BY <1>1, <1>2, <1>4
<1>6. OpenAI!Opening \in Seq(StreamFrame) /\ NoUsage(OpenAI!Opening) /\ Pieces(OpenAI!Opening) = {}
  <2> DEFINE f == OpenAI!Frame("role", FALSE, -1)
  <2>1. f \in StreamFrame /\ NoUsage(<<f>>) /\ f.piece = FALSE
    BY <1>5
  <2>2. OpenAI!Opening = <<f>>
    BY DEF OpenAI!Opening, OpenAI!Plain
  <2> HIDE DEF f
  <2> QED
    BY <2>1, <2>2, Single
<1>7. ASSUME NEW n \in Int
      PROVE  LET c == OpenAI!Closing(n) IN
               c \in Seq(StreamFrame) /\ Pieces(c) = {} /\ \A i \in DOMAIN c : c[i].usage >= 0 => c[i].usage = n
  <2> DEFINE stop == OpenAI!Frame("stop", FALSE, -1)  usage == OpenAI!Frame("usage", FALSE, n)
             done == OpenAI!Frame("[DONE]", FALSE, -1)
  <2>1. /\ stop \in StreamFrame /\ usage \in StreamFrame /\ done \in StreamFrame
        /\ stop.piece = FALSE /\ usage.piece = FALSE /\ done.piece = FALSE
        /\ stop.usage = -1 /\ usage.usage = n /\ done.usage = -1
    BY <1>1, <1>2, <1>5
  <2>2. OpenAI!Closing(n) = (<<stop>> \o <<>>) \o <<done>> \/ OpenAI!Closing(n) = (<<stop>> \o <<usage>>) \o <<done>>
    BY DEF OpenAI!Closing, OpenAI!UsageChunk, OpenAI!Plain
  <2> HIDE DEF stop, usage, done
  <2>3. (<<stop>> \o <<>>) \o <<done>> = <<stop, done>> /\ (<<stop>> \o <<usage>>) \o <<done>> = <<stop, usage, done>>
    BY <2>1, Joins
  <2>4. CASE OpenAI!Closing(n) = <<stop, done>>
    BY <2>1, <2>4 DEF Pieces
  <2>5. CASE OpenAI!Closing(n) = <<stop, usage, done>>
    BY <2>1, <2>5 DEF Pieces
  <2> QED
    BY <2>2, <2>3, <2>4, <2>5
<1> QED
  BY <1>3, <1>5, <1>6, <1>7

(* OpenAI's route keeps the count.                                         *)
LEMMA OpenAIUsage == ASSUME route = "openai", ReplyInv, Given, UsageInv, OpenAI!Next, UNCHANGED route PROVE UsageInv'
<1> SUFFICES ASSUME Streamed' PROVE UsageHolds'
  BY DEF UsageInv
<1>1. /\ ~Streamed' <=> reply'.media = "json"
      /\ \A code, own, n : ~OpenAI!Body(code, own, n)
  <2>1. ~Streamed' <=> reply'.media = "json"
    BY DEF Streamed
  <2>2. ASSUME NEW code, NEW own, NEW n, OpenAI!Body(code, own, n) PROVE reply'.media = "json"
    BY <2>2 DEF OpenAI!Body
  <2> QED
    BY <2>1, <2>2
<1>2. pc \in Early => Streamed /\ Flow = <<>>
  BY Stages, FlowIs DEF Streamed, Nothing
<1>3. ASSUME Flow' = Flow, UNCHANGED text, Streamed, pc' = pc \/ (pc \in Early /\ pc' \in Early) PROVE UsageHolds'
  <2>1. UsageHolds
    BY <1>3 DEF UsageInv
  <2>2. pc' \in Streams \cup {"fixture_stream"} => pc' = pc
    BY <1>3 DEF Early, Streams
  <2> QED
    BY <1>3, <2>1, <2>2 DEF UsageHolds, UsageLast, NoUsage, Streams
<1>4. ASSUME UNCHANGED <<reply, todo, text>>, pc' = pc \/ (pc \in Early /\ pc' \in Early) PROVE UsageHolds'
  BY <1>1, <1>3, <1>4 DEF Flow, Streamed
<1>5. CASE OpenAI!handleChatCompletions
  BY <1>1, <1>4, <1>5 DEF OpenAI!handleChatCompletions, OpenAI!Force, OpenAI!Refuse, OpenAI!Admit, OpenAI!At, Early
<1>6. CASE OpenAI!renderFixtureBody
  <2>1. CASE OpenAI!Match(500)
    <3>1. fixture.match \in Matches /\ pc = "select" /\ UNCHANGED <<todo, text>>
      BY <2>1 DEF OpenAI!Match, OpenAI!At, Given
    <3>2. (pc' \in {"route", "render"} /\ UNCHANGED reply) \/ OpenAI!Body(500, TRUE, -1) \/ OpenAI!Body(502, TRUE, -1)
      BY <2>1, <3>1, ZenonT(30) DEF OpenAI!Match, Matches
    <3>3. pc' \in {"route", "render"} /\ UNCHANGED reply
      BY <1>1, <3>2, ZenonT(30)
    <3> QED
      BY <1>4, <3>1, <3>3 DEF Early
  <2>2. CASE OpenAI!RenderBody
    <3>1. pc = "render" /\ UNCHANGED <<todo, text>> /\ (OpenAI!Body(502, TRUE, -1) \/ (pc' = "serve" /\ UNCHANGED reply))
      BY <2>2 DEF OpenAI!RenderBody, OpenAI!At
    <3>2. pc' = "serve" /\ UNCHANGED reply
      BY <1>1, <3>1, ZenonT(30)
    <3> QED
      BY <1>4, <3>1, <3>2 DEF Early
  <2> QED
    BY <1>6, <2>1, <2>2 DEF OpenAI!renderFixtureBody
<1>7. ASSUME pc \in Early, pc' \in Streams, todo' = OpenAI!Opening, UNCHANGED reply,
             pc' = "fixture_stream" => \A i \in DOMAIN text'.chunks : text'.chunks[i] = 1
      PROVE  UsageHolds'
  <2>1. Flow' = OpenAI!Opening
    <3>1. reply.frames = <<>> /\ <<>> \o OpenAI!Opening = OpenAI!Opening
      BY <1>2, <1>7, FlowIs, OpenAIFrames
    <3> QED
      BY <1>7, <3>1 DEF Flow
  <2>2. NoUsage(Flow') /\ UsageLast(Flow')
    BY <2>1, OpenAIFrames, UsageJoined
  <2> QED
    BY <1>7, <2>2 DEF UsageHolds
<1>8. CASE OpenAI!serveFixture
  <2>1. CASE OpenAI!Verbatim
    BY <1>1, <2>1 DEF OpenAI!Verbatim
  <2>2. CASE OpenAI!OpenFixture(OpenAI!Opening)
    <3>1. text'.chunks = [i \in 1..fixture.words |-> 1]
      BY <2>2 DEF OpenAI!OpenFixture, OpenAI!Words
    <3> QED
      BY <1>7, <1>8, <2>2, <3>1 DEF OpenAI!serveFixture, OpenAI!OpenFixture, OpenAI!At, Early, Streams
  <2> QED
    BY <1>8, <2>1, <2>2 DEF OpenAI!serveFixture
<1>9. CASE OpenAI!streamResponse \/ OpenAI!streamChatCompletions
  <2>1. pc \in Streams /\ todo = <<>>
    BY <1>9 DEF OpenAI!streamResponse, OpenAI!streamChatCompletions, OpenAI!At, Streams
  <2>2. Streamed /\ Flow \in Seq(StreamFrame) /\ Flow = reply.frames /\ UsageHolds /\ NoUsage(Flow)
    <3>1. Streamed
      BY <2>1 DEF ReplyInv, ReplyShape, Streamed, Nothing, InOne, InParts, StreamMedia, Streams
    <3> QED
      BY <2>1, <3>1, FlowIs DEF UsageInv, UsageHolds
  <2>3. Cardinality(Pieces(Flow)) = SentNow /\ SentNow = OpenAI!Sent /\ SentNow \in Nat
    <3>1. SentNow = OpenAI!Sent
      BY DEF OpenAI!Sent, OpenAI!Cardinality, Cardinality, SentNow, Pieces
    <3> QED
      BY <2>1, <2>2, <3>1, Standing DEF SentNow, Streaming
  <2>4. CASE OpenAI!StreamWrite(OpenAI!Frame("delta", TRUE, -1), "sse")
    <3> DEFINE f == OpenAI!Frame("delta", TRUE, -1)
    <3>1. f \in StreamFrame /\ NoUsage(<<f>>) /\ <<f>> \in Seq(StreamFrame)
      BY OpenAIFrame
    <3>2. reply'.frames = Append(reply.frames, f) /\ UNCHANGED <<todo, text, pc>>
      BY <2>4 DEF OpenAI!StreamWrite, OpenAI!Written
    <3> HIDE DEF f
    <3>3. Flow' = Flow \o <<f>>
      BY <2>1, <2>2, <3>1, <3>2, FlowSends
    <3>4. NoUsage(Flow') /\ UsageLast(Flow')
      <4>1. Flow \o <<f>> \in Seq(StreamFrame)
        BY <2>2, <3>1
      <4>2. NoUsage(Flow \o <<f>>)
        BY <2>2, <3>1, UsageJoined
      <4> QED
        BY <3>3, <4>1, <4>2, UsageJoined
    <3> QED
      BY <2>2, <3>2, <3>4 DEF UsageHolds
  <2>5. ASSUME NEW fs \in Seq(StreamFrame), Pieces(fs) = {}, todo' = fs, pc' = "done", UNCHANGED <<reply, text>>,
               \A i \in DOMAIN fs : fs[i].usage >= 0 => fs[i].usage = SentNow
        PROVE  UsageHolds'
    <3>2. Flow' = Flow \o fs
      BY <2>1, <2>2, <2>5, FlowEnds
    <3>3. UsageLast(Flow')
      BY <2>2, <2>3, <2>5, <3>2, UsageJoined
    <3> QED
      BY <2>5, <3>3 DEF UsageHolds, Streams
  <2>6. CASE OpenAI!Finish(<<>>)
    <3>1. <<>> \in Seq(StreamFrame) /\ Pieces(<<>>) = {} /\ DOMAIN <<>> = {}
      BY NoFrames
    <3> QED
      BY <2>5, <2>6, <3>1 DEF OpenAI!Finish
  <2>7. CASE OpenAI!Finish(<<OpenAI!Plain("error")>>)
    <3> DEFINE f == OpenAI!Frame("error", FALSE, -1)
    <3>1. f \in StreamFrame /\ NoUsage(<<f>>) /\ f.piece = FALSE /\ OpenAI!Plain("error") = f
      BY OpenAIFrame DEF OpenAI!Plain
    <3> HIDE DEF f
    <3>2. <<f>> \in Seq(StreamFrame) /\ Pieces(<<f>>) = {} /\ \A i \in DOMAIN <<f>> : ~(<<f>>[i].usage >= 0)
      BY <3>1, Single DEF NoUsage, StreamFrame
    <3> QED
      BY <2>5, <2>7, <3>1, <3>2 DEF OpenAI!Finish
  <2>8. CASE OpenAI!Finish(OpenAI!Closing(OpenAI!Sent))
    BY <2>3, <2>5, <2>8, OpenAIFrames DEF OpenAI!Finish
  <2>9. CASE pc = "fixture_stream" /\ OpenAI!BackendEnds /\ OpenAI!Finish(OpenAI!Closing(OpenAI!CountNonEmpty(text)))
    <3>1. OpenAI!CountNonEmpty(text) = Cardinality({i \in DOMAIN text.chunks : text.chunks[i] = 1})
      BY DEF OpenAI!CountNonEmpty, OpenAI!Cardinality, Cardinality
    <3>2. {i \in DOMAIN text.chunks : text.chunks[i] = 1} = 1..Len(text.chunks) /\ Len(text.chunks) \in Nat
      BY <2>2, <2>9, Standing DEF UsageHolds, TextOk
    <3>3. Cardinality(1..Len(text.chunks)) = Len(text.chunks)
      BY <3>2, FS_Interval
    <3>4. OpenAI!CountNonEmpty(text) = SentNow
      BY <2>3, <2>9, <3>1, <3>2, <3>3 DEF OpenAI!BackendEnds
    <3> QED
      BY <2>3, <2>5, <2>9, <3>4, OpenAIFrames DEF OpenAI!Finish
  <2> QED
    BY <1>9, <2>4, <2>6, <2>7, <2>8, <2>9 DEF OpenAI!streamResponse, OpenAI!streamChatCompletions, OpenAI!At
<1>10. CASE OpenAI!serveToolCallResponse
  <2>1. CASE OpenAI!Body(200, FALSE, 1)
    BY <1>1, <2>1
  <2>2. CASE OpenAI!streamToolCallCompletions
    <3> DEFINE f == OpenAI!Frame("tool_calls", TRUE, -1)  s == OpenAI!Opening \o <<f>>  c == OpenAI!Closing(1)
    <3>1. f \in StreamFrame /\ NoUsage(<<f>>) /\ f.piece = TRUE /\ <<f>> \in Seq(StreamFrame)
      BY OpenAIFrame
    <3>2. todo' = s \o c /\ pc' = "done" /\ UNCHANGED reply /\ pc \in Early
      BY <1>10, <2>2 DEF OpenAI!streamToolCallCompletions, OpenAI!serveToolCallResponse, OpenAI!At, Early
    <3> DEFINE r == OpenAI!Frame("role", FALSE, -1)
    <3>3. OpenAI!Opening = <<r>> /\ r \in StreamFrame /\ r.piece = FALSE
      BY OpenAIFrame DEF OpenAI!Opening, OpenAI!Plain
    <3> HIDE DEF f, r
    <3>4. s \in Seq(StreamFrame) /\ NoUsage(s) /\ <<f>> \in Seq(StreamFrame)
      <4>1. s \in Seq(StreamFrame)
        BY <3>1, OpenAIFrames
      <4>2. NoUsage(s)
        BY <3>1, OpenAIFrames, UsageJoined
      <4> QED
        BY <3>1, <4>1, <4>2
    <3>5. Pieces(s) = {2}
      <4>1. s = <<r, f>>
        BY <3>1, <3>3, Joins
      <4> QED
        BY <3>1, <3>3, <4>1 DEF Pieces
    <3>6. Cardinality(Pieces(s)) = 1
      BY <3>5, FS_Singleton
    <3>7. c \in Seq(StreamFrame) /\ Pieces(c) = {} /\ \A i \in DOMAIN c : c[i].usage >= 0 => c[i].usage = 1
      BY OpenAIFrames
    <3> HIDE DEF s, c
    <3>8. UsageLast(s \o c)
      BY <3>4, <3>6, <3>7, UsageJoined
    <3>9. Flow' = s \o c
      <4>1. reply.frames = <<>> /\ <<>> \o (s \o c) = s \o c
        BY <1>2, <3>2, <3>4, <3>7, FlowIs
      <4> QED
        BY <3>2, <4>1 DEF Flow
    <3> QED
      BY <3>2, <3>8, <3>9 DEF UsageHolds, Streams
  <2> QED
    BY <1>10, <2>1, <2>2 DEF OpenAI!serveToolCallResponse
<1>11. CASE OpenAI!generate
  <2>1. CASE OpenAI!Tokens(502)
    <3>1. OpenAI!Body(502, FALSE, -1) \/ \E n : OpenAI!Body(200, FALSE, n)
      BY <2>1, Zenon DEF OpenAI!Tokens
    <3> QED
      BY <1>1, <3>1, ZenonT(30)
  <2>2. CASE OpenAI!OpenBackend(OpenAI!Opening)
    BY <1>7, <1>11, <2>2 DEF OpenAI!generate, OpenAI!OpenBackend, OpenAI!At, Early, Streams
  <2> QED
    BY <1>11, <2>1, <2>2 DEF OpenAI!generate
<1>12. CASE OpenAI!WriteNext("sse")
  <2>1. Writes
    BY <1>12 DEF OpenAI!WriteNext, OpenAI!Written, Writes, WrittenTo, StreamMedia
  <2> QED
    BY <1>3, <2>1, FlowWrites DEF Writes
<1>13. CASE OpenAI!ClientLeaves \/ OpenAI!Done
  BY <1>4, <1>13 DEF OpenAI!ClientLeaves, OpenAI!Done, OpenAI!vars
<1> QED
  BY <1>5, <1>6, <1>8, <1>9, <1>10, <1>11, <1>12, <1>13 DEF OpenAI!Next, OpenAI!Handle

(* The count is that of what was sent.                                     *)
LEMMA UsageIsCount == ASSUME route = "openai", ReplyInv, UsageInv PROVE OpenAI!UsageCountsDeltas
<1> SUFFICES ASSUME NEW i \in DOMAIN reply.frames, reply.media = "sse", reply.frames[i].usage >= 0
             PROVE  reply.frames[i].usage = OpenAI!Sent
  BY DEF OpenAI!UsageCountsDeltas
<1>1. Streamed /\ UsageHolds
  BY DEF Streamed, UsageInv
<1>2. i \in DOMAIN Flow /\ Flow[i] = reply.frames[i]
  BY <1>1, FlowIs
<1>3. Flow[i].usage = Cardinality(Pieces(Flow)) /\ \A j \in Pieces(Flow) : j < i
  BY <1>1, <1>2 DEF UsageHolds, UsageLast
<1>4. Pieces(Flow) = Pieces(reply.frames)
  <2>1. reply.frames \in Seq(StreamFrame) /\ Flow \in Seq(StreamFrame) /\ \A j \in DOMAIN reply.frames : j \in DOMAIN Flow /\ Flow[j] = reply.frames[j]
    BY <1>1, FlowIs
  <2>2. \A j \in Pieces(Flow) : j \in DOMAIN reply.frames
    BY <1>3, <2>1 DEF Pieces
  <2> QED
    BY <2>1, <2>2 DEF Pieces
<1> QED
  BY <1>2, <1>3, <1>4 DEF OpenAI!Sent, OpenAI!Cardinality, Cardinality, Pieces

(* Anthropic's message: a preamble, deltas of its block's kind, and then   *)
(* nothing yet, an error, or its closing.                                  *)
DeltaOf(block) == IF block = "start_text" THEN "text_delta" ELSE "input_json_delta"
IsMessage(s, m) ==
  /\ m \in Nat /\ m >= 3 /\ s \in Seq(StreamFrame) /\ m <= Len(s)
  /\ s[1].kind = "message_start" /\ s[2].kind \in {"start_text", "start_tool_use"} /\ s[3].kind = "ping"
  /\ \A i \in 4..m : s[i].kind = DeltaOf(s[2].kind)
  /\ \/ Len(s) = m
     \/ Len(s) = m + 1 /\ s[m + 1].kind = "error"
     \/ /\ Len(s) = m + 3 /\ s[m + 1].kind = "content_block_stop"
        /\ s[m + 2].kind = "message_delta" /\ ~s[m + 2].piece
        /\ s[m + 3].kind = "message_stop" /\ ~s[m + 3].piece
NestHolds ==
  /\ Flow # <<>> => \E m : IsMessage(Flow, m)
  /\ pc \in Streams => IsMessage(Flow, Len(Flow)) /\ Flow[2].kind = "start_text"
NestInv == route = "anthropic" /\ Streamed => NestHolds

Prior(s, i, kind) == \E j \in 1..(i - 1) : s[j].kind = kind

(* In such a message everything is where the protocol wants it.            *)
LEMMA MessageNests ==
  ASSUME NEW s, NEW m, IsMessage(s, m), NEW i \in DOMAIN s
  PROVE  /\ s[i].kind = "message_start" <=> i = 1
         /\ s[i].kind = "text_delta" => Prior(s, i, "start_text")
         /\ s[i].kind = "input_json_delta" => Prior(s, i, "start_tool_use")
         /\ s[i].piece => ~Prior(s, i, "content_block_stop")
         /\ s[i].kind \in {"message_delta", "message_stop"} => Prior(s, i, "content_block_stop")
         /\ s[i].kind = "message_stop" => Prior(s, i, "message_delta")
         /\ ~Prior(s, i, "error")
<1>1. m \in Nat /\ m >= 3 /\ Len(s) \in Nat /\ i \in Nat /\ i >= 1 /\ i <= Len(s)
  BY DEF IsMessage
<1>2. ASSUME NEW j \in 1..m
      PROVE  /\ s[j].kind \notin {"content_block_stop", "message_delta", "message_stop", "error"}
             /\ s[j].kind = "message_start" <=> j = 1
             /\ s[j].kind = "text_delta" => j >= 4 /\ s[2].kind = "start_text"
             /\ s[j].kind = "input_json_delta" => j >= 4 /\ s[2].kind = "start_tool_use"
  <2>1. j = 1 \/ j = 2 \/ j = 3 \/ j \in 4..m
    BY <1>1
  <2>2. CASE j \in 1..3
    BY <2>2 DEF IsMessage
  <2>3. CASE j \in 4..m
    <3>1. s[j].kind = DeltaOf(s[2].kind) /\ s[2].kind \in {"start_text", "start_tool_use"} /\ j >= 4 /\ j # 1
      BY <2>3 DEF IsMessage
    <3> QED
      BY <3>1 DEF DeltaOf
  <2> QED
    BY <1>1, <2>1, <2>2, <2>3
<1>3. CASE i <= m
  <2>1. i \in 1..m /\ \A j \in 1..(i - 1) : j \in 1..m
    BY <1>1, <1>3
  <2>2. i >= 4 => 2 \in 1..(i - 1)
    BY <1>1
  <2> QED
    BY <1>2, <2>1, <2>2 DEF Prior
<1>4. CASE i = m + 1
  <2>1. \A j \in 1..(i - 1) : j \in 1..m
    BY <1>1, <1>4
  <2>2. s[i].kind \in {"error", "content_block_stop"}
    BY <1>1, <1>4 DEF IsMessage
  <2> QED
    BY <1>1, <1>2, <1>4, <2>1, <2>2 DEF Prior
<1>5. CASE i > m + 1
  <2>1. /\ Len(s) = m + 3 /\ s[m + 1].kind = "content_block_stop"
        /\ s[m + 2].kind = "message_delta" /\ ~s[m + 2].piece
        /\ s[m + 3].kind = "message_stop" /\ ~s[m + 3].piece
    BY <1>1, <1>5 DEF IsMessage
  <2>2. i = m + 2 \/ i = m + 3
    BY <1>1, <1>5, <2>1
  <2>3. m + 1 \in 1..(i - 1) /\ (i = m + 3 => m + 2 \in 1..(i - 1))
    BY <1>1, <2>2
  <2>4. \A j \in 1..(i - 1) : j \in 1..m \/ j = m + 1 \/ (j = m + 2 /\ i = m + 3)
    BY <1>1, <2>2
  <2> QED
    BY <1>1, <1>2, <2>1, <2>2, <2>3, <2>4 DEF Prior
<1> QED
  BY <1>1, <1>3, <1>4, <1>5

(* A message grows by a delta of its block's kind.                         *)
LEMMA MessageGrows ==
  ASSUME NEW s, IsMessage(s, Len(s)), NEW f \in StreamFrame, f.kind = DeltaOf(s[2].kind)
  PROVE  LET t == s \o <<f>> IN IsMessage(t, Len(t)) /\ t[2].kind = s[2].kind /\ Len(t) = Len(s) + 1
<1> DEFINE t == s \o <<f>>  n == Len(s)
<1>1. s \in Seq(StreamFrame) /\ n \in Nat /\ n >= 3
  BY DEF IsMessage
<1>2. /\ t \in Seq(StreamFrame) /\ Len(t) = n + 1 /\ t[n + 1] = f
      /\ \A i \in 1..n : t[i] = s[i]
  BY <1>1
<1>3. \A i \in 4..n : s[i].kind = DeltaOf(s[2].kind)
  BY DEF IsMessage
<1>4. s[1].kind = "message_start" /\ s[2].kind \in {"start_text", "start_tool_use"} /\ s[3].kind = "ping"
  BY DEF IsMessage
<1> HIDE DEF t, n
<1>5. 1 \in 1..n /\ 2 \in 1..n /\ 3 \in 1..n /\ \A i \in 4..(n + 1) : i = n + 1 \/ (i \in 4..n /\ i \in 1..n)
  BY <1>1
<1>6. IsMessage(t, n + 1) /\ t[2].kind = s[2].kind
  BY <1>1, <1>2, <1>3, <1>4, <1>5 DEF IsMessage
<1> QED
  BY <1>2, <1>6 DEF t, n

(* It ends with an error or with its closing, or is left as it is.         *)
LEMMA MessageEnds ==
  ASSUME NEW s, IsMessage(s, Len(s)), NEW fs \in Seq(StreamFrame),
         \/ fs = <<>>
         \/ Len(fs) = 1 /\ fs[1].kind = "error"
         \/ /\ Len(fs) = 3 /\ fs[1].kind = "content_block_stop"
            /\ fs[2].kind = "message_delta" /\ ~fs[2].piece
            /\ fs[3].kind = "message_stop" /\ ~fs[3].piece
  PROVE  IsMessage(s \o fs, Len(s)) /\ s \o fs # <<>>
<1> DEFINE t == s \o fs  n == Len(s)
<1>1. s \in Seq(StreamFrame) /\ n \in Nat /\ n >= 3
  BY DEF IsMessage
<1>2. /\ t \in Seq(StreamFrame) /\ Len(t) = n + Len(fs) /\ \A i \in 1..Len(fs) : t[n + i] = fs[i]
      /\ \A i \in 1..n : t[i] = s[i]
  BY <1>1
<1>3. \A i \in 4..n : s[i].kind = DeltaOf(s[2].kind)
  BY DEF IsMessage
<1>4. s[1].kind = "message_start" /\ s[2].kind \in {"start_text", "start_tool_use"} /\ s[3].kind = "ping"
  BY DEF IsMessage
<1> HIDE DEF t, n
<1>5. 1 \in 1..n /\ 2 \in 1..n /\ 3 \in 1..n /\ \A i \in 4..n : i \in 1..n
  BY <1>1
<1>6. \/ Len(t) = n
      \/ Len(t) = n + 1 /\ t[n + 1].kind = "error"
      \/ /\ Len(t) = n + 3 /\ t[n + 1].kind = "content_block_stop"
         /\ t[n + 2].kind = "message_delta" /\ ~t[n + 2].piece
         /\ t[n + 3].kind = "message_stop" /\ ~t[n + 3].piece
  <2>1. CASE fs = <<>>
    BY <1>1, <1>2, <2>1
  <2>2. CASE Len(fs) = 1 /\ fs[1].kind = "error"
    <3>1. 1 \in 1..Len(fs)
      BY <2>2
    <3>2. t[n + 1] = fs[1] /\ Len(t) = n + 1
      BY <1>2, <2>2, <3>1
    <3> QED
      BY <2>2, <3>2
  <2>3. CASE Len(fs) = 3 /\ fs # <<>>
    <3>1. 1 \in 1..Len(fs) /\ 2 \in 1..Len(fs) /\ 3 \in 1..Len(fs)
      BY <2>3
    <3>2. t[n + 1] = fs[1] /\ t[n + 2] = fs[2] /\ t[n + 3] = fs[3] /\ Len(t) = n + 3
      BY <1>2, <2>3, <3>1
    <3>3. fs[1].kind = "content_block_stop" /\ fs[2].kind = "message_delta" /\ ~fs[2].piece
          /\ fs[3].kind = "message_stop" /\ ~fs[3].piece
      BY <2>3
    <3> QED
      BY <3>2, <3>3
  <2> QED
    BY <2>1, <2>2, <2>3
<1>7. n <= Len(t) /\ t # <<>>
  BY <1>1, <1>2
<1>8. \A i \in 4..n : t[i].kind = DeltaOf(t[2].kind)
  BY <1>2, <1>3, <1>5
<1>9. IsMessage(t, n)
  BY <1>1, <1>2, <1>4, <1>5, <1>6, <1>7, <1>8 DEF IsMessage
<1> QED
  BY <1>7, <1>9 DEF t, n

(* The three that open a message, and the three that close it.             *)
LEMMA AnthropicFrames ==
  /\ \A b \in {"start_text", "start_tool_use"} :
       LET o == Anthropic!Opening(b) IN IsMessage(o, Len(o)) /\ Len(o) = 3 /\ o[2].kind = b
  /\ \A n \in Int : LET c == Anthropic!Closing(n) IN
       /\ c \in Seq(StreamFrame) /\ Len(c) = 3 /\ c[1].kind = "content_block_stop"
       /\ c[2].kind = "message_delta" /\ ~c[2].piece /\ c[3].kind = "message_stop" /\ ~c[3].piece
  /\ LET e == Anthropic!Plain("error") IN
       e \in StreamFrame /\ e.kind = "error" /\ <<e>> \in Seq(StreamFrame)
  /\ \A k \in {"text_delta", "input_json_delta"} : LET f == Anthropic!Frame(k, TRUE, -1) IN f \in StreamFrame /\ f.kind = k
<1>3. ASSUME NEW b \in {"start_text", "start_tool_use"}
      PROVE  LET o == Anthropic!Opening(b) IN IsMessage(o, Len(o)) /\ Len(o) = 3 /\ o[2].kind = b
  <2> DEFINE x == Anthropic!Frame("message_start", FALSE, -1)  y == Anthropic!Frame(b, FALSE, -1)
             z == Anthropic!Frame("ping", FALSE, -1)  o == <<x, y, z>>
  <2>1. /\ x \in StreamFrame /\ x.kind = "message_start" /\ y \in StreamFrame /\ y.kind = b
        /\ z \in StreamFrame /\ z.kind = "ping"
    <3>1. x \in StreamFrame /\ x.kind = "message_start"
      BY DEF Anthropic!Frame, StreamFrame, StreamKinds
    <3>2. y \in StreamFrame /\ y.kind = b
      BY DEF Anthropic!Frame, StreamFrame, StreamKinds
    <3>3. z \in StreamFrame /\ z.kind = "ping"
      BY DEF Anthropic!Frame, StreamFrame, StreamKinds
    <3> QED
      BY <3>1, <3>2, <3>3
  <2>2. Anthropic!Opening(b) = o
    BY DEF Anthropic!Opening, Anthropic!Plain
  <2> HIDE DEF x, y, z
  <2>3. o \in Seq(StreamFrame) /\ Len(o) = 3 /\ o[1] = x /\ o[2] = y /\ o[3] = z /\ 4..3 = {}
    BY <2>1
  <2> HIDE DEF o
  <2>4. IsMessage(o, 3)
    BY <2>1, <2>3 DEF IsMessage
  <2> QED
    BY <2>1, <2>2, <2>3, <2>4
<1>4. ASSUME NEW n \in Int
      PROVE  LET c == Anthropic!Closing(n) IN
               /\ c \in Seq(StreamFrame) /\ Len(c) = 3 /\ c[1].kind = "content_block_stop"
               /\ c[2].kind = "message_delta" /\ ~c[2].piece /\ c[3].kind = "message_stop" /\ ~c[3].piece
  <2> DEFINE x == Anthropic!Frame("content_block_stop", FALSE, -1)  y == Anthropic!Frame("message_delta", FALSE, n)
             z == Anthropic!Frame("message_stop", FALSE, -1)
  <2>1. /\ x \in StreamFrame /\ x.kind = "content_block_stop" /\ y \in StreamFrame /\ y.kind = "message_delta"
        /\ z \in StreamFrame /\ z.kind = "message_stop" /\ y.piece = FALSE /\ z.piece = FALSE
    <3>1. x \in StreamFrame /\ x.kind = "content_block_stop"
      BY DEF Anthropic!Frame, StreamFrame, StreamKinds
    <3>2. y \in StreamFrame /\ y.kind = "message_delta" /\ y.piece = FALSE
      BY DEF Anthropic!Frame, StreamFrame, StreamKinds
    <3>3. z \in StreamFrame /\ z.kind = "message_stop" /\ z.piece = FALSE
      BY DEF Anthropic!Frame, StreamFrame, StreamKinds
    <3> QED
      BY <3>1, <3>2, <3>3
  <2>2. Anthropic!Closing(n) = <<x, y, z>>
    BY DEF Anthropic!Closing, Anthropic!Plain
  <2> HIDE DEF x, y, z
  <2> QED
    BY <2>1, <2>2
<1>5. LET e == Anthropic!Plain("error") IN e \in StreamFrame /\ e.kind = "error" /\ <<e>> \in Seq(StreamFrame)
  <2> DEFINE e == Anthropic!Frame("error", FALSE, -1)
  <2>1. e \in StreamFrame /\ e.kind = "error"
    BY DEF Anthropic!Frame, StreamFrame, StreamKinds
  <2> HIDE DEF e
  <2>2. <<e>> \in Seq(StreamFrame)
    BY <2>1
  <2> QED
    BY <2>1, <2>2 DEF e, Anthropic!Plain
<1>6. ASSUME NEW k \in {"text_delta", "input_json_delta"}
      PROVE  LET f == Anthropic!Frame(k, TRUE, -1) IN f \in StreamFrame /\ f.kind = k
  BY DEF Anthropic!Frame, StreamFrame, StreamKinds
<1> QED
  BY <1>3, <1>4, <1>5, <1>6

(* Anthropic's route keeps the nesting.                                    *)
LEMMA AnthropicNest == ASSUME route = "anthropic", ReplyInv, Given, NestInv, Anthropic!Next, UNCHANGED route PROVE NestInv'
<1> SUFFICES ASSUME Streamed' PROVE NestHolds'
  BY DEF NestInv
<1>1. /\ ~Streamed' <=> reply'.media = "json"
      /\ \A code, own, n : ~Anthropic!Body(code, own, n)
  <2>1. ~Streamed' <=> reply'.media = "json"
    BY DEF Streamed
  <2>2. ASSUME NEW code, NEW own, NEW n, Anthropic!Body(code, own, n) PROVE reply'.media = "json"
    BY <2>2 DEF Anthropic!Body
  <2> QED
    BY <2>1, <2>2
<1>2. pc \in Early => Streamed /\ Flow = <<>> /\ reply.frames = <<>>
  BY Stages, FlowIs DEF Streamed, Nothing
<1>3. ASSUME Flow' = Flow, Streamed, pc' = pc \/ (pc \in Early /\ pc' \in Early) PROVE NestHolds'
  <2>1. NestHolds
    BY <1>3 DEF NestInv
  <2>2. pc' \in Streams => pc \in Streams
    BY <1>3 DEF Early, Streams
  <2>3. (\E m : IsMessage(Flow, m)) => \E m : IsMessage(Flow', m)
    BY <1>3
  <2>4. IsMessage(Flow, Len(Flow)) /\ Flow[2].kind = "start_text" => IsMessage(Flow', Len(Flow')) /\ Flow'[2].kind = "start_text"
    BY <1>3
  <2>5. Streams' = Streams
    BY DEF Streams
  <2> QED
    BY <1>3, <2>1, <2>2, <2>3, <2>4, <2>5 DEF NestHolds
<1>4. ASSUME UNCHANGED <<reply, todo>>, pc' = pc \/ (pc \in Early /\ pc' \in Early) PROVE NestHolds'
  BY <1>1, <1>3, <1>4 DEF Flow, Streamed
<1>5. CASE Anthropic!handleMessages
  BY <1>1, <1>4, <1>5 DEF Anthropic!handleMessages, Anthropic!Force, Anthropic!Refuse, Anthropic!Admit, Anthropic!At, Early
<1>6. CASE Anthropic!renderFixtureBody
  <2>1. CASE Anthropic!Match(500)
    <3>1. fixture.match \in {"none", "found", "exhausted", "failed"} /\ pc \in Early /\ UNCHANGED todo
      BY <2>1 DEF Anthropic!Match, Anthropic!At, Early, Given, Matches
    <3>2. (pc' \in {"route", "render"} /\ UNCHANGED reply) \/ Anthropic!Body(500, TRUE, -1) \/ Anthropic!Body(502, TRUE, -1)
      BY <2>1, <3>1, ZenonT(30) DEF Anthropic!Match
    <3>3. pc' \in {"route", "render"} /\ UNCHANGED reply
      BY <1>1, <3>2, ZenonT(30)
    <3> QED
      BY <1>4, <3>1, <3>3 DEF Early
  <2>2. CASE Anthropic!RenderBody
    <3>1. pc = "render" /\ UNCHANGED todo /\ (Anthropic!Body(502, TRUE, -1) \/ (pc' = "serve" /\ UNCHANGED reply))
      BY <2>2 DEF Anthropic!RenderBody, Anthropic!At
    <3>2. pc' = "serve" /\ UNCHANGED reply
      BY <1>1, <3>1, ZenonT(30)
    <3> QED
      BY <1>4, <3>1, <3>2 DEF Early
  <2> QED
    BY <1>6, <2>1, <2>2 DEF Anthropic!renderFixtureBody
<1>7. ASSUME pc \in Early, NEW fs, todo' = fs, UNCHANGED reply PROVE fs \in Seq(StreamFrame) => Flow' = fs
  BY <1>2, <1>7 DEF Flow
<1>8. ASSUME pc \in Early, todo' = Anthropic!Opening("start_text"), UNCHANGED reply PROVE NestHolds'
  <2> DEFINE o == Anthropic!Opening("start_text")
  <2>1. IsMessage(o, Len(o)) /\ o[2].kind = "start_text"
    BY AnthropicFrames
  <2> HIDE DEF o
  <2>2. o \in Seq(StreamFrame)
    BY <2>1 DEF IsMessage
  <2>3. Flow' = o
    BY <1>7, <1>8, <2>2 DEF o
  <2>4. IsMessage(Flow', Len(Flow')) /\ Flow'[2].kind = "start_text"
    BY <2>1, <2>3
  <2> QED
    BY <2>4 DEF NestHolds
<1> DEFINE Arguments == {<<>>, <<1>>}
<1>9. ASSUME NEW input \in Arguments, NEW n \in Int, Anthropic!streamToolUseResponse(input, n), pc \in Early, UNCHANGED reply
      PROVE  NestHolds'
  <2> DEFINE f == Anthropic!Frame("input_json_delta", TRUE, -1)  b == [i \in DOMAIN input |-> f]
             o == Anthropic!Opening("start_tool_use")  c == Anthropic!Closing(n)
  <2>1. f \in StreamFrame /\ f.kind = "input_json_delta"
    BY AnthropicFrames
  <2>2. todo' = (o \o b) \o c /\ pc' = "done"
    BY <1>9 DEF Anthropic!streamToolUseResponse
  <2>3. IsMessage(o, Len(o)) /\ o[2].kind = "start_tool_use" /\ o \in Seq(StreamFrame)
    BY AnthropicFrames DEF IsMessage
  <2>4. /\ c \in Seq(StreamFrame) /\ Len(c) = 3 /\ c[1].kind = "content_block_stop"
        /\ c[2].kind = "message_delta" /\ ~c[2].piece /\ c[3].kind = "message_stop" /\ ~c[3].piece
    BY AnthropicFrames
  <2> HIDE DEF f, o, c
  <2>5. b = <<>> \/ b = <<f>>
    OBVIOUS
  <2> HIDE DEF b
  <2>6. o \o <<>> = o
    BY <2>3
  <2>7. f.kind = DeltaOf(o[2].kind)
    BY <2>1, <2>3 DEF DeltaOf
  <2>8. IsMessage(o \o b, Len(o \o b)) /\ o \o b \in Seq(StreamFrame)
    <3>1. CASE b = <<>>
      BY <2>3, <2>6, <3>1
    <3>2. CASE b = <<f>>
      <4>1. IsMessage(o \o <<f>>, Len(o \o <<f>>))
        BY <2>1, <2>3, <2>7, MessageGrows
      <4> QED
        BY <3>2, <4>1 DEF IsMessage
    <3> QED
      BY <2>5, <3>1, <3>2
  <2> DEFINE ob == o \o b
  <2>9. IsMessage(ob \o c, Len(ob)) /\ ob \o c \in Seq(StreamFrame)
    <3> HIDE DEF ob
    <3>1. IsMessage(ob, Len(ob))
      BY <2>8 DEF ob
    <3>2. IsMessage(ob \o c, Len(ob))
      BY <2>4, <3>1, MessageEnds
    <3> QED
      BY <3>2 DEF IsMessage
  <2>10. Flow' = ob \o c
    BY <1>7, <1>9, <2>2, <2>9
  <2>11. \E m : IsMessage(Flow', m)
    BY <2>9, <2>10
  <2> QED
    BY <2>2, <2>11 DEF NestHolds, Streams
<1>10. CASE Anthropic!serveFixture
  <2>1. pc \in Early
    BY <1>10 DEF Anthropic!serveFixture, Anthropic!At, Early
  <2>2. CASE Anthropic!Verbatim
    BY <1>1, <2>2 DEF Anthropic!Verbatim
  <2>3. CASE Anthropic!OpenFixture(Anthropic!Opening("start_text"))
    BY <1>8, <2>1, <2>3 DEF Anthropic!OpenFixture
  <2>4. CASE \E input \in {<<>>, <<1>>} : Anthropic!streamToolUseResponse(input, fixture.words) /\ UNCHANGED reply
    <3>1. fixture.words \in Int
      BY DEF Given, Streaming
    <3> QED
      BY <1>9, <2>1, <2>4, <3>1
  <2> QED
    BY <1>10, <2>2, <2>3, <2>4 DEF Anthropic!serveFixture
<1>11. CASE Anthropic!streamResponse \/ Anthropic!streamMessages
  <2>1. pc \in Streams /\ todo = <<>>
    BY <1>11 DEF Anthropic!streamResponse, Anthropic!streamMessages, Anthropic!At, Streams
  <2>2. Streamed
    BY <2>1 DEF ReplyInv, ReplyShape, Streamed, Nothing, InOne, InParts, StreamMedia, Streams
  <2>3. Flow \in Seq(StreamFrame) /\ Flow = reply.frames /\ IsMessage(Flow, Len(Flow)) /\ Flow[2].kind = "start_text"
    BY <2>1, <2>2, FlowIs DEF NestInv, NestHolds
  <2>4. CASE Anthropic!StreamWrite(Anthropic!Frame("text_delta", TRUE, -1), "sse")
    <3> DEFINE f == Anthropic!Frame("text_delta", TRUE, -1)
    <3>1. f \in StreamFrame /\ f.kind = "text_delta"
      BY AnthropicFrames
    <3>2. reply'.frames = Append(reply.frames, f) /\ UNCHANGED <<todo, text, pc>>
      BY <2>4 DEF Anthropic!StreamWrite, Anthropic!Written
    <3> HIDE DEF f
    <3>3. Flow' = Flow \o <<f>>
      BY <2>1, <2>2, <3>1, <3>2, FlowSends
    <3>4. f.kind = DeltaOf(Flow[2].kind)
      BY <2>3, <3>1 DEF DeltaOf
    <3>5. IsMessage(Flow \o <<f>>, Len(Flow \o <<f>>)) /\ (Flow \o <<f>>)[2].kind = Flow[2].kind
      BY <2>3, <3>1, <3>4, MessageGrows
    <3>6. IsMessage(Flow', Len(Flow')) /\ Flow'[2].kind = "start_text"
      BY <2>3, <3>3, <3>5
    <3> QED
      BY <3>6 DEF NestHolds
  <2>5. ASSUME NEW fs \in Seq(StreamFrame), todo' = fs, pc' = "done", UNCHANGED reply,
               \/ fs = <<>>
               \/ Len(fs) = 1 /\ fs[1].kind = "error"
               \/ /\ Len(fs) = 3 /\ fs[1].kind = "content_block_stop"
                  /\ fs[2].kind = "message_delta" /\ ~fs[2].piece
                  /\ fs[3].kind = "message_stop" /\ ~fs[3].piece
        PROVE  NestHolds'
    <3>1. Flow' = Flow \o fs
      BY <2>1, <2>2, <2>5, FlowEnds
    <3>2. IsMessage(Flow \o fs, Len(Flow))
      BY <2>3, <2>5, MessageEnds
    <3>3. \E m : IsMessage(Flow', m)
      BY <3>1, <3>2
    <3> QED
      BY <2>5, <3>3 DEF NestHolds, Streams
  <2>6. CASE Anthropic!Finish(<<>>)
    <3>1. <<>> \in Seq(StreamFrame)
      OBVIOUS
    <3> QED
      BY <2>5, <2>6, <3>1 DEF Anthropic!Finish
  <2>7. CASE Anthropic!Finish(<<Anthropic!Plain("error")>>)
    <3> DEFINE e == Anthropic!Plain("error")
    <3>1. e.kind = "error" /\ <<e>> \in Seq(StreamFrame)
      BY AnthropicFrames
    <3> HIDE DEF e
    <3>2. Len(<<e>>) = 1 /\ <<e>>[1] = e
      OBVIOUS
    <3>3. todo' = <<e>> /\ pc' = "done" /\ UNCHANGED reply
      BY <2>7 DEF Anthropic!Finish, e
    <3> QED
      BY <2>5, <3>1, <3>2, <3>3
  <2>8. ASSUME NEW n \in Int, todo' = Anthropic!Closing(n), pc' = "done", UNCHANGED reply PROVE NestHolds'
    BY <2>5, <2>8, AnthropicFrames
  <2>9. Anthropic!CountNonEmpty(text) \in Int /\ Anthropic!Sent \in Int
    <3>1. Anthropic!CountNonEmpty(text) = Cardinality({i \in DOMAIN text.chunks : text.chunks[i] = 1})
      BY DEF Anthropic!CountNonEmpty, Anthropic!Cardinality, Cardinality
    <3>2. SentNow = Anthropic!Sent
      BY DEF Anthropic!Sent, Anthropic!Cardinality, Cardinality, SentNow, Pieces
    <3>3. TextOk(text) /\ SentNow \in Nat
      BY <2>1, Standing DEF Streaming
    <3> QED
      BY <3>1, <3>2, <3>3, CountIsNat DEF TextOk
  <2> QED
    BY <1>11, <2>4, <2>6, <2>7, <2>8, <2>9 DEF Anthropic!streamResponse, Anthropic!streamMessages, Anthropic!At, Anthropic!Finish
<1>12. CASE Anthropic!serveAnthropicToolCallResponse
  <2>1. pc \in Early
    BY <1>12 DEF Anthropic!serveAnthropicToolCallResponse, Anthropic!At, Early
  <2>2. CASE Anthropic!Body(200, FALSE, 1)
    BY <1>1, <2>2
  <2>3. CASE \E input \in {<<>>, <<1>>} : Anthropic!streamToolUseResponse(input, 1) /\ UNCHANGED reply
    BY <1>9, <2>1, <2>3
  <2> QED
    BY <1>12, <2>2, <2>3 DEF Anthropic!serveAnthropicToolCallResponse
<1>13. CASE Anthropic!generate
  <2>1. pc \in Early
    BY <1>13 DEF Anthropic!generate, Anthropic!At, Early
  <2>2. CASE Anthropic!Tokens(502)
    <3>1. Anthropic!Body(502, FALSE, -1) \/ \E n : Anthropic!Body(200, FALSE, n)
      BY <2>2, Zenon DEF Anthropic!Tokens
    <3> QED
      BY <1>1, <3>1, ZenonT(30)
  <2>3. CASE Anthropic!OpenBackend(Anthropic!Opening("start_text"))
    BY <1>8, <2>1, <2>3 DEF Anthropic!OpenBackend
  <2> QED
    BY <1>13, <2>2, <2>3 DEF Anthropic!generate
<1>14. CASE Anthropic!WriteNext("sse")
  <2>1. Writes
    BY <1>14 DEF Anthropic!WriteNext, Anthropic!Written, Writes, WrittenTo, StreamMedia
  <2> QED
    BY <1>3, <2>1, FlowWrites DEF Writes
<1>15. CASE Anthropic!ClientLeaves \/ Anthropic!Done
  BY <1>4, <1>15 DEF Anthropic!ClientLeaves, Anthropic!Done, Anthropic!vars
<1> QED
  BY <1>5, <1>6, <1>10, <1>11, <1>12, <1>13, <1>14, <1>15 DEF Anthropic!Next, Anthropic!Handle

(* What is sent of a message nests.                                        *)
LEMMA NestIsNesting == ASSUME route = "anthropic", ReplyInv, NestInv PROVE Anthropic!BlocksNest
<1> SUFFICES ASSUME reply.media = "sse", NEW i \in DOMAIN reply.frames
             PROVE  /\ (Anthropic!Kinds[i] = "message_start") = (i = 1)
                    /\ Anthropic!Kinds[i] = "text_delta" => Anthropic!Before(i, "start_text")
                    /\ Anthropic!Kinds[i] = "input_json_delta" => Anthropic!Before(i, "start_tool_use")
                    /\ reply.frames[i].piece => ~Anthropic!Before(i, "content_block_stop")
                    /\ Anthropic!Kinds[i] \in {"message_delta", "message_stop"} => Anthropic!Before(i, "content_block_stop")
                    /\ Anthropic!Kinds[i] = "message_stop" => Anthropic!Before(i, "message_delta")
                    /\ ~Anthropic!Before(i, "error")
  BY DEF Anthropic!BlocksNest
<1>1. Streamed /\ NestHolds
  BY DEF Streamed, NestInv
<1>2. /\ reply.frames \in Seq(StreamFrame) /\ Flow \in Seq(StreamFrame)
      /\ \A j \in DOMAIN reply.frames : j \in DOMAIN Flow /\ Flow[j] = reply.frames[j]
  BY <1>1, FlowIs
<1>3. PICK m : IsMessage(Flow, m)
  BY <1>1, <1>2 DEF NestHolds
<1>4. Anthropic!Kinds[i] = Flow[i].kind /\ reply.frames[i] = Flow[i] /\ i \in DOMAIN Flow
  BY <1>2 DEF Anthropic!Kinds
<1>5. ASSUME NEW kind PROVE Anthropic!Before(i, kind) <=> Prior(Flow, i, kind)
  <2>1. \A j \in 1..(i - 1) : j \in DOMAIN reply.frames
    BY <1>2
  <2>2. \A j \in 1..(i - 1) : Anthropic!Kinds[j] = Flow[j].kind
    BY <1>2, <2>1 DEF Anthropic!Kinds
  <2> QED
    BY <2>2 DEF Anthropic!Before, Prior
<1>6. /\ Flow[i].kind = "message_start" <=> i = 1
      /\ Flow[i].kind = "text_delta" => Prior(Flow, i, "start_text")
      /\ Flow[i].kind = "input_json_delta" => Prior(Flow, i, "start_tool_use")
      /\ Flow[i].piece => ~Prior(Flow, i, "content_block_stop")
      /\ Flow[i].kind \in {"message_delta", "message_stop"} => Prior(Flow, i, "content_block_stop")
      /\ Flow[i].kind = "message_stop" => Prior(Flow, i, "message_delta")
      /\ ~Prior(Flow, i, "error")
  BY <1>3, <1>4, MessageNests
<1> QED
  BY <1>4, <1>5, <1>6

(* Gemini's array is closed once, at its end, and only as the last thing   *)
(* that is done; and no failure is its first element.                      *)
CloseHolds ==
  /\ reply.media \in {"none", Gemini!Media}
  /\ \A i \in DOMAIN Flow : Flow[i].kind = "]" => i = Len(Flow) /\ pc = "done"
  /\ pc = "done" /\ Gemini!Media = "array" => Flow # <<>> /\ Flow[Len(Flow)].kind = "]"
  /\ Gemini!Media = "array" /\ Flow # <<>> => Flow[1].kind # "error"
CloseInv == route = "gemini" /\ Streamed => CloseHolds

(* Two sequences of frames, one after the other.                           *)
LEMMA JoinIs ==
  ASSUME NEW s \in Seq(StreamFrame), NEW t \in Seq(StreamFrame)
  PROVE  /\ s \o t \in Seq(StreamFrame) /\ Len(s \o t) = Len(s) + Len(t) /\ Len(s) \in Nat /\ Len(t) \in Nat
         /\ DOMAIN s = 1..Len(s) /\ DOMAIN (s \o t) = 1..(Len(s) + Len(t))
         /\ \A i \in 1..Len(s) : (s \o t)[i] = s[i]
         /\ \A i \in 1..Len(t) : (s \o t)[Len(s) + i] = t[i]
OBVIOUS

Unclosed(s) == s \in Seq(StreamFrame) /\ \A i \in DOMAIN s : s[i].kind # "]"

(* What closes an array comes last.                                        *)
LEMMA CloseJoined ==
  ASSUME NEW s, NEW fs, NEW c \in Seq(StreamFrame), Unclosed(s), Unclosed(fs),
         c = <<>> \/ (Len(c) = 1 /\ c[1].kind = "]")
  PROVE  LET t == s \o (fs \o c) IN
           /\ t \in Seq(StreamFrame)
           /\ \A i \in DOMAIN t : t[i].kind = "]" => i = Len(t)
           /\ c # <<>> => t # <<>> /\ t[Len(t)].kind = "]"
           /\ s # <<>> => t[1] = s[1]
           /\ s = <<>> /\ fs # <<>> => t[1] = fs[1]
           /\ s = <<>> /\ fs = <<>> /\ c # <<>> => t[1] = c[1]
<1> DEFINE e == fs \o c  t == s \o e  m == Len(s)  n == Len(fs)
<1>1. s \in Seq(StreamFrame) /\ fs \in Seq(StreamFrame) /\ m \in Nat /\ n \in Nat /\ Len(c) \in Nat /\ Len(c) <= 1
  <2>1. s \in Seq(StreamFrame) /\ fs \in Seq(StreamFrame)
    BY DEF Unclosed
  <2>2. m \in Nat /\ n \in Nat /\ Len(c) \in Nat
    BY <2>1
  <2>3. Len(c) <= 1
    <3>1. CASE c = <<>>
      BY <3>1
    <3>2. CASE Len(c) = 1
      BY <3>2
    <3> QED
      BY <3>1, <3>2
  <2> QED
    BY <2>1, <2>2, <2>3
<1>2. /\ e \in Seq(StreamFrame) /\ Len(e) = n + Len(c)
      /\ \A i \in 1..n : e[i] = fs[i]
      /\ c # <<>> => e[n + 1] = c[1]
  BY <1>1, JoinIs
<1> HIDE DEF e
<1>3. /\ t \in Seq(StreamFrame) /\ Len(t) = m + Len(e) /\ DOMAIN t = 1..(m + Len(e))
      /\ \A i \in 1..m : t[i] = s[i]
      /\ \A i \in 1..Len(e) : t[m + i] = e[i]
      /\ Len(e) \in Nat /\ DOMAIN s = 1..m
  <2>1. s \in Seq(StreamFrame) /\ e \in Seq(StreamFrame)
    BY <1>1, <1>2
  <2> QED
    BY <2>1, JoinIs
<1> HIDE DEF t, m, n
<1>4. ASSUME NEW i \in 1..m PROVE t[i].kind # "]"
  BY <1>3 DEF Unclosed
<1>5. ASSUME NEW i \in 1..n PROVE e[i].kind # "]" /\ t[m + i] = e[i]
  <2>1. i \in 1..Len(e) /\ i \in DOMAIN fs
    BY <1>1, <1>2 DEF n
  <2> QED
    BY <1>2, <1>3, <2>1 DEF Unclosed
<1>6. ASSUME NEW i \in DOMAIN t, t[i].kind = "]" PROVE i = Len(t)
  <2>1. i \in 1..m \/ (i - m \in 1..n /\ m + (i - m) = i) \/ i = m + n + 1
    <3>1. i \in 1..(m + (n + Len(c)))
      BY <1>2, <1>3
    <3>2. i \in Int /\ 1 <= i /\ i <= m + n + Len(c) /\ Len(c) <= 1
      BY <1>1, <3>1
    <3> QED
      BY <1>1, <3>2
  <2>2. i = m + n + 1 /\ i <= m + n + Len(c)
    BY <1>1, <1>2, <1>3, <1>4, <1>5, <1>6, <2>1
  <2>3. Len(t) = m + n + Len(c)
    BY <1>1, <1>2, <1>3
  <2>4. m \in Nat /\ n \in Nat /\ Len(c) \in Nat /\ Len(c) <= 1 /\ i \in Int
    BY <1>1, <2>2
  <2>5. Len(c) = 1
    BY <2>2, <2>4
  <2> QED
    BY <2>2, <2>3, <2>5
<1>7. c # <<>> => t # <<>> /\ t[Len(t)].kind = "]"
  <2> SUFFICES ASSUME c # <<>> PROVE t # <<>> /\ t[Len(t)].kind = "]"
    OBVIOUS
  <2>1. Len(c) = 1 /\ c[1].kind = "]"
    OBVIOUS
  <2>2. n + 1 \in 1..Len(e) /\ m + (n + 1) = Len(t) /\ Len(t) > 0
    BY <1>1, <1>2, <1>3, <2>1
  <2>3. t[Len(t)] = e[n + 1]
    BY <1>3, <2>2
  <2> QED
    BY <1>2, <1>3, <2>1, <2>2, <2>3
<1>8. s # <<>> => t[1] = s[1]
  BY <1>1, <1>3 DEF m
<1>9. s = <<>> /\ fs # <<>> => t[1] = fs[1]
  <2> SUFFICES ASSUME s = <<>>, fs # <<>> PROVE t[1] = fs[1]
    OBVIOUS
  <2>1. m = 0 /\ 1 \in 1..n
    BY <1>1 DEF m, n
  <2> QED
    BY <1>2, <1>5, <2>1
<1>10. s = <<>> /\ fs = <<>> /\ c # <<>> => t[1] = c[1]
  <2> SUFFICES ASSUME s = <<>>, fs = <<>>, c # <<>> PROVE t[1] = c[1]
    OBVIOUS
  <2>1. m = 0 /\ n = 0 /\ Len(e) = 1
    BY <1>1, <1>2 DEF m, n
  <2> QED
    BY <1>2, <1>3, <2>1
<1> QED
  BY <1>3, <1>6, <1>7, <1>8, <1>9, <1>10 DEF t, e

(* Gemini's frames and what closes them.                                   *)
LEMMA GeminiFrame ==
  ASSUME NEW k \in {"chunk", "STOP", "error", "]"}, NEW p \in BOOLEAN, NEW n \in Int
  PROVE  LET f == Gemini!Frame(k, p, n) IN f \in StreamFrame /\ f.kind = k
BY DEF Gemini!Frame, StreamFrame, StreamKinds

(* A frame of the array is not what closes it.                             *)
LEMMA GeminiUnclosed ==
  ASSUME NEW f \in StreamFrame, f.kind # "]"
  PROVE  Unclosed(<<>>) /\ Unclosed(<<f>>) /\ <<f>> # <<>> /\ <<f>>[1] = f
<1>1. <<f>> \in Seq(StreamFrame) /\ DOMAIN <<f>> = {1} /\ <<f>>[1] = f /\ <<>> \in Seq(StreamFrame) /\ DOMAIN <<>> = {}
  OBVIOUS
<1> QED
  BY <1>1 DEF Unclosed

(* What Gemini's stream ends with.                                         *)
LEMMA GeminiCloses ==
  /\ Gemini!Media \in {"sse", "array"}
  /\ Gemini!close \in Seq(StreamFrame)
  /\ Gemini!Media = "sse" => Gemini!close = <<>>
  /\ Gemini!Media = "array" => Len(Gemini!close) = 1 /\ Gemini!close[1].kind = "]" /\ Gemini!close # <<>>
<1> DEFINE f == Gemini!Frame("]", FALSE, -1)
<1>1. f \in StreamFrame /\ f.kind = "]"
  <2>1. -1 \in Int
    OBVIOUS
  <2> QED
    BY <2>1, GeminiFrame
<1>2. Gemini!Media \in {"sse", "array"}
  BY DEF Gemini!Media
<1>3. Gemini!close = IF Gemini!Media = "array" THEN <<f>> ELSE <<>>
  BY DEF Gemini!close, Gemini!Plain
<1> HIDE DEF f
<1>4. <<f>> \in Seq(StreamFrame) /\ <<>> \in Seq(StreamFrame) /\ Len(<<f>>) = 1 /\ <<f>>[1] = f /\ <<f>> # <<>>
  BY <1>1
<1> QED
  BY <1>1, <1>2, <1>3, <1>4

(* Gemini's route closes its array.                                        *)
LEMMA GeminiClose == ASSUME route = "gemini", ReplyInv, Given, CloseInv, Gemini!Next, UNCHANGED route PROVE CloseInv'
<1> SUFFICES ASSUME Streamed' PROVE CloseHolds'
  BY DEF CloseInv
<1>1. /\ ~Streamed' <=> reply'.media = "json"
      /\ \A code, own, n : ~Gemini!Body(code, own, n)
  <2>1. ~Streamed' <=> reply'.media = "json"
    BY DEF Streamed
  <2>2. ASSUME NEW code, NEW own, NEW n, Gemini!Body(code, own, n) PROVE reply'.media = "json"
    BY <2>2 DEF Gemini!Body
  <2> QED
    BY <2>1, <2>2
<1>2. pc \in Early => Streamed /\ Flow = <<>> /\ reply.frames = <<>> /\ reply.media = "none"
  BY Stages, FlowIs DEF Streamed, Nothing
<1>3. Gemini!Media' = Gemini!Media /\ Gemini!Media \in {"sse", "array"}
  <2>1. UNCHANGED req
    BY DEF Gemini!Next, Gemini!Handle, Gemini!handleCatchAll, Gemini!handleCountTokens, Gemini!handleGenerate,
           Gemini!renderFixtureBody, Gemini!Match, Gemini!RenderBody, Gemini!Force, Gemini!Refuse, Gemini!Admit,
           Gemini!serveFixture, Gemini!Verbatim, Gemini!OpenFixture, Gemini!streamResponse, Gemini!StreamWrite,
           Gemini!Finish, Gemini!serveGeminiFunctionCallResponse, Gemini!generate, Gemini!OpenBackend, Gemini!Tokens,
           Gemini!streamGenerateContent, Gemini!fail, Gemini!WriteNext, Gemini!ClientLeaves, Gemini!Done, Gemini!vars
  <2> QED
    BY <2>1 DEF Gemini!Media
<1>4. ASSUME Flow' = Flow, Streamed, pc' = pc \/ (pc \in Early /\ pc' \in Early),
             reply'.media = reply.media \/ reply'.media = Gemini!Media
      PROVE  CloseHolds'
  <2>1. CloseHolds
    BY <1>4 DEF CloseInv
  <2>2. pc = "done" <=> pc' = "done"
    BY <1>4 DEF Early
  <2> QED
    BY <1>3, <1>4, <2>1, <2>2 DEF CloseHolds
<1>5. ASSUME UNCHANGED <<reply, todo>>, pc' = pc \/ (pc \in Early /\ pc' \in Early) PROVE CloseHolds'
  BY <1>1, <1>4, <1>5 DEF Flow, Streamed
<1>6. CASE Gemini!handleCatchAll \/ Gemini!handleCountTokens \/ Gemini!handleGenerate
  BY <1>1, <1>5, <1>6 DEF Gemini!handleCatchAll, Gemini!handleCountTokens, Gemini!handleGenerate, Gemini!Force, Gemini!Refuse,
                          Gemini!Admit, Gemini!At, Early
<1>7. CASE Gemini!renderFixtureBody
  <2>1. CASE Gemini!Match(500)
    <3>1. fixture.match \in {"none", "found", "exhausted", "failed"} /\ pc \in Early /\ UNCHANGED todo
      BY <2>1 DEF Gemini!Match, Gemini!At, Early, Given, Matches
    <3>2. (pc' \in {"route", "render"} /\ UNCHANGED reply) \/ Gemini!Body(500, TRUE, -1) \/ Gemini!Body(502, TRUE, -1)
      BY <2>1, <3>1, ZenonT(30) DEF Gemini!Match
    <3>3. pc' \in {"route", "render"} /\ UNCHANGED reply
      BY <1>1, <3>2, ZenonT(30)
    <3> QED
      BY <1>5, <3>1, <3>3 DEF Early
  <2>2. CASE Gemini!RenderBody
    <3>1. pc = "render" /\ UNCHANGED todo /\ (Gemini!Body(502, TRUE, -1) \/ (pc' = "serve" /\ UNCHANGED reply))
      BY <2>2 DEF Gemini!RenderBody, Gemini!At
    <3>2. pc' = "serve" /\ UNCHANGED reply
      BY <1>1, <3>1, ZenonT(30)
    <3> QED
      BY <1>5, <3>1, <3>2 DEF Early
  <2> QED
    BY <1>7, <2>1, <2>2 DEF Gemini!renderFixtureBody
<1>8. ASSUME pc \in Early, pc' # "done", todo' = <<>>, UNCHANGED reply PROVE CloseHolds'
  <2>1. Flow' = <<>> /\ reply'.media = "none" /\ DOMAIN <<>> = {}
    BY <1>2, <1>8 DEF Flow
  <2> QED
    BY <1>8, <2>1 DEF CloseHolds
(* However a stream ends, it is closed behind its last chunk.              *)
<1>9. ASSUME NEW fs, Unclosed(fs), Unclosed(Flow), pc' = "done", Flow' = Flow \o (fs \o Gemini!close), UNCHANGED reply,
             reply.media \in {"none", Gemini!Media},
             Gemini!Media = "array" /\ Flow # <<>> => Flow[1].kind # "error",
             Gemini!Media = "array" /\ Flow = <<>> /\ fs # <<>> => fs[1].kind # "error"
      PROVE  CloseHolds'
  <2> DEFINE c == Gemini!close  t == Flow \o (fs \o c)
  <2>1. /\ c \in Seq(StreamFrame) /\ (c = <<>> \/ (Len(c) = 1 /\ c[1].kind = "]"))
        /\ Gemini!Media = "array" => c # <<>>
    BY GeminiCloses
  <2> HIDE DEF c
  <2>2. /\ \A i \in DOMAIN t : t[i].kind = "]" => i = Len(t)
        /\ c # <<>> => t # <<>> /\ t[Len(t)].kind = "]"
        /\ Flow # <<>> => t[1] = Flow[1]
        /\ Flow = <<>> /\ fs # <<>> => t[1] = fs[1]
        /\ Flow = <<>> /\ fs = <<>> /\ c # <<>> => t[1] = c[1]
    BY <1>9, <2>1, CloseJoined, SMTT(90)
  <2>3. Flow' = t
    BY <1>9 DEF c
  <2> HIDE DEF t
  <2>4. Gemini!Media = "array" => t[1].kind # "error"
    BY <1>9, <2>1, <2>2
  <2>5. Flow' = t /\ reply'.media \in {"none", Gemini!Media'} /\ Gemini!Media' = Gemini!Media
    BY <1>3, <1>9, <2>3
  <2> QED
    BY <1>9, <2>1, <2>2, <2>4, <2>5 DEF CloseHolds
<1>10. CASE Gemini!serveFixture
  <2>1. pc \in Early
    BY <1>10 DEF Gemini!serveFixture, Gemini!At, Early
  <2>2. CASE Gemini!Verbatim
    BY <1>1, <2>2 DEF Gemini!Verbatim
  <2>3. CASE Gemini!OpenFixture(<<>>)
    BY <1>8, <2>1, <2>3 DEF Gemini!OpenFixture
  <2> QED
    BY <1>10, <2>2, <2>3 DEF Gemini!serveFixture
<1>11. CASE Gemini!streamResponse \/ Gemini!streamGenerateContent
  <2>1. pc \in Streams /\ pc # "done" /\ todo = <<>>
    BY <1>11 DEF Gemini!streamResponse, Gemini!streamGenerateContent, Gemini!At, Streams
  <2>2. Streamed
    BY <2>1 DEF ReplyInv, ReplyShape, Streamed, Nothing, InOne, InParts, StreamMedia, Streams
  <2>3. Flow = reply.frames /\ CloseHolds /\ Unclosed(Flow)
    <3>1. Flow \in Seq(StreamFrame) /\ Flow = reply.frames /\ CloseHolds
      BY <2>1, <2>2, FlowIs DEF CloseInv
    <3> QED
      BY <2>1, <3>1 DEF CloseHolds, Unclosed
  <2>4. ASSUME NEW f \in StreamFrame, f.kind \in {"chunk", "STOP"}, Gemini!StreamWrite(f, Gemini!Media) PROVE CloseHolds'
    <3>1. /\ reply'.frames = Append(reply.frames, f) /\ UNCHANGED <<todo, text, pc>>
          /\ reply'.media \in {"none", Gemini!Media}
      BY <2>3, <2>4 DEF Gemini!StreamWrite, Gemini!Written, CloseHolds
    <3>2. Flow' = Flow \o <<f>>
      BY <2>1, <2>2, <3>1, FlowSends
    <3>3. /\ Unclosed(<<>>) /\ Unclosed(<<f>>) /\ <<f>> # <<>> /\ <<f>>[1] = f /\ <<>> \in Seq(StreamFrame)
      BY <2>4, GeminiUnclosed
    <3> DEFINE u == <<f>>  t == Flow \o u
    <3>4. u \in Seq(StreamFrame) /\ u \o <<>> = u
      BY <2>4
    <3> HIDE DEF u
    <3>5. /\ Len(u) = 1 /\ u[1] = f
      BY DEF u
    <3>6. /\ t \in Seq(StreamFrame) /\ Len(t) = Len(Flow) + 1 /\ DOMAIN t = 1..(Len(Flow) + 1) /\ Len(Flow) \in Nat
          /\ \A i \in 1..Len(Flow) : t[i] = Flow[i] /\ i \in DOMAIN Flow
          /\ t[Len(Flow) + 1] = f
      <4>1. Flow \in Seq(StreamFrame) /\ 1 \in 1..Len(u)
        BY <2>3, <3>5 DEF Unclosed
      <4>2. /\ t \in Seq(StreamFrame) /\ Len(t) = Len(Flow) + Len(u) /\ DOMAIN t = 1..(Len(Flow) + Len(u)) /\ Len(Flow) \in Nat
            /\ \A i \in 1..Len(Flow) : t[i] = Flow[i]
            /\ \A i \in 1..Len(u) : t[Len(Flow) + i] = u[i]
            /\ DOMAIN Flow = 1..Len(Flow)
        BY <3>4, <4>1, JoinIs
      <4> HIDE DEF t
      <4> QED
        BY <3>5, <4>1, <4>2
    <3> HIDE DEF t
    <3>7. \A i \in DOMAIN t : t[i].kind # "]"
      <4>1. \A i \in DOMAIN t : i \in 1..Len(Flow) \/ i = Len(Flow) + 1
        BY <3>6
      <4> QED
        BY <2>3, <2>4, <3>6, <4>1 DEF Unclosed
    <3>8. Gemini!Media = "array" => t[1].kind # "error"
      <4>1. CASE Len(Flow) = 0
        BY <2>4, <3>6, <4>1
      <4>2. CASE Len(Flow) # 0
        <5>1. 1 \in 1..Len(Flow) /\ Flow # <<>>
          BY <3>6, <4>2
        <5> QED
          BY <2>3, <3>6, <5>1 DEF CloseHolds
      <4> QED
        BY <4>1, <4>2
    <3>9. Flow' = t /\ reply'.media \in {"none", Gemini!Media'} /\ Gemini!Media' = Gemini!Media /\ pc' # "done"
      BY <1>3, <2>1, <3>1, <3>2 DEF t, u
    <3> QED
      BY <3>7, <3>8, <3>9 DEF CloseHolds
  <2>5. ASSUME NEW fs, Unclosed(fs), todo' = fs \o Gemini!close, pc' = "done", UNCHANGED reply,
               Gemini!Media = "array" /\ Flow = <<>> /\ fs # <<>> => fs[1].kind # "error"
        PROVE  CloseHolds'
    <3>1. Flow' = Flow \o (fs \o Gemini!close)
      BY <2>1, <2>2, <2>5, FlowEnds
    <3>2. reply.media \in {"none", Gemini!Media} /\ (Gemini!Media = "array" /\ Flow # <<>> => Flow[1].kind # "error")
      BY <2>3 DEF CloseHolds
    <3> QED
      BY <1>9, <2>3, <2>5, <3>1, <3>2
  <2>6. ASSUME Gemini!Finish(Gemini!close) PROVE CloseHolds'
    <3>1. Unclosed(<<>>) /\ <<>> \o Gemini!close = Gemini!close
      BY GeminiCloses DEF Unclosed
    <3> QED
      BY <2>5, <2>6, <3>1 DEF Gemini!Finish
  <2>7. ASSUME NEW n \in Int, Gemini!Finish(<<Gemini!Frame("STOP", FALSE, n)>> \o Gemini!close) PROVE CloseHolds'
    <3> DEFINE f == Gemini!Frame("STOP", FALSE, n)
    <3>1. f \in StreamFrame /\ f.kind = "STOP"
      BY GeminiFrame
    <3>2. todo' = <<f>> \o Gemini!close /\ pc' = "done" /\ UNCHANGED reply
      BY <2>7 DEF Gemini!Finish
    <3> HIDE DEF f
    <3>3. Unclosed(<<f>>) /\ <<f>>[1] = f
      BY <3>1, GeminiUnclosed
    <3> QED
      BY <2>5, <3>1, <3>2, <3>3
  <2>8. CASE Gemini!fail
    <3>1. CASE Gemini!Body(502, FALSE, -1)
      BY <1>1, <3>1
    <3>2. CASE ~(Gemini!Media = "array" /\ reply.status = 0) /\ Gemini!Finish(<<Gemini!Plain("error")>> \o Gemini!close)
      <4> DEFINE f == Gemini!Frame("error", FALSE, -1)
      <4>1. f \in StreamFrame /\ f.kind = "error"
        <5>1. -1 \in Int
          OBVIOUS
        <5> QED
          BY <5>1, GeminiFrame
      <4>2. todo' = <<f>> \o Gemini!close /\ pc' = "done" /\ UNCHANGED reply
        BY <3>2 DEF Gemini!Finish, Gemini!Plain
      <4> HIDE DEF f
      <4>3. Unclosed(<<f>>)
        BY <4>1, GeminiUnclosed
      <4>4. Gemini!Media = "array" => Flow # <<>>
        BY <2>1, <2>2, <2>3, <3>2 DEF ReplyInv, ReplyShape, Nothing, InOne, InParts, Streamed
      <4> QED
        BY <2>5, <4>2, <4>3, <4>4
    <3> QED
      BY <2>8, <3>1, <3>2 DEF Gemini!fail
  <2>9. Gemini!CountNonEmpty(text) \in Int /\ Gemini!Sent \in Int
    <3>1. Gemini!CountNonEmpty(text) = Cardinality({i \in DOMAIN text.chunks : text.chunks[i] = 1})
      BY DEF Gemini!CountNonEmpty, Gemini!Cardinality, Cardinality
    <3>2. SentNow = Gemini!Sent
      BY DEF Gemini!Sent, Gemini!Cardinality, Cardinality, SentNow, Pieces
    <3>3. TextOk(text) /\ SentNow \in Nat
      BY <2>1, Standing DEF Streaming
    <3> QED
      BY <3>1, <3>2, <3>3, CountIsNat DEF TextOk
  <2>10. CASE Gemini!streamResponse
    <3>1. CASE Gemini!StreamWrite(Gemini!Frame("chunk", TRUE, 0), Gemini!Media)
      <4>1. Gemini!Frame("chunk", TRUE, 0) \in StreamFrame /\ Gemini!Frame("chunk", TRUE, 0).kind = "chunk"
        <5>1. 0 \in Int
          OBVIOUS
        <5> QED
          BY <5>1, GeminiFrame
      <4> QED
        BY <2>4, <3>1, <4>1
    <3>2. CASE Gemini!StreamWrite(Gemini!Frame("STOP", TRUE, Gemini!CountNonEmpty(text)), Gemini!Media)
      <4> DEFINE f == Gemini!Frame("STOP", TRUE, Gemini!CountNonEmpty(text))
      <4>1. f \in StreamFrame /\ f.kind = "STOP"
        BY <2>9, GeminiFrame
      <4> QED
        BY <2>4, <3>2, <4>1
    <3>3. CASE Gemini!Finish((IF text.chunks = <<>> THEN <<Gemini!Frame("STOP", FALSE, 0)>> ELSE <<>>) \o Gemini!close)
      <4>1. CASE text.chunks = <<>>
        <5>1. Gemini!Finish(<<Gemini!Frame("STOP", FALSE, 0)>> \o Gemini!close) /\ 0 \in Int
          BY <3>3, <4>1
        <5> QED
          BY <2>7, <5>1
      <4>2. CASE text.chunks # <<>>
        <5>1. <<>> \o Gemini!close = Gemini!close
          BY GeminiCloses
        <5> QED
          BY <2>6, <3>3, <4>2, <5>1
      <4> QED
        BY <4>1, <4>2
    <3> QED
      BY <2>6, <2>10, <3>1, <3>2, <3>3 DEF Gemini!streamResponse
  <2>11. CASE Gemini!streamGenerateContent
    <3>1. CASE Gemini!StreamWrite(Gemini!Frame("chunk", TRUE, 0), Gemini!Media)
      <4>1. Gemini!Frame("chunk", TRUE, 0) \in StreamFrame /\ Gemini!Frame("chunk", TRUE, 0).kind = "chunk"
        <5>1. 0 \in Int
          OBVIOUS
        <5> QED
          BY <5>1, GeminiFrame
      <4> QED
        BY <2>4, <3>1, <4>1
    <3> QED
      BY <2>7, <2>8, <2>9, <2>11, <3>1 DEF Gemini!streamGenerateContent
  <2> QED
    BY <1>11, <2>10, <2>11
<1>12. CASE Gemini!serveGeminiFunctionCallResponse
  <2>1. pc \in Early
    BY <1>12 DEF Gemini!serveGeminiFunctionCallResponse, Gemini!At, Early
  <2>2. CASE Gemini!Body(200, FALSE, 1)
    BY <1>1, <2>2
  <2>3. CASE Gemini!streamFunctionCallContent
    <3> DEFINE f == Gemini!Frame("STOP", TRUE, 1)
    <3>1. f \in StreamFrame /\ f.kind = "STOP"
      <4>1. 1 \in Int
        OBVIOUS
      <4> QED
        BY <4>1, GeminiFrame
    <3>2. todo' = <<f>> \o Gemini!close /\ pc' = "done" /\ UNCHANGED reply
      BY <2>3 DEF Gemini!streamFunctionCallContent
    <3> HIDE DEF f
    <3>3. Unclosed(<<f>>) /\ <<f>>[1] = f /\ Unclosed(<<>>) /\ <<f>> \in Seq(StreamFrame)
      BY <3>1, GeminiUnclosed DEF Unclosed
    <3>4. <<f>> \o Gemini!close \in Seq(StreamFrame)
      BY <3>3, GeminiCloses
    <3>5. Flow' = <<>> \o (<<f>> \o Gemini!close)
      BY <1>2, <2>1, <3>2 DEF Flow
    <3> QED
      BY <1>2, <1>9, <2>1, <3>1, <3>2, <3>3, <3>5
  <2> QED
    BY <1>12, <2>2, <2>3 DEF Gemini!serveGeminiFunctionCallResponse
<1>13. CASE Gemini!generate
  <2>1. pc \in Early
    BY <1>13 DEF Gemini!generate, Gemini!At, Early
  <2>2. CASE Gemini!Tokens(502)
    <3>1. Gemini!Body(502, FALSE, -1) \/ \E n : Gemini!Body(200, FALSE, n)
      BY <2>2, Zenon DEF Gemini!Tokens
    <3> QED
      BY <1>1, <3>1, ZenonT(30)
  <2>3. CASE Gemini!OpenBackend(<<>>)
    BY <1>8, <2>1, <2>3 DEF Gemini!OpenBackend
  <2> QED
    BY <1>13, <2>2, <2>3 DEF Gemini!generate
<1>14. CASE Gemini!WriteNext(Gemini!Media)
  <2>1. Writes
    BY <1>3, <1>14 DEF Gemini!WriteNext, Gemini!Written, Writes, WrittenTo, StreamMedia
  <2>2. reply'.media = reply.media \/ reply'.media = Gemini!Media
    BY <1>14 DEF Gemini!WriteNext, Gemini!Written
  <2> QED
    BY <1>4, <2>1, <2>2, FlowWrites DEF Writes
<1>15. CASE Gemini!ClientLeaves \/ Gemini!Done
  BY <1>5, <1>15 DEF Gemini!ClientLeaves, Gemini!Done, Gemini!vars
<1> QED
  BY <1>6, <1>7, <1>10, <1>11, <1>12, <1>13, <1>14, <1>15 DEF Gemini!Next, Gemini!Handle

(* So the array that a client has is closed, and no failure is its first   *)
(* element.                                                                *)
LEMMA CloseIsClosed == ASSUME route = "gemini", ReplyInv, CloseInv PROVE Gemini!ArrayIsClosed /\ Gemini!EarlyFailureHasStatus
<1>1. CASE ~Streamed
  <2>1. InOne /\ reply.media = "json"
    BY <1>1 DEF Streamed, ReplyInv, ReplyShape, Nothing, InParts, StreamMedia
  <2>2. DOMAIN reply.frames = {1} /\ Len(reply.frames) = 1
    BY <2>1 DEF InOne
  <2> QED
    BY <2>1, <2>2 DEF Gemini!ArrayIsClosed, Gemini!EarlyFailureHasStatus
<1>2. CASE Streamed
  <2>1. /\ CloseHolds /\ reply.frames \in Seq(StreamFrame) /\ Flow \in Seq(StreamFrame)
        /\ \A i \in DOMAIN reply.frames : i \in DOMAIN Flow /\ Flow[i] = reply.frames[i]
        /\ todo = <<>> => Flow = reply.frames
    BY <1>2, FlowIs DEF CloseInv
  <2>2. ASSUME reply.media = "array", Gemini!Finished PROVE reply.frames[Len(reply.frames)].kind = "]"
    BY <2>1, <2>2 DEF CloseHolds, Gemini!Finished
  <2>3. ASSUME NEW i \in DOMAIN reply.frames, reply.frames[i].kind = "]" PROVE i = Len(reply.frames)
    <3>1. i = Len(Flow)
      BY <2>1, <2>3 DEF CloseHolds
    <3>2. Len(reply.frames) \in DOMAIN reply.frames /\ i \in 1..Len(reply.frames) /\ Len(reply.frames) \in Nat
      BY <2>1, <2>3
    <3>3. Len(reply.frames) \in 1..Len(Flow)
      BY <2>1, <3>2
    <3> QED
      BY <3>1, <3>2, <3>3
  <2>4. ASSUME reply.media = "array" PROVE reply.frames[1].kind # "error"
    <3>1. reply.frames # <<>>
      BY <2>4 DEF ReplyInv, ReplyShape, Nothing, InOne, InParts
    <3>2. 1 \in DOMAIN reply.frames /\ Gemini!Media = "array"
      BY <2>1, <2>4, <3>1 DEF CloseHolds
    <3>3. Flow[1] = reply.frames[1] /\ Flow # <<>>
      BY <2>1, <3>2
    <3> QED
      BY <2>1, <3>2, <3>3 DEF CloseHolds
  <2> QED
    BY <2>2, <2>3, <2>4 DEF Gemini!ArrayIsClosed, Gemini!EarlyFailureHasStatus
<1> QED
  BY <1>1, <1>2

(* A failure that is the first frame of Ollama's stream is that of a       *)
(* client that has left, and a whole reply has no failure.                 *)
EarlyHolds ==
  /\ Streamed => \A i \in DOMAIN Flow : Flow[i].kind = "error" => i > 1 \/ ~alive
  /\ ~Streamed => \A i \in DOMAIN reply.frames : reply.frames[i].kind = "body"
EarlyInv == route = "ollama" => EarlyHolds

(* Ollama's route keeps them.                                              *)
LEMMA OllamaFailsInTime == ASSUME route = "ollama", ReplyInv, Given, EarlyInv, Ollama!Next, UNCHANGED route PROVE EarlyInv'
<1> SUFFICES EarlyHolds'
  BY DEF EarlyInv
<1>0. EarlyHolds
  BY DEF EarlyInv
<1>1. ASSUME NEW code, NEW own, NEW n, Ollama!Body(code, own, n) PROVE EarlyHolds'
  <2> DEFINE f == Ollama!Frame("body", FALSE, n)
  <2>1. reply'.media = "json" /\ reply'.frames = <<f>> /\ f.kind = "body"
    BY <1>1 DEF Ollama!Body, Ollama!Frame
  <2> HIDE DEF f
  <2>2. ~Streamed' /\ \A i \in DOMAIN reply'.frames : reply'.frames[i].kind = "body"
    BY <2>1 DEF Streamed
  <2> QED
    BY <2>2 DEF EarlyHolds
<1>2. pc \in Early => Streamed /\ Flow = <<>> /\ reply.frames = <<>> /\ reply.media = "none"
  BY Stages, FlowIs DEF Streamed, Nothing
<1>3. ASSUME Flow' = Flow, Streamed, Streamed', alive' => alive PROVE EarlyHolds'
  BY <1>0, <1>3 DEF EarlyHolds
<1>4. ASSUME UNCHANGED <<reply, todo>>, alive' => alive PROVE EarlyHolds'
  <2>1. Flow' = Flow /\ Streamed' = Streamed
    BY <1>4 DEF Flow, Streamed
  <2> QED
    BY <1>0, <1>4, <2>1 DEF EarlyHolds
<1>5. ASSUME pc \in Early, todo' = <<>>, UNCHANGED reply PROVE EarlyHolds'
  <2>1. Flow' = <<>> /\ DOMAIN <<>> = {} /\ Streamed'
    BY <1>2, <1>5 DEF Flow, Streamed
  <2> QED
    BY <2>1 DEF EarlyHolds
<1>6. CASE Ollama!handleChat \/ Ollama!handleGenerate
  BY <1>1, <1>4, <1>6 DEF Ollama!handleChat, Ollama!handleGenerate, Ollama!Force, Ollama!Refuse, Ollama!Admit, Ollama!Load
<1>7. CASE Ollama!renderFixtureBody
  <2>1. CASE Ollama!Match(500)
    <3>1. fixture.match \in {"none", "found", "exhausted", "failed"} /\ UNCHANGED <<todo, text, alive>>
      BY <2>1 DEF Ollama!Match, Given, Matches
    <3>2. UNCHANGED reply \/ Ollama!Body(500, TRUE, -1) \/ Ollama!Body(502, TRUE, -1)
      BY <2>1, <3>1, ZenonT(30) DEF Ollama!Match
    <3>3. CASE UNCHANGED reply
      BY <1>4, <3>1, <3>3
    <3> QED
      BY <1>1, <3>2, <3>3, ZenonT(30)
  <2>2. CASE Ollama!RenderBody
    <3>1. UNCHANGED <<todo, text, alive>> /\ (Ollama!Body(502, TRUE, -1) \/ UNCHANGED reply)
      BY <2>2 DEF Ollama!RenderBody
    <3>2. CASE UNCHANGED reply
      BY <1>4, <3>1, <3>2
    <3> QED
      BY <1>1, <3>1, <3>2, ZenonT(30)
  <2> QED
    BY <1>7, <2>1, <2>2 DEF Ollama!renderFixtureBody
<1>8. CASE Ollama!serveChatFixture \/ Ollama!serveGenerateFixture
  <2>1. pc \in Early
    BY <1>8 DEF Ollama!serveChatFixture, Ollama!serveGenerateFixture, Ollama!At, Early
  <2>2. CASE Ollama!Verbatim
    BY <1>1, <2>2 DEF Ollama!Verbatim
  <2>3. CASE Ollama!OpenFixture(<<>>)
    BY <1>5, <2>1, <2>3 DEF Ollama!OpenFixture
  <2> QED
    BY <1>8, <2>2, <2>3 DEF Ollama!serveChatFixture, Ollama!serveGenerateFixture
<1>9. CASE Ollama!generate
  <2>1. pc \in Early
    BY <1>9 DEF Ollama!generate, Ollama!At, Early
  <2>2. CASE Ollama!Tokens(500)
    <3>1. Ollama!Body(500, FALSE, -1) \/ \E n : Ollama!Body(200, FALSE, n)
      BY <2>2, Zenon DEF Ollama!Tokens
    <3> QED
      BY <1>1, <3>1, ZenonT(30)
  <2>3. CASE Ollama!OpenBackend(<<>>)
    BY <1>5, <2>1, <2>3 DEF Ollama!OpenBackend
  <2> QED
    BY <1>9, <2>2, <2>3 DEF Ollama!generate
<1>10. CASE Ollama!streamFixture \/ Ollama!streamBackend
  <2>1. pc \in Streams /\ todo = <<>>
    BY <1>10 DEF Ollama!streamFixture, Ollama!streamBackend, Ollama!At, Streams
  <2>2. Streamed
    BY <2>1 DEF ReplyInv, ReplyShape, Streamed, Nothing, InOne, InParts, StreamMedia, Streams
  <2>3. Flow = reply.frames /\ Flow \in Seq(StreamFrame)
    BY <2>1, <2>2, FlowIs
  <2>4. ASSUME NEW f \in StreamFrame, Flow' = Flow \o <<f>>, Streamed', UNCHANGED alive,
               f.kind = "error" => Flow # <<>> \/ ~alive
        PROVE  EarlyHolds'
    <3> DEFINE u == <<f>>  t == Flow \o u
    <3>1. u \in Seq(StreamFrame) /\ Len(u) = 1 /\ u[1] = f
      OBVIOUS
    <3> HIDE DEF u
    <3>2. /\ Len(Flow) \in Nat /\ DOMAIN Flow = 1..Len(Flow) /\ DOMAIN t = 1..(Len(Flow) + Len(u))
          /\ \A i \in 1..Len(Flow) : t[i] = Flow[i]
          /\ \A i \in 1..Len(u) : t[Len(Flow) + i] = u[i]
      BY <2>3, <3>1, JoinIs
    <3> HIDE DEF t
    <3>3. /\ t[Len(Flow) + 1] = f
          /\ \A i \in DOMAIN t : i \in DOMAIN Flow \/ i = Len(Flow) + 1
      BY <3>1, <3>2
    <3>4. \A i \in DOMAIN Flow : (Flow[i].kind = "error" => i > 1 \/ ~alive) /\ t[i] = Flow[i]
      BY <1>0, <2>2, <3>2 DEF EarlyHolds
    <3>5. Flow # <<>> => Len(Flow) + 1 > 1
      BY <2>3
    <3>6. \A i \in DOMAIN t : t[i].kind = "error" => i > 1 \/ ~alive
      BY <2>4, <3>3, <3>4, <3>5
    <3>7. Flow' = t
      BY <2>4 DEF t, u
    <3>8. \A i \in DOMAIN Flow' : Flow'[i].kind = "error" => i > 1 \/ ~alive'
      BY <2>4, <3>6, <3>7
    <3> QED
      BY <2>4, <3>8 DEF EarlyHolds
  <2>5. ASSUME NEW f \in StreamFrame, todo' = <<f>>, UNCHANGED <<reply, alive>>,
               f.kind = "error" => Flow # <<>> \/ ~alive
        PROVE  EarlyHolds'
    <3>1. Flow' = Flow \o <<f>>
      BY <2>1, <2>2, <2>5, FlowEnds
    <3>2. Streamed'
      BY <2>2, <2>5 DEF Streamed
    <3> QED
      BY <2>4, <2>5, <3>1, <3>2
  <2>6. CASE Ollama!StreamWrite(Ollama!Frame("object", TRUE, -1), "ndjson")
    <3> DEFINE f == Ollama!Frame("object", TRUE, -1)
    <3>1. f \in StreamFrame /\ f.kind = "object"
      BY DEF Ollama!Frame, StreamFrame, StreamKinds
    <3>2. /\ reply'.frames = Append(reply.frames, f) /\ UNCHANGED <<todo, alive>>
          /\ reply'.media = reply.media \/ reply'.media = "ndjson"
      BY <2>6 DEF Ollama!StreamWrite, Ollama!Written
    <3> HIDE DEF f
    <3>3. Flow' = Flow \o <<f>>
      BY <2>1, <2>2, <3>1, <3>2, FlowSends
    <3>4. Streamed' /\ f.kind # "error"
      BY <2>2, <3>1, <3>2 DEF Streamed
    <3> QED
      BY <2>4, <3>1, <3>2, <3>3, <3>4
  <2>7. CASE Ollama!Finish(<<>>)
    <3>1. Flow' = Flow \o <<>>
      BY <2>1, <2>2, <2>7, FlowEnds DEF Ollama!Finish
    <3>2. Flow \o <<>> = Flow
      BY <2>3
    <3>3. Streamed' /\ UNCHANGED alive
      BY <2>2, <2>7 DEF Streamed, Ollama!Finish
    <3> QED
      BY <1>3, <2>2, <3>1, <3>2, <3>3
  <2>8. ASSUME Ollama!Finish(<<Ollama!Plain("error")>>), ~alive \/ reply.status # 0 PROVE EarlyHolds'
    <3> DEFINE f == Ollama!Frame("error", FALSE, -1)
    <3>1. f \in StreamFrame
      BY DEF Ollama!Frame, StreamFrame, StreamKinds
    <3>2. todo' = <<f>> /\ UNCHANGED <<reply, alive>>
      BY <2>8 DEF Ollama!Finish, Ollama!Plain
    <3> HIDE DEF f
    <3>3. Flow # <<>> \/ ~alive
      BY <2>2, <2>3, <2>8 DEF ReplyInv, ReplyShape, Nothing, InOne, InParts, Streamed
    <3> QED
      BY <2>5, <3>1, <3>2, <3>3
  <2>9. ASSUME NEW n \in Int, Ollama!Finish(<<Ollama!Frame("done", FALSE, n)>>) PROVE EarlyHolds'
    <3> DEFINE f == Ollama!Frame("done", FALSE, n)
    <3>1. f \in StreamFrame /\ f.kind = "done"
      BY DEF Ollama!Frame, StreamFrame, StreamKinds
    <3>2. todo' = <<f>> /\ UNCHANGED <<reply, alive>>
      BY <2>9 DEF Ollama!Finish
    <3> HIDE DEF f
    <3> QED
      BY <2>5, <3>1, <3>2
  <2>10. Ollama!CountNonEmpty(text) \in Int /\ -1 \in Int
    <3>1. Ollama!CountNonEmpty(text) = Cardinality({i \in DOMAIN text.chunks : text.chunks[i] = 1})
      BY DEF Ollama!CountNonEmpty, Ollama!Cardinality, Cardinality
    <3>2. TextOk(text)
      BY <2>1, Standing DEF Streaming
    <3> QED
      BY <3>1, <3>2, CountIsNat DEF TextOk
  <2>11. CASE Ollama!streamFixture
    BY <2>6, <2>7, <2>9, <2>10, <2>11 DEF Ollama!streamFixture
  <2>12. CASE Ollama!streamBackend
    <3>1. CASE Ollama!SendError500
      BY <1>1, <3>1 DEF Ollama!SendError500
    <3> QED
      BY <2>6, <2>8, <2>9, <2>10, <2>12, <3>1 DEF Ollama!streamBackend, Ollama!WriteFails
  <2> QED
    BY <1>10, <2>11, <2>12
<1>11. CASE Ollama!WriteNext("ndjson")
  <2>1. Writes
    BY <1>11 DEF Ollama!WriteNext, Ollama!Written, Writes, WrittenTo, StreamMedia
  <2>2. Flow' = Flow /\ Streamed
    BY <2>1, FlowWrites
  <2>3. UNCHANGED alive /\ (reply'.media = reply.media \/ reply'.media = "ndjson")
    BY <1>11 DEF Ollama!WriteNext, Ollama!Written
  <2>4. Streamed'
    BY <2>2, <2>3 DEF Streamed
  <2> QED
    BY <1>3, <2>2, <2>3, <2>4
<1>12. CASE Ollama!ClientLeaves \/ Ollama!Done
  BY <1>4, <1>12 DEF Ollama!ClientLeaves, Ollama!Done, Ollama!vars
<1> QED
  BY <1>6, <1>7, <1>8, <1>9, <1>10, <1>11, <1>12 DEF Ollama!Next, Ollama!Handle

(* So Ollama's reply is as it must be.                                     *)
LEMMA FailuresAreInTime == ASSUME route = "ollama", ReplyInv, EarlyInv PROVE Ollama!EarlyFailureHasStatus
<1> SUFFICES ASSUME NEW i \in DOMAIN reply.frames
             PROVE  /\ reply.frames[i].kind = "error" => i > 1 \/ ~alive
                    /\ reply.frames[i].kind \in {"error", "done"} => i = Len(reply.frames)
  BY DEF Ollama!EarlyFailureHasStatus
<1>1. EarlyHolds
  BY DEF EarlyInv
<1>2. CASE ~Streamed
  BY <1>1, <1>2 DEF EarlyHolds
<1>3. CASE Streamed
  <2>1. i \in DOMAIN Flow /\ Flow[i] = reply.frames[i]
    BY <1>3, FlowIs
  <2>2. MarksLast
    BY <1>3 DEF ReplyInv, Streamed, InOne, Streaming
  <2> QED
    BY <1>1, <1>3, <2>1, <2>2 DEF EarlyHolds, MarksLast, IsMark, EndKinds
<1> QED
  BY <1>2, <1>3

(* A fixture of events answers with the response of the last that          *)
(* completes one.                                                          *)
PostHolds ==
  /\ fixture.match = "found" => fixture.events \in MCEvents
  /\ used["match"] = 1 => Fixtured
  /\ Post!ServesLastCompleted
PostInv == route = "post" => PostHolds

Greatest(S) == CHOOSE i \in S : \A j \in S : i >= j

(* The greatest of at most two numbers.                                    *)
LEMMA GreatestIs ==
  ASSUME NEW S, S \subseteq {1, 2}, S # {}
  PROVE  Greatest(S) \in S /\ \A y \in S : Greatest(S) >= y
<1>1. \E x \in S : \A y \in S : x >= y
  <2>1. CASE 2 \in S
    BY <2>1
  <2>2. CASE 2 \notin S
    <3>1. \A x \in S : x = 1
      BY <2>2
    <3>2. PICK x \in S : x = 1
      BY <3>1
    <3>3. 1 >= 1
      OBVIOUS
    <3> QED
      BY <3>1, <3>2, <3>3
  <2> QED
    BY <2>1, <2>2
<1> QED
  BY <1>1 DEF Greatest

(* The events of a fixture.                                                *)
LEMMA EventsAre == ASSUME NEW e \in MCEvents PROVE DOMAIN e \subseteq {1, 2}
<1> HIDE DEF Events
<1>1. CASE e = <<>>
  BY <1>1
<1>2. CASE e \in {<<f>> : f \in Events("a")}
  BY <1>2
<1>3. CASE e \in {<<f, g>> : f \in Events("a"), g \in Events("b")}
  BY <1>3
<1> QED
  BY <1>1, <1>2, <1>3 DEF MCEvents

(* Nothing completes a response after the event that is served.            *)
LEMMA LastCompletes ==
  ASSUME NEW e \in MCEvents, Post!Completed(e) # "none"
  PROVE  \E i \in DOMAIN e :
           /\ e[i].response = Post!Completed(e)
           /\ e[i].type = "response.completed"
           /\ \A j \in DOMAIN e : j > i => ~(e[j].type = "response.completed" /\ e[j].object)
<1> DEFINE c == {i \in DOMAIN e : e[i].type = "response.completed" /\ e[i].object}
<1>1. Post!Completed(e) = IF c = {} THEN "none" ELSE e[Greatest(c)].response
  BY DEF Post!Completed, Greatest
<1>2. c # {} /\ Post!Completed(e) = e[Greatest(c)].response
  BY <1>1
<1>3. DOMAIN e \subseteq {1, 2} /\ c \subseteq DOMAIN e
  BY EventsAre
<1>4. Greatest(c) \in c /\ \A y \in c : Greatest(c) >= y
  BY <1>2, <1>3, GreatestIs
<1>5. Greatest(c) \in DOMAIN e /\ e[Greatest(c)].type = "response.completed"
  BY <1>4
<1>6. ASSUME NEW j \in DOMAIN e, j > Greatest(c) PROVE ~(e[j].type = "response.completed" /\ e[j].object)
  <2>1. j \in Int /\ Greatest(c) \in Int
    BY <1>3, <1>4
  <2>2. j \notin c
    BY <1>4, <1>6, <2>1
  <2> QED
    BY <2>2
<1> QED
  BY <1>2, <1>5, <1>6

(* The fixtures of the route are of events.                                *)
LEMMA PostFixturesHold == ASSUME fixture \in PostFixtures PROVE fixture.match = "found" => fixture.events \in MCEvents
<1>1. fixture \in [match : {"found"}, template : {"ok"}, status : {200, 429}, array : {TRUE}, events : MCEvents]
        => fixture.events \in MCEvents
  OBVIOUS
<1>2. fixture \in [match : {"found"}, template : {"none", "bad"}, status : {200, 429}, array : {FALSE}, events : {<<>>}]
        => fixture.events \in MCEvents
  BY DEF MCEvents
<1>3. fixture \in {Unfound("none"), Unfound("exhausted"), Unfound("failed")} => fixture.match # "found"
  BY DEF Unfound
<1> QED
  BY <1>1, <1>2, <1>3, ZenonT(60) DEF PostFixtures

(* The route of responses keeps this.                                      *)
LEMMA PostServes == ASSUME route = "post", CostInv, ReplyInv, PostInv, Post!Next, UNCHANGED route PROVE PostInv'
<1> SUFFICES PostHolds'
  BY DEF PostInv
<1>0. PostHolds /\ UNCHANGED route /\ fixture.match \in Matches
  BY DEF PostInv, CostInv
<1>1. CostStep
  BY PostCosts
<1>2. UNCHANGED <<profile, fixture>> /\ Fixtured' = Fixtured
  BY <1>1 DEF CostStep, Fixtured
<1>3. used'["match"] = used["match"] \/ pc = "select"
  BY <1>1 DEF CostStep, Spends, CostInv
<1>4. (fixture.match = "found" => fixture.events \in MCEvents)' /\ (used["match"] = 1 => Fixtured)'
  BY <1>0, <1>2, <1>3 DEF PostHolds, CostInv
<1>5. ASSUME fixture.match = "found", used'["match"] = 1, reply'.status = 200, Post!ServesLastCompleted' PROVE PostHolds'
  BY <1>4, <1>5 DEF PostHolds
<1>6. ASSUME ~(fixture.match = "found" /\ used'["match"] = 1 /\ reply'.status = 200) PROVE PostHolds'
  BY <1>2, <1>4, <1>6 DEF PostHolds, Post!ServesLastCompleted
<1>7. ASSUME UNCHANGED <<reply, used>> PROVE PostHolds'
  BY <1>0, <1>2, <1>4, <1>7 DEF PostHolds, Post!ServesLastCompleted
<1>8. pc \in Early => reply.status = 0
  BY Stages DEF Nothing
<1>9. CASE pc = "start"
  <2>1. used'["match"] = 0
    BY <1>3, <1>9 DEF CostInv, Costs
  <2> QED
    BY <1>6, <2>1
<1>10. CASE Post!Match(500)
  <2>1. reply'.status \in {0, 500, 502}
    <3>1. reply.status = 0
      BY <1>8, <1>10 DEF Post!Match, Post!At, Early
    <3>2. reply' = reply \/ Post!Body(500, TRUE, -1) \/ Post!Body(502, TRUE, -1)
      BY <1>0, <1>10, ZenonT(60) DEF Post!Match, Matches
    <3>3. Post!Body(500, TRUE, -1) => reply'.status = 500
      BY DEF Post!Body
    <3>4. Post!Body(502, TRUE, -1) => reply'.status = 502
      BY DEF Post!Body
    <3>5. reply' = reply => reply'.status = 0
      BY <3>1
    <3>6. reply'.status = 0 \/ reply'.status = 500 \/ reply'.status = 502
      BY <3>2, <3>3, <3>4, <3>5, Zenon
    <3> QED
      BY <3>6, Zenon
  <2> QED
    BY <1>6, <2>1
<1>11. CASE Post!RenderBody
  <2>1. reply'.status \in {0, 502}
    <3>1. reply.status = 0
      BY <1>8, <1>11 DEF Post!RenderBody, Post!At, Early
    <3>2. reply' = reply \/ Post!Body(502, TRUE, -1)
      BY <1>11 DEF Post!RenderBody
    <3>3. Post!Body(502, TRUE, -1) => reply'.status = 502
      BY DEF Post!Body
    <3>4. reply' = reply => reply'.status = 0
      BY <3>1
    <3>5. reply'.status = 0 \/ reply'.status = 502
      BY <3>2, <3>3, <3>4, Zenon
    <3> QED
      BY <3>5, Zenon
  <2> QED
    BY <1>6, <2>1
<1>12. CASE Post!serveResponsesFixture
  <2>1. CASE fixture.status \notin 200..299 /\ Post!Serve("body")
    <3>1. reply'.status # 200
      BY <2>1 DEF Post!Serve
    <3> QED
      BY <1>6, <3>1
  <2>2. CASE Post!Body(502, TRUE, -1)
    <3>1. reply'.status # 200
      BY <2>2 DEF Post!Body
    <3> QED
      BY <1>6, <3>1
  <2>3. CASE Post!Completed(fixture.events) # "none" /\ Post!Serve(Post!Completed(fixture.events)) /\ fixture.match = "found"
    <3>1. fixture.events \in MCEvents
      BY <1>0, <2>3 DEF PostHolds
    <3> DEFINE e == fixture.events  r == Post!Completed(e)
    <3>2. reply'.frames[1].kind = r
      BY <2>3 DEF Post!Serve, Post!Frame
    <3>3. \E i \in DOMAIN e :
           /\ e[i].response = r
           /\ e[i].type = "response.completed"
           /\ \A j \in DOMAIN e : j > i => ~(e[j].type = "response.completed" /\ e[j].object)
      BY <2>3, <3>1, LastCompletes
    <3>4. Post!ServesLastCompleted'
      BY <1>2, <3>2, <3>3 DEF Post!ServesLastCompleted
    <3> QED
      BY <1>4, <3>4 DEF PostHolds
  <2>4. CASE fixture.match # "found"
    BY <1>6, <2>4
  <2> QED
    BY <1>12, <2>1, <2>2, <2>3, <2>4, Zenon DEF Post!serveResponsesFixture
<1>13. CASE Post!generate
  <2>1. pc = "route"
    BY <1>13 DEF Post!generate, Post!At
  <2>2. fixture.match = "found" => ~Fixtured
    BY <2>1 DEF CostInv
  <2>3. fixture.match = "found" => used'["match"] # 1
    BY <1>0, <1>3, <2>1, <2>2 DEF PostHolds
  <2> QED
    BY <1>6, <2>3
<1>14. CASE Post!ClientLeaves \/ Post!Done
  BY <1>7, <1>14 DEF Post!ClientLeaves, Post!Done, Post!vars
<1> QED
  BY <1>9, <1>10, <1>11, <1>12, <1>13, <1>14
     DEF Post!Next, Post!Handle, Post!renderFixtureBody, Post!handleResponsesPost, Post!Force, Post!Refuse, Post!Admit, Post!At

(* What makes a reply well-formed, on all routes.                          *)
FormInv == UsageInv /\ NestInv /\ CloseInv /\ EarlyInv /\ PostInv

(* The reply has not begun.                                                *)
LEMMA InitFormInv == AnyInit => FormInv
<1> SUFFICES ASSUME AnyInit PROVE FormInv
  OBVIOUS
<1> DEFINE none == [status |-> 0, media |-> "none", zolem |-> FALSE, frames |-> <<>>]
<1>1. reply = none /\ alive = TRUE /\ todo = <<>> /\ pc \in {"start", "done"}
  BY Zenon DEF AnyInit, OpenAI!ExchangeInit, Anthropic!ExchangeInit, Gemini!ExchangeInit, Ollama!ExchangeInit,
         Post!ExchangeInit, Judge!Init, Judge!ExchangeInit, NoExchange, Routes
<1>2. route # "socket" => pc = "start"
  BY Zenon DEF AnyInit, OpenAI!ExchangeInit, Anthropic!ExchangeInit, Gemini!ExchangeInit, Ollama!ExchangeInit,
         Post!ExchangeInit, Judge!Init, Judge!ExchangeInit, NoExchange, Routes
<1>3. Flow = <<>> /\ Streamed /\ DOMAIN Flow = {} /\ Flow \in Seq(StreamFrame) /\ reply.status = 0
  BY <1>1 DEF Flow, Streamed
<1>4. UsageInv
  <2>1. UsageLast(Flow)
    BY <1>3 DEF UsageLast
  <2> QED
    BY <1>2, <2>1 DEF UsageInv, UsageHolds, Streams
<1>5. NestInv
  BY <1>2, <1>3 DEF NestInv, NestHolds, Streams
<1>6. CloseInv
  <2>1. reply.media = "none"
    BY <1>1
  <2> QED
    BY <1>2, <1>3, <2>1 DEF CloseInv, CloseHolds
<1>7. EarlyInv
  BY <1>3 DEF EarlyInv, EarlyHolds
<1>8. PostInv
  <2> SUFFICES ASSUME route = "post" PROVE PostHolds
    BY DEF PostInv
  <2>1. fixture \in PostFixtures
    BY DEF AnyInit, Post!ExchangeInit
  <2>2. used["match"] = 0
    BY <1>2, InitCostInv DEF CostInv, Costs
  <2> QED
    BY <1>3, <2>1, <2>2, PostFixturesHold DEF PostHolds, Post!ServesLastCompleted
<1> QED
  BY <1>4, <1>5, <1>6, <1>7, <1>8 DEF FormInv

(* Each route keeps its own part; the others do not say anything of it.    *)
LEMMA NextFormInv == ASSUME CostInv, ReplyInv, Given, FormInv, [AnyNext]_avars PROVE FormInv'
<1> USE DEF FormInv
<1>1. UNCHANGED route
  BY DEF AnyNext, avars
<1>2. ASSUME route # "openai" PROVE UsageInv'
  BY <1>1, <1>2 DEF UsageInv
<1>3. ASSUME route # "anthropic" PROVE NestInv'
  BY <1>1, <1>3 DEF NestInv
<1>4. ASSUME route # "gemini" PROVE CloseInv'
  BY <1>1, <1>4 DEF CloseInv
<1>5. ASSUME route # "ollama" PROVE EarlyInv'
  BY <1>1, <1>5 DEF EarlyInv
<1>6. ASSUME route # "post" PROVE PostInv'
  BY <1>1, <1>6 DEF PostInv
<1>7. CASE UNCHANGED avars
  <2>1. UNCHANGED <<route, req, profile, fixture, pc, text, reply, todo, used, alive>>
    BY <1>7 DEF avars, xvars
  <2>2. Flow' = Flow /\ Streamed' = Streamed /\ Fixtured' = Fixtured
    BY <2>1 DEF Flow, Streamed, Fixtured
  <2>3. UsageInv'
    <3>1. UsageLast(Flow)' = UsageLast(Flow) /\ NoUsage(Flow)' = NoUsage(Flow)
      BY <2>2 DEF UsageLast, NoUsage, Pieces
    <3> QED
      BY <2>1, <2>2, <3>1 DEF UsageInv, UsageHolds
  <2>5. NestInv'
    <3>2. IsMessage(Flow, Len(Flow))' = IsMessage(Flow, Len(Flow))
      BY <2>2 DEF IsMessage
    <3>3. (\E m : IsMessage(Flow, m))' = \E m : IsMessage(Flow, m)
      BY <2>2 DEF IsMessage
    <3> QED
      BY <2>1, <2>2, <3>2, <3>3 DEF NestInv, NestHolds
  <2>6. CloseInv'
    <3>1. (Gemini!Media)' = Gemini!Media
      BY <2>1 DEF Gemini!Media
    <3> QED
      BY <2>1, <2>2, <3>1 DEF CloseInv, CloseHolds
  <2>4. EarlyInv' /\ PostInv'
    BY <2>1, <2>2 DEF EarlyInv, EarlyHolds, PostInv, PostHolds, Post!ServesLastCompleted
  <2> QED
    BY <2>3, <2>4, <2>5, <2>6
<1>8. CASE AnyNext
  <2>1. CASE route = "openai"
    BY <1>1, <1>3, <1>4, <1>5, <1>6, <1>8, <2>1, OpenAIUsage DEF AnyNext
  <2>2. CASE route = "anthropic"
    BY <1>1, <1>2, <1>4, <1>5, <1>6, <1>8, <2>2, AnthropicNest DEF AnyNext
  <2>3. CASE route = "gemini"
    BY <1>1, <1>2, <1>3, <1>5, <1>6, <1>8, <2>3, GeminiClose DEF AnyNext
  <2>4. CASE route = "ollama"
    BY <1>1, <1>2, <1>3, <1>4, <1>6, <1>8, <2>4, OllamaFailsInTime DEF AnyNext
  <2>5. CASE route = "post"
    BY <1>1, <1>2, <1>3, <1>4, <1>5, <1>8, <2>5, PostServes DEF AnyNext
  <2>6. CASE route \notin {"openai", "anthropic", "gemini", "ollama", "post"}
    BY <1>2, <1>3, <1>4, <1>5, <1>6, <2>6
  <2> QED
    BY <2>1, <2>2, <2>3, <2>4, <2>5, <2>6
<1> QED
  BY <1>7, <1>8

(* Every reply is well-formed in its own protocol, at every write of it:   *)
(* OpenAI's usage counts the deltas that were sent, Anthropic's blocks     *)
(* nest, Gemini's array closes, an error never comes first in Gemini's and *)
(* Ollama's streams, nor anything after Ollama's end, and a fixture of     *)
(* events answers with the last that completes a response.                 *)
THEOREM RepliesAreWellFormed == AnySpec => []WellFormed
<1>1. AnyInit => FormInv
  BY InitFormInv
<1>2. CostInv /\ ReplyInv /\ Given /\ FormInv /\ [AnyNext]_avars => FormInv'
  BY NextFormInv
<1>3. CostInv /\ ReplyInv /\ FormInv => WellFormed
  <2> SUFFICES ASSUME CostInv, ReplyInv, FormInv PROVE WellFormed
    OBVIOUS
  <2>1. route \in Routes /\ (route = "post" => Post!ServesLastCompleted)
    BY DEF CostInv, FormInv, PostInv, PostHolds
  <2> QED
    BY <2>1, UsageIsCount, NestIsNesting, CloseIsClosed, FailuresAreInTime DEF WellFormed, FormInv, Routes
<1> QED
  BY <1>1, <1>2, <1>3, ReplyInvariance, PTL DEF AnySpec, avars

-----------------------------------------------------------------------------
(* Sums over the sets of two or three names that judgments have.  A fold   *)
(* takes the elements of a set in the order of its choice.                 *)
Pick(s) == CHOOSE x \in s : TRUE
Folds(S, f, g) == g = [s \in SUBSET S |-> IF s = {} THEN 0 ELSE f[Pick(s)] + g[s \ {Pick(s)}]]

(* Whatever the order, it adds all.                                        *)
LEMMA FoldIsSum ==
  ASSUME NEW S, NEW f, NEW g, Folds(S, f, g), NEW a \in S, NEW b \in S, NEW c \in S, a # b,
         S = {a, b} \/ (S = {a, b, c} /\ c # a /\ c # b), \A x \in S : f[x] \in Int
  PROVE  g[S] = IF S = {a, b} THEN f[a] + f[b] ELSE f[a] + f[b] + f[c]
<1>1. g[{}] = 0
  BY DEF Folds
<1>2. ASSUME NEW s, s \subseteq S, s # {} PROVE \E x \in s : g[s] = f[x] + g[s \ {x}]
  <2>1. Pick(s) \in s
    BY <1>2 DEF Pick
  <2>2. s \in SUBSET S
    BY <1>2
  <2>3. g[s] = f[Pick(s)] + g[s \ {Pick(s)}]
    BY <1>2, <2>2 DEF Folds
  <2> QED
    BY <2>1, <2>3
<1>3. ASSUME NEW x \in S PROVE g[{x}] = f[x]
  <2>1. PICK y \in {x} : g[{x}] = f[y] + g[{x} \ {y}]
    BY <1>2
  <2>2. y = x /\ {x} \ {y} = {}
    BY <2>1
  <2>3. g[{x} \ {y}] = 0 /\ f[x] \in Int
    BY <1>1, <2>2
  <2> QED
    BY <2>1, <2>2, <2>3
<1>4. ASSUME NEW x \in S, NEW y \in S, x # y PROVE g[{x, y}] = f[x] + f[y]
  <2>1. PICK z \in {x, y} : g[{x, y}] = f[z] + g[{x, y} \ {z}]
    BY <1>2
  <2>2. CASE z = x
    <3>1. {x, y} \ {z} = {y}
      BY <1>4, <2>2
    <3> QED
      BY <1>3, <2>1, <2>2, <3>1
  <2>3. CASE z = y
    <3>1. {x, y} \ {z} = {x}
      BY <1>4, <2>3
    <3>2. g[{x, y} \ {z}] = f[x] /\ f[x] \in Int /\ f[y] \in Int
      BY <1>3, <3>1
    <3> QED
      BY <2>1, <2>3, <3>2
  <2> QED
    BY <2>1, <2>2, <2>3
<1>5. ASSUME c # a, c # b PROVE g[{a, b, c}] = f[a] + f[b] + f[c]
  <2>1. PICK z \in {a, b, c} : g[{a, b, c}] = f[z] + g[{a, b, c} \ {z}]
    BY <1>2
  <2>2. CASE z = a
    <3>1. {a, b, c} \ {z} = {b, c}
      BY <1>5, <2>2
    <3>2. g[{a, b, c} \ {z}] = f[b] + f[c] /\ f[a] \in Int /\ f[b] \in Int /\ f[c] \in Int
      BY <1>4, <1>5, <3>1
    <3> QED
      BY <2>1, <2>2, <3>2
  <2>3. CASE z = b
    <3>1. {a, b, c} \ {z} = {a, c}
      BY <1>5, <2>3
    <3>2. g[{a, b, c} \ {z}] = f[a] + f[c] /\ f[a] \in Int /\ f[b] \in Int /\ f[c] \in Int
      BY <1>4, <1>5, <3>1
    <3> QED
      BY <2>1, <2>3, <3>2
  <2>4. CASE z = c
    <3>1. {a, b, c} \ {z} = {a, b}
      BY <1>5, <2>4
    <3>2. g[{a, b, c} \ {z}] = f[a] + f[b] /\ f[a] \in Int /\ f[b] \in Int /\ f[c] \in Int
      BY <1>4, <1>5, <3>1
    <3> QED
      BY <2>1, <2>4, <3>2
  <2> QED
    BY <2>1, <2>2, <2>3, <2>4
<1>6. CASE S = {a, b}
  BY <1>4, <1>6
<1>7. CASE S = {a, b, c} /\ c # a /\ c # b
  <2>1. S # {a, b}
    BY <1>7
  <2> QED
    BY <1>5, <1>7, <2>1
<1> QED
  BY <1>6, <1>7

(* There is such a fold: the sum of what is there.                         *)
LEMMA FoldExists ==
  ASSUME NEW S, NEW f, NEW a \in S, NEW b \in S, NEW c \in S, a # b, S = {a, b} \/ (S = {a, b, c} /\ c # a /\ c # b),
         \A x \in S : f[x] \in Int
  PROVE  \E g : Folds(S, f, g)
<1> DEFINE v(s, x) == IF x \in s THEN f[x] ELSE 0
           w(s) == IF S = {a, b} THEN 0 ELSE v(s, c)
           g == [s \in SUBSET S |-> v(s, a) + v(s, b) + w(s)]
<1>1. ASSUME NEW s, s \subseteq S PROVE g[s] = IF s = {} THEN 0 ELSE f[Pick(s)] + g[s \ {Pick(s)}]
  <2> DEFINE p == Pick(s)  t == s \ {p}
  <2>1. g[s] = v(s, a) + v(s, b) + w(s)
    BY <1>1
  <2>2. t \subseteq S
    BY <1>1
  <2>3. g[t] = v(t, a) + v(t, b) + w(t)
    BY <2>2
  <2>4. CASE s = {}
    BY <2>1, <2>4
  <2>5. CASE s # {}
    <3>1. p \in s
      BY <2>5 DEF Pick
    <3> HIDE DEF g, p
    <3>2. p \in S /\ f[a] \in Int /\ f[b] \in Int /\ f[c] \in Int
      BY <1>1, <3>1
    <3>6. v(s, a) \in Int /\ v(s, b) \in Int /\ w(s) \in Int /\ g[s] = v(s, a) + v(s, b) + w(s) /\ g[t] = v(t, a) + v(t, b) + w(t)
      BY <2>1, <2>3, <3>2
    <3>7. g[s] = f[p] + g[t] => g[s] = IF s = {} THEN 0 ELSE f[Pick(s)] + g[s \ {Pick(s)}]
      BY <2>5 DEF p
    <3> SUFFICES g[s] = f[p] + g[t]
      BY <3>7
    <3>3. CASE p = a
      <4>1. v(s, a) = f[a] /\ v(t, a) = 0 /\ v(t, b) = v(s, b) /\ w(t) = w(s)
        BY <3>1, <3>3
      <4>2. v(s, b) \in Int /\ w(s) \in Int
        BY <3>2
      <4> HIDE DEF v, w, t
      <4> QED
        BY <3>2, <3>3, <3>6, <4>1, <4>2
    <3>4. CASE p = b
      <4>1. v(s, b) = f[b] /\ v(t, b) = 0 /\ v(t, a) = v(s, a) /\ w(t) = w(s)
        BY <3>1, <3>4
      <4>2. v(s, a) \in Int /\ w(s) \in Int
        BY <3>2
      <4> HIDE DEF v, w, t
      <4> QED
        BY <3>2, <3>4, <3>6, <4>1, <4>2
    <3>5. CASE p = c /\ p # a /\ p # b
      <4>1. w(s) = f[c] /\ w(t) = 0 /\ v(t, a) = v(s, a) /\ v(t, b) = v(s, b)
        BY <3>1, <3>2, <3>5
      <4>2. v(s, a) \in Int /\ v(s, b) \in Int
        BY <3>2
      <4> HIDE DEF v, w, t
      <4> QED
        BY <3>2, <3>5, <3>6, <4>1, <4>2
    <3>8. p = a \/ p = b \/ (p = c /\ p # a /\ p # b)
      BY <3>2
    <3> QED
      BY <3>3, <3>4, <3>5, <3>8
  <2> QED
    BY <2>4, <2>5
<1>2. g = [s \in SUBSET S |-> IF s = {} THEN 0 ELSE f[Pick(s)] + g[s \ {Pick(s)}]]
  <2>1. \A s \in SUBSET S : g[s] = IF s = {} THEN 0 ELSE f[Pick(s)] + g[s \ {Pick(s)}]
    BY <1>1
  <2>2. g = [s \in SUBSET S |-> g[s]]
    OBVIOUS
  <2> HIDE DEF g
  <2> QED
    BY <2>1, <2>2
<1>3. Folds(S, f, g)
  BY <1>2 DEF Folds
<1> HIDE DEF g
<1> QED
  BY <1>3

(* And so is a total.                                                      *)
LEMMA TotalIs ==
  ASSUME NEW f, NEW S, S = DOMAIN f, NEW a \in S, NEW b \in S, NEW c \in S, a # b,
         S = {a, b} \/ (S = {a, b, c} /\ c # a /\ c # b), \A x \in S : f[x] \in Int
  PROVE  Judge!Total(f) = IF S = {a, b} THEN f[a] + f[b] ELSE f[a] + f[b] + f[c]
<1> DEFINE iter == CHOOSE g : Folds(S, f, g)
<1>1. Judge!Total(f) = iter[S]
  BY DEF Judge!Total, Judge!MapThenSumSet, Judge!MapThenFoldSet, Folds, Pick
<1>2. \E g : Folds(S, f, g)
  BY FoldExists
<1>3. Folds(S, f, iter)
  BY <1>2
<1> HIDE DEF iter
<1>4. iter[S] = IF S = {a, b} THEN f[a] + f[b] ELSE f[a] + f[b] + f[c]
  BY <1>3, FoldIsSum
<1> QED
  BY <1>1, <1>4

(* A score is its levels, each by its number, weighed by their             *)
(* probabilities.                                                          *)
LEMMA PositionIs ==
  ASSUME NEW q, NEW p, Len(q.options) \in {2, 3}, p["0"] \in Int, p["1"] \in Int, Len(q.options) = 3 => p["2"] \in Int
  PROVE  /\ Len(q.options) = 2 => Judge!Position(q, p) = p["1"]
         /\ Len(q.options) = 3 => Judge!Position(q, p) = p["1"] + 2 * p["2"]
<1> DEFINE S == 1..Len(q.options)
           f == [i \in S |-> (i - 1) * p[Judge!Levels[i]]]
           iter == CHOOSE g : g = [s \in SUBSET S |-> IF s = {} THEN 0 ELSE (((CHOOSE x \in s : TRUE) - 1) * p[Judge!Levels[CHOOSE x \in s : TRUE]]) + g[s \ {CHOOSE x \in s : TRUE}]]
<1>1. Judge!Position(q, p) = iter[S]
  BY DEF Judge!Position, Judge!MapThenSumSet, Judge!MapThenFoldSet
<1>2. iter = CHOOSE g : Folds(S, f, g)
  <2>1. ASSUME NEW g PROVE (g = [s \in SUBSET S |-> IF s = {} THEN 0 ELSE (((CHOOSE x \in s : TRUE) - 1) * p[Judge!Levels[CHOOSE x \in s : TRUE]]) + g[s \ {CHOOSE x \in s : TRUE}]])
                           <=> Folds(S, f, g)
    <3>1. ASSUME NEW s \in SUBSET S, s # {} PROVE (Pick(s) - 1) * p[Judge!Levels[Pick(s)]] = f[Pick(s)]
      <4>1. Pick(s) \in s
        BY <3>1 DEF Pick
      <4> QED
        BY <4>1
    <3>2. [s \in SUBSET S |-> IF s = {} THEN 0 ELSE ((Pick(s) - 1) * p[Judge!Levels[Pick(s)]]) + g[s \ {Pick(s)}]]
            = [s \in SUBSET S |-> IF s = {} THEN 0 ELSE f[Pick(s)] + g[s \ {Pick(s)}]]
      <4> HIDE DEF f, S
      <4> QED
        BY <3>1
    <3> QED
      BY <3>2 DEF Folds, Pick
  <2> HIDE DEF f, S
  <2> QED
    BY <2>1
<1>3. CASE Len(q.options) = 2
  <2>1. S = {1, 2} /\ 1 \in S /\ 2 \in S /\ 1 # 2
    BY <1>3
  <2>2. Judge!Levels[1] = "0" /\ Judge!Levels[2] = "1"
    BY DEF Judge!Levels
  <2>3. f[1] = 0 * p["0"] /\ f[2] = 1 * p["1"] /\ 0 * p["0"] = 0 /\ 1 * p["1"] = p["1"]
    BY <2>1, <2>2
  <2> HIDE DEF S, f, iter
  <2>4. \A x \in S : f[x] \in Int
    BY <2>1, <2>3
  <2>5. iter[S] = f[1] + f[2]
    <3>1. \E g : Folds(S, f, g)
      BY <2>1, <2>4, FoldExists
    <3>2. Folds(S, f, iter)
      BY <1>2, <3>1
    <3> QED
      BY <2>1, <2>4, <3>2, FoldIsSum
  <2> QED
    BY <1>1, <1>3, <2>3, <2>5
<1>4. CASE Len(q.options) = 3
  <2>1. S = {1, 2, 3} /\ 1 \in S /\ 2 \in S /\ 3 \in S /\ 1 # 2 /\ 3 # 1 /\ 3 # 2 /\ S # {1, 2}
    BY <1>4
  <2>2. Judge!Levels[1] = "0" /\ Judge!Levels[2] = "1" /\ Judge!Levels[3] = "2"
    BY DEF Judge!Levels
  <2>3. f[1] = 0 * p["0"] /\ f[2] = 1 * p["1"] /\ f[3] = 2 * p["2"] /\ 0 * p["0"] = 0 /\ 1 * p["1"] = p["1"] /\ 2 * p["2"] \in Int
    BY <1>4, <2>1, <2>2
  <2> HIDE DEF S, f, iter
  <2>4. \A x \in S : f[x] \in Int
    BY <2>1, <2>3
  <2>5. iter[S] = f[1] + f[2] + f[3]
    <3>1. \E g : Folds(S, f, g)
      BY <2>1, <2>4, FoldExists
    <3>2. Folds(S, f, iter)
      BY <1>2, <3>1
    <3> QED
      BY <2>1, <2>4, <3>2, FoldIsSum
  <2> QED
    BY <1>1, <1>4, <2>3, <2>5
<1> QED
  BY <1>3, <1>4

(* What judgments ask, of what and with which answers of fixtures.         *)
Questions == Alone \cup {AB, Scored, Q("noul", <<>>), Q("choice", <<"a">>)}

(* Every request of a judgment asks some of these.                         *)
LEMMA JudgeRequestsAsk == ASSUME NEW r \in JudgeRequests, NEW k \in DOMAIN r.questions PROVE r.questions[k] \in Questions
<1>1. \A qs \in QuestionMaps : \A j \in DOMAIN qs : qs[j] \in Questions
  BY DEF QuestionMaps, Questions
<1>2. r.questions \in QuestionMaps \/ r.questions = [j \in {"q1"} |-> AB]
  BY DEF JudgeRequests
<1>3. CASE r.questions \in QuestionMaps
  BY <1>1, <1>3
<1>4. CASE r.questions = [j \in {"q1"} |-> AB]
  BY <1>4 DEF Questions
<1> QED
  BY <1>2, <1>3, <1>4

(* Sets of one, two and three names.                                       *)
LEMMA JudgeCounts == \A S : Judge!Cardinality(S) = Cardinality(S)
BY DEF Judge!Cardinality, Cardinality

(* One, two and three names that differ are as many.                       *)
LEMMA SmallSets ==
  ASSUME NEW a, NEW b, NEW c, a # b, a # c, b # c
  PROVE  /\ IsFiniteSet({a}) /\ Cardinality({a}) = 1
         /\ IsFiniteSet({a, b}) /\ Cardinality({a, b}) = 2
         /\ IsFiniteSet({a, b, c}) /\ Cardinality({a, b, c}) = 3
<1>1. IsFiniteSet({a}) /\ Cardinality({a}) = 1
  BY FS_Singleton
<1>2. {a, b} = {a} \cup {b} /\ b \notin {a} /\ {a, b, c} = {a, b} \cup {c} /\ c \notin {a, b}
  OBVIOUS
<1>3. IsFiniteSet({a, b}) /\ Cardinality({a, b}) = 1 + 1
  <2>1. IsFiniteSet({a} \cup {b}) /\ Cardinality({a} \cup {b}) = Cardinality({a}) + 1
    BY <1>1, <1>2, FS_AddElement
  <2> QED
    BY <1>1, <1>2, <2>1
<1>4. IsFiniteSet({a, b, c}) /\ Cardinality({a, b, c}) = 2 + 1
  <2>1. IsFiniteSet({a, b} \cup {c}) /\ Cardinality({a, b} \cup {c}) = Cardinality({a, b}) + 1
    BY <1>2, <1>3, FS_AddElement
  <2> QED
    BY <1>2, <1>3, <2>1
<1> QED
  BY <1>1, <1>3, <1>4

(* Two names that differ are two.                                          *)
LEMMA PairSet == ASSUME NEW a, NEW b, a # b PROVE IsFiniteSet({a, b}) /\ Cardinality({a, b}) = 2
<1>1. IsFiniteSet({a}) /\ Cardinality({a}) = 1
  BY FS_Singleton
<1>2. {a, b} = {a} \cup {b} /\ b \notin {a}
  OBVIOUS
<1>3. IsFiniteSet({a} \cup {b}) /\ Cardinality({a} \cup {b}) = Cardinality({a}) + 1
  BY <1>1, <1>2, FS_AddElement
<1> QED
  BY <1>1, <1>2, <1>3

(* Three different things are three.                                       *)
LEMMA TripleSet == ASSUME NEW a, NEW b, NEW c, a # b, a # c, b # c PROVE Cardinality({a, b, c}) = 3
BY SmallSets, ZenonT(30)

(* The questions, by type and options.                                     *)
LEMMA QuestionsAre ==
  ASSUME NEW q \in Questions
  PROVE  \/ q.type = "choice" /\ q.options \in {<<"a", "b">>, <<"a", "b", "c">>, <<"a">>, <<"a", "b", "a">>, <<"a", "a">>}
         \/ q.type = "score" /\ q.options \in {<<"x", "y", "z">>, <<"x">>, <<"x", "x">>}
         \/ q.type \in {"noul", "other"}
<1>1. \A t, o : Q(t, o).type = t /\ Q(t, o).options = o
  BY DEF Q
<1>2. \/ \E o \in {<<"a", "b">>, <<"a", "b", "c">>, <<"a">>, <<"a", "b", "a">>, <<"a", "a">>} : q = Q("choice", o)
      \/ \E o \in {<<"x", "y", "z">>, <<"x">>, <<"x", "x">>} : q = Q("score", o)
      \/ q \in {Q("noul", <<>>), Q("other", <<>>)}
  BY Zenon DEF Questions, Alone, AB, Scored
<1>3. CASE \E o \in {<<"a", "b">>, <<"a", "b", "c">>, <<"a">>, <<"a", "b", "a">>, <<"a", "a">>} : q = Q("choice", o)
  <2>1. PICK o \in {<<"a", "b">>, <<"a", "b", "c">>, <<"a">>, <<"a", "b", "a">>, <<"a", "a">>} : q = Q("choice", o)
    BY <1>3
  <2>2. q.type = "choice" /\ q.options = o
    BY <1>1, <2>1
  <2> QED
    BY <2>1, <2>2
<1>4. CASE \E o \in {<<"x", "y", "z">>, <<"x">>, <<"x", "x">>} : q = Q("score", o)
  <2>1. PICK o \in {<<"x", "y", "z">>, <<"x">>, <<"x", "x">>} : q = Q("score", o)
    BY <1>4
  <2>2. q.type = "score" /\ q.options = o
    BY <1>1, <2>1
  <2> QED
    BY <2>1, <2>2
<1>5. CASE q \in {Q("noul", <<>>), Q("other", <<>>)}
  BY <1>1, <1>5, Zenon
<1> QED
  BY <1>2, <1>3, <1>4, <1>5

(* The names of two levels, and of three.                                  *)
LEMMA LevelsAre ==
  /\ SubSeq(Judge!Levels, 1, 2) = <<"0", "1">>
  /\ SubSeq(Judge!Levels, 1, 3) = <<"0", "1", "2">>
<1> DEFINE l == <<"0", "1", "2">>  t == SubSeq(l, 1, 2)  u == SubSeq(l, 1, 3)
<1>1. l \in Seq({"0", "1", "2"}) /\ Len(l) = 3 /\ l[1] = "0" /\ l[2] = "1" /\ l[3] = "2"
  OBVIOUS
<1>2. Judge!Levels = l
  BY DEF Judge!Levels
<1> HIDE DEF l
<1>3. t \in Seq({"0", "1", "2"}) /\ Len(t) = 2 /\ t[1] = "0" /\ t[2] = "1"
  BY <1>1
<1>4. u \in Seq({"0", "1", "2"}) /\ Len(u) = 3 /\ u[1] = "0" /\ u[2] = "1" /\ u[3] = "2"
  BY <1>1
<1> HIDE DEF t, u
<1>5. t = <<"0", "1">> /\ u = <<"0", "1", "2">>
  BY <1>3, <1>4
<1> QED
  BY <1>2, <1>5 DEF t, u

(* A question that can be answered has two or three names, all different   *)
(* unless a choice repeats one.                                            *)
Named(names) ==
  \/ Len(names) = 2 /\ \E a, b : a # b /\ names = <<a, b>>
  \/ Len(names) = 3 /\ \E a, b, c : a # b /\ a # c /\ b # c /\ names = <<a, b, c>>

(* Such are the names of a question that no option repeats.                *)
LEMMA NamesAre ==
  ASSUME NEW q \in Questions, q.type # "noul", Judge!Answerable(q), ~(q.type = "choice" /\ Judge!HasRepeats(q))
  PROVE  /\ q.type \in {"choice", "score"} /\ Named(Judge!Names(q)) /\ Len(Judge!Names(q)) = Len(q.options)
         /\ q.type = "score" => Judge!Names(q) = IF Len(q.options) = 2 THEN <<"0", "1">> ELSE <<"0", "1", "2">>
<1>1. q.type \in {"choice", "score"}
  BY DEF Judge!Answerable
<1>2. CASE q.type = "score"
  <2>1. q.options \in {<<"x", "y", "z">>, <<"x">>, <<"x", "x">>} /\ Len(q.options) \in 2..10
    BY <1>2, QuestionsAre DEF Judge!Answerable, Judge!scoreLevels
  <2>2. Len(q.options) \in {2, 3}
    BY <2>1
  <2>3. Judge!Names(q) = IF Len(q.options) = 2 THEN <<"0", "1">> ELSE <<"0", "1", "2">>
    BY <1>2, <2>2, LevelsAre DEF Judge!Names, Judge!levelIndices
  <2>4. Named(Judge!Names(q)) /\ Len(Judge!Names(q)) = Len(q.options)
    <3>1. CASE Len(q.options) = 2
      BY <2>3, <3>1 DEF Named
    <3>2. CASE Len(q.options) = 3
      BY <2>3, <3>2 DEF Named
    <3> QED
      BY <2>2, <3>1, <3>2
  <2> QED
    BY <1>2, <2>3, <2>4
<1>3. CASE q.type = "choice"
  <2>1. q.options \in {<<"a", "b">>, <<"a", "b", "c">>, <<"a">>, <<"a", "b", "a">>, <<"a", "a">>} /\ Len(q.options) >= 2
    BY <1>3, QuestionsAre DEF Judge!Answerable, Judge!choiceOptions
  <2>2. Cardinality({q.options[i] : i \in DOMAIN q.options}) = Len(q.options)
    BY <1>3, JudgeCounts DEF Judge!HasRepeats, Judge!Range
  <2>3. "a" # "b" /\ "a" # "c" /\ "b" # "c"
    OBVIOUS
  <2>4. Cardinality({"a"}) = 1 /\ Cardinality({"a", "b"}) = 2
    <3>1. Cardinality({"a"}) = 1
      BY FS_Singleton
    <3>2. Cardinality({"a", "b"}) = 2
      BY <2>3, PairSet
    <3> QED
      BY <3>1, <3>2
  <2>5. q.options # <<"a", "b", "a">>
    <3> SUFFICES ASSUME q.options = <<"a", "b", "a">> PROVE FALSE
      OBVIOUS
    <3> DEFINE C == {q.options[i] : i \in DOMAIN q.options}
    <3>1. C = {"a", "b"} /\ Len(q.options) = 3
      OBVIOUS
    <3> HIDE DEF C
    <3>2. Cardinality(C) = 2
      BY <2>4, <3>1, Zenon
    <3> QED
      BY <2>2, <3>1, <3>2 DEF C
  <2>6. q.options # <<"a", "a">>
    <3> SUFFICES ASSUME q.options = <<"a", "a">> PROVE FALSE
      OBVIOUS
    <3> DEFINE C == {q.options[i] : i \in DOMAIN q.options}
    <3>1. C = {"a"} /\ Len(q.options) = 2
      OBVIOUS
    <3> HIDE DEF C
    <3>2. Cardinality(C) = 1
      BY <2>4, <3>1, Zenon
    <3> QED
      BY <2>2, <3>1, <3>2 DEF C
  <2>7. q.options # <<"a">>
    BY <2>1
  <2>8. Judge!Names(q) = q.options
    BY <1>3 DEF Judge!Names
  <2>9. CASE q.options = <<"a", "b">>
    BY <1>3, <2>3, <2>8, <2>9 DEF Named
  <2>10. CASE q.options = <<"a", "b", "c">>
    BY <1>3, <2>3, <2>8, <2>10 DEF Named
  <2> QED
    BY <2>1, <2>5, <2>6, <2>7, <2>9, <2>10
<1> QED
  BY <1>1, <1>2, <1>3

(* A distribution by position, of two or three names.                      *)
Spread(p, n) ==
  /\ p \in [1..n -> 0..60]
  /\ (n = 2 /\ p[1] + p[2] = 60) \/ (n = 3 /\ p[1] + p[2] + p[3] = 60)

(* What is kept by name is what was made by position.                      *)
LEMMA ByNameIs ==
  ASSUME NEW names, Named(names), NEW p
  PROVE  /\ DOMAIN Judge!ByName(names, p) = {names[i] : i \in DOMAIN names} /\ DOMAIN names = 1..Len(names)
         /\ \A i \in DOMAIN names : Judge!ByName(names, p)[names[i]] = p[i]
         /\ \A i, j \in DOMAIN names : names[i] = names[j] => i = j
<1>1. DOMAIN names = 1..Len(names) /\ \A i, j \in DOMAIN names : names[i] = names[j] => i = j
  <2>1. CASE \E a, b : a # b /\ names = <<a, b>>
    BY <2>1
  <2>2. CASE \E a, b, c : a # b /\ a # c /\ b # c /\ names = <<a, b, c>>
    <3>1. PICK a, b, c : a # b /\ a # c /\ b # c /\ names = <<a, b, c>>
      BY <2>2
    <3>2. DOMAIN names = 1..3 /\ Len(names) = 3 /\ names[1] = a /\ names[2] = b /\ names[3] = c
      BY <3>1
    <3>3. \A i \in 1..3 : i = 1 \/ i = 2 \/ i = 3
      OBVIOUS
    <3> QED
      BY <3>1, <3>2, <3>3
  <2> QED
    BY <2>1, <2>2 DEF Named
<1>2. Judge!Range(names) = {names[i] : i \in DOMAIN names}
  BY DEF Judge!Range
<1>3. ASSUME NEW i \in DOMAIN names PROVE Judge!ByName(names, p)[names[i]] = p[i]
  <2> DEFINE c == CHOOSE k \in DOMAIN names : names[k] = names[i] /\ \A j \in DOMAIN names : names[j] = names[i] => j <= k
  <2>1. i \in Int /\ i <= i
    BY <1>1
  <2>2. \E k \in DOMAIN names : names[k] = names[i] /\ \A j \in DOMAIN names : names[j] = names[i] => j <= k
    BY <1>1, <2>1
  <2>3. c \in DOMAIN names /\ names[c] = names[i]
    BY <2>2
  <2>4. c = i
    BY <1>1, <2>3
  <2> HIDE DEF c
  <2>5. Judge!ByName(names, p)[names[i]] = p[c]
    BY <1>2 DEF Judge!ByName, c
  <2> QED
    BY <2>4, <2>5
<1> QED
  BY <1>1, <1>2, <1>3 DEF Judge!ByName

(* One of two or three is likeliest.                                       *)
LEMMA MaxAtIs ==
  ASSUME NEW f, NEW S, S = DOMAIN f, NEW a \in S, NEW b \in S, NEW c \in S, S = {a, b, c}, \A x \in S : f[x] \in Int
  PROVE  Judge!MaxAt(f) \in S /\ \A l \in S : f[l] <= f[Judge!MaxAt(f)]
<1>1. \E k \in S : \A l \in S : f[l] <= f[k]
  <2>1. f[a] \in Int /\ f[b] \in Int /\ f[c] \in Int
    OBVIOUS
  <2>2. CASE f[a] >= f[b] /\ f[a] >= f[c]
    BY <2>1, <2>2
  <2>3. CASE f[b] >= f[a] /\ f[b] >= f[c]
    BY <2>1, <2>3
  <2>4. CASE f[c] >= f[a] /\ f[c] >= f[b]
    BY <2>1, <2>4
  <2> QED
    BY <2>1, <2>2, <2>3, <2>4
<1> QED
  BY <1>1 DEF Judge!MaxAt

(* So such a distribution passes for one of the names.                     *)
LEMMA SpreadHolds ==
  ASSUME NEW names, Named(names), NEW p, Spread(p, Len(names))
  PROVE  LET b == Judge!ByName(names, p) IN
           /\ Judge!validateProbabilities(b, names) /\ \A o \in DOMAIN b : b[o] \in 0..60
           /\ Judge!MaxAt(b) \in DOMAIN b /\ \A o \in DOMAIN b : b[o] <= b[Judge!MaxAt(b)]
<1> DEFINE b == Judge!ByName(names, p)  S == {names[i] : i \in DOMAIN names}
<1>1. /\ DOMAIN b = S /\ DOMAIN names = 1..Len(names)
      /\ \A i \in DOMAIN names : b[names[i]] = p[i]
  BY ByNameIs
<1>2. p \in [1..Len(names) -> 0..60]
  BY DEF Spread
<1>3. \A o \in S : b[o] \in 0..60
  <2> HIDE DEF b
  <2>1. ASSUME NEW o \in S PROVE b[o] \in 0..60
    <3>1. PICK i \in DOMAIN names : o = names[i]
      OBVIOUS
    <3>2. i \in 1..Len(names) /\ b[o] = p[i]
      BY <1>1, <3>1
    <3> QED
      BY <1>2, <3>2
  <2> QED
    BY <2>1
<1>4. \A o \in S : b[o] \in Int
  BY <1>3
<1>5. Judge!Range(names) = S
  BY DEF Judge!Range
<1>6. CASE Len(names) = 2 /\ \E x, y : x # y /\ names = <<x, y>>
  <2>1. PICK x, y : x # y /\ names = <<x, y>>
    BY <1>6
  <2>2. S = {x, y} /\ x \in S /\ y \in S /\ b[x] = p[1] /\ b[y] = p[2] /\ p[1] + p[2] = 60
    BY <1>1, <1>6, <2>1 DEF Spread
  <2> HIDE DEF b, S
  <2>3. Cardinality(S) = 2
    <3>1. Cardinality({x, y}) = 2
      BY <2>1, PairSet
    <3> QED
      BY <2>2, <3>1, Zenon
  <2>4. Judge!Total(b) = b[x] + b[y]
    BY <1>1, <1>4, <2>1, <2>2, TotalIs
  <2>5. Judge!MaxAt(b) \in S /\ \A l \in S : b[l] <= b[Judge!MaxAt(b)]
    <3>1. S = {x, y, y}
      BY <2>2
    <3>2. S = DOMAIN b /\ x \in S /\ y \in S /\ \A o \in S : b[o] \in Int
      BY <1>1, <1>4, <2>2
    <3> QED
      BY <3>1, <3>2, MaxAtIs, ZenonT(30)
  <2>6. Judge!Total(b) = 60 /\ Judge!Cardinality(S) = Len(names)
    BY <1>6, <2>2, <2>3, <2>4, JudgeCounts
  <2>7. Judge!validateProbabilities(b, names)
    BY <1>1, <1>3, <1>5, <2>6 DEF Judge!validateProbabilities, Judge!Unit
  <2> QED
    BY <1>1, <1>3, <2>5, <2>7 DEF b
<1>7. CASE Len(names) = 3 /\ \E x, y, z : x # y /\ x # z /\ y # z /\ names = <<x, y, z>>
  <2>1. PICK x, y, z : x # y /\ x # z /\ y # z /\ names = <<x, y, z>>
    BY <1>7
  <2>2. S = {x, y, z} /\ x \in S /\ y \in S /\ z \in S /\ b[x] = p[1] /\ b[y] = p[2] /\ b[z] = p[3] /\ p[1] + p[2] + p[3] = 60
    BY <1>1, <1>7, <2>1 DEF Spread
  <2> HIDE DEF b, S
  <2>3. Cardinality(S) = 3
    <3>1. Cardinality({x, y, z}) = 3
      BY <2>1, TripleSet, Zenon
    <3> QED
      BY <2>2, <3>1, Zenon
  <2>4. Judge!Total(b) = b[x] + b[y] + b[z]
    <3>1. S # {x, y} /\ z # x /\ z # y
      BY <2>1, <2>2
    <3> QED
      BY <1>1, <1>4, <2>1, <2>2, <3>1, TotalIs
  <2>5. Judge!MaxAt(b) \in S /\ \A l \in S : b[l] <= b[Judge!MaxAt(b)]
    <3>1. S = {x, y, z} /\ S = DOMAIN b /\ x \in S /\ y \in S /\ z \in S /\ \A o \in S : b[o] \in Int
      BY <1>1, <1>4, <2>2
    <3> QED
      BY <3>1, MaxAtIs, ZenonT(30)
  <2>6. Judge!Total(b) = 60 /\ Judge!Cardinality(S) = Len(names)
    BY <1>7, <2>2, <2>3, <2>4, JudgeCounts
  <2>7. Judge!validateProbabilities(b, names)
    BY <1>1, <1>3, <1>5, <2>6 DEF Judge!validateProbabilities, Judge!Unit
  <2> QED
    BY <1>1, <1>3, <2>5, <2>7 DEF b
<1> QED
  BY <1>6, <1>7 DEF Named

(* Shares of a whole of one to six parts are exact.                        *)
LEMMA SharesAre ==
  ASSUME NEW t \in 1..6, NEW x \in 0..2, x <= t
  PROVE  (x * 60) \div t \in 0..60 /\ t * ((x * 60) \div t) = x * 60
<1>1. t = 1 \/ t = 2 \/ t = 3 \/ t = 4 \/ t = 5 \/ t = 6
  OBVIOUS
<1>2. x = 0 \/ x = 1 \/ x = 2
  OBVIOUS
<1>3. CASE x = 0
  BY <1>1, <1>3
<1>4. CASE x = 1
  BY <1>1, <1>4
<1>5. CASE x = 2
  BY <1>1, <1>5
<1> QED
  BY <1>2, <1>3, <1>4, <1>5

(* Together they are the whole.                                            *)
LEMMA PartsAre ==
  ASSUME NEW t \in 1..6, NEW x \in Int, NEW y \in Int, NEW z \in Int, t = x + y + z,
         NEW a \in Int, NEW b \in Int, NEW c \in Int, t * a = x * 60, t * b = y * 60, t * c = z * 60
  PROVE  a + b + c = 60
<1>1. CASE t = 1
  BY <1>1
<1>2. CASE t = 2
  BY <1>2
<1>3. CASE t = 3
  BY <1>3
<1>4. CASE t = 4
  BY <1>4
<1>5. CASE t = 5
  BY <1>5
<1>6. CASE t = 6
  BY <1>6
<1> QED
  BY <1>1, <1>2, <1>3, <1>4, <1>5, <1>6

(* The total of two names.                                                 *)
LEMMA TwoTotal ==
  ASSUME NEW w, NEW S, S = DOMAIN w, NEW x \in S, NEW y \in S, x # y, S = {x, y}, \A i \in S : w[i] \in Int
  PROVE  Judge!Total(w) = w[x] + w[y]
BY TotalIs

(* The total of a distribution by two positions.                           *)
LEMMA PairTotal == ASSUME NEW w, NEW S, S = DOMAIN w, S = {1, 2}, \A x \in S : w[x] \in Int PROVE Judge!Total(w) = w[1] + w[2]
<1> DEFINE x == 1  y == 2
<1>1. x \in S /\ y \in S /\ x # y /\ S = {x, y}
  OBVIOUS
<1> HIDE DEF x, y
<1>3. Judge!Total(w) = w[x] + w[y]
  BY <1>1, TwoTotal, Zenon
<1> QED
  BY <1>3 DEF x, y

(* The total of a distribution by three positions.                         *)
LEMMA TripleTotal ==
  ASSUME NEW w, NEW S, S = DOMAIN w, S = {1, 2, 3}, \A x \in S : w[x] \in Int PROVE Judge!Total(w) = w[1] + w[2] + w[3]
<1> DEFINE x == 1  y == 2  z == 3
<1>1. x \in S /\ y \in S /\ z \in S /\ x # y /\ z # x /\ z # y /\ S = {x, y, z} /\ S # {x, y}
  OBVIOUS
<1> HIDE DEF x, y, z
<1>2. Judge!Total(w) = IF S = {x, y} THEN w[x] + w[y] ELSE w[x] + w[y] + w[z]
  BY <1>1, TotalIs, Zenon
<1>3. Judge!Total(w) = w[x] + w[y] + w[z]
  BY <1>1, <1>2, Zenon
<1> QED
  BY <1>3 DEF x, y, z

(* So the shares of two weights are a whole.                               *)
LEMMA PairParts ==
  ASSUME NEW x \in 0..2, NEW y \in 0..2, NEW t, t = x + y, t # 0
  PROVE  (x * 60) \div t \in 0..60 /\ (y * 60) \div t \in 0..60 /\ (x * 60) \div t + (y * 60) \div t = 60
<1> DEFINE a == (x * 60) \div t  b == (y * 60) \div t
<1>1. t \in 1..6 /\ x <= t /\ y <= t /\ x \in Int /\ y \in Int /\ 0 \in Int /\ t = x + y + 0 /\ t * 0 = 0 * 60
  OBVIOUS
<1>2. a \in 0..60 /\ t * a = x * 60 /\ b \in 0..60 /\ t * b = y * 60
  BY <1>1, SharesAre
<1> HIDE DEF a, b
<1>3. a \in Int /\ b \in Int
  BY <1>2
<1>4. a + b + 0 = 60
  BY <1>1, <1>2, <1>3, PartsAre
<1> QED
  BY <1>2, <1>3, <1>4 DEF a, b
(* So weights of at most two make a distribution, whatever their sum.      *)
LEMMA NormalizedIs ==
  ASSUME NEW n \in {2, 3}, NEW w \in [1..n -> 0..2]
  PROVE  Spread(Judge!Normalized(w), n)
<1> DEFINE S == 1..n
<1>1. S = DOMAIN w /\ (\A x \in S : w[x] \in Int) /\ Len(w) = n
  OBVIOUS
<1>2. CASE n = 2
  <2>1. Judge!Total(w) = w[1] + w[2]
    <3>1. S = {1, 2}
      BY <1>2
    <3> HIDE DEF S
    <3> QED
      BY <1>1, <3>1, PairTotal
  <2>2. w[1] \in 0..2 /\ w[2] \in 0..2 /\ DOMAIN w = 1..2
    BY <1>2
  <2>3. CASE w[1] + w[2] = 0
    <3>1. Judge!Normalized(w) = [i \in 1..2 |-> 30]
      BY <1>1, <1>2, <2>1, <2>3 DEF Judge!Normalized, Judge!Unit
    <3> QED
      BY <1>2, <3>1 DEF Spread
  <2>4. CASE w[1] + w[2] # 0
    <3> DEFINE x == w[1]  y == w[2]  t == x + y
           a == (x * 60) \div t  b == (y * 60) \div t
    <3>1. Judge!Normalized(w) = [i \in 1..2 |-> (w[i] * 60) \div t]
      BY <1>1, <1>2, <2>1, <2>4 DEF Judge!Normalized, Judge!Unit
    <3>2. a \in 0..60 /\ b \in 0..60 /\ a + b = 60
      <4>1. x \in 0..2 /\ y \in 0..2 /\ t = x + y /\ t # 0
        BY <2>2, <2>4
      <4> HIDE DEF x, y, t
      <4> QED
        BY <4>1, PairParts
    <3>3. Judge!Normalized(w)[1] = a /\ Judge!Normalized(w)[2] = b
      BY <3>1
    <3>4. Judge!Normalized(w) = [i \in 1..2 |-> IF i = 1 THEN a ELSE b]
      BY <3>1
    <3> HIDE DEF a, b
    <3> QED
      BY <1>2, <3>2, <3>4 DEF Spread
  <2> QED
    BY <2>3, <2>4
<1>3. CASE n = 3
  <2>1. Judge!Total(w) = w[1] + w[2] + w[3]
    <3>1. S = {1, 2, 3}
      BY <1>3
    <3> HIDE DEF S
    <3> QED
      BY <1>1, <3>1, TripleTotal
  <2>2. w[1] \in 0..2 /\ w[2] \in 0..2 /\ w[3] \in 0..2 /\ DOMAIN w = 1..3
    BY <1>3
  <2>3. CASE w[1] + w[2] + w[3] = 0
    <3>1. Judge!Normalized(w) = [i \in 1..3 |-> 20]
      BY <1>1, <1>3, <2>1, <2>3 DEF Judge!Normalized, Judge!Unit
    <3> QED
      BY <1>3, <3>1 DEF Spread
  <2>4. CASE w[1] + w[2] + w[3] # 0
    <3> DEFINE x == w[1]  y == w[2]  z == w[3]  t == x + y + z
           a == (x * 60) \div t  b == (y * 60) \div t  c == (z * 60) \div t
    <3>1. Judge!Normalized(w) = [i \in 1..3 |-> (w[i] * 60) \div t]
      BY <1>1, <1>3, <2>1, <2>4 DEF Judge!Normalized, Judge!Unit
    <3>2. a \in 0..60 /\ b \in 0..60 /\ c \in 0..60 /\ a + b + c = 60
      <4>1. x \in 0..2 /\ y \in 0..2 /\ z \in 0..2 /\ t = x + y + z /\ t # 0
        BY <2>2, <2>4
      <4> HIDE DEF x, y, z, t
      <4>2. t \in 1..6 /\ x <= t /\ y <= t /\ z <= t /\ x \in Int /\ y \in Int /\ z \in Int
        BY <4>1
      <4>3. a \in 0..60 /\ t * a = x * 60 /\ b \in 0..60 /\ t * b = y * 60 /\ c \in 0..60 /\ t * c = z * 60
        BY <4>1, <4>2, SharesAre
      <4> HIDE DEF a, b, c
      <4>4. a \in Int /\ b \in Int /\ c \in Int
        BY <4>3
      <4>5. a + b + c = 60
        BY <4>1, <4>2, <4>3, <4>4, PartsAre
      <4> QED
        BY <4>3, <4>5
    <3>4. Judge!Normalized(w) = [i \in 1..3 |-> IF i = 1 THEN a ELSE IF i = 2 THEN b ELSE c]
      BY <3>1
    <3> HIDE DEF a, b, c
    <3> QED
      BY <1>3, <3>2, <3>4 DEF Spread
  <2> QED
    BY <2>3, <2>4
<1> QED
  BY <1>2, <1>3

(* What the generator answers with is one too, and the first is likeliest. *)
LEMMA SkewedIs ==
  ASSUME NEW n \in {2, 3}
  PROVE  LET p == Judge!skewedDistribution(n) IN Spread(p, n) /\ p[1] = 54 /\ \A i \in 1..n : p[i] <= p[1]
<1>1. CASE n = 2
  <2>1. Judge!skewedDistribution(n) = [i \in 1..2 |-> IF i = 1 THEN 54 ELSE 6]
    BY <1>1 DEF Judge!skewedDistribution
  <2> QED
    BY <1>1, <2>1 DEF Spread
<1>2. CASE n = 3
  <2>1. Judge!skewedDistribution(n) = [i \in 1..3 |-> IF i = 1 THEN 54 ELSE 3]
    BY <1>2 DEF Judge!skewedDistribution
  <2> QED
    BY <1>2, <2>1 DEF Spread
<1> QED
  BY <1>1, <1>2

(* The gate, question by question.                                         *)
Fits(q, a) ==
  /\ a.type = q.type /\ a.type \in {"noul", "choice", "score"}
  /\ a.type = "noul" => a.noul \in 0..60
  /\ a.type = "choice" => Judge!validateChoiceAnswer(q, a)
  /\ a.type = "score" => Judge!validateScoreAnswer(q, a)

(* ValidateAnswers asks of every question that its answer fits.            *)
LEMMA GateIs ==
  ASSUME NEW qs, NEW as
  PROVE  Judge!ValidateAnswers(qs, as) <=> DOMAIN qs = DOMAIN as /\ \A k \in DOMAIN qs : Fits(qs[k], as[k])
<1>1. ASSUME NEW k PROVE (CASE as[k].type = "noul"   -> as[k].noul \in 0..60
                            [] as[k].type = "choice" -> Judge!validateChoiceAnswer(qs[k], as[k])
                            [] as[k].type = "score"  -> Judge!validateScoreAnswer(qs[k], as[k])
                            [] OTHER                 -> FALSE)
            <=> /\ as[k].type \in {"noul", "choice", "score"}
                /\ as[k].type = "noul" => as[k].noul \in 0..60
                /\ as[k].type = "choice" => Judge!validateChoiceAnswer(qs[k], as[k])
                /\ as[k].type = "score" => Judge!validateScoreAnswer(qs[k], as[k])
  OBVIOUS
<1> QED
  BY <1>1 DEF Judge!ValidateAnswers, Judge!Unit, Fits

(* A question that is answered with a distribution over its names.         *)
Sound(q) == q \in Questions /\ q.type # "noul" /\ Judge!Answerable(q) /\ ~(q.type = "choice" /\ Judge!HasRepeats(q))

(* An answer made of a distribution fits its question, when it names a     *)
(* likeliest option and a confidence.                                      *)
LEMMA AnswerFits ==
  ASSUME NEW q, Sound(q), NEW p, Spread(p, Len(q.options)), NEW best, NEW confidence \in 0..60,
         best \in DOMAIN Judge!ByName(Judge!Names(q), p),
         \A o \in DOMAIN Judge!ByName(Judge!Names(q), p) : Judge!ByName(Judge!Names(q), p)[o] <= Judge!ByName(Judge!Names(q), p)[best]
  PROVE  Fits(q, Judge!Answer(q, Judge!Names(q), p, best, confidence))
<1> DEFINE names == Judge!Names(q)  b == Judge!ByName(names, p)  a == Judge!Answer(q, names, p, best, confidence)
<1>1. /\ q.type \in {"choice", "score"} /\ Named(names) /\ Len(names) = Len(q.options)
      /\ Judge!Answerable(q)
  BY NamesAre DEF Sound
<1>2. DOMAIN b = Judge!Range(names)
  BY DEF Judge!ByName
<1>3. Judge!validateProbabilities(b, names)
  BY <1>1, SpreadHolds
<1>4. CASE q.type = "choice"
  <2>1. names = q.options /\ Judge!choiceOptions(q)
    BY <1>1, <1>4 DEF Judge!Names, Judge!Answerable
  <2>2. a.type = "choice" /\ a.choice = best /\ a.probabilities = b /\ a.confidence = confidence
    BY <1>4 DEF Judge!Answer, Judge!Blank
  <2> HIDE DEF a, b, names
  <2>3. best \in DOMAIN b /\ \A o \in DOMAIN b : b[o] <= b[best]
    BY DEF b, names
  <2>4. Judge!validateChoiceAnswer(q, a)
    BY <1>2, <1>3, <2>1, <2>2, <2>3 DEF Judge!validateChoiceAnswer, Judge!validateConfidence, Judge!Unit
  <2>5. Fits(q, a)
    BY <1>4, <2>2, <2>4 DEF Fits
  <2> QED
    BY <2>5 DEF a, names
<1>5. CASE q.type = "score"
  <2>1. names = Judge!levelIndices(q) /\ Judge!scoreLevels(q)
    BY <1>1, <1>5 DEF Judge!Names, Judge!Answerable
  <2>2. /\ a.type = "score" /\ a.score = Judge!Position(q, b) /\ a.legend = Judge!Range(names)
        /\ a.probabilities = b /\ a.confidence = confidence
    BY <1>5 DEF Judge!Answer, Judge!Blank
  <2> HIDE DEF a, b, names
  <2>3. Judge!validateScoreAnswer(q, a)
    BY <1>3, <2>1, <2>2 DEF Judge!validateScoreAnswer, Judge!validateConfidence, Judge!Unit
  <2>4. Fits(q, a)
    BY <1>5, <2>2, <2>3 DEF Fits
  <2> QED
    BY <2>4 DEF a, names
<1> QED
  BY <1>1, <1>4, <1>5

(* A distribution by position has a likeliest position.                    *)
LEMMA SpreadMax ==
  ASSUME NEW n \in {2, 3}, NEW p, DOMAIN p = 1..n, \A i \in 1..n : p[i] \in Int
  PROVE  Judge!MaxAt(p) \in 1..n /\ \A i \in 1..n : p[i] <= p[Judge!MaxAt(p)]
<1> DEFINE S == 1..n
<1>1. S = DOMAIN p /\ \A i \in S : p[i] \in Int
  OBVIOUS
<1>2. \E c : 1 \in S /\ 2 \in S /\ c \in S /\ S = {1, 2, c}
  <2>1. CASE n = 2
    BY <2>1
  <2>2. CASE n = 3
    BY <2>2
  <2> QED
    BY <2>1, <2>2
<1>3. \E a, b, c : a \in S /\ b \in S /\ c \in S /\ S = {a, b, c}
  BY <1>2
<1> HIDE DEF S
<1>4. PICK a, b, c : a \in S /\ b \in S /\ c \in S /\ S = {a, b, c}
  BY <1>3
<1>5. Judge!MaxAt(p) \in S /\ \A i \in S : p[i] <= p[Judge!MaxAt(p)]
  BY <1>1, <1>4, MaxAtIs
<1> QED
  BY <1>5 DEF S

(* An answer whose number is missing: what the upstream's weights make     *)
(* when they overflow.  What the generator and the seed make always fits.  *)
Lost(a) == Judge!Missing = IF a.type = "noul" THEN a.noul ELSE a.confidence

(* The generator's answer names the first option, which it favours.        *)
LEMMA LoremFits == ASSUME NEW q, Sound(q), NEW a \in Judge!answerLorem(q) PROVE Fits(q, a)
<1> DEFINE names == Judge!Names(q)  p == Judge!skewedDistribution(Len(q.options))  b == Judge!ByName(names, p)
<1>1. Named(names) /\ Len(names) = Len(q.options) /\ q.type # "noul" /\ Len(names) \in {2, 3}
  BY NamesAre DEF Sound, Named
<1>2. a = Judge!Answer(q, names, p, names[1], b[names[1]])
  BY <1>1 DEF Judge!answerLorem
<1>3. Spread(p, Len(q.options)) /\ p[1] = 54 /\ \A i \in 1..Len(q.options) : p[i] <= p[1]
  BY <1>1, SkewedIs
<1> HIDE DEF names, p
<1>4. /\ DOMAIN b = {names[i] : i \in DOMAIN names} /\ DOMAIN names = 1..Len(names)
      /\ \A i \in DOMAIN names : b[names[i]] = p[i]
  <2>1. Named(names)
    BY <1>1
  <2> QED
    BY <2>1, ByNameIs, Zenon DEF b
<1> HIDE DEF b
<1>5. 1 \in DOMAIN names /\ names[1] \in DOMAIN b /\ b[names[1]] = 54
  <2>1. 1 \in DOMAIN names
    <3>1. DOMAIN names = 1..Len(names)
      BY <1>4, Zenon
    <3>2. Len(names) \in {2, 3}
      BY <1>1, Zenon
    <3>3. 1 \in 1..2 /\ 1 \in 1..3
      OBVIOUS
    <3> QED
      BY <3>1, <3>2, <3>3, Zenon
  <2>2. names[1] \in DOMAIN b /\ b[names[1]] = p[1]
    BY <1>4, <2>1
  <2> QED
    BY <1>3, <2>1, <2>2
<1>6. ASSUME NEW o \in DOMAIN b PROVE b[o] <= b[names[1]]
  <2>1. PICK i \in DOMAIN names : o = names[i]
    BY <1>4
  <2> QED
    BY <1>1, <1>3, <1>4, <1>5, <2>1
<1>7. b[names[1]] \in 0..60
  BY <1>5
<1> QED
  BY <1>2, <1>3, <1>5, <1>6, <1>7, AnswerFits DEF b, names

(* The seeded answer names a likeliest option.                             *)
LEMMA FakerFits == ASSUME NEW q, Sound(q), NEW a \in Judge!answerFaker(q) PROVE Fits(q, a)
<1> DEFINE names == Judge!Names(q)
<1>1. Named(names) /\ Len(names) = Len(q.options) /\ q.type # "noul" /\ Len(names) \in {2, 3}
  BY NamesAre DEF Sound, Named
<1>2. \E w \in [1..Len(q.options) -> 1..2] :
        a = LET b == Judge!ByName(names, Judge!Normalized(w)) IN Judge!Answer(q, names, Judge!Normalized(w), Judge!MaxAt(b), b[Judge!MaxAt(b)])
  BY <1>1, Zenon DEF Judge!answerFaker
<1>3. PICK w \in [1..Len(q.options) -> 1..2] :
        a = LET b == Judge!ByName(names, Judge!Normalized(w)) IN Judge!Answer(q, names, Judge!Normalized(w), Judge!MaxAt(b), b[Judge!MaxAt(b)])
  BY <1>2
<1> DEFINE p == Judge!Normalized(w)  b == Judge!ByName(names, p)
<1>4. w \in [1..Len(q.options) -> 0..2]
  BY <1>3
<1>5. Spread(p, Len(q.options))
  BY <1>1, <1>4, NormalizedIs
<1> HIDE DEF names, p
<1>6. /\ \A o \in DOMAIN b : b[o] \in 0..60
      /\ Judge!MaxAt(b) \in DOMAIN b /\ \A o \in DOMAIN b : b[o] <= b[Judge!MaxAt(b)]
  BY <1>1, <1>5, SpreadHolds
<1>7. a = Judge!Answer(q, names, p, Judge!MaxAt(b), b[Judge!MaxAt(b)])
  BY <1>3 DEF p
<1> QED
  BY <1>5, <1>6, <1>7, AnswerFits DEF names

(* The upstream's numbers do too, unless there is no number left.          *)
LEMMA LogprobFits == ASSUME NEW q, Sound(q), NEW a \in Judge!logprobAnswer(q) PROVE Fits(q, a) \/ Lost(a)
<1> DEFINE names == Judge!Names(q)  n == Len(q.options)
<1>1. Named(names) /\ Len(names) = n /\ q.type # "noul" /\ n \in {2, 3} /\ q.type \in {"choice", "score"}
  BY NamesAre DEF Sound, Named
<1>2. PICK p \in Judge!labelDistribution(n) : a = Judge!Answer(q, names, p, names[Judge!MaxAt(p)], p[Judge!MaxAt(p)])
  BY <1>1, Zenon DEF Judge!logprobAnswer
<1> DEFINE b == Judge!ByName(names, p)
<1>3. CASE p \in {Judge!Normalized(w) : w \in [1..n -> 0..2]}
  <2>1. Spread(p, n)
    BY <1>1, <1>3, NormalizedIs
  <2>2. DOMAIN p = 1..n /\ (\A i \in 1..n : p[i] \in 0..60) /\ \A i \in 1..n : p[i] \in Int
    <3> HIDE DEF n
    <3>1. p \in [1..n -> 0..60]
      BY <2>1 DEF Spread
    <3>2. DOMAIN p = 1..n
      BY <3>1
    <3>3. ASSUME NEW i \in 1..n PROVE p[i] \in 0..60 /\ p[i] \in Int
      <4>1. p[i] \in 0..60
        BY <3>1
      <4>2. \A x \in 0..60 : x \in Int
        OBVIOUS
      <4> QED
        BY <4>1, <4>2
    <3> QED
      BY <3>2, <3>3
  <2> DEFINE m == Judge!MaxAt(p)
  <2>3. m \in 1..n /\ \A i \in 1..n : p[i] <= p[m]
    BY <1>1, <2>2, SpreadMax
  <2>4. /\ DOMAIN b = {names[i] : i \in DOMAIN names} /\ DOMAIN names = 1..Len(names)
        /\ \A i \in DOMAIN names : b[names[i]] = p[i]
    <3> HIDE DEF names
    <3>1. Named(names)
      BY <1>1
    <3> QED
      BY <3>1, ByNameIs, Zenon
  <2> HIDE DEF names, b, m, n
  <2>5. names[m] \in DOMAIN b /\ b[names[m]] = p[m] /\ p[m] \in 0..60
    BY <1>1, <2>2, <2>3, <2>4
  <2>6. ASSUME NEW o \in DOMAIN b PROVE b[o] <= b[names[m]]
    <3>1. PICK i \in DOMAIN names : o = names[i]
      BY <2>4
    <3> QED
      BY <1>1, <2>3, <2>4, <2>5, <3>1
  <2>7. a = Judge!Answer(q, names, p, names[m], p[m])
    BY <1>2 DEF m
  <2>8. Fits(q, a)
    BY <2>1, <2>5, <2>6, <2>7, AnswerFits DEF b, names, n
  <2> QED
    BY <2>8
<1>4. CASE p = [i \in 1..n |-> Judge!Missing]
  <2>1. DOMAIN p = 1..n /\ (\A i \in 1..n : p[i] = -1) /\ \A i \in 1..n : p[i] \in Int
    BY <1>4 DEF Judge!Missing
  <2>2. Judge!MaxAt(p) \in 1..n
    BY <1>1, <2>1, SpreadMax
  <2>3. p[Judge!MaxAt(p)] = -1
    BY <2>1, <2>2
  <2>4. a.type = q.type /\ a.confidence = -1
    BY <1>1, <1>2, <2>3 DEF Judge!Answer, Judge!Blank
  <2> QED
    BY <1>1, <2>4 DEF Lost, Judge!Missing
<1> QED
  BY <1>2, <1>3, <1>4 DEF Judge!labelDistribution

(* The names of a question are finitely many, and so are the probabilities *)
(* that any backend makes.                                                 *)
LEMMA NamesFinite ==
  ASSUME NEW q \in Questions, q.type # "noul", Judge!Answerable(q)
  PROVE  IsFiniteSet(Judge!Range(Judge!Names(q)))
<1>1. CASE q.type = "choice"
  <2>1. q.options \in {<<"a", "b">>, <<"a", "b", "c">>, <<"a">>, <<"a", "b", "a">>, <<"a", "a">>} /\ Judge!Names(q) = q.options
    BY <1>1, QuestionsAre DEF Judge!Names
  <2>2. Judge!Range(Judge!Names(q)) \subseteq {"a", "b", "c"}
    BY <2>1 DEF Judge!Range
  <2>3. "a" # "b" /\ "a" # "c" /\ "b" # "c"
    OBVIOUS
  <2>4. IsFiniteSet({"a", "b", "c"})
    BY <2>3, SmallSets
  <2> QED
    BY <2>2, <2>4, FS_Subset
<1>2. CASE q.type = "score"
  <2>1. ~(q.type = "choice" /\ Judge!HasRepeats(q))
    BY <1>2
  <2>2. Judge!Names(q) = IF Len(q.options) = 2 THEN <<"0", "1">> ELSE <<"0", "1", "2">>
    BY <1>2, <2>1, NamesAre
  <2>3. Judge!Range(Judge!Names(q)) \subseteq {"0", "1", "2"}
    BY <2>2 DEF Judge!Range
  <2>4. "0" # "1" /\ "0" # "2" /\ "1" # "2"
    OBVIOUS
  <2>5. IsFiniteSet({"0", "1", "2"})
    BY <2>4, SmallSets
  <2> QED
    BY <2>3, <2>5, FS_Subset
<1> QED
  BY <1>1, <1>2 DEF Judge!Answerable

Finite(a) == IsFiniteSet(DOMAIN a.probabilities)

(* Whatever its distribution, an answer has a probability per name.        *)
LEMMA AnswerFinite ==
  ASSUME NEW q \in Questions, q.type # "noul", Judge!Answerable(q), NEW p, NEW best, NEW confidence
  PROVE  Finite(Judge!Answer(q, Judge!Names(q), p, best, confidence))
<1> DEFINE a == Judge!Answer(q, Judge!Names(q), p, best, confidence)
<1>1. a.probabilities = Judge!ByName(Judge!Names(q), p)
  BY DEF Judge!Answer, Judge!Blank
<1>2. DOMAIN Judge!ByName(Judge!Names(q), p) = Judge!Range(Judge!Names(q))
  BY DEF Judge!ByName
<1> HIDE DEF a
<1>3. Finite(a)
  BY <1>1, <1>2, NamesFinite DEF Finite
<1> QED
  BY <1>3 DEF a

(* An answer without options is one number, or has lost it.                *)
LEMMA NoulAnswers ==
  ASSUME NEW q, q.type = "noul", NEW a \in Judge!answerLorem(q) \cup Judge!answerFaker(q) \cup Judge!logprobAnswer(q)
  PROVE  /\ Finite(a) /\ a.type = "noul" /\ \E n : a = [Judge!Blank EXCEPT !.type = "noul", !.noul = n]
         /\ a \in Judge!answerLorem(q) \cup Judge!answerFaker(q) => Fits(q, a)
         /\ a \in Judge!logprobAnswer(q) => Fits(q, a) \/ Lost(a)
<1>1. ASSUME NEW n, a = [Judge!Blank EXCEPT !.type = "noul", !.noul = n]
      PROVE  a.type = "noul" /\ a.noul = n /\ Finite(a)
  <2>1. a.type = "noul" /\ a.noul = n /\ DOMAIN a.probabilities = {}
    BY <1>1 DEF Judge!Blank, Judge!NoAnswers
  <2> QED
    BY <2>1, FS_EmptySet DEF Finite
<1>2. \E n : a = [Judge!Blank EXCEPT !.type = "noul", !.noul = n]
  <2>1. CASE a \in Judge!answerLorem(q)
    BY <2>1 DEF Judge!answerLorem
  <2>2. CASE a \in Judge!answerFaker(q)
    BY <2>2 DEF Judge!answerFaker
  <2>3. CASE a \in Judge!logprobAnswer(q)
    BY <2>3 DEF Judge!logprobAnswer
  <2> QED
    BY <2>1, <2>2, <2>3
<1>5. ASSUME a \in Judge!answerLorem(q) \cup Judge!answerFaker(q) PROVE Fits(q, a)
  <2>1. PICK n \in {0, 30, 59} : a = [Judge!Blank EXCEPT !.type = "noul", !.noul = n]
    BY <1>5 DEF Judge!answerLorem, Judge!answerFaker
  <2>2. a.type = "noul" /\ a.noul = n
    BY <1>1, <2>1
  <2> QED
    BY <2>1, <2>2 DEF Fits
<1>6. ASSUME a \in Judge!logprobAnswer(q) PROVE Fits(q, a) \/ Lost(a)
  <2>1. PICK p \in Judge!labelDistribution(2) : a = [Judge!Blank EXCEPT !.type = "noul", !.noul = p[1]]
    BY <1>6 DEF Judge!logprobAnswer
  <2>2. a.type = "noul" /\ a.noul = p[1]
    BY <1>1, <2>1
  <2>3. CASE p \in {Judge!Normalized(w) : w \in [1..2 -> 0..2]}
    <3>1. PICK w \in [1..2 -> 0..2] : p = Judge!Normalized(w)
      BY <2>3
    <3>2. Spread(p, 2)
      <4>1. 2 \in {2, 3}
        OBVIOUS
      <4> QED
        BY <3>1, <4>1, NormalizedIs
    <3>3. p[1] \in 0..60
      BY <3>2 DEF Spread
    <3> QED
      BY <2>2, <3>3 DEF Fits
  <2>4. CASE p = [i \in 1..2 |-> Judge!Missing]
    BY <2>2, <2>4 DEF Lost
  <2> QED
    BY <2>1, <2>3, <2>4 DEF Judge!labelDistribution
<1> QED
  BY <1>1, <1>2, <1>5, <1>6

(* A choice that names an option twice.                                    *)
Repeats(q) == q.type = "choice" /\ Judge!HasRepeats(q)

(* Whoever makes it, an answer fits, or has lost its number, or repeats an *)
(* option.                                                                 *)
LEMMA MadeIs ==
  ASSUME NEW q \in Questions, Judge!Answerable(q),
         NEW a \in Judge!answerLorem(q) \cup Judge!answerFaker(q) \cup Judge!logprobAnswer(q)
  PROVE  Finite(a) /\ (Fits(q, a) \/ Lost(a) \/ Repeats(q))
<1>1. CASE q.type = "noul"
  BY <1>1, NoulAnswers
<1>2. CASE q.type # "noul"
  <2>1. Finite(a)
    <3>1. \E p, best, confidence : a = Judge!Answer(q, Judge!Names(q), p, best, confidence)
      <4>1. CASE a \in Judge!answerLorem(q)
        BY <1>2, <4>1, Zenon DEF Judge!answerLorem
      <4>2. CASE a \in Judge!answerFaker(q)
        BY <1>2, <4>2, Zenon DEF Judge!answerFaker
      <4>3. CASE a \in Judge!logprobAnswer(q)
        BY <1>2, <4>3, Zenon DEF Judge!logprobAnswer
      <4> QED
        BY <4>1, <4>2, <4>3
    <3>2. PICK p, best, confidence : a = Judge!Answer(q, Judge!Names(q), p, best, confidence)
      BY <3>1
    <3>3. Finite(Judge!Answer(q, Judge!Names(q), p, best, confidence))
      BY <1>2, AnswerFinite
    <3> QED
      BY <3>2, <3>3
  <2>2. CASE ~Repeats(q)
    <3>1. Sound(q)
      BY <1>2, <2>2 DEF Sound, Repeats
    <3> QED
      BY <2>1, <3>1, LoremFits, FakerFits, LogprobFits
  <2> QED
    BY <2>1, <2>2
<1> QED
  BY <1>1, <1>2

(* What passes the gate is what a client may rely on.                      *)
LEMMA SameSize ==
  ASSUME NEW S, NEW T, T \subseteq S, IsFiniteSet(S), Cardinality(S) = Cardinality(T)
  PROVE  S = T
BY FS_Subset

(* A choice that passes: without a repeated option its domain is exact.    *)
LEMMA ChoiceServes ==
  ASSUME NEW q, NEW a, Finite(a), Judge!validateChoiceAnswer(q, a)
  PROVE  /\ Judge!HasRepeats(q) \/ Judge!Distribution(a.probabilities, Judge!Range(q.options))
         /\ \A o \in Judge!Range(q.options) : a.probabilities[a.choice] >= a.probabilities[o]
<1> DEFINE P == a.probabilities  R == Judge!Range(q.options)
<1>1. /\ Cardinality(DOMAIN P) = Len(q.options) /\ R \subseteq DOMAIN P /\ (\A k \in DOMAIN P : P[k] \in 0..60)
      /\ Judge!Total(P) = 60 /\ a.choice \in R /\ \A o \in R : P[o] <= P[a.choice]
  BY JudgeCounts DEF Judge!validateChoiceAnswer, Judge!validateProbabilities, Judge!Unit
<1>2. Judge!HasRepeats(q) <=> Cardinality(R) # Len(q.options)
  BY JudgeCounts DEF Judge!HasRepeats
<1>3. IsFiniteSet(DOMAIN P)
  BY DEF Finite
<1> HIDE DEF P, R
<1>4. ASSUME ~Judge!HasRepeats(q) PROVE DOMAIN P = R
  BY <1>1, <1>2, <1>3, <1>4, SameSize
<1>5. ASSUME NEW k \in DOMAIN P PROVE P[k] >= 0
  <2>1. P[k] \in 0..60
    BY <1>1
  <2> QED
    BY <2>1
<1>6. ASSUME NEW o \in R PROVE P[a.choice] >= P[o]
  <2>1. P[o] \in 0..60 /\ P[a.choice] \in 0..60 /\ P[o] <= P[a.choice]
    BY <1>1
  <2> QED
    BY <2>1
<1> QED
  BY <1>1, <1>4, <1>5, <1>6 DEF P, R, Judge!Distribution, Judge!Unit

(* Three levels are three.                                                 *)
LEMMA ThreeLevels == Cardinality({"0", "1", "2"}) = 3
<1> DEFINE x == "0"  y == "1"  z == "2"
<1>1. x # y /\ x # z /\ y # z
  OBVIOUS
<1> HIDE DEF x, y, z
<1>2. Cardinality({x, y, z}) = 3
  BY <1>1, TripleSet, Zenon
<1> QED
  BY <1>2 DEF x, y, z

(* The score of two levels is the second's probability.                    *)
LEMMA PositionOfTwo ==
  ASSUME NEW q, NEW p, Len(q.options) = 2, p["0"] \in Int, p["1"] \in Int
  PROVE  Judge!Position(q, p) = p["1"]
<1>1. Len(q.options) \in {2, 3} /\ ~(Len(q.options) = 3)
  OBVIOUS
<1> QED
  BY <1>1, PositionIs

(* The score of three counts the third twice.                              *)
LEMMA PositionOfThree ==
  ASSUME NEW q, NEW p, Len(q.options) = 3, p["0"] \in Int, p["1"] \in Int, p["2"] \in Int
  PROVE  Judge!Position(q, p) = p["1"] + 2 * p["2"]
BY PositionIs

(* A score that passes lies between its levels.                            *)
LEMMA ScoreServes ==
  ASSUME NEW q \in Questions, q.type = "score", NEW a, Finite(a), Judge!validateScoreAnswer(q, a)
  PROVE  /\ Judge!Distribution(a.probabilities, Judge!Range(Judge!levelIndices(q)))
         /\ a.score \in 0..(Judge!Unit * (Len(q.options) - 1))
<1> DEFINE P == a.probabilities  L == Judge!levelIndices(q)  R == Judge!Range(L)
<1>1. /\ Cardinality(DOMAIN P) = Len(L) /\ R \subseteq DOMAIN P /\ (\A k \in DOMAIN P : P[k] \in 0..60)
      /\ Judge!Total(P) = 60 /\ a.score = Judge!Position(q, P)
  BY JudgeCounts DEF Judge!validateScoreAnswer, Judge!validateProbabilities, Judge!Unit
<1>2. /\ L = IF Len(q.options) = 2 THEN <<"0", "1">> ELSE <<"0", "1", "2">>
      /\ Len(L) = Len(q.options) /\ Len(q.options) \in {2, 3}
  <2>1. q.type # "noul" /\ Judge!Answerable(q) /\ ~(q.type = "choice" /\ Judge!HasRepeats(q)) /\ Judge!Names(q) = L
    BY DEF Judge!Answerable, Judge!validateScoreAnswer, Judge!Names
  <2> HIDE DEF L
  <2> QED
    BY <2>1, NamesAre DEF Named
<1>3. IsFiniteSet(DOMAIN P)
  BY DEF Finite
<1> HIDE DEF P
<1>4. ASSUME NEW k \in DOMAIN P PROVE P[k] >= 0
  <2>1. P[k] \in 0..60
    BY <1>1
  <2> QED
    BY <2>1
<1>5. CASE Len(q.options) = 2
  <2>1. R = {"0", "1"} /\ Len(L) = 2
    BY <1>2, <1>5 DEF Judge!Range
  <2> HIDE DEF L, R
  <2>2. Cardinality({"0", "1"}) = 2
    <3>1. "0" # "1"
      OBVIOUS
    <3> QED
      BY <3>1, PairSet
  <2>3. DOMAIN P = R
    <3>1. Cardinality(R) = Cardinality(DOMAIN P)
      BY <1>1, <2>1, <2>2
    <3> QED
      BY <1>1, <1>3, <3>1, SameSize
  <2>4. P["0"] \in 0..60 /\ P["1"] \in 0..60 /\ P["0"] \in Int /\ P["1"] \in Int
    BY <1>1, <2>1, <2>3
  <2>5. a.score = P["1"]
    <3>1. Judge!Position(q, P) = P["1"]
      BY <1>5, <2>4, PositionOfTwo
    <3> QED
      BY <1>1, <3>1
  <2> QED
    BY <1>1, <1>4, <1>5, <2>3, <2>4, <2>5 DEF P, R, L, Judge!Distribution, Judge!Unit
<1>6. CASE Len(q.options) = 3
  <2>1. R = {"0", "1", "2"} /\ Len(L) = 3
    BY <1>2, <1>6 DEF Judge!Range
  <2> HIDE DEF L, R
  <2>2. Cardinality({"0", "1", "2"}) = 3
    BY ThreeLevels
  <2>3. DOMAIN P = R
    <3>1. Cardinality(R) = Cardinality(DOMAIN P)
      BY <1>1, <2>1, <2>2
    <3> QED
      BY <1>1, <1>3, <3>1, SameSize
  <2>4. /\ P["0"] \in 0..60 /\ P["1"] \in 0..60 /\ P["2"] \in 0..60
        /\ P["0"] \in Int /\ P["1"] \in Int /\ P["2"] \in Int
    BY <1>1, <2>1, <2>3
  <2>5. a.score = P["1"] + 2 * P["2"]
    <3>1. Judge!Position(q, P) = P["1"] + 2 * P["2"]
      BY <1>6, <2>4, PositionOfThree
    <3> QED
      BY <1>1, <3>1
  <2>6. Judge!Total(P) = P["0"] + P["1"] + P["2"]
    <3> DEFINE x == "0"  y == "1"  z == "2"
    <3>1. /\ x \in R /\ y \in R /\ z \in R /\ x # y /\ z # x /\ z # y /\ R = {x, y, z} /\ R # {x, y}
          /\ \A k \in R : P[k] \in Int
      BY <2>1, <2>4
    <3> HIDE DEF x, y, z
    <3>2. Judge!Total(P) = P[x] + P[y] + P[z]
      BY <2>3, <3>1, TotalIs
    <3> QED
      BY <3>2 DEF x, y, z
  <2>7. a.score \in 0..120
    <3>1. P["0"] + P["1"] + P["2"] = 60
      BY <1>1, <2>6
    <3> DEFINE x == P["0"]  y == P["1"]  z == P["2"]
    <3>2. x \in 0..60 /\ y \in 0..60 /\ z \in 0..60 /\ x + y + z = 60 /\ a.score = y + 2 * z
      BY <2>4, <2>5, <3>1
    <3> HIDE DEF x, y, z
    <3>3. y + 2 * z \in 0..120
      BY <3>2
    <3> QED
      BY <3>2, <3>3
  <2> QED
    BY <1>1, <1>4, <1>6, <2>3, <2>7 DEF P, R, L, Judge!Distribution, Judge!Unit
<1> QED
  BY <1>2, <1>5, <1>6

(* What a judgment knows of itself: while it is made nothing has failed    *)
(* and nothing is decided; each answer fits its question, or has lost its  *)
(* number, or repeats an option; every question is answered or left; and a *)
(* fixture is only rendered or served where fixtures are used.             *)
Made(q, a) == Finite(a) /\ (Fits(q, a) \/ Lost(a) \/ Repeats(q))
Judging ==
  /\ verdict = "none"
  /\ \A i \in DOMAIN asked : asked[i]
  /\ pc # "stream" => answers = Judge!NoAnswers
  /\ pc = "stream" =>
       /\ left \cup DOMAIN answers = DOMAIN req.questions
       /\ \A k \in DOMAIN answers : Made(req.questions[k], answers[k])
  /\ pc \in {"select", "render", "serve"} => Judge!UsesFixtures
  /\ pc \in {"render", "serve"} => fixture.match = "found"
JudgeInv ==
  route = "systemone" =>
    /\ req \in JudgeRequests /\ fixture \in JudgeFixtures /\ asked \in Seq(BOOLEAN)
    /\ pc # "done" => Judging
    /\ Judge!JudgmentsHold

(* The fixtures that judgments find.                                       *)
LEMMA FixtureAnswersFinite == ASSUME NEW a \in FixtureAnswers PROVE Finite(a)
<1> DEFINE sets == {{}, {"a"}, {"a", "b"}, {"a", "b", "z"}, {"0", "1", "2"}}
<1>1. DOMAIN a.probabilities \in sets
  <2>1. Good = [type |-> "choice", noul |-> Scheme!Missing, choice |-> "a", score |-> Scheme!Missing, legend |-> {},
                probabilities |-> [o \in {"a", "b"} |-> IF o = "a" THEN 40 ELSE 20], confidence |-> 40]
    <3> DEFINE P == [o \in {"a", "b"} |-> IF o = "a" THEN 40 ELSE 20]
    <3>1. Good = [Scheme!Blank EXCEPT !.type = "choice", !.choice = "a", !.confidence = 40, !.probabilities = P]
      BY DEF Good
    <3> HIDE DEF P
    <3>2. Good = [type |-> "choice", noul |-> Scheme!Missing, choice |-> "a", score |-> Scheme!Missing, legend |-> {},
                  probabilities |-> P, confidence |-> 40]
      BY <3>1 DEF Scheme!Blank
    <3> QED
      BY <3>2 DEF P
  <2>2. Scores = [type |-> "score", noul |-> Scheme!Missing, choice |-> "none", score |-> 60, legend |-> {"0", "1", "2"},
                  probabilities |-> [l \in {"0", "1", "2"} |-> 20], confidence |-> 20]
    <3> DEFINE P == [l \in {"0", "1", "2"} |-> 20]  L == {"0", "1", "2"}
    <3>1. Scores = [Scheme!Blank EXCEPT !.type = "score", !.score = 60, !.legend = L, !.confidence = 20, !.probabilities = P]
      BY DEF Scores
    <3> HIDE DEF P, L
    <3>2. Scores = [type |-> "score", noul |-> Scheme!Missing, choice |-> "none", score |-> 60, legend |-> L,
                    probabilities |-> P, confidence |-> 20]
      BY <3>1 DEF Scheme!Blank
    <3> QED
      BY <3>2 DEF P, L
  <2>3. ASSUME a = Good \/ (\E x : a = [Good EXCEPT !.choice = x] \/ a = [Good EXCEPT !.confidence = x] \/ a = [Good EXCEPT !.type = x])
        PROVE  DOMAIN a.probabilities = {"a", "b"}
    BY <2>1, <2>3
  <2>4. ASSUME a = Scores \/ (\E x : a = [Scores EXCEPT !.score = x] \/ a = [Scores EXCEPT !.legend = x])
        PROVE  DOMAIN a.probabilities = {"0", "1", "2"}
    BY <2>2, <2>4
  <2>5. ASSUME NEW p, a = [Good EXCEPT !.probabilities = p] PROVE a.probabilities = p
    BY <2>1, <2>5
  <2>6. ASSUME a = [Good EXCEPT !.probabilities["b"] = 30] PROVE DOMAIN a.probabilities = {"a", "b"}
    BY <2>1, <2>6
  <2>7. ASSUME NEW x, a = [Scheme!Blank EXCEPT !.type = "noul", !.noul = x] PROVE DOMAIN a.probabilities = {}
    BY <2>7 DEF Scheme!Blank, Scheme!NoAnswers
  <2>8. \/ a = Good
        \/ a = Scores
        \/ a = [Good EXCEPT !.choice = "b"]
        \/ a = [Good EXCEPT !.choice = "z"]
        \/ a = [Good EXCEPT !.confidence = Scheme!Missing]
        \/ a = [Good EXCEPT !.probabilities["b"] = 30]
        \/ a = [Good EXCEPT !.probabilities = [o \in {"a"} |-> 60]]
        \/ a = [Good EXCEPT !.probabilities = [o \in {"a", "b", "z"} |-> IF o = "a" THEN 40 ELSE 10]]
        \/ a = [Scores EXCEPT !.score = 30]
        \/ a = [Scores EXCEPT !.legend = {"0"}]
        \/ a = [Good EXCEPT !.type = "noul"]
        \/ a = [Scheme!Blank EXCEPT !.type = "noul", !.noul = 61]
        \/ a = [Scheme!Blank EXCEPT !.type = "noul", !.noul = 60]
    BY Zenon DEF FixtureAnswers
  <2> HIDE DEF sets
  <2>9. CASE a = Good
    BY <2>3, <2>9 DEF sets
  <2>10. CASE a = Scores
    BY <2>4, <2>10 DEF sets
  <2>11. CASE a = [Good EXCEPT !.choice = "b"]
    BY <2>3, <2>11 DEF sets
  <2>12. CASE a = [Good EXCEPT !.choice = "z"]
    BY <2>3, <2>12 DEF sets
  <2>13. CASE a = [Good EXCEPT !.confidence = Scheme!Missing]
    BY <2>3, <2>13 DEF sets
  <2>14. CASE a = [Good EXCEPT !.probabilities["b"] = 30]
    BY <2>6, <2>14 DEF sets
  <2>15. CASE a = [Good EXCEPT !.probabilities = [o \in {"a"} |-> 60]]
    BY <2>5, <2>15 DEF sets
  <2>16. CASE a = [Good EXCEPT !.probabilities = [o \in {"a", "b", "z"} |-> IF o = "a" THEN 40 ELSE 10]]
    BY <2>5, <2>16 DEF sets
  <2>17. CASE a = [Scores EXCEPT !.score = 30]
    BY <2>4, <2>17 DEF sets
  <2>18. CASE a = [Scores EXCEPT !.legend = {"0"}]
    BY <2>4, <2>18 DEF sets
  <2>19. CASE a = [Good EXCEPT !.type = "noul"]
    BY <2>3, <2>19 DEF sets
  <2>20. CASE a = [Scheme!Blank EXCEPT !.type = "noul", !.noul = 61]
    BY <2>7, <2>20 DEF sets
  <2>21. CASE a = [Scheme!Blank EXCEPT !.type = "noul", !.noul = 60]
    BY <2>7, <2>21 DEF sets
  <2> QED
    BY <2>8, <2>9, <2>10, <2>11, <2>12, <2>13, <2>14, <2>15, <2>16, <2>17, <2>18, <2>19, <2>20, <2>21
<1>2. IsFiniteSet({}) /\ IsFiniteSet({"a"}) /\ IsFiniteSet({"a", "b"}) /\ IsFiniteSet({"a", "b", "z"})
  <2>1. "a" # "b" /\ "a" # "z" /\ "b" # "z"
    OBVIOUS
  <2> QED
    BY <2>1, FS_EmptySet, SmallSets
<1>3. IsFiniteSet({"0", "1", "2"})
  <2>1. "0" # "1" /\ "0" # "2" /\ "1" # "2"
    OBVIOUS
  <2> QED
    BY <2>1, SmallSets
<1> QED
  BY <1>1, <1>2, <1>3 DEF Finite

(* Their statuses are those listed, and their answers are finite.          *)
LEMMA JudgeFixturesAre ==
  ASSUME NEW f \in JudgeFixtures
  PROVE  f.status \in {200, 201, 429, 502} /\ \A k \in DOMAIN f.answers : Finite(f.answers[k])
<1>1. \A m, t, c, b, as : LET g == Fixture(m, t, c, b, as) IN g.status = c /\ g.answers = as
  BY DEF Fixture
<1>2. Finite(Good)
  BY FixtureAnswersFinite DEF FixtureAnswers
<1>3. CASE f \in {Fixture(how, "none", 200, "text", Scheme!NoAnswers) : how \in {"none", "exhausted", "failed"}}
  BY <1>1, <1>3 DEF Scheme!NoAnswers
<1>4. CASE f \in {Fixture("found", t, s, b, [k \in {"q1"} |-> Good]) : t \in {"none", "ok", "bad"}, s \in {201, 429, 502}, b \in {"text", "opaque"}}
  BY <1>1, <1>2, <1>4
<1>5. CASE f \in {Fixture("found", "none", 200, "text", [k \in {"q1"} |-> a]) : a \in FixtureAnswers}
  <2>1. PICK a \in FixtureAnswers : f = Fixture("found", "none", 200, "text", [k \in {"q1"} |-> a])
    BY <1>5
  <2> QED
    BY <1>1, <2>1, FixtureAnswersFinite
<1>6. CASE f \in {Fixture("found", "none", 200, "text", [k \in {"q1", "q2"} |-> IF k = "q1" THEN Good ELSE a]) : a \in FixtureAnswers}
  <2>1. PICK a \in FixtureAnswers : f = Fixture("found", "none", 200, "text", [k \in {"q1", "q2"} |-> IF k = "q1" THEN Good ELSE a])
    BY <1>6
  <2> QED
    BY <1>1, <1>2, <2>1, FixtureAnswersFinite
<1> QED
  <2> DEFINE A == {Fixture(how, "none", 200, "text", Scheme!NoAnswers) : how \in {"none", "exhausted", "failed"}}
             B == {Fixture("found", t, s, b, [k \in {"q1"} |-> Good]) : t \in {"none", "ok", "bad"}, s \in {201, 429, 502}, b \in {"text", "opaque"}}
             C == {Fixture("found", "none", 200, "text", [k \in {"q1"} |-> a]) : a \in FixtureAnswers}
             D == {Fixture("found", "none", 200, "text", [k \in {"q1", "q2"} |-> IF k = "q1" THEN Good ELSE a]) : a \in FixtureAnswers}
  <2>1. JudgeFixtures = A \cup B \cup C \cup D
    BY DEF JudgeFixtures
  <2>2. f \in A \/ f \in B \/ f \in C \/ f \in D
    <3> HIDE DEF A, B, C, D
    <3> QED
      BY <2>1
  <2> QED
    BY <1>3, <1>4, <1>5, <1>6, <2>2

(* What passes the gate may be served: question by question, each has one  *)
(* answer of its type.                                                     *)
Serves(q, a) ==
  /\ a.type = q.type /\ (q.type = "noul" => a.noul \in 0..Judge!Unit)
  /\ q.type = "choice" =>
       /\ Judge!HasRepeats(q) \/ Judge!Distribution(a.probabilities, Judge!Range(q.options))
       /\ \A o \in Judge!Range(q.options) : a.probabilities[a.choice] >= a.probabilities[o]
  /\ q.type = "score" =>
       /\ Judge!Distribution(a.probabilities, Judge!Range(Judge!levelIndices(q)))
       /\ a.score \in 0..(Judge!Unit * (Len(q.options) - 1))

(* An answer that fits may be served.                                      *)
LEMMA FitsServes == ASSUME NEW q \in Questions, NEW a, Fits(q, a), Finite(a) PROVE Serves(q, a)
<1>1. a.type = q.type /\ (q.type = "noul" => a.noul \in 0..Judge!Unit)
  BY DEF Fits, Judge!Unit
<1>2. ASSUME q.type = "choice"
      PROVE  /\ Judge!HasRepeats(q) \/ Judge!Distribution(a.probabilities, Judge!Range(q.options))
             /\ \A o \in Judge!Range(q.options) : a.probabilities[a.choice] >= a.probabilities[o]
  <2>1. Judge!validateChoiceAnswer(q, a)
    BY <1>2 DEF Fits
  <2> QED
    BY <2>1, ChoiceServes
<1>3. ASSUME q.type = "score"
      PROVE  /\ Judge!Distribution(a.probabilities, Judge!Range(Judge!levelIndices(q)))
             /\ a.score \in 0..(Judge!Unit * (Len(q.options) - 1))
  <2>1. Judge!validateScoreAnswer(q, a)
    BY <1>3 DEF Fits
  <2> QED
    BY <1>3, <2>1, ScoreServes
<1> QED
  BY <1>1, <1>2, <1>3 DEF Serves

(* And so may all answers that pass.                                       *)
LEMMA GateServes ==
  ASSUME NEW qs, NEW as, \A k \in DOMAIN qs : qs[k] \in Questions, \A k \in DOMAIN as : Finite(as[k]),
         Judge!ValidateAnswers(qs, as)
  PROVE  DOMAIN as = DOMAIN qs /\ \A k \in DOMAIN as : Serves(qs[k], as[k])
BY GateIs, FitsServes

(* What does not pass, though it was made here, has a reason.              *)
LEMMA GateRefuses ==
  ASSUME NEW qs, NEW as, DOMAIN qs = DOMAIN as, \A k \in DOMAIN as : Made(qs[k], as[k]), ~Judge!ValidateAnswers(qs, as)
  PROVE  (\E k \in DOMAIN as : Lost(as[k])) \/ \E k \in DOMAIN qs : Repeats(qs[k])
BY GateIs DEF Made

(* A reply decides the judgment.  Its reasons, as the properties state     *)
(* them: what is served holds, what breaks the contract has a cause, and a *)
(* gateway's status goes with the upstream's failure.                      *)
Causes ==
  \/ fixture.match = "found" /\ Judge!UsesFixtures
  \/ \E k \in DOMAIN answers : Lost(answers[k])
  \/ \E k \in DOMAIN req.questions : Repeats(req.questions[k])
Replied ==
  /\ pc # "done" /\ pc' = "done" /\ UNCHANGED <<req, profile, fixture>>
  /\ verdict' = "answers" => Judge!ServedAnswersHold'
  /\ verdict' = "contract" => Causes'
  /\ \/ asked' = asked /\ (reply'.status # 502 \/ reply'.zolem \/ verdict' = "verbatim")
     \/ asked' = Append(asked, FALSE) /\ reply'.status = 502 /\ ~reply'.zolem
Proceeded ==
  /\ pc # "done" /\ pc' # "done" /\ UNCHANGED <<req, profile, fixture>>
  /\ asked' = asked \/ asked' = Append(asked, TRUE)
  /\ Judging'
Rested == UNCHANGED <<req, profile, fixture, pc, reply, left, answers, asked, verdict>>
JudgeStep == Rested \/ Proceeded \/ Replied

(* A sequence of calls grows by one.                                       *)
LEMMA CallsGrow ==
  ASSUME NEW s \in Seq(BOOLEAN), NEW b \in BOOLEAN, NEW t, t = Append(s, b)
  PROVE  t \in Seq(BOOLEAN) /\ Len(t) = Len(s) + 1 /\ Len(s) \in Nat /\ t[Len(t)] = b /\ \A i \in 1..Len(s) : t[i] = s[i]
OBVIOUS

(* Every such step keeps what a judgment knows.                            *)
LEMMA JudgeStepKeeps ==
  ASSUME route = "systemone", JudgeInv, JudgeStep, UNCHANGED route
  PROVE  JudgeInv'
<1>1. /\ req \in JudgeRequests /\ fixture \in JudgeFixtures /\ asked \in Seq(BOOLEAN)
      /\ (pc # "done" => Judging) /\ Judge!JudgmentsHold
  BY DEF JudgeInv
<1>2. CASE Rested
  <2>1. Judging' <=> Judging
    BY <1>2 DEF Rested, Judging, Judge!UsesFixtures
  <2>2. Judge!JudgmentsHold' <=> Judge!JudgmentsHold
    BY <1>2 DEF Rested, Judge!JudgmentsHold, Judge!ServedAnswersHold, Judge!OnlyOthersViolate, Judge!UpstreamFailureIs502,
       Judge!UsesFixtures
  <2> QED
    BY <1>1, <1>2, <2>1, <2>2 DEF JudgeInv, Rested
<1>3. CASE Proceeded
  <2>1. req' \in JudgeRequests /\ fixture' \in JudgeFixtures /\ pc' # "done" /\ Judging' /\ verdict' = "none"
    BY <1>1, <1>3 DEF Proceeded, Judging
  <2>2. asked' \in Seq(BOOLEAN)
    BY <1>1, <1>3, CallsGrow DEF Proceeded
  <2>3. Judge!JudgmentsHold'
    BY <2>1 DEF Judge!JudgmentsHold, Judge!ServedAnswersHold, Judge!OnlyOthersViolate, Judge!UpstreamFailureIs502
  <2> QED
    BY <2>1, <2>2, <2>3 DEF JudgeInv
<1>4. CASE Replied
  <2>2. /\ req' \in JudgeRequests /\ fixture' \in JudgeFixtures /\ pc' = "done"
        /\ pc # "done" /\ Judging
    BY <1>1, <1>4 DEF Replied
  <2>3. Judge!ServedAnswersHold'
    BY <1>4 DEF Replied, Judge!ServedAnswersHold
  <2>4. Judge!OnlyOthersViolate'
    BY <1>4 DEF Replied, Causes, Judge!OnlyOthersViolate, Lost, Repeats
  <2>5. asked' \in Seq(BOOLEAN) /\ Judge!UpstreamFailureIs502'
    <3>1. \A i \in DOMAIN asked : asked[i]
      BY <2>2 DEF Judging
    <3>2. CASE asked' = asked /\ (reply'.status # 502 \/ reply'.zolem \/ verdict' = "verbatim")
      <4>1. Len(asked) \in Nat /\ DOMAIN asked = 1..Len(asked)
        BY <1>1
      <4> QED
        BY <1>1, <2>2, <3>1, <3>2, <4>1 DEF Judge!UpstreamFailureIs502
    <3>3. CASE asked' = Append(asked, FALSE) /\ reply'.status = 502 /\ ~reply'.zolem
      <4>1. /\ asked' \in Seq(BOOLEAN) /\ Len(asked') = Len(asked) + 1 /\ Len(asked) \in Nat /\ ~asked'[Len(asked')]
            /\ \A i \in 1..Len(asked) : asked'[i] = asked[i]
        BY <1>1, <3>3, CallsGrow
      <4>2. DOMAIN asked' = 1..Len(asked') /\ DOMAIN asked = 1..Len(asked) /\ Len(asked') \in DOMAIN asked'
        BY <1>1, <4>1
      <4>3. ASSUME NEW i \in 1..(Len(asked') - 1) PROVE asked'[i]
        BY <3>1, <4>1, <4>2
      <4> QED
        BY <2>2, <3>3, <4>1, <4>2, <4>3 DEF Judge!UpstreamFailureIs502
    <3> QED
      BY <1>4, <3>2, <3>3 DEF Replied
  <2> QED
    BY <2>2, <2>3, <2>4, <2>5 DEF JudgeInv, Judge!JudgmentsHold
<1> QED
  BY <1>2, <1>3, <1>4 DEF JudgeStep

(* What passes the gate in a step may be served after it.                  *)
LEMMA GateServesThen ==
  ASSUME \A k \in DOMAIN req.questions : req.questions[k] \in Questions,
         \A k \in DOMAIN answers' : Finite(answers'[k]), Judge!ValidateAnswers(req.questions, answers'), UNCHANGED req
  PROVE  Judge!ServedAnswersHold'
<1>1. DOMAIN answers' = DOMAIN req'.questions /\ \A k \in DOMAIN answers' : Serves(req'.questions[k], answers'[k])
  BY GateServes
<1> QED
  BY <1>1 DEF Judge!ServedAnswersHold, Serves

(* Every step of a judgment is one of these: the calls to the upstream all *)
(* succeed but for the last, and the backends make what MadeIs says.       *)
LEMMA JudgeDoes == ASSUME route = "systemone", JudgeInv, Given, Judge!Next PROVE JudgeStep
<1>1. /\ req \in JudgeRequests /\ fixture \in JudgeFixtures /\ asked \in Seq(BOOLEAN)
      /\ (pc # "done" => Judging) /\ profile.errorType \in ErrorTypes \cup {"none"} /\ fixture.match \in Matches
      /\ fixture.status \in {200, 201, 429, 502}
      /\ \A k \in DOMAIN fixture.answers : Finite(fixture.answers[k])
      /\ \A k \in DOMAIN req.questions : req.questions[k] \in Questions
  BY JudgeFixturesAre, JudgeRequestsAsk DEF JudgeInv, Given
<1>2. CASE Judge!Force(Judge!writeForcedProfileError) /\ UNCHANGED jvars
  <2>1. pc' = "done" /\ reply'.status # 502
    BY <1>1, <1>2 DEF Judge!Force, Judge!Forced, Judge!Body, Judge!writeForcedProfileError, ErrorTypes
  <2>2. pc = "start" /\ UNCHANGED <<req, profile, fixture, verdict, asked>> /\ verdict = "none"
    BY <1>1, <1>2 DEF Judge!Force, Judge!At, jvars, Judging
  <2>3. Replied
    BY <2>1, <2>2 DEF Replied
  <2> QED
    BY <2>3 DEF JudgeStep
<1>3. CASE Judge!Refuse(Judge!Checks) /\ UNCHANGED jvars
  <2>1. Judge!FirstFault(Judge!Checks) \in DOMAIN Judge!Checks
    <3>1. DOMAIN Judge!Checks = 1..5 /\ 5 \in 0..6
      BY DEF Judge!Checks
    <3> QED
      BY <1>3, <3>1, FirstIs DEF Judge!Refuse, Judge!Faulty, Judge!FirstFault
  <2>2. \A i \in DOMAIN Judge!Checks : Judge!Checks[i].status # 502
    BY DEF Judge!Checks
  <2>3. pc' = "done" /\ reply'.status # 502
    BY <1>3, <2>1, <2>2 DEF Judge!Refuse, Judge!Body
  <2>4. pc = "start" /\ UNCHANGED <<req, profile, fixture, verdict, asked>> /\ verdict = "none"
    BY <1>1, <1>3 DEF Judge!Refuse, Judge!At, jvars, Judging
  <2>5. Replied
    BY <2>3, <2>4 DEF Replied
  <2> QED
    BY <2>5 DEF JudgeStep
<1>4. CASE Judge!Admit(Judge!Checks) /\ UNCHANGED jvars
  <2>1. /\ pc = "start" /\ UNCHANGED <<req, profile, fixture, verdict, asked, answers>> /\ Judging
        /\ pc' = IF Judge!UsesFixtures THEN "select" ELSE "route"
    BY <1>1, <1>4 DEF Judge!Admit, Judge!At, jvars
  <2>2. Judge!UsesFixtures' <=> Judge!UsesFixtures
    BY <2>1 DEF Judge!UsesFixtures
  <2>3. Proceeded
    BY <2>1, <2>2 DEF Proceeded, Judging
  <2> QED
    BY <2>3 DEF JudgeStep
<1>5. CASE Judge!Match(500) /\ UNCHANGED jvars
  <2>1. pc = "select" /\ UNCHANGED <<req, profile, fixture, verdict, asked, answers>> /\ Judging /\ Judge!UsesFixtures
    BY <1>1, <1>5 DEF Judge!Match, Judge!At, jvars, Judging
  <2>2. Judge!UsesFixtures'
    BY <2>1 DEF Judge!UsesFixtures
  <2>3. CASE fixture.match = "none"
    <3>1. pc' = "route"
      BY <1>5, <2>3, ZenonT(60) DEF Judge!Match
    <3>2. Proceeded
      BY <2>1, <2>2, <3>1 DEF Proceeded, Judging
    <3> QED
      BY <3>2 DEF JudgeStep
  <2>4. CASE fixture.match = "found"
    <3>1. pc' = "render"
      BY <1>5, <2>4 DEF Judge!Match
    <3>2. Proceeded
      BY <2>1, <2>2, <2>4, <3>1 DEF Proceeded, Judging
    <3> QED
      BY <3>2 DEF JudgeStep
  <2>5. CASE fixture.match \in {"exhausted", "failed"}
    <3>1. pc' = "done" /\ reply'.zolem
      <4>1. CASE fixture.match = "exhausted"
        BY <1>5, <4>1 DEF Judge!Match, Judge!Body
      <4>2. CASE fixture.match = "failed"
        BY <1>5, <4>2 DEF Judge!Match, Judge!Body
      <4> QED
        BY <2>5, <4>1, <4>2
    <3>2. Replied
      BY <2>1, <3>1 DEF Replied, Judging
    <3> QED
      BY <3>2 DEF JudgeStep
  <2> QED
    BY <1>1, <2>3, <2>4, <2>5 DEF Matches
<1>6. CASE Judge!renderFixtureBodyBytes
  <2>1. /\ pc = "render" /\ UNCHANGED <<req, profile, fixture, asked, answers>> /\ Judging
        /\ Judge!UsesFixtures /\ fixture.match = "found"
    BY <1>1, <1>6 DEF Judge!renderFixtureBodyBytes, Judge!At, Judging
  <2>2. Judge!UsesFixtures'
    BY <2>1 DEF Judge!UsesFixtures
  <2>3. CASE Judge!Reply(500, "backend")
    <3>1. Replied
      BY <2>1, <2>3 DEF Replied, Judge!Reply, Judge!Body
    <3> QED
      BY <3>1 DEF JudgeStep
  <2>4. CASE pc' = "serve" /\ UNCHANGED <<reply, verdict>>
    <3>1. Proceeded
      BY <2>1, <2>2, <2>4 DEF Proceeded, Judging
    <3> QED
      BY <3>1 DEF JudgeStep
  <2> QED
    BY <1>6, <2>3, <2>4 DEF Judge!renderFixtureBodyBytes
<1>7. CASE Judge!serveFixture
  <2>1. /\ pc = "serve" /\ UNCHANGED <<req, profile, fixture, asked>> /\ Judging
        /\ Judge!UsesFixtures /\ fixture.match = "found"
    BY <1>1, <1>7 DEF Judge!serveFixture, Judge!At, Judging
  <2>2. Judge!UsesFixtures'
    BY <2>1 DEF Judge!UsesFixtures
  <2>3. CASE Judge!Reply(fixture.status, "verbatim") \/ Judge!Reply(500, "backend")
    <3>1. Replied
      <4>1. /\ pc' = "done" /\ verdict' \notin {"answers", "contract"}
            /\ reply'.status = 500 \/ verdict' = "verbatim"
        <5>1. CASE Judge!Reply(fixture.status, "verbatim")
          BY <5>1 DEF Judge!Reply, Judge!Body
        <5>2. CASE Judge!Reply(500, "backend")
          BY <5>2 DEF Judge!Reply, Judge!Body
        <5> QED
          BY <2>3, <5>1, <5>2
      <4>2. reply'.status # 502 \/ verdict' = "verbatim"
        BY <4>1
      <4> QED
        BY <2>1, <4>1, <4>2 DEF Replied
    <3> QED
      BY <3>1 DEF JudgeStep
  <2>4. CASE Judge!Reply(500, "contract")
    <3>1. Replied
      BY <2>1, <2>2, <2>4 DEF Replied, Judge!Reply, Judge!Body, Causes
    <3> QED
      BY <3>1 DEF JudgeStep
  <2>5. CASE /\ answers' = fixture.answers /\ Judge!ValidateAnswers(req.questions, fixture.answers)
             /\ Judge!Reply(fixture.status, "answers") /\ fixture.status \in 200..299
    <3>1. /\ \A k \in DOMAIN req.questions : req.questions[k] \in Questions
          /\ \A k \in DOMAIN answers' : Finite(answers'[k])
      BY <1>1, <2>5
    <3>2. Judge!ServedAnswersHold'
      BY <2>1, <2>5, <3>1, GateServesThen
    <3>3. Replied
      <4>1. pc' = "done" /\ reply'.status = fixture.status /\ verdict' = "answers"
        BY <2>5 DEF Judge!Reply, Judge!Body
      <4>2. reply'.status # 502
        BY <2>5, <4>1
      <4> QED
        BY <2>1, <3>2, <4>1, <4>2 DEF Replied
    <3> QED
      BY <3>3 DEF JudgeStep
  <2> QED
    BY <1>7, <2>3, <2>4, <2>5 DEF Judge!serveFixture
<1>8. CASE Judge!answersForBackend
  <2>1. pc = "route" /\ UNCHANGED <<req, profile, fixture, asked, answers>> /\ Judging /\ answers = Judge!NoAnswers
    BY <1>1, <1>8 DEF Judge!answersForBackend, Judge!At, Judging
  <2>2. CASE Judge!Reply(500, "backend")
    <3>1. Replied
      BY <2>1, <2>2 DEF Replied, Judge!Reply, Judge!Body
    <3> QED
      BY <3>1 DEF JudgeStep
  <2>3. CASE pc' = "stream" /\ left' = DOMAIN req.questions /\ UNCHANGED <<reply, verdict>>
    <3>1. DOMAIN answers' = {} /\ left' \cup DOMAIN answers' = DOMAIN req'.questions
      BY <2>1, <2>3 DEF Judge!NoAnswers
    <3>2. Proceeded
      BY <2>1, <2>3, <3>1 DEF Proceeded, Judging
    <3> QED
      BY <3>2 DEF JudgeStep
  <2> QED
    BY <1>8, <2>2, <2>3 DEF Judge!answersForBackend
<1>9. ASSUME NEW k \in left, Judge!answerOffline(k) \/ Judge!answerUpstream(k) PROVE JudgeStep
  <2> DEFINE q == req.questions[k]
  <2>1. /\ pc = "stream" /\ UNCHANGED <<req, profile, fixture>> /\ Judging
        /\ left \cup DOMAIN answers = DOMAIN req.questions /\ \A j \in DOMAIN answers : Made(req.questions[j], answers[j])
    BY <1>1, <1>9 DEF Judge!answerOffline, Judge!answerUpstream, Judge!At, Judging
  <2>2. k \in DOMAIN req.questions /\ q \in Questions
    BY <1>1, <1>9, <2>1
  <2>3. ASSUME pc' = "done", ~reply'.zolem, verdict' \notin {"answers", "contract"},
               (asked' = asked /\ reply'.status # 502) \/ (asked' = Append(asked, FALSE) /\ reply'.status = 502)
        PROVE  JudgeStep
    <3>1. Replied
      BY <2>1, <2>3 DEF Replied
    <3> QED
      BY <3>1 DEF JudgeStep
  <2>4. ASSUME NEW a, Judge!Answered(k, a), Judge!Answerable(q), asked' = asked \/ asked' = Append(asked, TRUE),
               a \in Judge!answerLorem(q) \cup Judge!answerFaker(q) \cup Judge!logprobAnswer(q)
        PROVE  JudgeStep
    <3>1. Made(q, a)
      BY <2>2, <2>4, MadeIs DEF Made
    <3>2. DOMAIN answers' = DOMAIN answers \cup {k} /\ left' = left \ {k} /\ pc' = "stream" /\ verdict' = "none"
      BY <2>1, <2>4 DEF Judge!Answered, Judging
    <3>3. left' \cup DOMAIN answers' = DOMAIN req'.questions
      BY <1>9, <2>1, <3>2
    <3>4. ASSUME NEW j \in DOMAIN answers' PROVE Made(req'.questions[j], answers'[j])
      <4>1. answers'[j] = IF j = k THEN a ELSE answers[j]
        BY <2>4, <3>2, <3>4 DEF Judge!Answered
      <4> QED
        BY <2>1, <3>1, <3>2, <4>1
    <3>5. \A i \in DOMAIN asked' : asked'[i]
      <4>1. CASE asked' = asked
        BY <2>1, <4>1 DEF Judging
      <4>2. CASE asked' = Append(asked, TRUE)
        <5>1. /\ asked' \in Seq(BOOLEAN) /\ Len(asked') = Len(asked) + 1 /\ Len(asked) \in Nat /\ asked'[Len(asked')]
              /\ \A i \in 1..Len(asked) : asked'[i] = asked[i]
          BY <1>1, <4>2, CallsGrow
        <5>2. DOMAIN asked' = 1..Len(asked') /\ DOMAIN asked = 1..Len(asked)
          BY <1>1, <5>1
        <5> QED
          BY <2>1, <5>1, <5>2 DEF Judging
      <4> QED
        BY <2>4, <4>1, <4>2
    <3>6. Judging'
      BY <3>2, <3>3, <3>4, <3>5 DEF Judging
    <3>7. Proceeded
      BY <2>1, <2>4, <3>2, <3>6 DEF Proceeded
    <3> QED
      BY <3>7 DEF JudgeStep
  <2>5. CASE Judge!answerOffline(k)
    <3>1. asked' = asked
      BY <2>5 DEF Judge!answerOffline
    <3>2. CASE ~Judge!Answerable(q)
      <4>1. Judge!Reply(500, "backend")
        BY <2>5, <3>2, Zenon DEF Judge!answerOffline
      <4>2. pc' = "done" /\ reply'.status # 502 /\ ~reply'.zolem /\ verdict' \notin {"answers", "contract"}
        BY <4>1 DEF Judge!Reply, Judge!Body
      <4> QED
        BY <2>3, <3>1, <4>2
    <3>3. CASE Judge!Answerable(q)
      <4>1. \E a \in Judge!answerLorem(q) \cup Judge!answerFaker(q) : Judge!Answered(k, a)
        BY <2>5, <3>3, Zenon DEF Judge!answerOffline
      <4>2. PICK a \in Judge!answerLorem(q) \cup Judge!answerFaker(q) : Judge!Answered(k, a)
        BY <4>1
      <4> QED
        BY <2>4, <3>1, <3>3, <4>2
    <3> QED
      BY <3>2, <3>3
  <2>6. CASE Judge!answerUpstream(k)
    <3>1. CASE ~Judge!Answerable(q)
      <4>1. Judge!Reply(500, "backend") /\ asked' = asked
        BY <2>6, <3>1, Zenon DEF Judge!answerUpstream
      <4>2. pc' = "done" /\ reply'.status # 502 /\ ~reply'.zolem /\ verdict' \notin {"answers", "contract"}
        BY <4>1 DEF Judge!Reply, Judge!Body
      <4> QED
        BY <2>3, <4>1, <4>2
    <3>2. CASE Judge!Answerable(q)
      <4>1. \E ok \in BOOLEAN : /\ asked' = Append(asked, ok)
                                /\ IF ok THEN \E a \in Judge!logprobAnswer(q) : Judge!Answered(k, a)
                                   ELSE Judge!Reply(502, "upstream") /\ UNCHANGED <<left, answers>>
        BY <2>6, <3>2, Zenon DEF Judge!answerUpstream
      <4>2. \/ asked' = Append(asked, TRUE) /\ \E a \in Judge!logprobAnswer(q) : Judge!Answered(k, a)
            \/ asked' = Append(asked, FALSE) /\ Judge!Reply(502, "upstream")
        BY <4>1, Zenon
      <4>3. CASE asked' = Append(asked, TRUE) /\ \E a \in Judge!logprobAnswer(q) : Judge!Answered(k, a)
        <5>1. PICK a \in Judge!logprobAnswer(q) : Judge!Answered(k, a)
          BY <4>3
        <5> QED
          BY <2>4, <3>2, <4>3, <5>1
      <4>4. CASE asked' = Append(asked, FALSE) /\ Judge!Reply(502, "upstream")
        <5>1. pc' = "done" /\ reply'.status = 502 /\ ~reply'.zolem /\ verdict' \notin {"answers", "contract"}
          BY <4>4 DEF Judge!Reply, Judge!Body
        <5> QED
          BY <2>3, <4>4, <5>1
      <4> QED
        BY <4>2, <4>3, <4>4
    <3> QED
      BY <3>1, <3>2
  <2> QED
    BY <1>9, <2>5, <2>6
<1>10. CASE Judge!respond
  <2>1. /\ pc = "stream" /\ left = {} /\ UNCHANGED <<req, profile, fixture, asked, answers>> /\ Judging
        /\ DOMAIN answers = DOMAIN req.questions /\ \A j \in DOMAIN answers : Made(req.questions[j], answers[j])
    BY <1>1, <1>10 DEF Judge!respond, Judge!At, Judging
  <2>2. CASE Judge!ValidateAnswers(req.questions, answers) /\ Judge!Reply(200, "answers")
    <3>1. /\ \A k \in DOMAIN req.questions : req.questions[k] \in Questions
          /\ \A k \in DOMAIN answers : Finite(answers[k])
      BY <1>1, <2>1 DEF Made
    <3>2. Judge!ServedAnswersHold'
      BY <2>1, <2>2, <3>1, GateServesThen
    <3>3. Replied
      BY <2>1, <2>2, <3>2 DEF Replied, Judge!Reply, Judge!Body
    <3> QED
      BY <3>3 DEF JudgeStep
  <2>3. CASE ~Judge!ValidateAnswers(req.questions, answers) /\ Judge!Reply(500, "contract")
    <3>1. (\E k \in DOMAIN answers : Lost(answers[k])) \/ \E k \in DOMAIN req.questions : Repeats(req.questions[k])
      BY <2>1, <2>3, GateRefuses
    <3>2. Causes'
      BY <2>1, <3>1 DEF Causes
    <3>3. Replied
      BY <2>1, <2>3, <3>2 DEF Replied, Judge!Reply, Judge!Body
    <3> QED
      BY <3>3 DEF JudgeStep
  <2> QED
    BY <1>10, <2>2, <2>3 DEF Judge!respond
<1>11. CASE (Judge!ClientLeaves /\ UNCHANGED jvars) \/ Judge!Done
  BY <1>11 DEF Judge!ClientLeaves, Judge!Done, Judge!allvars, Judge!vars, Judge!jvars, jvars, JudgeStep, Rested
<1>12. UNCHANGED Judge!jvars <=> UNCHANGED jvars
  BY DEF Judge!jvars, jvars
<1>13. CASE \E k \in left : Judge!answerOffline(k)
  BY <1>9, <1>13
<1>14. CASE Judge!FirstTokenLogprobs
  BY <1>9, <1>14 DEF Judge!FirstTokenLogprobs
<1>15. CASE Judge!handleSystemOne \/ Judge!selectFixture
  BY <1>2, <1>3, <1>4, <1>5, <1>12, <1>15 DEF Judge!handleSystemOne, Judge!selectFixture
<1> QED
  BY <1>6, <1>7, <1>8, <1>10, <1>11, <1>12, <1>13, <1>14, <1>15 DEF Judge!Next, Judge!Handle

(* A judgment begins with nothing asked and nothing decided.               *)
LEMMA InitJudgeInv == AnyInit => JudgeInv
<1> SUFFICES ASSUME AnyInit, route = "systemone" PROVE JudgeInv
  BY DEF JudgeInv
<1>1. Judge!Init
  BY DEF AnyInit
<1>2. /\ req \in JudgeRequests /\ fixture \in JudgeFixtures /\ pc = "start" /\ verdict = "none" /\ asked = <<>>
      /\ answers = Judge!NoAnswers
  BY <1>1 DEF Judge!Init, Judge!ExchangeInit
<1>3. asked \in Seq(BOOLEAN) /\ DOMAIN asked = {}
  BY <1>2
<1>4. Judging
  BY <1>2, <1>3 DEF Judging
<1>5. Judge!JudgmentsHold
  BY <1>2 DEF Judge!JudgmentsHold, Judge!ServedAnswersHold, Judge!OnlyOthersViolate, Judge!UpstreamFailureIs502
<1> QED
  BY <1>2, <1>3, <1>4, <1>5 DEF JudgeInv

(* No step of any route unsettles it.                                      *)
LEMMA NextJudgeInv == ASSUME Given, JudgeInv, [AnyNext]_avars PROVE JudgeInv'
<1>1. UNCHANGED route
  BY DEF AnyNext, avars
<1>2. CASE route # "systemone"
  BY <1>1, <1>2 DEF JudgeInv
<1>3. CASE route = "systemone"
  <2>1. CASE UNCHANGED avars
    <3>1. Rested
      BY <2>1 DEF avars, xvars, jvars, Rested
    <3> QED
      BY <1>1, <1>3, <3>1, JudgeStepKeeps DEF JudgeStep
  <2>2. CASE AnyNext
    <3>1. Judge!Next
      BY <1>3, <2>2 DEF AnyNext
    <3> QED
      BY <1>1, <1>3, <3>1, JudgeDoes, JudgeStepKeeps
  <2> QED
    BY <2>1, <2>2
<1> QED
  BY <1>2, <1>3

(* Every judgment holds: what is served is one answer of its type for each *)
(* question, with a distribution over exactly its options, a likeliest     *)
(* choice and a score between its levels; only a fixture, a lost number or *)
(* a repeated option breaks the contract; and a failed call to the         *)
(* upstream is the last and gets a gateway's status, which otherwise only  *)
(* a fixture served as it is or a failed selection has (validate.go,       *)
(* synth.go, logprob.go and handler.go of the TypeSafe provider).          *)
THEOREM JudgmentsAreSound == AnySpec => []JudgmentsHold
<1>1. AnyInit => JudgeInv
  BY InitJudgeInv
<1>2. Given /\ JudgeInv /\ [AnyNext]_avars => JudgeInv'
  BY NextJudgeInv
<1>3. JudgeInv => JudgmentsHold
  BY DEF JudgeInv, JudgmentsHold
<1> QED
  BY <1>1, <1>2, <1>3, ReplyInvariance, PTL DEF AnySpec, avars
=============================================================================
