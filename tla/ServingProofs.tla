---------------------------- MODULE ServingProofs ---------------------------
(***************************************************************************)
(* Theorems about Serving, for any number of clients, apps, ports, file    *)
(* descriptors and datagrams.  What a step does to one client is said once *)
(* (Turn, TurnNext); the invariants follow from it client by client, and   *)
(* from the steps that move a descriptor.                                  *)
(***************************************************************************)
EXTENDS Serving, FiniteSetTheorems, TLAPS

Steps == {"idle", "ask", "resolved", "backlog"} \cup Connected
Answers == {"none", "no_test", "no_app", "bad_gateway", "empty", "page"}
RecordType == {"A", "AAAA"}
AnyPort == Port \cup {NoPort}
AnyId == Id \cup {0}

ClientState == [pc : Steps, host : Spelling, type : RecordType, id : AnyId,
                port : AnyPort, cut : BOOLEAN, got : Answers]
Datagram == [from : Client \cup {"junk"}, id : AnyId, host : Spelling, type : RecordType]

Typed ==
  /\ client \in [Client -> ClientState]
  /\ inbox \in Seq(Datagram) /\ Len(inbox) <= Buffer
  /\ backlog \in Seq(Client)
  /\ pool \in [Port -> Nat] /\ stale \in [Port -> Nat]
  /\ link \in [App -> AnyPort] /\ up \in SUBSET Port
  /\ faults \in 0..MaxFaults

\* Who waits to be accepted is in the queue once, and nowhere else.
Queued ==
  /\ \A k \in 1..Len(backlog) : At(backlog[k], "backlog")
  /\ \A j, k \in 1..Len(backlog) : backlog[j] = backlog[k] => j = k

\* The sets whose sizes are the descriptors in use are finite, and fit.
Descriptors ==
  /\ IsFiniteSet(In(Connected)) /\ IsFiniteSet(In(Forwarded)) /\ IsFiniteSet(Kept)
  /\ Used <= Fds

\* A client that is connected asked for a .test domain; one that was turned away
\* for its host has one the proxy does not read.
Sent(c) ==
  /\ client[c].pc \in {"resolved", "backlog"} \cup Connected => IsTestDomain(client[c].host)
  /\ client[c].got = "no_test" =>
       client[c].pc \in Connected /\ ExtractAppName(client[c].host) = NoApp

\* A request that was routed has a port to go to.
Aimed(c) == client[c].pc \in {"forward"} \cup Forwarded => client[c].port \in Port

ServingInv ==
  /\ Typed /\ Queued /\ Descriptors
  /\ \A c \in Client : Sent(c) /\ Aimed(c)

(***************************************************************************)
(* What a step does to one client.                                         *)
(***************************************************************************)
Opens(c) == client'[c] = [client[c] EXCEPT !.pc = "open", !.cut = FALSE, !.got = client'[c].got]

\* Its connection to the app breaks.
Breaks(c) ==
  client[c].pc \in Forwarded /\ client'[c] = [client[c] EXCEPT !.cut = TRUE]

\* It goes to the next step of its way, and nothing else of it changes.
Goes(c) ==
  \E s \in {<<"resolved", "backlog">>, <<"backlog", "accepted">>, <<"accepted", "open">>,
            <<"await", "body">>} :
    /\ client[c].pc = s[1] /\ client'[c] = [client[c] EXCEPT !.pc = s[2]]
    /\ s[1] = "resolved" => Connect(c)
    /\ s[1] = "backlog" => Accept

\* Its request is sent, over a connection that may be broken.
Sends(c) ==
  /\ client[c].pc = "forward" /\ Forward(c)
  /\ \E b \in BOOLEAN : client'[c] = [client[c] EXCEPT !.pc = "await", !.cut = b]

Begins(c) ==
  \/ /\ client[c].pc = "idle"
     /\ \E q \in Question, i \in Id :
          client'[c] = [Idle EXCEPT !.pc = "ask", !.host = q.host, !.type = q.type, !.id = i]
  \/ \E h \in Spelling :
       /\ client[c].pc = "ask" /\ IsTestDomain(h)
       /\ client'[c] = [Idle EXCEPT !.pc = "resolved", !.host = h]
  \/ /\ client[c].pc = "open"
     /\ client'[c] = [client[c] EXCEPT !.pc = "route", !.port = NoPort, !.got = "none"]

\* It is routed, or told why not.
Routed(c) ==
  LET a == ExtractAppName(client[c].host)
  IN /\ client[c].pc = "route"
     /\ \/ a = NoApp /\ Opens(c) /\ client'[c].got = "no_test"
        \/ /\ a # NoApp /\ (Full \/ link[a] = NoPort)
           /\ Opens(c) /\ client'[c].got = "no_app"
        \/ /\ a # NoApp /\ link[a] \in Port
           /\ client'[c] = [client[c] EXCEPT !.pc = "forward", !.port = link[a]]

\* What became of the forwarded request.
Ends(c) ==
  /\ Opens(c)
  /\ client[c].pc \in {"forward"} \cup Forwarded
  /\ client'[c].got \in {"bad_gateway", "empty", "page"}

Turn(c) ==
  \/ client'[c] = client[c]
  \/ client[c].pc \notin {"resolved", "backlog"} /\ client'[c] = Idle
  \/ Breaks(c) \/ Goes(c) \/ Sends(c) \/ Begins(c) \/ Routed(c) \/ Ends(c)

\* An app's name that the proxy reads is one.
LEMMA AppNames ==
  ASSUME NEW s \in Spelling
  PROVE  ExtractAppName(s) \in App \cup {NoApp}
BY DEF ExtractAppName, Spelling

\* The records that begin and end a client's way have their type.
LEMMA IdleTyped == Idle \in ClientState /\ Idle.pc = "idle" /\ ~Idle.cut /\ Idle.got = "none"
<1>1. Plain(NoApp) \in Spelling
  BY DEF Plain, Spelling, Part
<1> QED
  BY <1>1 DEF Idle, ClientState, Steps, AnyId, AnyPort, RecordType, Answers

\* One client changes, the others do not.
LEMMA OneTurns ==
  ASSUME Typed, NEW d \in Client, NEW s, client' = [client EXCEPT ![d] = s]
  PROVE  /\ client'[d] = s /\ \A c \in Client \ {d} : client'[c] = client[c]
         /\ client' = [c \in Client |-> client'[c]]
BY DEF Typed

\* One step per action.
LEMMA TurnNext ==
  ASSUME Typed, Queued, [Next]_vars
  PROVE  client' = [c \in Client |-> client'[c]] /\ \A c \in Client : Turn(c)
<1> DEFINE Done == client' = [c \in Client |-> client'[c]] /\ \A c \in Client : Turn(c)
<1>0. client = [c \in Client |-> client[c]] /\ \A c \in Client : client[c] \in ClientState
  BY DEF Typed
<1>1. ASSUME client' = client PROVE Done
  BY <1>0, <1>1 DEF Turn
<1>2. ASSUME NEW d \in Client, NEW s, client' = [client EXCEPT ![d] = s],
             client'[d] = s => Turn(d)
      PROVE  Done
  BY <1>2, OneTurns DEF Turn
<1> HIDE DEF Done
<1>3. ASSUME NEW d \in Client, NEW q \in Question, NEW i \in Id, Lookup(d, q, i) PROVE Done
  BY <1>2, <1>3 DEF Lookup, At, Turn, Begins
<1>4. ASSUME NEW d \in Client, Connect(d) PROVE Done
  <2>1. client' = [client EXCEPT ![d] = [client[d] EXCEPT !.pc = "backlog"]]
        /\ client[d].pc = "resolved"
    BY <1>4 DEF Connect, Goto, At
  <2> QED
    BY <1>2, <1>4, <2>1 DEF Turn, Goes
<1>5. ASSUME NEW d \in Client, Handshake(d) PROVE Done
  <2>1. CASE client' = [client EXCEPT ![d] = Idle]
    BY <1>2, <1>5, <2>1 DEF Handshake, At, Turn
  <2>2. CASE Goto(d, "open")
    <3>1. client' = [client EXCEPT ![d] = [client[d] EXCEPT !.pc = "open"]]
          /\ client[d].pc = "accepted"
      BY <1>5, <2>2 DEF Handshake, Goto, At
    <3> QED
      BY <1>2, <3>1 DEF Turn, Goes
  <2> QED
    BY <1>5, <2>1, <2>2 DEF Handshake
<1>6. ASSUME NEW d \in Client, Close(d) \/ Abort(d) PROVE Done
  BY <1>2, <1>6 DEF Close, Abort, At, InRequest, Turn
<1>7. ASSUME NEW d \in Client, Request(d) PROVE Done
  <2>1. /\ client[d].pc = "open"
        /\ client' = [client EXCEPT ![d] =
             [client[d] EXCEPT !.pc = "route", !.port = NoPort, !.got = "none"]]
    BY <1>0, <1>7 DEF Request, At
  <2> QED
    BY <1>2, <2>1 DEF Turn, Begins
<1>8. ASSUME NEW d \in Client, NEW a \in Answers, Answer(d, a),
             Opens(d) /\ client'[d].got = a => Turn(d)
      PROVE  Done
  <2>1. client' = [client EXCEPT ![d] =
             [client[d] EXCEPT !.pc = "open", !.cut = FALSE, !.got = a]]
    BY <1>0, <1>8 DEF Answer
  <2>2. client'[d] = [client[d] EXCEPT !.pc = "open", !.cut = FALSE, !.got = a]
    BY <2>1, OneTurns
  <2>3. client'[d].got = a
    BY <1>0, <2>2 DEF ClientState
  <2> QED
    BY <1>2, <1>8, <2>1, <2>2, <2>3 DEF Opens
<1>9. ASSUME NEW d \in Client, Route(d) PROVE Done
  <2> DEFINE a == ExtractAppName(client[d].host)
  <2>1. At(d, "route") /\ client[d].pc = "route" /\ a \in App \cup {NoApp}
    BY <1>0, <1>9, AppNames DEF Route, At, ClientState
  <2>2. CASE a = NoApp /\ Answer(d, "no_test")
    BY <1>8, <2>1, <2>2 DEF Turn, Routed, Answers
  <2>3. CASE a # NoApp /\ ResolvePort(a) = NoPort /\ Answer(d, "no_app")
    BY <1>8, <2>1, <2>3 DEF Turn, Routed, Answers, ResolvePort
  <2>4. CASE /\ a # NoApp /\ ResolvePort(a) # NoPort
             /\ client' = [client EXCEPT ![d].pc = "forward", ![d].port = ResolvePort(a)]
    <3>1. link[a] \in Port /\ ResolvePort(a) = link[a]
      BY <2>1, <2>4 DEF ResolvePort, Typed, AnyPort
    <3>2. client' = [client EXCEPT ![d] = [client[d] EXCEPT !.pc = "forward", !.port = link[a]]]
      BY <1>0, <2>4, <3>1
    <3> QED
      BY <1>2, <2>1, <2>4, <3>1, <3>2 DEF Turn, Routed
  <2> QED
    BY <1>9, <2>2, <2>3, <2>4 DEF Route
<1>10. ASSUME NEW d \in Client, Forward(d) PROVE Done
  <2>1. client[d].pc = "forward" /\ client[d].cut \in BOOLEAN
    BY <1>0, <1>10 DEF Forward, At, ClientState
  <2>2. ASSUME NEW b \in BOOLEAN,
               client' = [client EXCEPT ![d] = [client[d] EXCEPT !.pc = "await", !.cut = b]]
        PROVE  Done
    <3>1. client'[d] = [client[d] EXCEPT !.pc = "await", !.cut = b]
      BY <2>2, OneTurns
    <3> QED
      BY <1>2, <1>10, <2>1, <2>2, <3>1 DEF Turn, Sends
  <2>3. CASE Goto(d, "await")
    <3>1. client' = [client EXCEPT ![d] =
                       [client[d] EXCEPT !.pc = "await", !.cut = client[d].cut]]
      BY <1>0, <2>3 DEF Goto, ClientState
    <3> QED
      BY <2>1, <2>2, <3>1
  <2>4. CASE client' = [client EXCEPT ![d].pc = "await", ![d].cut = TRUE]
    <3>1. client' = [client EXCEPT ![d] = [client[d] EXCEPT !.pc = "await", !.cut = TRUE]]
      BY <1>0, <2>4
    <3> QED
      BY <2>2, <3>1
  <2>5. CASE Answer(d, "bad_gateway")
    BY <1>8, <2>1, <2>5 DEF Turn, Ends, Answers
  <2> QED
    BY <1>10, <2>3, <2>4, <2>5 DEF Forward
<1>11. ASSUME NEW d \in Client, Await(d) PROVE Done
  <2>1. client[d].pc = "await"
    BY <1>11 DEF Await, At
  <2>2. CASE Goto(d, "body")
    <3>1. client' = [client EXCEPT ![d] = [client[d] EXCEPT !.pc = "body"]]
      BY <2>2 DEF Goto
    <3> QED
      BY <1>2, <2>1, <3>1 DEF Turn, Goes
  <2>3. CASE Answer(d, "bad_gateway")
    BY <1>8, <2>1, <2>3 DEF Turn, Ends, Answers, Forwarded
  <2> QED
    BY <1>11, <2>2, <2>3 DEF Await
<1>12. ASSUME NEW d \in Client, Collect(d) PROVE Done
  <2>1. client[d].pc = "body"
    BY <1>12 DEF Collect, At
  <2>2. CASE Answer(d, "empty")
    BY <1>8, <2>1, <2>2 DEF Turn, Ends, Answers, Forwarded
  <2>3. CASE Answer(d, "page")
    BY <1>8, <2>1, <2>3 DEF Turn, Ends, Answers, Forwarded
  <2> QED
    BY <1>12, <2>2, <2>3 DEF Collect
<1>16. ASSUME NEW d \in Client, Break(d) PROVE Done
  <2>1. client' = [client EXCEPT ![d] = [client[d] EXCEPT !.cut = TRUE]]
        /\ client[d].pc \in Forwarded
    BY <1>16 DEF Break
  <2> QED
    BY <1>2, <2>1 DEF Turn, Breaks
<1>13. ASSUME Receive PROVE Done
  <2>1. CASE client' = client
    BY <1>1, <2>1
  <2>2. CASE inbox # <<>> /\ Reply(Head(inbox))
    <3> DEFINE m == Head(inbox)
    <3>1. m \in Datagram
      BY <2>2 DEF Typed
    <3>2. client' = [c \in Client |-> client'[c]]
      BY <2>2 DEF Reply
    <3>3. ASSUME NEW c \in Client PROVE Turn(c)
      <4>1. CASE c = m.from /\ At(c, "ask") /\ client[c].id = m.id
        <5>1. CASE HandleQuery(m) = {}
          BY <2>2, <4>1, <5>1 DEF Reply, At, Turn
        <5>2. CASE HandleQuery(m) # {}
          <6>1. IsTestDomain(m.host) /\ m.host \in Spelling
            BY <3>1, <5>2 DEF HandleQuery, Datagram
          <6>2. client'[c] = [Idle EXCEPT !.pc = "resolved", !.host = m.host]
            BY <2>2, <4>1, <5>2 DEF Reply
          <6> QED
            BY <4>1, <6>1, <6>2 DEF Turn, Begins, At
        <5> QED
          BY <5>1, <5>2
      <4>2. CASE ~(c = m.from /\ At(c, "ask") /\ client[c].id = m.id)
        BY <2>2, <4>2 DEF Reply, Turn
      <4> QED
        BY <4>1, <4>2
    <3> QED
      BY <3>2, <3>3 DEF Done
  <2> QED
    BY <1>13, <2>1, <2>2 DEF Receive
<1>14. ASSUME Accept PROVE Done
  <2>1. PICK d \in Client : d = Head(backlog)
    BY <1>14 DEF Accept, Typed
  <2>2. client[d].pc = "backlog"
    <3>1. d = backlog[1] /\ 1 \in 1..Len(backlog)
      BY <1>14, <2>1 DEF Accept, Typed
    <3> QED
      BY <3>1 DEF Queued, At
  <2>3. client' = [client EXCEPT ![d] = [client[d] EXCEPT !.pc = "accepted"]]
    BY <1>14, <2>1 DEF Accept, Goto
  <2> QED
    BY <1>2, <1>14, <2>2, <2>3 DEF Turn, Goes
<1>15. ASSUME NEW p \in Port, StopApp(p) PROVE Done
  <2>1. client' = [c \in Client |-> client'[c]]
    BY <1>15 DEF StopApp
  <2>2. ASSUME NEW c \in Client PROVE Turn(c)
    BY <1>15, <2>2 DEF StopApp, Turn, Breaks
  <2> QED
    BY <2>1, <2>2 DEF Done
<1> QED
  BY <1>3, <1>4, <1>5, <1>6, <1>7, <1>9, <1>10, <1>11, <1>12, <1>13, <1>14, <1>15, <1>16,
     <1>1 DEF Next, vars, Send, Malformed, Expire, Hangup, Notice, StartApp, Relink, Done

\* Only Accept brings a client to a connection, and only Forward a request to its app.
LEMMA GoesInside ==
  ASSUME Typed, ~Accept, \A c \in Client : Turn(c) /\ ~(Forward(c) /\ client'[c].pc = "await")
  PROVE  In(Connected)' \in SUBSET In(Connected) /\ In(Forwarded)' \in SUBSET In(Forwarded)
<1> SUFFICES ASSUME NEW c \in Client
             PROVE  /\ client'[c].pc \in Connected => client[c].pc \in Connected
                    /\ client'[c].pc \in Forwarded => client[c].pc \in Forwarded
  BY DEF In
<1>1. client[c] \in ClientState /\ Turn(c)
  BY DEF Typed
<1> USE DEF ClientState, Connected, Forwarded
<1>2. CASE client'[c] = client[c]
  BY <1>2
<1>3. CASE client'[c] = Idle
  BY <1>3, IdleTyped
<1>4. CASE Breaks(c)
  BY <1>1, <1>4 DEF Breaks
<1>5. CASE Sends(c)
  BY <1>1, <1>5 DEF Sends
<1>6. CASE Goes(c)
  <2>1. client[c].pc # "backlog"
    BY <1>6, Zenon DEF Goes
  <2> QED
    BY <1>1, <1>6, <2>1 DEF Goes
<1>7. CASE Begins(c)
  BY <1>1, <1>7, IdleTyped DEF Begins
<1>8. CASE Routed(c)
  BY <1>1, <1>8 DEF Routed, Opens
<1>9. CASE Ends(c)
  BY <1>1, <1>9 DEF Ends, Opens
<1> QED
  BY <1>1, <1>2, <1>3, <1>4, <1>5, <1>6, <1>7, <1>8, <1>9 DEF Turn

\* What the invariants say of one client follows from its turn.
LEMMA TurnTyped ==
  ASSUME Typed, NEW c \in Client, Turn(c)
  PROVE  client'[c] \in ClientState
<1>1. client[c] \in ClientState /\ \A a \in App : link[a] \in AnyPort
  BY DEF Typed
<1> USE DEF ClientState, Steps, Connected, Forwarded, AnyPort
<1>2. CASE client'[c] = client[c] \/ client'[c] = Idle
  BY <1>1, <1>2, IdleTyped
<1>3. CASE Breaks(c)
  BY <1>1, <1>3 DEF Breaks
<1>4. CASE Goes(c)
  BY <1>1, <1>4 DEF Goes
<1>5. CASE Begins(c)
  <2>1. ASSUME NEW q \in Question PROVE q.host \in Spelling /\ q.type \in RecordType
    BY <2>1, ServingAssumption DEF RecordType
  <2> QED
    BY <1>1, <1>5, <2>1, IdleTyped DEF Begins, Answers, AnyId
<1>6. CASE Routed(c)
  BY <1>1, <1>6 DEF Routed, Opens, Answers
<1>7. CASE Ends(c)
  BY <1>1, <1>7 DEF Ends, Opens, Answers
<1>8. CASE Sends(c)
  BY <1>1, <1>8 DEF Sends
<1> QED
  BY <1>2, <1>3, <1>4, <1>5, <1>6, <1>7, <1>8 DEF Turn

\* Whoever is connected asked for a .test domain.
LEMMA SentNext ==
  ASSUME Typed, NEW c \in Client, Sent(c), Turn(c)
  PROVE  Sent(c)'
<1>1. client[c] \in ClientState
  BY DEF Typed
<1> USE DEF ClientState, Connected, Forwarded, Sent
<1>2. CASE client'[c] = client[c]
  BY <1>2
<1>3. CASE client'[c] = Idle
  BY <1>3, IdleTyped
<1>4. CASE Breaks(c)
  BY <1>1, <1>4 DEF Breaks
<1>5. CASE Goes(c)
  BY <1>1, <1>5 DEF Goes
<1>6. CASE Begins(c)
  BY <1>1, <1>6, IdleTyped DEF Begins
<1>7. CASE Routed(c)
  BY <1>1, <1>7 DEF Routed, Opens
<1>8. CASE Ends(c)
  BY <1>1, <1>8 DEF Ends, Opens
<1>9. CASE Sends(c)
  BY <1>1, <1>9 DEF Sends
<1> QED
  BY <1>9, <1>2, <1>3, <1>4, <1>5, <1>6, <1>7, <1>8 DEF Turn

\* The port is set when the request is routed.
LEMMA AimedNext ==
  ASSUME Typed, NEW c \in Client, Aimed(c), Turn(c)
  PROVE  Aimed(c)'
<1>1. client[c] \in ClientState
  BY DEF Typed
<1> USE DEF ClientState, Forwarded, Aimed
<1>2. CASE client'[c] = client[c]
  BY <1>2
<1>3. CASE client'[c] = Idle
  BY <1>3, IdleTyped
<1>4. CASE Breaks(c)
  BY <1>1, <1>4 DEF Breaks
<1>5. CASE Goes(c)
  BY <1>1, <1>5 DEF Goes
<1>6. CASE Sends(c)
  BY <1>1, <1>6 DEF Sends
<1>7. CASE Begins(c)
  BY <1>1, <1>7, IdleTyped DEF Begins
<1>8. CASE Routed(c)
  BY <1>1, <1>8 DEF Routed, Opens
<1>9. CASE Ends(c)
  BY <1>1, <1>9 DEF Ends, Opens
<1> QED
  BY <1>2, <1>3, <1>4, <1>5, <1>6, <1>7, <1>8, <1>9 DEF Turn

(***************************************************************************)
(* The rest of the state, one action at a time.                            *)
(***************************************************************************)

\* What a step does to the queue of those who wait.
LEMMA QueuedNext ==
  ASSUME Typed, Queued, [Next]_vars
  PROVE  Queued'
<1>1. \A c \in Client : Turn(c)
  BY TurnNext
<1>2. ASSUME NEW k \in 1..Len(backlog)
      PROVE  backlog[k] \in Client /\ client[backlog[k]].pc = "backlog"
  BY DEF Typed, Queued, At
<1>3. ASSUME NEW k \in 1..Len(backlog), ~Accept
      PROVE  client'[backlog[k]] = client[backlog[k]]
  <2>1. PICK c \in Client : c = backlog[k]
    BY <1>2
  <2> QED
    BY <1>1, <1>2, <1>3, <2>1 DEF Turn, Breaks, Goes, Sends, Begins, Routed, Opens, Ends,
       Forwarded
<1>4. CASE ~Accept /\ UNCHANGED backlog
  BY <1>2, <1>3, <1>4 DEF Queued, At
<1>5. ASSUME NEW c \in Client, Connect(c), ~Accept PROVE Queued'
  <2>1. /\ client[c].pc = "resolved" /\ client'[c].pc = "backlog"
        /\ backlog' = Append(backlog, c) /\ backlog \in Seq(Client)
    BY <1>5 DEF Connect, At, Goto, Typed, ClientState
  <2>2. \A k \in 1..Len(backlog) : backlog[k] # c
    BY <1>2, <2>1
  <2>3. /\ Len(backlog') = Len(backlog) + 1 /\ backlog'[Len(backlog) + 1] = c
        /\ \A k \in 1..Len(backlog) : backlog'[k] = backlog[k]
    BY <2>1
  <2>4. ASSUME NEW k \in 1..Len(backlog')
        PROVE  k \in 1..Len(backlog) \/ k = Len(backlog) + 1
    BY <2>1, <2>3
  <2>5. ASSUME NEW k \in 1..Len(backlog') PROVE client'[backlog'[k]].pc = "backlog"
    BY <1>2, <1>3, <1>5, <2>1, <2>3, <2>4
  <2>6. ASSUME NEW j \in 1..Len(backlog'), NEW k \in 1..Len(backlog'), backlog'[j] = backlog'[k]
        PROVE  j = k
    BY <2>2, <2>3, <2>4, <2>6 DEF Queued
  <2> QED
    BY <2>5, <2>6 DEF Queued, At
<1>6. CASE Accept
  <2>1. /\ backlog # <<>> /\ backlog' = Tail(backlog) /\ backlog \in Seq(Client)
        /\ Head(backlog) = backlog[1]
        /\ \A c \in Client : c # backlog[1] => client'[c] = client[c]
    BY <1>6 DEF Accept, Goto, Typed
  <2>2. /\ Len(backlog') = Len(backlog) - 1
        /\ \A k \in 1..Len(backlog') : /\ k + 1 \in 1..Len(backlog)
                                       /\ backlog'[k] = backlog[k + 1]
    BY <2>1
  <2>3. 1 \in 1..Len(backlog)
    BY <2>1
  <2>4. ASSUME NEW k \in 1..Len(backlog') PROVE client'[backlog'[k]].pc = "backlog"
    <3>1. backlog[k + 1] # backlog[1]
      BY <2>2, <2>3, <2>4 DEF Queued
    <3> QED
      BY <1>2, <2>1, <2>2, <3>1
  <2>5. ASSUME NEW j \in 1..Len(backlog'), NEW k \in 1..Len(backlog'), backlog'[j] = backlog'[k]
        PROVE  j = k
    <3>1. j + 1 = k + 1
      BY <2>2, <2>5 DEF Queued
    <3> QED
      BY <3>1
  <2> QED
    BY <2>4, <2>5 DEF Queued, At
<1>7. UNCHANGED backlog \/ Accept \/ \E c \in Client : Connect(c)
  BY DEF Next, vars, Lookup, Send, Malformed, Receive, Handshake, Close, Request, Route,
         Forward, Await, Collect, Abort, Break, Expire, Hangup, Notice, StartApp, StopApp, Relink
<1> QED
  BY <1>4, <1>5, <1>6, <1>7

\* The type of the whole state.
LEMMA TypedNext ==
  ASSUME Typed, Queued, [Next]_vars, \A c \in Client : Aimed(c)
  PROVE  Typed'
<1>1. client' \in [Client -> ClientState]
  BY TurnNext, TurnTyped
<1>3. link' \in [App -> AnyPort] /\ up' \in SUBSET Port
  <2>1. CASE UNCHANGED world
    BY <2>1 DEF Typed, world
  <2>2. ASSUME NEW p \in Port, StartApp(p) \/ StopApp(p)
        PROVE  link' \in [App -> AnyPort] /\ up' \in SUBSET Port
    BY <2>2 DEF StartApp, StopApp, Typed
  <2>3. ASSUME NEW a \in App, Relink(a)
        PROVE  link' \in [App -> AnyPort] /\ up' \in SUBSET Port
    BY <2>3 DEF Relink, Typed, AnyPort
  <2> QED
    BY <2>1, <2>2, <2>3
       DEF Next, vars, Lookup, Send, Malformed, Receive, Connect, Accept, Handshake, Close,
           Request, Route, Forward, Await, Collect, Abort, Break, Expire, Hangup, Notice
<1>4. backlog' \in Seq(Client)
  <2>1. CASE backlog' = backlog
    BY <2>1 DEF Typed
  <2>2. CASE Accept
    BY <2>2 DEF Accept, Typed
  <2>3. ASSUME NEW c \in Client, Connect(c) PROVE backlog' \in Seq(Client)
    BY <2>3 DEF Connect, Typed
  <2>4. backlog' = backlog \/ Accept \/ \E c \in Client : Connect(c)
    BY DEF Next, vars, Lookup, Send, Malformed, Receive, Handshake, Close, Request, Route,
           Forward, Await, Collect, Abort, Break, Expire, Hangup, Notice, StartApp, StopApp, Relink
  <2> QED
    BY <2>1, <2>2, <2>3, <2>4
<1>5. faults' \in 0..MaxFaults
  <2>1. faults' = faults \/ (faults < MaxFaults /\ faults' = faults + 1)
    BY DEF Next, vars, dns, Lookup, Send, Malformed, Receive, Connect, Accept, Handshake,
           Close, Request, Route, Forward, Await, Collect, Abort, Break, Expire, Hangup,
           Notice, StartApp, StopApp, Relink
  <2> QED
    BY <2>1, ServingAssumption DEF Typed
<1>6. pool' \in [Port -> Nat] /\ stale' \in [Port -> Nat]
  <2>1. ASSUME NEW p \in Port, NEW f \in [Port -> Nat], NEW n \in Nat
        PROVE  /\ [f EXCEPT ![p] = @ + n] \in [Port -> Nat]
               /\ [f EXCEPT ![p] = 0] \in [Port -> Nat]
               /\ f[p] > 0 => [f EXCEPT ![p] = @ - 1] \in [Port -> Nat]
    OBVIOUS
  <2>2. pool \in [Port -> Nat] /\ stale \in [Port -> Nat]
    BY DEF Typed
  <2>3. CASE UNCHANGED idle
    BY <2>2, <2>3 DEF idle
  <2>4. ASSUME NEW c \in Client, Forward(c) \/ Await(c) \/ Collect(c)
        PROVE  pool' \in [Port -> Nat] /\ stale' \in [Port -> Nat]
    <3>1. client[c].port \in Port
      BY <2>4 DEF Aimed, Forward, Await, Collect, At, Forwarded
    <3>2. CASE Forward(c)
      BY <2>1, <2>2, <3>1, <3>2 DEF Forward, Taken, idle
    <3>3. CASE Release(c)
      BY <2>1, <2>2, <3>1, <3>3 DEF Release
    <3> QED
      BY <2>2, <2>4, <3>2, <3>3 DEF Await, Collect, idle
  <2>5. ASSUME NEW p \in Port, Expire(p) \/ Hangup(p) \/ Notice(p)
        PROVE  pool' \in [Port -> Nat] /\ stale' \in [Port -> Nat]
    <3>1. CASE Expire(p)
      BY <2>1, <2>2, <3>1 DEF Expire
    <3>2. CASE Hangup(p)
      BY <2>1, <2>2, <3>2 DEF Hangup
    <3>3. CASE Notice(p)
      BY <2>1, <2>2, <3>3 DEF Notice
    <3> QED
      BY <2>5, <3>1, <3>2, <3>3
  <2>6. ASSUME NEW p \in Port, StopApp(p)
        PROVE  pool' \in [Port -> Nat] /\ stale' \in [Port -> Nat]
    BY <2>1, <2>2, <2>6 DEF StopApp
  <2> QED
    BY <2>3, <2>4, <2>5, <2>6
       DEF Next, vars, Lookup, Send, Malformed, Receive, Connect, Accept, Handshake,
           Close, Request, Route, Abort, Break, StartApp, Relink
<1>7. inbox' \in Seq(Datagram) /\ Len(inbox') <= Buffer
  <2>1. inbox \in Seq(Datagram) /\ Len(inbox) <= Buffer /\ Buffer \in Nat
    BY ServingAssumption DEF Typed
  <2>2. ASSUME NEW m \in Datagram, Arrives(m)
        PROVE  inbox' \in Seq(Datagram) /\ Len(inbox') <= Buffer
    BY <2>1, <2>2 DEF Arrives
  <2>3. Junk \in Datagram
    <3>1. Plain(NoApp) \in Spelling
      BY DEF Plain, Spelling, Part
    <3> QED
      BY <3>1 DEF Junk, Datagram, AnyId, RecordType
  <2>4. ASSUME NEW c \in Client PROVE Query(c) \in Datagram
    BY DEF Query, Datagram, Typed, ClientState
  <2>5. CASE Receive
    BY <2>1, <2>5 DEF Receive
  <2>6. CASE UNCHANGED inbox
    BY <2>1, <2>6
  <2> QED
    BY <2>2, <2>3, <2>4, <2>5, <2>6
       DEF Next, vars, dns, Lookup, Send, Malformed, Connect, Accept, Handshake, Close,
           Request, Route, Forward, Await, Collect, Abort, Break, Expire, Hangup, Notice,
             StartApp, StopApp, Relink
<1> QED
  BY <1>1, <1>3, <1>4, <1>5, <1>6, <1>7 DEF Typed

(***************************************************************************)
(* File descriptors.                                                       *)
(***************************************************************************)

\* The sizes are numbers.
LEMMA Sizes ==
  ASSUME IsFiniteSet(In(Connected)), IsFiniteSet(In(Forwarded)), IsFiniteSet(Kept)
  PROVE  /\ Cardinality(In(Connected)) \in Nat /\ Cardinality(In(Forwarded)) \in Nat
         /\ Cardinality(Kept) \in Nat
BY FS_CardinalityType

\* The idle connections to a port, those the app has closed included.
Held(p) == pool[p] + stale[p]

\* What is in the pool is known connection by connection.
LEMMA KeptChange ==
  ASSUME Typed, Typed'
  PROVE  /\ (\A p \in Port : Held(p)' <= Held(p)) => Kept' \subseteq Kept
         /\ \A p \in Port :
              /\ (\A q \in Port : Held(q)' = IF q = p THEN Held(p) + 1 ELSE Held(q)) =>
                   Kept' = Kept \cup {<<p, Held(p) + 1>>}
              /\ Held(p) > 0 /\ (\A q \in Port : Held(q)' = IF q = p THEN Held(p) - 1 ELSE Held(q))
                   => <<p, Held(p)>> \in Kept /\ Kept' = Kept \ {<<p, Held(p)>>}
<1> DEFINE In0(x) == \E p \in Port : \E n \in 1..Held(p) : x = <<p, n>>
           In1(x) == \E p \in Port : \E n \in 1..Held(p)' : x = <<p, n>>
<1>0. \A q \in Port : Held(q) \in Nat /\ Held(q)' \in Nat
  BY DEF Typed, Held
<1>1. \A x : x \in Kept <=> In0(x)
  BY DEF Kept, Held
<1>2. \A x : x \in Kept' <=> In1(x)
  BY DEF Kept, Held
<1>3. ASSUME \A p \in Port : Held(p)' <= Held(p) PROVE Kept' \subseteq Kept
  BY <1>0, <1>1, <1>2, <1>3
<1>4. ASSUME NEW p \in Port, \A q \in Port : Held(q)' = IF q = p THEN Held(p) + 1 ELSE Held(q)
      PROVE  Kept' = Kept \cup {<<p, Held(p) + 1>>}
  <2>1. ASSUME NEW x PROVE In1(x) <=> (In0(x) \/ x = <<p, Held(p) + 1>>)
    BY <1>0, <1>4
  <2> QED
    BY <1>1, <1>2, <2>1
<1>5. ASSUME NEW p \in Port, Held(p) > 0,
             \A q \in Port : Held(q)' = IF q = p THEN Held(p) - 1 ELSE Held(q)
      PROVE  <<p, Held(p)>> \in Kept /\ Kept' = Kept \ {<<p, Held(p)>>}
  <2>1. ASSUME NEW x PROVE In1(x) <=> (In0(x) /\ x # <<p, Held(p)>>)
    BY <1>0, <1>5
  <2>2. In0(<<p, Held(p)>>)
    BY <1>0, <1>5
  <2> QED
    BY <1>1, <1>2, <2>1, <2>2
<1> QED
  BY <1>3, <1>4, <1>5

\* No step takes a descriptor that is not there.
LEMMA DescriptorsNext ==
  ASSUME Typed, Typed', Queued, Descriptors, [Next]_vars, \A c \in Client : Aimed(c)
  PROVE  Descriptors'
<1>1. \A c \in Client : Turn(c) /\ client[c] \in ClientState /\ client'[c] \in ClientState
  BY TurnNext DEF Typed
<1>2. /\ IsFiniteSet(In(Connected)) /\ IsFiniteSet(In(Forwarded)) /\ IsFiniteSet(Kept)
      /\ Cardinality(In(Connected)) \in Nat /\ Cardinality(In(Forwarded)) \in Nat
      /\ Cardinality(Kept) \in Nat /\ Fds \in Nat
      /\ Used = Cardinality(In(Connected)) + Cardinality(In(Forwarded)) + Cardinality(Kept)
      /\ Used <= Fds
  BY Sizes, ServingAssumption DEF Descriptors, Used
<1>3. ASSUME NEW d \in Client, NEW S,
             client'[d].pc \in S, client[d].pc \notin S,
             \A c \in Client \ {d} : client'[c] = client[c]
      PROVE  In(S)' = In(S) \cup {d} /\ d \notin In(S)
  BY <1>3 DEF In
<1>4. CASE Accept
  <2>1. PICK d \in Client : d = Head(backlog) /\ client[d].pc = "backlog"
    <3>1. Head(backlog) = backlog[1] /\ 1 \in 1..Len(backlog) /\ backlog[1] \in Client
      BY <1>4 DEF Accept, Typed
    <3> QED
      BY <3>1 DEF Queued, At
  <2>2. /\ client'[d].pc = "accepted" /\ ~Full /\ UNCHANGED idle
        /\ \A c \in Client \ {d} : client'[c] = client[c]
    BY <1>1, <1>4, <2>1 DEF Accept, Goto, Typed, ClientState
  <2>3. In(Connected)' = In(Connected) \cup {d} /\ d \notin In(Connected)
    BY <1>3, <2>1, <2>2 DEF Connected
  <2>4. In(Forwarded)' = In(Forwarded) /\ Kept' = Kept
    BY <2>1, <2>2 DEF In, Forwarded, Kept, idle
  <2>5. IsFiniteSet(In(Connected)') /\ Cardinality(In(Connected)') = Cardinality(In(Connected)) + 1
    BY <1>2, <2>3, FS_AddElement
  <2> QED
    BY <1>2, <2>2, <2>4, <2>5 DEF Descriptors, Used, Full
<1>5. ASSUME NEW d \in Client, Forward(d), client'[d].pc = "await" PROVE Descriptors'
  <2>1. /\ client[d].pc = "forward" /\ client[d].port \in Port
        /\ \A c \in Client \ {d} : client'[c] = client[c]
    BY <1>5 DEF Forward, At, Goto, Answer, Aimed, Typed
  <2>2. In(Forwarded)' = In(Forwarded) \cup {d} /\ d \notin In(Forwarded)
    BY <1>3, <1>5, <2>1 DEF Forwarded
  <2>3. In(Connected)' = In(Connected)
    BY <1>5, <2>1 DEF In, Connected
  <2>4. IsFiniteSet(In(Forwarded)') /\ Cardinality(In(Forwarded)') = Cardinality(In(Forwarded)) + 1
    BY <1>2, <2>2, FS_AddElement
  <2>5. CASE ~Full /\ UNCHANGED idle
    <3>1. Kept' = Kept
      BY <2>5 DEF Kept, idle
    <3> QED
      BY <1>2, <2>3, <2>4, <2>5, <3>1 DEF Descriptors, Used, Full
  <2>6. ASSUME NEW p \in Port, Held(p) > 0,
               \A q \in Port : Held(q)' = IF q = p THEN Held(p) - 1 ELSE Held(q)
        PROVE  Descriptors'
    <3>1. <<p, Held(p)>> \in Kept /\ Kept' = Kept \ {<<p, Held(p)>>}
      BY <2>6, KeptChange
    <3>2. IsFiniteSet(Kept') /\ Cardinality(Kept') = Cardinality(Kept) - 1
      BY <1>2, <3>1, FS_RemoveElement
    <3> QED
      BY <1>2, <2>3, <2>4, <3>2 DEF Descriptors, Used
  <2>7. PICK p \in Port : p = client[d].port
    BY <2>1
  <2>8. ASSUME pool[p] > 0, pool' = Taken(p), UNCHANGED stale PROVE Descriptors'
    <3>1. Held(p) > 0 /\ \A q \in Port : Held(q)' = IF q = p THEN Held(p) - 1 ELSE Held(q)
      BY <2>8 DEF Typed, Taken, Held
    <3> QED
      BY <2>6, <3>1
  <2>9. ASSUME stale[p] > 0, stale' = [stale EXCEPT ![p] = @ - 1], UNCHANGED pool
        PROVE  Descriptors'
    <3>1. Held(p) > 0 /\ \A q \in Port : Held(q)' = IF q = p THEN Held(p) - 1 ELSE Held(q)
      BY <2>9 DEF Typed, Held
    <3> QED
      BY <2>6, <3>1
  <2>10. ~Answer(d, "bad_gateway")
    BY <1>1, <1>5 DEF Answer, Typed, ClientState
  <2> QED
    BY <1>5, <2>5, <2>7, <2>8, <2>9, <2>10 DEF Forward
<1>6. CASE ~Accept /\ \A c \in Client : ~(Forward(c) /\ client'[c].pc = "await")
  <2>1. In(Connected)' \in SUBSET In(Connected)
    BY <1>1, <1>6, GoesInside
  <2>2. In(Forwarded)' \in SUBSET In(Forwarded)
    BY <1>1, <1>6, GoesInside
  <2>3. /\ IsFiniteSet(In(Connected)') /\ Cardinality(In(Connected)') <= Cardinality(In(Connected))
        /\ IsFiniteSet(In(Forwarded)') /\ Cardinality(In(Forwarded)') <= Cardinality(In(Forwarded))
        /\ Cardinality(In(Connected)') \in Nat /\ Cardinality(In(Forwarded)') \in Nat
    BY <1>2, <2>1, <2>2, FS_Subset, FS_CardinalityType
  <2>4. ASSUME \A p \in Port : Held(p)' <= Held(p) PROVE Descriptors'
    <3>1. Kept' \in SUBSET Kept
      BY <2>4, KeptChange
    <3>2. /\ IsFiniteSet(Kept') /\ Cardinality(Kept') <= Cardinality(Kept)
          /\ Cardinality(Kept') \in Nat
      BY <1>2, <3>1, FS_Subset, FS_CardinalityType
    <3> QED
      BY <1>2, <2>3, <3>2 DEF Descriptors, Used
  <2>5. CASE UNCHANGED idle
    <3>1. \A p \in Port : Held(p)' <= Held(p)
      BY <2>5 DEF Typed, Held, idle
    <3> QED
      BY <2>4, <3>1
  <2>6. ASSUME NEW c \in Client, client[c].pc \in Forwarded, client'[c].pc = "open", Release(c)
        PROVE  Descriptors'
    <3>1. CASE UNCHANGED pool
      BY <2>5, <2>6, <3>1 DEF Release, idle
    <3>2. CASE pool' = [pool EXCEPT ![client[c].port] = @ + 1]
      <4>1. PICK p \in Port : p = client[c].port
        BY <2>6 DEF Aimed
      <4>2. c \in In(Forwarded) /\ c \notin In(Forwarded)'
        BY <2>6 DEF In, Forwarded
      <4>3. /\ IsFiniteSet(In(Forwarded) \ {c})
            /\ Cardinality(In(Forwarded) \ {c}) = Cardinality(In(Forwarded)) - 1
        BY <1>2, <4>2, FS_RemoveElement
      <4>4. In(Forwarded)' \in SUBSET (In(Forwarded) \ {c})
        BY <2>2, <4>2
      <4>5. Cardinality(In(Forwarded)') <= Cardinality(In(Forwarded)) - 1
        BY <4>3, <4>4, FS_Subset
      <4>6. \A q \in Port : Held(q)' = IF q = p THEN Held(p) + 1 ELSE Held(q)
        BY <2>6, <3>2, <4>1 DEF Release, Typed, Held
      <4>7. Kept' = Kept \cup {<<p, Held(p) + 1>>}
        BY <4>6, KeptChange
      <4>8. /\ IsFiniteSet(Kept') /\ Cardinality(Kept') <= Cardinality(Kept) + 1
            /\ Cardinality(Kept') \in Nat
        <5>1. /\ IsFiniteSet(Kept')
              /\ Cardinality(Kept') = Cardinality(Kept)
                   \/ Cardinality(Kept') = Cardinality(Kept) + 1
          BY <1>2, <4>7, FS_AddElement
        <5> QED
          BY <1>2, <5>1
      <4> QED
        BY <1>2, <2>3, <4>5, <4>8 DEF Descriptors, Used
    <3> QED
      BY <2>6, <3>1, <3>2 DEF Release
  <2>7. ASSUME NEW c \in Client, Await(c) \/ Collect(c) PROVE Descriptors'
    <3>1. client[c].pc \in Forwarded /\ (Await(c) => client[c].pc = "await")
      BY <2>7 DEF Await, Collect, At, Forwarded
    <3>2. ASSUME NEW a, Answer(c, a) PROVE client'[c].pc = "open"
      BY <1>1, <3>2 DEF Answer, Typed, ClientState
    <3> QED
      BY <2>5, <2>6, <2>7, <3>1, <3>2 DEF Await, Collect
  <2>8. ASSUME NEW c \in Client, Forward(c) PROVE Descriptors'
    <3>1. client'[c].pc # "await" /\ client[c] \in ClientState
      BY <1>1, <1>6, <2>8
    <3>2. ~Goto(c, "await") /\ client' # [client EXCEPT ![c].pc = "await", ![c].cut = TRUE]
      BY <3>1 DEF Goto, Typed, ClientState
    <3>3. UNCHANGED idle
      BY <2>8, <3>2 DEF Forward
    <3> QED
      BY <2>5, <3>3
  <2>9. ASSUME NEW p \in Port, Expire(p) \/ Hangup(p) \/ Notice(p) \/ StopApp(p)
        PROVE  Descriptors'
    <3>1. CASE Expire(p)
      BY <2>4, <3>1 DEF Expire, Typed, Held
    <3>2. CASE Hangup(p)
      BY <2>4, <3>2 DEF Hangup, Typed, Held
    <3>3. CASE Notice(p)
      BY <2>4, <3>3 DEF Notice, Typed, Held
    <3>4. CASE StopApp(p)
      BY <2>4, <3>4 DEF StopApp, Typed, Held
    <3> QED
      BY <2>9, <3>1, <3>2, <3>3, <3>4
  <2> QED
    BY <1>6, <2>5, <2>7, <2>8, <2>9
       DEF Next, vars, Lookup, Send, Malformed, Receive, Connect, Handshake,
           Close, Request, Route, Abort, Break, StartApp, Relink
<1> QED
  BY <1>4, <1>5, <1>6

(***************************************************************************)
(* The inductive invariant, and what follows from it.                      *)
(***************************************************************************)

\* At first nobody is connected, and nothing listens.
LEMMA ServingInit == Init => ServingInv
<1> SUFFICES ASSUME Init PROVE ServingInv
  OBVIOUS
<1>1. Typed
  <2>1. client \in [Client -> ClientState]
    BY IdleTyped DEF Init
  <2> QED
    BY <2>1, ServingAssumption DEF Init, Typed, AnyPort
<1>2. Queued
  BY DEF Init, Queued
<1>3. In(Connected) = {} /\ In(Forwarded) = {} /\ Kept = {}
  BY DEF Init, In, Kept, Connected, Forwarded, Idle
<1>4. Descriptors
  BY <1>3, FS_EmptySet, ServingAssumption DEF Descriptors, Used
<1>6. ASSUME NEW c \in Client PROVE Sent(c) /\ Aimed(c)
  BY DEF Init, Sent, Aimed, Idle, Connected, Forwarded
<1> QED
  BY <1>1, <1>2, <1>4, <1>6 DEF ServingInv

\* The parts, each from the lemma about it.
LEMMA ServingNext ==
  ASSUME ServingInv, [Next]_vars
  PROVE  ServingInv'
<1>1. /\ Typed /\ Queued /\ Descriptors
      /\ \A c \in Client : Sent(c) /\ Aimed(c) /\ Turn(c)
  BY TurnNext DEF ServingInv
<1>2. Typed' /\ Queued'
  BY <1>1, TypedNext, QueuedNext
<1>3. Descriptors'
  BY <1>1, <1>2, DescriptorsNext
<1>4. ASSUME NEW c \in Client PROVE Sent(c)' /\ Aimed(c)'
  BY <1>1, <1>4, SentNext, AimedNext
<1> QED
  BY <1>2, <1>3, <1>4 DEF ServingInv

\* The invariant holds, for any number of clients, apps, ports and descriptors.
THEOREM ServingInvariant == Spec => []ServingInv
BY ServingInit, ServingNext, PTL DEF Spec

\* TypeOK: every reachable state is well typed, whoever waits to be accepted is in the
\* queue, and the daemon uses no more file descriptors than it has.
THEOREM ServingTypeCorrect == Spec => []TypeOK
<1>1. ServingInv => TypeOK
  BY DEF ServingInv, Typed, ClientState, AnyPort, Queued, Descriptors, TypeOK
<1> QED
  BY <1>1, ServingInvariant, PTL

\* Agree: the proxy turns nobody away for its host whom the DNS server sent to it, but
\* for final dots, capitals in the top-level domain, and that domain itself.
THEOREM ServersAgree == Spec => []Agree
<1>1. ServingInv => Agree
  BY DEF ServingInv, Typed, ClientState, Sent, IsTestDomain, ExtractAppName, Agree
<1> QED
  BY <1>1, ServingInvariant, PTL

=============================================================================
