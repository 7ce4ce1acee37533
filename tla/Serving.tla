------------------------------ MODULE Serving -------------------------------
(***************************************************************************)
(* The way of a client to an app: it asks the DNS server over UDP, is      *)
(* accepted by the HTTPS server, and sends requests over its connection,   *)
(* each of which the proxy forwards to the port that is registered by then.*)
(* Meanwhile apps are linked, started and stopped, datagrams are lost, and *)
(* the daemon runs out of file descriptors, which the connections of the   *)
(* clients, the connections to the apps and the reading of a port file all *)
(* need.  AppRegistry takes the reading of the registry apart, CertResolver*)
(* the TLS handshake; here each is one step.  A connection that a request  *)
(* finds closed before anything was sent is dropped and the next one tried: *)
(* that is the step Notice, followed by Forward.                           *)
(***************************************************************************)
EXTENDS Names, Naturals, Sequences, FiniteSets

CONSTANTS
  Client,   \* clients, each with one connection at a time
  Question, \* what they ask DNS for: a host and a type of record
  Id,       \* identifiers of DNS queries
  Port,     \* ports on which apps listen
  NoPort,   \* "not registered"
  Buffer,   \* datagrams the DNS socket holds
  Fds,      \* file descriptors that are left for connections and files
  MaxFaults \* bound on malformed datagrams, lost replies, connections a live app breaks

ASSUME ServingAssumption ==
  /\ Question \subseteq [host : Spelling, type : {"A", "AAAA"}]
  /\ NoApp \notin App /\ NoPort \notin Port
  /\ Buffer \in Nat /\ Fds \in Nat /\ MaxFaults \in Nat

VARIABLES
  client,   \* the clients, with the handler of a request while it runs
  inbox,    \* datagrams that wait at the DNS socket
  backlog,  \* clients that wait to be accepted
  pool,     \* idle connections to each port that the proxy keeps
  stale,    \* those of them that the app has closed, unnoticed so far
  link,     \* the registered port of each app
  up,       \* the ports on which an app listens
  faults    \* how many faults have happened

dns == <<inbox, faults>>
idle == <<pool, stale>>
world == <<link, up>>
vars == <<client, dns, backlog, idle, world>>

(***************************************************************************)
(* A client is idle, asks DNS, waits for its connection, has one open, or  *)
(* has a request under way: to be routed, forwarded, waiting for the head  *)
(* of the app's answer, reading its body.                                  *)
(***************************************************************************)
Idle == [pc |-> "idle", host |-> Plain(NoApp), type |-> "A", id |-> 0,
         port |-> NoPort, cut |-> FALSE, got |-> "none"]

Connected == {"accepted", "open", "route", "forward", "await", "body"}
Forwarded == {"await", "body"}
InRequest == {"route", "forward", "await", "body"}

At(c, l) == client[c].pc = l
Goto(c, l) == client' = [client EXCEPT ![c].pc = l]
In(S) == {c \in Client : client[c].pc \in S}

\* Every connection has a descriptor, in the pool too, until it is dropped.
Kept == UNION {{p} \X (1..(pool[p] + stale[p])) : p \in Port}
Used == Cardinality(In(Connected)) + Cardinality(In(Forwarded)) + Cardinality(Kept)
Full == Used >= Fds

Init ==
  /\ client = [c \in Client |-> Idle]
  /\ inbox = <<>> /\ backlog = <<>>
  /\ pool = [p \in Port |-> 0] /\ stale = [p \in Port |-> 0]
  /\ link = [a \in App |-> NoPort]
  /\ up = {}
  /\ faults = 0

(***************************************************************************)
(* DNS.  A query is answered or not while the client still waits for it;   *)
(* it is sent again until then.                                            *)
(***************************************************************************)
Junk == [from |-> "junk", id |-> 0, host |-> Plain(NoApp), type |-> "A"]
Query(c) == [from |-> c, id |-> client[c].id, host |-> client[c].host, type |-> client[c].type]

Arrives(m) == inbox' = IF Len(inbox) < Buffer THEN Append(inbox, m) ELSE inbox

Lookup(c, q, i) ==
  /\ At(c, "idle")
  /\ \A k \in 1..Len(inbox) : inbox[k].from = c => inbox[k].id # i
  /\ client' = [client EXCEPT ![c] =
                  [Idle EXCEPT !.pc = "ask", !.host = q.host, !.type = q.type, !.id = i]]
  /\ UNCHANGED <<dns, backlog, idle, world>>

Send(c) ==
  /\ At(c, "ask") /\ Arrives(Query(c))
  /\ UNCHANGED <<client, faults, backlog, idle, world>>

Malformed ==
  /\ faults < MaxFaults /\ faults' = faults + 1
  /\ Arrives(Junk)
  /\ UNCHANGED <<client, backlog, idle, world>>

\* handle_query: the addresses in the answer.
HandleQuery(m) == IF IsTestDomain(m.host) /\ m.type = "A" THEN {"localhost"} ELSE {}

\* Only the client that asked with this identifier takes the reply.
Reply(m) ==
  client' = [c \in Client |->
    IF c = m.from /\ At(c, "ask") /\ client[c].id = m.id
    THEN IF HandleQuery(m) = {} THEN Idle
         ELSE [Idle EXCEPT !.pc = "resolved", !.host = m.host]
    ELSE client[c]]

\* Mutant: an error ends the loop.
ReceiveStops ==
  /\ inbox # <<>> /\ Head(inbox) # Junk
  /\ inbox' = Tail(inbox) /\ Reply(Head(inbox))
  /\ UNCHANGED <<faults, backlog, idle, world>>

\* The loop of run_dns_server: whatever goes wrong, the next datagram is read.
Receive ==
  /\ inbox # <<>>
  /\ inbox' = Tail(inbox)
  /\ \/ Head(inbox) # Junk /\ Reply(Head(inbox)) /\ UNCHANGED faults
     \/ Head(inbox) = Junk /\ UNCHANGED <<client, faults>>
     \/ faults < MaxFaults /\ faults' = faults + 1 /\ UNCHANGED client
  /\ UNCHANGED <<backlog, idle, world>>

(***************************************************************************)
(* Connections.                                                            *)
(***************************************************************************)
Connect(c) ==
  /\ At(c, "resolved") /\ Goto(c, "backlog")
  /\ backlog' = Append(backlog, c)
  /\ UNCHANGED <<dns, idle, world>>

\* The loop of run_https_server: when accept fails for want of a descriptor,
\* the connection stays in the queue and accept is called again.
Accept ==
  /\ backlog # <<>> /\ ~Full
  /\ Goto(Head(backlog), "accepted")
  /\ backlog' = Tail(backlog)
  /\ UNCHANGED <<dns, idle, world>>

\* The TLS handshake, which may fail.
Handshake(c) ==
  /\ At(c, "accepted")
  /\ Goto(c, "open") \/ client' = [client EXCEPT ![c] = Idle]
  /\ UNCHANGED <<dns, backlog, idle, world>>

Close(c) ==
  /\ At(c, "open")
  /\ client' = [client EXCEPT ![c] = Idle]
  /\ UNCHANGED <<dns, backlog, idle, world>>

(***************************************************************************)
(* Requests: handler.                                                      *)
(***************************************************************************)
Request(c) ==
  /\ At(c, "open")
  /\ client' = [client EXCEPT ![c].pc = "route", ![c].port = NoPort, ![c].got = "none"]
  /\ UNCHANGED <<dns, backlog, idle, world>>

Answer(c, a) ==
  client' = [client EXCEPT ![c].pc = "open", ![c].cut = FALSE, ![c].got = a]

\* A port file that cannot be opened is no port.
ResolvePort(a) == IF Full THEN NoPort ELSE link[a]

Route(c) ==
  LET a == ExtractAppName(client[c].host)
  IN /\ At(c, "route")
     /\ IF a = NoApp THEN Answer(c, "no_test")
        ELSE IF ResolvePort(a) = NoPort THEN Answer(c, "no_app")
        ELSE client' = [client EXCEPT ![c].pc = "forward", ![c].port = ResolvePort(a)]
     /\ UNCHANGED <<dns, backlog, idle, world>>

\* Mutant: a connection in use can be had by others too.
TakenShared(p) == pool
Taken(p) == [pool EXCEPT ![p] = @ - 1]

\* Mutant: the request waits for a descriptor.
RefusedDown(p) == ~Full /\ p \notin up
Refused(p) == Full \/ p \notin up

\* An idle connection to the port is used, or a new one is opened; what is sent
\* over one that the app has closed is lost.
Forward(c) ==
  LET p == client[c].port
  IN /\ At(c, "forward")
     /\ \/ pool[p] > 0 /\ Goto(c, "await") /\ pool' = Taken(p) /\ UNCHANGED stale
        \/ /\ stale[p] > 0 /\ stale' = [stale EXCEPT ![p] = @ - 1] /\ UNCHANGED pool
           /\ client' = [client EXCEPT ![c].pc = "await", ![c].cut = TRUE]
        \/ /\ pool[p] + stale[p] = 0 /\ UNCHANGED idle
           /\ \/ p \in up /\ ~Full /\ Goto(c, "await")
              \/ Refused(p) /\ Answer(c, "bad_gateway")
     /\ UNCHANGED <<dns, backlog, world>>

\* Mutant: a broken connection goes back too, and is picked again.
ReleaseBroken(c) ==
  LET p == client[c].port
  IN /\ pool' = IF client[c].cut THEN pool ELSE [pool EXCEPT ![p] = @ + 1]
     /\ stale' = IF client[c].cut THEN [stale EXCEPT ![p] = @ + 1] ELSE stale

\* An unbroken connection goes back to the pool.
Release(c) ==
  /\ pool' = IF client[c].cut THEN pool ELSE [pool EXCEPT ![client[c].port] = @ + 1]
  /\ UNCHANGED stale

\* Any error of the connection is a 502.
Await(c) ==
  /\ At(c, "await")
  /\ IF client[c].cut THEN Answer(c, "bad_gateway") /\ Release(c)
     ELSE Goto(c, "body") /\ UNCHANGED idle
  /\ UNCHANGED <<dns, backlog, world>>

\* The body is collected whole, and any error on the way makes it empty.
Collect(c) ==
  /\ At(c, "body")
  /\ Answer(c, IF client[c].cut THEN "empty" ELSE "page") /\ Release(c)
  /\ UNCHANGED <<dns, backlog, world>>

\* The app lives, and yet the connection is refused or reset, or what comes over
\* it is no HTTP.
Break(c) ==
  /\ client[c].pc \in Forwarded /\ ~client[c].cut
  /\ faults < MaxFaults /\ faults' = faults + 1
  /\ client' = [client EXCEPT ![c].cut = TRUE]
  /\ UNCHANGED <<inbox, backlog, idle, world>>

\* A client that goes away takes the handler of its request with it, and the
\* connection to the app.
Abort(c) ==
  /\ client[c].pc \in InRequest
  /\ client' = [client EXCEPT ![c] = Idle]
  /\ UNCHANGED <<dns, backlog, idle, world>>

\* An idle connection is closed after a while, by the proxy,
Expire(p) ==
  /\ pool[p] > 0 /\ pool' = [pool EXCEPT ![p] = @ - 1]
  /\ UNCHANGED <<client, dns, backlog, stale, world>>

\* or by the app,
Hangup(p) ==
  /\ pool[p] > 0 /\ pool' = [pool EXCEPT ![p] = @ - 1]
  /\ stale' = [stale EXCEPT ![p] = @ + 1]
  /\ faults < MaxFaults /\ faults' = faults + 1
  /\ UNCHANGED <<client, inbox, backlog, world>>

\* which the proxy notices.
Notice(p) ==
  /\ stale[p] > 0 /\ stale' = [stale EXCEPT ![p] = @ - 1]
  /\ UNCHANGED <<client, dns, backlog, pool, world>>

(***************************************************************************)
(* The developer links and unlinks, starts and stops apps.                 *)
(***************************************************************************)
Relink(a) ==
  /\ \E p \in Port \cup {NoPort} : p # link[a] /\ link' = [link EXCEPT ![a] = p]
  /\ UNCHANGED <<client, dns, backlog, idle, up>>

StartApp(p) == p \notin up /\ up' = up \cup {p} /\ UNCHANGED <<client, dns, backlog, idle, link>>

StopApp(p) ==
  /\ p \in up /\ up' = up \ {p}
  /\ client' = [c \in Client |-> IF client[c].pc \in Forwarded /\ client[c].port = p
                                 THEN [client[c] EXCEPT !.cut = TRUE] ELSE client[c]]
  /\ pool' = [pool EXCEPT ![p] = 0]
  /\ stale' = [stale EXCEPT ![p] = @ + pool[p]]
  /\ UNCHANGED <<dns, backlog, link>>

-----------------------------------------------------------------------------
Next ==
  \/ \E c \in Client :
       \/ \E q \in Question, i \in Id : Lookup(c, q, i)
       \/ Send(c)
       \/ Connect(c)
       \/ Handshake(c)
       \/ Close(c)
       \/ Request(c)
       \/ Route(c)
       \/ Forward(c)
       \/ Await(c)
       \/ Collect(c)
       \/ Break(c)
       \/ Abort(c)
  \/ Malformed
  \/ Receive
  \/ Accept
  \/ \E p \in Port : Expire(p) \/ Hangup(p) \/ Notice(p) \/ StartApp(p) \/ StopApp(p)
  \/ \E a \in App : Relink(a)

Spec == Init /\ [][Next]_vars

\* The tasks of the daemon run; apps answer while they live, and a client does
\* not keep a connection for ever; a query that is sent again and again is not
\* dropped each time.
Fairness ==
  /\ WF_vars(Receive) /\ WF_vars(Accept)
  /\ \A p \in Port : WF_vars(Expire(p)) /\ WF_vars(Notice(p))
  /\ \A c \in Client :
       /\ WF_vars(Connect(c)) /\ WF_vars(Handshake(c))
       /\ WF_vars(Route(c)) /\ WF_vars(Forward(c))
       /\ WF_vars(Await(c)) /\ WF_vars(Collect(c))
       /\ SF_vars(Send(c)) /\ SF_vars(Close(c))

FairSpec == Spec /\ Fairness

(***************************************************************************)
(* Properties.                                                             *)
(***************************************************************************)

\* Every variable has its type, and no more descriptors are used than there are.
TypeOK ==
  /\ \A c \in Client : /\ client[c].host \in Spelling
                       /\ client[c].port \in Port \cup {NoPort}
                       /\ client[c].cut \in BOOLEAN
  /\ Len(inbox) <= Buffer
  /\ \A k \in 1..Len(backlog) : At(backlog[k], "backlog")
  /\ Used <= Fds
  /\ up \subseteq Port /\ faults \in 0..MaxFaults

\* The DNS server and the proxy, which read a name each in their own way, agree
\* on what a .test domain is, final dots, capitals in the top-level domain and the
\* bare top-level domain excepted: whoever was sent here by the one is not turned
\* away by the other.
Agree ==
  \A c \in Client : client[c].got = "no_test" => \/ client[c].host.dot
                                                 \/ "tld" \in client[c].host.upper
                                                 \/ client[c].host.app = NoApp

\* Whoever asks for a .test host is connected in the end, whatever datagrams come
\* in between and however often accept fails for want of a descriptor.
Reached ==
  \A c \in Client : At(c, "ask") /\ HandleQuery(Query(c)) # {} ~> At(c, "accepted")

\* Every request is answered or given up by its client, also when all requests
\* need the descriptors that the others hold.
RequestsEnd == \A c \in Client : client[c].pc \in InRequest ~> client[c].pc \notin InRequest

\* Whatever has broken before, connections in use and in the pool included: once an
\* app stays linked to a port on which it stays up, and whoever needs a descriptor
\* finds one, errors come to an end, and every request that is answered gets the page.
Settled(a, p) ==
  link[a] = p /\ p \in up /\ \A c \in Client : client[c].pc \in {"route", "forward"} => ~Full
Failed(c, a) ==
  ExtractAppName(client[c].host) = a /\ client[c].got \in {"no_app", "bad_gateway", "empty"}
Recovers ==
  \A a \in App, p \in Port :
    <>[]Settled(a, p) => \A c \in Client : <>[]~Failed(c, a)
=============================================================================
