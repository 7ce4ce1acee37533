---------------------------- MODULE CertResolver ---------------------------
(***************************************************************************)
(* The certificates the HTTPS server presents.  Each TLS handshake is a    *)
(* task that calls resolve with the name the client asks for; the tasks    *)
(* share a cache behind a read-write lock, which is not held while a       *)
(* certificate is generated.                                               *)
(***************************************************************************)
EXTENDS Naturals, FiniteSets

CONSTANTS
  Handshake,  \* the handshakes in progress at the same time
  Sni,        \* names clients ask for
  NoSni,      \* a client that asks for none
  Norm,       \* the normal form of each name: lower case, no final dot
  NoCert      \* "no certificate"

ASSUME ResolverAssumption ==
  /\ Norm \in [Sni -> Sni] /\ \A s \in Sni : Norm[Norm[s]] = Norm[s]
  /\ NoSni \notin Sni
  /\ NoCert \notin Sni \X Nat
  /\ IsFiniteSet(Handshake)

VARIABLES
  cache,    \* the cached certificate of each name
  made,     \* how many certificates have been generated for each name
  task,     \* the handshakes, each with the names answered before it began
  answered  \* history: the names for which a handshake has had its certificate

vars == <<cache, made, task, answered>>

\* The n-th certificate generated for name s.
Cert == Sni \X Nat

Task == [pc : {"idle", "lookup", "generate", "insert", "done"},
         sni : Sni \cup {NoSni}, domain : Sni \cup {NoSni},
         key : Cert \cup {NoCert}, before : SUBSET Sni]
Idle == [pc |-> "idle", sni |-> NoSni, domain |-> NoSni, key |-> NoCert, before |-> {}]

Init ==
  /\ cache = [s \in Sni |-> NoCert]
  /\ made = [s \in Sni |-> 0]
  /\ task = [h \in Handshake |-> Idle]
  /\ answered = {}

\* Mutant: the name is used as it comes.
NormalizeNot(s) == s

Normalize(s) == Norm[s]

\* resolve: a client that names no server is refused.
Hello(h) ==
  /\ task[h].pc = "idle"
  /\ \/ \E s \in Sni :
          task' = [task EXCEPT ![h] =
                     [Idle EXCEPT !.pc = "lookup", !.sni = s, !.domain = Normalize(s),
                                  !.before = answered]]
     \/ task' = [task EXCEPT ![h] = [Idle EXCEPT !.pc = "done"]]
  /\ UNCHANGED <<cache, made, answered>>

Finish(h, k) ==
  /\ task' = [task EXCEPT ![h].pc = "done", ![h].key = k]
  /\ answered' = answered \cup {Norm[task[h].sni]}

\* Mutant: whatever certificate is cached will do.
LookupAny(h) ==
  /\ task[h].pc = "lookup"
  /\ \/ \E s \in Sni : cache[s] # NoCert /\ Finish(h, cache[s])
     \/ /\ \A s \in Sni : cache[s] = NoCert
        /\ task' = [task EXCEPT ![h].pc = "generate"] /\ UNCHANGED answered
  /\ UNCHANGED <<cache, made>>

\* resolve_domain, under the read lock.
Lookup(h) ==
  LET k == cache[task[h].domain]
  IN /\ task[h].pc = "lookup"
     /\ IF k # NoCert
        THEN Finish(h, k)
        ELSE task' = [task EXCEPT ![h].pc = "generate"] /\ UNCHANGED answered
     /\ UNCHANGED <<cache, made>>

\* build_certified_key, under no lock; an error ends the handshake.
Generate(h) ==
  LET d == task[h].domain
  IN /\ task[h].pc = "generate"
     /\ \/ /\ made' = [made EXCEPT ![d] = @ + 1]
           /\ task' = [task EXCEPT ![h].pc = "insert", ![h].key = <<d, made[d] + 1>>]
        \/ /\ task' = [task EXCEPT ![h].pc = "done"]
           /\ UNCHANGED made
     /\ UNCHANGED <<cache, answered>>

\* Mutant: the cache holds one certificate.
InsertOnly(h) ==
  /\ task[h].pc = "insert"
  /\ cache' = [s \in Sni |-> IF s = task[h].domain THEN task[h].key ELSE NoCert]
  /\ Finish(h, task[h].key)
  /\ UNCHANGED made

\* Mutant: the first certificate stays cached, and the handshake uses its own.
InsertKeepsFirst(h) ==
  /\ task[h].pc = "insert"
  /\ cache' = [cache EXCEPT ![task[h].domain] = IF @ = NoCert THEN task[h].key ELSE @]
  /\ Finish(h, task[h].key)
  /\ UNCHANGED made

\* Under the write lock; a certificate that another handshake has inserted
\* meanwhile is replaced.
Insert(h) ==
  /\ task[h].pc = "insert"
  /\ cache' = [cache EXCEPT ![task[h].domain] = task[h].key]
  /\ Finish(h, task[h].key)
  /\ UNCHANGED made

\* The connection is served and closed.
Close(h) ==
  /\ task[h].pc = "done"
  /\ task' = [task EXCEPT ![h] = Idle]
  /\ UNCHANGED <<cache, made, answered>>

Next ==
  \E h \in Handshake :
    Hello(h) \/ Lookup(h) \/ Generate(h) \/ Insert(h) \/ Close(h)

Spec == Init /\ [][Next]_vars

(***************************************************************************)
(* Properties.                                                             *)
(***************************************************************************)

\* Every variable has its type, and only normal forms are cached.
TypeOK ==
  /\ cache \in [Sni -> Cert \cup {NoCert}]
  /\ made \in [Sni -> Nat]
  /\ task \in [Handshake -> Task]
  /\ answered \subseteq Sni
  /\ \A s \in Sni : cache[s] # NoCert => Norm[s] = s

\* A handshake is answered with a certificate for the name it asked for.
ServedForName ==
  \A h \in Handshake : task[h].key # NoCert => task[h].key[1] = Norm[task[h].sni]

\* A handshake that begins after another one for the same name has had its
\* certificate generates none, whichever way the two names were written and
\* whatever other handshakes insert in between.
NoRegeneration ==
  \A h \in Handshake : task[h].pc = "generate" => Norm[task[h].sni] \notin task[h].before

\* However many handshakes there will ever be, a name costs no more
\* certificates than there are handshakes at the same time.
FewCerts ==
  \A d, s \in Sni : Norm[s] = d => made[d] <= Cardinality(Handshake) /\ (s # d => made[s] = 0)

(***************************************************************************)
(* The abstract specification: a call is answered when it reads the cache  *)
(* or writes it, and what it generates is nobody's business until then.    *)
(***************************************************************************)
Waiting(h) == task[h].pc \in {"lookup", "generate", "insert"}

Asked == [h \in Handshake |-> IF Waiting(h) THEN task[h].domain ELSE NoSni]
Early == {h \in Handshake : Waiting(h) /\ task[h].domain \notin task[h].before}
Got == [h \in Handshake |-> IF task[h].pc = "done" THEN task[h].key ELSE NoCert]

CC == INSTANCE CertCache WITH
        Client <- Handshake,
        Name <- Sni,
        NoName <- NoSni,
        current <- cache,
        asked <- Asked,
        early <- Early,
        got <- Got

\* However the handshakes interleave between the two locks, each of them is
\* answered as by a cache that does everything at one moment: with the current
\* certificate of its name or with a new one that is current from then on.
ImplementsCache == CC!Spec
=============================================================================
