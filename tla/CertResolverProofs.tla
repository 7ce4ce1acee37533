------------------------ MODULE CertResolverProofs -------------------------
(***************************************************************************)
(* Proofs about CertResolver, for any number of handshakes and names.      *)
(***************************************************************************)
EXTENDS CertResolver, FiniteSetTheorems, TLAPS

\* A handshake under way knows the normal form of its name.
Named ==
  \A h \in Handshake :
    task[h].pc \in {"lookup", "generate", "insert"} =>
      task[h].sni \in Sni /\ task[h].domain = Norm[task[h].sni]

\* What is cached for a name is a certificate for it ...
CachedForName == \A s \in Sni : cache[s] # NoCert => cache[s][1] = s

\* ... and what a handshake has been answered with stays cached, or another one
\* in its place.
AnsweredIsCached == \A s \in answered : cache[s] # NoCert

BeforeIsAnswered == \A h \in Handshake : task[h].before \subseteq answered

\* Whoever is about to insert a certificate has one.
Generated == \A h \in Handshake : task[h].pc = "insert" => task[h].key # NoCert

CacheInv ==
  /\ TypeOK /\ Named /\ Generated /\ CachedForName /\ AnsweredIsCached /\ BeforeIsAnswered
  /\ ServedForName /\ NoRegeneration

\* A normal form is a name, and its own normal form.
LEMMA NormType ==
  ASSUME NEW s \in Sni
  PROVE  Norm[s] \in Sni /\ Norm[Norm[s]] = Norm[s]
  BY ResolverAssumption

\* A name and a number are a certificate for that name.
LEMMA CertOf ==
  ASSUME NEW s \in Sni, NEW n \in Nat
  PROVE  <<s, n>> \in Cert /\ <<s, n>> # NoCert /\ <<s, n>>[1] = s
  BY ResolverAssumption DEF Cert

\* An empty cache, and nobody has asked.
LEMMA CacheInit == Init => CacheInv
  BY DEF Init, CacheInv, TypeOK, Named, Generated, CachedForName, AnsweredIsCached,
     BeforeIsAnswered,
         ServedForName, NoRegeneration, Task, Idle

\* One step per action; Hello, Generate and Close leave the cache alone.
LEMMA CacheStep ==
  ASSUME CacheInv, [Next]_vars
  PROVE  CacheInv'
<1> USE DEF CacheInv
<1>1. CASE UNCHANGED vars
  BY <1>1 DEF vars, TypeOK, Named, Generated, CachedForName, AnsweredIsCached, BeforeIsAnswered,
              ServedForName, NoRegeneration
<1>2. ASSUME NEW h \in Handshake, Hello(h) PROVE CacheInv'
  <2>1. UNCHANGED <<cache, made, answered>>
    BY <1>2 DEF Hello
  <2>2. ASSUME NEW s \in Sni,
               task' = [task EXCEPT ![h] = [pc |-> "lookup", sni |-> s, domain |-> Norm[s],
                                            key |-> NoCert, before |-> answered]]
        PROVE  CacheInv'
    <3>1. TypeOK'
      BY <2>1, <2>2, NormType DEF TypeOK, Task
    <3>2. Named' /\ Generated' /\ BeforeIsAnswered'
      BY <2>1, <2>2 DEF TypeOK, Named, Generated, BeforeIsAnswered
    <3>3. CachedForName' /\ AnsweredIsCached'
      BY <2>1 DEF CachedForName, AnsweredIsCached
    <3>4. ServedForName' /\ NoRegeneration'
      BY <2>2 DEF TypeOK, ServedForName, NoRegeneration
    <3> QED  BY <3>1, <3>2, <3>3, <3>4
  <2>3. CASE task' = [task EXCEPT ![h] = [pc |-> "done", sni |-> NoSni, domain |-> NoSni,
                                          key |-> NoCert, before |-> {}]]
    <3>1. TypeOK'
      BY <2>1, <2>3 DEF TypeOK, Task
    <3>2. Named' /\ Generated' /\ BeforeIsAnswered'
      BY <2>1, <2>3 DEF TypeOK, Named, Generated, BeforeIsAnswered
    <3>3. CachedForName' /\ AnsweredIsCached'
      BY <2>1 DEF CachedForName, AnsweredIsCached
    <3>4. ServedForName' /\ NoRegeneration'
      BY <2>3 DEF TypeOK, ServedForName, NoRegeneration
    <3> QED  BY <3>1, <3>2, <3>3, <3>4
  <2> QED  BY <1>2, <2>2, <2>3 DEF Hello, Idle, Normalize
<1>3. ASSUME NEW h \in Handshake, Lookup(h) PROVE CacheInv'
  <2> DEFINE d == task[h].domain
  <2>1. task[h] \in Task /\ task[h].sni \in Sni /\ d = Norm[task[h].sni] /\ d \in Sni
    BY <1>3, NormType DEF Lookup, Named, TypeOK
  <2>2. UNCHANGED <<cache, made>>
    BY <1>3 DEF Lookup
  <2>3. CASE cache[d] # NoCert
    <3>1. /\ task' = [task EXCEPT ![h].pc = "done", ![h].key = cache[d]]
          /\ answered' = answered \cup {d}
      BY <1>3, <2>1, <2>3 DEF Lookup, Finish
    <3>2. cache[d] \in Cert /\ cache[d][1] = d
      BY <2>1, <2>3 DEF TypeOK, CachedForName
    <3>3. TypeOK'
      BY <2>1, <2>2, <3>1, <3>2 DEF TypeOK, Task
    <3>4. Named' /\ Generated' /\ BeforeIsAnswered' /\ NoRegeneration'
      BY <3>1 DEF TypeOK, Named, Generated, BeforeIsAnswered, NoRegeneration
    <3>5. CachedForName' /\ AnsweredIsCached'
      BY <2>2, <2>3, <3>1 DEF CachedForName, AnsweredIsCached
    <3>6. ServedForName'
      BY <2>1, <3>1, <3>2 DEF TypeOK, ServedForName
    <3> QED  BY <3>3, <3>4, <3>5, <3>6
  <2>4. CASE cache[d] = NoCert
    <3>1. task' = [task EXCEPT ![h].pc = "generate"] /\ UNCHANGED answered
      BY <1>3, <2>4 DEF Lookup
    <3>2. TypeOK'
      BY <2>1, <2>2, <3>1 DEF TypeOK, Task
    <3>3. Named' /\ Generated' /\ BeforeIsAnswered' /\ ServedForName'
      BY <1>3, <3>1 DEF TypeOK, Named, Generated, BeforeIsAnswered, ServedForName, Lookup
    <3>4. CachedForName' /\ AnsweredIsCached'
      BY <2>2, <3>1 DEF CachedForName, AnsweredIsCached
    <3>5. Norm[task[h].sni] \notin task[h].before
      BY <1>3, <2>1, <2>4 DEF Lookup, BeforeIsAnswered, AnsweredIsCached
    <3>6. NoRegeneration'
      BY <3>1, <3>5 DEF TypeOK, NoRegeneration
    <3> QED  BY <3>2, <3>3, <3>4, <3>6
  <2> QED  BY <2>3, <2>4
<1>4. ASSUME NEW h \in Handshake, Generate(h) PROVE CacheInv'
  <2> DEFINE d == task[h].domain
  <2>1. task[h] \in Task /\ task[h].sni \in Sni /\ d = Norm[task[h].sni] /\ d \in Sni
    BY <1>4, NormType DEF Generate, Named, TypeOK
  <2>2. UNCHANGED <<cache, answered>>
    BY <1>4 DEF Generate
  <2>3. \/ /\ made' = [made EXCEPT ![d] = @ + 1]
           /\ task' = [task EXCEPT ![h].pc = "insert", ![h].key = <<d, made[d] + 1>>]
        \/ /\ task' = [task EXCEPT ![h].pc = "done"]
           /\ UNCHANGED made
    BY <1>4 DEF Generate
  <2>4. made[d] + 1 \in Nat
    BY <2>1 DEF TypeOK
  <2>5. /\ <<d, made[d] + 1>> \in Cert /\ <<d, made[d] + 1>>[1] = d
        /\ <<d, made[d] + 1>> # NoCert
    BY <2>1, <2>4, CertOf
  <2>6. made' \in [Sni -> Nat]
    BY <2>1, <2>3, <2>4 DEF TypeOK
  <2> DEFINE k == <<d, made[d] + 1>>
  <2>7. k \in Cert /\ k[1] = d /\ k # NoCert
    BY <2>5
  <2>8. \/ task' = [task EXCEPT ![h].pc = "insert", ![h].key = k]
         \/ task' = [task EXCEPT ![h].pc = "done"]
    BY <2>3
  <2>9. task[h].pc = "generate"
    BY <1>4 DEF Generate
  <2> HIDE DEF k
  <2>10. TypeOK'
    BY <2>1, <2>2, <2>6, <2>7, <2>8 DEF TypeOK, Task
  <2>11. Named' /\ BeforeIsAnswered' /\ NoRegeneration'
    <3>1. CASE task' = [task EXCEPT ![h].pc = "insert", ![h].key = k]
      BY <2>2, <2>9, <3>1 DEF TypeOK, Named, BeforeIsAnswered, NoRegeneration
    <3>2. CASE task' = [task EXCEPT ![h].pc = "done"]
      BY <2>2, <3>2 DEF TypeOK, Named, BeforeIsAnswered, NoRegeneration
    <3> QED  BY <2>8, <3>1, <3>2
  <2>12. CachedForName' /\ AnsweredIsCached'
    BY <2>2 DEF CachedForName, AnsweredIsCached
  <2>13. Generated' /\ ServedForName'
    <3>1. CASE task' = [task EXCEPT ![h].pc = "insert", ![h].key = k]
      BY <2>1, <2>7, <3>1 DEF TypeOK, Generated, ServedForName
    <3>2. CASE task' = [task EXCEPT ![h].pc = "done"]
      BY <3>2 DEF TypeOK, Generated, ServedForName
    <3> QED  BY <2>8, <3>1, <3>2
  <2> QED  BY <2>10, <2>11, <2>12, <2>13
<1>5. ASSUME NEW h \in Handshake, Insert(h) PROVE CacheInv'
  <2> DEFINE d == task[h].domain
             k == task[h].key
  <2>1. task[h] \in Task /\ task[h].sni \in Sni /\ d = Norm[task[h].sni] /\ d \in Sni
    BY <1>5, NormType DEF Insert, Named, TypeOK
  <2>2. k # NoCert /\ k \in Cert /\ k[1] = d
    BY <1>5, <2>1 DEF Insert, Generated, ServedForName, Task
  <2>3. /\ cache' = [cache EXCEPT ![d] = k] /\ UNCHANGED made
        /\ task' = [task EXCEPT ![h].pc = "done", ![h].key = k]
        /\ answered' = answered \cup {d}
    BY <1>5, <2>1 DEF Insert, Finish
  <2>4. Norm[d] = d
    BY <2>1, NormType
  <2>5. TypeOK'
    BY <2>1, <2>2, <2>3, <2>4 DEF TypeOK, Task
  <2>6. Named' /\ Generated' /\ BeforeIsAnswered' /\ NoRegeneration'
    BY <2>3 DEF TypeOK, Named, Generated, BeforeIsAnswered, NoRegeneration
  <2>7. CachedForName'
    BY <2>2, <2>3 DEF TypeOK, CachedForName
  <2>8. AnsweredIsCached'
    BY <2>1, <2>2, <2>3 DEF TypeOK, AnsweredIsCached
  <2>9. ServedForName'
    BY <2>3 DEF TypeOK, ServedForName
  <2> QED  BY <2>5, <2>6, <2>7, <2>8, <2>9
<1>6. ASSUME NEW h \in Handshake, Close(h) PROVE CacheInv'
  <2>1. /\ task' = [task EXCEPT ![h] = [pc |-> "idle", sni |-> NoSni, domain |-> NoSni,
                                        key |-> NoCert, before |-> {}]]
        /\ UNCHANGED <<cache, made, answered>>
    BY <1>6 DEF Close, Idle
  <2>2. TypeOK'
    BY <2>1 DEF TypeOK, Task
  <2>3. Named' /\ Generated' /\ BeforeIsAnswered' /\ NoRegeneration' /\ ServedForName'
    BY <2>1 DEF TypeOK, Named, Generated, BeforeIsAnswered, NoRegeneration, ServedForName
  <2>4. CachedForName' /\ AnsweredIsCached'
    BY <2>1 DEF CachedForName, AnsweredIsCached
  <2> QED  BY <2>2, <2>3, <2>4
<1> QED  BY <1>1, <1>2, <1>3, <1>4, <1>5, <1>6 DEF Next

\* CacheInv holds in every state.
LEMMA CacheInvariant == Spec => []CacheInv
  BY CacheInit, CacheStep, PTL DEF Spec

\* Every variable of the certificate resolver keeps its type.
THEOREM ResolverTypeCorrect == Spec => []TypeOK
  BY CacheInvariant, PTL DEF CacheInv

\* No handshake is ever answered with the certificate of another name, however
\* its client spells the name and whoever inserts meanwhile.
THEOREM RightCertificate == Spec => []ServedForName
  BY CacheInvariant, PTL DEF CacheInv

\* Once a name has been answered, no handshake that begins later generates a
\* certificate for it.
THEOREM CachedForever == Spec => []NoRegeneration
  BY CacheInvariant, PTL DEF CacheInv

(***************************************************************************)
(* CertResolver implements CertCache.                                      *)
(***************************************************************************)

\* Before it has a certificate, a handshake has none to be answered with.
NoKeyYet == \A h \in Handshake : task[h].pc \in {"lookup", "generate"} => task[h].key = NoCert

CachedIsAnswered == \A s \in Sni : cache[s] # NoCert => s \in answered

\* Whoever inserts began before its name had been answered.
InsertsEarly ==
  \A h \in Handshake : task[h].pc = "insert" => task[h].domain \notin task[h].before

AnswerInv == CacheInv /\ NoKeyYet /\ CachedIsAnswered /\ InsertsEarly

\* At first nothing is cached and nobody inserts.
LEMMA AnswerInit == Init => AnswerInv
  BY CacheInit DEF Init, AnswerInv, NoKeyYet, CachedIsAnswered, InsertsEarly, Idle

\* Only Lookup (which misses) and Generate bring a task towards its insert.
LEMMA AnswerStep ==
  ASSUME AnswerInv, [Next]_vars
  PROVE  AnswerInv'
<1> USE DEF AnswerInv
<1>1. CacheInv'
  BY CacheStep
<1> SUFFICES NoKeyYet' /\ CachedIsAnswered' /\ InsertsEarly'
  BY <1>1
<1>2. TypeOK
  BY DEF CacheInv
<1>3. CASE UNCHANGED vars
  BY <1>3 DEF vars, NoKeyYet, CachedIsAnswered, InsertsEarly
<1>4. ASSUME NEW h \in Handshake, Hello(h)
      PROVE  NoKeyYet' /\ CachedIsAnswered' /\ InsertsEarly'
  <2>1. /\ UNCHANGED <<cache, answered>>
        /\ \A g \in Handshake \ {h} : task'[g] = task[g]
        /\ task'[h].key = NoCert /\ task'[h].pc # "insert"
    BY <1>2, <1>4 DEF Hello, Idle, TypeOK
  <2> QED  BY <2>1 DEF NoKeyYet, CachedIsAnswered, InsertsEarly
<1>5. ASSUME NEW h \in Handshake, Lookup(h)
      PROVE  NoKeyYet' /\ CachedIsAnswered' /\ InsertsEarly'
  <2>1. CASE task' = [task EXCEPT ![h].pc = "generate"] /\ UNCHANGED <<cache, answered>>
    BY <1>2, <1>5, <2>1 DEF Lookup, TypeOK, NoKeyYet, CachedIsAnswered, InsertsEarly
  <2>2. CASE Finish(h, cache[task[h].domain]) /\ UNCHANGED cache
    BY <1>2, <2>2 DEF Finish, TypeOK, NoKeyYet, CachedIsAnswered, InsertsEarly
  <2> QED  BY <1>5, <2>1, <2>2 DEF Lookup
<1>6. ASSUME NEW h \in Handshake, Generate(h)
      PROVE  NoKeyYet' /\ CachedIsAnswered' /\ InsertsEarly'
  <2>1. task[h].pc = "generate" /\ task[h].domain \notin task[h].before
    BY <1>6 DEF Generate, CacheInv, Named, NoRegeneration
  <2>2. UNCHANGED <<cache, answered>>
    BY <1>6 DEF Generate
  <2>3. CASE \E k : task' = [task EXCEPT ![h].pc = "insert", ![h].key = k]
    BY <1>2, <2>1, <2>2, <2>3 DEF TypeOK, NoKeyYet, CachedIsAnswered, InsertsEarly
  <2>4. CASE task' = [task EXCEPT ![h].pc = "done"]
    BY <1>2, <2>2, <2>4 DEF TypeOK, NoKeyYet, CachedIsAnswered, InsertsEarly
  <2> QED  BY <1>6, <2>3, <2>4 DEF Generate
<1>7. ASSUME NEW h \in Handshake, Insert(h)
      PROVE  NoKeyYet' /\ CachedIsAnswered' /\ InsertsEarly'
  <2>1. task[h].domain = Norm[task[h].sni]
    BY <1>7 DEF Insert, CacheInv, Named
  <2> QED  BY <1>2, <1>7, <2>1 DEF Insert, Finish, TypeOK, NoKeyYet, CachedIsAnswered,
     InsertsEarly
<1>8. ASSUME NEW h \in Handshake, Close(h)
      PROVE  NoKeyYet' /\ CachedIsAnswered' /\ InsertsEarly'
  BY <1>2, <1>8 DEF Close, Idle, TypeOK, NoKeyYet, CachedIsAnswered, InsertsEarly
<1> QED  BY <1>3, <1>4, <1>5, <1>6, <1>7, <1>8 DEF Next

\* The initial states of CertResolver are initial states of CertCache.
LEMMA AbstractInit == Init => CC!Init
  BY DEF Init, CC!Init, Asked, Early, Got, Waiting, Idle

\* Every step of CertResolver is a step of CertCache or stutters there.
LEMMA AbstractStep ==
  ASSUME AnswerInv, [Next]_vars
  PROVE  [CC!Next]_CC!vars
<1>1. TypeOK /\ Named
  BY DEF AnswerInv, CacheInv
<1>2. CASE UNCHANGED vars
  BY <1>2 DEF vars, CC!vars, Asked, Early, Got, Waiting
<1>3. ASSUME NEW h \in Handshake, Hello(h) PROVE [CC!Next]_CC!vars
  <2>1. task[h].pc = "idle" /\ UNCHANGED <<cache, made, answered>>
    BY <1>3 DEF Hello
  <2>2. ASSUME NEW s \in Sni,
               task' = [task EXCEPT ![h] = [pc |-> "lookup", sni |-> s, domain |-> Norm[s],
                                            key |-> NoCert, before |-> answered]]
        PROVE  CC!Ask(h, Norm[s])
    <3>1. Norm[s] \in Sni /\ (Norm[s] \in answered <=> cache[Norm[s]] # NoCert)
      BY NormType DEF AnswerInv, CacheInv, AnsweredIsCached, CachedIsAnswered
    <3>2. Asked[h] = NoSni /\ Asked' = [Asked EXCEPT ![h] = Norm[s]]
      BY <1>1, <2>1, <2>2 DEF TypeOK, Asked, Waiting
    <3>3. Early' = Early \cup {d \in {h} : cache[Norm[s]] = NoCert}
      BY <1>1, <2>1, <2>2, <3>1 DEF TypeOK, Early, Waiting
    <3>4. Got' = Got
      BY <1>1, <2>1, <2>2 DEF TypeOK, Got
    <3> QED  BY <2>1, <3>2, <3>3, <3>4 DEF CC!Ask
  <2>3. CASE task' = [task EXCEPT ![h] = [pc |-> "done", sni |-> NoSni, domain |-> NoSni,
                                          key |-> NoCert, before |-> {}]]
    <3>1. Asked' = Asked
      BY <1>1, <2>1, <2>3 DEF TypeOK, Asked, Waiting
    <3>2. Early' = Early
      BY <1>1, <2>1, <2>3 DEF TypeOK, Early, Waiting
    <3>3. Got' = Got
      BY <1>1, <2>1, <2>3 DEF TypeOK, Got
    <3> QED  BY <2>1, <3>1, <3>2, <3>3 DEF CC!vars
  <2>4. ASSUME NEW s \in Sni, CC!Ask(h, Norm[s]) PROVE CC!Next
    BY <2>4, NormType DEF CC!Next
  <2> QED  BY <1>3, <2>2, <2>3, <2>4 DEF Hello, Idle, Normalize
<1>4. ASSUME NEW h \in Handshake, Waiting(h), NEW k, k # NoCert,
             task' = [task EXCEPT ![h].pc = "done", ![h].key = k]
      PROVE  CC!Answer(h) /\ Got'[h] = k /\ Asked[h] = task[h].domain
  <2>1. Asked[h] = task[h].domain /\ Asked[h] # NoSni
    BY <1>1, <1>4, NormType, ResolverAssumption DEF Asked, Waiting, Named
  <2> /\ task'[h].pc = "done" /\ task'[h].key = k
      /\ \A g \in Handshake \ {h} : task'[g] = task[g]
    BY <1>1, <1>4 DEF TypeOK, Task
  <2>2. Asked' = [Asked EXCEPT ![h] = NoSni]
    BY DEF Asked, Waiting
  <2>3. Early' = Early \ {h}
    BY <1>1, <1>4 DEF TypeOK, Early, Waiting
  <2>4. Got'[h] = k /\ Got' = [Got EXCEPT ![h] = k]
    BY DEF Got
  <2> QED  BY <1>4, <2>1, <2>2, <2>3, <2>4 DEF CC!Answer, CC!End
<1>5. ASSUME NEW h \in Handshake, Lookup(h) PROVE [CC!Next]_CC!vars
  <2> DEFINE k == cache[task[h].domain]
  <2>1. Waiting(h) /\ UNCHANGED cache
    BY <1>5 DEF Lookup, Waiting
  <2>2. CASE k # NoCert
    <3>1. task' = [task EXCEPT ![h].pc = "done", ![h].key = k]
      BY <1>5, <2>2 DEF Lookup, Finish
    <3>2. CC!Give(h)
      BY <1>4, <2>1, <2>2, <3>1 DEF CC!Give
    <3> QED  BY <3>2 DEF CC!Next
  <2>3. CASE task' = [task EXCEPT ![h].pc = "generate"]
    <3>1. Asked' = Asked
      BY <1>1, <2>1, <2>3 DEF TypeOK, Asked, Waiting
    <3>2. Early' = Early
      BY <1>1, <2>1, <2>3 DEF TypeOK, Early, Waiting
    <3>3. Got' = Got
      BY <1>1, <2>1, <2>3 DEF TypeOK, Got, Waiting
    <3> QED  BY <2>1, <3>1, <3>2, <3>3 DEF CC!vars
  <2> QED  BY <1>5, <2>2, <2>3 DEF Lookup
<1>6. ASSUME NEW h \in Handshake, Generate(h) PROVE [CC!Next]_CC!vars
  <2>1. Waiting(h) /\ task[h].pc = "generate" /\ UNCHANGED cache
    BY <1>6 DEF Generate, Waiting
  <2>2. ASSUME NEW k, task' = [task EXCEPT ![h].pc = "insert", ![h].key = k]
        PROVE  UNCHANGED CC!vars
    <3>1. Asked' = Asked
      BY <1>1, <2>1, <2>2 DEF TypeOK, Asked, Waiting
    <3>2. Early' = Early
      BY <1>1, <2>1, <2>2 DEF TypeOK, Early, Waiting
    <3>3. Got' = Got
      BY <1>1, <2>1, <2>2 DEF TypeOK, Got, Waiting
    <3> QED  BY <2>1, <3>1, <3>2, <3>3 DEF CC!vars
  <2>3. CASE task' = [task EXCEPT ![h].pc = "done"]
    <3>1. h \in Early
      BY <1>1, <2>1 DEF AnswerInv, CacheInv, NoRegeneration, Named, Early
    <3>2. Asked[h] # NoSni
      BY <1>1, <2>1, NormType, ResolverAssumption DEF Asked, Waiting, Named
    <3> /\ task'[h].pc = "done"
        /\ \A g \in Handshake \ {h} : task'[g] = task[g]
      BY <1>1, <2>3 DEF TypeOK, Task
    <3>3. Asked' = [Asked EXCEPT ![h] = NoSni]
      BY DEF Asked, Waiting
    <3>4. Early' = Early \ {h}
      BY <1>1, <2>3 DEF TypeOK, Early, Waiting
    <3>5. Got' = Got
      BY <1>1, <2>1, <2>3 DEF TypeOK, Got, AnswerInv, NoKeyYet
    <3>6. CC!Refuse(h)
      BY <2>1, <3>1, <3>2, <3>3, <3>4, <3>5 DEF CC!Refuse, CC!End
    <3> QED  BY <3>6 DEF CC!Next
  <2> QED  BY <1>6, <2>2, <2>3 DEF Generate
<1>7. ASSUME NEW h \in Handshake, Insert(h) PROVE [CC!Next]_CC!vars
  <2> DEFINE d == task[h].domain
             k == task[h].key
  <2>1. Waiting(h) /\ task[h].pc = "insert" /\ cache' = [cache EXCEPT ![d] = k]
    BY <1>7 DEF Insert, Waiting
  <2>2. task' = [task EXCEPT ![h].pc = "done", ![h].key = k]
    BY <1>7 DEF Insert, Finish
  <2>3. k # NoCert /\ k \in Cert /\ k[1] = d
    BY <1>1, <2>1 DEF AnswerInv, CacheInv, Generated, ServedForName, Named, TypeOK, Task
  <2>4. k \in {d} \X Nat
    BY <2>3 DEF Cert
  <2>5. h \in Early
    BY <2>1 DEF AnswerInv, InsertsEarly, Early
  <2>6. CC!Issue(h)
    BY <1>4, <2>1, <2>2, <2>3, <2>4, <2>5 DEF CC!Issue
  <2> QED  BY <2>6 DEF CC!Next
<1>8. ASSUME NEW h \in Handshake, Close(h) PROVE [CC!Next]_CC!vars
  <2>1. /\ task[h].pc = "done" /\ UNCHANGED cache
        /\ task' = [task EXCEPT ![h] = [pc |-> "idle", sni |-> NoSni, domain |-> NoSni,
                                        key |-> NoCert, before |-> {}]]
    BY <1>8 DEF Close, Idle
  <2>2. Asked' = Asked
    BY <1>1, <2>1 DEF TypeOK, Asked, Waiting
  <2>3. Early' = Early
    BY <1>1, <2>1 DEF TypeOK, Early, Waiting
  <2>4. Got' = [Got EXCEPT ![h] = NoCert]
    BY <1>1, <2>1 DEF TypeOK, Got
  <2>5. CC!Forget(h)
    BY <2>1, <2>2, <2>3, <2>4 DEF CC!Forget
  <2> QED  BY <2>5 DEF CC!Next
<1> QED  BY <1>2, <1>3, <1>5, <1>6, <1>7, <1>8 DEF Next

\* For any number of handshakes and names, the resolver with its cache, its two
\* locks and the gap between them implements the cache that answers at once.
THEOREM CacheRefinement == Spec => ImplementsCache
<1>1. Spec => []AnswerInv
  BY AnswerInit, AnswerStep, PTL DEF Spec
<1> QED  BY <1>1, AbstractInit, AbstractStep, PTL DEF Spec, ImplementsCache, CC!Spec

(***************************************************************************)
(* How many certificates a name costs.                                     *)
(*                                                                         *)
(* Until a name has been answered, whoever has generated a certificate for *)
(* it still holds it, to insert it: there are as many as such handshakes.  *)
(* From then on only those generate one that looked before, and each of    *)
(* them was counted out when it was answered or has failed.                *)
(***************************************************************************)
Inserting(d) == {h \in Handshake : task[h].pc = "insert" /\ task[h].domain = d}
Looking(d) == {h \in Handshake : /\ task[h].pc \in {"lookup", "generate"}
                                 /\ task[h].domain = d /\ d \notin task[h].before}

Counted(d) ==
  /\ d \notin answered => made[d] = Cardinality(Inserting(d))
  /\ d \in answered => made[d] + Cardinality(Looking(d)) <= Cardinality(Handshake)

NormalMade == \A s \in Sni : Norm[s] # s => made[s] = 0

CountInv == AnswerInv /\ NormalMade /\ \A d \in Sni : Counted(d)

\* Both sets are finite, and nobody is in both.
LEMMA Counts ==
  ASSUME NEW d
  PROVE  /\ IsFiniteSet(Inserting(d)) /\ IsFiniteSet(Looking(d))
         /\ Cardinality(Inserting(d)) \in Nat /\ Cardinality(Looking(d)) \in Nat
         /\ Cardinality(Handshake) \in Nat
         /\ Cardinality(Inserting(d)) <= Cardinality(Handshake)
         /\ Cardinality(Inserting(d)) + Cardinality(Looking(d)) <= Cardinality(Handshake)
<1>1. IsFiniteSet(Handshake)
  BY ResolverAssumption
<1>2. Inserting(d) \in SUBSET Handshake /\ Looking(d) \in SUBSET Handshake
      /\ Inserting(d) \cup Looking(d) \in SUBSET Handshake
  BY DEF Inserting, Looking
<1>3. Inserting(d) \cap Looking(d) = {}
  BY DEF Inserting, Looking
<1>4. IsFiniteSet(Inserting(d)) /\ IsFiniteSet(Looking(d))
      /\ Cardinality(Inserting(d)) <= Cardinality(Handshake)
  BY <1>1, <1>2, FS_Subset
<1>5. Cardinality(Inserting(d) \cup Looking(d)) <= Cardinality(Handshake)
  BY <1>1, <1>2, FS_Subset
<1>6. Cardinality(Inserting(d) \cup Looking(d))
        = Cardinality(Inserting(d)) + Cardinality(Looking(d))
  <2>1. Cardinality({}) = 0
    BY FS_EmptySet
  <2>2. Cardinality(Inserting(d) \cup Looking(d))
          = Cardinality(Inserting(d)) + Cardinality(Looking(d))
              - Cardinality(Inserting(d) \cap Looking(d))
    BY <1>4, FS_Union
  <2>3. Cardinality(Inserting(d) \cap Looking(d)) = 0
    BY <1>3, <2>1
  <2>4. Cardinality(Inserting(d)) \in Nat /\ Cardinality(Looking(d)) \in Nat
    BY <1>4, FS_CardinalityType
  <2> QED
    BY <2>2, <2>3, <2>4
<1> QED
  BY <1>1, <1>4, <1>5, <1>6, FS_CardinalityType

\* Nothing is made, and whoever looks or inserts has done so before.
LEMMA StillCounted ==
  ASSUME NEW d \in Sni, Counted(d), made[d] \in Nat, made'[d] = made[d],
         d \in answered' <=> d \in answered,
         Inserting(d)' = Inserting(d), Looking(d)' \subseteq Looking(d) \/ d \notin answered
  PROVE  Counted(d)'
<1>1. CASE d \notin answered
  BY <1>1 DEF Counted
<1>2. CASE d \in answered
  <2>1. Looking(d)' \in SUBSET Looking(d)
    BY <1>2
  <2>2. /\ IsFiniteSet(Looking(d)') /\ Cardinality(Looking(d)') <= Cardinality(Looking(d))
        /\ Cardinality(Looking(d)') \in Nat
    BY <2>1, Counts, FS_Subset, FS_CardinalityType
  <2> QED
    BY <1>2, <2>2, Counts DEF Counted
<1> QED
  BY <1>1, <1>2

\* One step per action; only Generate and Insert count.
LEMMA CountNext ==
  ASSUME CountInv, [Next]_vars
  PROVE  CountInv'
<1>1. AnswerInv /\ AnswerInv' /\ CacheInv /\ TypeOK /\ Named /\ TypeOK'
  BY AnswerStep DEF CountInv, AnswerInv, CacheInv
<1>2. ASSUME UNCHANGED <<made, answered>>,
             \A d \in Sni : /\ Inserting(d)' = Inserting(d)
                            /\ Looking(d)' \subseteq Looking(d) \/ d \notin answered
      PROVE  CountInv'
  <2>1. NormalMade'
    BY <1>2 DEF CountInv, NormalMade
  <2>2. ASSUME NEW d \in Sni PROVE Counted(d)'
    BY <1>1, <1>2, StillCounted DEF CountInv, TypeOK
  <2> QED
    BY <1>1, <2>1, <2>2 DEF CountInv
<1>3. CASE UNCHANGED vars
  BY <1>2, <1>3 DEF vars, Inserting, Looking
<1>4. ASSUME NEW h \in Handshake, Hello(h) PROVE CountInv'
  <2>1. /\ UNCHANGED <<made, answered>> /\ task[h].pc = "idle"
        /\ \A g \in Handshake \ {h} : task'[g] = task[g]
        /\ task'[h].pc \in {"lookup", "done"}
        /\ task'[h].pc = "lookup" => task'[h].before = answered
    BY <1>1, <1>4 DEF Hello, Idle, TypeOK
  <2> QED
    BY <1>2, <2>1 DEF Inserting, Looking
<1>5. ASSUME NEW h \in Handshake, Lookup(h) PROVE CountInv'
  <2>1. UNCHANGED <<made, answered>>
    <3>1. Norm[task[h].sni] \in Sni /\ task[h].domain = Norm[task[h].sni]
      BY <1>1, <1>5, NormType DEF Lookup, Named
    <3>2. cache[task[h].domain] # NoCert => Norm[task[h].sni] \in answered
      BY <1>1, <3>1 DEF AnswerInv, CachedIsAnswered
    <3> QED
      BY <1>5, <3>2 DEF Lookup, Finish
  <2>2. /\ task[h].pc = "lookup" /\ \A g \in Handshake \ {h} : task'[g] = task[g]
        /\ task'[h].pc \in {"generate", "done"}
        /\ task'[h].domain = task[h].domain /\ task'[h].before = task[h].before
    BY <1>1, <1>5 DEF Lookup, Finish, TypeOK, Task
  <2> QED
    BY <1>2, <2>1, <2>2 DEF Inserting, Looking
<1>6. ASSUME NEW h \in Handshake, Generate(h) PROVE CountInv'
  <2>0. PICK d \in Sni : d = task[h].domain
    BY <1>1, <1>6, NormType DEF Generate, Named
  <2>1. /\ task[h].pc = "generate" /\ UNCHANGED answered /\ d \in Sni /\ Norm[d] = d
        /\ d \notin task[h].before
    BY <1>1, <1>6, <2>0, NormType DEF Generate, Named, CacheInv, NoRegeneration
  <2>2. CASE task' = [task EXCEPT ![h].pc = "done"] /\ UNCHANGED made
    <3>1. task'[h].pc = "done" /\ \A g \in Handshake \ {h} : task'[g] = task[g]
      BY <1>1, <2>2 DEF TypeOK, Task
    <3> QED
      BY <2>0, <1>2, <2>1, <2>2, <3>1 DEF Inserting, Looking
  <2>3. CASE /\ made' = [made EXCEPT ![d] = @ + 1]
             /\ task' = [task EXCEPT ![h].pc = "insert", ![h].key = <<d, made[d] + 1>>]
    <3>1. /\ task'[h].pc = "insert" /\ task'[h].domain = d
          /\ \A g \in Handshake \ {h} : task'[g] = task[g]
      BY <2>0, <1>1, <2>3 DEF TypeOK, Task
    <3>2. NormalMade'
      BY <2>0, <1>1, <2>1, <2>3 DEF CountInv, NormalMade, TypeOK
    <3>3. ASSUME NEW s \in Sni, s # d PROVE Counted(s)'
      <4>1. made'[s] = made[s] /\ made[s] \in Nat
        BY <2>0, <1>1, <2>3, <3>3 DEF TypeOK
      <4>2. Inserting(s)' = Inserting(s) /\ Looking(s)' = Looking(s)
        BY <2>0, <2>1, <3>1, <3>3 DEF Inserting, Looking
      <4> QED
        BY <2>0, <2>1, <4>1, <4>2, StillCounted DEF CountInv
    <3>4. Counted(d)'
      <4>1. made'[d] = made[d] + 1 /\ made[d] \in Nat
        BY <2>0, <1>1, <2>1, <2>3 DEF TypeOK
      <4>2. h \notin Inserting(d) /\ Inserting(d)' = Inserting(d) \cup {h}
        BY <2>0, <2>1, <3>1 DEF Inserting
      <4>3. h \in Looking(d) /\ Looking(d)' = Looking(d) \ {h}
        BY <2>0, <2>1, <3>1 DEF Looking
      <4>4. Cardinality(Inserting(d) \cup {h}) = Cardinality(Inserting(d)) + 1
        BY <4>2, Counts, FS_AddElement
      <4>5. Cardinality(Looking(d) \ {h}) = Cardinality(Looking(d)) - 1
        BY <4>3, Counts, FS_RemoveElement
      <4>6. Counted(d)
        BY <2>0, <2>1 DEF CountInv
      <4> QED
        BY <2>0, <2>1, <4>1, <4>2, <4>3, <4>4, <4>5, <4>6, Counts DEF Counted
    <3> QED
      BY <1>1, <3>2, <3>3, <3>4 DEF CountInv
  <2> QED
    BY <1>6, <2>0, <2>2, <2>3 DEF Generate
<1>7. ASSUME NEW h \in Handshake, Insert(h) PROVE CountInv'
  <2>0. PICK d \in Sni : d = task[h].domain
    BY <1>1, <1>7, NormType DEF Insert, Named
  <2>1. /\ task[h].pc = "insert" /\ UNCHANGED made /\ d \in Sni /\ Norm[d] = d
        /\ answered' = answered \cup {d}
    BY <1>1, <1>7, <2>0, NormType DEF Insert, Finish, Named
  <2>2. task'[h].pc = "done" /\ \A g \in Handshake \ {h} : task'[g] = task[g]
    BY <1>1, <1>7, <2>0 DEF Insert, Finish, TypeOK, Task
  <2>3. NormalMade'
    BY <2>0, <2>1 DEF CountInv, NormalMade
  <2>4. ASSUME NEW s \in Sni, s # d PROVE Counted(s)'
    <3>1. made'[s] = made[s] /\ made[s] \in Nat /\ (s \in answered' <=> s \in answered)
      BY <2>0, <1>1, <2>1, <2>4 DEF TypeOK
    <3>2. Inserting(s)' = Inserting(s) /\ Looking(s)' = Looking(s)
      BY <2>0, <2>1, <2>2, <2>4 DEF Inserting, Looking
    <3> QED
      BY <3>1, <3>2, StillCounted DEF CountInv
  <2>5. Counted(d)'
    <3>1. Looking(d)' = Looking(d) /\ d \in answered' /\ made'[d] = made[d]
      BY <2>0, <2>1, <2>2 DEF Looking
    <3>2. Counted(d) /\ made[d] \in Nat
      BY <2>0, <1>1, <2>1 DEF CountInv, TypeOK
    <3>3. made[d] + Cardinality(Looking(d)) <= Cardinality(Handshake)
      BY <3>2, Counts DEF Counted
    <3> QED
      BY <3>1, <3>3 DEF Counted
  <2> QED
    BY <2>0, <1>1, <2>3, <2>4, <2>5 DEF CountInv
<1>8. ASSUME NEW h \in Handshake, Close(h) PROVE CountInv'
  <2>1. /\ UNCHANGED <<made, answered>> /\ task[h].pc = "done" /\ task'[h].pc = "idle"
        /\ \A g \in Handshake \ {h} : task'[g] = task[g]
    BY <1>1, <1>8 DEF Close, Idle, TypeOK
  <2> QED
    BY <1>2, <2>1 DEF Inserting, Looking
<1> QED
  BY <1>3, <1>4, <1>5, <1>6, <1>7, <1>8 DEF Next

\* FewCerts: for any number of names and any series of handshakes, a name costs no
\* more certificates than there are handshakes at the same time, and its other
\* spellings cost none.
THEOREM CertsAreFew == Spec => []FewCerts
<1>1. Init => CountInv
  <2> SUFFICES ASSUME Init PROVE CountInv
    OBVIOUS
  <2>1. ASSUME NEW d \in Sni PROVE Counted(d)
    <3>1. Inserting(d) = {} /\ d \notin answered /\ made[d] = 0
      BY DEF Init, Inserting, Idle
    <3> QED
      BY <3>1, FS_EmptySet DEF Counted
  <2> QED
    BY <2>1, AnswerInit DEF CountInv, Init, NormalMade
<1>2. CountInv => FewCerts
  <2> SUFFICES ASSUME CountInv, NEW d \in Sni, NEW s \in Sni, Norm[s] = d
               PROVE  made[d] <= Cardinality(Handshake) /\ (s # d => made[s] = 0)
    BY DEF FewCerts
  <2>1. Counted(d) /\ made[d] \in Nat
    BY DEF CountInv, AnswerInv, CacheInv, TypeOK
  <2>2. made[d] <= Cardinality(Handshake)
    BY <2>1, Counts DEF Counted
  <2> QED
    BY <2>2 DEF CountInv, NormalMade
<1> QED
  BY <1>1, <1>2, CountNext, PTL DEF Spec

=============================================================================
