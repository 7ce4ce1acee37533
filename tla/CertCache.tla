----------------------------- MODULE CertCache ------------------------------
(***************************************************************************)
(* What the certificate resolver promises its callers, whatever cache and  *)
(* locks it uses: a name has one current certificate; a call is answered   *)
(* with it, at one moment between its beginning and its end; and a new one *)
(* is issued only by a call that began before the name had any.            *)
(***************************************************************************)
EXTENDS Naturals

CONSTANTS
  Client,  \* who may have a call in progress
  Name,    \* names in their normal form
  NoName,  \* "no call in progress"
  NoCert   \* "no certificate"

VARIABLES
  current,  \* the current certificate of each name
  asked,    \* the name each client has asked for and waits for
  early,    \* the clients whose call began before the name had a certificate
  got       \* what each client was answered with

vars == <<current, asked, early, got>>

\* The n-th certificate for name s.
Cert == Name \X Nat

Init ==
  /\ current = [s \in Name |-> NoCert]
  /\ asked = [c \in Client |-> NoName]
  /\ early = {}
  /\ got = [c \in Client |-> NoCert]

Ask(c, s) ==
  /\ asked[c] = NoName
  /\ asked' = [asked EXCEPT ![c] = s]
  /\ early' = early \cup {d \in {c} : current[s] = NoCert}
  /\ UNCHANGED <<current, got>>

End(c) ==
  /\ asked[c] # NoName
  /\ asked' = [asked EXCEPT ![c] = NoName]
  /\ early' = early \ {c}

\* Client c has its answer.
Answer(c) == got'[c] # NoCert /\ got' = [got EXCEPT ![c] = got'[c]] /\ End(c)

\* The current certificate ...
Give(c) ==
  /\ Answer(c)
  /\ got'[c] = current[asked[c]]
  /\ UNCHANGED current

\* ... or a new one, which is the current one from now on.
Issue(c) ==
  /\ c \in early /\ Answer(c)
  /\ got'[c] \in {asked[c]} \X Nat
  /\ current' = [current EXCEPT ![asked[c]] = got'[c]]

\* Only a call that may issue can fail.
Refuse(c) == c \in early /\ End(c) /\ UNCHANGED <<current, got>>

\* The client has no more use for the answer.
Forget(c) == got' = [got EXCEPT ![c] = NoCert] /\ UNCHANGED <<current, asked, early>>

Next ==
  \E c \in Client :
    (\E s \in Name : Ask(c, s)) \/ Give(c) \/ Issue(c) \/ Refuse(c) \/ Forget(c)

Spec == Init /\ [][Next]_vars
=============================================================================
