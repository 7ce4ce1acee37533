----------------------------- MODULE OneDaemon ------------------------------
(***************************************************************************)
(* What the PID file is for, without the file: one daemon at a time holds  *)
(* the service, binds the ports, and can be found by the commands until it *)
(* has been told to leave.                                                 *)
(***************************************************************************)
CONSTANTS
  Process,    \* the processes
  NoProcess,  \* "no process"
  Task        \* the servers, each with its port

VARIABLES
  holder,   \* the daemon that holds the service
  bound,    \* who has each port
  known,    \* whom the commands find
  leaving   \* has the holder been told to leave?

vars == <<holder, bound, known, leaving>>

Nobody == [s \in Task |-> NoProcess]

Init == holder = NoProcess /\ bound = Nobody /\ known = NoProcess /\ leaving = FALSE

\* Nobody holds the service before the last holder's ports are free.  What the
\* commands knew of an earlier one may be forgotten on the way.
Claim(p) ==
  /\ holder = NoProcess /\ bound = Nobody
  /\ holder' = p /\ known' \in {known, NoProcess}
  /\ UNCHANGED <<bound, leaving>>

Bind(s) ==
  /\ holder # NoProcess /\ bound[s] = NoProcess
  /\ bound' = [bound EXCEPT ![s] = holder]
  /\ UNCHANGED <<holder, known, leaving>>

Announce ==
  /\ holder # NoProcess /\ known' = holder
  /\ UNCHANGED <<holder, bound, leaving>>

Tell ==
  /\ holder # NoProcess /\ leaving' = TRUE
  /\ UNCHANGED <<holder, bound, known>>

\* The holder is not forgotten before it has been told to leave.
Forget ==
  /\ known # holder \/ leaving
  /\ known' = NoProcess
  /\ UNCHANGED <<holder, bound, leaving>>

\* The ports are freed with the service or later.
Leave ==
  /\ holder' = NoProcess /\ leaving' = FALSE
  /\ bound' \in {bound, Nobody}
  /\ known' = known \/ (leaving /\ known' = NoProcess)

Next ==
  \/ \E p \in Process : Claim(p)
  \/ \E s \in Task : Bind(s)
  \/ Announce \/ Tell \/ Forget \/ Leave

Spec == Init /\ [][Next]_vars
=============================================================================
