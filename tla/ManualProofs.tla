---------------------------- MODULE ManualProofs ----------------------------
(***************************************************************************)
(* The PID file as a lock: theorems about dd-ferryman run by hand, for any *)
(* number of processes, faults, failing calls, reused PIDs and slow ends.  *)
(*                                                                         *)
(* They are about an operator who uses sudo for every command, never       *)
(* installs the launchd job, and lets a daemon come up or go before the    *)
(* next command.  Each of the three is needed: of two starts at once both  *)
(* may pass the check; launchd restarts the daemon while stop waits for it *)
(* (run stop_under_launchd); and kill -0 without root does not see a       *)
(* daemon of root (run unprivileged_status).                               *)
(***************************************************************************)
EXTENDS LifecycleProofs

ManualAsRoot == Patient /\ FALSE \notin Sudo /\ "install" \notin Commands

(***************************************************************************)
(* The inductive invariant.                                                *)
(*                                                                         *)
(* Exclusive is not inductive.  Two daemons exclude each other through the *)
(* PID file and kill -0, both of which a daemon reads long before it       *)
(* claims the file, so the invariant has to say what whoever is looking    *)
(* (an observer: a command, or a daemon still checking) may rely on.  A    *)
(* daemon that an observer can meet while it looks has settled and is the  *)
(* one in the file; once the observer has passed the check the other way   *)
(* there is none; once it has sent SIGTERM the daemon it waits for knows.  *)
(***************************************************************************)

\* A daemon checks for another one, and then holds the service until it ends.
CheckLabel == {"exists", "read", "check", "stale_exists", "stale_rm"}
CaLabel == {"create", "load_ca", "crt", "key", "write_key"}
HeldLabel == {"open", "write", "spawned", "serve", "rm_exists", "rm", "exit"} \cup CaLabel

\* The setup of start.
SetupLabel == {"setup", "ca", "trust", "resolver_file"} \cup CaLabel

Daemon(p) == proc[p].cmd = "foreground"
Command(p) == proc[p].cmd \in Cli
Held(p) == Daemon(p) /\ proc[p].pc \in HeldLabel
Checking(p) == Daemon(p) /\ proc[p].pc \in CheckLabel
Observer(p) == Command(p) \/ Checking(p)

\* Where each program can be.
LabelsOf(c) ==
  CASE c = "start" -> CheckLabel \cup SetupLabel \cup {"spawn", "done", "bail"}
    [] c = "stop" -> CheckLabel \cup {"kill", "wait", "rm_exists", "rm", "done", "bail",
                                      "not_running"}
    [] c = "status" -> CheckLabel \cup {"done", "bail", "not_running"}
    [] c = "uninstall" -> {"exists", "read", "check", "plan", "unload", "kill", "wait",
                           "rm_exists", "rm", "resolver", "untrust", "rmdata", "done", "bail"}
    [] c = "foreground" -> CheckLabel \cup HeldLabel \cup {"bail"}
    [] c = "install" -> {}
    [] OTHER -> {"none"}

\* launchd has nothing to do with it.
NoJob == ~loaded /\ ~plist /\ job = NoPid

\* One process: everything runs as root; only a daemon that serves has been told
\* to stop, and it leaves for no other reason, since its ports are free to bind.
Shape(p) ==
  /\ proc[p].pc \in LabelsOf(proc[p].cmd)
  /\ Alive(p) => proc[p].root
  /\ proc[p].term => Daemon(p) /\ proc[p].pc \in {"serve", "rm_exists", "rm", "exit"}
  /\ Daemon(p) /\ proc[p].pc \in {"rm_exists", "rm"} => proc[p].term
  /\ \A s \in Server : /\ srv[p][s] # "failed"
                       /\ srv[p][s] = "up" => TasksRun(p)
  /\ proc[p].term \/ (Daemon(p) /\ proc[p].pc = "exit") => Serving(p)

\* The PID file of a daemon that holds the service: absent when it opens it, its
\* own while it writes, and with its PID until it is told to stop.
FileFits(d) ==
  Held(d) =>
     /\ At(d, "open") => pidFile = NoFile
     /\ At(d, "write") => d \in fds
     /\ proc[d].pc \in CaLabel \cup {"spawned", "serve"} /\ ~proc[d].term => pidFile = d

\* What an observer has read is still in the file, and what it is about to
\* delete as stale is not a daemon's PID.
Reads(p) ==
  Observer(p) =>
     /\ At(p, "check") => proc[p].seen = pidFile
     /\ proc[p].pc \in {"stale_exists", "stale_rm"} /\ pidFile \in Pid => ~Daemon(pidFile)

\* One command at a time, one daemon that holds the service, and none but a
\* settled one beside a daemon that checks.
Alone(p, q) ==
  /\ Command(p) /\ Command(q) => p = q
  /\ Held(p) /\ Held(q) => p = q
  /\ Command(p) /\ ~At(p, "done") /\ Daemon(q) => Held(q)
  /\ Checking(p) /\ Daemon(q) /\ p # q => Settled(q)
  /\ Checking(p) /\ Command(q) => At(q, "done")

\* An observer p and a daemon d that holds the service.
Sees(p, d) ==
  Observer(p) /\ Held(d) =>
     /\ proc[p].pc \in {"exists", "read", "check", "plan", "unload", "kill"} => Settled(d)
     /\ proc[p].pc \in {"plan", "unload", "kill"} => proc[p].seen = d
     /\ proc[p].pc = "unload" => "StopProcess" \in proc[p].plan
     /\ proc[p].pc \notin {"stale_exists", "stale_rm", "spawn"} \cup SetupLabel
     /\ Command(p) /\ ~At(p, "done") => Settled(d) \/ proc[d].term
     /\ proc[p].pc \in {"wait", "rm_exists", "rm", "resolver", "untrust", "rmdata"}
          => proc[d].term

ManualInv ==
  /\ TypeOK /\ NoJob
  /\ \A p \in Pid : Shape(p) /\ FileFits(p) /\ Reads(p)
  /\ \A p, q \in Pid : Alone(p, q) /\ Sees(p, q)

(***************************************************************************)
(* Steps that all actions are made of, and what each needs to keep it.     *)
(***************************************************************************)

\* Processes end: by themselves, in a crash or in a reboot.
LEMMA EndsKeep ==
  ASSUME ManualInv, TypeOK', NoJob', NEW D \in SUBSET Pid,
         proc' = [p \in Pid |-> IF p \in D THEN Free ELSE proc[p]],
         Reap(D), pidFile' = pidFile
  PROVE  ManualInv'
<1> SUFFICES ASSUME NEW p \in Pid, NEW q \in Pid
             PROVE  (Shape(p) /\ FileFits(p) /\ Reads(p) /\ Alone(p, q) /\ Sees(p, q))'
  BY DEF ManualInv
<1>1. Shape(p)'
  BY DEF ManualInv, Shape, Free, Idle, Reap, Alive, Daemon, TasksRun, Serving, LabelsOf,
     SetupLabel,
     HeldLabel, CaLabel, CheckLabel
<1>2. FileFits(p)'
  BY DEF ManualInv, FileFits, Held, Daemon, Free, Reap, At, CaLabel
<1>3. Reads(p)'
  BY DEF ManualInv, Reads, Observer, Command, Checking, Daemon, Free, At, Cli
<1>4. Alone(p, q)'
  BY DEF ManualInv, Alone, Held, Command, Checking, Daemon, Free, At, Cli, Settled, Reap,
     Serving
<1>5. Sees(p, q)'
  BY DEF ManualInv, Sees, Observer, Held, Command, Checking, Daemon, Free, At, Cli, Settled,
     Reap, Serving, SetupLabel
<1> QED
  BY <1>1, <1>2, <1>3, <1>4, <1>5

\* p moves to another label, and nobody else moves.
Moves(p) ==
  /\ \A q \in Pid \ {p} : proc'[q] = proc[q]
  /\ proc'[p].cmd = proc[p].cmd /\ proc'[p].root = proc[p].root /\ proc'[p].term = proc[p].term

\* An observer moves on, to a label at which its own view still holds.
LEMMA ObserverKeeps ==
  ASSUME ManualInv, TypeOK', NoJob', NEW p \in Pid, Observer(p), ~At(p, "done"), Moves(p),
         Command(p) \/ proc'[p].pc \notin HeldLabel,
         proc'[p].pc \in LabelsOf(proc[p].cmd), UNCHANGED srv,
         Reads(p)', \A d \in Pid : FileFits(d)' /\ Sees(p, d)'
  PROVE  ManualInv'
<1> SUFFICES ASSUME NEW a \in Pid, NEW b \in Pid
             PROVE  (Shape(a) /\ FileFits(a) /\ Reads(a) /\ Alone(a, b) /\ Sees(a, b))'
  BY DEF ManualInv
<1>1. Shape(a)'
  BY DEF ManualInv, Shape, Moves, Observer, Command, Cli, Alive, Daemon, TasksRun, Serving,
     HeldLabel, CaLabel, CheckLabel, Checking, LabelsOf, SetupLabel
<1>3. Reads(a)'
  BY DEF ManualInv, Reads, Alone, Moves, Observer, Command, Checking, Daemon, At, Cli,
     Settled, CheckLabel
<1>4. Alone(a, b)'
  BY DEF ManualInv, Alone, Observer, Held, Command, Checking, Daemon, At, Cli, Settled,
     Serving, Moves, HeldLabel, CaLabel, CheckLabel
<1>5. Sees(a, b)'
  BY DEF ManualInv, Sees, Observer, Held, Command, Checking, Daemon, At, Cli, Settled,
     Serving, Moves, SetupLabel
<1> QED
  BY <1>1, <1>3, <1>4, <1>5

\* The daemon that holds the service moves on, before it has settled or after it
\* was told to stop.
LEMMA HeldKeeps ==
  ASSUME ManualInv, TypeOK', NoJob', NEW p \in Pid, Held(p), ~Settled(p), Moves(p),
         proc'[p].pc \in (HeldLabel \cup {"bail"}) \ {"open"}, UNCHANGED srv,
         Shape(p)', FileFits(p)'
  PROVE  ManualInv'
<1> SUFFICES ASSUME NEW a \in Pid, NEW b \in Pid
             PROVE  (Shape(a) /\ FileFits(a) /\ Reads(a) /\ Alone(a, b) /\ Sees(a, b))'
  BY DEF ManualInv
<1>1. Shape(a)'
  BY DEF ManualInv, Shape, Moves, Alive, Daemon, TasksRun, Serving
<1>2. FileFits(a)'
  BY DEF ManualInv, FileFits, Alone, Moves, Held, Daemon, At, CaLabel
<1>3. Reads(a)'
  BY DEF ManualInv, Reads, Alone, Sees, Moves, Observer, Command, Checking, Held, Daemon,
     At, Cli, CheckLabel, HeldLabel, CaLabel, SetupLabel
<1>4. Alone(a, b)'
  BY DEF ManualInv, Alone, Sees, Shape, Observer, Held, Command, Checking, Daemon, At, Cli,
     Settled, Serving, Moves, HeldLabel, CaLabel, CheckLabel, SetupLabel
<1>5. Sees(a, b)'
  BY DEF ManualInv, Sees, Observer, Held, Command, Checking, Daemon, At, Cli, Settled,
     Serving, Moves, CheckLabel, HeldLabel, CaLabel, SetupLabel
<1> QED
  BY <1>1, <1>2, <1>3, <1>4, <1>5

\* A daemon passes the check and claims the service, when nobody holds it.
LEMMA ClaimKeeps ==
  ASSUME ManualInv, TypeOK', NoJob', NEW p \in Pid, Checking(p), Moves(p),
         \A d \in Pid : ~Held(d),
         proc'[p].pc = "open", UNCHANGED srv, pidFile' = NoFile
  PROVE  ManualInv'
<1> SUFFICES ASSUME NEW a \in Pid, NEW b \in Pid
             PROVE  (Shape(a) /\ FileFits(a) /\ Reads(a) /\ Alone(a, b) /\ Sees(a, b))'
  BY DEF ManualInv
<1> USE LifecycleAssumption
<1>1. Shape(a)'
  BY DEF ManualInv, Shape, Moves, Alive, Daemon, TasksRun, Serving, Checking, CheckLabel,
     LabelsOf, SetupLabel, HeldLabel, CaLabel
<1>2. FileFits(a)'
  BY DEF ManualInv, FileFits, Moves, Held, Daemon, At, CaLabel
<1>3. Reads(a)'
  BY DEF ManualInv, Reads, Alone, Sees, Moves, Observer, Command, Checking, Held, Daemon,
     At, Cli, CheckLabel, HeldLabel, CaLabel, Settled, SetupLabel
<1>4. Alone(a, b)'
  BY DEF ManualInv, Alone, Sees, Shape, Observer, Held, Command, Checking, Daemon, At, Cli,
     Settled, Serving, Moves, HeldLabel, CaLabel, CheckLabel, SetupLabel
<1>5. Sees(a, b)'
  BY DEF ManualInv, Sees, Alone, Observer, Held, Command, Checking, Daemon, At, Cli,
     Settled, Serving, Moves, CheckLabel, HeldLabel, CaLabel, SetupLabel
<1> QED
  BY <1>1, <1>2, <1>3, <1>4, <1>5

\* While an observer is looking, the daemon that holds the service has settled,
\* is in the file, and answers kill -0.
LEMMA LookingFinds ==
  ASSUME ManualInv, NEW p \in Pid, NEW d \in Pid, Observer(p), Held(d),
         proc[p].pc \in {"exists", "read", "check", "plan", "unload", "kill"}
  PROVE  pidFile = d /\ Settled(d) /\ Running(p, d)
<1>1. Settled(d) /\ pidFile = d
  BY DEF ManualInv, Sees, FileFits, Settled, At, CaLabel, SetupLabel
<1> QED
  BY <1>1 DEF ManualInv, Shape, Observer, Command, Cli, Checking, Daemon, Held, Running,
     Alive

\* Goto is such a move.
LEMMA GotoIsMove ==
  ASSUME TypeOK, NEW p \in Pid, NEW l, Goto(p, l)
  PROVE  Moves(p) /\ proc'[p].pc = l /\ proc'[p].seen = proc[p].seen /\ proc'[p].plan = proc[p].plan
BY DEF TypeOK, Process, Goto, Moves

\* A step of the setup, by start or by a daemon, moves on and leaves the PID file.
LEMMA SetupMoves ==
  ASSUME ManualInv, NEW p \in Pid, SetupStep(p)
  PROVE  /\ Moves(p) /\ proc'[p].seen = proc[p].seen /\ \E l : Goto(p, l)
         /\ UNCHANGED <<srv, pidFile, launchd, faults>> /\ fds \ {p} \subseteq fds'
         /\ \/ /\ proc[p].cmd = "start" /\ proc[p].pc \in SetupLabel
               /\ proc'[p].pc \in SetupLabel \cup {"spawn", "bail"}
            \/ /\ Daemon(p) /\ proc[p].pc \in CaLabel
               /\ proc'[p].pc \in CaLabel \cup {"spawned", "bail"}
<1>1. PICK l \in SetupLabel \cup {"bail", AfterCa(proc[p].cmd), AfterSetup(proc[p].cmd)} :
        /\ Goto(p, l)
        /\ proc[p].pc \in SetupLabel
        /\ proc[p].pc \in CaLabel => l \in CaLabel \cup {"bail", AfterCa(proc[p].cmd)}
        /\ l = AfterSetup(proc[p].cmd) => proc[p].pc = "resolver_file"
        /\ UNCHANGED <<srv, pidFile, launchd, faults>> /\ fds \ {p} \subseteq fds'
  BY DEF SetupStep, EnsureDirs, SetupTestsCa, LoadOrCreateCa, LoadCa, SaveCrt, OpenKey,
     WriteKey, TrustCa, WriteResolver, At, SetupLabel, CaLabel, AfterCa, AfterSetup
<1>2. /\ Moves(p) /\ proc'[p].pc = l /\ proc'[p].seen = proc[p].seen
  BY <1>1, GotoIsMove DEF ManualInv
<1>3. \/ proc[p].cmd = "start"
      \/ Daemon(p) /\ proc[p].pc \in CaLabel
  BY <1>1 DEF ManualInv, Shape, LabelsOf, SetupLabel, CheckLabel, HeldLabel, CaLabel, Daemon
<1> QED
  BY <1>1, <1>2, <1>3 DEF AfterCa, AfterSetup, SetupLabel, CaLabel, Daemon

\* Without install nothing is ever loaded into launchd.
LEMMA NoJobKept ==
  ASSUME ManualInv, NEW p \in Pid, Step(p)
  PROVE  NoJob'
<1>1. proc[p].pc \notin {"plist", "load"} /\ proc[p].cmd # "install"
  BY DEF ManualInv, Shape, LabelsOf, SetupLabel, CheckLabel, HeldLabel, CaLabel
<1>2. NoJob
  BY DEF ManualInv
<1>3. CASE UNCHANGED launchd
  BY <1>2, <1>3 DEF NoJob, launchd
<1>4. CASE Exit(p) \/ Kill(p)
  BY <1>2, <1>4 DEF NoJob, Exit, Kill, JobAfter
<1>5. CASE UninstallUnload(p)
  BY <1>2, <1>5 DEF NoJob, UninstallUnload, UnloadJob, launchd
<1>6. CASE InstallUnload(p) \/ WritePlist(p) \/ LoadJob(p)
  BY <1>1, <1>6 DEF InstallUnload, WritePlist, LoadJob, At
<1>7. SetupStep(p) => UNCHANGED launchd
  BY SetupMoves
<1> QED
  BY <1>3, <1>4, <1>5, <1>6, <1>7
  DEF Step, ReadPidExists, ReadPidContents, IsRunning, RemoveStale, RemoveOwn,
     RemovePidTest, RemovePidUnlink, Daemonize, OpenPidFile, WritePidFile,
     PollSelect, Bind, SelectFailed, SelectShutdown, WaitForExit,
     Plan, RemoveResolver, RemoveCaCert, RemoveDataDir


\* The labels only an observer can be at.
LEMMA ObserverAt ==
  ASSUME ManualInv, NEW p \in Pid,
         proc[p].pc \in CheckLabel \cup
           {"setup", "ca", "trust", "resolver_file", "spawn", "plan", "unload", "kill", "wait",
            "resolver", "untrust", "rmdata"}
  PROVE  Observer(p) /\ ~At(p, "done") /\ proc[p].cmd # "install"
BY DEF ManualInv, Shape, LabelsOf, SetupLabel, CheckLabel, HeldLabel, CaLabel, Observer,
   Command, Cli, Checking,
   Daemon, At

(***************************************************************************)
(* The actions of the processes.                                           *)
(***************************************************************************)

\* read_pid, first call: a daemon that finds no file claims the service, and then
\* there is none, or the file would name it.
LEMMA ReadPidExistsKeeps ==
  ASSUME ManualInv, TypeOK', NoJob', NEW p \in Pid, ReadPidExists(p)
  PROVE  ManualInv'
<1> USE LifecycleAssumption
<1>1. Observer(p) /\ ~At(p, "done") /\ At(p, "exists") /\ proc[p].cmd # "install"
  BY ObserverAt DEF ReadPidExists, CheckLabel, At
<1>2. CASE pidFile = NoFile /\ Daemon(p)
  <2>1. \A d \in Pid : ~Held(d)
    BY <1>1, <1>2, LookingFinds DEF At
  <2>2. Moves(p) /\ proc'[p].pc = "open"
    BY <1>2, GotoIsMove DEF ReadPidExists, WhenNoFile, Daemon, ManualInv
  <2> QED
    BY <1>1, <1>2, <2>1, <2>2, ClaimKeeps DEF ReadPidExists, Observer, Command, Cli, Daemon
<1>3. CASE ~(pidFile = NoFile /\ Daemon(p))
  <2> DEFINE l == IF pidFile = NoFile THEN WhenNoFile(proc[p].cmd) ELSE "read"
  <2>1. Moves(p) /\ proc'[p].pc = l
    BY GotoIsMove DEF ReadPidExists, ManualInv
  <2>2. l \in LabelsOf(proc[p].cmd) /\ (Command(p) \/ l \notin HeldLabel)
    BY <1>1, <1>3 DEF WhenNoFile, LabelsOf, SetupLabel, CheckLabel, HeldLabel, CaLabel,
       Observer, Command, Cli,
       Checking, Daemon
  <2>3. Reads(p)'
    BY <1>3, <2>1 DEF Reads, WhenNoFile, Daemon, At
  <2>4. ASSUME NEW d \in Pid PROVE FileFits(d)' /\ Sees(p, d)'
    BY <1>1, <1>3, <2>1, LookingFinds
    DEF ManualInv, ReadPidExists, WhenNoFile, FileFits, Sees, Moves, Observer, Command, Cli,
       Checking, Held, Daemon, At, HeldLabel, CaLabel, CheckLabel, Settled, Serving, SetupLabel
  <2> QED
    BY <1>1, <2>1, <2>2, <2>3, <2>4, ObserverKeeps DEF ReadPidExists
<1> QED
  BY <1>2, <1>3

\* read_pid, second call: it never reads a file in the middle of a write.
LEMMA ReadPidContentsKeeps ==
  ASSUME ManualInv, TypeOK', NoJob', NEW p \in Pid, ReadPidContents(p)
  PROVE  ManualInv'
<1> USE LifecycleAssumption
<1>1. Observer(p) /\ ~At(p, "done") /\ At(p, "read") /\ proc[p].cmd # "install"
  BY ObserverAt DEF ReadPidContents, CheckLabel, At
<1>2. /\ Moves(p)
      /\ proc'[p].pc = IF pidFile \in Pid THEN "check" ELSE "bail"
      /\ pidFile \in Pid => proc'[p].seen = pidFile
  BY DEF ReadPidContents, ManualInv, TypeOK, Process, Goto, Moves
<1>3. proc'[p].pc \in LabelsOf(proc[p].cmd) /\ proc'[p].pc \notin HeldLabel
  BY <1>1, <1>2 DEF LabelsOf, SetupLabel, CheckLabel, HeldLabel, CaLabel, Observer, Command,
     Cli, Checking,
     Daemon
<1>4. Reads(p)'
  BY <1>2 DEF Reads, At, ReadPidContents
<1>5. ASSUME NEW d \in Pid PROVE FileFits(d)' /\ Sees(p, d)'
  BY <1>1, <1>2, LookingFinds
  DEF ManualInv, ReadPidContents, FileFits, Sees, Moves, Observer, Command, Cli, Checking,
     Held, Daemon, At, HeldLabel, CaLabel, CheckLabel, Settled, Serving, SetupLabel
<1> QED
  BY <1>1, <1>2, <1>3, <1>4, <1>5, ObserverKeeps DEF ReadPidContents

\* is_running: the PID read is still the one in the file, so that a daemon that
\* holds the service is found.
LEMMA IsRunningKeeps ==
  ASSUME ManualInv, TypeOK', NoJob', NEW p \in Pid, IsRunning(p)
  PROVE  ManualInv'
<1> USE LifecycleAssumption
<1>1. Observer(p) /\ ~At(p, "done") /\ At(p, "check") /\ proc[p].cmd # "install"
  BY ObserverAt DEF IsRunning, CheckLabel, At
<1> DEFINE runs == Running(p, proc[p].seen)
           keeps == proc[p].cmd \in {"stop", "install", "uninstall"}
<1>2. /\ Moves(p)
      /\ proc'[p].pc = IF runs THEN WhenRunning(proc[p].cmd) ELSE WhenDead(proc[p].cmd)
      /\ proc'[p].seen = IF runs /\ keeps THEN proc[p].seen ELSE NoPid
      /\ pidFile' = pidFile /\ srv' = srv
  BY DEF IsRunning, ManualInv, TypeOK, Process, Moves
<1>3. proc[p].seen = pidFile /\ \A d \in Pid : Held(d) => pidFile = d /\ Settled(d) /\ runs
  BY <1>1, LookingFinds DEF ManualInv, Reads, At
<1>4. proc'[p].pc \in LabelsOf(proc[p].cmd) /\ proc'[p].pc \notin HeldLabel
  BY <1>1, <1>2 DEF LabelsOf, SetupLabel, CheckLabel, HeldLabel, CaLabel, Observer, Command,
     Cli, Checking,
     Daemon, WhenRunning, WhenDead
<1>5. ~runs /\ pidFile \in Pid => ~Daemon(pidFile)'
  <2>1. proc[p].root
    BY <1>1 DEF ManualInv, Shape, Observer, Command, Cli, Checking, Daemon, Alive
  <2> QED
    BY <1>2, <1>3, <2>1 DEF Running, Alive, Daemon, Moves
<1>6. Reads(p)'
  BY <1>2, <1>3, <1>5 DEF Reads, At, WhenRunning, WhenDead
<1>7. ASSUME NEW d \in Pid, Held(d)'
      PROVE  runs /\ pidFile = d /\ d # p /\ Settled(d)'
  <2>1. d # p /\ Held(d)
    BY <1>1, <1>2, <1>4, <1>7 DEF Held, Daemon, Moves, Observer, Command, Cli, Checking
  <2> QED
    BY <1>2, <1>3, <2>1 DEF Settled, Serving, Moves, At
<1>8. ASSUME NEW d \in Pid PROVE FileFits(d)'
  BY <1>2, <1>7 DEF FileFits, Settled, At, CaLabel
<1>9. ASSUME NEW d \in Pid PROVE Sees(p, d)'
  <2> SUFFICES ASSUME Held(d)' PROVE Sees(p, d)'
    BY DEF Sees
  <2>1. runs /\ pidFile = d /\ Settled(d)'
    BY <1>7
  <2>2. /\ proc'[p].pc \in {"bail", "done", "kill", "plan"}
        /\ proc'[p].pc \in {"kill", "plan"} => keeps /\ proc'[p].seen = d
    BY <1>1, <1>2, <1>3, <2>1 DEF WhenRunning, Observer, Command, Checking, Cli, Daemon
  <2> QED
    BY <2>1, <2>2 DEF Sees, SetupLabel, CaLabel, At
<1> QED
  BY <1>1, <1>2, <1>4, <1>6, <1>8, <1>9, ObserverKeeps DEF IsRunning

\* The stale file goes; a daemon that checked claims the service.
LEMMA RemoveStaleKeeps ==
  ASSUME ManualInv, TypeOK', NoJob', NEW p \in Pid, RemoveStale(p)
  PROVE  ManualInv'
<1> USE LifecycleAssumption
<1>1. Observer(p) /\ ~At(p, "done") /\ proc[p].pc \in {"stale_exists", "stale_rm"} /\
        proc[p].cmd \notin {"install", "uninstall"}
  <2>1. proc[p].pc \in {"stale_exists", "stale_rm"}
    BY DEF RemoveStale, RemovePidTest, RemovePidUnlink, At
  <2> QED
    BY <2>1, ObserverAt DEF ManualInv, Shape, LabelsOf, SetupLabel, CheckLabel, CaLabel
<1>2. \A d \in Pid : ~Held(d)
  BY <1>1 DEF ManualInv, Sees, SetupLabel
<1>3. Moves(p) /\ proc'[p].pc \in {"stale_rm", "bail", AfterStale(proc[p].cmd)} /\
        pidFile' \in {pidFile, NoFile} /\ UNCHANGED srv
  BY GotoIsMove DEF RemoveStale, RemovePidTest, RemovePidUnlink, ManualInv
<1>4. proc'[p].pc = AfterStale(proc[p].cmd) => pidFile' = NoFile
  BY <1>1 DEF RemoveStale, RemovePidTest, RemovePidUnlink, AfterStale, Goto, ManualInv,
     TypeOK, Process
<1>5. CASE proc'[p].pc = "open"
  BY <1>1, <1>2, <1>3, <1>4, <1>5, ClaimKeeps DEF AfterStale, Observer, Command, Cli, Daemon
<1>6. CASE proc'[p].pc # "open"
  <2>1. proc'[p].pc \in LabelsOf(proc[p].cmd) /\ proc'[p].pc \notin HeldLabel
    BY <1>1, <1>3, <1>6 DEF AfterStale, LabelsOf, SetupLabel, CheckLabel, HeldLabel, CaLabel,
       Observer, Command,
       Cli, Checking, Daemon
  <2>2. Reads(p)'
    BY <1>1, <1>3 DEF ManualInv, Reads, At, Moves, Daemon, AfterStale, Observer, Command,
       Checking, CheckLabel
  <2>3. ASSUME NEW d \in Pid PROVE FileFits(d)' /\ Sees(p, d)'
    BY <1>2, <1>3, <2>1 DEF FileFits, Sees, Moves, Observer, Command, Cli, Checking, Held,
       Daemon, At, HeldLabel, CaLabel, CheckLabel, Settled, Serving, SetupLabel
  <2> QED
    BY <1>1, <1>3, <2>1, <2>2, <2>3, ObserverKeeps
<1> QED
  BY <1>5, <1>6

\* The file goes after SIGTERM, by the daemon or whoever sent it.
LEMMA RemoveOwnKeeps ==
  ASSUME ManualInv, TypeOK', NoJob', NEW p \in Pid, RemoveOwn(p)
  PROVE  ManualInv'
<1> USE LifecycleAssumption
<1>1. /\ proc[p].pc \in {"rm_exists", "rm"}
      /\ proc[p].cmd \in {"stop", "uninstall", "foreground"}
  <2>1. proc[p].pc \in {"rm_exists", "rm"}
    BY DEF RemoveOwn, RemovePidTest, RemovePidUnlink, At
  <2> QED
    BY <2>1 DEF ManualInv, Shape, LabelsOf, SetupLabel, CheckLabel, CaLabel
<1>2. /\ Moves(p)
      /\ proc'[p].pc \in {"rm", AfterRemove(proc[p].cmd), WhenVanished(proc[p].cmd)}
      /\ pidFile' \in {pidFile, NoFile} /\ UNCHANGED srv
  BY GotoIsMove DEF RemoveOwn, RemovePidTest, RemovePidUnlink, ManualInv
<1>3. \A d \in Pid : Held(d) => proc[d].term
  BY <1>1 DEF ManualInv, Sees, Alone, Shape, Observer, Command, Cli, Held, Daemon, HeldLabel,
     CaLabel, SetupLabel
<1>4. CASE Daemon(p)
  <2>1. proc'[p].pc \in {"rm", "exit"} /\ Held(p) /\ ~Settled(p)
    BY <1>1, <1>2, <1>4 DEF AfterRemove, WhenVanished, Held, Daemon, HeldLabel, CaLabel,
       Settled, At
  <2>2. Shape(p)' /\ FileFits(p)'
    BY <1>1, <1>2, <1>4, <2>1 DEF ManualInv, Moves, Shape, FileFits, LabelsOf, SetupLabel,
       HeldLabel, CaLabel,
       CheckLabel, Daemon, Alive, TasksRun, Serving, At
  <2> QED
    BY <1>2, <2>1, <2>2, HeldKeeps DEF HeldLabel, CaLabel
<1>5. CASE ~Daemon(p)
  <2>1. /\ proc'[p].pc \in {"rm", "done", "resolver", "bail"}
        /\ proc'[p].pc \in LabelsOf(proc[p].cmd)
        /\ Command(p) /\ ~At(p, "done")
    BY <1>1, <1>2, <1>5 DEF AfterRemove, WhenVanished, LabelsOf, SetupLabel, CheckLabel, Daemon,
       Command, Cli, At, CaLabel
  <2>2. Reads(p)'
    BY <2>1 DEF Reads, At
  <2>3. ASSUME NEW d \in Pid PROVE FileFits(d)' /\ Sees(p, d)'
    BY <1>1, <1>2, <1>3, <2>1 DEF ManualInv, Shape, FileFits, Sees, Moves, Observer,
       Command, Cli, Checking, Held, Daemon, At, HeldLabel, CaLabel, CheckLabel, Settled,
         Serving, SetupLabel
  <2> QED
    BY <1>2, <2>1, <2>2, <2>3, ObserverKeeps DEF Observer
<1> QED
  BY <1>4, <1>5

\* An observer that moves to a label at which it relies on nothing.
LEMMA CarefreeKeeps ==
  ASSUME ManualInv, TypeOK', NoJob', NEW p \in Pid, NEW l, Goto(p, l),
         Observer(p), ~At(p, "done"), l \in LabelsOf(proc[p].cmd) \ CheckLabel,
         \/ l \in {"done", "bail", "not_running"}
         \/ l \in {"rm_exists", "resolver", "untrust", "rmdata"} /\ \A d \in Pid : Held(d) =>
              proc[d].term
         \/ \A d \in Pid : ~Held(d),
         Command(p) \/ l \notin HeldLabel,
         UNCHANGED <<srv, pidFile>>, fds \ {p} \subseteq fds'
  PROVE  ManualInv'
<1>1. Moves(p) /\ proc'[p].pc = l
  BY GotoIsMove DEF ManualInv
<1>3. Reads(p)'
  BY <1>1 DEF Reads, At, CheckLabel
<1>4. ASSUME NEW d \in Pid, Held(d)'
      PROVE  Held(d) /\ d # p
  BY <1>1, <1>4 DEF Observer, Command, Cli, Checking, Held, Daemon, Moves, CheckLabel,
     HeldLabel, CaLabel
<1>5. ASSUME NEW d \in Pid PROVE FileFits(d)'
  BY <1>1, <1>4 DEF ManualInv, FileFits, Moves, At, CaLabel
<1>6. ASSUME NEW d \in Pid PROVE Sees(p, d)'
  <2> SUFFICES ASSUME Held(d)' PROVE Sees(p, d)'
    BY DEF Sees
  <2>1. Held(d) /\ proc'[d] = proc[d] /\ (Settled(d) => Settled(d)')
    BY <1>1, <1>4 DEF Moves, Settled, Serving, At
  <2>2. l \in {"done", "bail", "not_running"}
          \/ (l \in {"rm_exists", "resolver", "untrust", "rmdata"} /\ proc[d].term)
    BY <2>1
  <2>3. Command(p)' /\ ~At(p, "done") => Settled(d)' \/ proc'[d].term
    BY <1>1, <2>1 DEF ManualInv, Sees, Observer, Command, Cli, At, Moves
  <2> QED
    BY <1>1, <2>1, <2>2, <2>3 DEF Sees, SetupLabel, CaLabel, At
<1> QED
  BY <1>1, <1>3, <1>5, <1>6, ObserverKeeps

\* A process ends by itself.
LEMMA ExitKeeps ==
  ASSUME ManualInv, TypeOK', NoJob', NEW p \in Pid, Exit(p)
  PROVE  ManualInv'
<1>1. proc' = [q \in Pid |-> IF q \in {p} THEN Free ELSE proc[q]]
  BY DEF Exit, ManualInv, TypeOK
<1> QED
  BY <1>1, EndsKeep DEF Exit

\* The setup of start, which found no daemon, and the CA of a daemon, which has
\* recorded its PID.
LEMMA SetupKeeps ==
  ASSUME ManualInv, TypeOK', NoJob', NEW p \in Pid, SetupStep(p)
  PROVE  ManualInv'
<1>1. CASE proc[p].cmd = "start" /\ proc[p].pc \in SetupLabel
  <2>1. Observer(p) /\ ~At(p, "done") /\ Command(p)
    BY <1>1 DEF Observer, Command, Cli, At, SetupLabel, CaLabel
  <2>2. \A d \in Pid : ~Held(d)
    BY <1>1, <2>1 DEF ManualInv, Sees
  <2>3. PICK l : Goto(p, l) /\ l \in SetupLabel \cup {"spawn", "bail"}
    BY <1>1, SetupMoves, GotoIsMove DEF ManualInv, Daemon
  <2>4. l \in LabelsOf(proc[p].cmd) \ CheckLabel
    BY <1>1, <2>3 DEF LabelsOf, SetupLabel, CaLabel, CheckLabel
  <2> QED
    BY <2>1, <2>2, <2>3, <2>4, SetupMoves, CarefreeKeeps
<1>2. CASE Daemon(p) /\ proc[p].pc \in CaLabel
  <2>1. Held(p) /\ ~Settled(p)
    BY <1>2 DEF Held, HeldLabel, CaLabel, Settled, At
  <2>2. Moves(p) /\ UNCHANGED <<srv, pidFile>> /\ proc'[p].pc \in CaLabel \cup {"spawned", "bail"}
    BY <1>2, SetupMoves DEF Daemon
  <2>3. ~proc[p].term /\ pidFile = p
    BY <1>2, <2>1 DEF ManualInv, Shape, FileFits, CaLabel
  <2>4. Shape(p)'
    BY <1>2, <2>2, <2>3 DEF ManualInv, Shape, Moves, LabelsOf, SetupLabel, CheckLabel,
       HeldLabel, CaLabel, Daemon, Alive, TasksRun, Serving
  <2>5. FileFits(p)'
    BY <1>2, <2>2, <2>3 DEF FileFits, Moves, CaLabel, At
  <2> QED
    BY <2>1, <2>2, <2>4, <2>5, HeldKeeps DEF HeldLabel, CaLabel
<1> QED
  BY <1>1, <1>2, SetupMoves

\* start spawns a daemon when there is none and will never look again.
LEMMA DaemonizeKeeps ==
  ASSUME ManualInv, TypeOK', NoJob', NEW p \in Pid, Daemonize(p)
  PROVE  ManualInv'
<1>1. Observer(p) /\ At(p, "spawn") /\ proc[p].cmd = "start"
  <2>1. At(p, "spawn")
    BY DEF Daemonize
  <2> QED
    BY <2>1 DEF ManualInv, Shape, LabelsOf, SetupLabel, CheckLabel, HeldLabel, CaLabel, At,
       Observer, Command,
       Cli
<1>2. \A d \in Pid : ~Held(d) /\ ~Daemon(d)
  BY <1>1 DEF ManualInv, Sees, Alone, Command, Cli, At, SetupLabel
<1>3. CASE Goto(p, "bail")
  BY <1>1, <1>2, <1>3, CarefreeKeeps DEF Daemonize, LabelsOf, SetupLabel, CheckLabel, HeldLabel,
     CaLabel, At
<1>4. ASSUME NEW q \in Pid, Fresh(q),
             proc' = [proc EXCEPT ![p].pc = "done", ![q] = Begun("foreground", proc[p].root)]
      PROVE  ManualInv'
  <2>1. p # q /\ ~Alive(q)
    BY <1>1, <1>4 DEF Fresh, Alive
  <2>2. /\ \A r \in Pid \ {p, q} : proc'[r] = proc[r]
        /\ proc'[p].pc = "done" /\ proc'[p].cmd = "start" /\ proc'[p].root /\ ~proc'[p].term
        /\ proc'[q].pc = "exists" /\ proc'[q].cmd = "foreground" /\ proc'[q].root /\ ~proc'[q].term
    BY <1>1, <1>4, <2>1 DEF ManualInv, Shape, Daemon, Alive, TypeOK, Process, Begun
  <2>3. UNCHANGED <<srv, pidFile, fds>>
    BY DEF Daemonize
  <2> SUFFICES ASSUME NEW a \in Pid, NEW b \in Pid
               PROVE  (Shape(a) /\ FileFits(a) /\ Reads(a) /\ Alone(a, b) /\ Sees(a, b))'
    BY DEF ManualInv
  <2>4. Shape(a)'
    BY <1>1, <2>1, <2>2, <2>3 DEF ManualInv, Shape, Alive, Daemon, TasksRun, Serving,
       LabelsOf, SetupLabel, CheckLabel, HeldLabel, CaLabel
  <2>5. \A d \in Pid : ~Held(d)'
    BY <1>2, <2>2 DEF Held, Daemon, HeldLabel, CaLabel
  <2>6. Reads(a)'
    BY <2>2, <2>3, <1>1 DEF ManualInv, Reads, Alone, Observer, Command, Checking, Daemon,
       At, Cli
  <2>7. Alone(a, b)'
    BY <1>1, <1>2, <2>2, <2>5 DEF ManualInv, Alone, Command, Checking, Daemon, Cli, At
  <2> QED
    BY <2>4, <2>5, <2>6, <2>7 DEF FileFits, Sees, CaLabel, SetupLabel
<1> QED
  BY <1>3, <1>4 DEF Daemonize

\* The daemon on its way to its servers and from there to its end.
LEMMA DaemonStepKeeps ==
  ASSUME ManualInv, TypeOK', NoJob', NEW p \in Pid,
         OpenPidFile(p) \/ WritePidFile(p) \/ PollSelect(p) \/ SelectShutdown(p) \/
           SelectFailed(p)
  PROVE  ManualInv'
<1> USE LifecycleAssumption
<1>1. Held(p) /\ Shape(p) /\ FileFits(p) /\
        proc[p].pc \in {"open", "write", "spawned", "serve"}
  BY DEF ManualInv, Shape, LabelsOf, SetupLabel, CheckLabel, HeldLabel, CaLabel, At, Held,
     Daemon,
         OpenPidFile, WritePidFile, PollSelect, SelectShutdown, SelectFailed
<1>2. ~SelectFailed(p) /\ ~Settled(p)
  BY <1>1 DEF Shape, Settled, OpenPidFile, WritePidFile, PollSelect, SelectShutdown,
     SelectFailed, At
<1>3. \E l \in HeldLabel \cup {"bail"} : Goto(p, l)
  BY DEF HeldLabel, CaLabel, OpenPidFile, WritePidFile, PollSelect, SelectShutdown,
     SelectFailed
<1>4. Moves(p) /\ UNCHANGED srv
  BY <1>3, GotoIsMove DEF ManualInv, OpenPidFile, WritePidFile, PollSelect,
     SelectShutdown, SelectFailed
<1>5. \/ At(p, "open") /\ proc'[p].pc = "write" /\ p \in fds'
      \/ At(p, "open") /\ proc'[p].pc = "bail"
      \/ At(p, "write") /\ proc'[p].pc = "create" /\ pidFile' = p
      \/ At(p, "spawned") /\ proc'[p].pc = "serve" /\ pidFile' = pidFile
      \/ At(p, "serve") /\ proc[p].term /\ proc'[p].pc = "rm_exists"
  BY <1>1, <1>2, GotoIsMove DEF ManualInv, FileFits, OpenPidFile, WritePidFile, PollSelect,
     SelectShutdown, CaLabel
<1>6. Shape(p)'
  BY <1>1, <1>4, <1>5 DEF Shape, LabelsOf, SetupLabel, HeldLabel, CaLabel, Held, Daemon, Alive,
     TasksRun,
     Serving, Moves, At
<1>7. FileFits(p)'
  BY <1>1, <1>4, <1>5 DEF FileFits, Held, Daemon, Moves, At, CaLabel
<1>8. proc'[p].pc \in (HeldLabel \cup {"bail"}) \ {"open"}
  BY <1>5 DEF HeldLabel, CaLabel
<1> QED
  BY <1>1, <1>2, <1>4, <1>6, <1>7, <1>8, HeldKeeps

\* A server of the daemon binds its port, which nobody else has.
LEMMA BindKeeps ==
  ASSUME ManualInv, TypeOK', NoJob', NEW p \in Pid, NEW s \in Server, Bind(p, s)
  PROVE  ManualInv'
<1>1. Held(p) /\ Shape(p) /\ ~Settled(p)
  BY DEF ManualInv, Bind, TasksRun, Held, Daemon, HeldLabel, CaLabel, Settled, Serving
<1>2. \A q \in Pid : srv[q][s] # "up"
  BY <1>1 DEF ManualInv, Shape, Alone, TasksRun, Held, Daemon, HeldLabel, CaLabel, Bind
<1>3. BindResults(p, s) = {"up"}
  BY <1>1, <1>2 DEF BindResults, Shape, Held, Daemon, Alive
<1>4. /\ srv' = [srv EXCEPT ![p][s] = "up"]
      /\ proc' = proc /\ pidFile' = pidFile /\ fds' = fds
  BY <1>3 DEF Bind
<1>5. \A q \in Pid, r \in Server : srv'[q][r] = IF q = p /\ r = s THEN "up" ELSE srv[q][r]
  BY <1>4 DEF ManualInv, TypeOK
<1> SUFFICES ASSUME NEW a \in Pid, NEW b \in Pid
             PROVE  (Shape(a) /\ FileFits(a) /\ Reads(a) /\ Alone(a, b) /\ Sees(a, b))'
  BY DEF ManualInv
<1>6. Shape(a)'
  BY <1>4, <1>5 DEF ManualInv, Shape, Alive, Daemon, TasksRun, Serving, Bind
<1>7. FileFits(a)' /\ Reads(a)'
  BY <1>4 DEF ManualInv, FileFits, Reads, Held, Observer, Command, Checking, Daemon, At, CaLabel
<1>8. Settled(b) => Settled(b)'
  BY <1>4, <1>5 DEF Settled, Serving, At
<1>9. Alone(a, b)'
  BY <1>4, <1>8 DEF ManualInv, Alone, Held, Command, Checking, Daemon, At
<1>10. Sees(a, b)'
  BY <1>4, <1>8 DEF ManualInv, Sees, Held, Observer, Command, Checking, Daemon, At, SetupLabel
<1> QED
  BY <1>6, <1>7, <1>9, <1>10

\* A daemon that serves is told to stop, and whoever has told it waits for it.
LEMMA ToldKeeps ==
  ASSUME ManualInv, TypeOK', NoJob', NEW t \in Pid, Held(t), Settled(t),
         UNCHANGED <<srv, pidFile, fds>>,
         proc'[t].cmd = "foreground", proc'[t].pc = "serve", proc'[t].root = proc[t].root,
           proc'[t].term,
         \A r \in Pid \ {t} :
           \/ proc'[r] = proc[r] /\ ~Observer(r)
           \/ /\ proc[r].cmd \in {"stop", "uninstall"} /\ proc'[r].cmd = proc[r].cmd /\
                   proc'[r].root = proc[r].root
              /\ proc'[r].term = proc[r].term /\ proc'[r].pc = "wait" /\ At(r, "kill")
  PROVE  ManualInv'
<1> SUFFICES ASSUME NEW a \in Pid, NEW b \in Pid
             PROVE  (Shape(a) /\ FileFits(a) /\ Reads(a) /\ Alone(a, b) /\ Sees(a, b))'
  BY DEF ManualInv
<1>1. Shape(a)'
  <2>1. CASE a = t
    BY <2>1 DEF ManualInv, Shape, Alive, Daemon, TasksRun, Serving, Settled, LabelsOf,
       SetupLabel,
       CheckLabel, HeldLabel, CaLabel, At
  <2>2. CASE a # t
    BY <2>2 DEF ManualInv, Shape, Alive, Daemon, TasksRun, Serving, LabelsOf, SetupLabel,
       CheckLabel,
       HeldLabel, CaLabel, At
  <2> QED
    BY <2>1, <2>2
<1>2. FileFits(a)'
  BY DEF ManualInv, FileFits, Held, Daemon, At, CaLabel
<1>3. Reads(a)'
  BY DEF ManualInv, Reads, Observer, Command, Checking, Daemon, At, Cli, CheckLabel
<1>4. Alone(a, b)'
  BY DEF ManualInv, Alone, Held, Observer, Command, Checking, Daemon, At, Cli, CheckLabel,
     HeldLabel, CaLabel, Settled, Serving
<1>5. Sees(a, b)'
  BY DEF ManualInv, Alone, Sees, Held, Observer, Command, Checking, Daemon, At, Cli,
     CheckLabel, HeldLabel, CaLabel, SetupLabel
<1> QED
  BY <1>1, <1>2, <1>3, <1>4, <1>5


\* SIGTERM reaches the daemon that holds the service, when there is one.
LEMMA KillKeeps ==
  ASSUME ManualInv, TypeOK', NoJob', NEW p \in Pid, Kill(p)
  PROVE  ManualInv'
<1> DEFINE t == proc[p].seen
<1>1. Observer(p) /\ At(p, "kill") /\ Command(p) /\ proc[p].cmd \in {"stop", "uninstall"}
  <2>1. At(p, "kill")
    BY DEF Kill
  <2> QED
    BY <2>1 DEF ManualInv, Shape, LabelsOf, SetupLabel, CheckLabel, HeldLabel, CaLabel, At,
       Observer, Command,
       Cli
<1>2. \A d \in Pid : Held(d) => t = d /\ Settled(d) /\ Running(p, t)
  BY <1>1, LookingFinds DEF ManualInv, Sees, At, SetupLabel
<1>3. CASE ~Running(p, t)
  <2>1. \A d \in Pid : ~Held(d)
    BY <1>2, <1>3
  <2>2. Goto(p, IF proc[p].cmd = "uninstall" THEN "wait" ELSE "bail") /\ UNCHANGED <<srv,
          pidFile, fds>>
    BY <1>3 DEF Kill
  <2> QED
    BY <1>1, <2>1, <2>2, CarefreeKeeps DEF LabelsOf, SetupLabel, CheckLabel, HeldLabel, CaLabel,
       At
<1>4. CASE Running(p, t) /\ Held(t)
  <2>1. t \in Pid /\ t # p /\ Handles(t)
    BY <1>1, <1>2, <1>4 DEF Running, Held, Daemon, Settled, At, Handles
  <2>2. /\ \A r \in Pid \ {p, t} : proc'[r] = proc[r]
        /\ proc'[p] = [proc[p] EXCEPT !.pc = "wait"]
        /\ proc'[t] = [proc[t] EXCEPT !.term = TRUE]
    BY <1>1, <1>4, <2>1 DEF Kill, ManualInv, TypeOK, Signalled
  <2>3. UNCHANGED <<srv, pidFile, fds>>
    BY <1>4, <2>1 DEF Kill, Reap, Fatal, ManualInv, TypeOK
  <2>4. /\ proc'[p].pc = "wait" /\ proc'[p].cmd = proc[p].cmd /\ proc'[p].root = proc[p].root /\
             proc'[p].term = proc[p].term
        /\ proc'[t].pc = "serve" /\ proc'[t].cmd = "foreground" /\ proc'[t].root = proc[t].root /\
             proc'[t].term
    BY <1>2, <1>4, <2>1, <2>2 DEF ManualInv, TypeOK, Process, Held, Daemon, Settled, At
  <2>5. \A r \in Pid \ {p} : ~Observer(r)
    BY <1>1 DEF ManualInv, Alone, Observer, At
  <2>6. Settled(t)
    BY <1>2, <1>4, <2>1
  <2>7. ASSUME NEW r \in Pid \ {t}
        PROVE  \/ proc'[r] = proc[r] /\ ~Observer(r)
               \/ /\ proc[r].cmd \in {"stop", "uninstall"} /\ proc'[r].cmd = proc[r].cmd /\
                       proc'[r].root = proc[r].root
                  /\ proc'[r].term = proc[r].term /\ proc'[r].pc = "wait" /\ At(r, "kill")
    BY <1>1, <2>2, <2>4, <2>5
  <2> HIDE DEF t
  <2> QED
    BY <1>4, <2>1, <2>3, <2>4, <2>6, <2>7, ToldKeeps
<1>5. CASE Running(p, t) /\ ~Held(t)
  <2>1. t \in Pid /\ ~Handles(t) /\ \A d \in Pid : ~Held(d)
    BY <1>2, <1>5 DEF Running, Held, Daemon, Handles, HeldLabel, CaLabel
  <2>2. /\ \A r \in Pid \ {p, t} : proc'[r] = proc[r]
        /\ p # t => proc'[p] = [proc[p] EXCEPT !.pc = "wait"]
        /\ proc'[t] = Free
    BY <1>1, <1>5, <2>1 DEF Kill, ManualInv, TypeOK, Signalled
  <2>3. Reap({t}) /\ pidFile' = pidFile
    BY <1>5, <2>1 DEF Kill, Fatal
  <2>4. p # t => proc'[p].pc = "wait" /\ proc'[p].cmd = proc[p].cmd /\
          proc'[p].root = proc[p].root /\ proc'[p].term = proc[p].term
    BY <2>1, <2>2 DEF ManualInv, TypeOK, Process
  <2> SUFFICES ASSUME NEW a \in Pid, NEW b \in Pid
               PROVE  (Shape(a) /\ FileFits(a) /\ Reads(a) /\ Alone(a, b) /\ Sees(a, b))'
    BY DEF ManualInv
  <2> HIDE DEF t
  <2>5. Shape(a)'
    BY <1>1, <2>1, <2>2, <2>3, <2>4 DEF ManualInv, Shape, Alive, Free, Idle, Reap, Daemon,
       TasksRun, Serving, LabelsOf, SetupLabel, CheckLabel, HeldLabel, CaLabel
  <2>6. ~Held(a)' /\ ~Held(b)'
    BY <1>1, <2>1, <2>2, <2>4 DEF Held, Daemon, Free
  <2>7. Reads(a)'
    BY <1>1, <2>1, <2>2, <2>3, <2>4 DEF ManualInv, Reads, Observer, Command, Checking,
       Daemon, At, Free, CheckLabel
  <2>8. Alone(a, b)'
    BY <1>1, <2>1, <2>2, <2>4, <2>6 DEF ManualInv, Alone, Command, Checking, Daemon, At,
       Cli, Free
  <2> QED
    BY <2>5, <2>6, <2>7, <2>8 DEF FileFits, Sees, CaLabel, SetupLabel
<1> QED
  BY <1>3, <1>4, <1>5

\* Whoever waits goes on, whether the daemon is gone or only has been told.
LEMMA WaitForExitKeeps ==
  ASSUME ManualInv, TypeOK', NoJob', NEW p \in Pid, WaitForExit(p)
  PROVE  ManualInv'
<1>1. Observer(p) /\ Command(p) /\ At(p, "wait") /\ proc[p].cmd \in {"stop", "uninstall"}
  BY DEF WaitForExit, ManualInv, Shape, LabelsOf, SetupLabel, CheckLabel, HeldLabel, CaLabel,
     At, Observer,
     Command, Cli
<1>2. \A d \in Pid : Held(d) => proc[d].term
  BY <1>1 DEF ManualInv, Sees, At, SetupLabel
<1> QED
  BY <1>1, <1>2, CarefreeKeeps DEF WaitForExit, LabelsOf, SetupLabel, CheckLabel, At, CaLabel

\* uninstall plans to stop the daemon it found.
LEMMA PlanKeeps ==
  ASSUME ManualInv, TypeOK', NoJob', NEW p \in Pid, Plan(p)
  PROVE  ManualInv'
<1> USE LifecycleAssumption
<1>1. Observer(p) /\ Command(p) /\ At(p, "plan") /\ proc[p].cmd = "uninstall"
  BY DEF Plan, ManualInv, Shape, LabelsOf, SetupLabel, CheckLabel, HeldLabel, CaLabel, At,
     Observer, Command, Cli
<1> TypeOK
  BY DEF ManualInv
<1>2. /\ Moves(p) /\ proc'[p].seen = proc[p].seen
      /\ proc'[p].pc = IF DetectCleanup(p) = {} THEN "done" ELSE "unload"
      /\ proc'[p].plan = DetectCleanup(p)
      /\ UNCHANGED <<srv, pidFile, fds>>
  <2>1. ASSUME NEW s, NEW l, proc' = [proc EXCEPT ![p].plan = s, ![p].pc = l]
        PROVE  Moves(p) /\ proc'[p].seen = proc[p].seen /\ proc'[p].pc = l /\ proc'[p].plan = s
    BY <2>1 DEF TypeOK, Process, Moves
  <2> QED
    BY <2>1 DEF Plan
<1>3. \A d \in Pid : Held(d) => proc[p].seen = d /\ Settled(d) /\ "StopProcess" \in DetectCleanup(p)
  BY <1>1 DEF ManualInv, Sees, At, DetectCleanup, CleanupStep, SetupLabel
<1>4. Reads(p)'
  BY <1>2 DEF Reads, At
<1>5. ASSUME NEW d \in Pid PROVE FileFits(d)' /\ Sees(p, d)'
  BY <1>1, <1>2, <1>3 DEF ManualInv, FileFits, Sees, Moves, Observer, Command, Cli,
     Checking, Held, Daemon, At, HeldLabel, CaLabel, CheckLabel, Settled, Serving, SetupLabel
<1>6. proc'[p].pc \in LabelsOf(proc[p].cmd) /\ ~At(p, "done")
  BY <1>1, <1>2 DEF LabelsOf, SetupLabel, At, CaLabel
<1> QED
  BY <1>1, <1>2, <1>4, <1>5, <1>6, ObserverKeeps

\* With no job to unload, uninstall goes on to stop the daemon.
LEMMA UninstallUnloadKeeps ==
  ASSUME ManualInv, TypeOK', NoJob', NEW p \in Pid, UninstallUnload(p)
  PROVE  ManualInv'
<1>1. Observer(p) /\ Command(p) /\ At(p, "unload") /\ proc[p].cmd = "uninstall"
  BY DEF UninstallUnload, Observer, Command, Cli
<1> DEFINE next == IF "StopProcess" \in proc[p].plan THEN "kill" ELSE "resolver"
<1>2. Goto(p, next) /\ UNCHANGED <<srv, pidFile, fds>>
  BY DEF UninstallUnload, UnloadJob, ManualInv, NoJob
<1>3. Moves(p) /\ proc'[p].pc = next /\ proc'[p].seen = proc[p].seen
  BY <1>2, GotoIsMove DEF ManualInv
<1>4. \A d \in Pid : Held(d) => proc[p].seen = d /\ Settled(d) /\ next = "kill"
  BY <1>1 DEF ManualInv, Sees, At, SetupLabel
<1>5. next \in {"kill", "resolver"}
  OBVIOUS
<1> HIDE DEF next
<1>6. Reads(p)'
  BY <1>3, <1>5 DEF Reads, At
<1>7. ASSUME NEW d \in Pid PROVE FileFits(d)' /\ Sees(p, d)'
  BY <1>1, <1>2, <1>3, <1>4, <1>5 DEF ManualInv, FileFits, Sees, Moves, Observer, Command,
     Cli, Checking, Held, Daemon, At, HeldLabel, CaLabel, CheckLabel, Settled, Serving, SetupLabel
<1>8. proc'[p].pc \in LabelsOf(proc[p].cmd) /\ ~At(p, "done")
  BY <1>1, <1>3, <1>5 DEF LabelsOf, SetupLabel, At, CaLabel
<1> QED
  BY <1>1, <1>2, <1>3, <1>6, <1>7, <1>8, ObserverKeeps

\* The rest of uninstall deletes the PID file with the directory, after SIGTERM.
LEMMA UninstallKeeps ==
  ASSUME ManualInv, TypeOK', NoJob', NEW p \in Pid, RemoveResolver(p) \/ RemoveCaCert(p) \/
    RemoveDataDir(p)
  PROVE  ManualInv'
<1> USE LifecycleAssumption
<1>1. Observer(p) /\ Command(p) /\ proc[p].pc \in {"resolver", "untrust", "rmdata"} /\
        proc[p].cmd = "uninstall"
  BY DEF RemoveResolver, RemoveCaCert, RemoveDataDir, ManualInv, Shape, LabelsOf, SetupLabel,
     CheckLabel, HeldLabel, CaLabel, At, Observer, Command, Cli
<1>2. \A d \in Pid : Held(d) => proc[d].term
  BY <1>1 DEF ManualInv, Sees, At, SetupLabel
<1>3. /\ Moves(p) /\ proc'[p].pc \in {"untrust", "rmdata", "done"}
      /\ UNCHANGED srv
  BY GotoIsMove DEF ManualInv, RemoveResolver, RemoveCaCert, RemoveDataDir
<1>4. Reads(p)'
  BY <1>3 DEF Reads, At
<1>5. ASSUME NEW d \in Pid PROVE FileFits(d)' /\ Sees(p, d)'
  BY <1>1, <1>2, <1>3 DEF ManualInv, Shape, FileFits, Sees, Moves, Observer, Command, Cli,
     Checking, Held, Daemon, At, HeldLabel, CaLabel, CheckLabel, Settled, Serving, SetupLabel
<1>6. proc'[p].pc \in LabelsOf(proc[p].cmd) /\ ~At(p, "done")
  BY <1>1, <1>3 DEF LabelsOf, SetupLabel, At, CaLabel
<1> QED
  BY <1>1, <1>3, <1>4, <1>5, <1>6, ObserverKeeps

\* So does every step of a process.
LEMMA StepKeeps ==
  ASSUME ManualInv, NEW p \in Pid, Step(p)
  PROVE  ManualInv'
<1> TypeOK' /\ NoJob'
  BY StepTyped, NoJobKept DEF ManualInv
<1>1. ~InstallUnload(p) /\ ~WritePlist(p) /\ ~LoadJob(p)
  BY DEF InstallUnload, WritePlist, LoadJob, ManualInv, Shape, LabelsOf, SetupLabel, CheckLabel,
     HeldLabel, CaLabel, At
<1> QED
  BY <1>1, ReadPidExistsKeeps, ReadPidContentsKeeps, IsRunningKeeps, RemoveStaleKeeps,
     RemoveOwnKeeps,
     ExitKeeps, SetupKeeps, DaemonizeKeeps, DaemonStepKeeps, BindKeeps, KillKeeps, WaitForExitKeeps,
     PlanKeeps, UninstallUnloadKeeps, UninstallKeeps DEF Step

(***************************************************************************)
(* The operator and the kernel.                                            *)
(***************************************************************************)

\* When the operator acts, nothing is in progress: no observer, and no daemon but
\* the settled one in the file.
LEMMA QuietMeans ==
  ASSUME ManualAsRoot, ManualInv, MayInvoke, NEW q \in Pid
  PROVE  ~Observer(q) /\ (Daemon(q) => Settled(q) /\ Held(q) /\ pidFile = q)
<1>1. Alive(q) => proc[q].cmd = "other" \/ Settled(q)
  BY DEF ManualAsRoot, MayInvoke, Quiet
<1>2. Settled(q) => Daemon(q) /\ Held(q) /\ pidFile = q
  BY DEF ManualInv, Shape, LabelsOf, SetupLabel, CheckLabel, HeldLabel, CaLabel, Settled, At,
     Daemon, Held,
     FileFits
<1> QED
  BY <1>1, <1>2 DEF Observer, Command, Cli, Checking, CheckLabel, Daemon, Alive, Held,
     HeldLabel, CaLabel, Settled, At

\* A new command, or a daemon in the terminal.
LEMMA InvokeKeeps ==
  ASSUME ManualAsRoot, ManualInv, TypeOK', NoJob', NEW q \in Pid, Invoke(q)
  PROVE  ManualInv'
<1>1. PICK c \in Commands, r \in Sudo : proc' = [proc EXCEPT ![q] = Begun(c, r)]
  BY DEF Invoke
<1>2. c \in {"start", "stop", "status", "uninstall", "foreground"} /\ r = TRUE
  BY LifecycleAssumption DEF ManualAsRoot, Cli
<1>3. /\ \A p \in Pid \ {q} : proc'[p] = proc[p]
      /\ proc'[q].cmd = c /\ proc'[q].pc = "exists" /\ proc'[q].root /\ ~proc'[q].term
  BY <1>1, <1>2 DEF Begun, ManualInv, TypeOK
<1>4. UNCHANGED <<srv, pidFile, fds>> /\ ~Alive(q)
  BY DEF Invoke, Fresh
<1>5. \A p \in Pid : ~Observer(p) /\ (Daemon(p) => Settled(p) /\ Held(p) /\ pidFile = p)
  BY QuietMeans DEF Invoke
<1> SUFFICES ASSUME NEW a \in Pid, NEW b \in Pid
             PROVE  (Shape(a) /\ FileFits(a) /\ Reads(a) /\ Alone(a, b) /\ Sees(a, b))'
  BY DEF ManualInv
<1>6. Shape(a)'
  BY <1>2, <1>3, <1>4 DEF ManualInv, Shape, Alive, Daemon, TasksRun, Serving, LabelsOf,
     SetupLabel,
     CheckLabel, HeldLabel, CaLabel
<1>7. FileFits(a)'
  BY <1>2, <1>3, <1>4 DEF ManualInv, FileFits, Held, Daemon, At, HeldLabel, CaLabel
<1>8. Reads(a)'
  BY <1>3, <1>4, <1>5 DEF Reads, Observer, Command, Checking, Daemon, At
<1>9. Alone(a, b)'
  <2>1. ASSUME NEW p \in Pid
        PROVE  /\ Observer(p)' => p = q
               /\ Daemon(p)' /\ p # q => Settled(p)' /\ Held(p)' /\ pidFile = p
    BY <1>3, <1>4, <1>5 DEF Observer, Command, Checking, Daemon, Held, Settled, Serving, At
  <2>2. ~Held(q)' /\ ~(Command(q)' /\ Daemon(q)')
    BY <1>3 DEF Held, HeldLabel, CaLabel, Command, Daemon, Cli
  <2> QED
    BY <2>1, <2>2 DEF Alone, Observer, Held, Checking
<1>10. Sees(a, b)'
  BY <1>2, <1>3, <1>4, <1>5 DEF ManualInv, Sees, Held, Observer, Command, Checking, Daemon,
     At, HeldLabel, CaLabel, CheckLabel, Settled, Serving, SetupLabel
<1> QED
  BY <1>6, <1>7, <1>8, <1>9, <1>10

\* Ctrl-C on the daemon.
LEMMA InterruptKeeps ==
  ASSUME ManualAsRoot, ManualInv, TypeOK', NoJob', NEW t \in Pid, Interrupt(t)
  PROVE  ManualInv'
<1>1. \A q \in Pid : ~Observer(q)
  BY QuietMeans DEF Interrupt
<1>2. Held(t) /\ Settled(t) /\ Handles(t)
  BY QuietMeans DEF Interrupt, Daemon, Settled, At, Handles
<1>3. /\ \A r \in Pid \ {t} : proc'[r] = proc[r]
      /\ proc'[t].cmd = "foreground" /\ proc'[t].pc = "serve" /\ proc'[t].root = proc[t].root /\
           proc'[t].term
  BY <1>2 DEF Interrupt, Signalled, ManualInv, TypeOK, Process, Held, Daemon, Settled, At
<1>4. UNCHANGED <<srv, pidFile, fds>>
  BY <1>2 DEF Interrupt, Fatal, Reap, ManualInv, TypeOK
<1> QED
  BY <1>1, <1>2, <1>3, <1>4, ToldKeeps

\* Another program gets a PID ...
LEMMA OtherKeeps ==
  ASSUME ManualInv, TypeOK', NoJob', NEW q \in Pid, OtherProgram(q)
  PROVE  ManualInv'
<1>1. /\ \A p \in Pid \ {q} : proc'[p] = proc[p]
      /\ proc'[q].cmd = "other" /\ proc'[q].pc = "none" /\ proc'[q].root /\ ~proc'[q].term
  BY DEF OtherProgram, Free, ManualInv, TypeOK
<1>2. UNCHANGED <<srv, pidFile, fds>> /\ ~Alive(q)
  BY DEF OtherProgram, Fresh
<1> SUFFICES ASSUME NEW a \in Pid, NEW b \in Pid
             PROVE  (Shape(a) /\ FileFits(a) /\ Reads(a) /\ Alone(a, b) /\ Sees(a, b))'
  BY DEF ManualInv
<1>3. Shape(a)'
  BY <1>1, <1>2 DEF ManualInv, Shape, Alive, Daemon, TasksRun, Serving, LabelsOf, SetupLabel,
     CaLabel
<1>4. FileFits(a)' /\ Reads(a)'
  BY <1>1, <1>2 DEF ManualInv, FileFits, Reads, Held, Observer, Command, Cli, Checking,
     Daemon, At, CaLabel
<1>5. Alone(a, b)' /\ Sees(a, b)'
  BY <1>1, <1>2 DEF ManualInv, Alone, Sees, Held, Observer, Command, Cli, Checking, Daemon,
     At, Settled, Serving, SetupLabel
<1> QED
  BY <1>3, <1>4, <1>5

\* ... and ends.
LEMMA OtherExitsKeeps ==
  ASSUME ManualInv, TypeOK', NoJob', NEW q \in Pid, OtherExits(q)
  PROVE  ManualInv'
<1>1. /\ \A p \in Pid \ {q} : proc'[p] = proc[p]
      /\ proc'[q] = Free /\ proc[q].cmd = "other"
  BY DEF OtherExits, ManualInv, TypeOK
<1>2. UNCHANGED <<srv, pidFile, fds>>
  BY DEF OtherExits
<1> SUFFICES ASSUME NEW a \in Pid, NEW b \in Pid
             PROVE  (Shape(a) /\ FileFits(a) /\ Reads(a) /\ Alone(a, b) /\ Sees(a, b))'
  BY DEF ManualInv
<1>3. Shape(a)'
  BY <1>1, <1>2 DEF ManualInv, Shape, Alive, Daemon, TasksRun, Serving, LabelsOf, SetupLabel,
     Free, CaLabel
<1>4. FileFits(a)' /\ Reads(a)'
  BY <1>1, <1>2 DEF ManualInv, FileFits, Reads, Held, Observer, Command, Cli, Checking,
     Daemon, At, Free, CaLabel
<1>5. Alone(a, b)' /\ Sees(a, b)'
  BY <1>1, <1>2 DEF ManualInv, Alone, Sees, Held, Observer, Command, Cli, Checking, Daemon,
     At, Settled, Serving, Free, SetupLabel
<1> QED
  BY <1>3, <1>4, <1>5

\* The invariant is kept by every step of the system ...
LEMMA NextManual == ManualAsRoot /\ ManualInv /\ [Next]_vars => ManualInv'
<1> SUFFICES ASSUME ManualAsRoot, ManualInv, [Next]_vars PROVE ManualInv'
  OBVIOUS
<1> TypeOK /\ TypeOK'
  BY NextTyped DEF ManualInv
<1> NoJob
  BY DEF ManualInv
<1>1. CASE UNCHANGED vars
  BY <1>1 DEF vars, config, launchd, ManualInv, NoJob, Shape, FileFits, Reads, Alone, Sees,
     Alive, Daemon, TasksRun,
     Serving, Held, Observer, Command, Checking, At, Settled, CaLabel, SetupLabel
<1>2. CASE Reboot
  BY <1>2, EndsKeep DEF Reboot, NoJob
<1>3. ASSUME NEW p \in Pid, Step(p) PROVE ManualInv'
  BY <1>3, StepKeeps
<1>4. ASSUME NEW p \in Pid, Invoke(p) PROVE ManualInv'
  BY <1>4, InvokeKeeps DEF Invoke, NoJob, launchd
<1>5. ASSUME NEW p \in Pid, Crash(p) PROVE ManualInv'
  <2>1. proc' = [q \in Pid |-> IF q \in {p} THEN Free ELSE proc[q]] /\ NoJob'
    BY <1>5 DEF Crash, TypeOK, NoJob, JobAfter
  <2> QED
    BY <1>5, <2>1, EndsKeep DEF Crash
<1>6. ASSUME NEW p \in Pid, LaunchdSpawn(p) PROVE ManualInv'
  BY <1>6 DEF LaunchdSpawn, NoJob
<1>7. ASSUME NEW p \in Pid, Interrupt(p) PROVE ManualInv'
  BY <1>7, InterruptKeeps DEF Interrupt, NoJob, launchd
<1>8. ASSUME NEW p \in Pid, OtherProgram(p) PROVE ManualInv'
  BY <1>8, OtherKeeps DEF OtherProgram, NoJob, launchd
<1>9. ASSUME NEW p \in Pid, OtherExits(p) PROVE ManualInv'
  BY <1>9, OtherExitsKeeps DEF OtherExits, NoJob, launchd
<1> QED
  BY <1>1, <1>2, <1>3, <1>4, <1>5, <1>6, <1>7, <1>8, <1>9 DEF Next

\* ... and holds in the beginning.
LEMMA InitManual == Init => ManualInv
<1> SUFFICES ASSUME Init PROVE ManualInv
  OBVIOUS
<1>1. TypeOK /\ NoJob
  BY InitTyped DEF Init, NoJob
<1>2. \A p \in Pid : proc[p] = Free /\ srv[p] = Idle
  BY DEF Init
<1>3. \A p \in Pid : Shape(p) /\ FileFits(p) /\ Reads(p)
  BY <1>2 DEF Shape, FileFits, Reads, Free, Idle, Alive, Daemon, TasksRun, Serving,
     LabelsOf, SetupLabel,
              Held, HeldLabel, CaLabel, Observer, Command, Cli, Checking, CheckLabel, At
<1>4. \A p, q \in Pid : Alone(p, q) /\ Sees(p, q)
  BY <1>2 DEF Alone, Sees, Free, Daemon, Held, Observer, Command, Cli, Checking, SetupLabel
<1> QED
  BY <1>1, <1>3, <1>4 DEF ManualInv

(***************************************************************************)
(* What follows from the invariant.                                        *)
(***************************************************************************)

\* Run by hand as root, one command after the other, dd-ferryman never has two
\* daemons that both passed the check of start::run: the PID file works as a lock
\* although checking and writing it are separate calls, whatever crashes.
THEOREM ManualExclusive == ManualAsRoot => (Spec => []Exclusive)
<1> SUFFICES ASSUME ManualAsRoot PROVE Spec => []Exclusive
  OBVIOUS
<1>1. ManualInv /\ [Next]_vars => ManualInv'
  BY NextManual
<1>2. ManualInv => Exclusive
  BY DEF ManualInv, Alone, Exclusive, Claims, Held, HeldLabel, CaLabel, Daemon
<1> QED
  BY InitManual, <1>1, <1>2, PTL DEF Spec

\* Run that way, a daemon that serves when nothing is in progress is the one in
\* the PID file: stop, status and start find it.
THEOREM ManualTracked == ManualAsRoot => (Spec => []Tracked)
<1> SUFFICES ASSUME ManualAsRoot PROVE Spec => []Tracked
  OBVIOUS
<1>1. ManualInv /\ [Next]_vars => ManualInv'
  BY NextManual
<1>2. ManualInv => Tracked
  <2> SUFFICES ASSUME ManualInv, Quiet, NEW d \in Pid, Serving(d) PROVE pidFile = d
    BY DEF Tracked
  <2>1. TasksRun(d)
    BY DEF ManualInv, Shape, Serving, Server
  <2>2. Held(d) /\ Settled(d)
    BY <2>1 DEF Quiet, TasksRun, Alive, Held, Daemon, HeldLabel, CaLabel
  <2> QED
    BY <2>2 DEF ManualInv, FileFits, Settled, At, CaLabel
<1> QED
  BY InitManual, <1>1, <1>2, PTL DEF Spec

\* Run that way, a PID file deleted as stale never names a daemon that lives,
\* although reading, checking and deleting it are separate calls.
THEOREM ManualRemovesOnlyStale == ManualAsRoot => (Spec => OnlyStaleRemoved)
<1> SUFFICES ASSUME ManualAsRoot PROVE Spec => OnlyStaleRemoved
  OBVIOUS
<1> DEFINE A == \A p \in Pid :
       At(p, "stale_rm") /\ proc'[p].pc # "stale_rm" /\ pidFile' = NoFile
       /\ pidFile \in Pid => proc[pidFile].cmd # "foreground"
<1>1. ManualInv /\ [Next]_vars => ManualInv'
  BY NextManual
<1>2. ManualInv /\ [Next]_vars => [A]_vars
  <2> SUFFICES ASSUME ManualInv, NEW p \in Pid, At(p, "stale_rm"), pidFile \in Pid
               PROVE  proc[pidFile].cmd # "foreground"
    OBVIOUS
  <2>1. Observer(p)
    BY ObserverAt DEF At, CheckLabel
  <2> QED
    BY <2>1 DEF ManualInv, Reads, Daemon, At
<1> QED
  BY InitManual, <1>1, <1>2, PTL DEF Spec, OnlyStaleRemoved

(***************************************************************************)
(* status and stop tell the truth.                                         *)
(***************************************************************************)

\* What a step of one process does to another: nothing, a signal, or its birth.
LEMMA OthersMove ==
  ASSUME ManualInv, NEW q \in Pid, Step(q), NEW p \in Pid, p # q
  PROVE  proc'[p].pc = proc[p].pc \/ proc'[p].pc = "none" \/ proc'[p].pc = "exists"
<1> TypeOK
  BY DEF ManualInv
<1>1. CASE \E l : Goto(q, l)
  BY <1>1 DEF Goto, TypeOK
<1>2. CASE Kill(q)
  <2>1. ASSUME NEW t \in Pid, proc' = [proc EXCEPT ![q].pc = "wait", ![t] = Signalled(t)]
        PROVE  proc'[p].pc = proc[p].pc \/ proc'[p].pc = "none"
    <3>1. Signalled(t).pc \in {proc[t].pc, "none"}
      BY DEF Signalled, Free, TypeOK, Process
    <3>2. proc'[p] = IF p = t THEN Signalled(t) ELSE proc[p]
      BY <2>1 DEF TypeOK
    <3> QED
      BY <3>1, <3>2
  <2> QED
    BY <1>1, <1>2, <2>1 DEF Kill, Running
<1>3. CASE InstallUnload(q) \/ UninstallUnload(q)
  BY <1>1, <1>3 DEF InstallUnload, UninstallUnload, UnloadJob, ManualInv, NoJob
<1>4. CASE Daemonize(q)
  BY <1>1, <1>4 DEF Daemonize, Begun, TypeOK, Process
<1>5. CASE Exit(q) \/ IsRunning(q) \/ ReadPidContents(q) \/ Plan(q) \/ \E s \in Server : Bind(q, s)
  BY <1>1, <1>5 DEF Exit, IsRunning, ReadPidContents, Plan, Bind, TypeOK, Process
<1>6. CASE SetupStep(q)
  BY <1>1, <1>6, SetupMoves
<1> QED
  BY <1>1, <1>2, <1>3, <1>4, <1>5, <1>6
  DEF Step, ReadPidExists, RemoveStale, RemoveOwn, RemovePidTest, RemovePidUnlink,
      OpenPidFile, WritePidFile, PollSelect, SelectFailed, SelectShutdown, WaitForExit,
      WritePlist, LoadJob, RemoveResolver, RemoveCaCert, RemoveDataDir

\* A process gets to the verdict "not running" only when it finds no PID file or
\* has removed a stale one.
LEMMA VerdictFrom ==
  ASSUME ManualInv, NEW p \in Pid, Step(p), proc'[p].pc = "not_running", ~At(p, "not_running")
  PROVE  (At(p, "exists") /\ pidFile = NoFile) \/ proc[p].pc \in {"stale_exists", "stale_rm"}
<1> TypeOK
  BY DEF ManualInv
<1>1. CASE ReadPidExists(p) \/ RemoveStale(p)
  BY <1>1, GotoIsMove DEF ReadPidExists, RemoveStale, RemovePidTest, RemovePidUnlink, At
<1>2. ~\E l \in Label \ {"not_running"} : Goto(p, l)
  BY GotoIsMove
<1>3. ~RemoveOwn(p)
  BY <1>2 DEF RemoveOwn, RemovePidTest, RemovePidUnlink, AfterRemove, WhenVanished, Label
<1>4. ~IsRunning(p)
  BY DEF IsRunning, WhenRunning, WhenDead, TypeOK, Process
<1>5. ~Exit(p) /\ ~Plan(p) /\ ~ReadPidContents(p) /\ \A s \in Server : ~Bind(p, s)
  BY <1>2 DEF Exit, Free, Plan, ReadPidContents, Bind, At, Label, TypeOK, Process
<1>6. ~Kill(p) /\ ~Daemonize(p)
  BY <1>2 DEF Kill, Daemonize, Signalled, Begun, Free, Handles, Label, TypeOK, Process
<1>7. ~InstallUnload(p) /\ ~UninstallUnload(p)
  BY <1>2 DEF InstallUnload, UninstallUnload, UnloadJob, ManualInv, NoJob, Label
<1>8. ~SetupStep(p)
  BY SetupMoves DEF SetupLabel, CaLabel
<1> QED
  BY <1>1, <1>2, <1>3, <1>4, <1>5, <1>6, <1>7, <1>8
  DEF Step, OpenPidFile, WritePidFile, PollSelect, SelectFailed,
     SelectShutdown,
      WaitForExit, WritePlist, LoadJob, RemoveResolver, RemoveCaCert, RemoveDataDir, Label

\* Run that way, stop and status say "not running" only when no daemon serves.
THEOREM ManualVerdicts == ManualAsRoot => (Spec => TruthfulVerdict)
<1> SUFFICES ASSUME ManualAsRoot PROVE Spec => TruthfulVerdict
  OBVIOUS
<1> DEFINE A == \A p \in Pid : ~At(p, "not_running") /\ proc'[p].pc = "not_running"
                                 => \A d \in Pid : ~Serving(d)
<1>1. ManualInv /\ [Next]_vars => ManualInv'
  BY NextManual
<1>2. ManualInv /\ [Next]_vars => [A]_vars
  <2> SUFFICES ASSUME ManualInv, Next, NEW p \in Pid,
                      ~At(p, "not_running"), proc'[p].pc = "not_running",
                      NEW d \in Pid, Serving(d)
               PROVE  FALSE
    OBVIOUS
  <2> TypeOK
    BY DEF ManualInv
  <2>1. Step(p)
    <3>1. ASSUME NEW q \in Pid, Step(q) PROVE q = p
      BY <3>1, OthersMove DEF At
    <3>2. ASSUME NEW q \in Pid PROVE ~Crash(q) /\ ~OtherExits(q)
      BY DEF Crash, OtherExits, Free, At, TypeOK
    <3>4. ASSUME NEW q \in Pid PROVE ~Invoke(q) /\ ~LaunchdSpawn(q) /\ ~OtherProgram(q)
      <4>1. ASSUME NEW e, e.pc # "not_running" PROVE proc' # [proc EXCEPT ![q] = e]
        BY <4>1 DEF At, TypeOK
      <4>2. \A c, r : Begun(c, r).pc # "not_running"
        BY DEF Begun
      <4>3. [Free EXCEPT !.cmd = "other", !.root = TRUE].pc # "not_running"
        BY DEF Free
      <4> QED
        BY <4>1, <4>2, <4>3 DEF Invoke, LaunchdSpawn, OtherProgram
    <3>5. ASSUME NEW q \in Pid PROVE ~Interrupt(q)
      BY DEF Interrupt, Signalled, Free, At, TypeOK, Process
    <3>3. ~Reboot
      BY DEF Reboot, Free
    <3> QED
      BY <3>1, <3>2, <3>3, <3>4, <3>5 DEF Next
  <2>2. Held(d)
    BY DEF ManualInv, Shape, Serving, Server, TasksRun, Held, Daemon, HeldLabel, CaLabel
  <2>3. CASE At(p, "exists") /\ pidFile = NoFile
    <3>1. Observer(p)
      BY <2>3, ObserverAt DEF At, CheckLabel
    <3> QED
      BY <2>2, <2>3, <3>1, LookingFinds, LifecycleAssumption DEF At
  <2>4. CASE proc[p].pc \in {"stale_exists", "stale_rm"}
    <3>1. Observer(p)
      BY <2>4, ObserverAt DEF CheckLabel
    <3> QED
      BY <2>2, <2>4, <3>1 DEF ManualInv, Sees, SetupLabel
  <2> QED
    BY <2>1, <2>3, <2>4, VerdictFrom
<1> QED
  BY InitManual, <1>1, <1>2, PTL DEF Spec, TruthfulVerdict

(***************************************************************************)
(* SIGTERM is for the daemon.                                              *)
(***************************************************************************)

\* Without a fault no PID file is left behind: one that names a PID is that of the
\* daemon that holds the service, for it deletes the file before it exits ...
FileHeld == pidFile \in Pid => Held(pidFile) /\ ~At(pidFile, "exit")

\* ... and it never fails on the CA: an empty key has a writer ...
KeyOpen == ca = "empty" => \E q \in fds : At(q, "write_key")

\* ... the CA that is read is complete, and the key has a directory.  The PID that a
\* command is going to signal is that of the daemon.
Targets(p) ==
  \/ At(p, "kill")
  \/ At(p, "plan") /\ proc[p].seen # NoPid
  \/ At(p, "unload") /\ "StopProcess" \in proc[p].plan

Ready(p) ==
  /\ At(p, "load_ca") => ca = "ok"
  /\ At(p, "key") => dataDir
  /\ At(p, "exists") => proc[p].seen = NoPid
  /\ Targets(p) => proc[p].seen \in Pid /\ Held(proc[p].seen)

Faultless == faults = 0 => FileHeld /\ KeyOpen /\ \A p \in Pid : Ready(p)

\* Only one process at a time reads or makes the CA.
LEMMA CaAlone ==
  ASSUME ManualInv, NEW p \in Pid, NEW q \in Pid, proc[p].pc \in CaLabel,
         proc[q].pc \in SetupLabel
  PROVE  p = q
<1>1. /\ proc[p].cmd = "start" \/ Held(p)
      /\ proc[q].cmd = "start" \/ Held(q)
  BY DEF ManualInv, Shape, LabelsOf, SetupLabel, CheckLabel, HeldLabel, CaLabel, Held, Daemon
<1>2. /\ proc[p].cmd = "start" => Observer(p) /\ Command(p)
      /\ proc[q].cmd = "start" => Observer(q) /\ Command(q)
  BY DEF Observer, Command, Cli
<1>3. CASE proc[p].cmd = "start" /\ proc[q].cmd = "start"
  BY <1>2, <1>3 DEF ManualInv, Alone
<1>4. CASE Held(p) /\ Held(q)
  BY <1>4 DEF ManualInv, Alone
<1>5. ~(proc[p].cmd = "start" /\ Held(q)) /\ ~(proc[q].cmd = "start" /\ Held(p))
  BY <1>2 DEF ManualInv, Sees, SetupLabel
<1> QED
  BY <1>1, <1>3, <1>4, <1>5

\* When a directory is removed nobody is about to put a CA into it.
LEMMA NoCaAtRemoval ==
  ASSUME ManualInv, NEW p \in Pid, At(p, "rmdata"), NEW q \in Pid
  PROVE  proc[q].pc \notin CaLabel
<1> SUFFICES ASSUME proc[q].pc \in CaLabel PROVE FALSE
  OBVIOUS
<1>1. Command(p) /\ Observer(p)
  BY DEF ManualInv, Shape, LabelsOf, SetupLabel, CaLabel, CheckLabel, HeldLabel, At, Command,
     Observer, Cli
<1>2. (proc[q].cmd = "start" /\ p # q) \/ Held(q)
  BY DEF ManualInv, Shape, LabelsOf, SetupLabel, CheckLabel, HeldLabel, CaLabel, Held,
     Daemon, At
<1>3. CASE proc[q].cmd = "start" /\ p # q
  BY <1>1, <1>3 DEF ManualInv, Alone, Command, Cli
<1>4. CASE Held(q)
  <2>1. proc[q].term
    BY <1>1, <1>4 DEF ManualInv, Sees, At
  <2> QED
    BY <2>1 DEF ManualInv, Shape, CaLabel
<1> QED
  BY <1>2, <1>3, <1>4

\* A step that is not about the CA keeps this, if it does so for the PID file and
\* for its own PID to kill.
LEMMA MoveKeepsFaultless ==
  ASSUME ManualInv, Faultless, NEW p \in Pid, Moves(p), ~Settled(p),
         proc[p].pc \notin CaLabel, proc'[p].pc \notin {"load_ca", "key"}, UNCHANGED faults,
         UNCHANGED <<ca, dataDir>> \/ (ca' = "none" /\ At(p, "rmdata")),
         ca' = "none" \/ \A q \in fds : At(q, "write_key") => q \in fds',
         At(p, "exists")' => proc'[p].seen = NoPid,
         faults = 0 => /\ FileHeld'
                       /\ Targets(p)' => (proc[p].seen \in Pid /\ Held(proc[p].seen))'
  PROVE  Faultless'
<1> SUFFICES ASSUME faults = 0 PROVE (FileHeld /\ KeyOpen /\ \A q \in Pid : Ready(q))'
  BY DEF Faultless
<1>1. KeyOpen'
  BY DEF Faultless, KeyOpen, Moves, At, CaLabel, ManualInv, TypeOK
<1>2. ASSUME NEW q \in Pid PROVE Ready(q)'
  <2>1. CASE q = p
    BY <2>1 DEF Ready, At
  <2>2. CASE q # p
    <3>1. proc'[q] = proc[q] /\ Ready(q)
      BY <2>2 DEF Moves, Faultless
    <3>2. Targets(q) => proc[q].seen \in Pid /\ Held(proc[q].seen)'
      <4> SUFFICES ASSUME Targets(q) PROVE proc[q].seen \in Pid /\ Held(proc[q].seen)'
        OBVIOUS
      <4>1. proc[q].seen \in Pid /\ Held(proc[q].seen) /\ Observer(q)
        BY <3>1, ObserverAt DEF Ready, Targets, At
      <4>2. Settled(proc[q].seen)
        BY <4>1 DEF ManualInv, Sees, Targets, At
      <4> QED
        BY <3>1, <4>1, <4>2 DEF Moves, Held, Daemon
    <3>3. CASE UNCHANGED <<ca, dataDir>>
      BY <3>1, <3>2, <3>3 DEF Ready, Targets, At
    <3>4. CASE ca' = "none" /\ At(p, "rmdata")
      BY <3>1, <3>2, <3>4, NoCaAtRemoval DEF Ready, Targets, At, CaLabel
    <3> QED
      BY <3>3, <3>4
  <2> QED
    BY <2>1, <2>2
<1> QED
  BY <1>1, <1>2

\* The PID file is kept by a step of another process than the one it names, and by
\* one that only moves it on.
LEMMA FileStillHeld ==
  ASSUME ManualInv, FileHeld, NEW p \in Pid, Moves(p),
         \/ pidFile' = pidFile /\ (pidFile = p /\ Held(p) => proc'[p].pc \in HeldLabel \ {"exit"})
         \/ pidFile' \notin Pid
         \/ pidFile' = p /\ Daemon(p) /\ proc'[p].pc \in HeldLabel \ {"exit"}
  PROVE  FileHeld'
BY DEF FileHeld, Moves, Held, Daemon, At

\* The setup of start and the CA of a daemon: the key that is opened is written, and
\* neither fails on it.
LEMMA SetupFaultless ==
  ASSUME ManualInv, Faultless, NEW p \in Pid, SetupStep(p)
  PROVE  Faultless'
<1> SUFFICES ASSUME faults = 0 PROVE (FileHeld /\ KeyOpen /\ \A q \in Pid : Ready(q))'
  BY SetupMoves DEF Faultless
<1>1. Moves(p) /\ UNCHANGED pidFile /\ proc[p].pc \in SetupLabel /\ FileHeld /\ KeyOpen
      /\ \A q \in Pid : Ready(q)
  BY SetupMoves DEF Faultless, SetupLabel
<1>2. \A q \in Pid \ {p} : proc'[q] = proc[q] /\ proc[q].pc \notin CaLabel
  BY <1>1, CaAlone DEF Moves
<1> TypeOK
  BY DEF ManualInv
<1>3. ca = "empty" => p \in fds /\ At(p, "write_key")
  BY <1>1, <1>2 DEF KeyOpen, At, CaLabel, TypeOK
<1>4. At(p, "load_ca") => proc'[p].pc # "bail"
  BY <1>1, GotoIsMove DEF SetupStep, EnsureDirs, SetupTestsCa, LoadOrCreateCa, LoadCa,
     SaveCrt, OpenKey, WriteKey, TrustCa, WriteResolver, At, Ready, AfterCa
<1>5. At(p, "key") => proc'[p].pc # "bail"
  BY <1>1, GotoIsMove DEF SetupStep, EnsureDirs, SetupTestsCa, LoadOrCreateCa, LoadCa,
     SaveCrt, OpenKey, WriteKey, TrustCa, WriteResolver, At, Ready
<1>6. proc[p].pc \in {"create", "crt", "write_key"} => proc'[p].pc # "bail"
  BY GotoIsMove DEF SetupStep, EnsureDirs, SetupTestsCa, LoadOrCreateCa, LoadCa,
     SaveCrt, OpenKey, WriteKey, TrustCa, WriteResolver, At, AfterCa
<1>7. FileHeld'
  <2>1. pidFile = p /\ Held(p) => proc'[p].pc \in HeldLabel \ {"exit"}
    BY <1>4, <1>5, <1>6, SetupMoves DEF Held, Daemon, HeldLabel, CaLabel, At
  <2> QED
    BY <1>1, <2>1, FileStillHeld
<1>8. KeyOpen'
  BY <1>1, <1>3, GotoIsMove DEF SetupStep, EnsureDirs, SetupTestsCa, LoadOrCreateCa, LoadCa,
     SaveCrt, OpenKey, WriteKey, TrustCa, WriteResolver, KeyOpen, At, config
<1>9. Ready(p)'
  <2>1. proc'[p].pc \notin {"kill", "plan", "unload", "exists"}
    BY SetupMoves DEF SetupLabel, CaLabel
  <2>2. proc'[p].pc = "key" => dataDir'
    BY <1>1, GotoIsMove DEF SetupStep, EnsureDirs, SetupTestsCa, LoadOrCreateCa, LoadCa,
       SaveCrt, OpenKey, WriteKey, TrustCa, WriteResolver, At, AfterCa, AfterSetup
  <2>3. proc'[p].pc = "load_ca" => ca' = "ok"
    BY <1>1, <1>3, GotoIsMove DEF SetupStep, EnsureDirs, SetupTestsCa, LoadOrCreateCa, LoadCa,
       SaveCrt, OpenKey, WriteKey, TrustCa, WriteResolver, At, AfterCa, AfterSetup, CaExists,
       config
  <2> QED
    BY <2>1, <2>2, <2>3 DEF Ready, Targets, At
<1>10. ASSUME NEW q \in Pid \ {p} PROVE Ready(q)'
  <2>1. proc'[q] = proc[q] /\ Ready(q) /\ proc[q].pc \notin CaLabel
    BY <1>1, <1>2
  <2>2. Targets(q) => proc[q].seen \in Pid /\ Held(proc[q].seen)'
    <3> SUFFICES ASSUME Targets(q) PROVE proc[q].seen \in Pid /\ Held(proc[q].seen)'
      OBVIOUS
    <3>1. proc[q].seen \in Pid /\ Held(proc[q].seen) /\ Observer(q)
      BY <2>1, ObserverAt DEF Ready, Targets, At
    <3>2. Settled(proc[q].seen)
      BY <3>1 DEF ManualInv, Sees, Targets, At
    <3>3. proc[q].seen # p
      BY <1>1, <3>2 DEF Settled, At, SetupLabel, CaLabel
    <3> QED
      BY <1>2, <3>1, <3>3 DEF Held, Daemon
  <2> QED
    BY <2>1, <2>2 DEF Ready, Targets, At, CaLabel
<1> QED
  BY <1>7, <1>8, <1>9, <1>10

\* A step to a label that is nothing to it.
LEMMA PlainFaultless ==
  ASSUME ManualInv, Faultless, NEW p \in Pid, NEW l, Goto(p, l), ~Settled(p),
         proc[p].pc \notin CaLabel,
         l \notin {"load_ca", "key", "exists", "kill", "plan", "unload"},
         UNCHANGED <<ca, dataDir, faults>>, \A q \in fds : At(q, "write_key") => q \in fds',
         FileHeld => \/ pidFile' = pidFile /\ (pidFile = p /\ Held(p) => l \in HeldLabel \ {"exit"})
                     \/ pidFile' \notin Pid
                     \/ pidFile' = p /\ Daemon(p) /\ l \in HeldLabel \ {"exit"}
  PROVE  Faultless'
<1>1. Moves(p) /\ proc'[p].pc = l
  BY GotoIsMove DEF ManualInv
<1>2. faults = 0 => FileHeld'
  BY <1>1, FileStillHeld DEF Faultless
<1>3. ~Targets(p)'
  BY <1>1 DEF Targets, At
<1> QED
  BY <1>1, <1>2, <1>3, MoveKeepsFaultless DEF At

\* read_pid and is_running: the daemon found is the one in the file.
LEMMA ReadFaultless ==
  ASSUME ManualInv, Faultless, NEW p \in Pid,
         ReadPidExists(p) \/ ReadPidContents(p) \/ IsRunning(p)
  PROVE  Faultless'
<1> TypeOK
  BY DEF ManualInv
<1>1. /\ Observer(p) /\ ~Held(p) /\ ~Settled(p) /\ proc[p].pc \notin CaLabel
      /\ proc[p].cmd # "install"
  <2>1. proc[p].pc \in {"exists", "read", "check"}
    BY DEF ReadPidExists, ReadPidContents, IsRunning, At
  <2> QED
    BY <2>1, ObserverAt DEF CheckLabel, Held, HeldLabel, CaLabel, Settled, At
<1>2. Moves(p) /\ UNCHANGED <<ca, dataDir, faults, fds, pidFile>>
  BY GotoIsMove DEF ReadPidExists, ReadPidContents, IsRunning, Moves, TypeOK, Process, config
<1>3. faults = 0 => FileHeld'
  BY <1>1, <1>2, FileStillHeld DEF Faultless
<1>4. CASE ReadPidExists(p)
  <2>1. /\ proc'[p].pc \in {WhenNoFile(proc[p].cmd), "read"}
        /\ proc'[p].seen = proc[p].seen /\ At(p, "exists")
    BY <1>4, GotoIsMove DEF ReadPidExists
  <2>2. proc'[p].pc \in {"setup", "open", "not_running", "plan", "read"}
    BY <1>1, <2>1 DEF WhenNoFile
  <2>3. faults = 0 => ~Targets(p)'
    BY <2>1, <2>2 DEF Faultless, Ready, Targets, At
  <2> QED
    BY <1>1, <1>2, <1>3, <2>2, <2>3, MoveKeepsFaultless DEF At
<1>5. CASE ReadPidContents(p)
  <2>1. proc'[p].pc \in {"check", "bail"}
    BY <1>5, GotoIsMove DEF ReadPidContents, TypeOK, Process
  <2>2. ~Targets(p)'
    BY <2>1 DEF Targets, At
  <2> QED
    BY <1>1, <1>2, <1>3, <2>1, <2>2, MoveKeepsFaultless DEF At
<1>6. CASE IsRunning(p)
  <2> DEFINE runs == Running(p, proc[p].seen)
             keeps == proc[p].cmd \in {"stop", "install", "uninstall"}
  <2>1. /\ proc'[p].pc = IF runs THEN WhenRunning(proc[p].cmd) ELSE WhenDead(proc[p].cmd)
        /\ proc'[p].seen = IF runs /\ keeps THEN proc[p].seen ELSE NoPid
        /\ At(p, "check")
    BY <1>6 DEF IsRunning, TypeOK, Process
  <2>2. /\ proc'[p].pc \in {"bail", "done", "kill", "plan", "stale_exists"}
        /\ proc'[p].pc = "kill" => runs /\ keeps
    BY <1>1, <2>1 DEF WhenRunning, WhenDead, Observer, Command, Cli, Checking, Daemon
  <2>3. proc[p].seen = pidFile
    BY <1>1, <2>1 DEF ManualInv, Reads, At
  <2>4. faults = 0 /\ Targets(p)' => (proc[p].seen \in Pid /\ Held(proc[p].seen))'
    <3> SUFFICES ASSUME faults = 0, Targets(p)'
                 PROVE  (proc[p].seen \in Pid /\ Held(proc[p].seen))'
      OBVIOUS
    <3>1. runs /\ keeps /\ proc'[p].seen = pidFile
      BY <2>1, <2>2, <2>3 DEF Targets, At
    <3>2. pidFile \in Pid /\ Held(pidFile)
      BY <3>1, <2>3 DEF Running, Faultless, FileHeld
    <3> QED
      BY <1>1, <1>2, <3>1, <3>2 DEF Moves, Held, Daemon
  <2> QED
    BY <1>1, <1>2, <1>3, <2>2, <2>4, MoveKeepsFaultless DEF At
<1> QED
  BY <1>4, <1>5, <1>6

\* remove_pid, write_pid and the select of the daemon.
LEMMA FileStepFaultless ==
  ASSUME ManualInv, Faultless, NEW p \in Pid,
         \/ RemoveStale(p) \/ RemoveOwn(p) \/ OpenPidFile(p) \/ WritePidFile(p)
         \/ PollSelect(p) \/ SelectShutdown(p)
  PROVE  Faultless'
<1> USE LifecycleAssumption
<1> TypeOK
  BY DEF ManualInv
<1>1. ~Settled(p) /\ proc[p].pc \notin CaLabel
  BY DEF RemoveStale, RemoveOwn, RemovePidTest, RemovePidUnlink, OpenPidFile, WritePidFile,
     PollSelect, SelectShutdown, At, Settled, CaLabel
<1>2. /\ UNCHANGED <<ca, dataDir, faults>>
      /\ \A q \in fds : At(q, "write_key") => q \in fds'
  BY DEF RemoveStale, RemoveOwn, RemovePidTest, RemovePidUnlink, OpenPidFile, WritePidFile,
     PollSelect, SelectShutdown, At, Writing, config
<1>3. CASE RemoveStale(p)
  <2>1. /\ \E l \in {"stale_rm", "bail", "setup", "open", "not_running"} : Goto(p, l)
        /\ pidFile' \in {pidFile, NoFile}
        /\ proc[p].pc \in {"stale_exists", "stale_rm"}
    BY <1>3 DEF RemoveStale, RemovePidTest, RemovePidUnlink, AfterStale, At
  <2>2. ~Held(p)
    BY <2>1 DEF Held, HeldLabel, CaLabel
  <2> QED
    BY <1>1, <1>2, <2>1, <2>2, PlainFaultless
<1>4. CASE RemoveOwn(p)
  <2>1. /\ \E l \in {"rm", "bail", "resolver", "exit", "done"} :
             /\ Goto(p, l)
             /\ l # "rm" => pidFile' = NoFile
             /\ Daemon(p) => l \in {"rm", "exit"}
        /\ pidFile' \in {pidFile, NoFile}
    BY <1>4, ObserverAt DEF RemoveOwn, RemovePidTest, RemovePidUnlink, AfterRemove,
       WhenVanished,
       At, Daemon, ManualInv, Shape, LabelsOf
  <2> QED
    BY <1>1, <1>2, <2>1, PlainFaultless DEF HeldLabel, Held
<1>5. CASE OpenPidFile(p)
  <2>1. Held(p) /\ pidFile = NoFile
    BY <1>5 DEF OpenPidFile, ManualInv, Shape, LabelsOf, SetupLabel, CheckLabel, HeldLabel,
       CaLabel, At, Held, Daemon, FileFits
  <2>2. (\E l \in {"write", "bail"} : Goto(p, l)) /\ pidFile' \notin Pid
    BY <1>5, <2>1 DEF OpenPidFile
  <2> QED
    BY <1>1, <1>2, <2>2, PlainFaultless
<1>6. CASE WritePidFile(p)
  <2>1. Daemon(p) /\ p \in fds
    BY <1>6 DEF WritePidFile, ManualInv, Shape, LabelsOf, SetupLabel, CheckLabel, HeldLabel,
       CaLabel, At, Held, Daemon, FileFits
  <2>2. Goto(p, "create") /\ pidFile' = p
    BY <1>6, <2>1 DEF WritePidFile
  <2> QED
    BY <1>1, <1>2, <2>1, <2>2, PlainFaultless DEF HeldLabel, CaLabel
<1>7. CASE PollSelect(p) \/ SelectShutdown(p)
  <2>1. (\E l \in {"serve", "rm_exists"} : Goto(p, l)) /\ pidFile' = pidFile
    BY <1>7 DEF PollSelect, SelectShutdown
  <2> QED
    BY <1>1, <1>2, <2>1, PlainFaultless DEF HeldLabel
<1> QED
  BY <1>3, <1>4, <1>5, <1>6, <1>7

\* The other steps of the commands: uninstall plans to stop the daemon it found.
LEMMA CommandFaultless ==
  ASSUME ManualInv, Faultless, NEW p \in Pid,
         \/ WaitForExit(p) \/ Plan(p) \/ UninstallUnload(p)
         \/ RemoveResolver(p) \/ RemoveCaCert(p) \/ RemoveDataDir(p)
  PROVE  Faultless'
<1> USE LifecycleAssumption
<1> TypeOK
  BY DEF ManualInv
<1>1. ~Settled(p) /\ proc[p].pc \notin CaLabel /\ ~Held(p)
  <2>1. proc[p].pc \in {"wait", "plan", "unload", "resolver", "untrust", "rmdata"}
    BY DEF WaitForExit, Plan, UninstallUnload, RemoveResolver, RemoveCaCert, RemoveDataDir, At
  <2> QED
    BY <2>1 DEF Settled, Held, HeldLabel, CaLabel, At
<1>2. CASE WaitForExit(p) \/ RemoveResolver(p) \/ RemoveCaCert(p)
  <2>1. (\E l \in {"rm_exists", "untrust", "rmdata"} : Goto(p, l))
        /\ UNCHANGED <<ca, dataDir, faults, fds, pidFile>>
    BY <1>2 DEF WaitForExit, RemoveResolver, RemoveCaCert, config
  <2> QED
    BY <1>1, <2>1, PlainFaultless
<1>3. CASE RemoveDataDir(p)
  <2>1. Goto(p, "done") /\ UNCHANGED faults /\ At(p, "rmdata")
    BY <1>3 DEF RemoveDataDir
  <2>2. \/ UNCHANGED <<ca, dataDir, fds, pidFile>>
        \/ ca' = "none" /\ pidFile' = NoFile
    BY <1>3 DEF RemoveDataDir
  <2>3. Moves(p) /\ proc'[p].pc = "done"
    BY <2>1, GotoIsMove
  <2>4. faults = 0 => FileHeld'
    BY <1>1, <2>2, <2>3, FileStillHeld DEF Faultless
  <2> QED
    BY <1>1, <2>1, <2>2, <2>3, <2>4, MoveKeepsFaultless DEF Targets, At
<1>4. CASE Plan(p)
  <2>1. /\ Moves(p) /\ proc'[p].seen = proc[p].seen
        /\ proc'[p].pc \in {"done", "unload"}
        /\ proc'[p].plan = DetectCleanup(p)
        /\ At(p, "plan") /\ UNCHANGED <<ca, dataDir, faults, fds, pidFile>>
    <3>1. ASSUME NEW l, proc' = [proc EXCEPT ![p].plan = DetectCleanup(p), ![p].pc = l]
          PROVE  /\ Moves(p) /\ proc'[p].seen = proc[p].seen /\ proc'[p].pc = l
                 /\ proc'[p].plan = DetectCleanup(p)
      BY <3>1 DEF TypeOK, Process, Moves
    <3> QED
      BY <1>4, <3>1 DEF Plan, config
  <2>2. "StopProcess" \in DetectCleanup(p) => proc[p].seen # NoPid
    BY DEF DetectCleanup
  <2>3. faults = 0 /\ Targets(p)' => (proc[p].seen \in Pid /\ Held(proc[p].seen))'
    BY <1>1, <2>1, <2>2 DEF Faultless, Ready, Targets, Moves, Held, Daemon, At
  <2>4. faults = 0 => FileHeld'
    BY <1>1, <2>1, FileStillHeld DEF Faultless
  <2> QED
    BY <1>1, <2>1, <2>3, <2>4, MoveKeepsFaultless DEF At
<1>5. CASE UninstallUnload(p)
  <2> DEFINE next == IF "StopProcess" \in proc[p].plan THEN "kill" ELSE "resolver"
  <2>1. /\ Goto(p, next) /\ At(p, "unload")
        /\ UNCHANGED <<ca, dataDir, faults, fds, pidFile>>
    BY <1>5 DEF UninstallUnload, UnloadJob, ManualInv, NoJob, config
  <2>2. Moves(p) /\ proc'[p].pc = next /\ proc'[p].seen = proc[p].seen
    BY <2>1, GotoIsMove
  <2>3. faults = 0 /\ Targets(p)' => (proc[p].seen \in Pid /\ Held(proc[p].seen))'
    BY <1>1, <2>1, <2>2 DEF Faultless, Ready, Targets, Moves, Held, Daemon, At
  <2>4. faults = 0 => FileHeld'
    BY <1>1, <2>1, <2>2, FileStillHeld DEF Faultless
  <2> QED
    BY <1>1, <2>1, <2>2, <2>3, <2>4, MoveKeepsFaultless DEF At
<1> QED
  BY <1>2, <1>3, <1>4, <1>5

\* A change of the process table that takes nobody to a label this is about, and
\* the service from nobody.
LEMMA TableFaultless ==
  ASSUME ManualInv, Faultless, UNCHANGED <<pidFile, ca, dataDir, faults>>,
         \A q \in fds : At(q, "write_key") => q \in fds' /\ At(q, "write_key")',
         \A q \in Pid :
           \/ proc'[q] = proc[q]
           \/ /\ proc'[q].pc \notin {"load_ca", "key", "kill", "plan", "unload"}
              /\ At(q, "exists")' => proc'[q].seen = NoPid,
         \A q \in Pid : Held(q) /\ ~At(q, "exit") => Held(q)' /\ ~At(q, "exit")'
  PROVE  Faultless'
<1> SUFFICES ASSUME faults = 0 PROVE (FileHeld /\ KeyOpen /\ \A q \in Pid : Ready(q))'
  BY DEF Faultless
<1>1. FileHeld' /\ KeyOpen'
  BY DEF Faultless, FileHeld, KeyOpen, At
<1>2. ASSUME NEW q \in Pid PROVE Ready(q)'
  <2>1. Ready(q)
    BY DEF Faultless
  <2>2. CASE proc'[q] = proc[q]
    <3>1. Targets(q)' => Targets(q) /\ proc[q].seen \in Pid /\ Held(proc[q].seen)
      BY <2>1, <2>2 DEF Ready, Targets, At
    <3>2. Targets(q)' => Settled(proc[q].seen)
      BY <3>1, ObserverAt DEF ManualInv, Sees, Targets, At
    <3>3. Targets(q)' => (proc[q].seen \in Pid /\ Held(proc[q].seen))'
      BY <2>2, <3>1, <3>2 DEF Settled, At
    <3> QED
      BY <2>1, <2>2, <3>3 DEF Ready, At
  <2>3. CASE /\ proc'[q].pc \notin {"load_ca", "key", "kill", "plan", "unload"}
             /\ At(q, "exists")' => proc'[q].seen = NoPid
    BY <2>3 DEF Ready, Targets, At
  <2> QED
    BY <2>2, <2>3
<1> QED
  BY <1>1, <1>2

\* start spawns a daemon, and a port is bound.
LEMMA SpawnFaultless ==
  ASSUME ManualInv, Faultless, NEW p \in Pid, Daemonize(p) \/ \E s \in Server : Bind(p, s)
  PROVE  Faultless'
<1> TypeOK
  BY DEF ManualInv
<1>1. CASE \E s \in Server : Bind(p, s)
  <2>1. UNCHANGED <<proc, pidFile, fds, ca, dataDir, faults>>
    BY <1>1 DEF Bind, config
  <2> QED
    BY <2>1, TableFaultless DEF Held, Daemon, At
<1>2. CASE Daemonize(p) /\ Goto(p, "bail")
  BY <1>2, PlainFaultless DEF Daemonize, config, At, Settled, CaLabel, Held, HeldLabel
<1>3. ASSUME NEW q \in Pid, Fresh(q), At(p, "spawn"),
             UNCHANGED <<pidFile, fds, ca, dataDir, faults>>,
             proc' = [proc EXCEPT ![p].pc = "done", ![q] = Begun("foreground", proc[p].root)]
      PROVE  Faultless'
  <2>1. p # q /\ ~Held(p) /\ ~Held(q)
    BY <1>3 DEF Fresh, Alive, Held, Daemon, At, HeldLabel, CaLabel, ManualInv, Shape, LabelsOf
  <2>2. /\ \A r \in Pid \ {p, q} : proc'[r] = proc[r]
        /\ proc'[p].pc = "done" /\ proc'[q].pc = "exists" /\ proc'[q].seen = NoPid
    BY <1>3, <2>1 DEF Begun, TypeOK, Process
  <2>3. proc[p].pc # "write_key" /\ proc[q].pc # "write_key" /\ fds \subseteq Pid
    BY <1>3 DEF Fresh, Alive, At, ManualInv, Shape, LabelsOf, TypeOK, Process, Program
  <2> QED
    BY <1>3, <2>1, <2>2, <2>3, TableFaultless DEF Held, Daemon, At
<1> QED
  BY <1>1, <1>2, <1>3 DEF Daemonize, config

\* SIGTERM from a command: the daemon is told, and handles it.
LEMMA KillFaultless ==
  ASSUME ManualInv, Faultless, faults = 0, NEW p \in Pid, Kill(p)
  PROVE  Faultless'
<1> TypeOK
  BY DEF ManualInv
<1> DEFINE t == proc[p].seen
<1>1. At(p, "kill") /\ Command(p) /\ Observer(p) /\ t \in Pid /\ Held(t)
  <2>1. At(p, "kill")
    BY DEF Kill
  <2> QED
    BY <2>1 DEF ManualInv, Shape, LabelsOf, SetupLabel, CaLabel, CheckLabel, HeldLabel, At,
       Observer, Command, Cli, Faultless, Ready, Targets
<1>2. Settled(t) /\ Running(p, t) /\ Handles(t) /\ t # p
  BY <1>1, LookingFinds DEF ManualInv, Sees, At, Held, Daemon, Settled, Handles
<1>3. /\ \A r \in Pid \ {p, t} : proc'[r] = proc[r]
      /\ proc'[p].pc = "wait" /\ proc'[t].pc = "serve" /\ proc'[t].cmd = "foreground"
      /\ UNCHANGED <<pidFile, fds, ca, dataDir, faults>>
  BY <1>1, <1>2 DEF Kill, Signalled, Fatal, Reap, TypeOK, Process, Held, Daemon, Settled, At,
     config
<1>4. ~Held(p) /\ proc[p].pc # "write_key" /\ proc[t].pc # "write_key" /\ fds \subseteq Pid
  BY <1>1, <1>2 DEF Held, HeldLabel, CaLabel, Settled, At, TypeOK
<1> HIDE DEF t
<1>5. \A q \in Pid : Held(q) /\ ~At(q, "exit") => Held(q)' /\ ~At(q, "exit")'
  BY <1>1, <1>3, <1>4 DEF Held, Daemon, At, HeldLabel
<1> QED
  BY <1>1, <1>2, <1>3, <1>4, <1>5, TableFaultless DEF At

\* A process ends that is neither the daemon nor makes a CA.
LEMMA EndFaultless ==
  ASSUME ManualInv, Faultless, NEW p \in Pid, proc' = [proc EXCEPT ![p] = Free],
         fds \ {p} \subseteq fds', UNCHANGED <<pidFile, ca, dataDir, faults>>,
         ~Held(p) \/ At(p, "exit"), ~At(p, "write_key")
  PROVE  Faultless'
<1>1. (\A q \in Pid \ {p} : proc'[q] = proc[q]) /\ proc'[p] = Free /\ fds \subseteq Pid
  BY DEF ManualInv, TypeOK
<1> QED
  BY <1>1, TableFaultless DEF Free, Held, Daemon, At

\* The operator and other programs.
LEMMA OperatorFaultless ==
  ASSUME ManualAsRoot, ManualInv, Faultless, NEW p \in Pid,
         Invoke(p) \/ Interrupt(p) \/ OtherProgram(p) \/ OtherExits(p)
  PROVE  Faultless'
<1> TypeOK
  BY DEF ManualInv
<1>1. CASE Invoke(p) \/ OtherProgram(p)
  <2>1. PICK e : /\ proc' = [proc EXCEPT ![p] = e]
                 /\ e.pc \in {"exists", "setup", "none"} /\ e.seen = NoPid
    <3>1. \A c, r : Begun(c, r).pc \in {"exists", "setup"} /\ Begun(c, r).seen = NoPid
      BY DEF Begun
    <3>2. [Free EXCEPT !.cmd = "other", !.root = TRUE].pc = "none"
          /\ [Free EXCEPT !.cmd = "other", !.root = TRUE].seen = NoPid
      BY DEF Free
    <3>3. CASE Invoke(p)
      <4>1. PICK c \in Commands, r \in Sudo : proc' = [proc EXCEPT ![p] = Begun(c, r)]
        BY <3>3 DEF Invoke
      <4> QED
        BY <3>1, <4>1
    <3>4. CASE OtherProgram(p)
      BY <3>2, <3>4 DEF OtherProgram
    <3> QED
      BY <1>1, <3>3, <3>4
  <2>2. (\A q \in Pid \ {p} : proc'[q] = proc[q]) /\ proc'[p] = e /\ fds \subseteq Pid
    BY <2>1 DEF TypeOK
  <2>3. ~Held(p) /\ ~At(p, "write_key")
    BY <1>1 DEF Invoke, OtherProgram, Fresh, Alive, Held, Daemon, At, ManualInv, Shape,
       LabelsOf, TypeOK, Process, Program
  <2>4. UNCHANGED <<pidFile, fds, ca, dataDir, faults>>
    BY <1>1 DEF Invoke, OtherProgram, config
  <2> QED
    BY <2>1, <2>2, <2>3, <2>4, TableFaultless DEF Held, Daemon, At
<1>2. CASE OtherExits(p)
  <2>1. ~Held(p) /\ ~At(p, "write_key")
    BY <1>2 DEF OtherExits, Held, Daemon, At, ManualInv, Shape, LabelsOf
  <2> QED
    BY <1>2, <2>1, EndFaultless DEF OtherExits, config
<1>3. CASE Interrupt(p)
  <2>1. Held(p) /\ Settled(p) /\ Handles(p)
    BY <1>3, QuietMeans DEF Interrupt, Daemon, Settled, At, Handles
  <2>2. /\ \A r \in Pid \ {p} : proc'[r] = proc[r]
        /\ proc'[p].pc = "serve" /\ proc'[p].cmd = "foreground"
        /\ UNCHANGED <<pidFile, fds, ca, dataDir, faults>>
    BY <1>3, <2>1 DEF Interrupt, Signalled, Fatal, Reap, TypeOK, Process, Held, Daemon,
       Settled, At, config
  <2>3. ~At(p, "write_key") /\ fds \subseteq Pid
    BY <2>1 DEF Settled, At, TypeOK
  <2> QED
    BY <2>1, <2>2, <2>3, TableFaultless DEF Held, Daemon, At, HeldLabel
<1> QED
  BY <1>1, <1>2, <1>3

\* Every step keeps it, or is a fault.
LEMMA NextFaultless == ManualAsRoot /\ ManualInv /\ Faultless /\ [Next]_vars => Faultless'
<1> SUFFICES ASSUME ManualAsRoot, ManualInv, Faultless, [Next]_vars PROVE Faultless'
  OBVIOUS
<1> TypeOK /\ TypeOK' /\ NoJob
  BY NextTyped DEF ManualInv
<1> USE LifecycleAssumption
<1>1. CASE faults # 0 \/ faults' # 0
  <2>1. ASSUME NEW p \in Pid, Step(p) PROVE faults' = faults
    <3>1. ~InstallUnload(p) /\ ~WritePlist(p) /\ ~LoadJob(p)
      BY DEF InstallUnload, WritePlist, LoadJob, ManualInv, Shape, LabelsOf, SetupLabel,
         CheckLabel, HeldLabel, CaLabel, At
    <3>2. SetupStep(p) => faults' = faults
      BY SetupMoves
    <3> QED
      BY <2>1, <3>1, <3>2
      DEF Step, ReadPidExists, ReadPidContents, IsRunning, RemoveStale, RemoveOwn,
         RemovePidTest, RemovePidUnlink, Exit, Daemonize, OpenPidFile, WritePidFile,
         PollSelect, Bind, SelectFailed, SelectShutdown, Kill, WaitForExit, Plan,
         UninstallUnload, RemoveResolver, RemoveCaCert, RemoveDataDir
  <2>2. faults \in Nat /\ (faults' = faults \/ faults' = faults + 1)
    <3>1. faults \in Nat
      BY DEF TypeOK
    <3>2. Reboot => faults' = faults + 1
      BY DEF Reboot
    <3>3. ASSUME NEW p \in Pid
          PROVE  /\ Crash(p) => faults' = faults + 1
                 /\ Invoke(p) \/ LaunchdSpawn(p) \/ Interrupt(p) \/ OtherProgram(p)
                      \/ OtherExits(p) => faults' = faults
      BY DEF Invoke, Crash, LaunchdSpawn, Interrupt, OtherProgram, OtherExits
    <3>4. UNCHANGED vars => faults' = faults
      BY DEF vars
    <3> QED
      BY <2>1, <3>1, <3>2, <3>3, <3>4 DEF Next
  <2> QED
    BY <1>1, <2>2 DEF Faultless
<1>2. CASE faults = 0 /\ faults' = 0
  <2>1. CASE UNCHANGED vars
    BY <2>1, TableFaultless DEF vars, config, Held, Daemon, At
  <2>2. ~Reboot /\ \A p \in Pid : ~Crash(p) /\ ~LaunchdSpawn(p)
    <3>1. ~Reboot
      BY <1>2 DEF Reboot
    <3>2. ASSUME NEW p \in Pid PROVE ~Crash(p)
      BY <1>2 DEF Crash
    <3>3. ASSUME NEW p \in Pid PROVE ~LaunchdSpawn(p)
      BY DEF LaunchdSpawn, NoJob
    <3> QED
      BY <3>1, <3>2, <3>3
  <2>3. ASSUME NEW p \in Pid, Step(p) PROVE Faultless'
    <3>1. ~InstallUnload(p) /\ ~WritePlist(p) /\ ~LoadJob(p)
      BY DEF InstallUnload, WritePlist, LoadJob, ManualInv, Shape, LabelsOf, SetupLabel,
         CheckLabel, HeldLabel, CaLabel, At
    <3>2. ~SelectFailed(p)
      BY DEF SelectFailed, ManualInv, Shape
    <3>3. CASE Exit(p)
      BY <3>3, EndFaultless DEF Exit, Reap, config, Held, HeldLabel, CaLabel, At
    <3> QED
      BY <1>2, <2>3, <3>1, <3>2, <3>3, ReadFaultless, FileStepFaultless, SetupFaultless,
         CommandFaultless, SpawnFaultless, KillFaultless DEF Step
  <2> QED
    BY <2>1, <2>2, <2>3, OperatorFaultless DEF Next
<1> QED
  BY <1>1, <1>2

\* In the beginning nothing is there.
LEMMA InitFaultless == Init => Faultless
BY LifecycleAssumption DEF Init, Faultless, FileHeld, KeyOpen, Ready, Targets, Free, At

\* Run by hand as root, one command after the other, stop and uninstall send SIGTERM to
\* no process but the daemon that serves, if one does; to another program, which has got
\* the PID of a daemon that is gone, only if a crash or a reboot has left its PID
\* file behind: by themselves the daemon and the commands leave no PID to be mistaken.
THEOREM ManualSignals == ManualAsRoot => (Spec => []SignalsItsDaemon)
<1> SUFFICES ASSUME ManualAsRoot PROVE Spec => []SignalsItsDaemon
  OBVIOUS
<1>1. ManualInv /\ Faultless /\ [Next]_vars => ManualInv' /\ Faultless'
  BY NextManual, NextFaultless
<1>2. ManualInv /\ Faultless => SignalsItsDaemon
  <2> SUFFICES ASSUME ManualInv, Faultless, NEW p \in Pid, At(p, "kill"), proc[p].seen \in Pid
               PROVE  /\ \A d \in Pid : Serving(d) => d = proc[p].seen
                      /\ proc[proc[p].seen].cmd = "other" => faults > 0
    BY DEF SignalsItsDaemon
  <2>1. Observer(p)
    BY ObserverAt DEF At
  <2>2. ASSUME NEW d \in Pid, Serving(d) PROVE d = proc[p].seen
    <3>1. Held(d)
      BY <2>2 DEF ManualInv, Shape, Serving, Server, TasksRun, Held, Daemon, HeldLabel
    <3> QED
      BY <2>1, <3>1 DEF ManualInv, Sees, At
  <2>3. faults = 0 => proc[proc[p].seen].cmd = "foreground"
    BY DEF Faultless, Ready, Targets, Held, Daemon
  <2>4. faults \in Nat
    BY LifecycleAssumption DEF ManualInv, TypeOK
  <2> QED
    BY <2>2, <2>3, <2>4
<1> QED
  BY InitManual, InitFaultless, <1>1, <1>2, PTL DEF Spec

(***************************************************************************)
(* The refinement of OneDaemon.                                            *)
(***************************************************************************)

\* Where a daemon claims the service; at exit it has only its ports left.
ClaimLabel == HeldLabel \ {"exit"}

\* With at most one claim, the holder is the process that claims ...
LEMMA HolderIs == ManualInv => \A p \in Pid : Claims(p) => Holder = p /\ Leaving = proc[p].term
<1> SUFFICES ASSUME ManualInv, NEW p \in Pid, Claims(p) PROVE Holder = p /\ Leaving = proc[p].term
  OBVIOUS
<1>1. \A q \in Pid : Claims(q) => q = p
  BY DEF ManualInv, Alone, Claims, Held, HeldLabel, CaLabel, Daemon
<1>2. Holder = p
  BY <1>1 DEF Holder
<1>3. proc[p].term \in BOOLEAN
  BY DEF ManualInv, TypeOK, Process
<1> QED
  BY <1>2, <1>3, LifecycleAssumption DEF Leaving

\* Without a claim nobody holds the service.
LEMMA HolderNone == (\A p \in Pid : ~Claims(p)) => Holder = NoPid /\ Leaving = FALSE
BY DEF Holder, Leaving

\* The same of the next state.
LEMMA HolderIsNext == (ManualInv => \A p \in Pid : Claims(p) => Holder = p /\
        Leaving = proc[p].term)'
BY HolderIs, PTL

\* The same of the next state.
LEMMA HolderNoneNext == ((\A p \in Pid : ~Claims(p)) => Holder = NoPid /\ Leaving = FALSE)'
BY HolderNone, PTL

\* A port that is bound belongs to the daemon that holds, or held, the service.
LEMMA BoundIs ==
  ASSUME ManualInv, NEW p \in Pid, Held(p)
  PROVE  Bound = [s \in Server |-> IF srv[p][s] = "up" THEN p ELSE NoPid]
<1>1. \A q \in Pid, s \in Server : srv[q][s] = "up" => q = p
  BY DEF ManualInv, Shape, TasksRun, Alone, Held, HeldLabel, CaLabel, Daemon
<1> QED
  BY <1>1 DEF Bound

\* Without such a daemon no port is bound.
LEMMA BoundNone ==
  ASSUME ManualInv, \A p \in Pid : ~Held(p)
  PROVE  Bound = [s \in Server |-> NoPid]
<1>1. \A q \in Pid, s \in Server : srv[q][s] # "up"
  BY DEF ManualInv, Shape, TasksRun, Held, HeldLabel, CaLabel, Daemon
<1> QED
  BY <1>1 DEF Bound

\* The same of the next state.
LEMMA BoundIsNext ==
  (ManualInv => \A p \in Pid : Held(p) =>
    Bound = [s \in Server |-> IF srv[p][s] = "up" THEN p ELSE NoPid])'
<1>1. ManualInv => \A p \in Pid : Held(p) =>
        Bound = [s \in Server |-> IF srv[p][s] = "up" THEN p ELSE NoPid]
  BY BoundIs
<1> QED
  BY <1>1, PTL

\* The same of the next state.
LEMMA BoundNoneNext == (ManualInv /\ (\A p \in Pid : ~Held(p)) => Bound = [s \in Server |-> NoPid])'
<1>1. ManualInv /\ (\A p \in Pid : ~Held(p)) => Bound = [s \in Server |-> NoPid]
  BY BoundNone
<1> QED
  BY <1>1, PTL

\* The service does not change ...
Silent == UNCHANGED <<Holder, Bound, Leaving>>

\* ... when no daemon claims or gives up, is told to stop, or binds a port.
LEMMA SilentMove ==
  ASSUME ManualInv, ManualInv',
         \A p \in Pid, s \in Server : (srv[p][s] = "up")' <=> srv[p][s] = "up",
         \A p \in Pid : /\ Claims(p)' <=> Claims(p)
                        /\ Claims(p) => proc'[p].term = proc[p].term
  PROVE  Silent
<1>1. Bound' = Bound
  BY DEF Bound
<1>2. CASE \E p \in Pid : Claims(p)
  <2>1. PICK p \in Pid : Claims(p)
    BY <1>2
  <2>2. (\A q \in Pid : Claims(q) => Holder = q /\ Leaving = proc[q].term)'
    BY HolderIsNext
  <2>3. Holder = p /\ Leaving = proc[p].term
    BY <2>1, HolderIs
  <2> QED
    BY <1>1, <2>1, <2>2, <2>3 DEF Silent
<1>3. CASE \A p \in Pid : ~Claims(p)
  <2>1. (\A q \in Pid : ~Claims(q))' => Holder' = NoPid /\ Leaving' = FALSE
    BY HolderNoneNext
  <2> QED
    BY <1>1, <1>3, <2>1, HolderNone DEF Silent
<1> QED
  BY <1>2, <1>3

\* A step that OneDaemon allows.
AbstractStep == [OD!Next]_<<Holder, Bound, Known, Leaving>>

\* Then the step is none of OneDaemon, unless the commands forget a daemon.
LEMMA SilentStep ==
  ASSUME Silent, pidFile' = pidFile \/ (pidFile' = NoFile /\ (Holder = NoPid \/ Leaving))
  PROVE  AbstractStep
<1> USE LifecycleAssumption
<1>1. CASE Known' = Known
  BY <1>1 DEF Silent, AbstractStep
<1>2. CASE Known' = NoPid /\ Known # NoPid /\ (Holder = NoPid \/ Leaving)
  <2>1. OD!Forget
    BY <1>2 DEF Silent, OD!Forget
  <2> QED
    BY <2>1 DEF AbstractStep, OD!Next
<1> QED
  BY <1>1, <1>2 DEF Known

\* Moving to another label is silent if it neither claims nor gives up.
LEMMA SilentGoes ==
  ASSUME ManualInv, ManualInv', NEW p \in Pid, Moves(p), UNCHANGED srv,
         Claims(p) <=> Daemon(p) /\ proc'[p].pc \in ClaimLabel
  PROVE  Silent
BY SilentMove DEF Moves, Claims, ClaimLabel, HeldLabel, CaLabel, Daemon

\* The holder gives up, with or before its ports: Leave.
LEMMA LeaveStep ==
  ASSUME ManualInv, ManualInv', \A p \in Pid : ~Claims(p)',
         UNCHANGED srv \/ \A p \in Pid : ~Held(p)',
         pidFile' = pidFile \/ (pidFile' = NoFile /\ Leaving)
  PROVE  AbstractStep
<1> USE LifecycleAssumption
<1>1. Holder' = NoPid /\ Leaving' = FALSE
  BY HolderNoneNext
<1>2. Bound' \in {Bound, OD!Nobody}
  <2>1. CASE UNCHANGED srv
    BY <2>1 DEF Bound
  <2>2. CASE \A p \in Pid : ~Held(p)'
    BY <2>2, BoundNoneNext DEF OD!Nobody
  <2> QED
    BY <2>1, <2>2
<1>3. Known' = Known \/ (Known' = NoPid /\ Leaving)
  BY DEF Known
<1>4. OD!Leave
  BY <1>1, <1>2, <1>3 DEF OD!Leave
<1> QED
  BY <1>4 DEF AbstractStep, OD!Next

\* A daemon that passes the check: Claim.
LEMMA ClaimStep ==
  ASSUME ManualInv, ManualInv', NEW p \in Pid, Daemon(p), Moves(p), proc'[p].pc = "open",
         \A d \in Pid : ~Held(d), UNCHANGED srv, pidFile' = NoFile
  PROVE  AbstractStep
<1> USE LifecycleAssumption
<1>1. Holder = NoPid /\ Leaving = FALSE
  BY HolderNone DEF Claims, Held, Daemon, HeldLabel, CaLabel
<1>2. Bound = OD!Nobody /\ Bound' = Bound
  BY BoundNone DEF OD!Nobody, Bound
<1>3. Claims(p)'
  BY DEF Claims, Moves, Daemon
<1>4. Holder' = p /\ Leaving' = proc'[p].term
  BY <1>3, HolderIsNext
<1>5. ~proc'[p].term
  BY DEF ManualInv, Shape, Moves
<1>6. proc'[p].term = FALSE
  BY <1>5 DEF ManualInv, TypeOK, Process
<1>7. Known' = NoPid
  BY DEF Known
<1>8. OD!Claim(p)
  BY <1>1, <1>2, <1>4, <1>6, <1>7 DEF OD!Claim
<1> QED
  BY <1>8 DEF AbstractStep, OD!Next

\* The daemon is told to stop: Tell.
LEMMA ToldStep ==
  ASSUME ManualInv, ManualInv', NEW t \in Pid, Held(t), Settled(t), UNCHANGED <<srv, pidFile>>,
         proc'[t].cmd = "foreground", proc'[t].pc = "serve", proc'[t].term
  PROVE  AbstractStep
<1>1. Holder = t
  BY HolderIs DEF Claims, Held, Daemon, Settled, At
<1>2. Holder' = t /\ Leaving' = proc'[t].term
  <2>1. Claims(t)'
    BY DEF Claims
  <2> QED
    BY <2>1, HolderIsNext
<1>3. proc'[t].term = TRUE
  BY DEF ManualInv, TypeOK, Process
<1>4. Bound' = Bound /\ Known' = Known
  BY DEF Bound, Known
<1>5. OD!Tell
  BY <1>1, <1>2, <1>3, <1>4, LifecycleAssumption DEF OD!Tell
<1> QED
  BY <1>5 DEF AbstractStep, OD!Next

\* Processes that end: Leave if the holder, or the last that had a port, is one.
LEMMA EndsStep ==
  ASSUME ManualInv, ManualInv', NEW D \in SUBSET Pid,
         proc' = [p \in Pid |-> IF p \in D THEN Free ELSE proc[p]],
         Reap(D), pidFile' = pidFile
  PROVE  AbstractStep
<1>1. CASE \E h \in D : Held(h)
  <2>1. \A p \in Pid : ~Held(p)'
    BY <1>1 DEF ManualInv, Alone, Held, Daemon, Free
  <2>2. \A p \in Pid : ~Claims(p)'
    BY <2>1 DEF Claims, Held, Daemon, HeldLabel, CaLabel
  <2> QED
    BY <2>1, <2>2, LeaveStep
<1>2. CASE \A h \in D : ~Held(h)
  <2>1. \A p \in Pid, s \in Server : (srv[p][s] = "up")' <=> srv[p][s] = "up"
    BY <1>2 DEF ManualInv, Shape, TasksRun, Held, Daemon, HeldLabel, CaLabel, Reap, Idle
  <2>2. \A p \in Pid : /\ Claims(p)' <=> Claims(p)
                       /\ Claims(p) => proc'[p].term = proc[p].term
    BY <1>2 DEF Held, Claims, Daemon, HeldLabel, CaLabel, Free
  <2>3. Silent
    BY <2>1, <2>2, SilentMove
  <2> QED
    BY <2>3, SilentStep
<1> QED
  BY <1>1, <1>2

\* The daemon writes its PID: Announce.
LEMMA AnnounceStep ==
  ASSUME ManualInv, ManualInv', NEW p \in Pid, WritePidFile(p)
  PROVE  AbstractStep
<1>1. Held(p) /\ At(p, "write")
  BY DEF WritePidFile, ManualInv, Shape, LabelsOf, SetupLabel, CheckLabel, HeldLabel, CaLabel,
     At, Held, Daemon
<1>2. pidFile' = p
  BY <1>1 DEF WritePidFile, ManualInv, FileFits, CaLabel
<1>3. Moves(p) /\ proc'[p].pc = "create"
  BY GotoIsMove DEF WritePidFile, ManualInv
<1>4. Silent
  BY <1>1, <1>3, SilentGoes DEF Held, Claims, Daemon, At, ClaimLabel, HeldLabel, CaLabel,
     WritePidFile
<1>5. Holder = p
  BY <1>1, HolderIs DEF Held, Daemon, At, Claims
<1>6. OD!Announce
  BY <1>2, <1>4, <1>5, LifecycleAssumption DEF OD!Announce, Silent, Known
<1> QED
  BY <1>6 DEF AbstractStep, OD!Next

\* A server binds its port: Bind, since the daemon still holds the service.
LEMMA BindStep ==
  ASSUME ManualInv, ManualInv', NEW p \in Pid, NEW s \in Server, Bind(p, s)
  PROVE  AbstractStep
<1>1. Held(p) /\ Held(p)' /\ Claims(p)
  BY DEF ManualInv, Shape, Bind, TasksRun, Held, Daemon, HeldLabel, CaLabel, Serving, Claims
<1>2. \A q \in Pid : srv[q][s] # "up"
  BY <1>1 DEF ManualInv, Shape, Alone, TasksRun, Held, Daemon, HeldLabel, CaLabel, Bind
<1>3. BindResults(p, s) = {"up"}
  BY <1>1, <1>2 DEF BindResults, ManualInv, Shape, Held, Daemon, Alive
<1>4. srv' = [srv EXCEPT ![p][s] = "up"] /\ UNCHANGED <<proc, pidFile>>
  BY <1>3 DEF Bind
<1>5. Holder = p /\ Bound[s] = NoPid
  BY <1>1, <1>2, HolderIs DEF Bound
<1>6. Bound' = [Bound EXCEPT ![s] = p]
  <2>1. Bound' = [r \in Server |-> IF srv'[p][r] = "up" THEN p ELSE NoPid]
    BY <1>1, BoundIsNext
  <2>2. Bound = [r \in Server |-> IF srv[p][r] = "up" THEN p ELSE NoPid]
    BY <1>1, BoundIs
  <2>3. \A r \in Server : srv'[p][r] = IF r = s THEN "up" ELSE srv[p][r]
    BY <1>4 DEF ManualInv, TypeOK
  <2> QED
    BY <2>1, <2>2, <2>3
<1>7. UNCHANGED <<Holder, Known, Leaving>>
  BY <1>4 DEF Holder, Known, Leaving, Claims
<1>8. OD!Bind(s)
  BY <1>5, <1>6, <1>7, LifecycleAssumption DEF OD!Bind
<1> QED
  BY <1>8 DEF AbstractStep, OD!Next

\* An observer that is not about to claim moves in silence ...
LEMMA ObserverStep ==
  ASSUME ManualInv, ManualInv', NEW p \in Pid, Moves(p), Observer(p), UNCHANGED srv,
         Command(p) \/ proc'[p].pc \notin HeldLabel,
         pidFile' = pidFile \/ (pidFile' = NoFile /\ \A d \in Pid : Held(d) => proc[d].term)
  PROVE  AbstractStep
<1>1. Silent
  BY SilentGoes DEF Observer, Command, Cli, Checking, CheckLabel, Daemon, Claims, ClaimLabel
<1>2. ASSUME \A d \in Pid : Held(d) => proc[d].term
      PROVE  Holder = NoPid \/ Leaving
  <2>1. CASE \A d \in Pid : ~Claims(d)
    BY <2>1, HolderNone
  <2>2. CASE \E d \in Pid : Claims(d)
    BY <1>2, <2>2, HolderIs DEF Claims, Held, Daemon, HeldLabel, CaLabel
  <2> QED
    BY <2>1, <2>2
<1> QED
  BY <1>1, <1>2, SilentStep

\* read_pid and remove_pid of a stale file: a claim, or silence, or the commands
\* forget a PID that belongs to no holder.
LEMMA CheckStep ==
  ASSUME ManualInv, ManualInv', NEW p \in Pid, ReadPidExists(p) \/ RemoveStale(p)
  PROVE  AbstractStep
<1> USE LifecycleAssumption
<1>1. Observer(p) /\ proc[p].pc \in {"exists", "stale_exists", "stale_rm"}
  <2>1. proc[p].pc \in {"exists", "stale_exists", "stale_rm"}
    BY DEF ReadPidExists, RemoveStale, RemovePidTest, RemovePidUnlink, At
  <2> QED
    BY <2>1, ObserverAt DEF CheckLabel
<1>2. /\ Moves(p) /\ UNCHANGED srv
      /\ pidFile' = pidFile \/ (pidFile' = NoFile /\ RemoveStale(p))
      /\ proc'[p].pc \in {"read", "stale_rm", "bail", WhenNoFile(proc[p].cmd),
           AfterStale(proc[p].cmd)}
      /\ proc'[p].pc = "open" => pidFile' = NoFile
  BY GotoIsMove DEF ReadPidExists, RemoveStale, RemovePidTest, RemovePidUnlink, ManualInv
<1>3. RemoveStale(p) => \A d \in Pid : ~Held(d)
  BY <1>1 DEF ManualInv, Sees, RemoveStale, RemovePidTest, RemovePidUnlink, At, SetupLabel
<1>4. CASE Daemon(p) /\ proc'[p].pc = "open"
  <2>1. \A d \in Pid : ~Held(d)
    <3>1. CASE ReadPidExists(p)
      BY <1>1, <1>2, <1>4, <3>1, LookingFinds DEF ReadPidExists, At
    <3> QED
      BY <1>3, <3>1
  <2> QED
    BY <1>2, <1>4, <2>1, ClaimStep
<1>5. CASE ~(Daemon(p) /\ proc'[p].pc = "open")
  <2>1. Command(p) \/ proc'[p].pc \notin HeldLabel
    BY <1>1, <1>2, <1>5 DEF Observer, Checking, Daemon, WhenNoFile, AfterStale, HeldLabel,
       CaLabel
  <2> QED
    BY <1>1, <1>2, <1>3, <2>1, ObserverStep
<1> QED
  BY <1>4, <1>5

\* remove_pid after SIGTERM: Forget, by a command, or Leave, by the daemon.
LEMMA RemoveOwnStep ==
  ASSUME ManualInv, ManualInv', NEW p \in Pid, RemoveOwn(p)
  PROVE  AbstractStep
<1>1. proc[p].pc \in {"rm_exists", "rm"} /\ (Command(p) \/ Daemon(p))
  <2>1. proc[p].pc \in {"rm_exists", "rm"}
    BY DEF RemoveOwn, RemovePidTest, RemovePidUnlink, At
  <2> QED
    BY <2>1 DEF ManualInv, Shape, LabelsOf, SetupLabel, CheckLabel, Command, Cli, Daemon,
       CaLabel
<1>2. /\ Moves(p) /\ UNCHANGED srv
      /\ pidFile' = pidFile \/ pidFile' = NoFile
      /\ pidFile' = pidFile \/ proc'[p].pc # "rm"
      /\ proc'[p].pc \in {"rm", AfterRemove(proc[p].cmd), WhenVanished(proc[p].cmd)}
  BY GotoIsMove DEF RemoveOwn, RemovePidTest, RemovePidUnlink, AfterRemove, WhenVanished,
     ManualInv
<1>3. CASE Command(p)
  BY <1>1, <1>2, <1>3, ObserverStep DEF ManualInv, Sees, Observer, SetupLabel
<1>4. CASE Daemon(p)
  <2>1. Claims(p) /\ Leaving
    <3>1. Claims(p) /\ proc[p].term
      BY <1>1, <1>4 DEF ManualInv, Shape, Claims, Daemon
    <3> QED
      BY <3>1, HolderIs
  <2>2. CASE proc'[p].pc = "rm"
    BY <1>2, <1>4, <2>1, <2>2, SilentGoes, SilentStep DEF ClaimLabel, HeldLabel, CaLabel
  <2>3. CASE proc'[p].pc = "exit"
    <3>1. \A d \in Pid : ~Claims(d)'
      BY <1>2, <1>4, <2>1, <2>3 DEF ManualInv, Alone, Held, Claims, Daemon, HeldLabel, CaLabel,
         Moves
    <3> QED
      BY <1>2, <2>1, <3>1, LeaveStep
  <2> QED
    BY <1>2, <1>4, <2>2, <2>3 DEF AfterRemove, WhenVanished, Daemon
<1> QED
  BY <1>1, <1>3, <1>4

\* The daemon on its way: silence, or Leave with an error.
LEMMA RunsOnStep ==
  ASSUME ManualInv, ManualInv', NEW p \in Pid, Held(p), Claims(p), Moves(p), UNCHANGED srv,
         proc'[p].pc \in ClaimLabel \cup {"bail"},
         pidFile' = pidFile \/ (pidFile = NoFile /\ pidFile' = EmptyFile /\ proc'[p].pc = "write")
  PROVE  AbstractStep
<1> USE LifecycleAssumption
<1>1. CASE proc'[p].pc = "bail"
  <2>1. \A d \in Pid : ~Claims(d)'
    BY <1>1 DEF ManualInv, Alone, Held, Claims, Daemon, HeldLabel, CaLabel, Moves
  <2> QED
    BY <1>1, <2>1, LeaveStep
<1>2. CASE proc'[p].pc # "bail"
  <2>1. Silent
    BY <1>2, SilentGoes DEF Held
  <2>2. Known' = Known
    BY DEF Known
  <2> QED
    BY <2>1, <2>2 DEF Silent, AbstractStep
<1> QED
  BY <1>1, <1>2

\* The same for each of its steps but the write and the bind.
LEMMA DaemonRunsStep ==
  ASSUME ManualInv, ManualInv', NEW p \in Pid,
         OpenPidFile(p) \/ PollSelect(p) \/ SelectShutdown(p) \/ SelectFailed(p)
  PROVE  AbstractStep
<1>1. Held(p) /\ Claims(p) /\ Shape(p) /\ FileFits(p)
  BY DEF ManualInv, Shape, LabelsOf, SetupLabel, CheckLabel, HeldLabel, CaLabel, At, Held,
     Daemon, Claims, OpenPidFile, PollSelect, SelectShutdown, SelectFailed
<1>2. ~SelectFailed(p)
  BY <1>1 DEF Shape, SelectFailed
<1>3. \E l \in {"write", "serve", "rm_exists", "bail"} : Goto(p, l)
  BY <1>2 DEF OpenPidFile, PollSelect, SelectShutdown
<1>4. Moves(p) /\ UNCHANGED srv /\ proc'[p].pc \in {"write", "serve", "rm_exists", "bail"}
  BY <1>2, <1>3, GotoIsMove DEF ManualInv, OpenPidFile, PollSelect, SelectShutdown
<1>5. pidFile' = pidFile \/ (pidFile = NoFile /\ pidFile' = EmptyFile /\ proc'[p].pc = "write")
  BY <1>1, <1>2, GotoIsMove DEF ManualInv, FileFits, OpenPidFile, PollSelect,
     SelectShutdown
<1> QED
  BY <1>1, <1>4, <1>5, RunsOnStep DEF ClaimLabel, HeldLabel

\* The setup of start and the CA of a daemon.
LEMMA SetupRunsStep ==
  ASSUME ManualInv, ManualInv', NEW p \in Pid, SetupStep(p)
  PROVE  AbstractStep
<1>1. Moves(p) /\ UNCHANGED <<srv, pidFile>>
  BY SetupMoves
<1>2. CASE proc[p].cmd = "start"
  BY <1>1, <1>2, ObserverStep DEF Observer, Command, Cli
<1>3. CASE Daemon(p) /\ proc[p].pc \in CaLabel /\ proc'[p].pc \in CaLabel \cup {"spawned", "bail"}
  <2>1. Held(p) /\ Claims(p)
    BY <1>3 DEF Held, HeldLabel, Claims, CaLabel, Daemon
  <2> QED
    BY <1>1, <1>3, <2>1, RunsOnStep DEF ClaimLabel, HeldLabel, CaLabel
<1> QED
  BY <1>2, <1>3, SetupMoves

\* SIGTERM: Tell when there is a holder.
LEMMA KillStep ==
  ASSUME ManualInv, ManualInv', NEW p \in Pid, Kill(p)
  PROVE  AbstractStep
<1> DEFINE t == proc[p].seen
<1>1. Observer(p) /\ At(p, "kill") /\ Command(p)
  <2>1. At(p, "kill")
    BY DEF Kill
  <2> QED
    BY <2>1 DEF ManualInv, Shape, LabelsOf, SetupLabel, CheckLabel, HeldLabel, CaLabel, At,
       Observer, Command,
       Cli
<1>2. \A d \in Pid : Held(d) => t = d /\ Settled(d) /\ Running(p, t)
  BY <1>1, LookingFinds DEF ManualInv, Sees, At, SetupLabel
<1>3. CASE ~Running(p, t)
  <2>1. \E l \in {"wait", "bail"} : Goto(p, l)
    BY <1>3 DEF Kill
  <2>2. Moves(p) /\ UNCHANGED <<srv, pidFile>>
    BY <1>3, <2>1, GotoIsMove DEF Kill, ManualInv
  <2> QED
    BY <1>1, <2>2, ObserverStep
<1>4. CASE Running(p, t) /\ Held(t)
  <2>1. t \in Pid /\ t # p /\ Handles(t) /\ Settled(t)
    BY <1>1, <1>2, <1>4 DEF Running, Held, Daemon, Settled, At, Handles
  <2>2. proc'[t] = [proc[t] EXCEPT !.term = TRUE] /\ UNCHANGED <<srv, pidFile>>
    BY <1>1, <1>4, <2>1 DEF Kill, ManualInv, TypeOK, Signalled, Reap, Fatal
  <2>3. proc'[t].cmd = "foreground" /\ proc'[t].pc = "serve" /\ proc'[t].term
    BY <1>4, <2>1, <2>2 DEF ManualInv, TypeOK, Process, Held, Daemon, Settled, At
  <2> HIDE DEF t
  <2> QED
    BY <1>4, <2>1, <2>2, <2>3, ToldStep
<1>5. CASE Running(p, t) /\ ~Held(t)
  <2>1. t \in Pid /\ ~Handles(t) /\ \A d \in Pid : ~Held(d)
    BY <1>2, <1>5 DEF Running, Held, Daemon, Handles, HeldLabel, CaLabel
  <2>2. /\ \A r \in Pid \ {p, t} : proc'[r] = proc[r]
        /\ p # t => proc'[p].cmd = proc[p].cmd /\ proc'[p].pc = "wait"
        /\ proc'[t] = Free /\ pidFile' = pidFile /\ Reap({t})
    BY <1>1, <1>5, <2>1 DEF Kill, ManualInv, TypeOK, Process, Signalled, Fatal
  <2> HIDE DEF t
  <2>3. \A d \in Pid : ~Claims(d) /\ ~Claims(d)'
    BY <1>1, <2>1, <2>2 DEF Claims, Held, Daemon, HeldLabel, CaLabel, Free
  <2>4. \A d \in Pid, s \in Server : (srv[d][s] = "up")' <=> srv[d][s] = "up"
    BY <2>1, <2>2 DEF ManualInv, Shape, TasksRun, Held, Daemon, HeldLabel, CaLabel, Reap, Idle
  <2>5. Silent
    BY <2>3, <2>4, SilentMove
  <2> QED
    BY <2>2, <2>5, SilentStep
<1> QED
  BY <1>3, <1>4, <1>5

\* The other steps of the commands: silence, or Forget by the end of uninstall.
LEMMA CommandStep ==
  ASSUME ManualInv, ManualInv', NEW p \in Pid,
         \/ ReadPidContents(p) \/ IsRunning(p) \/ WaitForExit(p) \/ Plan(p)
         \/ UninstallUnload(p) \/ RemoveResolver(p) \/ RemoveCaCert(p) \/ RemoveDataDir(p)
  PROVE  AbstractStep
<1> TypeOK
  BY DEF ManualInv
<1>1. Observer(p)
  BY ObserverAt DEF CheckLabel, At, ReadPidContents, IsRunning, WaitForExit,
     Plan,
                    UninstallUnload, RemoveResolver, RemoveCaCert, RemoveDataDir
<1>2. CASE ReadPidContents(p) \/ IsRunning(p)
  <2>1. Moves(p) /\ UNCHANGED <<srv, pidFile>>
    BY <1>2 DEF ReadPidContents, IsRunning, Goto, Moves, TypeOK, Process
  <2>2. proc'[p].pc \in {"check", "bail", WhenRunning(proc[p].cmd), WhenDead(proc[p].cmd)}
    BY <1>2 DEF ReadPidContents, IsRunning, Goto, TypeOK, Process
  <2>3. Command(p) \/ proc'[p].pc \notin HeldLabel
    BY <1>1, <2>2 DEF Observer, Checking, Daemon, WhenRunning, WhenDead, HeldLabel, CaLabel
  <2> QED
    BY <1>1, <2>1, <2>3, ObserverStep
<1>3. CASE ~ReadPidContents(p) /\ ~IsRunning(p)
  <2>1. Command(p)
    BY <1>1, <1>3 DEF Observer, Checking, CheckLabel, At, WaitForExit, Plan,
                      UninstallUnload, RemoveResolver, RemoveCaCert, RemoveDataDir
  <2>2. CASE Plan(p)
    <3>1. Moves(p) /\ UNCHANGED <<srv, pidFile>>
      BY <2>2 DEF Plan, Moves, TypeOK, Process
    <3> QED
      BY <1>1, <2>1, <3>1, ObserverStep
  <2>3. CASE ~Plan(p)
    <3>1. \E l : Goto(p, l) /\ UNCHANGED srv
      BY <1>3, <2>3 DEF WaitForExit, UninstallUnload, UnloadJob, ManualInv,
         NoJob,
                        RemoveResolver, RemoveCaCert, RemoveDataDir
    <3>2. Moves(p) /\ UNCHANGED srv
      BY <3>1, GotoIsMove
    <3>3. pidFile' = pidFile \/ (pidFile' = NoFile /\ At(p, "rmdata"))
      BY <1>3, <2>3 DEF WaitForExit, UninstallUnload, RemoveResolver,
         RemoveCaCert, RemoveDataDir
    <3>4. At(p, "rmdata") => \A d \in Pid : Held(d) => proc[d].term
      BY <1>1 DEF ManualInv, Sees, At, SetupLabel
    <3> QED
      BY <1>1, <2>1, <3>2, <3>3, <3>4, ObserverStep
  <2> QED
    BY <2>2, <2>3
<1> QED
  BY <1>2, <1>3

\* start spawns a daemon, which does not claim yet.
LEMMA DaemonizeStep ==
  ASSUME ManualInv, ManualInv', NEW p \in Pid, Daemonize(p)
  PROVE  AbstractStep
<1>1. Observer(p) /\ At(p, "spawn") /\ Command(p)
  <2>1. At(p, "spawn")
    BY DEF Daemonize
  <2> QED
    BY <2>1 DEF ManualInv, Shape, LabelsOf, SetupLabel, CheckLabel, HeldLabel, CaLabel, At,
       Observer, Command,
       Cli
<1>2. CASE Goto(p, "bail")
  <2>1. Moves(p) /\ UNCHANGED <<srv, pidFile>>
    BY <1>2, GotoIsMove DEF ManualInv, Daemonize
  <2> QED
    BY <1>1, <2>1, ObserverStep
<1>3. ASSUME NEW q \in Pid, Fresh(q),
             proc' = [proc EXCEPT ![p].pc = "done", ![q] = Begun("foreground", proc[p].root)]
      PROVE  AbstractStep
  <2>1. p # q /\ ~Claims(p) /\ ~Claims(q)
    BY <1>1, <1>3 DEF Fresh, Alive, Claims, Command, Cli
  <2>2. /\ \A r \in Pid \ {p, q} : proc'[r] = proc[r]
        /\ proc'[p].cmd = proc[p].cmd /\ proc'[q].pc = "exists"
    BY <1>3, <2>1 DEF ManualInv, TypeOK, Process, Begun
  <2>3. \A r \in Pid : /\ Claims(r)' <=> Claims(r)
                       /\ Claims(r) => proc'[r].term = proc[r].term
    BY <1>1, <2>1, <2>2 DEF Claims, Command, Cli
  <2>4. UNCHANGED <<srv, pidFile>>
    BY DEF Daemonize
  <2>5. Silent
    BY <2>3, <2>4, SilentMove
  <2> QED
    BY <2>4, <2>5, SilentStep
<1> QED
  BY <1>2, <1>3 DEF Daemonize

\* Every step of a process is a step of OneDaemon, or none of its variables moves ...
LEMMA StepImplements ==
  ASSUME ManualInv, ManualInv', NEW p \in Pid, Step(p)
  PROVE  AbstractStep
<1>1. ~InstallUnload(p) /\ ~WritePlist(p) /\ ~LoadJob(p)
  BY DEF InstallUnload, WritePlist, LoadJob, ManualInv, Shape, LabelsOf, SetupLabel, CheckLabel,
     HeldLabel, CaLabel, At
<1>2. CASE Exit(p)
  <2>1. proc' = [q \in Pid |-> IF q \in {p} THEN Free ELSE proc[q]]
    BY <1>2 DEF Exit, ManualInv, TypeOK
  <2> QED
    BY <1>2, <2>1, EndsStep DEF Exit
<1> QED
  BY <1>1, <1>2, CheckStep, RemoveOwnStep, DaemonRunsStep, AnnounceStep, BindStep, KillStep,
     SetupRunsStep, CommandStep, DaemonizeStep DEF Step

\* ... and so is every step of the system.
LEMMA NextImplements == ManualAsRoot /\ ManualInv /\ ManualInv' /\ [Next]_vars => AbstractStep
<1> SUFFICES ASSUME ManualAsRoot, ManualInv, ManualInv', [Next]_vars PROVE AbstractStep
  OBVIOUS
<1> TypeOK /\ NoJob
  BY DEF ManualInv
<1>1. CASE UNCHANGED vars
  <2>1. UNCHANGED <<Holder, Bound, Known, Leaving>>
    BY <1>1 DEF vars, Holder, Bound, Known, Leaving, Claims
  <2> QED
    BY <2>1 DEF AbstractStep
<1>2. CASE Reboot
  BY <1>2, EndsStep DEF Reboot
<1>3. ASSUME NEW p \in Pid, Step(p) PROVE AbstractStep
  BY <1>3, StepImplements
<1>4. ASSUME NEW q \in Pid, NEW e, ~Alive(q), e.pc \in {"exists", "none", "setup"},
        proc' = [proc EXCEPT ![q] = e],
             UNCHANGED <<srv, pidFile>>
      PROVE  AbstractStep
  <2>1. \A r \in Pid : /\ Claims(r)' <=> Claims(r)
                       /\ Claims(r) => proc'[r].term = proc[r].term
    BY <1>4 DEF Claims, Alive, TypeOK
  <2>2. Silent
    BY <1>4, <2>1, SilentMove
  <2> QED
    BY <1>4, <2>2, SilentStep
<1>5. ASSUME NEW p \in Pid, Invoke(p) PROVE AbstractStep
  <2>1. \A c, r : Begun(c, r).pc \in {"exists", "setup"}
    BY DEF Begun
  <2> QED
    BY <1>4, <1>5, <2>1 DEF Invoke, Fresh
<1>6. ASSUME NEW p \in Pid, OtherProgram(p) PROVE AbstractStep
  <2>1. [Free EXCEPT !.cmd = "other", !.root = TRUE].pc = "none"
    BY DEF Free
  <2> QED
    BY <1>4, <1>6, <2>1 DEF OtherProgram, Fresh
<1>7. ASSUME NEW p \in Pid, Crash(p) PROVE AbstractStep
  <2>1. proc' = [q \in Pid |-> IF q \in {p} THEN Free ELSE proc[q]]
    BY <1>7 DEF Crash, TypeOK
  <2> QED
    BY <1>7, <2>1, EndsStep DEF Crash
<1>8. ASSUME NEW p \in Pid, OtherExits(p) PROVE AbstractStep
  <2>1. \A r \in Pid : /\ Claims(r)' <=> Claims(r)
                       /\ Claims(r) => proc'[r].term = proc[r].term
    BY <1>8 DEF OtherExits, Claims, Free, TypeOK
  <2>2. UNCHANGED <<srv, pidFile>>
    BY <1>8 DEF OtherExits
  <2>3. Silent
    BY <2>1, <2>2, SilentMove
  <2> QED
    BY <2>2, <2>3, SilentStep
<1>9. ASSUME NEW t \in Pid, Interrupt(t) PROVE AbstractStep
  <2>1. Held(t) /\ Settled(t) /\ Handles(t)
    BY <1>9, QuietMeans DEF Interrupt, Daemon, Settled, At, Handles
  <2>2. proc'[t].cmd = "foreground" /\ proc'[t].pc = "serve" /\ proc'[t].term
    BY <1>9, <2>1 DEF Interrupt, Signalled, TypeOK, Process, Held, Daemon, Settled, At
  <2>3. UNCHANGED <<srv, pidFile>>
    BY <1>9, <2>1 DEF Interrupt, Fatal, Reap, TypeOK
  <2> QED
    BY <2>1, <2>2, <2>3, ToldStep
<1>10. ASSUME NEW p \in Pid, LaunchdSpawn(p) PROVE AbstractStep
  BY <1>10 DEF LaunchdSpawn, NoJob
<1> QED
  BY <1>1, <1>2, <1>3, <1>5, <1>6, <1>7, <1>8, <1>9, <1>10 DEF Next

\* Nobody holds the service in the beginning.
LEMMA InitImplements == Init => OD!Init
<1> SUFFICES ASSUME Init PROVE OD!Init
  OBVIOUS
<1>1. \A p \in Pid : ~Claims(p) /\ \A s \in Server : srv[p][s] # "up"
  BY DEF Init, Claims, Free, Idle
<1>2. Holder = NoPid /\ Leaving = FALSE
  BY <1>1, HolderNone
<1>3. Bound = OD!Nobody
  BY <1>1 DEF Bound, OD!Nobody
<1>4. Known = NoPid
  BY LifecycleAssumption DEF Init, Known
<1> QED
  BY <1>2, <1>3, <1>4 DEF OD!Init

\* Run by hand as root, one command after the other, the daemons, the commands and
\* the PID file implement OneDaemon: the service changes hands only when its ports
\* are free, only its holder takes a port, and nobody forgets a holder that was not
\* told to leave, whatever crashes and however late a daemon ends.
THEOREM DaemonRefinement == ManualAsRoot => (Spec => ImplementsOneDaemon)
<1> SUFFICES ASSUME ManualAsRoot PROVE Spec => ImplementsOneDaemon
  OBVIOUS
<1>1. ManualInv /\ [Next]_vars => ManualInv'
  BY NextManual
<1>2. ManualInv /\ ManualInv' /\ [Next]_vars => [OD!Next]_OD!vars
  BY NextImplements DEF AbstractStep, OD!vars
<1> QED
  BY InitManual, InitImplements, <1>1, <1>2, PTL DEF Spec, ImplementsOneDaemon, OD!Spec
=============================================================================
