----------------------------- MODULE Lifecycle -----------------------------
(***************************************************************************)
(* The life of the dd-ferryman daemon: the PID file that is its only lock, *)
(* the commands start, stop, status, install and uninstall that read and   *)
(* delete that file, the two servers that bind their ports, SIGTERM, and   *)
(* launchd, which restarts the daemon when a job is loaded.                *)
(*                                                                         *)
(* Every dd-ferryman invocation is an operating-system process with a PID  *)
(* and a program counter.  A step is one system call on shared state (or   *)
(* one external command), so that all interleavings of two invocations are *)
(* behaviours.  The program counter of a process names the call it is      *)
(* about to make.                                                          *)
(***************************************************************************)

EXTENDS Naturals, FiniteSets

CONSTANTS
  Pid,          \* the process identifiers the kernel hands out
  NoPid,        \* "no process"
  NoFile,       \* content of ferryman.pid: the file does not exist
  EmptyFile,    \* content of ferryman.pid: created or truncated, not yet written
  Commands,     \* the commands the operator uses
  Sudo,         \* the privileges the operator runs them with (TRUE: under sudo)
  Patient,      \* does the operator wait until a daemon is up or gone for good?
  MaxCommands,  \* bound on the commands that run at the same time
  Timeouts,     \* may a daemon outlive the 20 polls of whoever stops it?
  PidReuse,     \* may the kernel reuse a PID that somebody still remembers?
  MaxFaults     \* bound on crashes, reboots and failing calls

Cli == {"start", "stop", "status", "install", "uninstall"}
Program == Cli \cup {"foreground", "other", "free"}
Server == {"dns", "https"}

ASSUME LifecycleAssumption ==
  /\ NoPid \notin Pid /\ NoFile \notin Pid /\ EmptyFile \notin Pid
  /\ NoFile # EmptyFile
  /\ Commands \subseteq Cli \cup {"foreground"}
  /\ Sudo \subseteq BOOLEAN
  /\ Patient \in BOOLEAN
  /\ Timeouts \in BOOLEAN
  /\ PidReuse \in BOOLEAN
  /\ MaxCommands \in Nat /\ MaxFaults \in Nat

VARIABLES
  proc,      \* the process table: per PID the program, its program counter ...
  srv,       \* the two server tasks of each daemon: idle, up (port bound), failed
  pidFile,   \* ferryman.pid: NoFile, EmptyFile or the PID written in it
  fds,       \* processes whose open file, the PID file or ca.key, still has its name
  dataDir,   \* does ~/.dd-ferryman exist?
  ca,        \* the CA in it: none, crt (no key yet), empty (key not written), ok
  trusted,   \* is the CA trusted in the system keychain?
  resolver,  \* does /etc/resolver/test exist?
  plist,     \* does the LaunchDaemon plist exist?
  loaded,    \* is the job loaded in launchd?
  job,       \* the process launchd runs for the job
  faults     \* how many faults have happened

config == <<dataDir, ca, trusted, resolver>>
launchd == <<plist, loaded, job>>
vars == <<proc, srv, pidFile, fds, config, launchd, faults>>

CleanupStep == {"UnloadLaunchd", "StopProcess", "RemoveResolver",
                "RemoveCaCert", "RemoveDataDir"}

Label == {"none", "exists", "read", "check", "stale_exists", "stale_rm",
          "setup", "ca", "create", "load_ca", "crt", "key", "write_key", "trust",
          "resolver_file", "spawn", "open", "write", "spawned", "serve",
          "kill", "wait", "rm_exists", "rm", "unload", "plist", "load",
          "plan", "resolver", "untrust", "rmdata",
          "exit", "bail", "done", "not_running"}

Process == [cmd: Program, pc: Label, seen: Pid \cup {NoPid}, root: BOOLEAN,
            term: BOOLEAN, plan: SUBSET CleanupStep]

(***************************************************************************)
(* Processes.                                                              *)
(***************************************************************************)
Free == [cmd |-> "free", pc |-> "none", seen |-> NoPid, root |-> FALSE,
         term |-> FALSE, plan |-> {}]
Idle == [s \in Server |-> "idle"]

\* main: the process a command line starts; install begins with the setup,
\* every other command with read_pid.
Begun(c, r) ==
  [cmd |-> c, pc |-> IF c = "install" THEN "setup" ELSE "exists",
   seen |-> NoPid, root |-> r, term |-> FALSE, plan |-> {}]

Alive(p) == proc[p].cmd # "free"
At(p, l) == proc[p].pc = l
Goto(p, l) == proc' = [proc EXCEPT ![p].pc = l]

\* Both servers of p accept requests.
Serving(p) == \A s \in Server : srv[p][s] = "up"
Settled(p) == At(p, "serve") /\ Serving(p) /\ ~proc[p].term

\* Nothing is in progress: a daemon that has come up, or none.
Quiet ==
  /\ \A p \in Pid : Alive(p) => proc[p].cmd = "other" \/ Settled(p)
  /\ loaded => job # NoPid

\* A PID the kernel may hand out.
Fresh(q) ==
  /\ ~Alive(q)
  /\ PidReuse \/ (q # pidFile /\ \A p \in Pid : proc[p].seen # q)

\* is_running runs "kill -0", which also fails when the caller may not signal
\* the process: an unprivileged caller sees no process of root.
Running(p, t) == t \in Pid /\ Alive(t) /\ (proc[p].root \/ ~proc[t].root)

\* Processes in D are gone, and with them their sockets and descriptors.
Reap(D) ==
  /\ srv' = [p \in Pid |-> IF p \in D THEN Idle ELSE srv[p]]
  /\ fds' = fds \ D

\* launchd notices that the process of its job is gone.
JobAfter(D) == IF job \in D THEN NoPid ELSE job

\* SIGTERM: the handlers are registered by the first poll of select!; before
\* that, and in every other program, the default action ends the process.
Handles(t) ==
  proc[t].cmd = "foreground" /\ proc[t].pc \in {"serve", "rm_exists", "rm", "exit"}
Signalled(t) == IF Handles(t) THEN [proc[t] EXCEPT !.term = TRUE] ELSE Free
Fatal(t) == IF Handles(t) THEN {} ELSE {t}

(***************************************************************************)
(* The operator and the kernel.                                            *)
(***************************************************************************)
Init ==
  /\ proc = [p \in Pid |-> Free]
  /\ srv = [p \in Pid |-> Idle]
  /\ pidFile = NoFile
  /\ fds = {}
  /\ dataDir = FALSE /\ ca = "none" /\ trusted = FALSE /\ resolver = FALSE
  /\ plist = FALSE /\ loaded = FALSE /\ job = NoPid
  /\ faults = 0

MayInvoke ==
  /\ Patient => Quiet
  /\ Cardinality({p \in Pid : proc[p].cmd \in Cli}) < MaxCommands

Invoke(q) ==
  /\ MayInvoke /\ Fresh(q)
  /\ \E c \in Commands, r \in Sudo : proc' = [proc EXCEPT ![q] = Begun(c, r)]
  /\ UNCHANGED <<srv, pidFile, fds, config, launchd, faults>>

Exit(p) ==
  /\ proc[p].pc \in {"exit", "bail", "done", "not_running"}
  /\ proc' = [proc EXCEPT ![p] = Free]
  /\ Reap({p}) /\ job' = JobAfter({p})
  /\ UNCHANGED <<pidFile, config, plist, loaded, faults>>

\* Ctrl-C on a daemon in the terminal is a SIGINT, handled like SIGTERM.
Interrupt(p) ==
  /\ MayInvoke /\ "foreground" \in Commands
  /\ proc[p].cmd = "foreground" /\ p # job
  /\ proc' = [proc EXCEPT ![p] = Signalled(p)]
  /\ Reap(Fatal(p))
  /\ UNCHANGED <<pidFile, config, launchd, faults>>

\* kill -9, an abort, a call that fails (the error ends the program where it
\* is), or Ctrl-C on a command in the terminal.
Crash(p) ==
  /\ faults < MaxFaults /\ proc[p].cmd \in Cli \cup {"foreground"}
  /\ proc' = [proc EXCEPT ![p] = Free]
  /\ Reap({p}) /\ job' = JobAfter({p})
  /\ faults' = faults + 1
  /\ UNCHANGED <<pidFile, config, plist, loaded>>

\* The files survive; launchd loads the plists it finds at boot.
Reboot ==
  /\ faults < MaxFaults
  /\ proc' = [p \in Pid |-> Free]
  /\ Reap(Pid) /\ job' = NoPid /\ loaded' = plist
  /\ faults' = faults + 1
  /\ UNCHANGED <<pidFile, config, plist>>

\* Some other program gets a PID; only of interest when PIDs are reused, and
\* one at a time is enough.
OtherProgram(q) ==
  /\ PidReuse /\ Fresh(q) /\ \A p \in Pid : proc[p].cmd # "other"
  /\ proc' = [proc EXCEPT ![q] = [Free EXCEPT !.cmd = "other", !.root = TRUE]]
  /\ UNCHANGED <<srv, pidFile, fds, config, launchd, faults>>

OtherExits(q) ==
  /\ proc[q].cmd = "other"
  /\ proc' = [proc EXCEPT ![q] = Free]
  /\ UNCHANGED <<srv, pidFile, fds, config, launchd, faults>>

(***************************************************************************)
(* read_pid, is_running and remove_pid, which all the commands share; what *)
(* a command does with the answer is in the operators that precede each.   *)
(***************************************************************************)
WhenNoFile(c) ==
  CASE c = "start" -> "setup"
    [] c = "foreground" -> "open"
    [] c \in {"stop", "status"} -> "not_running"
    [] c = "install" -> "unload"
    [] OTHER -> "plan"

ReadPidExists(p) ==
  /\ At(p, "exists")
  /\ Goto(p, IF pidFile = NoFile THEN WhenNoFile(proc[p].cmd) ELSE "read")
  /\ UNCHANGED <<srv, pidFile, fds, config, launchd, faults>>

\* Mutant: the content is taken for a PID without parsing it.
ReadPidContentsUnparsed(p) ==
  /\ At(p, "read")
  /\ proc' = [proc EXCEPT ![p].seen = pidFile, ![p].pc = "check"]
  /\ UNCHANGED <<srv, pidFile, fds, config, launchd, faults>>

\* The file may have vanished, or hold no number: both are errors.
ReadPidContents(p) ==
  /\ At(p, "read")
  /\ IF pidFile \in Pid
     THEN proc' = [proc EXCEPT ![p].seen = pidFile, ![p].pc = "check"]
     ELSE Goto(p, "bail")
  /\ UNCHANGED <<srv, pidFile, fds, config, launchd, faults>>

\* Mutant: start --foreground skips the check and takes over.
WhenRunningTakesOver(c) ==
  CASE c = "foreground" -> "open"
    [] c = "start" -> "bail"
    [] c = "status" -> "done"
    [] c \in {"stop", "install"} -> "kill"
    [] OTHER -> "plan"

\* Mutant: status always removes the PID file it has read.
WhenRunningStatusCleans(c) ==
  CASE c \in {"start", "foreground"} -> "bail"
    [] c = "status" -> "stale_exists"
    [] c \in {"stop", "install"} -> "kill"
    [] OTHER -> "plan"

WhenRunning(c) ==
  CASE c \in {"start", "foreground"} -> "bail"
    [] c = "status" -> "done"
    [] c \in {"stop", "install"} -> "kill"
    [] OTHER -> "plan"

\* Mutant: the daemon refuses to start when it finds a stale PID file.
WhenDeadRefuses(c) ==
  CASE c \in {"start", "stop", "status"} -> "stale_exists"
    [] c = "install" -> "rm_exists"
    [] c = "foreground" -> "bail"
    [] OTHER -> "plan"

WhenDead(c) ==
  CASE c \in {"start", "foreground", "stop", "status"} -> "stale_exists"
    [] c = "install" -> "rm_exists"
    [] OTHER -> "plan"

\* Only a command that goes on to signal the process needs its PID any longer;
\* uninstall keeps it only if the process runs.
IsRunning(p) ==
  LET c == proc[p].cmd
      t == proc[p].seen
  IN /\ At(p, "check")
     /\ proc' = [proc EXCEPT
                   ![p].pc = IF Running(p, t) THEN WhenRunning(c) ELSE WhenDead(c),
                   ![p].seen = IF Running(p, t) /\ c \in {"stop", "install", "uninstall"}
                               THEN t ELSE NoPid]
     /\ UNCHANGED <<srv, pidFile, fds, config, launchd, faults>>

\* Mutant: the daemon writes its PID only when it found no file.
AfterStaleNoPid(c) ==
  CASE c = "start" -> "setup"
    [] c = "foreground" -> "create"
    [] OTHER -> "not_running"

AfterStale(c) ==
  CASE c = "start" -> "setup"
    [] c = "foreground" -> "open"
    [] OTHER -> "not_running"

AfterRemove(c) ==
  CASE c = "install" -> "unload"
    [] c = "uninstall" -> "resolver"
    [] c = "foreground" -> "exit"
    [] OTHER -> "done"

\* Only uninstall ignores an error of remove_pid.
WhenVanished(c) ==
  CASE c = "uninstall" -> "resolver"
    [] c = "foreground" -> "exit"
    [] OTHER -> "bail"

\* The processes that are about to write a file they have opened.
Writing(l) == {p \in Pid : At(p, l)}

\* remove_pid is the test and the unlink; it removes whatever is there by then.
RemovePidTest(p, test, unlink, next) ==
  /\ At(p, test)
  /\ Goto(p, IF pidFile = NoFile THEN next ELSE unlink)
  /\ UNCHANGED <<srv, pidFile, fds, config, launchd, faults>>

RemovePidUnlink(p, unlink, next, vanished) ==
  /\ At(p, unlink)
  /\ Goto(p, IF pidFile = NoFile THEN vanished ELSE next)
  /\ pidFile' = NoFile /\ fds' = fds \ Writing("write")
  /\ UNCHANGED <<srv, config, launchd, faults>>

\* The PID read at the beginning belonged to no running process.
RemoveStale(p) ==
  LET next == AfterStale(proc[p].cmd)
  IN \/ RemovePidTest(p, "stale_exists", "stale_rm", next)
     \/ RemovePidUnlink(p, "stale_rm", next, "bail")

\* The daemon was told to stop, or is the one that stops.
RemoveOwn(p) ==
  LET c == proc[p].cmd
  IN \/ RemovePidTest(p, "rm_exists", "rm", AfterRemove(c))
     \/ RemovePidUnlink(p, "rm", AfterRemove(c), WhenVanished(c))

(***************************************************************************)
(* first_run_setup, for start and install, and load_or_create_ca, for them *)
(* and the daemon.  Which key pair the files hold is in module CaStore.    *)
(***************************************************************************)
CaExists == ca \in {"empty", "ok"}
AfterCa(c) == IF c = "foreground" THEN "spawned" ELSE "trust"
AfterSetup(c) == IF c = "start" THEN "spawn" ELSE "exists"

EnsureDirs(p) ==
  /\ At(p, "setup") /\ Goto(p, "ca")
  /\ dataDir' = TRUE
  /\ UNCHANGED <<srv, pidFile, fds, ca, trusted, resolver, launchd, faults>>

SetupTestsCa(p) ==
  /\ At(p, "ca")
  /\ Goto(p, IF CaExists THEN "trust" ELSE "create")
  /\ UNCHANGED <<srv, pidFile, fds, config, launchd, faults>>

\* A CA that is there is read; for one that is not, the directories are made.
LoadOrCreateCa(p) ==
  /\ At(p, "create")
  /\ Goto(p, IF CaExists THEN "load_ca" ELSE "crt")
  /\ dataDir' = (dataDir \/ ~CaExists)
  /\ UNCHANGED <<srv, pidFile, fds, ca, trusted, resolver, launchd, faults>>

\* load_ca_from finds no key in an empty ca.key, this time and every other; the
\* daemon that fails leaves its PID file.
LoadCa(p) ==
  /\ At(p, "load_ca")
  /\ Goto(p, IF ca = "ok" THEN AfterCa(proc[p].cmd) ELSE "bail")
  /\ UNCHANGED <<srv, pidFile, fds, config, launchd, faults>>

\* save_ca_to: the directory and the certificate ...
SaveCrt(p) ==
  /\ At(p, "crt") /\ Goto(p, "key")
  /\ dataDir' = TRUE
  /\ ca' = IF ca = "none" THEN "crt" ELSE ca
  /\ UNCHANGED <<srv, pidFile, fds, trusted, resolver, launchd, faults>>

\* ... then the key, by an open that creates or truncates it ...
OpenKey(p) ==
  /\ At(p, "key")
  /\ IF dataDir
     THEN fds' = fds \cup {p} /\ Goto(p, "write_key")
     ELSE UNCHANGED fds /\ Goto(p, "bail")
  /\ ca' = IF dataDir /\ ca # "none" THEN "empty" ELSE ca
  /\ UNCHANGED <<srv, pidFile, dataDir, trusted, resolver, launchd, faults>>

\* ... and a write, to a file that may have lost its name meanwhile.
WriteKey(p) ==
  /\ At(p, "write_key") /\ Goto(p, AfterCa(proc[p].cmd))
  /\ ca' = IF p \in fds /\ ca = "empty" THEN "ok" ELSE ca
  /\ fds' = fds \ {p}
  /\ UNCHANGED <<srv, pidFile, dataDir, trusted, resolver, launchd, faults>>

\* Trust needs root when it is not there yet, and the certificate ...
TrustCa(p) ==
  /\ At(p, "trust")
  /\ IF trusted \/ (proc[p].root /\ ca # "none")
     THEN trusted' = TRUE /\ Goto(p, "resolver_file")
     ELSE UNCHANGED trusted /\ Goto(p, "bail")
  /\ UNCHANGED <<srv, pidFile, fds, dataDir, ca, resolver, launchd, faults>>

\* ... and so does the resolver file.
WriteResolver(p) ==
  /\ At(p, "resolver_file")
  /\ IF resolver \/ proc[p].root
     THEN resolver' = TRUE /\ Goto(p, AfterSetup(proc[p].cmd))
     ELSE UNCHANGED resolver /\ Goto(p, "bail")
  /\ UNCHANGED <<srv, pidFile, fds, dataDir, ca, trusted, launchd, faults>>

\* The steps of first_run_setup and of load_or_create_ca.
SetupStep(p) ==
  \/ EnsureDirs(p) \/ SetupTestsCa(p) \/ LoadOrCreateCa(p) \/ LoadCa(p)
  \/ SaveCrt(p) \/ OpenKey(p) \/ WriteKey(p) \/ TrustCa(p) \/ WriteResolver(p)

(***************************************************************************)
(* start: a background process that is the same program with --foreground, *)
(* for which start does not wait.                                          *)
(***************************************************************************)

\* Mutant: start records the PID of the child itself.
DaemonizeRecords(p) ==
  /\ At(p, "spawn")
  /\ \E q \in Pid : /\ Fresh(q)
                     /\ proc' = [proc EXCEPT ![p].pc = "done",
                                   ![q] = Begun("foreground", proc[p].root)]
                     /\ pidFile' = q
  /\ UNCHANGED <<srv, fds, config, launchd, faults>>

\* The log file is opened in the data directory first; spawn fails when the
\* process table is full.
Daemonize(p) ==
  /\ At(p, "spawn")
  /\ \/ /\ ~dataDir \/ \A q \in Pid : ~Fresh(q)
        /\ Goto(p, "bail")
     \/ \E q \in Pid :
          /\ dataDir /\ Fresh(q)
          /\ proc' = [proc EXCEPT ![p].pc = "done",
                                  ![q] = Begun("foreground", proc[p].root)]
  /\ UNCHANGED <<srv, pidFile, fds, config, launchd, faults>>

(***************************************************************************)
(* start --foreground: the daemon.                                         *)
(***************************************************************************)

\* write_pid is fs::write: open with O_CREAT and O_TRUNC, then write.
OpenPidFile(p) ==
  /\ At(p, "open")
  /\ IF dataDir
     THEN pidFile' = EmptyFile /\ fds' = fds \cup {p} /\ Goto(p, "write")
     ELSE Goto(p, "bail") /\ UNCHANGED <<pidFile, fds>>
  /\ UNCHANGED <<srv, config, launchd, faults>>

\* If the file was unlinked since, the bytes go to a file without a name.
WritePidFile(p) ==
  /\ At(p, "write")
  /\ pidFile' = IF p \in fds THEN p ELSE pidFile
  /\ fds' = fds \ {p}
  /\ Goto(p, "create")
  /\ UNCHANGED <<srv, config, launchd, faults>>

\* The first poll of select! registers the signal handlers.
PollSelect(p) ==
  /\ At(p, "spawned")
  /\ Goto(p, "serve")
  /\ UNCHANGED <<srv, pidFile, fds, config, launchd, faults>>

\* The server tasks run beside the main task until the runtime is dropped.
TasksRun(p) ==
  proc[p].cmd = "foreground" /\ proc[p].pc \in {"spawned", "serve", "rm_exists", "rm", "exit"}

\* Whether port 443 needs root depends on the version of macOS.
BindResults(p, s) ==
  IF \E q \in Pid : srv[q][s] = "up" THEN {"failed"}
  ELSE IF s = "https" /\ ~proc[p].root THEN {"up", "failed"}
  ELSE {"up"}

Bind(p, s) ==
  /\ TasksRun(p) /\ srv[p][s] = "idle"
  /\ \E r \in BindResults(p, s) : srv' = [srv EXCEPT ![p][s] = r]
  /\ UNCHANGED <<proc, pidFile, fds, config, launchd, faults>>

\* Mutant: only the DNS server is watched.
SelectFailedDnsOnly(p) ==
  /\ At(p, "serve") /\ srv[p]["dns"] = "failed"
  /\ Goto(p, "exit")
  /\ UNCHANGED <<srv, pidFile, fds, config, launchd, faults>>

\* select! takes any branch that is ready: a server that failed ends the
\* daemon with an error, and the PID file stays ...
SelectFailed(p) ==
  /\ At(p, "serve") /\ \E s \in Server : srv[p][s] = "failed"
  /\ Goto(p, "exit")
  /\ UNCHANGED <<srv, pidFile, fds, config, launchd, faults>>

\* Mutant: the shutdown branch is missing from the select.
SelectShutdownNever(p) == At(p, "serve") /\ FALSE /\ UNCHANGED vars

\* Mutant: a daemon that is told to stop leaves its PID file.
SelectShutdownKeepsFile(p) ==
  /\ At(p, "serve") /\ proc[p].term
  /\ Goto(p, "exit")
  /\ UNCHANGED <<srv, pidFile, fds, config, launchd, faults>>

\* ... while a signal leads to an orderly shutdown.
SelectShutdown(p) ==
  /\ At(p, "serve") /\ proc[p].term
  /\ Goto(p, "rm_exists")
  /\ UNCHANGED <<srv, pidFile, fds, config, launchd, faults>>

(***************************************************************************)
(* stop, install and uninstall end the process they found in the PID file. *)
(***************************************************************************)
\* Mutant: kill -0 is sent instead of SIGTERM.
KillNoSignal(p) ==
  /\ At(p, "kill")
  /\ Goto(p, IF Running(p, proc[p].seen) THEN "wait" ELSE "bail")
  /\ UNCHANGED <<srv, pidFile, fds, config, launchd, faults>>

Kill(p) ==
  LET t == proc[p].seen
  IN /\ At(p, "kill")
     /\ IF Running(p, t)
        THEN /\ proc' = [proc EXCEPT ![p].pc = "wait", ![t] = Signalled(t)]
             /\ Reap(Fatal(t)) /\ job' = JobAfter(Fatal(t))
        ELSE /\ Goto(p, IF proc[p].cmd = "uninstall" THEN "wait" ELSE "bail")
             /\ UNCHANGED <<srv, fds, job>>
     /\ UNCHANGED <<pidFile, config, plist, loaded, faults>>

\* Up to 20 polls of is_running; afterwards the PID file goes in any case.
WaitForExit(p) ==
  /\ At(p, "wait")
  /\ Timeouts \/ ~Running(p, proc[p].seen)
  /\ Goto(p, "rm_exists")
  /\ UNCHANGED <<srv, pidFile, fds, config, launchd, faults>>

(***************************************************************************)
(* install and uninstall.                                                  *)
(***************************************************************************)

\* launchctl unload: launchd forgets the job and sends SIGTERM to its process,
\* for whose end it does not wait.
UnloadJob(p, next) ==
  IF proc[p].root /\ plist /\ loaded /\ job # NoPid
  THEN /\ proc' = [proc EXCEPT ![p].pc = next, ![job] = Signalled(job)]
       /\ Reap(Fatal(job))
       /\ loaded' = FALSE /\ job' = NoPid
  ELSE /\ Goto(p, next)
       /\ loaded' = (loaded /\ ~(proc[p].root /\ plist))
       /\ UNCHANGED <<srv, fds, job>>

InstallUnload(p) ==
  /\ At(p, "unload") /\ proc[p].cmd = "install"
  /\ UnloadJob(p, "plist")
  /\ UNCHANGED <<pidFile, config, plist, faults>>

WritePlist(p) ==
  /\ At(p, "plist")
  /\ IF proc[p].root
     THEN plist' = TRUE /\ Goto(p, "load")
     ELSE UNCHANGED plist /\ Goto(p, "bail")
  /\ UNCHANGED <<srv, pidFile, fds, config, loaded, job, faults>>

\* A failing launchctl load leaves the plist behind.
LoadJob(p) ==
  /\ At(p, "load")
  /\ \/ loaded' = TRUE /\ Goto(p, "done") /\ UNCHANGED faults
     \/ /\ faults < MaxFaults /\ faults' = faults + 1
        /\ Goto(p, "bail") /\ UNCHANGED loaded
  /\ UNCHANGED <<srv, pidFile, fds, config, plist, job>>

\* Mutant: the certificate is only cleaned up when the plist exists.
DetectCleanupPlistOnly(p) ==
  {s \in CleanupStep :
     \/ s \in {"UnloadLaunchd", "RemoveCaCert"} /\ plist
     \/ s = "StopProcess" /\ proc[p].seen # NoPid
     \/ s = "RemoveResolver" /\ resolver
     \/ s = "RemoveDataDir" /\ dataDir}

\* detect_cleanup, on what exists at the beginning.
DetectCleanup(p) ==
  {s \in CleanupStep :
     \/ s = "UnloadLaunchd" /\ plist
     \/ s = "StopProcess" /\ proc[p].seen # NoPid
     \/ s = "RemoveResolver" /\ resolver
     \/ s = "RemoveCaCert" /\ ca # "none"
     \/ s = "RemoveDataDir" /\ dataDir}

\* The five tests are one step: but for a daemon that generates a CA nobody else
\* creates or removes what they look for.
Plan(p) ==
  /\ At(p, "plan")
  /\ proc' = [proc EXCEPT ![p].plan = DetectCleanup(p),
                          ![p].pc = IF DetectCleanup(p) = {} THEN "done" ELSE "unload"]
  /\ UNCHANGED <<srv, pidFile, fds, config, launchd, faults>>

\* Mutant: the plist is deleted first, so that launchctl unload finds none.
UninstallUnloadSwapped(p) ==
  /\ At(p, "unload") /\ proc[p].cmd = "uninstall"
  /\ Goto(p, IF "StopProcess" \in proc[p].plan THEN "kill" ELSE "resolver")
  /\ plist' = (plist /\ ~proc[p].root)
  /\ UNCHANGED <<pidFile, srv, fds, loaded, job, config, faults>>

\* The steps of the plan run in order; errors are ignored, those for want of root
\* and of what a step works on (with both, it is taken to succeed).
UninstallUnload(p) ==
  LET next == IF "StopProcess" \in proc[p].plan THEN "kill" ELSE "resolver"
  IN /\ At(p, "unload") /\ proc[p].cmd = "uninstall"
     /\ IF "UnloadLaunchd" \in proc[p].plan
        THEN UnloadJob(p, next) /\ plist' = (plist /\ ~proc[p].root)
        ELSE Goto(p, next) /\ UNCHANGED <<srv, fds, launchd>>
     /\ UNCHANGED <<pidFile, config, faults>>

RemoveResolver(p) ==
  /\ At(p, "resolver")
  /\ resolver' = (resolver /\ ~("RemoveResolver" \in proc[p].plan /\ proc[p].root))
  /\ Goto(p, "untrust")
  /\ UNCHANGED <<srv, pidFile, fds, dataDir, ca, trusted, launchd, faults>>

RemoveCaCert(p) ==
  /\ At(p, "untrust")
  /\ trusted' = (trusted /\ ~("RemoveCaCert" \in proc[p].plan /\ proc[p].root /\ ca # "none"))
  /\ Goto(p, "rmdata")
  /\ UNCHANGED <<srv, pidFile, fds, dataDir, ca, resolver, launchd, faults>>

RemoveDataDir(p) ==
  /\ At(p, "rmdata")
  /\ IF "RemoveDataDir" \in proc[p].plan
     THEN dataDir' = FALSE /\ ca' = "none" /\ pidFile' = NoFile /\ fds' = {}
     ELSE UNCHANGED <<dataDir, ca, pidFile, fds>>
  /\ Goto(p, "done")
  /\ UNCHANGED <<srv, trusted, resolver, launchd, faults>>

(***************************************************************************)
(* launchd: KeepAlive and RunAtLoad.                                       *)
(***************************************************************************)
LaunchdSpawn(q) ==
  /\ loaded /\ job = NoPid /\ Fresh(q)
  /\ proc' = [proc EXCEPT ![q] = Begun("foreground", TRUE)]
  /\ job' = q
  /\ UNCHANGED <<srv, pidFile, fds, config, plist, loaded, faults>>

-----------------------------------------------------------------------------
\* The steps of one process.
Step(p) ==
  \/ ReadPidExists(p) \/ ReadPidContents(p) \/ IsRunning(p)
  \/ RemoveStale(p) \/ RemoveOwn(p) \/ Exit(p)
  \/ SetupStep(p) \/ Daemonize(p) \/ OpenPidFile(p) \/ WritePidFile(p) \/ PollSelect(p)
  \/ (\E s \in Server : Bind(p, s))
  \/ SelectFailed(p) \/ SelectShutdown(p)
  \/ Kill(p) \/ WaitForExit(p)
  \/ InstallUnload(p) \/ WritePlist(p) \/ LoadJob(p)
  \/ Plan(p) \/ UninstallUnload(p)
  \/ RemoveResolver(p) \/ RemoveCaCert(p) \/ RemoveDataDir(p)

Next ==
  \/ \E p \in Pid : \/ Step(p) \/ Invoke(p) \/ Crash(p) \/ LaunchdSpawn(p)
                    \/ Interrupt(p) \/ OtherProgram(p) \/ OtherExits(p)
  \/ Reboot

Spec == Init /\ [][Next]_vars

\* Processes that have been started run, and launchd keeps its promise, with a
\* PID that is not for ever the one in the PID file, for the kernel hands them out
\* in turn; what the operator does, faults and other programs are not fair.
Fairness ==
  /\ \A p \in Pid : WF_vars(Step(p))
  /\ SF_vars(\E q \in Pid : q # pidFile /\ LaunchdSpawn(q))

FairSpec == Spec /\ Fairness

(***************************************************************************)
(* Properties.                                                             *)
(***************************************************************************)

\* Every variable has its type; in particular whatever a command takes from
\* the PID file is a PID (read_pid parses it).
TypeOK ==
  /\ proc \in [Pid -> Process]
  /\ srv \in [Pid -> [Server -> {"idle", "up", "failed"}]]
  /\ pidFile \in Pid \cup {NoFile, EmptyFile}
  /\ fds \subseteq Pid
  /\ dataDir \in BOOLEAN /\ ca \in {"none", "crt", "empty", "ok"}
  /\ trusted \in BOOLEAN /\ resolver \in BOOLEAN
  /\ plist \in BOOLEAN /\ loaded \in BOOLEAN
  /\ job \in Pid \cup {NoPid}
  /\ faults \in 0..MaxFaults

\* A daemon that has found no other one and claims the PID file, until it dies.
Claims(p) ==
  proc[p].cmd = "foreground"
  /\ proc[p].pc \in {"open", "write", "create", "load_ca", "crt", "key", "write_key",
                    "spawned", "serve", "rm_exists", "rm"}

\* The PID file is a lock: never two daemons that both passed the check of
\* start::run, for an operator who waits until the last daemon is up or gone.
Exclusive == \A p, q \in Pid : Claims(p) /\ Claims(q) => p = q

\* The service that the daemons and the PID file make up together.
Holder == IF \E p \in Pid : Claims(p) THEN CHOOSE p \in Pid : Claims(p) ELSE NoPid
Bound == [s \in Server |-> IF \E p \in Pid : srv[p][s] = "up"
                           THEN CHOOSE p \in Pid : srv[p][s] = "up" ELSE NoPid]
Known == IF pidFile \in Pid THEN pidFile ELSE NoPid
Leaving == Holder # NoPid /\ proc[Holder].term

OD == INSTANCE OneDaemon WITH
        Process <- Pid, NoProcess <- NoPid, Task <- Server,
        holder <- Holder, bound <- Bound, known <- Known, leaving <- Leaving

\* The daemons and the commands implement the promise of OneDaemon: the service
\* changes hands only when its ports are free, only its holder takes a port, and
\* no command makes the commands forget a holder that was not told to leave.
ImplementsOneDaemon == OD!Spec

\* When nothing is in progress, a daemon that serves is the one in the PID
\* file, so that stop, status and start can find it.
Tracked == Quiet => \A d \in Pid : Serving(d) => pidFile = d

\* stop signals no process but the daemon that serves, if one does; another
\* program, which has got the PID of a daemon that is gone, only if a crash or a
\* reboot has left its PID file behind.
SignalsItsDaemon ==
  \A p \in Pid : At(p, "kill") /\ proc[p].seen \in Pid =>
    /\ \A d \in Pid : Serving(d) => d = proc[p].seen
    /\ proc[proc[p].seen].cmd = "other" => faults > 0

\* A PID file removed as stale does not name a daemon that lives: what the
\* command has read and checked still holds when it deletes the file.
OnlyStaleRemoved ==
  [][\A p \in Pid :
       At(p, "stale_rm") /\ proc'[p].pc # "stale_rm" /\ pidFile' = NoFile
       /\ pidFile \in Pid => proc[pidFile].cmd # "foreground"]_vars

\* status and stop say "not running" only when no daemon serves.
TruthfulVerdict ==
  [][\A p \in Pid : ~At(p, "not_running") /\ proc'[p].pc = "not_running"
                      => \A d \in Pid : ~Serving(d)]_vars

\* uninstall run as root leaves nothing behind: not the job, not the trusted
\* certificate, not the resolver file.
UninstallCleans ==
  [][\A p \in Pid : At(p, "rmdata") /\ proc'[p].pc = "done" /\ proc[p].root
                      => ~(dataDir \/ trusted \/ resolver \/ plist \/ loaded)']_vars

\* A daemon that has got SIGTERM ends, wherever it was.
FatalTerm == \A p \in Pid : proc[p].term ~> ~Alive(p)

\* No half a daemon: one that has started its servers ends up serving both
\* ports or is gone.
ServesOrDies == \A p \in Pid : At(p, "spawned") ~> Serving(p) \/ ~Alive(p)

\* The states the daemon never gets out of by itself: a PID file or a CA key that
\* a crash has left created but not written, which read_pid and load_ca_from fail
\* on each time, and a PID file that names another program.
Unwritten == pidFile = EmptyFile /\ fds \cap Writing("write") = {}
KeyUnwritten == ca = "empty" /\ fds \cap Writing("write_key") = {}
Mistaken == pidFile \in Pid /\ proc[pidFile].cmd = "other"
Wedged == Unwritten \/ KeyUnwritten \/ Mistaken

\* A start that spawns a daemon is followed by a daemon that serves, once no
\* more faults happen, whatever PID file the last one left, unless a crash has
\* left a CA key unwritten.
StartBringsUp ==
  \A p \in Pid :
    At(p, "spawn") /\ faults = MaxFaults /\ ~KeyUnwritten ~> \E d \in Pid : Serving(d)

\* start --foreground, which skips the setup, serves where the setup has made
\* the directories, unless what a crash has left is in its way: a PID file or a CA
\* key never written, or a PID file whose PID some other program, or the new daemon
\* itself, has got.
ForegroundServes ==
  \A p \in Pid :
    At(p, "exists") /\ proc[p].cmd = "foreground" /\ faults = MaxFaults /\ dataDir
      /\ pidFile # p /\ ~Wedged /\ (\A d \in Pid \ {p} : proc[d].cmd # "foreground")
    ~> Serving(p) \/ Mistaken

\* A stop that found a PID is followed by a moment when both ports are free,
\* even if it is not the daemon it saw that held them, once no more faults happen.
StopFrees ==
  \A p \in Pid : At(p, "check") /\ proc[p].cmd = "stop" /\ faults = MaxFaults
                   ~> \A d \in Pid, s \in Server : srv[d][s] # "up"

\* launchd keeps the daemon up: while the job is loaded a daemon serves again
\* and again, whatever crashes.
KeptAlive == []<>(~loaded \/ \E d \in Pid : Serving(d))

\* The same up to the states the daemon never gets out of by itself.
KeptAliveUnlessWedged == []<>(~loaded \/ Wedged \/ \E d \in Pid : Serving(d))

\* After uninstall the daemon goes away and launchd does not bring it back
\* before the next install.
UninstallStops ==
  \A p \in Pid : At(p, "rmdata") /\ proc[p].root
                   ~> ~loaded /\ \A d \in Pid : proc[d].cmd # "foreground"
=============================================================================
