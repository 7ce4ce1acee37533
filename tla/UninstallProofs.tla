--------------------------- MODULE UninstallProofs --------------------------
(***************************************************************************)
(* uninstall leaves nothing behind: a theorem about every command, launchd *)
(* included, for any number of processes, faults, failing calls, reused    *)
(* PIDs and slow ends.                                                     *)
(*                                                                         *)
(* It is about an operator who uses sudo and lets a daemon come up or go   *)
(* before the next command.  Both are needed: an uninstall without sudo    *)
(* deletes the data directory and leaves the trust, which the next one     *)
(* then does not find; and an install or start that runs beside it sets up *)
(* again what is already removed.                                          *)
(***************************************************************************)
EXTENDS LifecycleProofs

OneAtATimeAsRoot == Patient /\ FALSE \notin Sudo

(***************************************************************************)
(* The inductive invariant.  The danger is a daemon that launchd starts    *)
(* again while uninstall runs: until it has its CA it may still create the *)
(* data directory.  The invariant says that such a daemon is the job, which*)
(* uninstall ends before it removes anything, and that what uninstall has  *)
(* not planned to remove was not there and has not come.                   *)
(***************************************************************************)
CheckLabel == {"exists", "read", "check", "stale_exists", "stale_rm"}
CaLabel == {"create", "load_ca", "crt", "key", "write_key"}
SetupLabel == {"setup", "ca", "trust", "resolver_file"} \cup CaLabel
EarlyLabel == CheckLabel \cup {"open", "write"} \cup CaLabel
EndLabel == {"kill", "wait", "rm_exists", "rm"}

\* Where each program can be.
LabelsOf(c) ==
  CASE c = "start" -> CheckLabel \cup SetupLabel \cup {"spawn", "done", "bail"}
    [] c \in {"stop", "status"} -> CheckLabel \cup EndLabel \cup {"done", "bail", "not_running"}
    [] c = "install" -> SetupLabel \cup {"exists", "read", "check"} \cup EndLabel
                          \cup {"unload", "plist", "load", "done", "bail"}
    [] c = "uninstall" -> {"exists", "read", "check", "plan", "unload"} \cup EndLabel
                            \cup {"resolver", "untrust", "rmdata", "done", "bail"}
    [] c = "foreground" -> EarlyLabel \cup {"spawned", "serve", "rm_exists", "rm", "exit", "bail"}
    [] OTHER -> {"none"}

\* The data directory is there for who has tested or made it.
MakingLabel == {"write", "ca"} \cup CaLabel

USE DEF CaLabel, SetupLabel, MakingLabel

Looking == {"exists", "read", "check", "plan"}
Removing == EndLabel \cup {"resolver", "untrust", "rmdata"}

Command(p) == proc[p].cmd \in Cli
Early(q) == proc[q].cmd = "foreground" /\ proc[q].pc \in EarlyLabel

\* What is there rests on what was made before it.
Ordered ==
  /\ trusted => ca # "none"
  /\ ca # "none" => dataDir
  /\ loaded => plist
  /\ job # NoPid => loaded

\* One process.
Shape(p) ==
  /\ proc[p].pc \in LabelsOf(proc[p].cmd)
  /\ Command(p) => proc[p].root
  /\ At(p, "load") => plist
  /\ proc[p].pc \in MakingLabel => dataDir

\* What uninstall has found and done.
Undoing(p) ==
  proc[p].cmd = "uninstall" =>
    /\ proc[p].pc \in Looking \cup {"unload"} \cup Removing =>
         \A q \in Pid : Early(q) => q = job
    /\ proc[p].pc \in {"unload"} \cup Removing =>
         /\ "UnloadLaunchd" \notin proc[p].plan => ~plist
         /\ "RemoveResolver" \notin proc[p].plan => ~resolver
         /\ "RemoveDataDir" \notin proc[p].plan => ~dataDir
         /\ "RemoveCaCert" \notin proc[p].plan => ~trusted
    /\ proc[p].pc \in Removing => ~plist
    /\ proc[p].pc \in {"untrust", "rmdata"} => ~resolver
    /\ proc[p].pc = "rmdata" => ~trusted

UninstallInv ==
  /\ TypeOK /\ Ordered
  /\ \A p, q \in Pid : Command(p) /\ Command(q) => p = q
  /\ \A p \in Pid : Shape(p) /\ Undoing(p)

(***************************************************************************)
(* Steps that all actions are made of.                                     *)
(***************************************************************************)
Same(q) ==
  /\ proc'[q].cmd = proc[q].cmd /\ proc'[q].pc = proc[q].pc
  /\ proc'[q].root = proc[q].root /\ proc'[q].plan = proc[q].plan
Gone(q) == proc'[q].cmd = "free" /\ proc'[q].pc = "none"

\* A process goes on to a label at which the invariant asks for nothing new.
Onward(p) ==
  /\ proc'[p].cmd = proc[p].cmd /\ proc'[p].root = proc[p].root /\ proc'[p].plan = proc[p].plan
  /\ proc'[p].pc \in LabelsOf(proc[p].cmd) \ {"load"}
  /\ proc'[p].pc \in MakingLabel => dataDir
  /\ proc[p].cmd = "foreground" /\ proc'[p].pc \in EarlyLabel => proc[p].pc \in EarlyLabel
  /\ proc[p].cmd = "uninstall" =>
       \/ proc'[p].pc \in {"done", "bail"}
       \/ proc[p].pc \in Looking /\ proc'[p].pc \in Looking
       \/ proc[p].pc \in Removing /\ proc'[p].pc \in EndLabel \cup {"resolver"}

\* Processes go on or end, the files stay, or a CA is made.
LEMMA OnwardBut ==
  ASSUME UninstallInv, TypeOK', UNCHANGED <<dataDir, trusted, resolver, plist>>,
         ca' = ca \/ (ca' # "none" /\ dataDir),
         loaded' = loaded \/ (~loaded' /\ job' = NoPid),
         \A q \in Pid : Same(q) \/ Gone(q) \/ Onward(q),
         job' = job \/ (job' = NoPid /\ \A q \in Pid : q = job => ~Early(q)')
  PROVE  UninstallInv'
<1>1. Ordered'
  BY DEF UninstallInv, Ordered
<1>2. ASSUME NEW p \in Pid, NEW q \in Pid, Command(p)', Command(q)' PROVE p = q
  BY <1>2 DEF UninstallInv, Command, Same, Gone, Onward, Cli
<1>3. ASSUME NEW p \in Pid PROVE Shape(p)'
  <2>1. CASE Gone(p)
    BY <2>1 DEF Shape, Gone, LabelsOf, Command, Cli, At
  <2>2. CASE Same(p)
    BY <2>2 DEF UninstallInv, Shape, Same, Command, At
  <2>3. CASE Onward(p)
    BY <2>3 DEF UninstallInv, Shape, Onward, Command, At
  <2> QED
    BY <2>1, <2>2, <2>3
<1>4. ASSUME NEW q \in Pid, Early(q)', NEW p \in Pid, proc[p].cmd = "uninstall",
             proc[p].pc \in Looking \cup {"unload"} \cup Removing
      PROVE  q = job'
  <2>1. Early(q)
    BY <1>4 DEF Early, Same, Gone, Onward
  <2> QED
    BY <1>4, <2>1 DEF UninstallInv, Undoing
<1>5. ASSUME NEW p \in Pid PROVE Undoing(p)'
  <2>1. CASE Gone(p)
    BY <2>1 DEF Undoing, Gone
  <2>2. CASE Same(p)
    BY <1>4, <2>2 DEF UninstallInv, Undoing, Same
  <2>3. CASE Onward(p) /\ proc[p].cmd = "uninstall"
    BY <1>4, <2>3 DEF UninstallInv, Undoing, Onward, Looking, Removing, EndLabel
  <2>4. CASE Onward(p) /\ proc[p].cmd # "uninstall"
    BY <2>4 DEF Undoing, Onward
  <2> QED
    BY <2>1, <2>2, <2>3, <2>4
<1> QED
  BY <1>1, <1>2, <1>3, <1>5 DEF UninstallInv

\* The same where nothing but processes and the job change.
LEMMA OnwardKeeps ==
  ASSUME UninstallInv, TypeOK', UNCHANGED <<config, plist>>,
         loaded' = loaded \/ (~loaded' /\ job' = NoPid),
         \A q \in Pid : Same(q) \/ Gone(q) \/ Onward(q),
         job' = job \/ (job' = NoPid /\ \A q \in Pid : q = job => ~Early(q)')
  PROVE  UninstallInv'
BY OnwardBut DEF config

\* Goto is such a step if its label is right.
LEMMA GotoIs ==
  ASSUME TypeOK, NEW p \in Pid, NEW l, Goto(p, l)
  PROVE  /\ proc'[p].cmd = proc[p].cmd /\ proc'[p].root = proc[p].root
         /\ proc'[p].plan = proc[p].plan /\ proc'[p].pc = l
         /\ \A q \in Pid \ {p} : Same(q)
BY DEF TypeOK, Process, Goto, Same

\* SIGTERM ends a process, or it takes note.
LEMMA SignalledIs ==
  ASSUME TypeOK, NEW t \in Pid, proc'[t] = Signalled(t)
  PROVE  (Same(t) /\ Handles(t)) \/ (Gone(t) /\ ~Handles(t))
<1>1. proc[t] \in Process
  BY DEF TypeOK
<1>2. CASE Handles(t)
  <2>1. proc'[t] = [proc[t] EXCEPT !.term = TRUE]
    BY <1>2 DEF Signalled
  <2> QED
    BY <1>1, <1>2, <2>1 DEF Same, Process
<1>3. CASE ~Handles(t)
  BY <1>3 DEF Signalled, Gone, Free
<1> QED
  BY <1>2, <1>3

\* The only command that runs.
LEMMA TheCommand ==
  ASSUME UninstallInv, NEW p \in Pid, Command(p)
  PROVE  \A q \in Pid : proc[q].cmd = "uninstall" => q = p
BY DEF UninstallInv, Command, Cli

(***************************************************************************)
(* The actions of the processes.                                           *)
(***************************************************************************)

\* The steps that only look at or change the PID file, and wait.
LEMMA LabelStepsKeep ==
  ASSUME UninstallInv, TypeOK', NEW p \in Pid,
         \/ ReadPidExists(p) \/ ReadPidContents(p) \/ IsRunning(p)
         \/ RemoveStale(p) \/ RemoveOwn(p)
         \/ OpenPidFile(p) \/ WritePidFile(p) \/ PollSelect(p)
         \/ SelectFailed(p) \/ SelectShutdown(p) \/ WaitForExit(p)
  PROVE  UninstallInv'
<1> DEFINE c == proc[p].cmd
           l == proc'[p].pc
<1>1. UNCHANGED <<config, launchd>>
  BY DEF ReadPidExists, ReadPidContents, IsRunning, RemoveStale, RemoveOwn, RemovePidTest,
         RemovePidUnlink, OpenPidFile, WritePidFile, PollSelect, SelectFailed, SelectShutdown,
         WaitForExit
<1>2. /\ TypeOK /\ Shape(p) /\ c \in Program
  BY DEF UninstallInv, TypeOK, Process
<1> SUFFICES Onward(p) /\ \A q \in Pid \ {p} : Same(q)
  BY <1>1, OnwardKeeps DEF launchd
<1>3. ASSUME NEW m, Goto(p, m),
             /\ m \in LabelsOf(c) \ {"load"} /\ (m \in MakingLabel => dataDir)
             /\ c = "foreground" /\ m \in EarlyLabel => proc[p].pc \in EarlyLabel
             /\ c = "uninstall" =>
                  \/ m \in {"done", "bail"}
                  \/ proc[p].pc \in Looking /\ m \in Looking
                  \/ proc[p].pc \in Removing /\ m \in EndLabel \cup {"resolver"}
      PROVE  Onward(p) /\ \A q \in Pid \ {p} : Same(q)
  BY <1>2, <1>3, GotoIs DEF Onward
<1> USE DEF LabelsOf, CheckLabel, EarlyLabel, EndLabel, Looking, Removing, Program, Cli
<1>4. CASE ReadPidExists(p)
  BY <1>2, <1>3, <1>4 DEF ReadPidExists, WhenNoFile, At, Shape
<1>5. CASE ReadPidContents(p)
  <2>1. CASE Goto(p, "bail")
    BY <1>2, <1>3, <1>5, <2>1 DEF ReadPidContents, At, Shape
  <2>2. CASE proc' = [proc EXCEPT ![p].seen = pidFile, ![p].pc = "check"]
    <3>1. /\ proc'[p].cmd = c /\ proc'[p].root = proc[p].root /\ proc'[p].plan = proc[p].plan
          /\ l = "check" /\ \A q \in Pid \ {p} : Same(q)
      BY <1>2, <2>2 DEF TypeOK, Process, Same
    <3> QED
      BY <1>2, <1>5, <3>1 DEF ReadPidContents, At, Shape, Onward
  <2> QED
    BY <1>5, <2>1, <2>2 DEF ReadPidContents
<1>6. CASE IsRunning(p)
  <2>1. /\ proc'[p].cmd = c /\ proc'[p].root = proc[p].root /\ proc'[p].plan = proc[p].plan
        /\ l \in {WhenRunning(c), WhenDead(c)} /\ \A q \in Pid \ {p} : Same(q)
    BY <1>2, <1>6 DEF IsRunning, TypeOK, Process, Same
  <2> QED
    BY <1>2, <1>6, <2>1 DEF IsRunning, WhenRunning, WhenDead, At, Shape, Onward
<1>7. CASE RemoveStale(p)
  BY <1>2, <1>3, <1>7 DEF RemoveStale, RemovePidTest, RemovePidUnlink, AfterStale, At, Shape
<1>8. CASE RemoveOwn(p)
  BY <1>2, <1>3, <1>8
     DEF RemoveOwn, RemovePidTest, RemovePidUnlink, AfterRemove, WhenVanished, At, Shape
<1>9. CASE OpenPidFile(p) \/ WritePidFile(p)
  BY <1>2, <1>3, <1>9 DEF OpenPidFile, WritePidFile, At, Shape
<1>10. CASE PollSelect(p) \/ SelectFailed(p) \/ SelectShutdown(p) \/ WaitForExit(p)
  BY <1>2, <1>3, <1>10 DEF PollSelect, SelectFailed, SelectShutdown, WaitForExit, At, Shape
<1> QED
  BY <1>4, <1>5, <1>6, <1>7, <1>8, <1>9, <1>10
\* Processes end.
LEMMA EndsKeep ==
  ASSUME UninstallInv, TypeOK', NEW D \in SUBSET Pid,
         \A q \in Pid : IF q \in D THEN Gone(q) ELSE Same(q),
         job' = JobAfter(D), UNCHANGED <<config, plist, loaded>>
  PROVE  UninstallInv'
BY OnwardKeeps DEF JobAfter, UninstallInv, TypeOK, Gone, Early

\* What ends a process, or asks it to end.
LEMMA DeathsKeep ==
  ASSUME UninstallInv, TypeOK', NEW p \in Pid,
         Exit(p) \/ Crash(p) \/ Interrupt(p) \/ OtherExits(p)
  PROVE  UninstallInv'
<1>1. CASE Exit(p) \/ Crash(p)
  <2>1. \A q \in Pid : IF q \in {p} THEN Gone(q) ELSE Same(q)
    BY <1>1 DEF Exit, Crash, UninstallInv, TypeOK, Gone, Same, Free
  <2> QED
    BY <1>1, <2>1, EndsKeep DEF Exit, Crash
<1>2. CASE Interrupt(p)
  <2>1. proc'[p] = Signalled(p) /\ \A q \in Pid \ {p} : proc'[q] = proc[q]
    BY <1>2 DEF Interrupt, UninstallInv, TypeOK
  <2>2. \A q \in Pid : Same(q) \/ Gone(q)
    BY <2>1, SignalledIs DEF UninstallInv, Same
  <2> QED
    BY <1>2, <2>2, OnwardKeeps DEF Interrupt, launchd
<1>3. CASE OtherExits(p)
  <2>1. \A q \in Pid : Same(q) \/ Gone(q)
    BY <1>3 DEF OtherExits, UninstallInv, TypeOK, Gone, Same, Free
  <2> QED
    BY <1>3, <2>1, OnwardKeeps DEF OtherExits, launchd
<1> QED
  BY <1>1, <1>2, <1>3

\* Kill: whoever sent it goes on, whoever got it ends or takes note.
LEMMA KillKeeps ==
  ASSUME UninstallInv, TypeOK', NEW p \in Pid, Kill(p)
  PROVE  UninstallInv'
<1> DEFINE t == proc[p].seen
<1>1. At(p, "kill") /\ TypeOK /\ Shape(p) /\ UNCHANGED <<config, plist, loaded>>
      /\ proc[p].cmd \in Cli /\ proc[p].cmd # "start"
  BY DEF Kill, UninstallInv, TypeOK, Process, Program, Shape, At, LabelsOf, CheckLabel,
         EarlyLabel, Cli
<1>2. ASSUME proc'[p].cmd = proc[p].cmd, proc'[p].root = proc[p].root,
             proc'[p].plan = proc[p].plan,
             proc'[p].pc \in {"wait", "bail"}
      PROVE  Onward(p)
  BY <1>1, <1>2 DEF Onward, At, LabelsOf, Cli, EndLabel, Removing, EarlyLabel, CheckLabel
<1>3. CASE Running(p, t)
  <2>1. /\ t \in Pid /\ job' = JobAfter(Fatal(t))
        /\ proc' = [proc EXCEPT ![p].pc = "wait", ![t] = Signalled(t)]
    BY <1>3 DEF Kill, Running
  <2>2. \A q \in Pid \ {p, t} : Same(q)
    BY <1>1, <2>1 DEF TypeOK, Same
  <2>3. proc'[t] = Signalled(t)
    BY <1>1, <2>1 DEF TypeOK
  <2>4. (Same(t) /\ Handles(t)) \/ (Gone(t) /\ ~Handles(t))
    BY <1>1, <2>1, <2>3, SignalledIs
  <2>5. p # t => Onward(p)
    <3>1. p # t => /\ proc'[p].cmd = proc[p].cmd /\ proc'[p].root = proc[p].root
                   /\ proc'[p].plan = proc[p].plan /\ proc'[p].pc = "wait"
      BY <1>1, <2>1 DEF TypeOK, Process
    <3> QED
      BY <1>2, <3>1
  <2>6. job' = job \/ (job' = NoPid /\ \A q \in Pid : q = job => ~Early(q)')
    BY <2>1, <2>4 DEF JobAfter, Fatal, Gone, Early
  <2> QED
    BY <1>1, <2>2, <2>4, <2>5, <2>6, OnwardKeeps
<1>4. CASE ~Running(p, t)
  <2>1. Onward(p) /\ (\A q \in Pid \ {p} : Same(q)) /\ job' = job
    BY <1>1, <1>2, <1>4, GotoIs DEF Kill
  <2> QED
    BY <1>1, <2>1, OnwardKeeps
<1> QED
  BY <1>3, <1>4

\* Everything that has to be shown when the one command that runs takes a step.
LEMMA CommandKeeps ==
  ASSUME UninstallInv, TypeOK', NEW p \in Pid, Command(p), Ordered',
         proc'[p].cmd \in {proc[p].cmd, "free"},
         \A q \in Pid \ {p} : Same(q) \/ Gone(q),
         Shape(p)', Undoing(p)',
         \A q \in Pid \ {p} : proc[q].pc \in MakingLabel => dataDir' \/ Gone(q)
  PROVE  UninstallInv'
<1>1. ASSUME NEW a \in Pid, NEW b \in Pid, Command(a)', Command(b)' PROVE a = b
  BY <1>1 DEF UninstallInv, Command, Same, Gone, Cli
<1>2. ASSUME NEW q \in Pid, q # p PROVE Shape(q)' /\ Undoing(q)'
  <2>1. Shape(q) /\ ~Command(q)
    BY <1>2 DEF UninstallInv
  <2>2. CASE Gone(q)
    BY <2>2 DEF Gone, Shape, Undoing, LabelsOf, Command, Cli, At
  <2>3. CASE Same(q) /\ ~Gone(q)
    <3>1. Shape(q)'
      BY <1>2, <2>1, <2>3
         DEF Same, Shape, Command, At, LabelsOf, CheckLabel, EarlyLabel, Cli
    <3>2. Undoing(q)'
      BY <2>1, <2>3 DEF Same, Undoing, Command, Cli
    <3> QED
      BY <3>1, <3>2
  <2> QED
    BY <1>2, <2>2, <2>3
<1> QED
  BY <1>1, <1>2 DEF UninstallInv

\* The setup moves on within what its program does; the CA does not go, and the
\* daemon, which runs no more of it than load_or_create_ca, makes no directory.
LEMMA SetupIs ==
  ASSUME UninstallInv, TypeOK', NEW p \in Pid, SetupStep(p)
  PROVE  /\ proc[p].cmd \in {"start", "install", "foreground"}
         /\ UNCHANGED launchd
         /\ \E l \in LabelsOf(proc[p].cmd) \ {"load", "write"} :
              /\ Goto(p, l)
              /\ l \in MakingLabel => dataDir'
              /\ proc[p].cmd = "foreground" /\ l \in EarlyLabel => Early(p)
         /\ dataDir => dataDir'
         /\ proc[p].cmd = "foreground" => UNCHANGED <<dataDir, trusted, resolver>>
         /\ ca' = ca \/ (ca' # "none" /\ dataDir')
         /\ Ordered'
<1>1. /\ TypeOK /\ Ordered /\ Shape(p) /\ proc[p].cmd \in Program /\ dataDir \in BOOLEAN
      /\ trusted \in BOOLEAN
  BY DEF UninstallInv, TypeOK, Process
<1> USE <1>1 DEF LabelsOf, CheckLabel, SetupLabel, EarlyLabel, CaLabel, MakingLabel, EndLabel,
        Program, Cli, Shape, At, AfterCa, AfterSetup, launchd, Ordered, Early, CaExists
<1>2. CASE EnsureDirs(p) \/ LoadOrCreateCa(p)
  BY <1>2 DEF EnsureDirs, LoadOrCreateCa
<1>3. CASE SetupTestsCa(p) \/ LoadCa(p)
  <2>1. UNCHANGED <<dataDir, ca, trusted, resolver, plist, loaded, job>>
    BY <1>3 DEF SetupTestsCa, LoadCa, config
  <2>4. Ordered'
    BY <2>1
  <2>2. CASE SetupTestsCa(p)
    <3>1. proc[p].cmd \in {"start", "install"}
      BY <2>2 DEF SetupTestsCa
    <3>2. PICK l \in {"trust", "create"} : Goto(p, l)
      BY <2>2 DEF SetupTestsCa
    <3>3. l = "create" => dataDir
      BY <2>2 DEF SetupTestsCa
    <3> QED
      BY <2>1, <2>4, <3>1, <3>2, <3>3
  <2>3. CASE LoadCa(p)
    BY <2>1, <2>3, <2>4 DEF LoadCa
  <2> QED
    BY <1>3, <2>2, <2>3
<1>4. CASE SaveCrt(p) \/ OpenKey(p) \/ WriteKey(p)
  <2>1. CASE SaveCrt(p)
    BY <2>1 DEF SaveCrt
  <2>2. CASE OpenKey(p)
    BY <2>2 DEF OpenKey
  <2>3. CASE WriteKey(p)
    BY <2>3 DEF WriteKey
  <2> QED
    BY <1>4, <2>1, <2>2, <2>3
<1>5. CASE TrustCa(p) \/ WriteResolver(p)
  BY <1>5 DEF TrustCa, WriteResolver
<1> QED
  BY <1>2, <1>3, <1>4, <1>5 DEF SetupStep

\* The setup of start and install makes the directory with what rests on it; the
\* daemon makes a CA in the directory that was there.
LEMMA SetupStepKeeps ==
  ASSUME UninstallInv, TypeOK', NEW p \in Pid, SetupStep(p)
  PROVE  UninstallInv'
<1>1. PICK l \in LabelsOf(proc[p].cmd) \ {"load", "write"} :
        /\ Goto(p, l)
        /\ l \in MakingLabel => dataDir'
        /\ proc[p].cmd = "foreground" /\ l \in EarlyLabel => Early(p)
  BY SetupIs
<1>2. /\ proc'[p].cmd = proc[p].cmd /\ proc'[p].root = proc[p].root
      /\ proc'[p].plan = proc[p].plan /\ proc'[p].pc = l
      /\ \A q \in Pid \ {p} : Same(q)
  BY <1>1, GotoIs DEF UninstallInv
<1>3. CASE proc[p].cmd = "foreground"
  <2>1. Onward(p)
    BY <1>1, <1>2, <1>3, SetupIs DEF Onward, Early
  <2> QED
    BY <1>2, <1>3, <2>1, SetupIs, OnwardBut DEF launchd
<1>4. CASE proc[p].cmd # "foreground"
  <2>1. proc[p].cmd \in {"start", "install"} /\ Command(p) /\ Shape(p) /\ Ordered'
    BY <1>4, SetupIs DEF Command, Cli, UninstallInv
  <2>2. Shape(p)' /\ Undoing(p)'
    BY <1>1, <1>2, <2>1 DEF Shape, Undoing, Command, At
  <2>3. \A q \in Pid : proc[q].pc \in MakingLabel => dataDir'
    BY SetupIs DEF UninstallInv, Shape
  <2> QED
    BY <1>2, <2>1, <2>2, <2>3, CommandKeeps
<1> QED
  BY <1>3, <1>4

\* start: the daemon it starts is early, but no uninstall runs.
LEMMA DaemonizeKeeps ==
  ASSUME UninstallInv, TypeOK', NEW p \in Pid, Daemonize(p)
  PROVE  UninstallInv'
<1>1. proc[p].cmd = "start" /\ TypeOK /\ UNCHANGED <<config, launchd>>
  BY DEF Daemonize, UninstallInv, Shape, At, LabelsOf, CheckLabel, EarlyLabel, EndLabel,
         TypeOK, Process, Program, Cli
<1>2. CASE Goto(p, "bail")
  <2>1. Onward(p) /\ \A q \in Pid \ {p} : Same(q)
    BY <1>1, <1>2, GotoIs DEF Onward, LabelsOf
  <2> QED
    BY <1>1, <2>1, OnwardKeeps DEF launchd
<1>3. ASSUME NEW q \in Pid, Fresh(q),
             proc' = [proc EXCEPT ![p].pc = "done", ![q] = Begun("foreground", proc[p].root)]
      PROVE  UninstallInv'
  <2>1. p # q
    BY <1>1, <1>3 DEF Fresh, Alive
  <2>2. /\ proc'[p].cmd = "start" /\ proc'[p].root = proc[p].root /\ proc'[p].pc = "done"
        /\ proc'[q].cmd = "foreground" /\ proc'[q].pc = "exists"
        /\ \A r \in Pid \ {p, q} : Same(r)
    BY <1>1, <1>3, <2>1 DEF TypeOK, Process, Begun, Same
  <2>3. \A r \in Pid : proc[r].cmd # "uninstall"
    BY <1>1 DEF UninstallInv, Command, Cli
  <2>4. ASSUME NEW r \in Pid PROVE Shape(r)' /\ Undoing(r)'
    BY <1>1, <2>2, <2>3
       DEF UninstallInv, Shape, Undoing, Same, Command, At, LabelsOf, CheckLabel, EarlyLabel,
           Cli, config, launchd
  <2>5. ASSUME NEW a \in Pid, NEW b \in Pid, Command(a)', Command(b)' PROVE a = b
    BY <2>2, <2>5, <1>1 DEF UninstallInv, Command, Same, Cli
  <2> QED
    BY <1>1, <2>4, <2>5 DEF UninstallInv, Ordered, config, launchd
<1> QED
  BY <1>2, <1>3 DEF Daemonize

\* launchctl unload, as root: there is no job any more, and a daemon that was the
\* job and had not come up is gone.
LEMMA UnloadIs ==
  ASSUME UninstallInv, NEW p \in Pid, Command(p), NEW l, UnloadJob(p, l)
  PROVE  /\ ~loaded' /\ job' = NoPid
         /\ \A q \in Pid \ {p} : Same(q) \/ Gone(q)
         /\ \A q \in Pid : q = job => ~Early(q)'
         /\ \/ Gone(p)
            \/ /\ proc'[p].cmd = proc[p].cmd /\ proc'[p].root = proc[p].root
               /\ proc'[p].plan = proc[p].plan /\ proc'[p].pc = l
<1>1. TypeOK /\ Ordered /\ proc[p].root /\ proc[p].cmd \in Cli /\ loaded \in BOOLEAN
  BY DEF UninstallInv, Shape, Command, TypeOK
<1>2. CASE plist /\ loaded /\ job # NoPid
  <2>1. PICK t \in Pid : t = job
    BY <1>1, <1>2 DEF TypeOK
  <2>2. /\ ~loaded' /\ job' = NoPid
        /\ proc' = [proc EXCEPT ![p].pc = l, ![t] = Signalled(t)]
    BY <1>1, <1>2, <2>1 DEF UnloadJob
  <2>3. \A q \in Pid \ {p, t} : Same(q)
    BY <1>1, <2>2 DEF TypeOK, Same
  <2>4. proc'[t] = Signalled(t)
    BY <1>1, <2>2 DEF TypeOK
  <2>5. (Same(t) /\ Handles(t)) \/ (Gone(t) /\ ~Handles(t))
    BY <1>1, <2>4, SignalledIs
  <2>6. ~Early(t)'
    BY <2>5 DEF Early, Same, Gone, Handles, EarlyLabel, CheckLabel
  <2>7. CASE p = t
    BY <1>1, <2>1, <2>2, <2>3, <2>5, <2>6, <2>7 DEF Handles, Cli
  <2>8. CASE p # t
    <3>1. /\ proc'[p].cmd = proc[p].cmd /\ proc'[p].root = proc[p].root
          /\ proc'[p].plan = proc[p].plan /\ proc'[p].pc = l
      BY <1>1, <2>2, <2>8 DEF TypeOK, Process
    <3> QED
      BY <2>1, <2>2, <2>3, <2>5, <2>6, <3>1
  <2> QED
    BY <2>7, <2>8
<1>3. CASE ~(plist /\ loaded /\ job # NoPid)
  <2>1. /\ Goto(p, l) /\ loaded' = (loaded /\ ~(proc[p].root /\ plist)) /\ job' = job
    BY <1>3 DEF UnloadJob
  <2>2. ~loaded' /\ job = NoPid
    BY <1>1, <1>3, <2>1 DEF Ordered
  <2> QED
    BY <1>1, <2>1, <2>2, GotoIs, LifecycleAssumption
<1> QED
  BY <1>2, <1>3

\* install: the job it finds is unloaded, and loaded again when it has a plist.
LEMMA InstallKeeps ==
  ASSUME UninstallInv, TypeOK', NEW p \in Pid, InstallUnload(p) \/ WritePlist(p) \/ LoadJob(p)
  PROVE  UninstallInv'
<1>1. /\ TypeOK /\ Ordered /\ Shape(p) /\ proc[p].cmd = "install" /\ Command(p)
      /\ UNCHANGED config
  BY DEF UninstallInv, InstallUnload, WritePlist, LoadJob, Shape, At, LabelsOf, CheckLabel,
         EarlyLabel, EndLabel, TypeOK, Process, Program, Cli, Command
<1>2. CASE InstallUnload(p)
  <2>1. UnloadJob(p, "plist") /\ UNCHANGED plist
    BY <1>2 DEF InstallUnload
  <2>2. \A q \in Pid : Same(q) \/ Gone(q) \/ Onward(q)
    BY <1>1, <2>1, UnloadIs DEF Onward, LabelsOf, EarlyLabel, CheckLabel
  <2>3. ~loaded' /\ job' = NoPid /\ \A q \in Pid : q = job => ~Early(q)'
    BY <1>1, <2>1, UnloadIs
  <2> QED
    BY <1>1, <2>1, <2>2, <2>3, OnwardKeeps
<1>3. CASE WritePlist(p) \/ LoadJob(p)
  <2>1. PICK l \in {"load", "bail", "done"} : Goto(p, l) /\ (l = "load" => plist')
    BY <1>3 DEF WritePlist, LoadJob
  <2>2. /\ proc'[p].cmd = proc[p].cmd /\ proc'[p].root = proc[p].root /\ proc'[p].pc = l
        /\ \A q \in Pid \ {p} : Same(q)
    BY <1>1, <2>1, GotoIs
  <2>3. Ordered'
    BY <1>1, <1>3 DEF Ordered, WritePlist, LoadJob, Shape, config
  <2>4. Shape(p)' /\ Undoing(p)'
    BY <1>1, <2>1, <2>2 DEF Shape, Undoing, Command, At, LabelsOf
  <2>5. \A q \in Pid : proc[q].pc \in MakingLabel => dataDir'
    BY <1>1 DEF UninstallInv, Shape, config
  <2> QED
    BY <1>1, <2>2, <2>3, <2>4, <2>5, CommandKeeps
<1> QED
  BY <1>2, <1>3

\* uninstall plans to remove everything that is there.
LEMMA PlanKeeps ==
  ASSUME UninstallInv, TypeOK', NEW p \in Pid, Plan(p)
  PROVE  UninstallInv'
<1>1. /\ TypeOK /\ Ordered /\ Shape(p) /\ Undoing(p) /\ proc[p].cmd = "uninstall" /\ Command(p)
      /\ UNCHANGED <<config, launchd>> /\ At(p, "plan")
  BY DEF UninstallInv, Plan, Shape, At, LabelsOf, CheckLabel,
         EarlyLabel, EndLabel, TypeOK, Process, Program, Cli, Command
<1>2. /\ proc'[p].cmd = proc[p].cmd /\ proc'[p].root = proc[p].root
      /\ proc'[p].pc \in {"done", "unload"} /\ proc'[p].plan = DetectCleanup(p)
      /\ \A q \in Pid \ {p} : Same(q)
  BY <1>1 DEF Plan, TypeOK, Process, Same
<1>3. Ordered'
  BY <1>1 DEF Ordered, config, launchd
<1>4. Shape(p)'
  BY <1>1, <1>2 DEF Shape, Command, At, LabelsOf
<1>5. \A q \in Pid : Early(q)' => q = job'
  BY <1>1, <1>2 DEF Undoing, Early, Same, At, launchd, Looking
<1>6. Undoing(p)'
  BY <1>1, <1>2, <1>5
     DEF Undoing, DetectCleanup, CleanupStep, Ordered, config, launchd, Removing, EndLabel,
         Looking
<1>7. \A q \in Pid : proc[q].pc \in MakingLabel => dataDir'
  BY <1>1 DEF UninstallInv, Shape, config
<1> QED
  BY <1>1, <1>2, <1>3, <1>4, <1>6, <1>7, CommandKeeps

\* uninstall unloads the job, and with it every daemon that might still come up.
LEMMA UninstallUnloadKeeps ==
  ASSUME UninstallInv, TypeOK', NEW p \in Pid, UninstallUnload(p)
  PROVE  UninstallInv'
<1> DEFINE l == IF "StopProcess" \in proc[p].plan THEN "kill" ELSE "resolver"
<1>1. /\ TypeOK /\ Ordered /\ Shape(p) /\ Undoing(p) /\ proc[p].cmd = "uninstall" /\ Command(p)
      /\ UNCHANGED config /\ At(p, "unload") /\ proc[p].root
  BY DEF UninstallInv, UninstallUnload, Shape, Cli, Command
<1>2. /\ ~plist' /\ ~loaded' /\ job' = NoPid
      /\ \A q \in Pid \ {p} : Same(q) \/ Gone(q)
      /\ \A q \in Pid : ~Early(q)'
      /\ \/ Gone(p)
         \/ /\ proc'[p].cmd = proc[p].cmd /\ proc'[p].root = proc[p].root
            /\ proc'[p].plan = proc[p].plan /\ proc'[p].pc = l
  <2>1. CASE "UnloadLaunchd" \in proc[p].plan
    <3>1. UnloadJob(p, l) /\ ~plist'
      BY <1>1, <2>1 DEF UninstallUnload
    <3>2. \A q \in Pid \ {p} : Early(q)' => Early(q)
      BY <1>1, <3>1, UnloadIs DEF Same, Gone, Early
    <3>3. ~Early(p)'
      BY <1>1, <3>1, UnloadIs DEF Gone, Early
    <3> QED
      BY <1>1, <3>1, <3>2, <3>3, UnloadIs DEF Undoing, At
  <2>2. CASE "UnloadLaunchd" \notin proc[p].plan
    <3>1. Goto(p, l) /\ UNCHANGED launchd
      BY <2>2 DEF UninstallUnload
    <3>2. ~plist /\ ~loaded /\ job = NoPid
      BY <1>1, <2>2 DEF Undoing, Ordered, At
    <3>3. \A q \in Pid : ~Early(q)
      BY <1>1, <3>2, LifecycleAssumption DEF Undoing, At
    <3>4. /\ proc'[p].cmd = proc[p].cmd /\ proc'[p].root = proc[p].root
          /\ proc'[p].plan = proc[p].plan /\ proc'[p].pc = l /\ \A q \in Pid \ {p} : Same(q)
      BY <1>1, <3>1, GotoIs
    <3> QED
      BY <1>1, <3>1, <3>2, <3>3, <3>4 DEF launchd, Early, Same
  <2> QED
    BY <2>1, <2>2
<1>3. Ordered'
  BY <1>1, <1>2 DEF Ordered, config
<1>4. Shape(p)' /\ Undoing(p)'
  <2>1. CASE Gone(p)
    BY <2>1 DEF Gone, Shape, Undoing, LabelsOf, Command, Cli, At
  <2>2. CASE ~Gone(p)
    BY <1>1, <1>2, <2>2
       DEF Shape, Undoing, Command, At, LabelsOf, EndLabel, Removing, Looking, config
  <2> QED
    BY <2>1, <2>2
<1>5. \A q \in Pid : proc[q].pc \in MakingLabel => dataDir'
  BY <1>1 DEF UninstallInv, Shape, config
<1> QED
  BY <1>1, <1>2, <1>3, <1>4, <1>5, CommandKeeps DEF Gone

\* What is removed stays so: nobody who could set it up again is left.
LEMMA RemovalsKeep ==
  ASSUME UninstallInv, TypeOK', NEW p \in Pid,
         RemoveResolver(p) \/ RemoveCaCert(p) \/ RemoveDataDir(p)
  PROVE  UninstallInv'
<1>1. /\ TypeOK /\ Ordered /\ Shape(p) /\ Undoing(p) /\ proc[p].cmd = "uninstall" /\ Command(p)
      /\ UNCHANGED launchd /\ proc[p].pc \in Removing /\ proc[p].root
      /\ trusted \in BOOLEAN /\ resolver \in BOOLEAN /\ dataDir \in BOOLEAN
  BY DEF UninstallInv, RemoveResolver, RemoveCaCert, RemoveDataDir, Shape, At, LabelsOf,
         CheckLabel, EarlyLabel, EndLabel, TypeOK, Process, Program, Cli, Command, Removing
<1>2. ~plist /\ ~loaded /\ job = NoPid /\ \A q \in Pid : ~Early(q)
  BY <1>1, LifecycleAssumption DEF Undoing, Ordered
<1>3. PICK l \in {"untrust", "rmdata", "done"} :
        /\ Goto(p, l)
        /\ l = "untrust" => RemoveResolver(p)
        /\ l = "rmdata" => RemoveCaCert(p)
        /\ l = "done" => RemoveDataDir(p)
  BY DEF RemoveResolver, RemoveCaCert, RemoveDataDir
<1>4. /\ proc'[p].cmd = proc[p].cmd /\ proc'[p].root = proc[p].root
      /\ proc'[p].plan = proc[p].plan /\ proc'[p].pc = l /\ \A q \in Pid \ {p} : Same(q)
  BY <1>1, <1>3, GotoIs
<1>5. Ordered'
  BY <1>1, <1>2 DEF Ordered, launchd, Undoing, RemoveResolver, RemoveCaCert, RemoveDataDir, At
<1>6. Shape(p)'
  BY <1>1, <1>4 DEF Shape, Command, At, LabelsOf
<1>7. \A q \in Pid : ~Early(q)'
  BY <1>1, <1>2, <1>4 DEF Early, Same
<1>8. Undoing(p)'
  <2>1. CASE l = "untrust"
    BY <1>1, <1>2, <1>3, <1>4, <1>7, <2>1
       DEF Undoing, RemoveResolver, launchd, Removing, EndLabel, Looking
  <2>2. CASE l = "rmdata"
    BY <1>1, <1>2, <1>3, <1>4, <1>7, <2>2
       DEF Undoing, RemoveCaCert, Ordered, launchd, Removing, EndLabel, Looking, At
  <2>3. CASE l = "done"
    BY <1>4, <2>3 DEF Undoing, Removing, EndLabel, Looking
  <2> QED
    BY <2>1, <2>2, <2>3
<1>9. \A q \in Pid \ {p} : proc[q].pc \notin MakingLabel
  <2> SUFFICES ASSUME NEW q \in Pid \ {p}, proc[q].pc \in MakingLabel PROVE Early(q)
    BY <1>2
  <2>1. ~Command(q) /\ Shape(q)
    BY <1>1 DEF UninstallInv
  <2> QED
    BY <2>1 DEF Command, UninstallInv, Shape, LabelsOf, CheckLabel, EarlyLabel, EndLabel, Early,
       TypeOK,
           Process, Program, Cli
<1> QED
  BY <1>1, <1>4, <1>5, <1>6, <1>8, <1>9, CommandKeeps

(***************************************************************************)
(* The operator, launchd and the kernel.                                   *)
(***************************************************************************)

\* A PID is given to a new process.
LEMMA BornIs ==
  ASSUME TypeOK, NEW q \in Pid, NEW e, proc' = [proc EXCEPT ![q] = e]
  PROVE  proc'[q] = e /\ \A r \in Pid \ {q} : Same(r)
BY DEF TypeOK, Same

\* A command begins when nothing else is in progress.
LEMMA InvokeKeeps ==
  ASSUME Patient, FALSE \notin Sudo, UninstallInv, TypeOK', NEW q \in Pid, Invoke(q)
  PROVE  UninstallInv'
<1>1. /\ TypeOK /\ UNCHANGED <<config, launchd>> /\ ~Alive(q)
      /\ \A r \in Pid : Alive(r) => proc[r].cmd = "other" \/ At(r, "serve")
  BY DEF UninstallInv, Invoke, MayInvoke, Quiet, Settled, Fresh
<1>2. PICK c \in Cli \cup {"foreground"} : proc' = [proc EXCEPT ![q] = Begun(c, TRUE)]
  <2>1. PICK c \in Commands, r \in Sudo : proc' = [proc EXCEPT ![q] = Begun(c, r)]
    BY DEF Invoke
  <2>2. c \in Cli \cup {"foreground"} /\ r = TRUE
    BY LifecycleAssumption
  <2> QED
    BY <2>1, <2>2
<1>3. /\ proc'[q].cmd = c /\ proc'[q].root = TRUE /\ proc'[q].pc \in {"setup", "exists"}
      /\ (proc'[q].pc = "setup" <=> c = "install") /\ \A r \in Pid \ {q} : Same(r)
  <2>1. proc'[q] = Begun(c, TRUE) /\ \A r \in Pid \ {q} : Same(r)
    BY <1>1, <1>2, BornIs
  <2> QED
    BY <2>1 DEF Begun
<1>4. \A r \in Pid \ {q} : ~Command(r) /\ ~Early(r)
  BY <1>1
     DEF UninstallInv, Shape, LabelsOf, Command, Early, EndLabel, EarlyLabel, CheckLabel, At,
         Alive, Cli
<1>5. Ordered'
  BY <1>1 DEF UninstallInv, Ordered, config, launchd
<1>6. ASSUME NEW a \in Pid, NEW b \in Pid, Command(a)', Command(b)' PROVE a = b
  BY <1>3, <1>4, <1>6 DEF Command, Same
<1>7. ASSUME NEW r \in Pid PROVE Shape(r)' /\ Undoing(r)'
  <2>1. CASE r = q
    <3>1. Shape(q)'
      BY <1>3 DEF Shape, LabelsOf, CheckLabel, EarlyLabel, Command, At, Cli
    <3>2. c = "uninstall" => \A s \in Pid : ~Early(s)'
      BY <1>3, <1>4 DEF Early, Same
    <3> QED
      BY <1>3, <2>1, <3>1, <3>2 DEF Undoing, Removing, EndLabel
  <2>2. CASE r # q
    BY <1>1, <1>3, <1>4, <2>2
       DEF UninstallInv, Shape, Undoing, Same, Command, At, Cli, config, launchd
  <2> QED
    BY <2>1, <2>2
<1> QED
  BY <1>5, <1>6, <1>7 DEF UninstallInv

\* launchd starts the daemon again: it is the job.
LEMMA LaunchdSpawnKeeps ==
  ASSUME UninstallInv, TypeOK', NEW q \in Pid, LaunchdSpawn(q)
  PROVE  UninstallInv'
<1>1. /\ TypeOK /\ UNCHANGED <<config, plist, loaded>> /\ ~Alive(q) /\ loaded /\ job = NoPid
      /\ job' = q
  BY DEF UninstallInv, LaunchdSpawn, Fresh
<1>2. /\ proc'[q].cmd = "foreground" /\ proc'[q].pc = "exists" /\ \A r \in Pid \ {q} : Same(r)
  <2>1. proc'[q] = Begun("foreground", TRUE) /\ \A r \in Pid \ {q} : Same(r)
    BY <1>1, BornIs DEF LaunchdSpawn
  <2> QED
    BY <2>1 DEF Begun
<1>3. Ordered'
  BY <1>1 DEF UninstallInv, Ordered, config
<1>4. ASSUME NEW a \in Pid, NEW b \in Pid, Command(a)', Command(b)' PROVE a = b
  BY <1>2, <1>4 DEF UninstallInv, Command, Same, Cli
<1>5. ASSUME NEW r \in Pid PROVE Shape(r)'
  BY <1>1, <1>2, <1>5
     DEF UninstallInv, Shape, Same, LabelsOf, CheckLabel, EarlyLabel, Command, At, Cli, config
<1>6. ASSUME NEW r \in Pid PROVE Undoing(r)'
  <2>1. CASE r = q
    BY <1>2, <2>1 DEF Undoing
  <2>2. CASE r # q
    <3>1. Undoing(r) /\ Same(r)
      BY <1>2, <2>2 DEF UninstallInv
    <3>2. ASSUME proc[r].cmd = "uninstall",
                 proc[r].pc \in Looking \cup {"unload"} \cup Removing,
                 NEW s \in Pid, Early(s)'
          PROVE  s = q
      BY <1>1, <1>2, <3>1, <3>2, LifecycleAssumption DEF Undoing, Early, Same
    <3> QED
      BY <1>1, <3>1, <3>2 DEF Undoing, Same, config
  <2> QED
    BY <2>1, <2>2
<1> QED
  BY <1>3, <1>4, <1>5, <1>6 DEF UninstallInv

\* Some other program is of no interest, and a boot leaves the files.
LEMMA OthersKeep ==
  ASSUME UninstallInv, TypeOK', Reboot \/ \E q \in Pid : OtherProgram(q)
  PROVE  UninstallInv'
<1>1. CASE Reboot
  <2>1. \A q \in Pid : Gone(q)
    BY <1>1 DEF Reboot, Gone, Free
  <2>2. Ordered'
    BY <1>1 DEF Reboot, UninstallInv, Ordered, config
  <2>3. ASSUME NEW q \in Pid PROVE Shape(q)' /\ Undoing(q)' /\ ~Command(q)'
    BY <2>1 DEF Gone, Shape, Undoing, LabelsOf, Command, At, Cli
  <2> QED
    BY <2>2, <2>3 DEF UninstallInv
<1>2. ASSUME NEW q \in Pid, OtherProgram(q) PROVE UninstallInv'
  <2>1. /\ TypeOK /\ UNCHANGED <<config, launchd>> /\ ~Alive(q)
    BY <1>2 DEF UninstallInv, OtherProgram, Fresh
  <2>2. /\ proc'[q].cmd = "other" /\ proc'[q].pc = "none" /\ \A r \in Pid \ {q} : Same(r)
    <3>1. proc'[q] = [Free EXCEPT !.cmd = "other", !.root = TRUE]
          /\ \A r \in Pid \ {q} : Same(r)
      BY <1>2, <2>1, BornIs DEF OtherProgram
    <3> QED
      BY <3>1 DEF Free
  <2>3. Ordered'
    BY <2>1 DEF UninstallInv, Ordered, config, launchd
  <2>4. ASSUME NEW a \in Pid, NEW b \in Pid, Command(a)', Command(b)' PROVE a = b
    BY <2>2, <2>4 DEF UninstallInv, Command, Same, Cli
  <2>5. ASSUME NEW r \in Pid PROVE Shape(r)'
    BY <2>1, <2>2, <2>5
       DEF UninstallInv, Shape, Same, LabelsOf, Command, At, Cli, config, launchd
  <2>6. ASSUME NEW r \in Pid PROVE Undoing(r)'
    <3>1. \A s \in Pid : Early(s)' => Early(s)
      BY <2>2 DEF Early, Same
    <3> QED
      BY <2>1, <2>2, <2>6, <3>1 DEF UninstallInv, Undoing, Same, config, launchd
  <2> QED
    BY <2>3, <2>4, <2>5, <2>6 DEF UninstallInv
<1> QED
  BY <1>1, <1>2

\* One step per action.
LEMMA UninstallNext ==
  ASSUME OneAtATimeAsRoot, UninstallInv, [Next]_vars
  PROVE  UninstallInv'
<1>1. TypeOK'
  BY NextTyped DEF UninstallInv
<1>2. ASSUME UNCHANGED <<proc, config, launchd>> PROVE UninstallInv'
  <2>1. \A q \in Pid : Same(q)
    BY <1>2 DEF Same
  <2> QED
    BY <1>1, <1>2, <2>1, OnwardKeeps DEF launchd
<1>3. ASSUME NEW p \in Pid, Step(p) PROVE UninstallInv'
  <2>1. ASSUME NEW s \in Server, Bind(p, s) PROVE UninstallInv'
    BY <1>2, <2>1 DEF Bind
  <2>2. CASE Exit(p)
    BY <1>1, <2>2, DeathsKeep
  <2> QED
    BY <1>1, <1>3, <2>1, <2>2, LabelStepsKeep, KillKeeps, SetupStepKeeps, DaemonizeKeeps,
        InstallKeeps, PlanKeeps, UninstallUnloadKeeps, RemovalsKeep DEF Step
<1>4. CASE UNCHANGED vars
  BY <1>2, <1>4 DEF vars
<1> QED
  BY <1>1, <1>3, <1>4, DeathsKeep, InvokeKeeps, LaunchdSpawnKeeps, OthersKeep
     DEF Next, OneAtATimeAsRoot

\* At first there is nothing, and nobody.
LEMMA UninstallInit == Init => UninstallInv
<1> SUFFICES ASSUME Init PROVE UninstallInv
  OBVIOUS
<1>1. TypeOK /\ Ordered
  BY InitTyped, LifecycleAssumption DEF Init, Ordered
<1>2. \A p \in Pid : proc[p].cmd = "free" /\ proc[p].pc = "none"
  BY DEF Init, Free
<1>3. ASSUME NEW p \in Pid PROVE ~Command(p) /\ Shape(p) /\ Undoing(p)
  BY <1>2 DEF Command, Shape, Undoing, LabelsOf, At, Cli
<1> QED
  BY <1>1, <1>3 DEF UninstallInv

\* The last step of uninstall is taken by uninstall only.
LEMMA LastStep ==
  ASSUME UninstallInv, Next, NEW p \in Pid, At(p, "rmdata"), proc'[p].pc = "done"
  PROVE  RemoveDataDir(p)
<1>1. TypeOK /\ proc[p].pc = "rmdata" /\ ~(Same(p) \/ Gone(p)) /\ proc'[p] # proc[p]
      /\ proc[p].cmd = "uninstall"
  BY DEF At, Same, Gone, UninstallInv, Shape, LabelsOf, CheckLabel, EarlyLabel, EndLabel,
         TypeOK, Process, Program, Cli
<1>2. ASSUME NEW t \in Pid, proc'[p] = Signalled(t), t = p PROVE FALSE
  BY <1>1, <1>2, SignalledIs
<1>3. ASSUME NEW q \in Pid, Step(q), q # p PROVE FALSE
  <2>1. ASSUME NEW l, Goto(q, l) PROVE FALSE
    BY <1>1, <1>3, <2>1, GotoIs
  <2>2. ~Kill(q)
    BY <1>1, <1>2, <1>3, <2>1 DEF Kill, TypeOK, Running
  <2>3. ASSUME NEW l, UnloadJob(q, l) PROVE FALSE
    BY <1>1, <1>2, <1>3, <2>1, <2>3 DEF UnloadJob, TypeOK
  <2>4. ~InstallUnload(q) /\ ~UninstallUnload(q)
    BY <2>1, <2>3 DEF InstallUnload, UninstallUnload
  <2>5. ~ReadPidContents(q) /\ ~IsRunning(q) /\ ~Exit(q) /\ ~Plan(q)
    BY <1>1, <1>3, <2>1 DEF ReadPidContents, IsRunning, Exit, Plan, TypeOK, Free
  <2>6. ~Daemonize(q)
    BY <1>1, <1>3, <2>1 DEF Daemonize, TypeOK, Fresh, Alive
  <2>7. ~ReadPidExists(q) /\ ~RemoveStale(q) /\ ~RemoveOwn(q)
        /\ ~OpenPidFile(q) /\ ~WritePidFile(q) /\ ~PollSelect(q)
    BY <2>1 DEF ReadPidExists, RemoveStale, RemoveOwn, RemovePidTest, RemovePidUnlink,
       OpenPidFile, WritePidFile, PollSelect
  <2>10. ~SetupStep(q)
    BY <2>1 DEF SetupStep, EnsureDirs, SetupTestsCa, LoadOrCreateCa, LoadCa, SaveCrt, OpenKey,
       WriteKey, TrustCa, WriteResolver
  <2>8. ~SelectFailed(q) /\ ~SelectShutdown(q) /\ ~WaitForExit(q) /\ ~WritePlist(q)
        /\ ~LoadJob(q) /\ ~RemoveResolver(q) /\ ~RemoveCaCert(q) /\ ~RemoveDataDir(q)
    BY <2>1 DEF SelectFailed, SelectShutdown, WaitForExit, WritePlist, LoadJob,
       RemoveResolver, RemoveCaCert, RemoveDataDir
  <2>9. \A s \in Server : ~Bind(q, s)
    BY <1>1 DEF Bind
  <2> QED
    BY <1>3, <2>2, <2>4, <2>5, <2>6, <2>7, <2>8, <2>9, <2>10 DEF Step
<1>4. CASE Step(p)
  BY <1>1, <1>4
     DEF Step, At, ReadPidExists, ReadPidContents, IsRunning, RemoveStale, RemoveOwn,
         RemovePidTest, RemovePidUnlink, Exit, SetupStep, EnsureDirs, SetupTestsCa,
         LoadOrCreateCa, LoadCa, SaveCrt, OpenKey, WriteKey, TrustCa, WriteResolver, AfterCa,
         AfterSetup, Daemonize, OpenPidFile,
         WritePidFile, PollSelect, Bind, TasksRun, SelectFailed, SelectShutdown, Kill,
         WaitForExit, InstallUnload, WritePlist, LoadJob, Plan, UninstallUnload,
         RemoveResolver, RemoveCaCert
<1>5. ASSUME NEW q \in Pid, Invoke(q) \/ LaunchdSpawn(q) \/ OtherProgram(q) PROVE FALSE
  <2>1. q # p
    BY <1>1, <1>5 DEF Invoke, LaunchdSpawn, OtherProgram, Fresh, Alive
  <2> QED
    BY <1>1, <1>5, <2>1 DEF Invoke, LaunchdSpawn, OtherProgram, TypeOK
<1>6. ASSUME NEW q \in Pid, Crash(q) \/ OtherExits(q) \/ Interrupt(q) PROVE FALSE
  BY <1>1, <1>2, <1>6 DEF Crash, OtherExits, Interrupt, TypeOK, Free
<1>7. ~Reboot
  BY DEF Reboot, Free
<1> QED
  BY <1>3, <1>4, <1>5, <1>6, <1>7 DEF Next

\* UninstallCleans: an uninstall that comes to its end leaves nothing behind, not the
\* job, not the trusted certificate, not the resolver file and not the data directory,
\* whatever launchd starts and whatever crashes meanwhile.
THEOREM UninstallLeavesNothing == OneAtATimeAsRoot => (Spec => UninstallCleans)
<1> DEFINE A == \A p \in Pid : At(p, "rmdata") /\ proc'[p].pc = "done" /\ proc[p].root
                                 => ~(dataDir \/ trusted \/ resolver \/ plist \/ loaded)'
<1> SUFFICES ASSUME OneAtATimeAsRoot PROVE Spec => UninstallCleans
  OBVIOUS
<1>1. UninstallInv /\ [Next]_vars => UninstallInv'
  BY UninstallNext
<1>2. UninstallInv /\ [Next]_vars => [A]_vars
  <2> SUFFICES ASSUME UninstallInv, Next, NEW p \in Pid,
                      At(p, "rmdata"), proc'[p].pc = "done"
               PROVE  ~(dataDir \/ trusted \/ resolver \/ plist \/ loaded)'
    OBVIOUS
  <2>1. RemoveDataDir(p) /\ Undoing(p) /\ Ordered /\ proc[p].cmd = "uninstall"
    BY LastStep
       DEF UninstallInv, Shape, LabelsOf, CheckLabel, EarlyLabel, EndLabel, At, TypeOK, Process,
           Program, Cli
  <2> QED
    BY <2>1 DEF RemoveDataDir, Undoing, Ordered, Removing, At, launchd
<1> QED
  BY <1>1, <1>2, UninstallInit, PTL DEF Spec, UninstallCleans

=============================================================================
