-------------------------- MODULE LifecycleProofs --------------------------
(***************************************************************************)
(* Theorems about Lifecycle, for every set of PIDs, every choice of        *)
(* commands and privileges, any number of concurrent commands and faults.  *)
(***************************************************************************)
EXTENDS Lifecycle, TLAPS

(***************************************************************************)
(* Lemmas about the operators the actions are built from.                  *)
(***************************************************************************)

\* The process table entries that the actions create are well formed.
LEMMA NewProcessesTyped ==
  /\ Free \in Process /\ Idle \in [Server -> {"idle", "up", "failed"}]
  /\ \A c \in Cli \cup {"foreground"}, r \in BOOLEAN : Begun(c, r) \in Process
  /\ [Free EXCEPT !.cmd = "other", !.root = TRUE] \in Process
BY DEF Free, Idle, Begun, Process, Program, Cli, Label, Server, CleanupStep

\* Moving a process to another label keeps the table well formed.
LEMMA GotoTyped ==
  ASSUME proc \in [Pid -> Process], NEW p \in Pid, NEW l \in Label, Goto(p, l)
  PROVE  proc' \in [Pid -> Process]
BY DEF Goto, Process

\* So does remembering a PID on the way ...
LEMMA SeenTyped ==
  ASSUME proc \in [Pid -> Process], NEW p \in Pid, NEW l \in Label,
         NEW t \in Pid \cup {NoPid},
         proc' = [proc EXCEPT ![p].seen = t, ![p].pc = l]
  PROVE  proc' \in [Pid -> Process]
BY DEF Process

\* ... or replacing the entry of a second process.
LEMMA SecondTyped ==
  ASSUME proc \in [Pid -> Process], NEW p \in Pid, NEW l \in Label,
         NEW t \in Pid, NEW e \in Process,
         proc' = [proc EXCEPT ![p].pc = l, ![t] = e]
  PROVE  proc' \in [Pid -> Process]
BY DEF Process

\* SIGTERM leaves a well-formed entry.
LEMMA SignalledTyped ==
  ASSUME proc \in [Pid -> Process], NEW t \in Pid
  PROVE  Signalled(t) \in Process
BY NewProcessesTyped DEF Signalled, Process

\* Whatever processes end, sockets and descriptors stay well formed.
LEMMA ReapTyped ==
  ASSUME srv \in [Pid -> [Server -> {"idle", "up", "failed"}]], fds \subseteq Pid,
         NEW D, Reap(D)
  PROVE  /\ srv' \in [Pid -> [Server -> {"idle", "up", "failed"}]]
         /\ fds' \subseteq Pid
BY NewProcessesTyped DEF Reap

\* The commands agree on labels that exist.
LEMMA LabelsTyped ==
  \A c : /\ WhenNoFile(c) \in Label /\ WhenRunning(c) \in Label
         /\ WhenDead(c) \in Label /\ AfterStale(c) \in Label
         /\ AfterRemove(c) \in Label /\ WhenVanished(c) \in Label
BY DEF WhenNoFile, WhenRunning, WhenDead, AfterStale, AfterRemove,
       WhenVanished, Label

\* Those of the setup, too.
LEMMA SetupLabelsTyped ==
  \A c : AfterCa(c) \in Label /\ AfterSetup(c) \in Label
BY DEF AfterCa, AfterSetup, Label

(***************************************************************************)
(* Type correctness.                                                       *)
(***************************************************************************)

\* The two steps of remove_pid keep the types.
LEMMA RemovePidTestTyped ==
  ASSUME TypeOK, NEW p \in Pid, NEW test, NEW unlink \in Label,
         NEW next \in Label, RemovePidTest(p, test, unlink, next)
  PROVE  TypeOK'
<1>1. proc' \in [Pid -> Process]
  BY GotoTyped DEF TypeOK, RemovePidTest
<1> QED
  BY <1>1 DEF TypeOK, RemovePidTest, config, launchd

\* The same for the second half of remove_pid, the unlink.
LEMMA RemovePidUnlinkTyped ==
  ASSUME TypeOK, NEW p \in Pid, NEW unlink, NEW next \in Label,
         NEW vanished \in Label, RemovePidUnlink(p, unlink, next, vanished)
  PROVE  TypeOK'
<1>1. proc' \in [Pid -> Process]
  BY GotoTyped DEF TypeOK, RemovePidUnlink
<1> QED
  BY <1>1 DEF TypeOK, RemovePidUnlink, config, launchd

\* A step of launchctl unload keeps the types.
LEMMA UnloadTyped ==
  ASSUME TypeOK, NEW p \in Pid, NEW l \in Label, UnloadJob(p, l)
  PROVE  /\ proc' \in [Pid -> Process]
         /\ srv' \in [Pid -> [Server -> {"idle", "up", "failed"}]]
         /\ fds' \subseteq Pid
         /\ loaded' \in BOOLEAN /\ job' \in Pid \cup {NoPid}
<1>1. CASE proc[p].root /\ plist /\ loaded /\ job # NoPid
  <2>1. job \in Pid /\ Signalled(job) \in Process
    BY <1>1, SignalledTyped DEF TypeOK
  <2>2. proc' \in [Pid -> Process]
    BY <1>1, <2>1, SecondTyped DEF TypeOK, UnloadJob
  <2> QED
    BY <1>1, <2>2, ReapTyped DEF TypeOK, UnloadJob
<1>2. CASE ~(proc[p].root /\ plist /\ loaded /\ job # NoPid)
  <2>1. proc' \in [Pid -> Process]
    BY <1>2, GotoTyped DEF TypeOK, UnloadJob
  <2> QED
    BY <1>2, <2>1 DEF TypeOK, UnloadJob
<1> QED
  BY <1>1, <1>2

\* The steps of the setup move p on and touch files, trust and the resolver.
LEMMA SetupStepTyped ==
  ASSUME TypeOK, NEW p \in Pid, SetupStep(p)
  PROVE  TypeOK'
<1> DEFINE l == proc'[p].pc
<1>1. /\ proc' = [proc EXCEPT ![p].pc = l]
      /\ l \in {"ca", "trust", "create", "load_ca", "crt", "key", "write_key", "bail",
                "resolver_file", AfterCa(proc[p].cmd), AfterSetup(proc[p].cmd)}
  BY DEF TypeOK, Process, Goto, SetupStep, EnsureDirs, SetupTestsCa, LoadOrCreateCa, LoadCa,
     SaveCrt, OpenKey, WriteKey, TrustCa, WriteResolver
<1>2. l \in Label
  BY <1>1, SetupLabelsTyped DEF Label
<1> HIDE DEF l
<1>3. proc' \in [Pid -> Process]
  BY <1>1, <1>2, GotoTyped DEF TypeOK, Goto
<1>4. fds' \subseteq Pid /\ ca' \in {"none", "crt", "empty", "ok"} /\ dataDir' \in BOOLEAN
  BY DEF TypeOK, config, SetupStep, EnsureDirs, SetupTestsCa, LoadOrCreateCa, LoadCa,
     SaveCrt, OpenKey, WriteKey, TrustCa, WriteResolver
<1>5. /\ trusted' \in BOOLEAN /\ resolver' \in BOOLEAN
      /\ UNCHANGED <<srv, pidFile, launchd, faults>>
  BY DEF TypeOK, config, SetupStep, EnsureDirs, SetupTestsCa, LoadOrCreateCa, LoadCa,
     SaveCrt, OpenKey, WriteKey, TrustCa, WriteResolver
<1> QED
  BY <1>3, <1>4, <1>5 DEF TypeOK, launchd

\* A step of one process keeps the types.
LEMMA StepTyped ==
  ASSUME TypeOK, NEW p \in Pid, Step(p)
  PROVE  TypeOK'
<1>1. CASE ReadPidExists(p)
  <2>1. proc' \in [Pid -> Process]
    BY <1>1, GotoTyped, LabelsTyped DEF TypeOK, ReadPidExists, Label
  <2> QED
    BY <1>1, <2>1 DEF TypeOK, ReadPidExists, config, launchd
<1>2. CASE ReadPidContents(p)
  <2>1. CASE pidFile \in Pid
    BY <1>2, <2>1, SeenTyped DEF TypeOK, ReadPidContents, Label, config, launchd
  <2>2. CASE pidFile \notin Pid
    BY <1>2, <2>2, GotoTyped DEF TypeOK, ReadPidContents, Label, config, launchd
  <2> QED
    BY <2>1, <2>2
<1>3. CASE IsRunning(p)
  <2> DEFINE l == IF Running(p, proc[p].seen) THEN WhenRunning(proc[p].cmd)
                 ELSE WhenDead(proc[p].cmd)
             t == IF /\ Running(p, proc[p].seen)
                     /\ proc[p].cmd \in {"stop", "install", "uninstall"}
                  THEN proc[p].seen ELSE NoPid
  <2>1. l \in Label /\ t \in Pid \cup {NoPid}
    BY LabelsTyped DEF Running
  <2>2. proc' = [proc EXCEPT ![p].seen = t, ![p].pc = l]
    BY <1>3 DEF IsRunning, TypeOK, Process
  <2> HIDE DEF l, t
  <2>3. proc' \in [Pid -> Process]
    BY <2>1, <2>2, SeenTyped DEF TypeOK
  <2> QED
    BY <1>3, <2>3 DEF TypeOK, IsRunning, config, launchd
<1>4. CASE RemoveStale(p)
  <2>1. AfterStale(proc[p].cmd) \in Label /\ "bail" \in Label /\ "stale_rm" \in Label
    BY LabelsTyped DEF Label
  <2>2. CASE RemovePidTest(p, "stale_exists", "stale_rm", AfterStale(proc[p].cmd))
    BY <2>1, <2>2, RemovePidTestTyped
  <2>3. CASE RemovePidUnlink(p, "stale_rm", AfterStale(proc[p].cmd), "bail")
    BY <2>1, <2>3, RemovePidUnlinkTyped
  <2> QED
    BY <1>4, <2>2, <2>3 DEF RemoveStale
<1>5. CASE RemoveOwn(p)
  <2>1. AfterRemove(proc[p].cmd) \in Label /\ WhenVanished(proc[p].cmd) \in Label /\ "rm" \in Label
    BY LabelsTyped DEF Label
  <2>2. CASE RemovePidTest(p, "rm_exists", "rm", AfterRemove(proc[p].cmd))
    BY <2>1, <2>2, RemovePidTestTyped
  <2>3. CASE RemovePidUnlink(p, "rm", AfterRemove(proc[p].cmd), WhenVanished(proc[p].cmd))
    BY <2>1, <2>3, RemovePidUnlinkTyped
  <2> QED
    BY <1>5, <2>2, <2>3 DEF RemoveOwn
<1>6. CASE Exit(p)
  BY <1>6, NewProcessesTyped, ReapTyped DEF TypeOK, Exit, JobAfter, config
<1>7. CASE SetupStep(p)
  BY <1>7, SetupStepTyped
<1>8. CASE Daemonize(p)
  <2>1. CASE Goto(p, "bail")
    BY <1>8, <2>1, GotoTyped DEF TypeOK, Daemonize, Label, config, launchd
  <2>2. ASSUME NEW q \in Pid,
               proc' = [proc EXCEPT ![p].pc = "done",
                                    ![q] = Begun("foreground", proc[p].root)]
        PROVE  TypeOK'
    <3>1. Begun("foreground", proc[p].root) \in Process
      BY NewProcessesTyped DEF TypeOK, Process
    <3> QED
      BY <1>8, <2>2, <3>1, SecondTyped DEF TypeOK, Daemonize, Label, config, launchd
  <2> QED
    BY <1>8, <2>1, <2>2 DEF Daemonize
<1>9. CASE OpenPidFile(p)
  <2>1. proc' \in [Pid -> Process]
    BY <1>9, GotoTyped DEF TypeOK, OpenPidFile, Label
  <2> QED
    BY <1>9, <2>1 DEF TypeOK, OpenPidFile, config, launchd
<1>10. CASE WritePidFile(p)
  <2>1. proc' \in [Pid -> Process]
    BY <1>10, GotoTyped DEF TypeOK, WritePidFile, Label
  <2> QED
    BY <1>10, <2>1 DEF TypeOK, WritePidFile, config, launchd
<1>12. CASE PollSelect(p)
  <2>1. proc' \in [Pid -> Process]
    BY <1>12, GotoTyped DEF TypeOK, PollSelect, Label
  <2> QED
    BY <1>12, <2>1 DEF TypeOK, PollSelect, config, launchd
<1>13. ASSUME NEW s \in Server, Bind(p, s)
      PROVE  TypeOK'
  <2>1. BindResults(p, s) \subseteq {"up", "failed"}
    BY DEF BindResults
  <2> QED
    BY <1>13, <2>1 DEF TypeOK, Bind, config, launchd
<1>14. CASE SelectFailed(p)
  <2>1. proc' \in [Pid -> Process]
    BY <1>14, GotoTyped DEF TypeOK, SelectFailed, Label
  <2> QED
    BY <1>14, <2>1 DEF TypeOK, SelectFailed, config, launchd
<1>15. CASE SelectShutdown(p)
  <2>1. proc' \in [Pid -> Process]
    BY <1>15, GotoTyped DEF TypeOK, SelectShutdown, Label
  <2> QED
    BY <1>15, <2>1 DEF TypeOK, SelectShutdown, config, launchd
<1>16. CASE Kill(p)
  <2>1. CASE Running(p, proc[p].seen)
    <3>1. proc[p].seen \in Pid /\ Signalled(proc[p].seen) \in Process
      BY <2>1, SignalledTyped DEF TypeOK, Running
    <3>2. proc' \in [Pid -> Process]
      BY <1>16, <2>1, <3>1, SecondTyped DEF TypeOK, Kill, Label
    <3> QED
      BY <1>16, <2>1, <3>2, ReapTyped DEF TypeOK, Kill, JobAfter, config
  <2>2. CASE ~Running(p, proc[p].seen)
    <3>1. proc' \in [Pid -> Process]
      BY <1>16, <2>2, GotoTyped DEF TypeOK, Kill, Label
    <3> QED
      BY <1>16, <2>2, <3>1 DEF TypeOK, Kill, config
  <2> QED
    BY <2>1, <2>2
<1>17. CASE WaitForExit(p)
  <2>1. proc' \in [Pid -> Process]
    BY <1>17, GotoTyped DEF TypeOK, WaitForExit, Label
  <2> QED
    BY <1>17, <2>1 DEF TypeOK, WaitForExit, config, launchd
<1>18. CASE InstallUnload(p)
  BY <1>18, UnloadTyped DEF TypeOK, InstallUnload, Label, config
<1>19. CASE WritePlist(p)
  <2>1. proc' \in [Pid -> Process]
    BY <1>19, GotoTyped DEF TypeOK, WritePlist, Label
  <2> QED
    BY <1>19, <2>1 DEF TypeOK, WritePlist, config, launchd
<1>20. CASE LoadJob(p)
  <2>1. proc' \in [Pid -> Process]
    BY <1>20, GotoTyped DEF TypeOK, LoadJob, Label
  <2>2. faults' \in 0..MaxFaults
    BY <1>20, LifecycleAssumption DEF TypeOK, LoadJob
  <2>3. loaded' \in BOOLEAN
    BY <1>20 DEF TypeOK, LoadJob
  <2> QED
    BY <1>20, <2>1, <2>2, <2>3 DEF TypeOK, LoadJob, config
<1>21. CASE Plan(p)
  <2>1. DetectCleanup(p) \subseteq CleanupStep
    BY DEF DetectCleanup
  <2>2. \A l \in Label : [proc EXCEPT ![p].plan = DetectCleanup(p),
                                   ![p].pc = l] \in [Pid -> Process]
    BY <2>1 DEF TypeOK, Process
  <2>3. proc' \in [Pid -> Process]
    BY <1>21, <2>2 DEF Plan, Label
  <2> QED
    BY <1>21, <2>3 DEF TypeOK, Plan, config, launchd
<1>22. CASE UninstallUnload(p)
  <2>1. CASE "UnloadLaunchd" \in proc[p].plan
    BY <1>22, <2>1, UnloadTyped DEF TypeOK, UninstallUnload, Label, config
  <2>2. CASE "UnloadLaunchd" \notin proc[p].plan
    <3>1. proc' \in [Pid -> Process]
      BY <1>22, <2>2, GotoTyped DEF TypeOK, UninstallUnload, Label
    <3> QED
      BY <1>22, <2>2, <3>1 DEF TypeOK, UninstallUnload, config, launchd
  <2> QED
    BY <2>1, <2>2
<1>23. CASE RemoveResolver(p)
  <2>1. proc' \in [Pid -> Process]
    BY <1>23, GotoTyped DEF TypeOK, RemoveResolver, Label
  <2> QED
    BY <1>23, <2>1 DEF TypeOK, RemoveResolver, config, launchd
<1>24. CASE RemoveCaCert(p)
  <2>1. proc' \in [Pid -> Process]
    BY <1>24, GotoTyped DEF TypeOK, RemoveCaCert, Label
  <2> QED
    BY <1>24, <2>1 DEF TypeOK, RemoveCaCert, config, launchd
<1>25. CASE RemoveDataDir(p)
  <2>1. proc' \in [Pid -> Process]
    BY <1>25, GotoTyped DEF TypeOK, RemoveDataDir, Label
  <2> QED
    BY <1>25, <2>1 DEF TypeOK, RemoveDataDir, config, launchd
<1> QED
  BY <1>1, <1>2, <1>3, <1>4, <1>5, <1>6, <1>7, <1>8, <1>9, <1>10,
     <1>12, <1>13, <1>14, <1>15, <1>16, <1>17, <1>18, <1>19, <1>20, <1>21,
     <1>22, <1>23, <1>24, <1>25 DEF Step

\* So does every step of the system.
LEMMA NextTyped == TypeOK /\ [Next]_vars => TypeOK'
<1> SUFFICES ASSUME TypeOK, [Next]_vars PROVE TypeOK'
  OBVIOUS
<1> USE LifecycleAssumption
<1>1. CASE UNCHANGED vars
  BY <1>1 DEF TypeOK, vars, config, launchd
<1>2. CASE Reboot
  BY <1>2, NewProcessesTyped, ReapTyped DEF TypeOK, Reboot, config
<1>3. ASSUME NEW p \in Pid, Step(p) PROVE TypeOK'
  BY <1>3, StepTyped
<1>4. ASSUME NEW p \in Pid, Invoke(p) PROVE TypeOK'
  BY <1>4, NewProcessesTyped DEF TypeOK, Invoke, config, launchd
<1>5. ASSUME NEW p \in Pid, Crash(p) PROVE TypeOK'
  BY <1>5, NewProcessesTyped, ReapTyped DEF TypeOK, Crash, JobAfter, config
<1>6. ASSUME NEW p \in Pid, LaunchdSpawn(p) PROVE TypeOK'
  BY <1>6, NewProcessesTyped DEF TypeOK, LaunchdSpawn, config
<1>7. ASSUME NEW p \in Pid, Interrupt(p) PROVE TypeOK'
  BY <1>7, SignalledTyped, ReapTyped DEF TypeOK, Interrupt, config, launchd
<1>8. ASSUME NEW p \in Pid, OtherProgram(p) PROVE TypeOK'
  BY <1>8, NewProcessesTyped DEF TypeOK, OtherProgram, config, launchd
<1>9. ASSUME NEW p \in Pid, OtherExits(p) PROVE TypeOK'
  BY <1>9, NewProcessesTyped DEF TypeOK, OtherExits, config, launchd
<1> QED
  BY <1>1, <1>2, <1>3, <1>4, <1>5, <1>6, <1>7, <1>8, <1>9 DEF Next

\* The initial states are typed.
LEMMA InitTyped == Init => TypeOK
<1> SUFFICES ASSUME Init PROVE TypeOK
  OBVIOUS
<1>1. proc \in [Pid -> Process]
  BY NewProcessesTyped DEF Init
<1>2. srv \in [Pid -> [Server -> {"idle", "up", "failed"}]]
  <2>1. srv = [p \in Pid |-> Idle]
    BY DEF Init
  <2> QED
    BY <2>1, NewProcessesTyped
<1>3. fds \subseteq Pid /\ faults \in 0..MaxFaults
  BY LifecycleAssumption DEF Init
<1> QED
  BY <1>1, <1>2, <1>3 DEF Init, TypeOK

\* Every reachable state is well typed: the commands never take for a PID what
\* read_pid could not parse.
THEOREM TypeCorrect == Spec => []TypeOK
BY InitTyped, NextTyped, PTL DEF Spec
=============================================================================
