--------------------------- MODULE CaStoreProofs ---------------------------
(***************************************************************************)
(* Theorems about CaStore, for any number of processes, key pairs and      *)
(* crashes, and whatever start, install, stop and status are run with.     *)
(* They rest on what Waits says of the operator: one command at a time.    *)
(* For all of them but the first uninstall is run under sudo (run          *)
(* unprivileged_uninstall shows what becomes of one that is not).          *)
(***************************************************************************)
EXTENDS CaStore, TLAPS

(***************************************************************************)
(* The inductive invariant.                                                *)
(*                                                                         *)
(* Nobody compares the key with the certificate the system trusts; that    *)
(* they fit is the work of two phases that exclude each other.  While the  *)
(* system trusts nothing no daemon comes up, no job could start one, and   *)
(* the commands know of none that serves, so the one command that runs     *)
(* works on the files alone.  From the moment the certificate is trusted   *)
(* until uninstall has taken it out of the keychain nobody writes a file.  *)
(* A daemon that the commands have lost sight of serves through all of     *)
(* this, but it looks at the files no more.                                *)
(***************************************************************************)
UninstallsAsRoot == SudoUninstall \subseteq {TRUE}

ComingLabel == {"check", "record", "crt2", "key2", "load", "bind"}
DaemonLabel == ComingLabel \cup {"serve", "leaving", "failed"}
WriteLabel == {"crt_open", "crt_write", "key_open", "key_write"}
MakeLabel == {"generate"} \cup WriteLabel
SetupLabel == {"owner", "crt1", "key1", "crt2", "key2", "trusted", "pem", "add", "ready",
               "reload", "failed"} \cup MakeLabel
UninstallLabel == {"plan", "unload", "kill", "untrust", "rmdir"}

Setting(p) == proc[p].prog \in {"start", "install"}
Uninstalling(p) == proc[p].prog = "uninstall"
ComingUp(p) == IsDaemon(p) /\ proc[p].pc \in ComingLabel
Counts(p) == At(p, "serve") /\ Known(p)
Named(p) == At(p, "serve") /\ pidFile = p

\* Types, and that who writes the files has a key pair.
CaTyped ==
  /\ TypeOK
  /\ \A p \in Proc : proc[p].pc \in WriteLabel => proc[p].bundle \in Ca

LabelFits(p) ==
  /\ IsDaemon(p) => proc[p].pc \in DaemonLabel
  /\ Setting(p) => proc[p].pc \in SetupLabel
  /\ Uninstalling(p) => proc[p].pc \in UninstallLabel /\ proc[p].root
  /\ proc[p].prog = "none" => proc[p].pc = "none"

\* The two files as any crash may leave them: the key is written last.
FilesFit ==
  /\ crt \in {Absent, Empty} => key = Absent
  /\ crt \in Ca => key \in {Absent, Empty, crt}
  /\ crt # Absent => dir

\* The certificate is trusted: it is there, with the user's apps beside it, and
\* the key file is, too.
TrustFits == trust # {} => crt \in Ca /\ trust = {crt} /\ key # Absent /\ apps = "user"

\* Nothing is trusted: nothing comes up, could be started, or serves known to
\* the commands.
NothingServes == trust = {} => ~installed /\ \A p \in Proc : ~ComingUp(p) /\ ~Counts(p)

\* While a command runs, launchd alone brings a daemon up.
JobOnly == \A p, q \in Proc : IsCommand(p) /\ ComingUp(q) => IsJob(q)

OneCommand == \A p, q \in Proc : IsCommand(p) /\ IsCommand(q) => p = q

\* start and install
SetupFits(p) ==
  Setting(p) =>
     /\ dir /\ apps # "none"
     /\ proc[p].root /\ proc[p].pc # "owner" => apps = "user"
     /\ proc[p].pc \in {"crt2", "key2"} \cup (MakeLabel \ {"key_write"}) => key = Absent
     /\ proc[p].pc = "crt_write" => crt = Empty
     /\ proc[p].pc \in {"key_open", "key_write"} => crt = proc[p].bundle
     /\ proc[p].pc = "key_write" => key = Empty /\ trust = {}
     /\ proc[p].pc \in {"trusted", "pem", "add"} => key # Absent
     /\ proc[p].pc \in {"pem", "add"} => trust = {}
     /\ proc[p].pc \in {"ready", "reload"} => trust # {}

\* uninstall: the job goes, then the process the PID file named, then the CA.
UninstallFits(p) ==
  Uninstalling(p) =>
     /\ proc[p].pc = "unload" => \A q \in Proc : Named(q) => proc[p].seen = q \/ IsJob(q)
     /\ proc[p].pc = "kill" => \A q \in Proc : Named(q) => proc[p].seen = q
     /\ proc[p].pc \in {"untrust", "rmdir"} => \A q \in Proc : ~Named(q)
     /\ proc[p].pc \in {"kill", "untrust", "rmdir"} => ~installed /\ \A q \in Proc : ~IsJob(q)
     /\ proc[p].pc \in {"unload", "kill", "untrust"} /\ proc[p].pem = Absent => trust = {}
     /\ proc[p].pc = "rmdir" => trust = {}

\* A daemon signs with the key in the file, as long as the commands know of it.
Signs(p) ==
  (ComingUp(p) /\ At(p, "bind")) \/ Counts(p) => proc[p].bundle = key /\ key \in Ca

Fits(p) == LabelFits(p) /\ SetupFits(p) /\ UninstallFits(p) /\ Signs(p)

CaInv ==
  /\ CaTyped /\ FilesFit /\ TrustFits /\ NothingServes /\ JobOnly /\ OneCommand
  /\ \A p \in Proc : Fits(p)

(***************************************************************************)
(* Types, whoever runs uninstall.                                          *)
(***************************************************************************)

\* The records that processes are made of.
LEMMA NewTyped ==
  /\ \A g \in {"none", "start", "install", "uninstall", "daemon", "job"}, r \in BOOLEAN,
       l \in Label :
       /\ New(g, r, l) \in Process /\ New(g, r, l).pc = l
       /\ New(g, r, l).prog = g /\ New(g, r, l).root = r
  /\ None \in Process /\ None.pc = "none" /\ None.prog = "none" /\ None.seen = NoProc
<1>1. None \in Process /\ None.pc = "none" /\ None.prog = "none" /\ None.seen = NoProc
  BY CaStoreAssumption DEF None, Process, Label, File
<1>2. ASSUME NEW g \in {"none", "start", "install", "uninstall", "daemon", "job"},
             NEW r \in BOOLEAN, NEW l \in Label
      PROVE  /\ New(g, r, l) \in Process /\ New(g, r, l).pc = l
             /\ New(g, r, l).prog = g /\ New(g, r, l).root = r
  BY CaStoreAssumption DEF New, None, Process, File
<1> QED
  BY <1>1, <1>2

\* One process changes.
LEMMA ProcTyped ==
  ASSUME CaTyped, NEW p \in Proc, NEW e \in Process, proc' = [proc EXCEPT ![p] = e],
         e.pc \in WriteLabel => e.bundle \in Ca
  PROVE  /\ proc' \in [Proc -> Process]
         /\ \A q \in Proc : proc'[q].pc \in WriteLabel => proc'[q].bundle \in Ca
BY DEF CaTyped, TypeOK

\* A process moves to another label.
LEMMA GotoIs ==
  ASSUME TypeOK, NEW p \in Proc, NEW l \in Label, Goto(p, l)
  PROVE  \E e \in Process :
           /\ proc' = [proc EXCEPT ![p] = e] /\ proc'[p] = e
           /\ e.pc = l /\ e.prog = proc[p].prog /\ e.root = proc[p].root
           /\ e.bundle = proc[p].bundle /\ e.pem = proc[p].pem /\ e.seen = proc[p].seen
<1> DEFINE e == [proc[p] EXCEPT !.pc = l]
<1>1. proc[p] \in Process
  BY DEF TypeOK
<1>2. /\ e \in Process /\ e.pc = l /\ e.prog = proc[p].prog /\ e.root = proc[p].root
      /\ e.bundle = proc[p].bundle /\ e.pem = proc[p].pem /\ e.seen = proc[p].seen
  BY <1>1 DEF Process
<1>3. proc' = [proc EXCEPT ![p] = e] /\ proc'[p] = e
  BY <1>1 DEF Goto, TypeOK
<1> HIDE DEF e
<1> QED
  BY <1>2, <1>3

\* ... and keeps its type.
LEMMA GotoTyped ==
  ASSUME CaTyped, NEW p \in Proc, NEW l \in Label, Goto(p, l),
         l \in WriteLabel => proc[p].bundle \in Ca
  PROVE  /\ proc' \in [Proc -> Process]
         /\ \A q \in Proc : proc'[q].pc \in WriteLabel => proc'[q].bundle \in Ca
<1>1. TypeOK
  BY DEF CaTyped
<1> QED
  BY <1>1, GotoIs, ProcTyped

\* A process has got its key pair.
LEMMA WithCaIs ==
  ASSUME TypeOK, NEW p \in Proc, NEW k \in Ca, WithCa(p, k)
  PROVE  \E e \in Process :
           /\ proc' = [proc EXCEPT ![p] = e] /\ proc'[p] = e
           /\ e.pc = (IF IsDaemon(p) THEN "bind" ELSE "trusted") /\ e.bundle = k
           /\ e.prog = proc[p].prog /\ e.root = proc[p].root
<1> DEFINE l == IF IsDaemon(p) THEN "bind" ELSE "trusted"
           e == [proc[p] EXCEPT !.bundle = k, !.pc = l]
<1>1. proc[p] \in Process
  BY DEF TypeOK
<1>2. /\ e \in Process /\ e.bundle = k /\ e.pc = l
      /\ e.prog = proc[p].prog /\ e.root = proc[p].root
  BY <1>1 DEF Process, Label
<1>3. proc' = [proc EXCEPT ![p] = e] /\ proc'[p] = e
  BY <1>1 DEF WithCa, TypeOK
<1> HIDE DEF e
<1> QED
  BY <1>2, <1>3

\* ... and keeps its type.
LEMMA WithCaTyped ==
  ASSUME CaTyped, NEW p \in Proc, NEW k \in Ca, WithCa(p, k)
  PROVE  /\ proc' \in [Proc -> Process]
         /\ \A q \in Proc : proc'[q].pc \in WriteLabel => proc'[q].bundle \in Ca
<1>1. TypeOK
  BY DEF CaTyped
<1> QED
  BY <1>1, WithCaIs, ProcTyped DEF WriteLabel

\* What becomes of a process that is told to end or that launchd lets go.
Gone(q, e) ==
  \/ e = proc[q] \/ e = None
  \/ /\ Bound(q) /\ IsDaemon(q) /\ e \in Process /\ e.pc = "leaving" /\ e.bundle = proc[q].bundle
     /\ e.prog = proc[q].prog \/ e.prog = "daemon"

\* SIGTERM, and launchctl unload.
LEMMA GoneIs ==
  ASSUME TypeOK, NEW q \in Proc, IsDaemon(q)
  PROVE  /\ Gone(q, Ended(q)) /\ ~(Ended(q).pc = "serve")
         /\ Gone(q, Unloaded(q)) /\ ~(Unloaded(q).pc = "serve") /\ Unloaded(q).prog # "job"
         /\ Ended(q) # None => Ended(q).pc = "leaving"
         /\ Unloaded(q) # None => Unloaded(q).pc = "leaving"
<1> DEFINE a == [proc[q] EXCEPT !.pc = "leaving"]
           b == [proc[q] EXCEPT !.pc = "leaving", !.prog = "daemon"]
<1>1. /\ a \in Process /\ a.pc = "leaving" /\ a.bundle = proc[q].bundle /\ a.prog = proc[q].prog
      /\ b \in Process /\ b.pc = "leaving" /\ b.bundle = proc[q].bundle /\ b.prog = "daemon"
  BY DEF TypeOK, Process, Label
<1>2. Ended(q) \in {a, None} /\ (Ended(q) # None => Bound(q) /\ Ended(q) = a)
  BY DEF Ended
<1>3. Unloaded(q) \in {b, None} /\ (Unloaded(q) # None => Bound(q) /\ Unloaded(q) = b)
  BY DEF Unloaded
<1>4. None.pc = "none" /\ None.prog = "none"
  BY NewTyped
<1> HIDE DEF a, b
<1> QED
  BY <1>1, <1>2, <1>3, <1>4 DEF Gone

\* p changes and others fade.
LEMMA FadesTyped ==
  ASSUME CaTyped, NEW p \in Proc, NEW e \in Process, e.pc \notin WriteLabel,
         proc' = [q \in Proc |-> proc'[q]], proc'[p] = e,
         \A q \in Proc \ {p} : Gone(q, proc'[q])
  PROVE  /\ proc' \in [Proc -> Process]
         /\ \A q \in Proc : proc'[q].pc \in WriteLabel => proc'[q].bundle \in Ca
<1>1. None \in Process /\ None.pc = "none"
  BY NewTyped
<1> QED
  BY <1>1 DEF CaTyped, TypeOK, Gone, WriteLabel
\* One case per action, or per group of actions that change the same things.
LEMMA CaTypedNext == CaTyped /\ [Next]_vars => CaTyped'
<1> SUFFICES ASSUME CaTyped, [Next]_vars PROVE CaTyped'
  OBVIOUS
<1> DEFINE Procs == /\ proc' \in [Proc -> Process]
                    /\ \A q \in Proc : proc'[q].pc \in WriteLabel => proc'[q].bundle \in Ca
<1> TypeOK /\ \A p \in Proc : proc[p] \in Process
  BY DEF CaTyped, TypeOK
<1>1. ASSUME Procs, dir' \in BOOLEAN, apps' \in {"none", "user", "root"}, crt' \in File,
             key' \in File, trust' \subseteq Ca, installed' \in BOOLEAN,
             pidFile' \in Proc \cup {NoProc}, crashes' = crashes
      PROVE  CaTyped'
  BY <1>1 DEF CaTyped, TypeOK
<1>2. ASSUME Procs, UNCHANGED <<disk, trust, installed, crashes>>,
             pidFile' \in Proc \cup {NoProc}
      PROVE  CaTyped'
  BY <1>2 DEF CaTyped, TypeOK, disk
<1>3. \A r : Made(r) \in {"user", "root"}
  BY DEF Made, TypeOK
<1>4. CASE UNCHANGED vars \/ LinkDirs
  BY <1>3, <1>4 DEF vars, disk, LinkDirs, CaTyped, TypeOK
<1>5. ASSUME NEW p \in Proc, NEW g \in {"start", "install", "uninstall", "daemon", "job"},
             NEW r \in BOOLEAN, NEW l \in {"owner", "plan", "check"},
             proc' = [proc EXCEPT ![p] = New(g, r, l)]
      PROVE  Procs
  <2>1. l \in Label /\ l \notin WriteLabel
    BY DEF Label, WriteLabel
  <2>2. New(g, r, l) \in Process /\ New(g, r, l).pc = l
    BY <2>1, NewTyped
  <2> QED
    BY <1>5, <2>1, <2>2, ProcTyped
<1>6. ASSUME NEW p \in Proc, NEW l \in Label \ WriteLabel, Goto(p, l) PROVE Procs
  BY <1>6, GotoTyped
<1>7. ASSUME proc' = proc PROVE Procs
  BY <1>7 DEF CaTyped, TypeOK
<1>8. ASSUME NEW p \in Proc, proc' = [proc EXCEPT ![p] = None] PROVE Procs
  BY <1>8, NewTyped, ProcTyped DEF WriteLabel
<1>9. ASSUME NEW p \in Proc, NEW e \in Process, e.pc \notin WriteLabel,
             proc' = [q \in Proc |-> proc'[q]], proc'[p] = e,
             \A q \in Proc \ {p} : Gone(q, proc'[q])
      PROVE  Procs
  BY <1>9, FadesTyped
<1> HIDE DEF Procs
<1>10. ASSUME NEW p \in Proc, Setup(p) PROVE CaTyped'
  <2>1. PICK g \in {"start", "install"}, r \in Sudo :
          /\ proc' = [proc EXCEPT ![p] = New(g, r, "owner")] /\ apps' = Made(r)
          /\ pidFile' = IF g = "start" THEN NoProc ELSE pidFile
    BY <1>10 DEF Setup
  <2>2. Procs
    BY <1>5, <2>1, CaStoreAssumption
  <2> QED
    BY <1>1, <1>3, <1>10, <2>1, <2>2 DEF Setup, TypeOK
<1>11. ASSUME NEW p \in Proc, Uninstall(p) \/ Restart(p) \/ SpawnDaemon(p) PROVE CaTyped'
  <2>1. proc[p].root \in BOOLEAN
    BY DEF Process
  <2>2. Procs
    BY <1>5, <1>11, <2>1, CaStoreAssumption DEF Uninstall, Restart, SpawnDaemon
  <2> QED
    BY <1>2, <1>11, <2>2 DEF Uninstall, Restart, SpawnDaemon, TypeOK
<1>12. ASSUME NEW p \in Proc, Crash(p) PROVE CaTyped'
  <2>1. Procs
    BY <1>8, <1>12 DEF Crash
  <2>2. crashes' \in 0..MaxCrashes
    BY <1>12, CaStoreAssumption DEF Crash, TypeOK
  <2> QED
    BY <1>12, <2>1, <2>2 DEF Procs, Crash, disk, CaTyped, TypeOK
<1>13. ASSUME NEW p \in Proc, Exit(p) \/ Leave(p) PROVE CaTyped'
  <2>1. Procs
    BY <1>8, <1>13 DEF Exit, Leave
  <2> QED
    BY <1>2, <1>13, <2>1 DEF Exit, Leave, TypeOK
<1>14. CASE Stop
  <2>1. PICK r \in Sudo :
          proc' = IF Found(r) THEN [proc EXCEPT ![pidFile] = Ended(pidFile)] ELSE proc
    BY <1>14 DEF Stop
  <2>2. CASE Found(r)
    <3>1. pidFile \in Proc /\ IsDaemon(pidFile)
      BY <2>2 DEF Found, Sees, TypeOK
    <3>2. Ended(pidFile) \in Process /\ Ended(pidFile).pc \notin WriteLabel
      <4>1. /\ Gone(pidFile, Ended(pidFile))
            /\ Ended(pidFile) # None => Ended(pidFile).pc = "leaving"
        BY <3>1, GoneIs
      <4> QED
        BY <3>1, <4>1, NewTyped DEF Gone, WriteLabel
    <3>3. Procs
      BY <2>1, <2>2, <3>1, <3>2, ProcTyped DEF Procs
    <3> QED
      BY <1>2, <1>14, <3>3 DEF Stop
  <2>3. CASE ~Found(r)
    BY <1>2, <1>7, <1>14, <2>1, <2>3 DEF Stop
  <2> QED
    BY <2>2, <2>3
<1>15. ASSUME NEW p \in Proc,
              \/ FixDataDirOwnership(p) \/ Denied(p) \/ SetupTest(p) \/ LoadOrCreateTest(p)
              \/ IsTrusted(p) \/ Check(p) \/ Record(p) \/ Bind(p)
       PROVE  CaTyped'
  <2>1. \E l \in {"crt1", "failed", "trusted", "key1", "crt2", "key2", "load", "generate",
                  "ready", "pem", "record", "serve"} : Goto(p, l)
    BY <1>15 DEF FixDataDirOwnership, Denied, SetupTest, LoadOrCreateTest, CaExists, IsTrusted,
       Check, Record, Bind
  <2>2. Procs
    BY <1>6, <2>1 DEF Label, WriteLabel
  <2> QED
    BY <1>1, <1>15, <2>2 DEF FixDataDirOwnership, Denied, SetupTest, LoadOrCreateTest, CaExists,
       IsTrusted, Check, Record, Bind, disk, TypeOK
<1>16. ASSUME NEW p \in Proc, Load(p) PROVE CaTyped'
  <2>1. Procs
    BY <1>6, <1>16, WithCaTyped DEF Load, Label, WriteLabel, Procs
  <2> QED
    BY <1>2, <1>16, <2>1 DEF Load, TypeOK
<1>17. ASSUME NEW p \in Proc, Generate(p) PROVE CaTyped'
  <2>1. PICK k \in Ca : proc' = [proc EXCEPT ![p].bundle = k, ![p].pc = "crt_open"]
    BY <1>17 DEF Generate
  <2> DEFINE e == [proc[p] EXCEPT !.bundle = k, !.pc = "crt_open"]
  <2>2. e \in Process /\ e.bundle = k
    BY DEF Process, Label
  <2>3. proc' = [proc EXCEPT ![p] = e]
    BY <2>1 DEF TypeOK
  <2> HIDE DEF e
  <2>4. Procs
    BY <2>2, <2>3, ProcTyped DEF Procs
  <2> QED
    BY <1>1, <1>3, <1>17, <2>4 DEF Generate, TypeOK
<1>18. ASSUME NEW p \in Proc, OpenCrt(p) \/ WriteCrt(p) \/ OpenKey(p) \/ WriteKey(p)
       PROVE  CaTyped'
  <2>1. proc[p].bundle \in Ca
    BY <1>18 DEF OpenCrt, WriteCrt, OpenKey, WriteKey, At, CaTyped, WriteLabel
  <2>2. ASSUME NEW l \in {"crt_write", "key_open", "key_write", "failed"}, Goto(p, l)
        PROVE  Procs
    BY <2>1, <2>2, GotoTyped DEF Label, Procs
  <2>3. Procs
    BY <1>18, <2>1, <2>2, WithCaTyped DEF OpenCrt, WriteCrt, OpenKey, WriteKey, Procs
  <2> QED
    BY <1>1, <1>18, <2>1, <2>3 DEF OpenCrt, WriteCrt, OpenKey, WriteKey, TypeOK, File
<1>19. ASSUME NEW p \in Proc, ReadPem(p) PROVE CaTyped'
  <2>1. ASSUME proc' = [proc EXCEPT ![p].pem = crt, ![p].pc = "add"] PROVE Procs
    <3> DEFINE e == [proc[p] EXCEPT !.pem = crt, !.pc = "add"]
    <3>1. e \in Process /\ e.pc = "add"
      BY DEF Process, Label, TypeOK
    <3>2. proc' = [proc EXCEPT ![p] = e]
      BY <2>1 DEF TypeOK
    <3> HIDE DEF e
    <3> QED
      BY <3>1, <3>2, ProcTyped DEF WriteLabel, Procs
  <2>2. Procs
    BY <1>6, <1>19, <2>1 DEF ReadPem, Label, WriteLabel
  <2> QED
    BY <1>2, <1>19, <2>2 DEF ReadPem, TypeOK
<1>20. ASSUME NEW p \in Proc, Plan(p) PROVE CaTyped'
  <2>1. PICK s \in Proc \cup {NoProc} :
          proc' = [proc EXCEPT ![p].pc = "unload", ![p].pem = crt, ![p].seen = s]
    BY <1>20 DEF Plan, TypeOK
  <2> DEFINE e == [proc[p] EXCEPT !.pc = "unload", !.pem = crt, !.seen = s]
  <2>2. e \in Process /\ e.pc = "unload"
    BY DEF Process, Label, TypeOK
  <2>3. proc' = [proc EXCEPT ![p] = e]
    BY <2>1 DEF TypeOK
  <2> HIDE DEF e
  <2>4. Procs
    BY <2>2, <2>3, ProcTyped DEF WriteLabel, Procs
  <2> QED
    BY <1>2, <1>20, <2>4 DEF Plan, TypeOK
<1>21. ASSUME NEW p \in Proc, AddTrust(p) PROVE CaTyped'
  <2>1. Procs
    BY <1>6, <1>21 DEF AddTrust, Label, WriteLabel
  <2>2. crt' \in File /\ trust' \subseteq Ca
    BY <1>21 DEF AddTrust, TypeOK, Process, File
  <2> QED
    BY <1>1, <1>21, <2>1, <2>2 DEF AddTrust, TypeOK
<1>22. ASSUME NEW p \in Proc, RemoveCaCert(p) PROVE CaTyped'
  <2>1. Procs
    BY <1>6, <1>22 DEF RemoveCaCert, Label, WriteLabel
  <2> QED
    BY <1>1, <1>22, <2>1 DEF RemoveCaCert, disk, TypeOK
<1>23. ASSUME NEW p \in Proc, RemoveDataDir(p) PROVE CaTyped'
  <2>1. Procs
    BY <1>8, <1>23 DEF RemoveDataDir
  <2> QED
    BY <1>1, <1>23, <2>1 DEF RemoveDataDir, TypeOK, File
<1>24. ASSUME NEW p \in Proc, InstallStop(p) \/ StopProcess(p) PROVE CaTyped'
  <2>1. PICK l \in {"reload", "untrust"} :
          /\ proc' = [q \in Proc |-> proc'[q]] /\ proc'[p] = [proc[p] EXCEPT !.pc = l]
          /\ \A q \in Proc \ {p} : proc'[q] = proc[q] \/ (IsDaemon(q) /\ proc'[q] = Ended(q))
    BY <1>24 DEF InstallStop, StopProcess, Sees
  <2>2. [proc[p] EXCEPT !.pc = l] \in Process /\ [proc[p] EXCEPT !.pc = l].pc \notin WriteLabel
    BY DEF Process, Label, WriteLabel
  <2>3. \A q \in Proc \ {p} : Gone(q, proc'[q])
    BY <2>1, GoneIs DEF Gone
  <2>4. Procs
    BY <1>9, <2>1, <2>2, <2>3
  <2> QED
    BY <1>2, <1>24, <2>4 DEF InstallStop, StopProcess, TypeOK
<1>25. ASSUME NEW p \in Proc, Reload(p) \/ UnloadJob(p) PROVE CaTyped'
  <2>1. ASSUME Goto(p, "failed") PROVE Procs
    BY <1>6, <2>1 DEF Label, WriteLabel
  <2>2. ASSUME ~Goto(p, "failed") PROVE Procs
    <3>1. PICK e \in {None, [proc[p] EXCEPT !.pc = "kill"]} :
            /\ proc' = [q \in Proc |-> proc'[q]] /\ proc'[p] = e
            /\ \A q \in Proc \ {p} : proc'[q] = proc[q] \/ (IsJob(q) /\ proc'[q] = Unloaded(q))
      BY <1>25, <2>2 DEF Reload, UnloadJob
    <3>2. /\ None \in Process /\ None.pc \notin WriteLabel
          /\ [proc[p] EXCEPT !.pc = "kill"] \in Process
          /\ [proc[p] EXCEPT !.pc = "kill"].pc \notin WriteLabel
      BY NewTyped DEF Process, Label, WriteLabel
    <3>3. \A q \in Proc \ {p} : Gone(q, proc'[q])
      <4>1. \A q \in Proc : IsJob(q) => IsDaemon(q)
        BY DEF IsJob, IsDaemon
      <4> QED
        BY <3>1, <4>1, GoneIs DEF Gone
    <3>4. e \in Process /\ e.pc \notin WriteLabel
      BY <3>2
    <3> QED
      BY <1>9, <3>1, <3>3, <3>4
  <2>3. Procs
    BY <2>1, <2>2
  <2> QED
    BY <1>1, <1>25, <2>3 DEF Reload, UnloadJob, disk, TypeOK
<1> QED
  BY <1>4, <1>10, <1>11, <1>12, <1>13, <1>14, <1>15, <1>16, <1>17, <1>18, <1>19, <1>20, <1>21,
     <1>22, <1>23, <1>24, <1>25
  DEF Next

\* At first there are no processes and no files.
LEMMA CaTypedInit == Init => CaTyped
<1> SUFFICES ASSUME Init PROVE CaTyped
  OBVIOUS
<1>1. proc \in [Proc -> Process] /\ \A p \in Proc : proc[p].pc = "none"
  <2>1. None \in Process /\ None.pc = "none" /\ proc = [p \in Proc |-> None]
    BY NewTyped DEF Init
  <2> QED
    BY <2>1
<1>2. dir \in BOOLEAN /\ installed \in BOOLEAN
  BY DEF Init
<1>3. crashes \in 0..MaxCrashes
  BY CaStoreAssumption DEF Init
<1> QED
  BY <1>1, <1>2, <1>3 DEF Init, CaTyped, TypeOK, File, WriteLabel

\* TypeOK, whatever the operator runs with root and without.
THEOREM CaTypeCorrect == Spec => []TypeOK
<1>1. CaTyped => TypeOK
  BY DEF CaTyped
<1> QED
  BY <1>1, CaTypedInit, CaTypedNext, PTL DEF Spec

(***************************************************************************)
(* What a step needs to keep the invariant.                                *)
(***************************************************************************)

\* p acts: it goes on as the program it is, becomes a daemon, or is gone; others
\* may fade.  Only a command touches more than the PID file, the key only while
\* nothing is trusted, and what may serve comes from the trusted phase.
Acting(p) ==
  /\ \A q \in Proc \ {p} : Gone(q, proc'[q])
  /\ pidFile' \in {pidFile, NoProc} \/ (pidFile' = p /\ ~At(p, "serve")')
  /\ UNCHANGED <<disk, trust>> \/ IsCommand(p)
  /\ key' = key \/ trust = {}
  /\ installed' => installed \/ (trust # {} /\ IsCommand(p))
  /\ IsCommand(p)' => IsCommand(p)
  /\ IsJob(p)' => IsJob(p)
  /\ ComingUp(p)' => (ComingUp(p) /\ proc'[p].prog = proc[p].prog) \/ (IsCommand(p) /\ trust # {})
  /\ At(p, "serve")' => /\ proc'[p].prog = proc[p].prog
                        /\ (ComingUp(p) /\ ~IsCommand(p)) \/ At(p, "serve")

\* Who fades neither comes up nor serves, and is no command.
LEMMA Faded ==
  ASSUME CaTyped, NEW q \in Proc, Gone(q, proc'[q])
  PROVE  \/ proc'[q] = proc[q]
         \/ /\ proc'[q].pc \in {"none", "leaving"}
            /\ proc'[q].prog \in {"none", "daemon", proc[q].prog}
            /\ proc'[q].prog # "none" => IsDaemon(q) /\ proc'[q].pc = "leaving"
            /\ proc'[q].prog = "none" => proc'[q].pc = "none"
<1>1. None.pc = "none" /\ None.prog = "none"
  BY NewTyped
<1>2. IsDaemon(q) => proc[q].prog # "none"
  BY DEF IsDaemon
<1> QED
  BY <1>1, <1>2 DEF Gone

\* Whatever p does, the others fit as before.
LEMMA OthersFit ==
  ASSUME CaInv, NEW p \in Proc, Acting(p), NEW q \in Proc, q # p
  PROVE  Fits(q)'
<1>1. CaTyped /\ Fits(q) /\ Gone(q, proc'[q])
  BY DEF CaInv, Acting
<1>2. CASE proc'[q] # proc[q]
  <2>1. /\ proc'[q].pc \in {"none", "leaving"}
        /\ proc'[q].prog # "none" => IsDaemon(q) /\ proc'[q].pc = "leaving"
        /\ proc'[q].prog \in {"none", "daemon", proc[q].prog}
        /\ proc'[q].prog = "none" => proc'[q].pc = "none"
    BY <1>1, <1>2, Faded
  <2> QED
    BY <2>1 DEF Fits, LabelFits, SetupFits, UninstallFits, Signs, IsDaemon, Setting,
       Uninstalling, ComingUp, Counts, At, DaemonLabel, ComingLabel
<1>3. CASE proc'[q] = proc[q]
  <2>1. LabelFits(q)'
    BY <1>1, <1>3 DEF Fits, LabelFits, IsDaemon, Setting, Uninstalling
  <2>2. (Setting(q) \/ Uninstalling(q)) => UNCHANGED <<disk, trust>> /\ ~IsCommand(p)
    BY DEF CaInv, OneCommand, Acting, IsCommand, Setting, Uninstalling
  <2>3. SetupFits(q)'
    BY <1>1, <1>3, <2>2 DEF Fits, SetupFits, Setting, disk
  <2>4. ASSUME Uninstalling(q) PROVE UninstallFits(q)'
    <3>1. UNCHANGED trust /\ ~IsCommand(p) /\ (installed' => installed)
      BY <2>2, <2>4 DEF Acting
    <3>2. \A x \in Proc : IsJob(x)' => IsJob(x)
      <4>1. ASSUME NEW x \in Proc, x # p, IsJob(x)' PROVE IsJob(x)
        <5>1. Gone(x, proc'[x])
          BY <4>1 DEF Acting
        <5> QED
          BY <1>1, <4>1, <5>1, Faded DEF IsJob
      <4> QED
        BY <4>1 DEF Acting
    <3>3. ASSUME NEW x \in Proc, Named(x)'
          PROVE  Named(x) \/ (IsJob(x) /\ IsJob(x)')
      <4>1. CASE x # p
        <5>1. proc'[x] = proc[x]
          <6>1. Gone(x, proc'[x])
            BY <4>1 DEF Acting
          <6> QED
            BY <1>1, <3>3, <6>1, Faded DEF Named, At
        <5>2. pidFile' = pidFile
          BY <3>3, <4>1, CaStoreAssumption DEF Named, Acting
        <5> QED
          BY <3>3, <5>1, <5>2 DEF Named, At
      <4>2. CASE x = p
        <5>1. pidFile' = pidFile /\ proc'[p].prog = proc[p].prog /\ (ComingUp(p) \/ At(p, "serve"))
          BY <3>3, <4>2, CaStoreAssumption DEF Named, Acting
        <5>2. ComingUp(p) => IsJob(p)
          BY <2>4 DEF CaInv, JobOnly, IsCommand, Uninstalling
        <5> QED
          BY <3>3, <4>2, <5>1, <5>2 DEF Named, IsJob
      <4> QED
        BY <4>1, <4>2
    <3>4. ASSUME NEW x \in Proc, Named(x), ~IsJob(x)', Named(x)' PROVE ~IsJob(x)
      <4>1. proc'[x].prog = proc[x].prog
        <5>1. CASE x = p
          BY <3>4, <5>1 DEF Acting, Named
        <5>2. CASE x # p
          <6>1. Gone(x, proc'[x])
            BY <5>2 DEF Acting
          <6> QED
            BY <1>1, <3>4, <6>1, Faded DEF Named, At
        <5> QED
          BY <5>1, <5>2
      <4> QED
        BY <3>4, <4>1 DEF IsJob
    <3> QED
      BY <1>1, <1>3, <2>4, <3>1, <3>2, <3>3, <3>4 DEF Fits, UninstallFits, Uninstalling
  <2>5. UninstallFits(q)'
    BY <1>3, <2>4 DEF UninstallFits, Uninstalling
  <2>6. Signs(q)'
    <3>1. SUFFICES ASSUME (ComingUp(q) /\ At(q, "bind")) \/ Counts(q)
                   PROVE  proc[q].bundle = key /\ key \in Ca /\ key' = key
      <4>1. Counts(q)' => Counts(q)
        BY <1>3, CaStoreAssumption DEF Counts, At, Known, IsJob, Acting
      <4> QED
        BY <1>3, <4>1 DEF Signs, ComingUp, IsDaemon, At
    <3>2. trust # {}
      BY <3>1 DEF CaInv, NothingServes
    <3> QED
      BY <1>1, <3>1, <3>2 DEF Fits, Signs, Acting
  <2> QED
    BY <2>1, <2>3, <2>5, <2>6 DEF Fits
<1> QED
  BY <1>2, <1>3

\* Nothing comes up or serves that could not, and no other command begins.
LEMMA StillNothing ==
  ASSUME CaInv, NEW p \in Proc, Acting(p), trust = {}
  PROVE  NothingServes'
<1>1. CaTyped /\ NothingServes
  BY DEF CaInv
<1>2. ~installed'
  BY <1>1 DEF NothingServes, Acting
<1>3. ASSUME NEW q \in Proc, q # p PROVE ~ComingUp(q)' /\ ~Counts(q)'
  <2>1. Gone(q, proc'[q]) /\ ~ComingUp(q) /\ ~Counts(q)
    BY <1>1, <1>3 DEF NothingServes, Acting
  <2>2. CASE proc'[q] = proc[q]
    <3>1. pidFile' = q => pidFile = q
      BY <1>3, CaStoreAssumption DEF Acting
    <3> QED
      BY <2>1, <2>2, <3>1 DEF ComingUp, Counts, At, Known, IsJob, IsDaemon
  <2>3. CASE proc'[q] # proc[q]
    <3>1. proc'[q].pc \in {"none", "leaving"}
      BY <1>1, <2>1, <2>3, Faded
    <3> QED
      BY <3>1 DEF ComingUp, Counts, At, ComingLabel
  <2> QED
    BY <2>2, <2>3
<1>4. ~ComingUp(p) /\ ~Counts(p)
  BY <1>1 DEF NothingServes
<1>5. ~ComingUp(p)'
  BY <1>4 DEF Acting
<1>6. ~Counts(p)'
  <2>1. SUFFICES ASSUME At(p, "serve")', Known(p)' PROVE FALSE
    BY DEF Counts
  <2>2. At(p, "serve") /\ proc'[p].prog = proc[p].prog
    BY <1>4, <2>1 DEF Acting
  <2>3. pidFile' = p => pidFile = p
    BY <2>1, CaStoreAssumption DEF Acting
  <2> QED
    BY <1>4, <2>1, <2>2, <2>3 DEF Counts, Known, IsJob
<1> QED
  BY <1>2, <1>3, <1>5, <1>6 DEF NothingServes

\* There is still one command at most, and only launchd brings up a daemon beside it.
LEMMA StillOne ==
  ASSUME CaInv, NEW p \in Proc, Acting(p)
  PROVE  OneCommand' /\ JobOnly'
<1>1. CaTyped /\ OneCommand /\ JobOnly
  BY DEF CaInv
<1>2. ASSUME NEW q \in Proc, q # p
      PROVE  \/ proc'[q] = proc[q]
             \/ ~IsCommand(q)' /\ ~ComingUp(q)'
  <2>1. Gone(q, proc'[q])
    BY <1>2 DEF Acting
  <2>2. CASE proc'[q] # proc[q]
    <3>1. /\ proc'[q].pc \in {"none", "leaving"}
          /\ proc'[q].prog # "none" => IsDaemon(q)
          /\ proc'[q].prog \in {"none", "daemon", proc[q].prog}
      BY <1>1, <2>1, <2>2, Faded
    <3> QED
      BY <3>1 DEF IsCommand, IsDaemon, ComingUp, ComingLabel
  <2> QED
    BY <2>2
<1>3. \A q \in Proc : IsCommand(q)' => IsCommand(q)
  BY <1>2 DEF IsCommand, Acting
<1>4. OneCommand'
  BY <1>1, <1>3 DEF OneCommand
<1>5. ASSUME NEW c \in Proc, NEW q \in Proc, IsCommand(c)', ComingUp(q)' PROVE IsJob(q)'
  <2>1. IsCommand(c)
    BY <1>3, <1>5
  <2>2. CASE q # p
    <3>1. proc'[q] = proc[q]
      BY <1>2, <1>5, <2>2
    <3> QED
      BY <1>1, <1>5, <2>1, <3>1 DEF JobOnly, ComingUp, IsDaemon, IsJob
  <2>3. CASE q = p /\ ComingUp(p) /\ proc'[p].prog = proc[p].prog
    BY <1>1, <2>1, <2>3 DEF JobOnly, IsJob
  <2>4. CASE q = p /\ IsCommand(p)
    <3>1. c = p
      BY <1>1, <2>1, <2>4 DEF OneCommand
    <3> QED
      BY <1>5, <2>4, <3>1 DEF IsCommand, ComingUp, IsDaemon
  <2> QED
    BY <1>5, <2>2, <2>3, <2>4 DEF Acting
<1> QED
  BY <1>4, <1>5 DEF JobOnly

\* So p has to look after the files and itself.
LEMMA ActingKeeps ==
  ASSUME CaInv, NEW p \in Proc, Acting(p), CaTyped', FilesFit', TrustFits',
         trust' # {} \/ trust = {} \/ NothingServes',
         Fits(p)'
  PROVE  CaInv'
<1>1. \A q \in Proc : Fits(q)'
  BY OthersFit
<1>2. NothingServes'
  <2>1. CASE trust' # {}
    BY <2>1 DEF NothingServes
  <2> QED
    BY <2>1, StillNothing
<1> QED
  BY <1>1, <1>2, StillOne DEF CaInv

\* p alone changes, and goes on as the program it is.
LEMMA Acts ==
  ASSUME CaInv, CaTyped', FilesFit', TrustFits', NEW p \in Proc, NEW e \in Process,
         proc' = [proc EXCEPT ![p] = e], e.prog = proc[p].prog,
         e.pc # "serve" \/ (ComingUp(p) /\ UNCHANGED pidFile),
         IsDaemon(p) /\ e.pc \in ComingLabel => proc[p].pc \in ComingLabel,
         UNCHANGED installed, pidFile' \in {pidFile, NoProc, p},
         UNCHANGED <<disk, trust>> \/ IsCommand(p), key' = key \/ trust = {},
         trust' # {} \/ trust = {} \/ NothingServes',
         Fits(p)'
  PROVE  CaInv'
<1>1. proc'[p] = e /\ \A q \in Proc \ {p} : proc'[q] = proc[q]
  BY DEF CaInv, CaTyped, TypeOK
<1>2. ComingUp(p) => ~IsCommand(p)
  BY DEF ComingUp, IsDaemon, IsCommand
<1>3. Acting(p)
  BY <1>1, <1>2 DEF Acting, Gone, At, IsCommand, IsJob, ComingUp, IsDaemon
<1> QED
  BY <1>3, ActingKeeps

\* p moves to another label and touches at most the PID file.
LEMMA MovesOn ==
  ASSUME CaInv, CaTyped', NEW p \in Proc, NEW l \in Label, Goto(p, l),
         UNCHANGED <<disk, trust, installed>>, pidFile' \in {pidFile, NoProc, p},
         l # "serve", IsDaemon(p) /\ l \in ComingLabel => proc[p].pc \in ComingLabel,
         LabelFits(p)', SetupFits(p)', UninstallFits(p)', l = "bind" => Signs(p)'
  PROVE  CaInv'
<1>1. TypeOK
  BY DEF CaInv, CaTyped
<1>2. PICK e \in Process :
        proc' = [proc EXCEPT ![p] = e] /\ proc'[p] = e /\ e.pc = l /\ e.prog = proc[p].prog
  BY <1>1, GotoIs
<1>3. FilesFit' /\ TrustFits' /\ key' = key
  BY DEF CaInv, FilesFit, TrustFits, disk
<1>4. Fits(p)'
  <2>1. CASE l # "bind"
    BY <1>2, <2>1 DEF Fits, Signs, Counts, At
  <2> QED
    BY <2>1 DEF Fits
<1>5. trust' # {} \/ trust = {}
  OBVIOUS
<1> QED
  BY <1>2, <1>3, <1>4, <1>5, Acts

\* A daemon or a command that fails.
LEMMA Fails ==
  ASSUME CaInv, CaTyped', NEW p \in Proc, IsDaemon(p) \/ Setting(p), Goto(p, "failed"),
         UNCHANGED <<disk, trust, installed, pidFile>>, Setting(p) => proc[p].pc # "owner"
  PROVE  CaInv'
<1>1. TypeOK /\ SetupFits(p)
  BY DEF CaInv, CaTyped, Fits
<1>2. "failed" \in Label /\ "failed" \notin ComingLabel
  BY DEF Label, ComingLabel
<1>3. PICK e \in Process : /\ proc'[p] = e /\ e.pc = "failed" /\ e.prog = proc[p].prog
                           /\ e.root = proc[p].root
  BY <1>1, <1>2, GotoIs
<1>4. LabelFits(p)' /\ UninstallFits(p)'
  BY <1>3 DEF LabelFits, UninstallFits, IsDaemon, Setting, Uninstalling, DaemonLabel, SetupLabel
<1>5. SetupFits(p)'
  BY <1>1, <1>3 DEF SetupFits, Setting, MakeLabel, WriteLabel, disk
<1> QED
  BY <1>2, <1>4, <1>5, MovesOn

\* A process ends.
LEMMA EndsAlone ==
  ASSUME CaInv, CaTyped', NEW p \in Proc, proc' = [proc EXCEPT ![p] = None],
         UNCHANGED <<disk, trust, installed>>, pidFile' \in {pidFile, NoProc}
  PROVE  CaInv'
<1>1. None.pc = "none" /\ None.prog = "none"
  BY NewTyped
<1>2. proc'[p] = None /\ \A q \in Proc \ {p} : proc'[q] = proc[q]
  BY DEF CaInv, CaTyped, TypeOK
<1>3. FilesFit' /\ TrustFits' /\ key' = key
  BY DEF CaInv, FilesFit, TrustFits, disk
<1>4. Acting(p)
  BY <1>1, <1>2, <1>3 DEF Acting, Gone, At, IsCommand, IsJob, ComingUp, IsDaemon
<1>5. Fits(p)'
  BY <1>1, <1>2 DEF Fits, LabelFits, SetupFits, UninstallFits, Signs, IsDaemon, Setting,
     Uninstalling, ComingUp, Counts, At
<1> QED
  BY <1>3, <1>4, <1>5, ActingKeeps

(***************************************************************************)
(* What begins.                                                            *)
(***************************************************************************)

\* A command begins when there is no other, so all about others stands.
LEMMA Begins ==
  ASSUME CaInv, CaTyped', NEW p \in Proc, Waits, Fresh(p), NEW e \in Process,
         proc' = [proc EXCEPT ![p] = e], UNCHANGED <<crt, key, trust, installed>>,
         pidFile' \in {pidFile, NoProc}, dir' = dir \/ dir',
         apps' = apps \/ apps = "none", e.pc \in {"owner", "plan"}, ~(e.prog \in {"daemon", "job"}),
         LabelFits(p)', SetupFits(p)'
  PROVE  CaInv'
<1>1. /\ CaTyped /\ pidFile # p /\ proc'[p] = e /\ \A q \in Proc \ {p} : proc'[q] = proc[q]
      /\ proc[p] = None /\ \A q \in Proc : ~IsCommand(q)
  BY DEF CaInv, CaTyped, TypeOK, Fresh, Waits
<1>2. FilesFit' /\ TrustFits'
  BY DEF CaInv, FilesFit, TrustFits
<1>3. ~ComingUp(p)' /\ ~Counts(p)' /\ ~Named(p)' /\ ~IsJob(p)'
  BY <1>1 DEF ComingUp, IsDaemon, Counts, Named, At, IsJob
<1>4. ASSUME NEW q \in Proc, q # p
      PROVE  (ComingUp(q)' => ComingUp(q)) /\ (Counts(q)' => Counts(q))
  BY <1>1, <1>4, CaStoreAssumption DEF ComingUp, IsDaemon, Counts, Known, At, IsJob
<1>5. NothingServes'
  BY <1>3, <1>4 DEF CaInv, NothingServes
<1>6. ASSUME NEW q \in Proc, q # p PROVE Fits(q)'
  <2>1. proc'[q] = proc[q] /\ Fits(q)
    BY <1>1, <1>6 DEF CaInv
  <2>2. LabelFits(q)' /\ ~Setting(q)' /\ ~Uninstalling(q)'
    BY <1>1, <2>1 DEF Fits, LabelFits, IsDaemon, Setting, Uninstalling, IsCommand
  <2>3. Signs(q)'
    BY <1>4, <1>6, <2>1 DEF Fits, Signs, ComingUp, IsDaemon, At
  <2> QED
    BY <2>2, <2>3 DEF Fits, SetupFits, UninstallFits
<1>7. UninstallFits(p)' /\ Signs(p)'
  BY <1>1, <1>3 DEF UninstallFits, Signs
<1>8. OneCommand'
  BY <1>1 DEF OneCommand, IsCommand
<1>9. JobOnly'
  <2>1. ASSUME NEW q \in Proc, ComingUp(q)' PROVE IsJob(q)'
    <3>1. q # p /\ proc'[q] = proc[q] /\ ComingUp(q)
      BY <1>1, <1>3, <1>4, <2>1
    <3>2. proc[q] # None /\ ~At(q, "serve")
      BY <3>1, NewTyped DEF ComingUp, IsDaemon, At, ComingLabel
    <3> QED
      BY <3>1, <3>2 DEF Waits, IsJob
  <2> QED
    BY <2>1 DEF JobOnly
<1> QED
  BY <1>2, <1>5, <1>6, <1>7, <1>8, <1>9 DEF CaInv, Fits

\* start and install make the directories first.
LEMMA SetupKeeps ==
  ASSUME CaInv, CaTyped', NEW q \in Proc, Setup(q)
  PROVE  CaInv'
<1>1. PICK g \in {"start", "install"}, r \in BOOLEAN :
        /\ proc' = [proc EXCEPT ![q] = New(g, r, "owner")] /\ apps' = Made(r)
        /\ pidFile' = IF g = "start" THEN NoProc ELSE pidFile
  BY CaStoreAssumption DEF Setup
<1> DEFINE e == New(g, r, "owner")
<1>2. e \in Process /\ e.prog = g /\ e.pc = "owner" /\ e.root = r
  BY NewTyped DEF Label
<1> HIDE DEF e
<1>3. proc' = [proc EXCEPT ![q] = e]
  BY <1>1 DEF e
<1>4. apps' # "none" /\ (apps' = apps \/ apps = "none") /\ dir' /\ pidFile' \in {pidFile, NoProc}
  BY <1>1 DEF Made, Setup
<1>5. UNCHANGED <<crt, key, trust, installed>> /\ Waits /\ Fresh(q)
  BY DEF Setup
<1>6. proc'[q] = e
  BY <1>3 DEF CaInv, CaTyped, TypeOK
<1>7. LabelFits(q)' /\ SetupFits(q)'
  BY <1>2, <1>4, <1>6 DEF LabelFits, SetupFits, IsDaemon, Setting, Uninstalling,
     SetupLabel, MakeLabel, WriteLabel
<1> QED
  BY <1>2, <1>3, <1>4, <1>5, <1>7, Begins

\* uninstall begins with root.
LEMMA UninstallKeeps ==
  ASSUME UninstallsAsRoot, CaInv, CaTyped', NEW q \in Proc, Uninstall(q)
  PROVE  CaInv'
<1>a. PICK r \in BOOLEAN : r /\ proc' = [proc EXCEPT ![q] = New("uninstall", r, "plan")]
  BY DEF Uninstall, UninstallsAsRoot
<1> DEFINE e == New("uninstall", r, "plan")
<1>1. e \in Process /\ e.prog = "uninstall" /\ e.pc = "plan" /\ e.root
  <2>1. "plan" \in Label
    BY DEF Label
  <2>2. e \in Process /\ e.prog = "uninstall" /\ e.pc = "plan" /\ e.root = r
    BY <2>1, NewTyped
  <2> QED
    BY <1>a, <2>2
<1>2. proc' = [proc EXCEPT ![q] = e]
  BY <1>a
<1> HIDE DEF e
<1>3. proc'[q] = e
  BY <1>2 DEF CaInv, CaTyped, TypeOK
<1>4. LabelFits(q)' /\ SetupFits(q)'
  BY <1>1, <1>3 DEF LabelFits, SetupFits, IsDaemon, Setting, Uninstalling, UninstallLabel
<1>5. UNCHANGED <<disk, trust, installed, pidFile>> /\ Waits /\ Fresh(q)
  BY DEF Uninstall
<1> QED
  BY <1>1, <1>2, <1>4, <1>5, Begins DEF disk

\* What launchd starts finds a certificate that is trusted.
LEMMA RestartKeeps ==
  ASSUME CaInv, CaTyped', NEW p \in Proc, Restart(p)
  PROVE  CaInv'
<1> DEFINE e == New("job", TRUE, "check")
<1>1. e \in Process /\ e.prog = "job" /\ e.pc = "check" /\ e.root
  <2>1. "check" \in Label
    BY DEF Label
  <2>2. e \in Process /\ e.prog = "job" /\ e.pc = "check" /\ e.root = TRUE
    BY <2>1, NewTyped
  <2> QED
    BY <2>2
<1>2. proc' = [proc EXCEPT ![p] = e]
  BY DEF Restart
<1> HIDE DEF e
<1>3. proc'[p] = e /\ \A q \in Proc \ {p} : proc'[q] = proc[q]
  BY <1>2 DEF CaInv, CaTyped, TypeOK
<1>4. installed /\ UNCHANGED <<disk, trust, installed, pidFile>> /\ trust # {}
  BY DEF Restart, CaInv, NothingServes
<1>5. FilesFit' /\ TrustFits' /\ NothingServes'
  BY <1>4 DEF CaInv, FilesFit, TrustFits, NothingServes, disk
<1>6. ~IsCommand(p)' /\ IsJob(p)' /\ ~Counts(p)' /\ ~Named(p)'
  BY <1>1, <1>3 DEF IsCommand, IsJob, Counts, Named, At
<1>7. OneCommand' /\ JobOnly'
  <2>1. \A q \in Proc : q # p => /\ IsCommand(q)' <=> IsCommand(q)
                                 /\ ComingUp(q)' <=> ComingUp(q)
                                 /\ IsJob(q)' <=> IsJob(q)
    BY <1>3 DEF IsCommand, ComingUp, IsDaemon, IsJob
  <2> QED
    BY <1>6, <2>1 DEF CaInv, OneCommand, JobOnly
<1>8. Fits(p)'
  BY <1>1, <1>3, <1>6 DEF Fits, LabelFits, SetupFits, UninstallFits, Signs, IsDaemon, Setting,
     Uninstalling, ComingUp, At, DaemonLabel, ComingLabel
<1>9. ASSUME NEW q \in Proc, q # p PROVE Fits(q)'
  <2>1. proc'[q] = proc[q] /\ Fits(q)
    BY <1>3, <1>9 DEF CaInv
  <2>2. LabelFits(q)' /\ SetupFits(q)'
    BY <1>4, <2>1 DEF Fits, LabelFits, SetupFits, IsDaemon, Setting, Uninstalling, disk
  <2>3. Signs(q)'
    BY <1>4, <2>1 DEF Fits, Signs, ComingUp, IsDaemon, At, Counts, Known, IsJob, disk
  <2>4. UninstallFits(q)'
    <3>1. SUFFICES ASSUME Uninstalling(q) PROVE UninstallFits(q)'
      BY <2>1 DEF UninstallFits, Uninstalling
    <3>2. proc[q].pc \notin {"kill", "untrust", "rmdir"}
      BY <1>4, <2>1, <3>1 DEF Fits, UninstallFits
    <3>3. \A x \in Proc : Named(x)' => Named(x) /\ (IsJob(x) => IsJob(x)')
      BY <1>3, <1>4, <1>6 DEF Named, At, IsJob
    <3> QED
      BY <1>4, <2>1, <3>1, <3>2, <3>3 DEF Fits, UninstallFits
  <2> QED
    BY <2>2, <2>3, <2>4 DEF Fits
<1> QED
  BY <1>5, <1>7, <1>8, <1>9 DEF CaInv

(***************************************************************************)
(* What ends.                                                              *)
(***************************************************************************)

\* A process that ends leaves the files as they are, and they fit.
LEMMA EndsKeeps ==
  ASSUME CaInv, CaTyped', NEW p \in Proc, Crash(p) \/ Exit(p) \/ Leave(p)
  PROVE  CaInv'
BY EndsAlone DEF Crash, Exit, Leave

\* stop and status between two commands.
LEMMA StopKeeps ==
  ASSUME CaInv, CaTyped', Stop
  PROVE  CaInv'
<1>a. pidFile \in Proc
  BY DEF CaInv, CaTyped, TypeOK, Stop
<1>b. PICK p \in Proc : p = pidFile
  BY <1>a
<1>1. CaTyped /\ Fits(p)
  BY DEF CaInv
<1>2. PICK r \in Sudo :
        proc' = IF Found(r) THEN [proc EXCEPT ![p] = Ended(p)] ELSE proc
  BY <1>b DEF Stop
<1>3. UNCHANGED <<disk, trust, installed>> /\ pidFile' = NoProc /\ Waits
  BY DEF Stop
<1>4. Gone(p, proc'[p]) /\ \A q \in Proc \ {p} : proc'[q] = proc[q]
  <2>1. CASE Found(r)
    <3>1. IsDaemon(p)
      BY <1>b, <2>1 DEF Found, Sees
    <3>2. proc' = [proc EXCEPT ![p] = Ended(p)]
      BY <1>2, <2>1
    <3> QED
      BY <1>1, <3>1, <3>2, GoneIs DEF CaTyped, TypeOK
  <2>2. CASE ~Found(r)
    BY <1>2, <2>2 DEF Gone
  <2> QED
    BY <2>1, <2>2
<1>5. \/ proc'[p] = proc[p]
      \/ /\ proc'[p].pc \in {"none", "leaving"}
         /\ proc'[p].prog \in {"none", "daemon", proc[p].prog}
         /\ proc'[p].prog # "none" => IsDaemon(p) /\ proc'[p].pc = "leaving"
         /\ proc'[p].prog = "none" => proc'[p].pc = "none"
  BY <1>1, <1>4, Faded
<1>6. FilesFit' /\ TrustFits' /\ key' = key
  BY <1>3 DEF CaInv, FilesFit, TrustFits, disk
<1>7. Acting(p)
  BY <1>3, <1>4, <1>5, <1>6
  DEF Acting, Gone, At, IsCommand, IsJob, ComingUp, IsDaemon, ComingLabel
<1>8. Fits(p)'
  <2>1. CASE proc'[p] = proc[p]
    <3>1. ~IsCommand(p)
      BY <1>1, <1>3 DEF Waits
    <3>2. LabelFits(p)' /\ ~Setting(p)' /\ ~Uninstalling(p)'
      BY <1>1, <2>1, <3>1 DEF Fits, LabelFits, IsDaemon, Setting, Uninstalling, IsCommand
    <3>3. Counts(p)' => Counts(p)
      BY <1>1, <1>3, <2>1, CaStoreAssumption DEF Counts, At, Known, IsJob
    <3>4. Signs(p)'
      BY <1>1, <1>6, <2>1, <3>3 DEF Fits, Signs, ComingUp, IsDaemon, At
    <3> QED
      BY <3>2, <3>4 DEF Fits, SetupFits, UninstallFits
  <2>2. CASE proc'[p] # proc[p]
    BY <1>5, <2>2 DEF Fits, LabelFits, SetupFits, UninstallFits, Signs, IsDaemon, Setting,
       Uninstalling, ComingUp, Counts, At, DaemonLabel, ComingLabel
  <2> QED
    BY <2>1, <2>2
<1> QED
  BY <1>1, <1>3, <1>6, <1>7, <1>8, ActingKeeps

(***************************************************************************)
(* One lemma per action of a process that runs.                            *)
(***************************************************************************)

\* Which program is at which label.
LEMMA WhoIsAt ==
  ASSUME CaInv, NEW p \in Proc
  PROVE  /\ CaTyped /\ TypeOK /\ Fits(p) /\ proc[p] \in Process
         /\ proc[p].pc \in (SetupLabel \ DaemonLabel) => Setting(p)
         /\ proc[p].pc \in (DaemonLabel \ SetupLabel) => IsDaemon(p)
         /\ proc[p].pc \in SetupLabel \cup DaemonLabel => Setting(p) \/ IsDaemon(p)
         /\ proc[p].pc \in UninstallLabel => Uninstalling(p)
<1>1. CaTyped /\ TypeOK /\ Fits(p) /\ proc[p] \in Process
  BY DEF CaInv, CaTyped, TypeOK
<1>2. LabelFits(p) /\ proc[p].prog \in {"none", "start", "install", "uninstall", "daemon", "job"}
  BY <1>1 DEF Fits, Process
<1> QED
  BY <1>1, <1>2 DEF LabelFits, IsDaemon, Setting, Uninstalling, UninstallLabel, DaemonLabel,
     ComingLabel, SetupLabel, MakeLabel, WriteLabel

\* link makes the directory while no command of the CA runs.
LEMMA LinkDirsKeeps ==
  ASSUME CaInv, CaTyped', LinkDirs
  PROVE  CaInv'
<1>1. /\ apps = "none" /\ UNCHANGED <<proc, dir, crt, key, trust, installed, pidFile>>
      /\ \A p \in Proc : ~Setting(p) /\ ~Uninstalling(p)
  BY DEF LinkDirs, IsCommand, Setting, Uninstalling
<1>2. FilesFit' /\ TrustFits'
  BY <1>1 DEF CaInv, FilesFit, TrustFits
<1>3. NothingServes' /\ JobOnly' /\ OneCommand'
  BY <1>1 DEF CaInv, NothingServes, JobOnly, OneCommand, ComingUp, Counts, Known, At, IsJob,
     IsDaemon, IsCommand
<1>4. ASSUME NEW p \in Proc PROVE Fits(p)'
  <2>1. Fits(p)
    BY DEF CaInv
  <2>2. LabelFits(p)' /\ Signs(p)'
    BY <1>1, <2>1 DEF Fits, LabelFits, Signs, ComingUp, Counts, Known, At, IsJob, IsDaemon,
       Setting, Uninstalling
  <2>3. ~Setting(p)' /\ ~Uninstalling(p)'
    BY <1>1 DEF Setting, Uninstalling
  <2> QED
    BY <2>2, <2>3 DEF Fits, SetupFits, UninstallFits
<1> QED
  BY <1>2, <1>3, <1>4 DEF CaInv

\* Who is refused a file fails.
LEMMA DeniedKeeps ==
  ASSUME CaInv, CaTyped', NEW p \in Proc, Denied(p)
  PROVE  CaInv'
<1>1. IsDaemon(p) \/ Setting(p)
  BY WhoIsAt DEF Denied, DaemonLabel, ComingLabel, SetupLabel, MakeLabel, WriteLabel
<1> QED
  BY <1>1, Fails DEF Denied

\* Who has not found both files is alone, and the key is not written yet.
LEMMA MakingIsAlone ==
  ASSUME CaInv, NEW p \in Proc,
         \/ proc[p].pc \in MakeLabel \cup {"pem", "add"}
         \/ (Setting(p) /\ proc[p].pc \in {"crt2", "key2"})
  PROVE  Setting(p) /\ IsCommand(p) /\ ~IsDaemon(p) /\ trust = {} /\ dir /\ SetupFits(p)
<1>1. Setting(p)
  BY WhoIsAt DEF SetupLabel, DaemonLabel, ComingLabel, MakeLabel, WriteLabel
<1>2. SetupFits(p) /\ TrustFits
  BY WhoIsAt DEF Fits, CaInv
<1>3. dir /\ (proc[p].pc \in {"pem", "add", "key_write"} \/ key = Absent)
  BY <1>1, <1>2 DEF SetupFits, MakeLabel, WriteLabel
<1>4. trust = {}
  BY <1>1, <1>2, <1>3 DEF SetupFits, TrustFits
<1> QED
  BY <1>1, <1>2, <1>3, <1>4 DEF Setting, IsCommand, IsDaemon

\* A command that works alone changes the files.
LEMMA Makes ==
  ASSUME CaInv, CaTyped', NEW p \in Proc, Setting(p), trust = {}, NEW e \in Process,
         proc' = [proc EXCEPT ![p] = e], e.prog = proc[p].prog, e.pc \in SetupLabel,
         UNCHANGED <<trust, installed, pidFile>>, FilesFit', SetupFits(p)'
  PROVE  CaInv'
<1>1. proc'[p] = e /\ IsCommand(p) /\ ~IsDaemon(p)
  BY DEF CaInv, CaTyped, TypeOK, IsCommand, Setting, IsDaemon
<1>2. TrustFits'
  BY DEF TrustFits
<1>3. e.pc # "serve"
  BY DEF SetupLabel, MakeLabel, WriteLabel
<1>4. LabelFits(p)' /\ UninstallFits(p)'
  BY <1>1 DEF LabelFits, UninstallFits, Uninstalling, Setting, IsDaemon
<1>5. Signs(p)'
  BY <1>1, <1>3 DEF Signs, Counts, At, ComingUp, IsDaemon
<1> QED
  BY <1>1, <1>2, <1>3, <1>4, <1>5, Acts DEF Fits

\* start and install move to another label and leave the files alone.
LEMMA SetsOn ==
  ASSUME CaInv, CaTyped', NEW p \in Proc, Setting(p), NEW l \in SetupLabel, Goto(p, l),
         UNCHANGED <<disk, trust, installed, pidFile>>, SetupFits(p)'
  PROVE  CaInv'
<1>1. TypeOK /\ ~IsDaemon(p) /\ l \in Label /\ l # "serve"
  BY WhoIsAt DEF IsDaemon, Setting, SetupLabel, MakeLabel, WriteLabel, Label
<1>2. PICK e \in Process : /\ proc'[p] = e /\ e.pc = l /\ e.prog = proc[p].prog
                           /\ e.root = proc[p].root
  BY <1>1, GotoIs
<1>3. LabelFits(p)' /\ UninstallFits(p)'
  BY <1>1, <1>2 DEF LabelFits, UninstallFits, IsDaemon, Setting, Uninstalling
<1>4. Signs(p)'
  BY <1>1, <1>2 DEF Signs, Counts, At, ComingUp, IsDaemon
<1> QED
  BY <1>1, <1>3, <1>4, MovesOn

\* With root the apps are the user's from here on.
LEMMA FixDataDirOwnershipKeeps ==
  ASSUME CaInv, CaTyped', NEW p \in Proc, FixDataDirOwnership(p)
  PROVE  CaInv'
<1>1. TypeOK /\ Setting(p) /\ SetupFits(p)
  BY WhoIsAt DEF FixDataDirOwnership, At, SetupLabel, DaemonLabel, ComingLabel, Fits
<1>2. PICK e \in Process : /\ proc' = [proc EXCEPT ![p] = e] /\ proc'[p] = e /\ e.pc = "crt1"
                           /\ e.prog = proc[p].prog /\ e.root = proc[p].root
  BY <1>1, GotoIs DEF FixDataDirOwnership, Label
<1>3. dir /\ apps \in {"user", "root"}
  BY <1>1 DEF SetupFits, TypeOK
<1>4. FilesFit' /\ TrustFits' /\ UNCHANGED <<dir, crt, key, trust, installed, pidFile>>
  BY DEF CaInv, FilesFit, TrustFits, FixDataDirOwnership
<1>5. SetupFits(p)'
  BY <1>1, <1>2, <1>3 DEF SetupFits, FixDataDirOwnership, MakeLabel, WriteLabel
<1>6. ~IsDaemon(p) /\ IsCommand(p)
  BY <1>1 DEF IsDaemon, IsCommand, Setting
<1>7. LabelFits(p)' /\ UninstallFits(p)' /\ Signs(p)'
  BY <1>1, <1>2, <1>6 DEF LabelFits, UninstallFits, Signs, Counts, At, ComingUp, IsDaemon,
     Setting, Uninstalling, SetupLabel
<1> QED
  BY <1>2, <1>4, <1>5, <1>6, <1>7, Acts DEF Fits

\* Both files are there, or the key is not.
LEMMA SetupTestKeeps ==
  ASSUME CaInv, CaTyped', NEW p \in Proc, SetupTest(p)
  PROVE  CaInv'
<1>1. TypeOK /\ Setting(p) /\ SetupFits(p)
  BY WhoIsAt DEF SetupTest, CaExists, At, SetupLabel, DaemonLabel, ComingLabel, Fits
<1>2. PICK l \in {"crt2", "key1", "trusted"} :
        /\ Goto(p, l) /\ proc[p].pc \in {"crt1", "key1"}
        /\ l = "crt2" => crt = Absent \/ key = Absent
        /\ l = "trusted" => key # Absent
  BY DEF SetupTest, CaExists, At
<1>3. UNCHANGED <<disk, trust, installed, pidFile>>
  BY DEF SetupTest, CaExists
<1>4. l = "crt2" => key = Absent
  BY <1>2, CaStoreAssumption DEF CaInv, FilesFit
<1>5. PICK e \in Process : /\ proc'[p] = e /\ e.pc = l /\ e.prog = proc[p].prog
                           /\ e.root = proc[p].root
  BY <1>1, <1>2, GotoIs DEF Label
<1>6. SetupFits(p)'
  BY <1>1, <1>2, <1>3, <1>4, <1>5 DEF SetupFits, Setting, MakeLabel, WriteLabel, disk
<1> QED
  BY <1>1, <1>2, <1>3, <1>6, SetsOn DEF SetupLabel

\* start and install come here only without a key; a daemon finds both files.
LEMMA LoadOrCreateTestKeeps ==
  ASSUME CaInv, CaTyped', NEW p \in Proc, LoadOrCreateTest(p)
  PROVE  CaInv'
<1>1. TypeOK /\ (Setting(p) \/ IsDaemon(p)) /\ SetupFits(p)
  BY WhoIsAt DEF LoadOrCreateTest, CaExists, At, SetupLabel, Fits
<1>2. PICK l \in {"generate", "key2", "load"} :
        /\ Goto(p, l) /\ proc[p].pc \in {"crt2", "key2"}
        /\ l = "generate" => crt = Absent \/ key = Absent
        /\ l = "load" => key # Absent
  BY DEF LoadOrCreateTest, CaExists, At
<1>3. UNCHANGED <<disk, trust, installed, pidFile>>
  BY DEF LoadOrCreateTest, CaExists
<1>4. PICK e \in Process : /\ proc'[p] = e /\ e.pc = l /\ e.prog = proc[p].prog
                           /\ e.root = proc[p].root
  BY <1>1, <1>2, GotoIs DEF Label
<1>5. CASE Setting(p)
  <2>1. l # "load" /\ key = Absent
    BY <1>1, <1>2, <1>5 DEF SetupFits
  <2>2. SetupFits(p)'
    BY <1>1, <1>2, <1>3, <1>4, <1>5, <2>1 DEF SetupFits, Setting, MakeLabel, WriteLabel, disk
  <2> QED
    BY <1>2, <1>3, <1>5, <2>1, <2>2, SetsOn DEF SetupLabel, MakeLabel
<1>6. CASE IsDaemon(p)
  <2>1. ComingUp(p)
    BY <1>2, <1>6 DEF ComingUp, ComingLabel
  <2>2. trust # {}
    BY <2>1 DEF CaInv, NothingServes
  <2>3. l # "generate" /\ l \in Label /\ l \in ComingLabel
    BY <1>2, <2>2, CaStoreAssumption DEF CaInv, TrustFits, Label, ComingLabel
  <2>4. LabelFits(p)' /\ SetupFits(p)' /\ UninstallFits(p)'
    BY <1>4, <1>6, <2>3 DEF LabelFits, SetupFits, UninstallFits, IsDaemon, Setting,
       Uninstalling, DaemonLabel
  <2> QED
    BY <1>2, <1>3, <2>1, <2>3, <2>4, MovesOn DEF ComingUp
<1> QED
  BY <1>1, <1>5, <1>6

\* A daemon reads the key of the certificate that is trusted.
LEMMA LoadKeeps ==
  ASSUME CaInv, CaTyped', NEW p \in Proc, Load(p)
  PROVE  CaInv'
<1>1. TypeOK /\ IsDaemon(p)
  BY WhoIsAt DEF Load, At, SetupLabel, DaemonLabel, ComingLabel, MakeLabel, WriteLabel
<1>2. CASE key \in Ca
  <2>1. PICK e \in Process : /\ proc' = [proc EXCEPT ![p] = e] /\ proc'[p] = e /\ e.pc = "bind"
                             /\ e.bundle = key /\ e.prog = proc[p].prog
    BY <1>1, <1>2, WithCaIs DEF Load
  <2>2. UNCHANGED <<disk, trust, installed, pidFile>>
    BY DEF Load
  <2>3. FilesFit' /\ TrustFits' /\ key' = key
    BY <2>2 DEF CaInv, FilesFit, TrustFits, disk
  <2>4. LabelFits(p)' /\ SetupFits(p)' /\ UninstallFits(p)'
    BY <1>1, <2>1 DEF LabelFits, SetupFits, UninstallFits, IsDaemon, Setting, Uninstalling,
       DaemonLabel, ComingLabel
  <2>5. Signs(p)'
    BY <1>2, <2>1, <2>3 DEF Signs
  <2>6. proc[p].pc \in ComingLabel
    BY DEF Load, At, ComingLabel
  <2> QED
    BY <2>1, <2>2, <2>3, <2>4, <2>5, <2>6, Acts DEF Fits
<1>3. CASE key \notin Ca
  BY <1>1, <1>3, Fails DEF Load, At, IsDaemon, Setting
<1> QED
  BY <1>2, <1>3

\* A key pair is made in memory, alone.
LEMMA GenerateKeeps ==
  ASSUME CaInv, CaTyped', NEW p \in Proc, Generate(p)
  PROVE  CaInv'
<1>1. Setting(p) /\ trust = {} /\ dir /\ SetupFits(p) /\ At(p, "generate")
  BY MakingIsAlone DEF Generate, At, MakeLabel
<1>2. PICK k \in Ca : proc' = [proc EXCEPT ![p].bundle = k, ![p].pc = "crt_open"]
  BY DEF Generate
<1>3. TypeOK /\ proc[p] \in Process
  BY WhoIsAt
<1> DEFINE e == [proc[p] EXCEPT !.bundle = k, !.pc = "crt_open"]
<1>4. e \in Process /\ e.prog = proc[p].prog /\ e.root = proc[p].root /\ e.pc = "crt_open"
      /\ e.bundle = k
  BY <1>3 DEF Process, Label
<1>5. proc' = [proc EXCEPT ![p] = e] /\ proc'[p] = e
  BY <1>2, <1>3 DEF TypeOK
<1> HIDE DEF e
<1>6. apps' = apps /\ dir' /\ UNCHANGED <<crt, key, trust, installed, pidFile>>
  BY <1>1 DEF Generate, Made, SetupFits, TypeOK
<1>7. FilesFit'
  BY <1>1, <1>6 DEF CaInv, FilesFit
<1>8. SetupFits(p)'
  BY <1>1, <1>4, <1>5, <1>6 DEF SetupFits, At, Setting, MakeLabel, WriteLabel
<1> QED
  BY <1>1, <1>4, <1>5, <1>6, <1>7, <1>8, Makes DEF SetupLabel, MakeLabel, WriteLabel

\* save_ca_to: the four steps.  The certificate file ...
LEMMA OpenCrtKeeps ==
  ASSUME CaInv, CaTyped', NEW p \in Proc, OpenCrt(p)
  PROVE  CaInv'
<1>1. Setting(p) /\ trust = {} /\ dir /\ SetupFits(p) /\ At(p, "crt_open") /\ TypeOK
  BY MakingIsAlone, WhoIsAt DEF OpenCrt, At, MakeLabel, WriteLabel
<1>2. PICK e \in Process : /\ proc' = [proc EXCEPT ![p] = e] /\ proc'[p] = e
                           /\ e.pc = "crt_write" /\ e.prog = proc[p].prog
                           /\ e.root = proc[p].root
  BY <1>1, GotoIs DEF OpenCrt, Label
<1>3. crt' = Empty /\ dir' /\ UNCHANGED <<apps, key, trust, installed, pidFile>>
  BY DEF OpenCrt
<1>4. key = Absent
  BY <1>1 DEF SetupFits, At, MakeLabel, WriteLabel
<1>5. FilesFit'
  BY <1>3, <1>4, CaStoreAssumption DEF FilesFit
<1>6. SetupFits(p)'
  BY <1>1, <1>2, <1>3, <1>4 DEF SetupFits, At, Setting, MakeLabel, WriteLabel
<1> QED
  BY <1>1, <1>2, <1>3, <1>5, <1>6, Makes DEF SetupLabel, MakeLabel, WriteLabel

\* ... the certificate, while there is no key ...
LEMMA WriteCrtKeeps ==
  ASSUME CaInv, CaTyped', NEW p \in Proc, WriteCrt(p)
  PROVE  CaInv'
<1>1. Setting(p) /\ trust = {} /\ dir /\ SetupFits(p) /\ At(p, "crt_write") /\ CaTyped /\ TypeOK
  BY MakingIsAlone, WhoIsAt DEF WriteCrt, At, MakeLabel, WriteLabel
<1>2. PICK e \in Process : /\ proc' = [proc EXCEPT ![p] = e] /\ proc'[p] = e
                           /\ e.pc = "key_open" /\ e.prog = proc[p].prog
                           /\ e.root = proc[p].root /\ e.bundle = proc[p].bundle
  BY <1>1, GotoIs DEF WriteCrt, Label
<1>3. key = Absent /\ crt = Empty /\ proc[p].bundle \in Ca
  BY <1>1 DEF SetupFits, CaTyped, At, MakeLabel, WriteLabel
<1>4. crt' = proc[p].bundle /\ UNCHANGED <<dir, apps, key, trust, installed, pidFile>>
  BY <1>3, CaStoreAssumption DEF WriteCrt
<1>5. FilesFit'
  BY <1>1, <1>3, <1>4, CaStoreAssumption DEF FilesFit
<1>6. SetupFits(p)'
  BY <1>1, <1>2, <1>3, <1>4 DEF SetupFits, At, Setting, MakeLabel, WriteLabel
<1> QED
  BY <1>1, <1>2, <1>4, <1>5, <1>6, Makes DEF SetupLabel, MakeLabel, WriteLabel

\* ... the key file ...
LEMMA OpenKeyKeeps ==
  ASSUME CaInv, CaTyped', NEW p \in Proc, OpenKey(p)
  PROVE  CaInv'
<1>1. Setting(p) /\ trust = {} /\ dir /\ SetupFits(p) /\ At(p, "key_open") /\ CaTyped /\ TypeOK
  BY MakingIsAlone, WhoIsAt DEF OpenKey, At, MakeLabel, WriteLabel
<1>2. key' = Empty /\ Goto(p, "key_write")
      /\ UNCHANGED <<dir, apps, crt, trust, installed, pidFile>>
  BY <1>1 DEF OpenKey
<1>3. PICK e \in Process : /\ proc' = [proc EXCEPT ![p] = e] /\ proc'[p] = e
                           /\ e.pc = "key_write" /\ e.prog = proc[p].prog
                           /\ e.root = proc[p].root /\ e.bundle = proc[p].bundle
  BY <1>1, <1>2, GotoIs DEF Label
<1>4. crt = proc[p].bundle /\ proc[p].bundle \in Ca
  BY <1>1 DEF SetupFits, CaTyped, At, MakeLabel, WriteLabel
<1>5. FilesFit'
  BY <1>1, <1>2, <1>4, CaStoreAssumption DEF FilesFit
<1>6. SetupFits(p)'
  BY <1>1, <1>2, <1>3, <1>4 DEF SetupFits, At, Setting, MakeLabel, WriteLabel
<1> QED
  BY <1>1, <1>2, <1>3, <1>5, <1>6, Makes DEF SetupLabel, MakeLabel, WriteLabel

\* ... and the key of the certificate.
LEMMA WriteKeyKeeps ==
  ASSUME CaInv, CaTyped', NEW p \in Proc, WriteKey(p)
  PROVE  CaInv'
<1>1. Setting(p) /\ trust = {} /\ dir /\ SetupFits(p) /\ At(p, "key_write") /\ CaTyped /\ TypeOK
      /\ ~IsDaemon(p)
  BY MakingIsAlone, WhoIsAt DEF WriteKey, At, MakeLabel, WriteLabel
<1>2. crt = proc[p].bundle /\ proc[p].bundle \in Ca /\ key = Empty
  BY <1>1 DEF SetupFits, CaTyped, At, MakeLabel, WriteLabel
<1>3. PICK e \in Process : /\ proc' = [proc EXCEPT ![p] = e] /\ proc'[p] = e
                           /\ e.pc = "trusted" /\ e.prog = proc[p].prog
                           /\ e.root = proc[p].root
  BY <1>1, <1>2, WithCaIs DEF WriteKey
<1>4. key' = crt /\ UNCHANGED <<dir, apps, crt, trust, installed, pidFile>>
  BY <1>2, CaStoreAssumption DEF WriteKey
<1>5. FilesFit'
  BY <1>1, <1>2, <1>4, CaStoreAssumption DEF FilesFit
<1>6. SetupFits(p)'
  BY <1>1, <1>2, <1>3, <1>4, CaStoreAssumption DEF SetupFits, At, Setting, MakeLabel, WriteLabel
<1> QED
  BY <1>1, <1>3, <1>4, <1>5, <1>6, Makes DEF SetupLabel

\* Trust.
LEMMA IsTrustedKeeps ==
  ASSUME CaInv, CaTyped', NEW p \in Proc, IsTrusted(p)
  PROVE  CaInv'
<1>1. TypeOK /\ Setting(p) /\ SetupFits(p)
  BY WhoIsAt DEF IsTrusted, At, SetupLabel, DaemonLabel, ComingLabel, Fits
<1>2. PICK l \in {"ready", "pem"} :
        Goto(p, l) /\ (l = "ready" => trust # {}) /\ (l = "pem" => trust = {})
  BY DEF IsTrusted
<1>3. UNCHANGED <<disk, trust, installed, pidFile>> /\ At(p, "trusted")
  BY DEF IsTrusted
<1>4. PICK e \in Process : /\ proc'[p] = e /\ e.pc = l /\ e.prog = proc[p].prog
                           /\ e.root = proc[p].root
  BY <1>1, <1>2, GotoIs DEF Label
<1>5. SetupFits(p)'
  BY <1>1, <1>2, <1>3, <1>4 DEF SetupFits, Setting, At, MakeLabel, WriteLabel, disk
<1> QED
  BY <1>1, <1>2, <1>3, <1>5, SetsOn DEF SetupLabel

\* The certificate is read before security is called.
LEMMA ReadPemKeeps ==
  ASSUME CaInv, CaTyped', NEW p \in Proc, ReadPem(p)
  PROVE  CaInv'
<1>1. Setting(p) /\ trust = {} /\ dir /\ SetupFits(p) /\ At(p, "pem")
  BY MakingIsAlone DEF ReadPem, At
<1>2. CASE Goto(p, "failed")
  BY <1>1, <1>2, Fails DEF ReadPem, At
<1>3. CASE proc' = [proc EXCEPT ![p].pem = crt, ![p].pc = "add"]
  <2>1. TypeOK /\ proc[p] \in Process
    BY WhoIsAt
  <2> DEFINE e == [proc[p] EXCEPT !.pem = crt, !.pc = "add"]
  <2>2. e \in Process /\ e.prog = proc[p].prog /\ e.root = proc[p].root /\ e.pc = "add"
    BY <2>1 DEF Process, Label, TypeOK
  <2>3. proc' = [proc EXCEPT ![p] = e] /\ proc'[p] = e
    BY <1>3, <2>1 DEF TypeOK
  <2> HIDE DEF e
  <2>4. UNCHANGED <<disk, trust, installed, pidFile>>
    BY DEF ReadPem
  <2>5. FilesFit'
    BY <2>4 DEF CaInv, FilesFit, disk
  <2>6. SetupFits(p)'
    BY <1>1, <2>2, <2>3, <2>4 DEF SetupFits, At, Setting, MakeLabel, WriteLabel, disk
  <2> QED
    BY <1>1, <2>2, <2>3, <2>4, <2>5, <2>6, Makes DEF SetupLabel
<1> QED
  BY <1>2, <1>3 DEF ReadPem

\* The certificate that is trusted is the one of the key.
LEMMA AddTrustKeeps ==
  ASSUME CaInv, CaTyped', NEW p \in Proc, AddTrust(p)
  PROVE  CaInv'
<1>1. Setting(p) /\ trust = {} /\ dir /\ SetupFits(p) /\ At(p, "add") /\ TypeOK
      /\ ~IsDaemon(p) /\ IsCommand(p)
  BY MakingIsAlone, WhoIsAt DEF AddTrust, At
<1>2. key # Absent /\ crt # Absent /\ crt' = crt
  BY <1>1, CaStoreAssumption DEF CaInv, FilesFit, SetupFits, At, AddTrust
<1>3. CASE crt \in Ca /\ proc[p].root
  <2>1. Goto(p, "ready") /\ trust' = {crt} /\ UNCHANGED <<disk, installed, pidFile>>
    BY <1>1, <1>2, <1>3 DEF AddTrust, disk
  <2>2. PICK e \in Process : /\ proc' = [proc EXCEPT ![p] = e] /\ proc'[p] = e
                             /\ e.pc = "ready" /\ e.prog = proc[p].prog
                             /\ e.root = proc[p].root
    BY <1>1, <2>1, GotoIs DEF Label
  <2>3. apps = "user"
    BY <1>1, <1>3 DEF SetupFits, At
  <2>4. FilesFit' /\ TrustFits' /\ trust' # {} /\ key' = key
    BY <1>2, <1>3, <2>1, <2>3 DEF CaInv, FilesFit, TrustFits, disk
  <2>5. SetupFits(p)'
    BY <1>1, <2>1, <2>2, <2>3, <2>4 DEF SetupFits, Setting, MakeLabel, WriteLabel, disk
  <2>6. LabelFits(p)' /\ UninstallFits(p)' /\ Signs(p)'
    BY <1>1, <2>2 DEF LabelFits, UninstallFits, Signs, Counts, At, ComingUp, IsDaemon,
       Setting, Uninstalling, SetupLabel
  <2> QED
    BY <1>1, <2>1, <2>2, <2>4, <2>5, <2>6, Acts DEF Fits
<1>4. CASE ~(crt \in Ca /\ proc[p].root)
  BY <1>1, <1>2, <1>4, Fails DEF AddTrust, disk, At
<1> QED
  BY <1>3, <1>4

\* A step that changes only processes and the PID file: who is told to end, fades.
LEMMA OnlyProcs ==
  ASSUME CaInv, CaTyped', NEW p \in Proc, UNCHANGED <<disk, trust>>,
         \A q \in Proc \ {p} : Gone(q, proc'[q]), pidFile' \in {pidFile, NoProc},
         installed' => installed \/ trust # {}, IsCommand(p), ~IsJob(p)',
         ComingUp(p)' => trust # {}, ~At(p, "serve")', Fits(p)'
  PROVE  CaInv'
<1>1. FilesFit' /\ TrustFits' /\ key' = key
  BY DEF CaInv, FilesFit, TrustFits, disk
<1>2. Acting(p)
  BY <1>1 DEF Acting
<1> QED
  BY <1>1, <1>2, ActingKeeps

\* start becomes a daemon.
LEMMA SpawnDaemonKeeps ==
  ASSUME CaInv, CaTyped', NEW p \in Proc, SpawnDaemon(p)
  PROVE  CaInv'
<1> DEFINE e == New("daemon", proc[p].root, "check")
<1>1. TypeOK /\ Setting(p) /\ SetupFits(p) /\ proc[p] \in Process
  BY WhoIsAt DEF SpawnDaemon, At, SetupLabel, DaemonLabel, ComingLabel, Fits
<1>2. trust # {} /\ IsCommand(p)
  BY <1>1 DEF SetupFits, SpawnDaemon, At, Setting, IsCommand
<1>3. e \in Process /\ e.prog = "daemon" /\ e.pc = "check"
  <2>1. "check" \in Label /\ proc[p].root \in BOOLEAN
    BY <1>1 DEF Label, Process
  <2> QED
    BY <2>1, NewTyped
<1>4. proc'[p] = e /\ (\A q \in Proc \ {p} : Gone(q, proc'[q]))
      /\ UNCHANGED <<disk, trust, installed, pidFile>>
  BY <1>1 DEF SpawnDaemon, TypeOK, Gone
<1> HIDE DEF e
<1>5. Fits(p)' /\ ~IsJob(p)' /\ ~At(p, "serve")'
  BY <1>3, <1>4 DEF Fits, LabelFits, SetupFits, UninstallFits, Signs, Counts, At, IsDaemon, IsJob,
     Setting, Uninstalling, DaemonLabel, ComingLabel
<1> QED
  BY <1>2, <1>4, <1>5, OnlyProcs

\* A command that goes on to another label and touches no file.
LEMMA CommandFits ==
  ASSUME CaInv, NEW p \in Proc, IsCommand(p), NEW l \in SetupLabel \cup UninstallLabel,
         proc'[p] = [proc[p] EXCEPT !.pc = l]
  PROVE  /\ ~IsJob(p)' /\ ~ComingUp(p)' /\ ~At(p, "serve")' /\ Signs(p)'
         /\ proc'[p].prog = proc[p].prog /\ proc'[p].pc = l /\ proc'[p].root = proc[p].root
         /\ proc'[p].bundle = proc[p].bundle /\ proc'[p].pem = proc[p].pem
         /\ proc'[p].seen = proc[p].seen
         /\ Setting(p) => (l \in SetupLabel => LabelFits(p)') /\ UninstallFits(p)'
         /\ Uninstalling(p) => (l \in UninstallLabel => LabelFits(p)') /\ SetupFits(p)'
<1>1. proc[p] \in Process /\ LabelFits(p)
  BY WhoIsAt DEF Fits
<1>2. /\ proc'[p].prog = proc[p].prog /\ proc'[p].pc = l /\ proc'[p].root = proc[p].root
      /\ proc'[p].bundle = proc[p].bundle /\ proc'[p].pem = proc[p].pem
      /\ proc'[p].seen = proc[p].seen
  BY <1>1 DEF Process
<1>3. l # "serve"
  BY DEF SetupLabel, UninstallLabel, MakeLabel, WriteLabel
<1>4. ~IsJob(p)' /\ ~ComingUp(p)' /\ ~At(p, "serve")' /\ Signs(p)'
  BY <1>2, <1>3 DEF IsCommand, IsJob, IsDaemon, ComingUp, At, Signs, Counts
<1>5. Setting(p) => (l \in SetupLabel => LabelFits(p)') /\ UninstallFits(p)'
  BY <1>2 DEF LabelFits, UninstallFits, IsDaemon, Setting, Uninstalling
<1>6. Uninstalling(p) => (l \in UninstallLabel => LabelFits(p)') /\ SetupFits(p)'
  BY <1>1, <1>2 DEF LabelFits, SetupFits, IsDaemon, Setting, Uninstalling
<1> QED
  BY <1>2, <1>4, <1>5, <1>6

\* install ends what the PID file names ...
LEMMA InstallStopKeeps ==
  ASSUME CaInv, CaTyped', NEW p \in Proc, InstallStop(p)
  PROVE  CaInv'
<1>1. TypeOK /\ Setting(p) /\ SetupFits(p) /\ IsCommand(p)
  BY WhoIsAt DEF InstallStop, At, SetupLabel, DaemonLabel, ComingLabel, Fits, IsCommand, Setting
<1>2. /\ proc'[p] = [proc[p] EXCEPT !.pc = "reload"]
      /\ \A q \in Proc \ {p} : proc'[q] = proc[q] \/ (IsDaemon(q) /\ proc'[q] = Ended(q))
      /\ UNCHANGED <<disk, trust, installed>> /\ pidFile' = NoProc
  BY DEF InstallStop, Sees
<1>3. \A q \in Proc \ {p} : Gone(q, proc'[q])
  BY <1>1, <1>2, GoneIs DEF Gone
<1>4. /\ ~IsJob(p)' /\ ~ComingUp(p)' /\ ~At(p, "serve")' /\ Signs(p)' /\ LabelFits(p)'
      /\ UninstallFits(p)' /\ proc'[p].pc = "reload" /\ proc'[p].root = proc[p].root
  BY <1>1, <1>2, CommandFits DEF SetupLabel
<1>5. SetupFits(p)'
  BY <1>1, <1>2, <1>4 DEF SetupFits, InstallStop, At, MakeLabel, WriteLabel, disk
<1> QED
  BY <1>1, <1>2, <1>3, <1>4, <1>5, OnlyProcs DEF Fits

\* ... and has launchd take the job over.
LEMMA ReloadKeeps ==
  ASSUME CaInv, CaTyped', NEW p \in Proc, Reload(p)
  PROVE  CaInv'
<1>1. TypeOK /\ Setting(p) /\ SetupFits(p) /\ IsCommand(p) /\ At(p, "reload")
  BY WhoIsAt DEF Reload, At, SetupLabel, DaemonLabel, ComingLabel, Fits, IsCommand, Setting
<1>2. UNCHANGED <<disk, trust, pidFile>> /\ trust # {}
  BY <1>1 DEF Reload, SetupFits, At
<1>3. CASE ~proc[p].root
  BY <1>1, <1>2, <1>3, Fails DEF Reload, At
<1>4. CASE proc[p].root
  <2>1. /\ proc'[p] = None
        /\ \A q \in Proc \ {p} : proc'[q] = proc[q] \/ (IsJob(q) /\ proc'[q] = Unloaded(q))
    BY <1>4 DEF Reload
  <2>2. \A q \in Proc \ {p} : Gone(q, proc'[q])
    <3>1. \A q \in Proc : IsJob(q) => IsDaemon(q)
      BY DEF IsJob, IsDaemon
    <3> QED
      BY <1>1, <2>1, <3>1, GoneIs DEF Gone
  <2>3. Fits(p)' /\ ~IsJob(p)' /\ ~ComingUp(p)' /\ ~At(p, "serve")'
    BY <2>1, NewTyped DEF Fits, LabelFits, SetupFits, UninstallFits, Signs, Counts, At, IsDaemon,
       IsJob, ComingUp, Setting, Uninstalling
  <2> QED
    BY <1>1, <1>2, <2>2, <2>3, OnlyProcs
<1> QED
  BY <1>3, <1>4

\* The daemon comes up.
LEMMA CheckKeeps ==
  ASSUME CaInv, CaTyped', NEW p \in Proc, Check(p) \/ Record(p)
  PROVE  CaInv'
<1>1. TypeOK /\ IsDaemon(p) /\ proc[p].pc \in ComingLabel
  BY WhoIsAt DEF Check, Record, At, SetupLabel, DaemonLabel, ComingLabel, MakeLabel, WriteLabel
<1>2. PICK l \in {"record", "crt2", "failed"} : Goto(p, l)
  BY DEF Check, Record
<1>3. UNCHANGED <<disk, trust, installed>> /\ pidFile' \in {pidFile, NoProc, p}
  BY DEF Check, Record
<1>4. l \in Label /\ l \in DaemonLabel /\ l # "serve" /\ l # "bind"
  BY DEF Label, DaemonLabel, ComingLabel
<1>5. PICK e \in Process : proc'[p] = e /\ e.pc = l /\ e.prog = proc[p].prog
  BY <1>1, <1>2, <1>4, GotoIs
<1>6. LabelFits(p)' /\ SetupFits(p)' /\ UninstallFits(p)'
  BY <1>1, <1>4, <1>5 DEF LabelFits, SetupFits, UninstallFits, IsDaemon, Setting, Uninstalling
<1> QED
  BY <1>1, <1>2, <1>3, <1>4, <1>6, MovesOn

\* Who serves from now on has the key of the file.
LEMMA BindKeeps ==
  ASSUME CaInv, CaTyped', NEW p \in Proc, Bind(p)
  PROVE  CaInv'
<1>1. TypeOK /\ IsDaemon(p) /\ Fits(p) /\ At(p, "bind")
  BY WhoIsAt DEF Bind, At, SetupLabel, DaemonLabel, ComingLabel, MakeLabel, WriteLabel
<1>2. UNCHANGED <<disk, trust, installed, pidFile>>
  BY DEF Bind
<1>3. CASE Goto(p, "failed")
  BY <1>1, <1>2, <1>3, Fails DEF At, IsDaemon, Setting
<1>4. CASE Goto(p, "serve")
  <2>1. PICK e \in Process : /\ proc' = [proc EXCEPT ![p] = e] /\ proc'[p] = e /\ e.pc = "serve"
                             /\ e.prog = proc[p].prog /\ e.bundle = proc[p].bundle
    BY <1>1, <1>4, GotoIs DEF Label
  <2>2. ComingUp(p)
    BY <1>1 DEF ComingUp, ComingLabel, At
  <2>3. Signs(p)'
    BY <1>1, <1>2, <2>1, <2>2 DEF Fits, Signs, disk
  <2>4. LabelFits(p)' /\ SetupFits(p)' /\ UninstallFits(p)'
    BY <1>1, <2>1 DEF LabelFits, SetupFits, UninstallFits, IsDaemon, Setting, Uninstalling,
       DaemonLabel
  <2>5. FilesFit' /\ TrustFits' /\ key' = key
    BY <1>2 DEF CaInv, FilesFit, TrustFits, disk
  <2>6. proc[p].pc \in ComingLabel
    BY <1>1 DEF ComingLabel, At
  <2> QED
    BY <1>2, <2>1, <2>2, <2>3, <2>4, <2>5, <2>6, Acts DEF Fits
<1> QED
  BY <1>3, <1>4 DEF Bind

(***************************************************************************)
(* uninstall                                                               *)
(***************************************************************************)

\* Where uninstall is.
LEMMA UndoesAt ==
  ASSUME CaInv, NEW p \in Proc, proc[p].pc \in UninstallLabel
  PROVE  /\ Uninstalling(p) /\ IsCommand(p) /\ ~IsDaemon(p) /\ proc[p].root /\ UninstallFits(p)
         /\ proc[p] \in Process /\ TypeOK
<1>1. Uninstalling(p) /\ Fits(p) /\ proc[p] \in Process /\ TypeOK
  BY WhoIsAt
<1> QED
  BY <1>1 DEF Fits, LabelFits, Uninstalling, IsCommand, IsDaemon

\* The plan knows the process that the PID file names, if it is a daemon.
LEMMA PlanKeeps ==
  ASSUME CaInv, CaTyped', NEW p \in Proc, Plan(p)
  PROVE  CaInv'
<1>1. /\ Uninstalling(p) /\ IsCommand(p) /\ ~IsDaemon(p) /\ proc[p].root
      /\ proc[p] \in Process /\ TypeOK
  BY UndoesAt DEF Plan, At, UninstallLabel
<1>2. PICK s \in Proc \cup {NoProc} :
        /\ s = IF Found(proc[p].root) THEN pidFile ELSE NoProc
        /\ proc' = [proc EXCEPT ![p].pc = "unload", ![p].pem = crt, ![p].seen = s]
  BY <1>1 DEF Plan, TypeOK
<1> DEFINE e == [proc[p] EXCEPT !.pc = "unload", !.pem = crt, !.seen = s]
<1>3. /\ e \in Process /\ e.prog = proc[p].prog /\ e.root = proc[p].root /\ e.pc = "unload"
      /\ e.pem = crt /\ e.seen = s
  BY <1>1 DEF Process, Label, TypeOK
<1>4. proc' = [proc EXCEPT ![p] = e] /\ proc'[p] = e
  BY <1>1, <1>2 DEF TypeOK
<1> HIDE DEF e
<1>5. UNCHANGED <<disk, trust, installed, pidFile>>
  BY DEF Plan
<1>6. FilesFit' /\ TrustFits' /\ key' = key
  BY <1>5 DEF CaInv, FilesFit, TrustFits, disk
<1>7. LabelFits(p)' /\ SetupFits(p)' /\ Signs(p)'
  BY <1>1, <1>3, <1>4 DEF LabelFits, SetupFits, Signs, Counts, At, ComingUp, IsDaemon, Setting,
     Uninstalling, UninstallLabel
<1>8. crt = Absent => trust = {}
  BY CaStoreAssumption DEF CaInv, TrustFits
<1>9. ASSUME NEW q \in Proc, Named(q)' PROVE s = q
  <2>1. At(q, "serve") /\ pidFile = q
    <3>1. q # p
      BY <1>3, <1>4, <1>9 DEF Named, At
    <3> QED
      BY <1>1, <1>4, <1>5, <1>9, <3>1 DEF Named, At, TypeOK
  <2>2. IsDaemon(q)
    <3>1. proc[q].pc \in DaemonLabel \ SetupLabel
      BY <2>1 DEF At, DaemonLabel, SetupLabel, MakeLabel, WriteLabel
    <3> QED
      BY <3>1, WhoIsAt
  <2> QED
    BY <1>1, <1>2, <2>1, <2>2, CaStoreAssumption DEF Found, Sees
<1>10. UninstallFits(p)'
  BY <1>3, <1>4, <1>5, <1>8, <1>9 DEF UninstallFits
<1> QED
  BY <1>1, <1>3, <1>4, <1>5, <1>6, <1>7, <1>10, Acts DEF Fits

\* With root the job goes, and the daemon it ran is on its way out.
LEMMA UnloadJobKeeps ==
  ASSUME CaInv, CaTyped', NEW p \in Proc, UnloadJob(p)
  PROVE  CaInv'
<1>1. /\ Uninstalling(p) /\ IsCommand(p) /\ proc[p].root /\ UninstallFits(p) /\ TypeOK
      /\ At(p, "unload")
  BY UndoesAt DEF UnloadJob, At, UninstallLabel
<1>2. /\ proc'[p] = [proc[p] EXCEPT !.pc = "kill"]
      /\ \A q \in Proc \ {p} : proc'[q] = IF IsJob(q) THEN Unloaded(q) ELSE proc[q]
      /\ UNCHANGED <<disk, trust, pidFile>> /\ ~installed'
  BY <1>1 DEF UnloadJob
<1>3. \A q \in Proc : IsJob(q) => IsDaemon(q)
  BY DEF IsJob, IsDaemon
<1>4. \A q \in Proc \ {p} : Gone(q, proc'[q])
  BY <1>1, <1>2, <1>3, GoneIs DEF Gone
<1>5. /\ ~IsJob(p)' /\ ~ComingUp(p)' /\ ~At(p, "serve")' /\ Signs(p)' /\ LabelFits(p)'
      /\ SetupFits(p)' /\ proc'[p].pc = "kill" /\ proc'[p].seen = proc[p].seen
      /\ proc'[p].pem = proc[p].pem
  BY <1>1, <1>2, CommandFits DEF UninstallLabel
<1>6. ASSUME NEW q \in Proc PROVE ~IsJob(q)' /\ (Named(q)' => proc[p].seen = q)
  <2>1. CASE q = p
    BY <1>5, <2>1 DEF Named
  <2>2. CASE q # p /\ IsJob(q)
    BY <1>1, <1>2, <1>3, <2>2, GoneIs DEF IsJob, Named, At
  <2>3. CASE q # p /\ ~IsJob(q)
    BY <1>1, <1>2, <2>3 DEF IsJob, Named, At, UninstallFits
  <2> QED
    BY <2>1, <2>2, <2>3
<1>7. UninstallFits(p)'
  BY <1>1, <1>2, <1>5, <1>6 DEF UninstallFits, At
<1> QED
  BY <1>1, <1>2, <1>4, <1>5, <1>7, OnlyProcs DEF Fits

\* The process that the PID file named, and that serves, is on its way out.
LEMMA StopProcessKeeps ==
  ASSUME CaInv, CaTyped', NEW p \in Proc, StopProcess(p)
  PROVE  CaInv'
<1>1. /\ Uninstalling(p) /\ IsCommand(p) /\ proc[p].root /\ UninstallFits(p) /\ TypeOK
      /\ At(p, "kill")
  BY UndoesAt DEF StopProcess, At, UninstallLabel
<1>2. /\ proc'[p] = [proc[p] EXCEPT !.pc = "untrust"]
      /\ \A q \in Proc \ {p} : proc'[q] = IF q = proc[p].seen /\ Sees(proc[p].root, q)
                                          THEN Ended(q) ELSE proc[q]
      /\ UNCHANGED <<disk, trust, installed>> /\ pidFile' \in {pidFile, NoProc}
  BY DEF StopProcess
<1>3. \A q \in Proc \ {p} : Gone(q, proc'[q])
  BY <1>1, <1>2, GoneIs DEF Gone, Sees
<1>4. /\ ~IsJob(p)' /\ ~ComingUp(p)' /\ ~At(p, "serve")' /\ Signs(p)' /\ LabelFits(p)'
      /\ SetupFits(p)' /\ proc'[p].pc = "untrust" /\ proc'[p].pem = proc[p].pem
  BY <1>1, <1>2, CommandFits DEF UninstallLabel
<1>5. ASSUME NEW q \in Proc PROVE ~IsJob(q)' /\ ~Named(q)'
  <2>1. CASE q = p
    BY <1>4, <2>1 DEF Named
  <2>2. CASE q # p
    <3>1. ~IsJob(q) /\ (Named(q) => proc[p].seen = q)
      BY <1>1 DEF UninstallFits, At
    <3>2. CASE proc'[q] = proc[q]
      <4>1. SUFFICES ASSUME Named(q)' PROVE FALSE
        BY <3>1, <3>2 DEF IsJob
      <4>2. Named(q) /\ proc[p].seen = q /\ At(q, "serve")
        BY <1>2, <3>1, <3>2, <4>1, CaStoreAssumption DEF Named, At
      <4>3. IsDaemon(q)
        <5>1. proc[q].pc \in DaemonLabel \ SetupLabel
          BY <4>2 DEF At, DaemonLabel, SetupLabel, MakeLabel, WriteLabel
        <5> QED
          BY <5>1, WhoIsAt
      <4>4. proc'[q] = Ended(q)
        BY <1>1, <1>2, <2>2, <4>2, <4>3 DEF Sees
      <4> QED
        BY <1>1, <4>1, <4>3, <4>4, GoneIs DEF Named, At
    <3>3. CASE proc'[q] # proc[q]
      <4>1. IsDaemon(q) /\ proc'[q] = Ended(q)
        BY <1>2, <2>2, <3>3 DEF Sees
      <4>2. proc'[q].pc # "serve" /\ Gone(q, proc'[q])
        BY <1>1, <4>1, GoneIs
      <4>3. proc'[q].prog \in {"none", "daemon", proc[q].prog}
        BY <1>1, <3>3, <4>2, Faded, WhoIsAt
      <4> QED
        BY <3>1, <4>2, <4>3 DEF Named, At, IsJob
    <3> QED
      BY <3>2, <3>3
  <2> QED
    BY <2>1, <2>2
<1>6. UninstallFits(p)'
  BY <1>1, <1>2, <1>4, <1>5 DEF UninstallFits, At
<1> QED
  BY <1>1, <1>2, <1>3, <1>4, <1>6, OnlyProcs DEF Fits

\* While uninstall deletes, nothing comes up and nothing it knows of serves.
LEMMA NobodyServes ==
  ASSUME CaInv, NEW p \in Proc, proc[p].pc \in {"untrust", "rmdir"}
  PROVE  ~installed /\ \A q \in Proc : ~ComingUp(q) /\ ~Counts(q) /\ ~Named(q) /\ ~IsJob(q)
<1>1. Uninstalling(p) /\ IsCommand(p) /\ UninstallFits(p)
  BY UndoesAt DEF UninstallLabel
<1>2. ~installed /\ \A q \in Proc : ~Named(q) /\ ~IsJob(q)
  BY <1>1 DEF UninstallFits
<1>3. \A q \in Proc : ~ComingUp(q)
  BY <1>1, <1>2 DEF CaInv, JobOnly
<1> QED
  BY <1>2, <1>3 DEF Counts, Named, Known

\* The only certificate that is trusted is the one in the file.
LEMMA RemoveCaCertKeeps ==
  ASSUME CaInv, CaTyped', NEW p \in Proc, RemoveCaCert(p)
  PROVE  CaInv'
<1>1. /\ Uninstalling(p) /\ IsCommand(p) /\ ~IsDaemon(p) /\ proc[p].root /\ UninstallFits(p)
      /\ TypeOK /\ At(p, "untrust")
  BY UndoesAt DEF RemoveCaCert, At, UninstallLabel
<1>2. PICK e \in Process : /\ proc' = [proc EXCEPT ![p] = e] /\ proc'[p] = e /\ e.pc = "rmdir"
                           /\ e.prog = proc[p].prog /\ e.root = proc[p].root
  <2>1. Goto(p, "rmdir") /\ "rmdir" \in Label
    BY DEF RemoveCaCert, Label
  <2> QED
    BY <1>1, <2>1, GotoIs
<1>3. UNCHANGED <<disk, installed, pidFile>>
  BY DEF RemoveCaCert
<1>4. trust' = {}
  BY <1>1 DEF CaInv, TrustFits, UninstallFits, RemoveCaCert, At
<1>5. ~installed /\ \A q \in Proc : ~ComingUp(q) /\ ~Counts(q) /\ ~Named(q) /\ ~IsJob(q)
  BY <1>1, NobodyServes DEF At
<1>6. ASSUME NEW q \in Proc PROVE ~ComingUp(q)' /\ ~Counts(q)' /\ ~Named(q)' /\ ~IsJob(q)'
  <2>1. CASE q = p
    BY <1>1, <1>2, <2>1 DEF ComingUp, Counts, Named, At, IsJob, IsDaemon
  <2>2. CASE q # p
    <3>1. proc'[q] = proc[q] /\ pidFile' = pidFile
      BY <1>1, <1>2, <1>3, <2>2 DEF TypeOK
    <3> QED
      BY <1>5, <3>1 DEF ComingUp, Counts, Named, Known, At, IsJob, IsDaemon
  <2> QED
    BY <2>1, <2>2
<1>7. FilesFit' /\ TrustFits' /\ NothingServes' /\ key' = key
  BY <1>3, <1>4, <1>5, <1>6 DEF CaInv, FilesFit, TrustFits, NothingServes, disk
<1>8. LabelFits(p)' /\ SetupFits(p)' /\ Signs(p)'
  BY <1>1, <1>2, <1>6 DEF LabelFits, SetupFits, Signs, IsDaemon, Setting, Uninstalling,
     UninstallLabel
<1>9. UninstallFits(p)'
  BY <1>2, <1>3, <1>4, <1>5, <1>6 DEF UninstallFits
<1> QED
  BY <1>1, <1>2, <1>3, <1>7, <1>8, <1>9, Acts DEF Fits

\* When the files go, nothing is trusted.
LEMMA RemoveDataDirKeeps ==
  ASSUME CaInv, CaTyped', NEW p \in Proc, RemoveDataDir(p)
  PROVE  CaInv'
<1>1. Uninstalling(p) /\ IsCommand(p) /\ UninstallFits(p) /\ TypeOK /\ At(p, "rmdir")
  BY UndoesAt DEF RemoveDataDir, At, UninstallLabel
<1>2. trust = {}
  BY <1>1 DEF UninstallFits, At
<1>3. /\ proc'[p] = None /\ \A q \in Proc \ {p} : proc'[q] = proc[q]
      /\ UNCHANGED <<trust, installed>> /\ pidFile' = NoProc /\ crt' = Absent /\ key' = Absent
  BY <1>1 DEF RemoveDataDir, TypeOK
<1>4. FilesFit' /\ TrustFits'
  BY <1>2, <1>3, CaStoreAssumption DEF FilesFit, TrustFits
<1>5. Acting(p)
  BY <1>1, <1>2, <1>3, NewTyped DEF Acting, Gone, At, IsCommand, IsJob, ComingUp, IsDaemon
<1>6. Fits(p)'
  BY <1>3, NewTyped DEF Fits, LabelFits, SetupFits, UninstallFits, Signs, Counts, At, IsDaemon,
     ComingUp, Setting, Uninstalling
<1> QED
  BY <1>2, <1>4, <1>5, <1>6, ActingKeeps

(***************************************************************************)
(* The theorems.                                                           *)
(***************************************************************************)
LEMMA CaInit == Init => CaInv
<1> SUFFICES ASSUME Init PROVE CaInv
  OBVIOUS
<1>1. \A p \in Proc : proc[p].pc = "none" /\ proc[p].prog = "none"
  <2>1. None.pc = "none" /\ None.prog = "none" /\ proc = [p \in Proc |-> None]
    BY NewTyped DEF Init
  <2> QED
    BY <2>1
<1>2. FilesFit /\ TrustFits
  BY CaStoreAssumption DEF Init, FilesFit, TrustFits
<1>3. ~installed
  BY DEF Init
<1>4. NothingServes /\ JobOnly /\ OneCommand
  BY <1>1, <1>3 DEF NothingServes, JobOnly, OneCommand, ComingUp, Counts, At, IsDaemon, IsCommand
<1>5. \A p \in Proc : Fits(p)
  BY <1>1 DEF Fits, LabelFits, SetupFits, UninstallFits, Signs, Counts, At, IsDaemon, ComingUp,
     Setting, Uninstalling
<1> QED
  BY <1>2, <1>4, <1>5, CaTypedInit DEF CaInv

\* A step that changes nothing.
LEMMA CaStutter == CaInv /\ CaTyped' /\ UNCHANGED vars => CaInv'
<1> SUFFICES ASSUME CaInv, CaTyped', UNCHANGED vars PROVE CaInv'
  OBVIOUS
<1>1. UNCHANGED <<proc, dir, apps, crt, key, trust, installed, pidFile>>
  BY DEF vars, disk
<1>2. FilesFit' /\ TrustFits'
  BY <1>1 DEF CaInv, FilesFit, TrustFits
<1>3. NothingServes' /\ JobOnly' /\ OneCommand'
  BY <1>1 DEF CaInv, NothingServes, JobOnly, OneCommand, ComingUp, Counts, Known, At, IsJob,
     IsDaemon, IsCommand
<1>4. ASSUME NEW p \in Proc PROVE Fits(p)'
  <2>1. Fits(p)
    BY DEF CaInv
  <2>2. LabelFits(p)' /\ SetupFits(p)'
    BY <1>1, <2>1 DEF Fits, LabelFits, SetupFits, IsDaemon, Setting, Uninstalling
  <2>3. UninstallFits(p)' /\ Signs(p)'
    BY <1>1, <2>1 DEF Fits, UninstallFits, Signs, ComingUp, Counts, Known, Named, At, IsJob,
       IsDaemon, Uninstalling
  <2> QED
    BY <2>2, <2>3 DEF Fits
<1> QED
  BY <1>2, <1>3, <1>4 DEF CaInv

\* All steps together.
LEMMA CaNext == UninstallsAsRoot => (CaInv /\ [Next]_vars => CaInv')
<1> SUFFICES ASSUME UninstallsAsRoot, CaInv, [Next]_vars PROVE CaInv'
  OBVIOUS
<1>1. CaTyped'
  BY CaTypedNext DEF CaInv
<1>2. CASE LinkDirs \/ Stop
  BY <1>1, <1>2, LinkDirsKeeps, StopKeeps
<1>3. ASSUME NEW p \in Proc,
             \/ Setup(p) \/ FixDataDirOwnership(p) \/ Uninstall(p) \/ Restart(p)
             \/ Crash(p) \/ Exit(p) \/ Leave(p) \/ Denied(p)
      PROVE  CaInv'
  BY <1>1, <1>3, SetupKeeps, FixDataDirOwnershipKeeps, UninstallKeeps, RestartKeeps, EndsKeeps,
     DeniedKeeps
<1>4. ASSUME NEW p \in Proc,
             \/ SetupTest(p) \/ LoadOrCreateTest(p) \/ Load(p) \/ Generate(p)
             \/ OpenCrt(p) \/ WriteCrt(p) \/ OpenKey(p) \/ WriteKey(p)
      PROVE  CaInv'
  BY <1>1, <1>4, SetupTestKeeps, LoadOrCreateTestKeeps, LoadKeeps, GenerateKeeps, OpenCrtKeeps,
     WriteCrtKeeps, OpenKeyKeeps, WriteKeyKeeps
<1>5. ASSUME NEW p \in Proc,
             \/ IsTrusted(p) \/ ReadPem(p) \/ AddTrust(p) \/ SpawnDaemon(p)
             \/ InstallStop(p) \/ Reload(p) \/ Check(p) \/ Record(p) \/ Bind(p)
      PROVE  CaInv'
  BY <1>1, <1>5, IsTrustedKeeps, ReadPemKeeps, AddTrustKeeps, SpawnDaemonKeeps,
     InstallStopKeeps, ReloadKeeps, CheckKeeps, BindKeeps
<1>6. ASSUME NEW p \in Proc,
             \/ Plan(p) \/ UnloadJob(p) \/ StopProcess(p) \/ RemoveCaCert(p) \/ RemoveDataDir(p)
      PROVE  CaInv'
  BY <1>1, <1>6, PlanKeeps, UnloadJobKeeps, StopProcessKeeps, RemoveCaCertKeeps,
     RemoveDataDirKeeps
<1>7. CASE UNCHANGED vars
  BY <1>1, <1>7, CaStutter
<1> QED
  BY <1>2, <1>3, <1>4, <1>5, <1>6, <1>7 DEF Next

\* The invariant holds in every state.
LEMMA AlwaysCaInv == UninstallsAsRoot => (Spec => []CaInv)
<1> SUFFICES ASSUME UninstallsAsRoot PROVE Spec => []CaInv
  OBVIOUS
<1>1. CaInv /\ [Next]_vars => CaInv'
  BY CaNext
<1> QED
  BY <1>1, CaInit, PTL DEF Spec

\* ServedIsTrusted: a daemon that the PID file names or launchd runs signs with a
\* CA the system trusts, after any crash of setup, daemon or uninstall and whoever
\* started it, although nobody compares its key with the certificate in the
\* keychain.  Daemons the commands have lost sight of may serve beside it.
THEOREM CaServedIsTrusted == UninstallsAsRoot => (Spec => []ServedIsTrusted)
<1> SUFFICES ASSUME UninstallsAsRoot PROVE Spec => []ServedIsTrusted
  OBVIOUS
<1>1. ASSUME CaInv, NEW p \in Proc, Counts(p) PROVE proc[p].bundle \in trust
  <2>1. trust # {} /\ proc[p].bundle = key /\ key \in Ca
    BY <1>1 DEF CaInv, NothingServes, Fits, Signs
  <2> QED
    BY <1>1, <2>1, CaStoreAssumption DEF CaInv, TrustFits, FilesFit
<1>2. CaInv => ServedIsTrusted
  BY <1>1 DEF ServedIsTrusted, Counts
<1> QED
  BY <1>2, AlwaysCaInv, PTL

\* OnePair: the two files never hold the certificate of one CA and the key of
\* another, whatever crash comes between the two writes, where one command runs at
\* a time and leaves launchd's daemon, or one nobody knows of, running beside it.
THEOREM CaOnePair == UninstallsAsRoot => (Spec => []OnePair)
<1> SUFFICES ASSUME UninstallsAsRoot PROVE Spec => []OnePair
  OBVIOUS
<1>1. CaInv => OnePair
  BY CaStoreAssumption DEF CaInv, FilesFit, OnePair
<1> QED
  BY <1>1, AlwaysCaInv, PTL

\* AppsAreTheUsers: where a daemon serves that the PID file names or launchd runs,
\* the apps directory belongs to the user, even if link was run under sudo first.
THEOREM CaAppsAreTheUsers == UninstallsAsRoot => (Spec => []AppsAreTheUsers)
<1> SUFFICES ASSUME UninstallsAsRoot PROVE Spec => []AppsAreTheUsers
  OBVIOUS
<1>1. CaInv => AppsAreTheUsers
  BY DEF CaInv, NothingServes, TrustFits, AppsAreTheUsers, Counts
<1> QED
  BY <1>1, AlwaysCaInv, PTL

\* Who writes the key works while nothing is trusted.
LEMMA KeyOfTrustStays ==
  ASSUME CaInv, [Next]_vars, key' # key, key \in trust
  PROVE  key' = Absent
<1>1. ASSUME NEW p \in Proc, OpenKey(p) \/ WriteKey(p) PROVE FALSE
  BY <1>1, MakingIsAlone DEF OpenKey, WriteKey, At, MakeLabel, WriteLabel
<1>2. CASE UNCHANGED vars \/ LinkDirs \/ Stop
  BY <1>2 DEF LinkDirs, Stop, vars, disk
<1>3. ASSUME NEW p \in Proc, RemoveDataDir(p) PROVE key' = Absent
  BY <1>3 DEF RemoveDataDir
<1>4. ASSUME NEW p \in Proc,
             \/ Setup(p) \/ FixDataDirOwnership(p) \/ Uninstall(p) \/ Restart(p)
             \/ Crash(p) \/ Exit(p) \/ Leave(p) \/ Denied(p)
             \/ SetupTest(p) \/ LoadOrCreateTest(p) \/ Load(p) \/ Generate(p)
      PROVE  FALSE
  BY <1>4 DEF Setup, FixDataDirOwnership, Uninstall, Restart, Crash, Exit, Leave, Denied,
     SetupTest, LoadOrCreateTest, CaExists, Load, Generate, disk
<1>5. ASSUME NEW p \in Proc,
             \/ OpenCrt(p) \/ WriteCrt(p) \/ IsTrusted(p) \/ ReadPem(p) \/ AddTrust(p)
             \/ SpawnDaemon(p) \/ InstallStop(p) \/ Reload(p) \/ Check(p) \/ Record(p) \/ Bind(p)
             \/ Plan(p) \/ UnloadJob(p) \/ StopProcess(p) \/ RemoveCaCert(p)
      PROVE  FALSE
  BY <1>5 DEF OpenCrt, WriteCrt, IsTrusted, ReadPem, AddTrust, SpawnDaemon, InstallStop, Reload,
     Check, Record, Bind, Plan, UnloadJob, StopProcess, RemoveCaCert, disk
<1> QED
  BY <1>1, <1>2, <1>3, <1>4, <1>5 DEF Next

\* Reused: a key that is trusted is never replaced by another, by the command that
\* runs or by launchd's daemon beside it; it goes with its directory.
THEOREM CaReused == UninstallsAsRoot => (Spec => Reused)
<1> SUFFICES ASSUME UninstallsAsRoot PROVE Spec => Reused
  OBVIOUS
<1> DEFINE Kept == key' # key /\ key \in trust => key' = Absent
<1>1. CaInv /\ [Next]_vars => [Kept]_vars
  BY KeyOfTrustStays
<1>2. CaInv /\ [Next]_vars => CaInv'
  BY CaNext
<1> QED
  BY <1>1, <1>2, CaInit, PTL DEF Spec, Reused

=============================================================================
