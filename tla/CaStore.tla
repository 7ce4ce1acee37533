------------------------------ MODULE CaStore ------------------------------
(***************************************************************************)
(* The local certificate authority on disk and in the system keychain:     *)
(* ca.crt and ca.key, written one after the other by whoever finds one of  *)
(* them missing; the keychain, which start and install ask for a           *)
(* certificate of our name, not of our key; and the daemon, which reads    *)
(* only ca.key, rebuilds the certificate from it and signs with it until   *)
(* it ends.                                                                *)
(*                                                                         *)
(* What becomes of a daemon when its CA goes hangs on ferryman.pid:        *)
(* uninstall ends launchd's job and the process that file names, no other. *)
(* How the file is read and written is in module Lifecycle; here each use  *)
(* of it is one step, no PID is handed out again while the file or a       *)
(* command remembers it, and a daemon binds both ports at once or none.    *)
(*                                                                         *)
(* A CA is identified by its key pair.  A file is absent, empty (created   *)
(* but not yet written) or holds the certificate or the key of a CA.       *)
(***************************************************************************)
EXTENDS Naturals

CONSTANTS
  Proc,        \* the processes that exist at the same time
  NoProc,      \* "no process"
  Ca,          \* key pairs that can be generated
  NoCa,        \* "no key pair"
  Absent,      \* content of a file that does not exist
  Empty,       \* content of a file created or truncated
  Sudo,        \* the privileges the operator runs start and install with
  SudoUninstall,  \* ... and uninstall
  MaxCrashes   \* bound on crashes

ASSUME CaStoreAssumption ==
  /\ NoCa \notin Ca /\ Absent \notin Ca /\ Empty \notin Ca /\ Absent # Empty
  /\ NoProc \notin Proc
  /\ Sudo \subseteq BOOLEAN /\ SudoUninstall \subseteq BOOLEAN
  /\ MaxCrashes \in Nat

VARIABLES
  proc,       \* the processes
  dir,        \* does ~/.dd-ferryman/ca exist?
  apps,       \* whose is ~/.dd-ferryman/apps: nobody's, the user's or root's?
  crt, key,   \* ca.crt and ca.key
  trust,      \* the CAs of our name that the system keychain trusts
  installed,  \* does launchd restart the daemon?
  pidFile,    \* the process that ferryman.pid names, if there is one
  crashes     \* how many crashes there were

disk == <<dir, apps, crt, key>>
vars == <<proc, disk, trust, installed, pidFile, crashes>>

File == Ca \cup {Absent, Empty}
Label == {"none", "owner", "crt1", "key1", "crt2", "key2", "load", "generate",
          "crt_open", "crt_write", "key_open", "key_write",
          "trusted", "pem", "add", "ready", "reload",
          "check", "record", "bind", "serve", "leaving", "failed",
          "plan", "unload", "kill", "untrust", "rmdir"}
Process == [prog: {"none", "start", "install", "uninstall", "daemon", "job"},
            root: BOOLEAN, pc: Label, bundle: Ca \cup {NoCa}, pem: File,
            seen: Proc \cup {NoProc}]

None == [prog |-> "none", root |-> FALSE, pc |-> "none", bundle |-> NoCa,
         pem |-> Absent, seen |-> NoProc]
New(g, r, l) == [None EXCEPT !.prog = g, !.root = r, !.pc = l]

At(p, l) == proc[p].pc = l
Goto(p, l) == proc' = [proc EXCEPT ![p].pc = l]
IsJob(p) == proc[p].prog = "job"                 \* launchd runs it
IsDaemon(p) == proc[p].prog \in {"daemon", "job"}
IsCommand(p) == proc[p].prog \in {"start", "install", "uninstall"}
Bound(p) == At(p, "serve") \/ At(p, "leaving")

\* A PID for a new process.
Fresh(q) == proc[q] = None /\ q # pidFile /\ \A p \in Proc : proc[p].seen # q

\* "kill -0" on the process that the PID file names: without root it fails on a
\* process of root.
Sees(r, t) == IsDaemon(t) /\ (r \/ ~proc[t].root)
Found(r) == pidFile # NoProc /\ Sees(r, pidFile)

\* SIGTERM: a daemon that serves winds up, another one is gone at once.
Ended(q) == IF Bound(q) THEN [proc[q] EXCEPT !.pc = "leaving"] ELSE None

\* launchctl unload: launchd also forgets the process.
Unloaded(q) ==
  IF Bound(q) THEN [proc[q] EXCEPT !.pc = "leaving", !.prog = "daemon"] ELSE None

\* KeyPair::generate: a key nobody has.
Unused(k) == k \notin {crt, key} \cup trust \cup {proc[p].bundle : p \in Proc}

Init ==
  /\ proc = [p \in Proc |-> None]
  /\ dir = FALSE /\ apps = "none" /\ crt = Absent /\ key = Absent
  /\ trust = {} /\ installed = FALSE /\ pidFile = NoProc /\ crashes = 0

\* create_dir_all: a directory belongs to whoever creates it.
Made(r) == IF apps # "none" THEN apps ELSE IF r THEN "root" ELSE "user"

(***************************************************************************)
(* The operator gives one command at a time, each when the last daemon is  *)
(* up or gone (launchd may be restarting its own), and leaves it to start  *)
(* and launchd to run "start --foreground", which skips the setup.         *)
(***************************************************************************)
Waits ==
  /\ \A p \in Proc : ~IsCommand(p)
  /\ \A p \in Proc : proc[p] = None \/ At(p, "serve") \/ IsJob(p)

\* start ends at once when it finds a daemon; a PID file it makes nothing of it
\* removes.  Both commands then make the directories (ensure_dirs), which fails
\* without root in a directory that sudo link has made.
Setup(q) ==
  /\ Waits /\ Fresh(q)
  /\ \E g \in {"start", "install"}, r \in Sudo :
       /\ g = "start" => ~Found(r)
       /\ r \/ dir \/ apps # "root"
       /\ proc' = [proc EXCEPT ![q] = New(g, r, "owner")]
       /\ apps' = Made(r)
       /\ pidFile' = IF g = "start" THEN NoProc ELSE pidFile
  /\ dir' = TRUE
  /\ UNCHANGED <<crt, key, trust, installed, crashes>>

\* Mutant: the owner is left as it is.
FixDataDirOwnershipNot(p) ==
  /\ At(p, "owner") /\ Goto(p, "crt1")
  /\ UNCHANGED <<disk, trust, installed, pidFile, crashes>>

\* fix_data_dir_ownership; without root chown fails, which is ignored.
FixDataDirOwnership(p) ==
  /\ At(p, "owner") /\ Goto(p, "crt1")
  /\ apps' = IF apps = "root" /\ proc[p].root THEN "user" ELSE apps
  /\ UNCHANGED <<dir, crt, key, trust, installed, pidFile, crashes>>

\* link creates the directory too, if it is the first command of all.
LinkDirs ==
  /\ \A p \in Proc : ~IsCommand(p)
  /\ apps = "none" /\ \E r \in Sudo : apps' = Made(r)
  /\ UNCHANGED <<proc, dir, crt, key, trust, installed, pidFile, crashes>>

\* stop, and status where it takes the daemon for dead: the PID file goes.
Stop ==
  /\ Waits /\ pidFile # NoProc /\ pidFile' = NoProc
  /\ \E r \in Sudo :
       proc' = IF Found(r) THEN [proc EXCEPT ![pidFile] = Ended(pidFile)] ELSE proc
  /\ UNCHANGED <<disk, trust, installed, crashes>>

Uninstall(q) ==
  /\ Waits /\ Fresh(q)
  /\ \E r \in SudoUninstall : proc' = [proc EXCEPT ![q] = New("uninstall", r, "plan")]
  /\ UNCHANGED <<disk, trust, installed, pidFile, crashes>>

\* launchd starts the daemon, again and again.
Restart(q) ==
  /\ installed /\ Fresh(q) /\ \A p \in Proc : ~IsJob(p)
  /\ proc' = [proc EXCEPT ![q] = New("job", TRUE, "check")]
  /\ UNCHANGED <<disk, trust, installed, pidFile, crashes>>

Crash(p) ==
  /\ crashes < MaxCrashes /\ proc[p] # None
  /\ proc' = [proc EXCEPT ![p] = None]
  /\ crashes' = crashes + 1
  /\ UNCHANGED <<disk, trust, installed, pidFile>>

Exit(p) ==
  /\ At(p, "failed")
  /\ proc' = [proc EXCEPT ![p] = None]
  /\ UNCHANGED <<disk, trust, installed, pidFile, crashes>>

\* Without root a call may be refused, depending on who owns the files; whether
\* port 443 needs root depends on the version of macOS.
Denied(p) ==
  /\ ~proc[p].root
  /\ proc[p].pc \in {"record", "load", "crt_open", "key_open", "bind", "ready"}
  /\ Goto(p, "failed")
  /\ UNCHANGED <<disk, trust, installed, pidFile, crashes>>

(***************************************************************************)
(* ca_exists_in, first for first_run_setup, then for load_or_create_ca.    *)
(***************************************************************************)
CaExists(p, crtLabel, keyLabel, present, missing) ==
  /\ \/ At(p, crtLabel) /\ Goto(p, IF crt = Absent THEN missing ELSE keyLabel)
     \/ At(p, keyLabel) /\ Goto(p, IF key = Absent THEN missing ELSE present)
  /\ UNCHANGED <<disk, trust, installed, pidFile, crashes>>

SetupTest(p) == CaExists(p, "crt1", "key1", "trusted", "crt2")

\* Mutant: a CA is generated without looking for one.
LoadOrCreateTestAlways(p) == CaExists(p, "crt2", "key2", "generate", "generate")
LoadOrCreateTest(p) == CaExists(p, "crt2", "key2", "load", "generate")

WithCa(p, k) ==
  proc' = [proc EXCEPT ![p].bundle = k,
                       ![p].pc = IF IsDaemon(p) THEN "bind" ELSE "trusted"]

\* Mutant: a key that cannot be parsed is replaced by a new one.
LoadReplacing(p) ==
  /\ At(p, "load")
  /\ \E k \in Ca : /\ k = key \/ (key \notin Ca /\ Unused(k))
                   /\ WithCa(p, k) /\ key' = k
  /\ UNCHANGED <<dir, apps, crt, trust, installed, pidFile, crashes>>

\* Mutant: the content of ca.key is taken for a key without parsing it.
LoadUnparsed(p) ==
  /\ At(p, "load")
  /\ WithCa(p, key)
  /\ UNCHANGED <<disk, trust, installed, pidFile, crashes>>

\* load_ca_from reads ca.key only, and fails if it holds no key.
Load(p) ==
  /\ At(p, "load")
  /\ IF key \in Ca THEN WithCa(p, key) ELSE Goto(p, "failed")
  /\ UNCHANGED <<disk, trust, installed, pidFile, crashes>>

\* load_or_create_ca makes sure of the directory, then generates in memory ...
Generate(p) ==
  /\ At(p, "generate")
  /\ dir' = TRUE /\ apps' = Made(proc[p].root)
  /\ \E k \in Ca : /\ Unused(k)
                   /\ proc' = [proc EXCEPT ![p].bundle = k, ![p].pc = "crt_open"]
  /\ UNCHANGED <<crt, key, trust, installed, pidFile, crashes>>

\* ... and save_ca_to writes the certificate and then the key, each by an
\* open that truncates and a write; a file removed in between stays removed.
OpenCrt(p) ==
  /\ At(p, "crt_open")
  /\ dir' = TRUE /\ crt' = Empty /\ Goto(p, "crt_write")
  /\ UNCHANGED <<apps, key, trust, installed, pidFile, crashes>>

WriteCrt(p) ==
  /\ At(p, "crt_write")
  /\ crt' = IF crt = Absent THEN Absent ELSE proc[p].bundle
  /\ Goto(p, "key_open")
  /\ UNCHANGED <<dir, apps, key, trust, installed, pidFile, crashes>>

OpenKey(p) ==
  /\ At(p, "key_open")
  /\ IF dir THEN key' = Empty /\ Goto(p, "key_write")
            ELSE UNCHANGED key /\ Goto(p, "failed")
  /\ UNCHANGED <<dir, apps, crt, trust, installed, pidFile, crashes>>

WriteKey(p) ==
  /\ At(p, "key_write")
  /\ key' = IF key = Absent THEN Absent ELSE proc[p].bundle
  /\ WithCa(p, proc[p].bundle)
  /\ UNCHANGED <<dir, apps, crt, trust, installed, pidFile, crashes>>

(***************************************************************************)
(* The rest of first_run_setup: trust.                                     *)
(***************************************************************************)

\* ca_is_trusted looks for a certificate of our name.
IsTrusted(p) ==
  /\ At(p, "trusted")
  /\ Goto(p, IF trust # {} THEN "ready" ELSE "pem")
  /\ UNCHANGED <<disk, trust, installed, pidFile, crashes>>

ReadPem(p) ==
  /\ At(p, "pem")
  /\ IF crt = Absent
     THEN Goto(p, "failed")
     ELSE proc' = [proc EXCEPT ![p].pem = crt, ![p].pc = "add"]
  /\ UNCHANGED <<disk, trust, installed, pidFile, crashes>>

\* trust_ca: "security add-trusted-cert" on the file, which is written again
\* if it has vanished.
AddTrust(p) ==
  LET cert == IF crt = Absent THEN proc[p].pem ELSE crt
  IN /\ At(p, "add")
     /\ crt' = IF dir THEN cert ELSE Absent
     /\ IF dir /\ cert \in Ca /\ proc[p].root
        THEN trust' = trust \cup {cert} /\ Goto(p, "ready")
        ELSE UNCHANGED trust /\ Goto(p, "failed")
     /\ UNCHANGED <<dir, apps, key, installed, pidFile, crashes>>

\* start spawns the daemon, with the privileges it has itself.
SpawnDaemon(p) ==
  /\ At(p, "ready") /\ proc[p].prog = "start"
  /\ proc' = [proc EXCEPT ![p] = New("daemon", proc[p].root, "check")]
  /\ UNCHANGED <<disk, trust, installed, pidFile, crashes>>

\* install ends the daemon it finds, and the PID file goes ...
InstallStop(p) ==
  /\ At(p, "ready") /\ proc[p].prog = "install"
  /\ proc' = [q \in Proc |->
                IF q = p THEN [proc[p] EXCEPT !.pc = "reload"]
                ELSE IF q = pidFile /\ Sees(proc[p].root, q) THEN Ended(q) ELSE proc[q]]
  /\ pidFile' = NoProc
  /\ UNCHANGED <<disk, trust, installed, crashes>>

\* ... then it has launchd unload the job and load it again, which needs root
\* and may fail in between.
Reload(p) ==
  /\ At(p, "reload")
  /\ IF proc[p].root
     THEN /\ proc' = [q \in Proc |-> IF q = p THEN None
                                    ELSE IF IsJob(q) THEN Unloaded(q) ELSE proc[q]]
          /\ installed' \in BOOLEAN
     ELSE Goto(p, "failed") /\ UNCHANGED installed
  /\ UNCHANGED <<disk, trust, pidFile, crashes>>

(***************************************************************************)
(* The daemon: the PID file and the ports.                                 *)
(***************************************************************************)
Check(p) ==
  /\ At(p, "check")
  /\ IF Found(proc[p].root)
     THEN Goto(p, "failed") /\ UNCHANGED pidFile
     ELSE Goto(p, "record") /\ pidFile' = NoProc
  /\ UNCHANGED <<disk, trust, installed, crashes>>

\* write_pid, which needs ~/.dd-ferryman.
Record(p) ==
  /\ At(p, "record")
  /\ IF dir \/ apps # "none"
     THEN Goto(p, "crt2") /\ pidFile' = p
     ELSE Goto(p, "failed") /\ UNCHANGED pidFile
  /\ UNCHANGED <<disk, trust, installed, crashes>>

Bind(p) ==
  /\ At(p, "bind")
  /\ Goto(p, IF \E q \in Proc : Bound(q) THEN "failed" ELSE "serve")
  /\ UNCHANGED <<disk, trust, installed, pidFile, crashes>>

\* On its way out a daemon removes the PID file, whoever is in it.
Leave(p) ==
  /\ At(p, "leaving")
  /\ proc' = [proc EXCEPT ![p] = None] /\ pidFile' = NoProc
  /\ UNCHANGED <<disk, trust, installed, crashes>>

(***************************************************************************)
(* uninstall: the plan is made from what exists at the beginning; every    *)
(* step ignores its errors, and without root all but the last one fail.    *)
(***************************************************************************)
Plan(p) ==
  /\ At(p, "plan")
  /\ proc' = [proc EXCEPT ![p].pc = "unload", ![p].pem = crt,
                          ![p].seen = IF Found(proc[p].root) THEN pidFile ELSE NoProc]
  /\ UNCHANGED <<disk, trust, installed, pidFile, crashes>>

UnloadJob(p) ==
  LET r == proc[p].root
  IN /\ At(p, "unload")
     /\ installed' = (installed /\ ~r)
     /\ proc' = [q \in Proc |-> IF q = p THEN [proc[p] EXCEPT !.pc = "kill"]
                                ELSE IF r /\ IsJob(q) THEN Unloaded(q) ELSE proc[q]]
     /\ UNCHANGED <<disk, trust, pidFile, crashes>>

StopProcess(p) ==
  LET t == proc[p].seen
  IN /\ At(p, "kill")
     /\ proc' = [q \in Proc |-> IF q = p THEN [proc[p] EXCEPT !.pc = "untrust"]
                                ELSE IF q = t /\ Sees(proc[p].root, q) THEN Ended(q)
                                ELSE proc[q]]
     /\ pidFile' = IF t = NoProc THEN pidFile ELSE NoProc
     /\ UNCHANGED <<disk, trust, installed, crashes>>

\* Mutant: the directory is deleted before the certificate is looked up in it.
RemoveCaCertTooLate(p) ==
  /\ At(p, "untrust")
  /\ Goto(p, "rmdir") /\ UNCHANGED trust
  /\ UNCHANGED <<disk, installed, pidFile, crashes>>

\* "security remove-trusted-cert" needs the certificate in the file.
RemoveCaCert(p) ==
  /\ At(p, "untrust")
  /\ trust' = IF proc[p].root /\ proc[p].pem # Absent THEN trust \ {crt} ELSE trust
  /\ Goto(p, "rmdir")
  /\ UNCHANGED <<disk, installed, pidFile, crashes>>

RemoveDataDir(p) ==
  /\ At(p, "rmdir")
  /\ dir' = FALSE /\ apps' = "none" /\ crt' = Absent /\ key' = Absent /\ pidFile' = NoProc
  /\ proc' = [proc EXCEPT ![p] = None]
  /\ UNCHANGED <<trust, installed, crashes>>

-----------------------------------------------------------------------------
Next ==
  \/ LinkDirs \/ Stop
  \/ \E p \in Proc :
    \/ Setup(p) \/ Uninstall(p) \/ Restart(p) \/ Crash(p) \/ Exit(p) \/ Denied(p)
    \/ FixDataDirOwnership(p)
    \/ SetupTest(p) \/ LoadOrCreateTest(p) \/ Load(p) \/ Generate(p)
    \/ OpenCrt(p) \/ WriteCrt(p) \/ OpenKey(p) \/ WriteKey(p)
    \/ IsTrusted(p) \/ ReadPem(p) \/ AddTrust(p)
    \/ SpawnDaemon(p) \/ InstallStop(p) \/ Reload(p)
    \/ Check(p) \/ Record(p) \/ Bind(p) \/ Leave(p)
    \/ Plan(p) \/ UnloadJob(p) \/ StopProcess(p) \/ RemoveCaCert(p) \/ RemoveDataDir(p)

Spec == Init /\ [][Next]_vars

(***************************************************************************)
(* Properties.                                                             *)
(***************************************************************************)

\* Every variable has its type.
TypeOK ==
  /\ proc \in [Proc -> Process]
  /\ dir \in BOOLEAN /\ apps \in {"none", "user", "root"} /\ crt \in File /\ key \in File
  /\ trust \subseteq Ca /\ installed \in BOOLEAN /\ pidFile \in Proc \cup {NoProc}
  /\ crashes \in 0..MaxCrashes

\* The commands know of a daemon: the PID file names it, or launchd runs it.
Known(p) == pidFile = p \/ IsJob(p)

\* A daemon that serves and that the commands know of signs with a CA that the
\* system trusts, although nobody ever compares the key it reads with the
\* certificate in the keychain.  (One they have lost, because stop, start or
\* status was run without sudo beside a daemon of root, outlives uninstall.)
ServedIsTrusted ==
  \A p \in Proc : At(p, "serve") /\ Known(p) => proc[p].bundle \in trust

\* Where such a daemon serves, link works without sudo, although start and install
\* run under it and link may have been run under it first: the apps are the user's.
AppsAreTheUsers == \A p \in Proc : At(p, "serve") /\ Known(p) => apps = "user"

\* The two files, written separately, by a command or a daemon that finds one
\* missing, never hold the certificate of one CA and the key of another, as long
\* as the operator waits (Waits).
OnePair == crt \in Ca /\ key \in Ca => crt = key

\* The CA that is in use is never replaced, only removed with its directory.
Reused == [][key' # key /\ key \in trust => key' = Absent]_vars
=============================================================================
