# A TLA+ model of dd-ferryman

dd-ferryman serves local apps as `https://<name>.test`: one daemon with a DNS
server and an HTTPS reverse proxy, a handful of commands that start, stop,
install and remove it, a local certificate authority, and a directory with one
entry per app. The parts run in separate processes and threads that share files,
the process table, the system keychain and launchd, and hardly any of them takes
a lock. That is what this project models, checks with TLC and proves with TLAPS.

Paths below are relative to the repository (`src/` is its source directory).

## Inventory

| Component | State | Operations | What is hard |
|---|---|---|---|
| PID file, process checks (`process.rs`) | `ferryman.pid`: absent, empty, a PID | write, read, remove, `kill -0` | test and use are separate calls; `fs::write` truncates first; `kill -0` also fails for lack of permission; PIDs are reused |
| Daemon (`commands/start.rs`) | process, its two server tasks, signal flags | check, claim the PID file, load the CA, bind, `select!`, shut down | signals before the handlers exist; one server failing; ending without removing the file |
| `start`, `stop`, `status` | PID read at the beginning | set up, spawn, signal, poll, remove the file | no command waits for the daemon to come up; polls time out |
| `install`, `uninstall`, launchd | plist, loaded job, its process | unload, write, load; a plan of five steps | launchd restarts what others stop; errors are ignored |
| Local CA (`tls/ca.rs`, `start.rs`) | `ca.crt`, `ca.key`, keychain | generate, save, load, trust, untrust | two files written one after the other, each created before it is written; trust is looked up by name; a daemon may outlive its CA |
| Leaf certificates (`tls/resolver.rs`, `tls/cert.rs`) | cache behind a read-write lock | resolve | the lock is not held while a key is generated |
| App registry (`commands/link.rs`, `unlink.rs`) | `apps/<name>`: file or symbolic link | link, unlink | remove, then create, then write, next to readers |
| Reverse proxy (`proxy.rs`) | a pool of connections to the apps | take the name from the host, look the port up, forward, collect the answer | five file system calls on an entry that changes; connections that break, in use or idle; no descriptors left |
| HTTPS server (`server.rs`) | a listening port, one task per connection | bind, accept, handshake, serve | binding fails while another daemon lives; accept fails without a descriptor |
| DNS server (`dns.rs`) | a socket | bind, receive, answer | malformed and lost datagrams; a loop that must go on |
| Paths (`paths.rs`) | `~/.dd-ferryman`, its owner | create, chown | the directory belongs to the user, the daemon to root; created and given away in two steps |
| Command line, logging (`cli.rs`, `main.rs`) | none | parse | none; not modelled |

Interactions: `start` spawns the daemon and returns; the daemon, and every other
command, learns of other processes only from the PID file and `kill -0`. `stop`,
`install` and `uninstall` signal the PID they read. launchd starts the daemon
with `--foreground` whenever a loaded job has no process. The daemon loads the CA
once and hands it to the resolver, which the TLS handshakes share. The proxy
reads `apps/` anew on each request; `link` and `unlink` never talk to it. A client
goes from the DNS server to the HTTPS server to the proxy, each of which reads
the host name in its own way.

## Modules

| Module | Models | Extended by |
|---|---|---|
| `Lifecycle` | PID file, commands, daemon, signals, launchd, reboot | `MCLifecycle`, `LifecycleProofs`; the latter by `ManualProofs`, `UninstallProofs` |
| `OneDaemon` | abstract: one holder of the service at a time; `Lifecycle` implements it | |
| `CaStore` | the CA on disk, in the keychain and in the daemons, those that the commands have lost included; whose `apps/` is | `MCCaStore`, `CaStoreProofs` |
| `AppRegistry` | entries, link and unlink, `resolve_port` | `MCAppRegistry`, `AppRegistryProofs` |
| `CertResolver` | the certificate cache and the handshakes | `MCCertResolver`, `CertResolverProofs` |
| `CertCache` | abstract: a cache that acts at one moment; `CertResolver` implements it | |
| `Names` | spellings of a host and how DNS, TLS and proxy read them | `Serving` (instantiated by `MCCertResolver`) |
| `Serving` | a client's way through DNS, HTTPS and proxy to an app | `MCServing`, `ServingProofs` |

The MC modules only hold what TLC needs: model values, symmetry sets, the values
of functions. Operators whose comment begins with "Mutant" are variants of a
definition with a plausible mistake in it; no specification uses them. Each is
what one property is there to exclude, and substituting it for the original makes
TLC find that property violated.

### Lifecycle

`proc` is the process table. Each invocation of the program is a process with a
command, a program counter naming the call it is about to make, the PID it has
read (`seen`), its privileges and a pending-SIGTERM flag. A step is one call on
shared state, so every interleaving of two invocations is a behaviour.

| Code | Actions |
|---|---|
| `process::read_pid` | `ReadPidExists`, `ReadPidContents` (test, then read) |
| `process::is_running` | `IsRunning`, with `WhenNoFile`, `WhenRunning`, `WhenDead` for what each command does with the answer |
| `process::remove_pid` | `RemovePidTest`, `RemovePidUnlink` (test, then unlink), used by `RemoveStale` and `RemoveOwn` |
| `process::write_pid` | `OpenPidFile`, `WritePidFile`; `fds` says whether the descriptor still is the file at the path |
| `first_run_setup` | `EnsureDirs`, `SetupTestsCa`, `TrustCa`, `WriteResolver` |
| `load_or_create_ca`, `save_ca_to`, `load_ca_from` | `LoadOrCreateCa`, `SaveCrt`, `OpenKey`, `WriteKey`, `LoadCa` |
| `daemonize` | `Daemonize` |
| `run_foreground` | `PollSelect`, `Bind`, `SelectFailed`, `SelectShutdown` |
| `stop::run` | `Kill`, `WaitForExit` |
| `install::run` | `InstallUnload`, `WritePlist`, `LoadJob` |
| `uninstall::run`, `execute_step` | `Plan`, `UninstallUnload`, `RemoveResolver`, `RemoveCaCert`, `RemoveDataDir` |
| operator, kernel, launchd (external) | `Invoke`, `Interrupt`, `Exit`, `Crash`, `Reboot`, `OtherProgram`, `OtherExits`, `LaunchdSpawn` |

`ca` is what a later command meets of the CA: nothing, a certificate only, an empty
`ca.key`, or a key. A crash leaves it where it was, and `load_ca_from` fails on an
empty key each time. Which key pair the files hold, and whether it is the one that
is trusted, is left to `CaStore`.

Abstractions. The two existence tests of `ca_exists_in` are one step, as are the
existence tests of `detect_cleanup` but for the PID file, and `remove_dir_all`.
The steps of an uninstall run as root succeed. `launchctl unload` signals the
process and does not wait for its end. The PIDs in the file are of equal length,
so that two writers never leave a mixture. An unprivileged caller can unlink the
PID file, because `fix_data_dir_ownership` gives the directory to the user; it
cannot signal a root process. Whether an unprivileged daemon may bind port 443 is
left open. At most one other program at a time has a PID of interest. Three fields
are reset as soon as the code no longer reads them.

`OneDaemon` says what all this is for: the service changes hands only when its
ports are free, only its holder takes a port, and the commands do not forget a
holder that was not told to leave. `ImplementsOneDaemon` maps the holder to the
daemon that `Claims` the PID file, the ports to the server tasks that are up, what
is known to the PID in the file, and leaving to the pending signal.

### CaStore

A file is absent, empty, or holds the certificate or the key of a key pair in
`Ca`. The setup of `start` and `install` and the daemon's `load_or_create_ca` are
taken call by call: both existence tests (`SetupTest`, `LoadOrCreateTest`),
`Load` (which reads `ca.key` only), `Generate` in memory, `OpenCrt`, `WriteCrt`,
`OpenKey`, `WriteKey`, then `IsTrusted` (a certificate of our *name* is in the
keychain), `ReadPem`, `AddTrust`. `install` then ends the daemon it finds and
loads the job (`InstallStop`, `Reload`). `uninstall` is `Plan`, `UnloadJob`,
`StopProcess`, `RemoveCaCert`, `RemoveDataDir`, all but the last one failing
silently without root. `Crash` ends any process between any two calls; `Denied`
lets any call fail without root.

Commands and daemons are processes, and a daemon goes through `Check`, `Record`,
the CA, `Bind` and `Leave`. Whom a command ends, and what a start takes for a
running daemon, depends on `pidFile` and on root (`Found`), as in the code, so
there are daemons that no command finds. `sudo start; start; sudo uninstall` makes
one: the start without sudo cannot signal root's daemon, takes it for dead and
deletes its PID file, and the uninstall has nobody to end. Such a daemon serves on
with a CA that is gone and no longer trusted. `ServedIsTrusted` and
`AppsAreTheUsers` are therefore about the daemons that the commands know of
(`Known`: the PID file names it, or launchd runs it); `OnePair` and `Reused` say
that a lost one harms no CA that comes after its own.

What is assumed of the operator is in `Waits`: one command at a time, each when the
last daemon is up or gone (launchd may be restarting its own), and `start
--foreground` left to `start` and launchd. Without it, `start; uninstall` before
the daemon has written its PID leaves a daemon that may generate a CA beside the
next start. Simplified are: each use of the PID file (`Lifecycle` takes it apart),
both ports bound at once, no PID reused as long as the file or a command remembers
it. `apps` is the owner of `apps/`: `Setup`
(`ensure_dirs`), `Generate` and `LinkDirs` (the `create_dir_all` of `link`, perhaps
under sudo) create it, `FixDataDirOwnership` gives it to the user.

### AppRegistry

`entry` maps each name to nothing, a port file, a symbolic link, or a directory
somebody made. `link` and `unlink` are `Check`, `Remove` and then `CreateSymlink`
or `OpenPortFile` and `WritePortFile`; a descriptor follows its file when the name
is removed. `resolve_port` is `SymlinkMetadata`, `ReadLink`, `Metadata`,
`OpenPort`, each of which looks at what is at the path by then, and `ReadPort`,
which reads the file that was opened, also when it has lost its name since
(`Nameless`) and only a link that has it open too still writes to it. `Edit` is
the developer: the port file of a project, a project moved away or back, a
directory made in `apps/`. A text is a length and the port `read_port` finds in
it, which is all that decides what two overlapping writers leave behind
(`Overwrite`). `Crash` kills a command between any two of its calls. `alone`,
`linked` and `valid` are history variables; no action reads them.

`AnswerOfItsTime` counts two kinds of answers as right: a port that was registered
for the name at some moment of the request, and the port of a link that had a file
of that name open then. The second kind is needed: a request that has opened the
empty file of one link, which another link unlinks before the first one writes,
reads a port that was never registered.

### CertResolver

Each handshake goes through `Hello`, `Lookup` (read lock), `Generate` (no lock;
may fail), `Insert` (write lock) and `Close`. `Norm` is `normalize_domain`: a
constant function from spellings to normal forms, assumed idempotent. A
certificate is its name and a number. Each task remembers which names had been
answered when it began (`before`), which only a property reads. Lock poisoning
(a panic under the lock) is left out. The MC module takes the spellings and their
normal forms from `Names`.

`CertCache` is the same without steps in between: a call is answered with the
current certificate of its name, or, if it began before the name had one, with a
new one that is current from then on. `ImplementsCache` lets a call happen when
it reads the cache with success or writes it.

### Names and Serving

A spelling is the app a host stands for, its top-level domain, where it has
capitals, whether it ends with a dot, and whether a port follows: what
`is_test_domain`, `normalize_domain` and `extract_app_name` tell apart.

`client` maps each client to where it is, with the handler of its request while
there is one. `Lookup`, `Send` and `Malformed` put datagrams into `inbox`, the
buffer of the DNS socket; `Receive` is one turn of the loop of `run_dns_server`,
with `HandleQuery` and `Reply`. `Connect` and `Accept` go through the `backlog`;
`Handshake` may fail; `Close` ends a connection. `proxy::handler` is `Request`,
`Route` (the name, and `ResolvePort`), `Forward` (an idle connection of the
`pool`, or a new one), `Await` (the head of the answer) and `Collect` (its body);
`Abort` is a client that goes away meanwhile. `Relink`, `StartApp` and `StopApp`
are the developer.

Connections to the app break in three ways. Those in use are `cut` when the app
ends (`StopApp`) or for any other reason (`Break`: refused, reset, no HTTP). Idle
ones become `stale` when the app ends or closes them (`Hangup`), and stay so until
hyper notices (`Notice`). `Forward` may take a stale one, which is a 502 although
the app is up; that hyper may try again on another connection is `Notice` before
`Forward`. `Recovers` says that this comes to an end: once the app's link and its
port stay, and there are descriptors for those who need one, no 404, no 502 and no
empty body is the last word. It fails if a broken connection finds its way back
into the pool.

Descriptors are counted, not stored: `Used` is the number of connections of
clients, of connections to apps in use, and of idle ones. Without one `accept`
waits, a port file cannot be read (the `ok()?` of `read_port`) and no connection
to an app can be opened.

Abstractions: `resolve_port` and the TLS handshake are one step each, since
`AppRegistry` and `CertResolver` take them apart; a query has one question; a
connection carries one request at a time; a death of the app cuts the connections
in use at once.

## What the runs check

| Run | Instance | Shows |
|---|---|---|
| `manual` | 4 PIDs, reuse, sudo, one command at a time, each when the last daemon is up or gone, 2 faults, polls may time out, fair | `Exclusive`: one daemon passes the check at a time; `Tracked`: at rest the PID file names the daemon that serves; `OnlyStaleRemoved`: a file deleted as stale never names a live daemon; `TruthfulVerdict`: "not running" is only said when nothing serves; `SignalsItsDaemon`: stop signals the daemon that serves, and another program only after a crash or a reboot; `StartBringsUp`, `ForegroundServes`, `StopFrees`: once faults cease, up to an empty CA key and, for `start --foreground`, a PID file it cannot get past; `ImplementsOneDaemon` |
| `installed` | 3 PIDs, reuse, sudo, start, install, uninstall, one at a time, 2 faults, polls may time out, fair | `UninstallCleans`: nothing is left behind; `KeptAliveUnlessWedged`: launchd brings the daemon back, unless a PID file or a CA key was left unwritten or the PID file names another program; `UninstallStops` |
| `concurrent` | 3 PIDs, 2 commands at a time, the operator does not wait, fair | `FatalTerm`: SIGTERM ends a daemon wherever it is; `ServesOrDies`: never half a daemon |
| `ca_store` | 4 processes, 5 key pairs, with and without sudo, 3 crashes | `ServedIsTrusted`: what a daemon signs with is trusted, if the PID file names it or launchd runs it; `OnePair`; `Reused`: a trusted CA's key is never overwritten; `AppsAreTheUsers`: where such a daemon serves, link works without sudo |
| `app_registry` | 1 name, 2 ports of 2 and 4 digits, 2 projects, 2 commands, 1 request, 2 edits or kills | `AnswerOfItsTime`: every port and every 404 was right, or just being written, at some moment of the request; `LinkTakesEffect`: a command that no other one crosses leaves what it was asked for, whatever killed or overlapping ones left before; `DirectoriesAreSafe` |
| `cert_resolver` | 3 handshakes, 2 names in 3 spellings | `ServedForName`; `NoRegeneration`: whoever begins after an answer generates nothing; `FewCerts`: a name costs no more certificates than there are simultaneous handshakes; `ImplementsCache` |
| `serving` | 2 clients, 1 app, 1 port, 5 questions, 2 datagrams, 3 descriptors, 1 fault (a malformed datagram or a connection that breaks), fair | `Agree`: whom DNS sends here the proxy does not turn away, but for final dots, capital top-level domains and the bare domain `test`; `Reached`: whoever asks is connected; `RequestsEnd`: no request waits for ever; `Recovers`: once the app, its link and the descriptors are there to stay, errors end |

Each of these runs also checks its module's `TypeOK` (`Lifecycle`'s in `manual`).
`Serving`'s includes that no more descriptors are used than there are.

Five runs are there for a counterexample: the code does something else than a
sentence of the repository says.

| Run | Property | What happens |
|---|---|---|
| `stop_under_launchd` | `Tracked` | `stop` in installed mode: launchd restarts the daemon before `stop` deletes the PID file, which is the new daemon's by then. `README.md:151`: "Written on daemon start, removed on stop. Used to detect whether the daemon is already running." |
| `unprivileged_status` | `OnlyStaleRemoved` | `status` without sudo takes "not permitted" for "dead" and deletes the PID file of the running daemon. `status.rs:23`: "stale PID file removed" |
| `empty_pid_file` | `KeptAlive` | A crash between truncating and writing the PID file: launchd's restarts fail from then on. `README.md:72`: "Restarts on crash ... Yes" |
| `unprivileged_uninstall` | `ServedIsTrusted` | `uninstall` without sudo deletes the CA and leaves its certificate trusted; the next CA, whoever generates it, is taken for trusted by its name. `README.md:103`: "your system already trusts the CA" |
| `torn_port_file` | `Reachable` | Two links of one name overlap, with ports of 2 and 4 digits: "80" over "3000" parses as no port. `link.rs:19` has reported both as linked |

Met while modelling and not made into runs. `start --foreground` as the first
command fails, since it skips the setup that creates the directory (`start.rs:20`
against `README.md:154`). Two starts at once both pass the check (`start.rs:185`);
one of the daemons then fails to bind and dies, and the PID file may be the
loser's. After a reboot the PID in the file may be another process's, so that
launchd's daemon does not start (`start.rs:14`) or `stop` signals that process
(`stop.rs:21`), or the new daemon's own, which then takes itself for the running
one. An empty `ca.key` left by a crash makes every start fail (`ca.rs:76`) until
the user deletes it. These are what `Wedged`, `Mistaken`, `KeyUnwritten` and the
operator's patience stand for in the properties of `Lifecycle`. A start without
sudo beside a root daemon, followed by `sudo uninstall`, leaves that daemon serving
(`start.rs:13-17`, `uninstall.rs:51-53`; under `CaStore`). A cached certificate is
never renewed. An error in the middle of an app's answer becomes an empty body
(`proxy.rs:103`), and with no descriptor left a registered app is reported as not
registered (`proxy.rs:34`): `Recovers` says of both only that they end with their
cause. A host with a final dot or a capital in its top-level domain resolves and
gets its certificate, and then a 404 (`proxy.rs:30` against `README.md:91`, "make
`anything.test` resolve, get a trusted certificate, and reach your app"); the bare
domain `test` resolves (`dns.rs:78`) and is no host of the proxy (`proxy.rs:30`).
These are the exceptions that `Agree` states, and it fails without them. The bare
domain was found by the proof of `Agree`: the run's questions did not contain it
then.

### Bounds and why they are enough

- Processes: a command, the daemon it looks at, the daemon launchd or `start`
  puts in its place, and one more to hold a reused PID. Each race needs two
  actors, and the third one to disturb them. `MaxCommands` and the number of
  PIDs bound nothing else.
- Faults and crashes are bounded (`MaxFaults`, `MaxCrashes`), commands are not: a
  behaviour contains any number of commands, so long sequences of legal calls are
  covered. Two faults allow a second one during the recovery from the first.
- `CaStore`: a command, the daemon or job it knows of, and two more, lost or on their
  way out. It needs a new key pair per generation that can be remembered somewhere:
  the keychain, two files, and the processes.
- `AppRegistry` has one name, because entries share nothing but project
  directories, and two ports of different length so that overlapping writers may
  leave a text that no longer parses. `MaxEdits` is two: a project moved away and
  back, an edit behind a relink, or a command killed on the leavings of another.
- `Serving`: two clients compete for three descriptors, so that each of the three
  kinds of use can be the last one. One port is enough, since a relink to the same
  port over "not registered" and a restart of the app are the two ways in which a
  looked-up port becomes stale. Two datagrams fill the socket buffer with two
  clients or with one and a malformed one. One fault: the loop of the DNS server
  keeps no state, and what a broken connection leaves behind is gone before the
  next one breaks or is part of the same pool; that faults end is what `Recovers`
  presupposes. The end of an app is no fault, and breaks all its connections any
  number of times.
- `CertResolver` needs no bound on what is generated: that `FewCerts` holds is
  what makes its state space finite.
- `Patient` makes the operator wait until a daemon is up or gone. `manual` and
  `installed` need it, since two starts at once defeat the check (above);
  `concurrent` is the run without it.
- Symmetry (process identifiers, handshakes, projects and commands) is used only
  in runs without liveness properties.

### Fairness

`Lifecycle`'s `FairSpec` has weak fairness on every step of a process that has
begun and strong fairness on launchd's restarting of a loaded job with a PID that
is not the one in the file: a daemon that gets the very PID the last one had takes
itself for running and exits, which does not happen each time. The kernel
schedules processes, none of their calls waits for another process (polling is
bounded), and the tokio runtime polls its tasks; launchd documents KeepAlive. The
operator, faults, reboots and other programs are not fair. A `select!` with two
branches ready may take either. Nothing forces a fault to happen or a command to
be given; properties that need an end of the faults begin at `faults = MaxFaults`.

`Serving`'s `FairSpec` has weak fairness on the tasks of the daemon: its two
loops, the handshakes and the handlers. Weak fairness on `Await` and `Collect`
also says that an app answers while it lives, since the code sets no timeout, and
on `Expire` and `Notice` that hyper closes idle connections and drops those that
were closed, which it does. Strong fairness is on two things that are possible
again and again and not all the time: a resolver that sends its query again is not
dropped by a full buffer each time (`Send`), and a client does not keep its
connection for ever (`Close`). Relinks, stops and starts of apps, faults, broken
connections and aborts are not fair. `CaStore`, `AppRegistry` and `CertResolver`
are checked for safety only. The deadlock check is on in every run.

## What is proved

Every type invariant, safety invariant and action property of the passing runs,
and both refinements, are theorems of the specification, for any values of the
constants. None needs fairness. Where a theorem has hypotheses, they are a
constant or a named operator of its module and say how the program is operated.
Each part of each of them is needed: for every property in that row TLC finds a
violation in an instance where only this part fails. The one exception is
`Reused`, which TLC finds to hold also where `uninstall` may lack root (3
processes, 1 crash); its proof needs the hypothesis.

| Module | Hypotheses | Theorems (property) |
|---|---|---|
| `LifecycleProofs` | none | `TypeCorrect` (`TypeOK`) |
| `ManualProofs` | `ManualAsRoot` | `ManualExclusive` (`Exclusive`), `ManualTracked` (`Tracked`), `ManualRemovesOnlyStale` (`OnlyStaleRemoved`), `ManualVerdicts` (`TruthfulVerdict`), `ManualSignals` (`SignalsItsDaemon`), `DaemonRefinement` (`ImplementsOneDaemon`) |
| `UninstallProofs` | `OneAtATimeAsRoot` | `UninstallLeavesNothing` (`UninstallCleans`) |
| `CaStoreProofs` | none | `CaTypeCorrect` (`TypeOK`) |
| | `UninstallsAsRoot` | `CaServedIsTrusted` (`ServedIsTrusted`), `CaOnePair` (`OnePair`), `CaAppsAreTheUsers` (`AppsAreTheUsers`), `CaReused` (`Reused`) |
| `AppRegistryProofs` | none | `RegistryTypeCorrect` (`TypeOK`), `RegistryKeepsDirectories` (`DirectoriesAreSafe`), `RegistryAnswers` (`AnswerOfItsTime`), `RegistryLinks` (`LinkTakesEffect`) |
| `CertResolverProofs` | none | `ResolverTypeCorrect` (`TypeOK`), `RightCertificate` (`ServedForName`), `CachedForever` (`NoRegeneration`), `CertsAreFew` (`FewCerts`), `CacheRefinement` (`ImplementsCache`) |
| `ServingProofs` | none | `ServingTypeCorrect` (`TypeOK`), `ServersAgree` (`Agree`) |

All rest on the named `ASSUME`s of the modules (special values are not PIDs,
certificates or projects; `Norm` is idempotent; a port has one to five digits),
which TLC evaluates on every run.

### The arguments

`LifecycleProofs`. `TypeOK` is inductive as it stands, given that `Daemonize`,
`LaunchdSpawn` and `Invoke` only use free PIDs.

`ManualProofs`. `ManualAsRoot` is an operator who uses sudo, lets a daemon come up
or go before the next command, and does not install the launchd job. Each part is
needed for each of the six: of two starts at once both pass the check, `kill -0`
without root does not see the daemon (`unprivileged_status`), and launchd restarts
what `stop` waits for (`stop_under_launchd`). Crashes, reboots, PIDs of other
programs, polls that give up and CA files half written are all allowed.
`Exclusive` is not inductive, since daemons exclude each other through a file and
a `kill -0` that they look at long before they claim the file. `ManualInv` says
what an observer (a command, or a daemon that still checks) may rely on: as long
as it looks, a daemon that holds the service is settled, that is, it serves and
its PID is in the file; once the observer has found nothing there is no daemon;
once it has sent SIGTERM the daemon it waits for knows; the file cannot have
changed since it was read. The refinement uses the same invariant: claiming the
file is `OneDaemon`'s beginning of service, binding a server takes a port, the
signal makes the holder leave, and what a command forgets by unlinking was told to
leave or is dead. `ManualSignals` needs a second invariant for its other half,
that no PID file names another program before the first crash or reboot
(`Faultless`): until then the file names a daemon that holds the service, or
somebody who knows is about to delete it.

`UninstallProofs`. `OneAtATimeAsRoot` drops the hypothesis on launchd, but keeps
sudo and patience: an uninstall without sudo deletes the data directory and leaves
the trust, which the next one no longer plans to remove, and a `start` beside an
`uninstall` sets up again what is gone. The danger is a daemon that launchd
restarts meanwhile: until it has loaded its CA it may create the data directory.
`UninstallInv` says that any such daemon is the job, which uninstall has ended
before it removes the first thing, and that what it has not planned to remove was
not there when it looked and has not come since.

`CaStoreProofs`. Nobody compares the key with the certificate that is trusted.
`CaInv` explains why they fit. While the system trusts nothing, no daemon that the
commands know of serves (`NothingServes`) and the one command that runs works on
the files alone, key last (`FilesFit`); from the moment a certificate is trusted
until `uninstall` has taken it out of the keychain, the certificate on disk is
the trusted one, the key file holds its key or, after a crash, nothing, and nobody
writes them (`TrustFits`). For this a daemon that no command knows of must
not be on its way to the files: `JobOnly` says that when a command runs, only
launchd's daemon can be coming up, and it loads what is there once a CA is trusted.
A lost daemon has its CA and never opens the files again. With an uninstall that
lacks root the trust outlives its CA (`unprivileged_uninstall`), hence
`UninstallsAsRoot`; the other commands may be run with or without sudo. That
commands come one at a time, each when the last daemon is up or gone, is part of
the specification (`Waits`).

`AppRegistryProofs`. `resolve_port` decides on what it sees first, opens by path
later and reads what it opened later still. `RegistryInv` says what a request has
gathered: as long as the entry is what it saw, the port there is one of the right
answers so far, and if the entry is something else by now, it was absent in
between, so that no port is a right answer, too. Of a file it has opened and that
lost its name (`HoldsOn`), the text is a right answer, and so is the port of every
command that still has it open. This rests on two lemmas on how an entry and a
project can change in one step. The other half is on a command nobody has come
across: at each of its calls the entry is as its last call left it.

`CertResolverProofs`. `CacheInv`: a handshake under way knows the normal form of its
name, what is cached for a name is a certificate for it, every answered name is
cached, and what a task saw answered when it began still is; a lookup misses only
if the name was never answered, because entries are replaced and never removed.
For the refinement, `AnswerInv` adds that what is cached was answered to somebody and
that whoever is about to insert began before the name had an answer. `Lookup` with
success is `Give`, `Insert` is `Issue`, a failed generation `Refuse`, `Close` is
`Forget`, and the other steps, `Hello` apart, stutter. `FewCerts` needs counting
(`CountInv`): until a name is answered, every certificate generated for it is still
held by a handshake about to insert it; from then on the number generated and the
number of tasks that looked before and may still generate are together at most the
number of handshakes.

`ServingProofs`. `Turn` lists what a step can do to one client, and `TurnNext` shows
that every step does that to every client; the invariants on single clients follow
from it. `ServingInv` says that a connected client asked for a `.test` domain, that
who waits to be accepted is in the backlog once, and that a request that was routed
has a port to go to. `Used <= Fds` is the bound
on three cardinalities at once: a step that takes a descriptor begins with one
free, and no other step increases the sum.

Only model-checked: liveness (`StartBringsUp`, `ForegroundServes`, `StopFrees`,
`KeptAliveUnlessWedged`, `UninstallStops`, `FatalTerm`, `ServesOrDies`, `Reached`,
`RequestsEnd`, `Recovers`). It depends on fairness and `ENABLED`, which are out of
the reach of the prover's installed backends.

## Not modelled

Argument parsing, logging, output and the text of the plist; cryptography and the
contents of certificates, so also their validity period; the bytes of DNS packets
and of HTTP messages, queries with several questions, connections with several
requests at a time; name servers and clients other than by what they send; the
death of the daemon while it serves a client (`Lifecycle` has it, `Serving` not);
`validate_name` (names are valid); file permissions beyond the owner of the
directory, of `apps/` and of the daemon; concurrent edits of `~/.dd-ferryman` by
hand other than those of `Edit`; disk-full and similar errors, except where a
fault stands for them (`LoadJob`), and failing steps of an `uninstall` run as root.

## Plan

Done: `Lifecycle` first, since everything else lives in the daemon it starts and
stops; `CaStore`, `CertResolver` and `AppRegistry`; `Names` and `Serving`, which put
the three servers in a row; the abstract specifications `OneDaemon` and `CertCache`;
the proofs of all their safety properties.

What is left:

1. What survives of `ManualProofs` when launchd runs the daemon. Nothing does of the
   six properties as they stand (TLC refutes each of them there, `TruthfulVerdict`
   as soon as `status` is given); a weaker promise has to be found first, to be
   checked in `installed` and then proved.
2. What `OneDaemon` and `CertCache` promise, as theorems about the abstract
   specifications, so that they carry over through the refinements: nobody takes a
   port that another holder has, and whoever begins after an answer gets the current
   certificate.
3. Lemmas about `Names` for every spelling: the normal form of a normal form is
   itself, which `CertResolver` assumes of `Norm`; what DNS and TLS take for the same
   host.
4. The safety half of the liveness properties: a daemon that has one of its ports
   and has not yet got SIGTERM is on its way to the other or to its end.
