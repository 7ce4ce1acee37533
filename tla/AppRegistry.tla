---------------------------- MODULE AppRegistry ----------------------------
(***************************************************************************)
(* The directory ~/.dd-ferryman/apps, which link and unlink change and the *)
(* proxy reads on every request, with no lock between them.  An entry is a *)
(* file that holds a port, or a symbolic link to a project directory whose *)
(* file .dd-ferryman holds it.  Every step is one system call.             *)
(*                                                                         *)
(* The text of a port file matters in one respect: two writers may have it *)
(* open at once, and what the shorter text leaves of the longer one decides*)
(* whether the whole still parses.  Hence a text is a length and the port  *)
(* that read_port gets from it.                                            *)
(***************************************************************************)
EXTENDS Naturals, FiniteSets

CONSTANTS
  Name,       \* valid app names
  Port,       \* port numbers
  NoName,     \* "no app"
  NoPort,     \* "no port can be read"
  Digits,     \* the decimal digits of each port
  Project,    \* directories that can be linked
  NoProject,  \* "no directory"
  Command,    \* link and unlink commands that run at the same time
  Request,    \* requests that are handled at the same time
  MaxEdits    \* bound on what the developer does by hand, Ctrl-C included

ASSUME RegistryAssumption ==
  /\ NoName \notin Name /\ NoPort \notin Port /\ NoProject \notin Project
  /\ Digits \in [Port -> 1..5]
  /\ MaxEdits \in Nat

VARIABLES
  entry,    \* the entries of apps/
  project,  \* the project directories and their port files
  cmd,      \* the link and unlink commands
  req,      \* the requests, while resolve_port runs for them
  edits,    \* how many edits the developer has made
  alone,    \* history: commands that nobody has come across since they began
  linked,   \* history: per request, the projects linked since it arrived
  valid     \* history: per request, the ports the name has had since

vars == <<entry, project, cmd, req, edits, alone, linked, valid>>

(***************************************************************************)
(* Texts and entries.                                                      *)
(***************************************************************************)
Blank == [port |-> NoPort, len |-> 0]
Line(p) == [port |-> p, len |-> Digits[p] + 1]
Text == [port : Port \cup {NoPort}, len : 0..6]

\* Mutant: the text is added to the end.
OverwriteAppending(t, p) ==
  [port |-> IF t.len = 0 THEN p ELSE NoPort, len |-> t.len + Digits[p] + 1]

\* A line written at the start of text t.  One character left of t is its
\* final newline, which read_port trims; with more it is no number.
Overwrite(t, p) ==
  IF t.len <= Digits[p] + 1 THEN Line(p)
  ELSE [port |-> IF t.len = Digits[p] + 2 THEN p ELSE NoPort, len |-> t.len]

Absent == [kind |-> "absent", to |-> NoProject, text |-> Blank]
Directory == [Absent EXCEPT !.kind = "dir"]
File(t) == [Absent EXCEPT !.kind = "file", !.text = t]
Link(d) == [Absent EXCEPT !.kind = "link", !.to = d]

\* What reading the port of a project gives.
ProjectPort(d) == IF project[d].kind = "gone" THEN NoPort ELSE project[d].text.port

\* The port of name n at this moment.
Current(n) ==
  IF entry[n].kind = "link" THEN ProjectPort(entry[n].to) ELSE entry[n].text.port

NoCommand == [op |-> "none", name |-> NoName, port |-> NoPort,
              to |-> NoProject, pc |-> "none", fd |-> "none"]
NoRequest == [name |-> NoName, pc |-> "none", to |-> NoProject, port |-> NoPort,
              fd |-> "none", text |-> Blank, with |-> {}]

InitEntries == [Name -> {Absent, Directory}]
Init ==
  /\ entry \in InitEntries
  /\ project = [d \in Project |-> [kind |-> "dir", text |-> Blank]]
  /\ cmd = [c \in Command |-> NoCommand]
  /\ req = [q \in Request |-> NoRequest]
  /\ edits = 0
  /\ alone = {}
  /\ linked = [q \in Request |-> {}]
  /\ valid = [q \in Request |-> {}]

(***************************************************************************)
(* link and unlink.                                                        *)
(***************************************************************************)
At(c, l) == cmd[c].pc = l
Step(c, l) == cmd' = [cmd EXCEPT ![c].pc = l]
Finish(c) == cmd' = [cmd EXCEPT ![c] = NoCommand]

Invoke(c, n) ==
  LET new == [NoCommand EXCEPT !.name = n, !.pc = "check"]
  IN /\ cmd[c] = NoCommand
     /\ \/ \E p \in Port :
             cmd' = [cmd EXCEPT ![c] = [new EXCEPT !.op = "port", !.port = p]]
        \/ \E d \in Project :  \* resolve_path: it is a directory
             /\ project[d].kind = "dir"
             /\ cmd' = [cmd EXCEPT ![c] = [new EXCEPT !.op = "symlink", !.to = d]]
        \/ cmd' = [cmd EXCEPT ![c] = [new EXCEPT !.op = "unlink"]]
     /\ UNCHANGED <<entry, project, req, edits>>

\* A file without a name: who has it open keeps it, with its text and with the
\* commands W that have it open as well.
Nameless(r, t, W) == [r EXCEPT !.fd = "gone", !.text = t, !.with = W]
Closed(c) == [q \in Request |-> [req[q] EXCEPT !.with = @ \ {c}]]

\* Ctrl-C or kill -9, between any two calls.
Crash(c) ==
  /\ edits < MaxEdits /\ edits' = edits + 1
  /\ cmd[c] # NoCommand /\ Finish(c)
  /\ req' = Closed(c)
  /\ UNCHANGED <<entry, project>>

\* What link does once the entry is gone.
Create(c) == IF cmd[c].op = "port" THEN "open" ELSE "symlink"

\* Mutant: fs::write replaces what there is, so link need not remove it first.
ReplaceKept(c) == IF cmd[c].op = "port" THEN "open" ELSE "remove"

\* What becomes of an entry that is there already.
Replace(c) == "remove"

\* remove_entry and remove_app_entry: the test ...
Check(c) ==
  LET k == entry[cmd[c].name].kind
  IN /\ At(c, "check")
     /\ \/ k \in {"file", "link"} /\ Step(c, Replace(c))
        \/ k = "absent" /\ cmd[c].op # "unlink" /\ Step(c, Create(c))
        \/ k = "dir" /\ Finish(c)
        \/ k = "absent" /\ cmd[c].op = "unlink" /\ Finish(c)
     /\ UNCHANGED <<entry, project, req, edits>>

\* The entry loses its name; who has the file open writes to and reads from a
\* file without one.
Writers(n) == {c \in Command : cmd[c].name = n /\ cmd[c].fd = "entry"}
Unlinked(n) ==
  [c \in Command |-> IF c \in Writers(n) THEN [cmd[c] EXCEPT !.fd = "gone"] ELSE cmd[c]]
Removed(c) ==
  /\ entry' = [entry EXCEPT ![cmd[c].name] = Absent]
  /\ req' = [q \in Request |->
       IF req[q].name = cmd[c].name /\ req[q].fd = "entry"
       THEN Nameless(req[q], entry[req[q].name].text, Writers(cmd[c].name)) ELSE req[q]]
  /\ cmd' = [Unlinked(cmd[c].name) EXCEPT
               ![c] = IF cmd[c].op = "unlink" THEN NoCommand
                      ELSE [cmd[c] EXCEPT !.pc = Create(c)]]

\* Mutant: whatever is there by now is removed, a directory with its contents.
RemoveAll(c) ==
  /\ At(c, "remove")
  /\ IF entry[cmd[c].name].kind = "absent" THEN UNCHANGED <<entry, req>> /\ Finish(c)
                                           ELSE Removed(c)
  /\ UNCHANGED <<project, edits>>

\* ... and remove_file, which removes what is there by now, but no directory.
Remove(c) ==
  /\ At(c, "remove")
  /\ IF entry[cmd[c].name].kind \in {"absent", "dir"}
     THEN UNCHANGED <<entry, req>> /\ Finish(c)
     ELSE Removed(c)
  /\ UNCHANGED <<project, edits>>

\* create_symlink fails when somebody has created the entry meanwhile.
CreateSymlink(c) ==
  LET n == cmd[c].name
  IN /\ At(c, "symlink")
     /\ entry' = [entry EXCEPT ![n] = IF @.kind = "absent" THEN Link(cmd[c].to) ELSE @]
     /\ Finish(c)
     /\ UNCHANGED <<project, req, edits>>

\* write_port_file is fs::write: open with O_CREAT and O_TRUNC, which follows a
\* link somebody has created meanwhile: to a directory it fails, to one that is
\* gone it creates a file there, unless the parent directory is gone too ...
OpenPortFile(c) ==
  LET n == cmd[c].name
      e == entry[n]
  IN /\ At(c, "open")
     /\ \/ /\ e.kind \in {"absent", "file"}
           /\ entry' = [entry EXCEPT ![n] = File(Blank)]
           /\ cmd' = [cmd EXCEPT ![c].pc = "write", ![c].fd = "entry"]
           /\ UNCHANGED project
        \/ /\ e.kind = "link" /\ project[e.to].kind \in {"gone", "file"}
           /\ project' = [project EXCEPT ![e.to] = [kind |-> "file", text |-> Blank]]
           /\ cmd' = [cmd EXCEPT ![c].pc = "write", ![c].fd = "project", ![c].to = e.to]
           /\ UNCHANGED entry
        \/ /\ e.kind = "dir" \/ (e.kind = "link" /\ project[e.to].kind # "file")
           /\ Finish(c) /\ UNCHANGED <<entry, project>>
     /\ UNCHANGED <<req, edits>>

\* ... and write, at the start of the file.
WritePortFile(c) ==
  LET n == cmd[c].name
      p == cmd[c].port
  IN /\ At(c, "write")
     /\ entry' = [entry EXCEPT ![n].text =
                    IF cmd[c].fd = "entry" THEN Overwrite(@, p) ELSE @]
     /\ project' = [d \in Project |->
                      IF cmd[c].fd = "project" /\ d = cmd[c].to
                      THEN [project[d] EXCEPT !.text = Overwrite(@, p)]
                      ELSE project[d]]
     /\ req' = [q \in Request |->
                  IF c \in req[q].with
                  THEN [Closed(c)[q] EXCEPT !.text = Overwrite(@, p)] ELSE req[q]]
     /\ Finish(c)
     /\ UNCHANGED edits

(***************************************************************************)
(* resolve_port, for each request.                                         *)
(***************************************************************************)
Goto(q, l) == req' = [req EXCEPT ![q].pc = l]
Answer(q, p) ==
  req' = [req EXCEPT ![q] = [NoRequest EXCEPT !.name = req[q].name, !.to = req[q].to,
                                              !.port = p]]

\* Mutant: the target of the last request's link is used again.
ArriveKeepsTarget(q, n) ==
  /\ req[q].pc = "none"
  /\ req' = [req EXCEPT ![q].name = n, ![q].port = NoPort,
               ![q].pc = IF req[q].to = NoProject THEN "lstat" ELSE "metadata"]
  /\ UNCHANGED <<entry, project, cmd, edits>>

Arrive(q, n) ==
  /\ req[q].pc = "none"
  /\ req' = [req EXCEPT ![q] = [NoRequest EXCEPT !.name = n, !.pc = "lstat"]]
  /\ UNCHANGED <<entry, project, cmd, edits>>

SymlinkMetadata(q) ==
  LET k == entry[req[q].name].kind
  IN /\ req[q].pc = "lstat"
     /\ \/ k = "absent" /\ Answer(q, NoPort)
        \/ k = "link" /\ Goto(q, "readlink")
        \/ k \in {"file", "dir"} /\ Goto(q, "open_entry")
     /\ UNCHANGED <<entry, project, cmd, edits>>

ReadLink(q) ==
  LET e == entry[req[q].name]
  IN /\ req[q].pc = "readlink"
     /\ IF e.kind = "link"
        THEN req' = [req EXCEPT ![q].pc = "metadata", ![q].to = e.to]
        ELSE Answer(q, NoPort)
     /\ UNCHANGED <<entry, project, cmd, edits>>

Metadata(q) ==
  LET k == project[req[q].to].kind
  IN /\ req[q].pc = "metadata"
     /\ \/ k = "gone" /\ Answer(q, NoPort)
        \/ k = "dir" /\ Goto(q, "open_dir")
        \/ k = "file" /\ Goto(q, "open_file")
     /\ UNCHANGED <<entry, project, cmd, edits>>

\* read_port is open, which follows what is at the path by now, a link put in
\* place of the entry, and finds no file in a project that became something
\* else or, maybe, has no port in it ...
Open(q, f, d) == req' = [req EXCEPT ![q].pc = "read", ![q].fd = f, ![q].to = d]
OpenPort(q) ==
  LET e == entry[req[q].name]
      d == req[q].to
  IN /\ \/ /\ req[q].pc = "open_entry"
           /\ \/ e.kind = "file" /\ Open(q, "entry", d)
              \/ e.kind = "link" /\ project[e.to].kind = "file" /\ Open(q, "project", e.to)
              \/ e.kind = "link" /\ project[e.to].kind # "file" /\ Answer(q, NoPort)
              \/ e.kind \in {"absent", "dir"} /\ Answer(q, NoPort)
        \/ /\ req[q].pc = "open_dir"
           /\ \/ project[d].kind = "dir" /\ Open(q, "project", d)
              \/ /\ project[d].kind # "dir" \/ project[d].text = Blank
                 /\ Answer(q, NoPort)
        \/ /\ req[q].pc = "open_file"
           /\ \/ project[d].kind = "file" /\ Open(q, "project", d)
              \/ project[d].kind # "file" /\ Answer(q, NoPort)
     /\ UNCHANGED <<entry, project, cmd, edits>>

\* ... and read, from the file that was opened.
Found(q) == CASE req[q].fd = "entry" -> entry[req[q].name].text.port
              [] req[q].fd = "project" -> project[req[q].to].text.port
              [] OTHER -> req[q].text.port
ReadPort(q) ==
  /\ req[q].pc = "read" /\ Answer(q, Found(q))
  /\ UNCHANGED <<entry, project, cmd, edits>>

(***************************************************************************)
(* The developer: the port file of a project, saved in place or as a new   *)
(* file, projects moved away and back, directories made by hand in apps/.  *)
(***************************************************************************)
MovedAway(d) ==
  LET W == {c \in Command : cmd[c].to = d /\ cmd[c].fd = "project"}
  IN [q \in Request |-> IF req[q].fd = "project" /\ req[q].to = d
                        THEN Nameless(req[q], project[d].text, W) ELSE req[q]]
Edit ==
  /\ edits < MaxEdits /\ edits' = edits + 1
  /\ \/ \E d \in Project, t \in {Blank} \cup {Line(p) : p \in Port} :
          /\ project[d].kind = "dir" /\ project[d].text # t
          /\ project' = [project EXCEPT ![d].text = t]
          /\ req' \in {req, MovedAway(d)}
          /\ UNCHANGED <<entry, cmd>>
     \/ \E d \in Project :
          /\ project' = [project EXCEPT ![d] =
               [kind |-> IF @.kind = "gone" THEN "dir" ELSE "gone", text |-> Blank]]
          /\ cmd' = [c \in Command |-> IF cmd[c].to = d /\ cmd[c].fd = "project"
                                       THEN [cmd[c] EXCEPT !.fd = "gone"] ELSE cmd[c]]
          /\ req' = MovedAway(d)
          /\ UNCHANGED entry
     \/ \E n \in Name :
          /\ entry[n] = Absent
          /\ entry' = [entry EXCEPT ![n] = Directory]
          /\ UNCHANGED <<project, cmd, req>>

-----------------------------------------------------------------------------
\* History of the commands and the requests in progress, for LinkTakesEffect and
\* AnswerOfItsTime.
Ports == [n \in Name |-> Current(n)]
ProjectPorts == [d \in Project |-> ProjectPort(d)]

\* The ports of the links that have a port file open, that of the entry n or
\* that of a project in D.
HasOpen(c, n, D) == \/ cmd[c].fd = "entry" /\ cmd[c].name = n
                    \/ cmd[c].fd = "project" /\ cmd[c].to \in D
BeingWritten(n, D) == {cmd[c].port : c \in {k \in Command : HasOpen(k, n, D)}}

Record ==
  /\ alone' = {c \in Command :
       /\ cmd'[c] # NoCommand /\ (c \in alone \/ cmd[c] = NoCommand)
       /\ \A d \in Command \ {c} : cmd'[d].name # cmd'[c].name}
  /\ linked' = [q \in Request |->
       IF req'[q].pc = "none" THEN {}
       ELSE linked[q] \cup ({entry'[req'[q].name].to} \ {NoProject})]
  /\ valid' = [q \in Request |->
       IF req'[q].pc = "none" THEN {}
       ELSE valid[q] \cup {Ports'[req'[q].name]} \cup {ProjectPorts'[d] : d \in linked'[q]}
                     \cup BeingWritten(req[q].name, linked[q])']

Next ==
  \/ \E c \in Command, n \in Name : Invoke(c, n) /\ Record
  \/ \E c \in Command :
       \/ Crash(c) /\ Record
       \/ Check(c) /\ Record
       \/ Remove(c) /\ Record
       \/ CreateSymlink(c) /\ Record
       \/ OpenPortFile(c) /\ Record
       \/ WritePortFile(c) /\ Record
  \/ \E q \in Request, n \in Name : Arrive(q, n) /\ Record
  \/ \E q \in Request :
       \/ SymlinkMetadata(q) /\ Record
       \/ ReadLink(q) /\ Record
       \/ Metadata(q) /\ Record
       \/ OpenPort(q) /\ Record
       \/ ReadPort(q) /\ Record
  \/ Edit /\ Record

Spec == Init /\ [][Next]_vars

(***************************************************************************)
(* Properties.                                                             *)
(***************************************************************************)

\* Every variable has its type; in particular no text grows beyond a line.
TypeOK ==
  /\ \A n \in Name : entry[n].kind \in {"absent", "dir", "file", "link"}
                     /\ entry[n].text \in Text
  /\ \A d \in Project : project[d].kind \in {"dir", "gone", "file"}
                        /\ project[d].text \in Text
  /\ \A c \in Command : cmd[c].pc \in {"none", "check", "remove", "symlink", "open", "write"}
                        /\ cmd[c].fd \in {"none", "entry", "project", "gone"}
  /\ \A q \in Request : req[q].port \in Port \cup {NoPort} /\ req[q].text \in Text

\* The port a request is sent to, or its 404, was right for the name at some
\* moment since the request arrived, or a link was writing it then: whatever
\* links, unlinks and edits happen between the five system calls of
\* resolve_port, no request is answered from an older registration or from a
\* mixture of two.  (A project that was linked when its link was read counts
\* until the request is answered.  A link's port counts before it is written,
\* for when another one unlinks the file they both have open, the request
\* reads there what no name leads to any more.)
AnswerOfItsTime ==
  [][\A q \in Request : req[q].pc # "none" /\ req'[q].pc = "none"
                         => req'[q].port \in valid[q]]_vars

\* link and unlink never remove a directory somebody made in apps/, not even
\* one made between their test and their removal.
DirectoriesAreSafe == [][\A n \in Name : entry[n] = Directory => entry'[n] = Directory]_vars

\* link and unlink take effect whatever earlier commands have left behind, a torn
\* or an empty port file or a link to nowhere, those that were killed included:
\* a command that is not killed itself, and whose name no other one changes at
\* the same time, leaves the registration it was asked for.
LinkTakesEffect ==
  [][\A c \in alone :
       LET n == cmd[c].name
       IN cmd'[c] = NoCommand /\ edits' = edits /\ entry'[n] # Directory =>
            entry'[n] = CASE cmd[c].op = "port" -> File(Line(cmd[c].port))
                          [] cmd[c].op = "symlink" -> Link(cmd[c].to)
                          [] OTHER -> Absent]_vars

\* When nobody works on it any more, a port file holds a port: one of the
\* commands that wrote it, which all said so, has its way.
Reachable ==
  \A n \in Name : /\ entry[n].kind = "file"
                  /\ \A c \in Command : cmd[c].name # n
                  => Current(n) \in Port
=============================================================================
