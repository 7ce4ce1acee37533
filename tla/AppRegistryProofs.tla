------------------------- MODULE AppRegistryProofs -------------------------
(***************************************************************************)
(* Theorems about AppRegistry, for any number of names, ports, projects,   *)
(* concurrent commands, concurrent requests and edits: all that the run    *)
(* app_registry checks.                                                    *)
(***************************************************************************)
EXTENDS AppRegistry, TLAPS

(***************************************************************************)
(* The inductive invariant.                                                *)
(*                                                                         *)
(* A request decides on what it sees first, opens the port file by path    *)
(* later and reads it later still, so its answer is right only because of  *)
(* how entries can change in between: a link and a file are first removed  *)
(* and only then replaced, and while the entry is absent the right answer  *)
(* is none.  Tracks says what the request has gathered of this at each     *)
(* stage; EntryStep and ProjectStep, below, are the changes it rests on.   *)
(* The file it has open may lose its name, and who writes into it then had *)
(* it open before: HoldsOn is what others do to a request.                 *)
(*                                                                         *)
(* A link is two or three calls, each of which may find something else     *)
(* than the one before; Undisturbed says what a command finds that nobody  *)
(* has come across.                                                        *)
(***************************************************************************)

(***************************************************************************)
(* The types in full, which TypeOK abridges.                               *)
(***************************************************************************)
Entry == {Absent, Directory} \cup {File(t) : t \in Text} \cup {Link(d) : d \in Project}

Gone == [kind |-> "gone", text |-> Blank]
ProjectState == {Gone} \cup [kind : {"dir", "file"}, text : Text]

CommandState ==
  [op : {"none", "port", "symlink", "unlink"}, name : Name \cup {NoName},
   port : Port \cup {NoPort}, to : Project \cup {NoProject},
   pc : {"none", "check", "remove", "symlink", "open", "write"},
   fd : {"none", "entry", "project", "gone"}]
RequestLabel ==
  {"none", "lstat", "readlink", "metadata", "open_entry", "open_dir", "open_file", "read"}
RequestState ==
  [name : Name \cup {NoName}, pc : RequestLabel, to : Project \cup {NoProject},
   port : Port \cup {NoPort}, fd : {"none", "entry", "project", "gone"},
   text : Text, with : SUBSET Command]

\* A command that runs has a name, knows what it was asked for, and the file it
\* has open is there, or has been unlinked.
CommandFits(c) ==
  IF cmd[c].pc = "none" THEN cmd[c] = NoCommand
  ELSE /\ cmd[c].name \in Name
       /\ cmd[c].op # "none"
       /\ cmd[c].op = "port" => cmd[c].port \in Port
       /\ cmd[c].op = "symlink" => cmd[c].to \in Project
       /\ cmd[c].pc = "symlink" => cmd[c].op = "symlink"
       /\ cmd[c].pc \in {"open", "write"} => cmd[c].op = "port"
       /\ cmd[c].fd # "none" => cmd[c].pc = "write"
       /\ cmd[c].fd = "entry" => entry[cmd[c].name].kind = "file"
       /\ cmd[c].fd = "project" => cmd[c].to \in Project /\ project[cmd[c].to].kind = "file"

\* A request knows where it is going to look, and the file it has open is there,
\* or has no name any more and is shared with commands that are about to write.
RequestFits(q) ==
  /\ req[q].pc # "none" => req[q].name \in Name
  /\ req[q].pc \in {"metadata", "open_dir", "open_file"} => req[q].to \in Project
  /\ req[q].pc = "read" <=> req[q].fd # "none"
  /\ req[q].fd = "entry" => entry[req[q].name].kind = "file"
  /\ req[q].fd = "project" => req[q].to \in Project /\ project[req[q].to].kind # "gone"
  /\ req[q].fd # "gone" => req[q].with = {}
  /\ \A c \in req[q].with : cmd[c].fd = "gone"

Typed ==
  /\ entry \in [Name -> Entry]
  /\ project \in [Project -> ProjectState]
  /\ cmd \in [Command -> CommandState]
  /\ edits \in 0..MaxEdits
  /\ \A c \in Command : CommandFits(c)

RequestsTyped ==
  /\ req \in [Request -> RequestState]
  /\ \A q \in Request : RequestFits(q)

HistoryTyped == alone \subseteq Command /\ linked \in [Request -> SUBSET Project]

\* What a request can rely on
Tracks(q) ==
  LET n == req[q].name
  IN req[q].pc # "none" =>
       /\ Current(n) \in valid[q]
       /\ entry[n].kind = "link" => entry[n].to \in linked[q]
       /\ \A d \in linked[q] : ProjectPort(d) \in valid[q]
       /\ \A c \in Command : HasOpen(c, n, linked[q]) => cmd[c].port \in valid[q]
       /\ req[q].pc = "readlink" /\ entry[n].kind # "link" => NoPort \in valid[q]
       /\ req[q].pc = "open_entry" /\ entry[n].kind # "file" => NoPort \in valid[q]
       /\ req[q].pc \in {"metadata", "open_dir", "open_file"} => req[q].to \in linked[q]
       /\ req[q].pc = "open_dir" /\ project[req[q].to].kind # "dir" => NoPort \in valid[q]
       /\ req[q].pc = "open_file" /\ project[req[q].to].kind # "file" => NoPort \in valid[q]
       /\ req[q].fd = "project" => req[q].to \in linked[q]
       /\ req[q].fd = "gone" => req[q].text.port \in valid[q]
       /\ \A c \in req[q].with : NoPort \in valid[q] /\ cmd[c].port \in valid[q]

\* A command that nobody has come across
Undisturbed(c) ==
  LET n == cmd[c].name
  IN /\ cmd[c].pc # "none"
     /\ \A d \in Command \ {c} : cmd[d].name # n
     /\ cmd[c].pc = "remove" => entry[n].kind \in {"file", "link"}
     /\ cmd[c].pc \in {"open", "symlink"} => entry[n].kind \in {"absent", "dir"}
     /\ cmd[c].pc = "write" => cmd[c].fd = "entry" /\ entry[n] = File(Blank)

RegistryInv ==
  /\ Typed /\ RequestsTyped /\ HistoryTyped
  /\ \A q \in Request : Tracks(q)
  /\ \A c \in alone : Undisturbed(c)

(***************************************************************************)
(* Types.                                                                  *)
(***************************************************************************)

\* What is written into a port file fits into one line.
LEMMA TextType ==
  ASSUME NEW p \in Port, NEW t \in Text
  PROVE  Blank \in Text /\ Line(p) \in Text /\ Overwrite(t, p) \in Text
<1> Digits[p] \in 1..5
  BY RegistryAssumption
<1> QED
  BY DEF Blank, Line, Text, Overwrite

\* The entries there are.
LEMMA EntryType ==
  /\ Absent \in Entry /\ Directory \in Entry
  /\ \A t \in Text : File(t) \in Entry
  /\ \A d \in Project : Link(d) \in Entry
  /\ \A e \in Entry :
       /\ DOMAIN e = {"kind", "to", "text"} /\ e.kind \in {"absent", "dir", "file", "link"}
       /\ e.text \in Text
       /\ e.kind = "absent" => e = Absent
       /\ e.kind = "dir" => e = Directory
       /\ e.kind = "link" => e.to \in Project /\ e = Link(e.to)
       /\ e.kind = "file" => e = File(e.text)
       /\ e.kind # "file" => e.text = Blank
       /\ e.kind # "link" => e.to = NoProject
<1> Blank \in Text
  BY DEF Blank, Text
<1> USE DEF Entry, Absent, Directory, File, Link
<1>1. Absent \in Entry /\ Directory \in Entry
  OBVIOUS
<1>2. (\A t \in Text : File(t) \in Entry) /\ (\A d \in Project : Link(d) \in Entry)
  OBVIOUS
<1>3. ASSUME NEW e \in Entry
      PROVE  /\ DOMAIN e = {"kind", "to", "text"}
             /\ e.kind \in {"absent", "dir", "file", "link"}
             /\ e.text \in Text
             /\ e.kind = "absent" => e = Absent
             /\ e.kind = "dir" => e = Directory
             /\ e.kind = "link" => e.to \in Project /\ e = Link(e.to)
             /\ e.kind = "file" => e = File(e.text)
             /\ e.kind # "file" => e.text = Blank
             /\ e.kind # "link" => e.to = NoProject
  <2>1. CASE e = Absent BY <2>1
  <2>2. CASE e = Directory BY <2>2
  <2>3. CASE \E t \in Text : e = File(t) BY <2>3
  <2>4. CASE \E d \in Project : e = Link(d) BY <2>4
  <2> QED BY <2>1, <2>2, <2>3, <2>4
<1> QED
  BY <1>1, <1>2, <1>3

\* What a step does to an entry, to a project and to the commands of others: a
\* directory stays, links and files are removed but never replaced at once.
EntryStep(n) ==
  /\ entry[n].kind = "dir" => entry'[n] = entry[n]
  /\ entry[n].kind = "link" => entry'[n] \in {entry[n], Absent}
  /\ entry[n].kind = "file" => entry'[n].kind = "file" \/ entry'[n] = Absent
ProjectStep(d) ==
  project[d].kind # "gone" => project'[d].kind \in {project[d].kind, "gone"}
Moves ==
  /\ \A n \in Name : EntryStep(n)
  /\ \A d \in Project : ProjectStep(d)

\* Nobody but c does anything, and nothing happens to entries of other names.
OnlyCommand(c) ==
  /\ \A n \in Name : n # cmd[c].name => entry'[n] = entry[n]
  /\ \A d \in Command : d # c /\ cmd[d].name # cmd[c].name => cmd'[d] = cmd[d]

\* Invoke changes one command.
LEMMA InvokeTyped ==
  ASSUME Typed, NEW c \in Command, NEW n \in Name, Invoke(c, n)
  PROVE  Typed' /\ Moves /\ OnlyCommand(c) /\ entry' = entry
         /\ \A d \in Command \ {c} : cmd'[d] = cmd[d]
<1>1. PICK e \in CommandState :
        /\ cmd' = [cmd EXCEPT ![c] = e]
        /\ e.name = n /\ e.pc = "check" /\ e.op # "none" /\ e.fd = "none"
        /\ e.op = "port" => e.port \in Port
        /\ e.op = "symlink" => e.to \in Project
  <2> DEFINE new == [NoCommand EXCEPT !.name = n, !.pc = "check"]
             Fits(e) == /\ e \in CommandState /\ e.name = n /\ e.pc = "check"
                        /\ e.op # "none" /\ e.fd = "none"
                        /\ e.op = "port" => e.port \in Port
                        /\ e.op = "symlink" => e.to \in Project
  <2>1. ASSUME NEW p \in Port PROVE Fits([new EXCEPT !.op = "port", !.port = p])
    BY DEF NoCommand, CommandState
  <2>2. ASSUME NEW d \in Project PROVE Fits([new EXCEPT !.op = "symlink", !.to = d])
    BY DEF NoCommand, CommandState
  <2>3. Fits([new EXCEPT !.op = "unlink"])
    BY DEF NoCommand, CommandState
  <2>4. \E e : cmd' = [cmd EXCEPT ![c] = e] /\ Fits(e)
    <3> HIDE DEF Fits
    <3> QED BY <2>1, <2>2, <2>3 DEF Invoke
  <2> QED
    BY <2>4
<1> USE DEF Invoke
<1>2. Typed'
  <2>1. cmd' \in [Command -> CommandState]
    BY <1>1 DEF Typed
  <2>2. ASSUME NEW d \in Command PROVE CommandFits(d)'
    BY <1>1, <2>1 DEF Typed, CommandFits
  <2> QED
    BY <2>1, <2>2 DEF Typed
<1>3. Moves
  BY DEF Moves, EntryStep, ProjectStep
<1> QED
  BY <1>1, <1>2, <1>3 DEF OnlyCommand, Typed

\* A command ends and leaves everything else alone.
LEMMA FinishTyped ==
  ASSUME Typed, NEW c \in Command, Finish(c),
         UNCHANGED <<entry, project>>, edits' \in 0..MaxEdits
  PROVE  Typed' /\ Moves /\ OnlyCommand(c)
<1>1. cmd' \in [Command -> CommandState]
  BY DEF Typed, Finish, NoCommand, CommandState
<1>2. ASSUME NEW d \in Command PROVE CommandFits(d)'
  BY <1>1 DEF Typed, CommandFits, Finish, NoCommand
<1> QED
  BY <1>1, <1>2 DEF Typed, Moves, EntryStep, ProjectStep, OnlyCommand, Finish

\* Crash ends a command.
LEMMA CrashTyped ==
  ASSUME Typed, NEW c \in Command, Crash(c)
  PROVE  Typed' /\ Moves /\ OnlyCommand(c)
<1> edits' \in 0..MaxEdits
  BY RegistryAssumption DEF Crash, Typed
<1> QED
  BY FinishTyped DEF Crash

\* Check goes on, or ends the command.
LEMMA CheckTyped ==
  ASSUME Typed, NEW c \in Command, Check(c)
  PROVE  Typed' /\ Moves /\ OnlyCommand(c)
<1>1. CASE Finish(c)
  BY <1>1, FinishTyped DEF Check, Typed
<1>2. CASE \E l \in {"remove", "open", "symlink"} :
             /\ Step(c, l)
             /\ l = "open" => cmd[c].op = "port"
             /\ l = "symlink" => cmd[c].op = "symlink"
  <2>1. cmd' \in [Command -> CommandState]
    BY <1>2 DEF Typed, Step, CommandState
  <2>2. ASSUME NEW d \in Command PROVE CommandFits(d)'
    BY <1>2, <2>1 DEF Typed, CommandFits, Check, At, Step
  <2> QED
    BY <1>2, <2>1, <2>2
    DEF Typed, Moves, EntryStep, ProjectStep, OnlyCommand, Check, Step
<1>3. CommandFits(c) /\ cmd[c].op \in {"none", "port", "symlink", "unlink"}
  BY DEF Typed, CommandState
<1> QED
  BY <1>1, <1>2, <1>3 DEF Check, Replace, Create, CommandFits, At

\* Remove: whoever has the file open still has it, without a name.
LEMMA RemoveTyped ==
  ASSUME Typed, NEW c \in Command, Remove(c)
  PROVE  Typed' /\ Moves /\ OnlyCommand(c)
<1> DEFINE n == cmd[c].name
<1>1. CASE UNCHANGED entry /\ Finish(c)
  BY <1>1, FinishTyped DEF Remove, Typed
<1>2. CASE Removed(c) /\ entry[n].kind \notin {"absent", "dir"}
  <2>1. PICK e \in CommandState :
          /\ e = IF cmd[c].op = "unlink" THEN NoCommand
                 ELSE [cmd[c] EXCEPT !.pc = Create(c)]
          /\ cmd' = [Unlinked(n) EXCEPT ![c] = e]
    BY <1>2 DEF Removed, Typed, CommandState, NoCommand, Create
  <2>2. /\ n \in Name /\ cmd[c].fd = "none" /\ cmd[c].op \in {"port", "symlink", "unlink"}
        /\ CommandFits(c)
    BY DEF Remove, At, Typed, CommandFits, CommandState
  <2>3. Unlinked(n) \in [Command -> CommandState]
    BY DEF Unlinked, Typed, CommandState
  <2>4. cmd' \in [Command -> CommandState]
    BY <2>1, <2>3
  <2>5. entry' = [entry EXCEPT ![n] = Absent] /\ entry' \in [Name -> Entry]
    BY <1>2, EntryType DEF Removed, Typed
  <2>6. ASSUME NEW d \in Command, d # c PROVE CommandFits(d)'
    <3>1. cmd'[d] = IF cmd[d].name = n /\ cmd[d].fd = "entry"
                    THEN [cmd[d] EXCEPT !.fd = "gone"] ELSE cmd[d]
      BY <2>1, <2>3, <2>6 DEF Unlinked, Writers
    <3>2. CommandFits(d) /\ cmd[d] \in CommandState
      BY DEF Typed
    <3>3. CASE cmd[d].name = n /\ cmd[d].fd = "entry"
      BY <3>1, <3>2, <3>3 DEF CommandFits, Remove, CommandState, NoCommand
    <3>4. CASE ~(cmd[d].name = n /\ cmd[d].fd = "entry")
      BY <3>1, <3>2, <3>4, <2>5 DEF CommandFits, Remove, Typed
    <3> QED
      BY <3>3, <3>4
  <2>7. CommandFits(c)'
    <3>1. cmd'[c] = e
      BY <2>1, <2>3
    <3>2. CASE cmd[c].op = "unlink"
      BY <3>1, <3>2, <2>1 DEF CommandFits, NoCommand
    <3>3. CASE cmd[c].op # "unlink"
      <4>1. e = [cmd[c] EXCEPT !.pc = Create(c)] /\ cmd[c] \in CommandState
        BY <2>1, <3>3 DEF Typed
      <4>2. /\ e.name = n /\ e.op = cmd[c].op /\ e.port = cmd[c].port /\ e.to = cmd[c].to
            /\ e.fd = "none" /\ e.pc = Create(c)
        BY <4>1, <2>2 DEF CommandState
      <4> QED
        BY <3>1, <3>3, <4>2, <2>2 DEF CommandFits, Create, Remove, At
    <3> QED
      BY <3>2, <3>3
  <2>8. Typed'
    BY <2>4, <2>5, <2>6, <2>7 DEF Typed, Remove
  <2>9. OnlyCommand(c)
    BY <2>1, <2>3, <2>5 DEF OnlyCommand, Unlinked, Writers, Typed, Remove
  <2>10. Moves
    BY <1>2, <2>5 DEF Moves, EntryStep, ProjectStep, Typed, Remove
  <2> QED
    BY <2>8, <2>9, <2>10
<1> QED
  BY <1>1, <1>2 DEF Remove

\* CreateSymlink makes an entry where there is none.
LEMMA CreateSymlinkTyped ==
  ASSUME Typed, NEW c \in Command, CreateSymlink(c)
  PROVE  Typed' /\ Moves /\ OnlyCommand(c)
<1> DEFINE n == cmd[c].name
           new == IF entry[n].kind = "absent" THEN Link(cmd[c].to) ELSE entry[n]
<1>1. n \in Name /\ cmd[c].to \in Project
  BY DEF CreateSymlink, At, Typed, CommandFits
<1>2. new \in Entry /\ entry' = [entry EXCEPT ![n] = new]
  BY <1>1, EntryType DEF CreateSymlink, Typed
<1>3. cmd' \in [Command -> CommandState]
  BY DEF CreateSymlink, Typed, Finish, NoCommand, CommandState
<1>4. ASSUME NEW d \in Command PROVE CommandFits(d)'
  BY <1>1, <1>2, <1>3 DEF Typed, CommandFits, CreateSymlink, Finish, NoCommand, Link, Absent
<1>5. Typed'
  BY <1>2, <1>3, <1>4 DEF Typed, CreateSymlink
<1>6. Moves /\ OnlyCommand(c)
  BY <1>1, <1>2
  DEF Moves, EntryStep, ProjectStep, OnlyCommand, CreateSymlink, Finish, Typed
<1> QED
  BY <1>5, <1>6

\* OpenPortFile leaves an empty file, in apps/ or where the link leads.
LEMMA OpenPortFileTyped ==
  ASSUME Typed, NEW c \in Command, OpenPortFile(c)
  PROVE  Typed' /\ Moves /\ OnlyCommand(c)
<1> DEFINE n == cmd[c].name
           e == entry[n]
<1>1. /\ n \in Name /\ cmd[c].op = "port" /\ cmd[c].port \in Port /\ cmd[c].fd = "none"
      /\ e \in Entry /\ cmd[c] \in CommandState
  BY DEF OpenPortFile, At, Typed, CommandFits
<1>2. CASE Finish(c) /\ UNCHANGED <<entry, project>>
  BY <1>2, FinishTyped DEF OpenPortFile, Typed
<1>3. CASE /\ e.kind \in {"absent", "file"}
           /\ entry' = [entry EXCEPT ![n] = File(Blank)]
           /\ cmd' = [cmd EXCEPT ![c].pc = "write", ![c].fd = "entry"]
           /\ UNCHANGED project
  <2>1. File(Blank) \in Entry /\ File(Blank).kind = "file"
    BY EntryType DEF File, Absent, Blank, Text
  <2>2. cmd' \in [Command -> CommandState] /\ entry' \in [Name -> Entry]
    BY <1>1, <1>3, <2>1 DEF Typed, CommandState
  <2>3. ASSUME NEW d \in Command PROVE CommandFits(d)'
    <3>1. CASE d = c
      BY <1>1, <1>3, <2>1, <3>1 DEF Typed, CommandFits, CommandState
    <3>2. CASE d # c
      BY <1>1, <1>3, <2>1, <3>2 DEF Typed, CommandFits
    <3> QED
      BY <3>1, <3>2
  <2>4. Moves /\ OnlyCommand(c)
    BY <1>1, <1>3, <2>1
    DEF Moves, EntryStep, ProjectStep, OnlyCommand, OpenPortFile, Typed
  <2> QED
    BY <1>3, <2>2, <2>3, <2>4 DEF Typed, OpenPortFile
<1>4. CASE /\ e.kind = "link" /\ project[e.to].kind \in {"gone", "file"}
           /\ project' = [project EXCEPT ![e.to] = [kind |-> "file", text |-> Blank]]
           /\ cmd' = [cmd EXCEPT ![c].pc = "write", ![c].fd = "project", ![c].to = e.to]
           /\ UNCHANGED entry
  <2>1. e.to \in Project /\ Blank \in Text
    BY <1>1, <1>4, EntryType DEF Blank, Text
  <2>2. cmd' \in [Command -> CommandState] /\ project' \in [Project -> ProjectState]
    BY <1>1, <1>4, <2>1 DEF Typed, CommandState, ProjectState
  <2>3. ASSUME NEW d \in Command PROVE CommandFits(d)'
    <3>1. CASE d = c
      BY <1>1, <1>4, <2>1, <3>1 DEF Typed, CommandFits, CommandState
    <3>2. CASE d # c
      BY <1>1, <1>4, <2>1, <3>2 DEF Typed, CommandFits
    <3> QED
      BY <3>1, <3>2
  <2>4. Moves /\ OnlyCommand(c)
    BY <1>1, <1>4, <2>1
    DEF Moves, EntryStep, ProjectStep, OnlyCommand, OpenPortFile, Typed, Gone
  <2> QED
    BY <1>4, <2>2, <2>3, <2>4 DEF Typed, OpenPortFile
<1> QED
  BY <1>2, <1>3, <1>4 DEF OpenPortFile

\* WritePortFile changes the text of a file, if it still has a name.
LEMMA WritePortFileTyped ==
  ASSUME Typed, NEW c \in Command, WritePortFile(c)
  PROVE  /\ Typed' /\ Moves /\ OnlyCommand(c)
         /\ \A m \in Name : entry'[m].kind = entry[m].kind
         /\ \A d \in Project : project'[d].kind = project[d].kind
<1> DEFINE n == cmd[c].name
           p == cmd[c].port
           txt == IF cmd[c].fd = "entry" THEN Overwrite(entry[n].text, p) ELSE entry[n].text
<1>1. /\ n \in Name /\ cmd[c].op = "port" /\ p \in Port
      /\ entry[n] \in Entry /\ cmd[c] \in CommandState
      /\ cmd[c].fd = "entry" => entry[n].kind = "file"
      /\ cmd[c].fd = "project" => cmd[c].to \in Project /\ project[cmd[c].to].kind = "file"
  BY DEF WritePortFile, At, Typed, CommandFits
<1>2. entry' = [entry EXCEPT ![n] = [entry[n] EXCEPT !.text = txt]]
  BY <1>1 DEF WritePortFile, Typed
<1>3. /\ [entry[n] EXCEPT !.text = txt] \in Entry
      /\ [entry[n] EXCEPT !.text = txt].kind = entry[n].kind
      /\ entry[n].kind # "file" => [entry[n] EXCEPT !.text = txt] = entry[n]
  <2>1. CASE cmd[c].fd = "entry"
    <3>1. entry[n] = File(entry[n].text) /\ txt \in Text
      BY <1>1, <2>1, EntryType, TextType
    <3>2. [File(entry[n].text) EXCEPT !.text = txt] = File(txt)
      BY DEF File, Absent
    <3> QED
      BY <1>1, <2>1, <3>1, <3>2, EntryType DEF File, Absent
  <2>2. CASE cmd[c].fd # "entry"
    <3>1. [entry[n] EXCEPT !.text = txt] = entry[n]
      BY <1>1, <2>2 DEF Entry, Absent, Directory, File, Link
    <3> QED
      BY <1>1, <3>1
  <2> QED
    BY <2>1, <2>2
<1>4. ASSUME NEW d \in Project
      PROVE  project'[d] \in ProjectState /\ project'[d].kind = project[d].kind
  <2>1. CASE cmd[c].fd = "project" /\ d = cmd[c].to
    <3>1. project[d] \in [kind : {"dir", "file"}, text : Text]
      BY <1>1, <2>1 DEF Typed, ProjectState, Gone
    <3>2. Overwrite(project[d].text, p) \in Text
      BY <1>1, <3>1, TextType
    <3> QED
      BY <2>1, <3>1, <3>2 DEF WritePortFile, ProjectState
  <2>2. CASE ~(cmd[c].fd = "project" /\ d = cmd[c].to)
    BY <2>2 DEF WritePortFile, Typed
  <2> QED
    BY <2>1, <2>2
<1>5. /\ cmd' \in [Command -> CommandState] /\ entry' \in [Name -> Entry]
      /\ project' \in [Project -> ProjectState]
  <2>1. cmd' \in [Command -> CommandState]
    BY DEF WritePortFile, Typed, Finish, NoCommand, CommandState
  <2>2. entry' \in [Name -> Entry]
    BY <1>1, <1>2, <1>3 DEF Typed
  <2>3. project' \in [Project -> ProjectState]
    BY <1>4 DEF WritePortFile
  <2> QED
    BY <2>1, <2>2, <2>3
<1>6. \A m \in Name : entry'[m].kind = entry[m].kind
  BY <1>1, <1>2, <1>3 DEF Typed
<1>7. ASSUME NEW d \in Command PROVE CommandFits(d)'
  BY <1>4, <1>5, <1>6 DEF Typed, CommandFits, WritePortFile, Finish, NoCommand
<1>8. Typed'
  BY <1>5, <1>7 DEF Typed, WritePortFile
<1>9. Moves
  BY <1>1, <1>2, <1>3, <1>4, <1>6 DEF Moves, EntryStep, ProjectStep, Typed
<1>10. OnlyCommand(c)
  BY <1>1, <1>2 DEF OnlyCommand, WritePortFile, Finish, Typed
<1> QED
  BY <1>4, <1>6, <1>8, <1>9, <1>10

\* What the developer does.
LEMMA EditTyped ==
  ASSUME Typed, Edit
  PROVE  /\ Typed' /\ Moves
         /\ \A n \in Name :
              entry'[n] = entry[n] \/ (entry[n] = Absent /\ entry'[n] = Directory)
         /\ \A c \in Command :
              \/ cmd'[c] = cmd[c]
              \/ cmd[c].fd = "project" /\ cmd'[c] = [cmd[c] EXCEPT !.fd = "gone"]
<1>1. edits' \in 0..MaxEdits
  BY RegistryAssumption DEF Edit, Typed
<1>2. ASSUME NEW d \in Project, NEW t \in Text, project[d].kind = "dir",
             project' = [project EXCEPT ![d].text = t], UNCHANGED <<entry, cmd>>
      PROVE  Typed' /\ Moves
  <2>1. project[d] \in [kind : {"dir", "file"}, text : Text]
    BY <1>2 DEF Typed, ProjectState, Gone
  <2>2. /\ project' \in [Project -> ProjectState]
        /\ \A e \in Project : project'[e].kind = project[e].kind
    BY <1>2, <2>1 DEF Typed, ProjectState
  <2>3. ASSUME NEW c \in Command PROVE CommandFits(c)'
    BY <1>2, <2>2 DEF Typed, CommandFits
  <2> QED
    BY <1>1, <1>2, <2>2, <2>3 DEF Typed, Moves, EntryStep, ProjectStep
<1>3. ASSUME NEW d \in Project,
             project' = [project EXCEPT ![d] =
               [kind |-> IF @.kind = "gone" THEN "dir" ELSE "gone", text |-> Blank]],
             cmd' = [c \in Command |-> IF cmd[c].to = d /\ cmd[c].fd = "project"
                                       THEN [cmd[c] EXCEPT !.fd = "gone"] ELSE cmd[c]],
             UNCHANGED entry
      PROVE  Typed' /\ Moves
  <2>1. project' \in [Project -> ProjectState]
    BY <1>3 DEF Typed, ProjectState, Gone, Blank, Text
  <2>2. cmd' \in [Command -> CommandState]
    <3>1. ASSUME NEW c \in Command PROVE [cmd[c] EXCEPT !.fd = "gone"] \in CommandState
      BY DEF Typed, CommandState
    <3> HIDE DEF CommandState
    <3> QED
      BY <1>3, <3>1 DEF Typed
  <2>3. ASSUME NEW c \in Command PROVE CommandFits(c)'
    <3>1. CommandFits(c) /\ cmd[c] \in CommandState
      BY DEF Typed
    <3>2. CASE cmd[c].to = d /\ cmd[c].fd = "project"
      BY <1>3, <3>1, <3>2 DEF CommandFits, CommandState, NoCommand
    <3>3. CASE ~(cmd[c].to = d /\ cmd[c].fd = "project")
      BY <1>3, <3>1, <3>3 DEF CommandFits, Typed
    <3> QED
      BY <3>2, <3>3
  <2>4. Moves
    BY <1>3 DEF Moves, EntryStep, ProjectStep, Typed
  <2> QED
    BY <1>1, <1>3, <2>1, <2>2, <2>3, <2>4 DEF Typed
<1>4. ASSUME NEW n \in Name, entry[n] = Absent, entry' = [entry EXCEPT ![n] = Directory],
             UNCHANGED <<project, cmd>>
      PROVE  Typed' /\ Moves
  <2>1. entry' \in [Name -> Entry] /\ Absent.kind = "absent"
    BY <1>4, EntryType DEF Typed, Absent
  <2>2. ASSUME NEW c \in Command PROVE CommandFits(c)'
    BY <1>4, <2>1 DEF Typed, CommandFits
  <2>3. Moves
    BY <1>4, <2>1 DEF Moves, EntryStep, ProjectStep, Typed
  <2> QED
    BY <1>1, <1>4, <2>1, <2>2, <2>3 DEF Typed
<1>5. {Blank} \cup {Line(p) : p \in Port} \subseteq Text
  <2>1. Blank \in Text
    BY DEF Blank, Text
  <2>2. \A p \in Port : Line(p) \in Text
    BY <2>1, TextType
  <2> QED
    BY <2>1, <2>2
<1>6. Typed' /\ Moves
  BY <1>2, <1>3, <1>4, <1>5 DEF Edit
<1>7. \A n \in Name : entry'[n] = entry[n] \/ (entry[n] = Absent /\ entry'[n] = Directory)
  BY DEF Edit, Typed
<1>8. \A c \in Command : \/ cmd'[c] = cmd[c]
                         \/ cmd[c].fd = "project" /\ cmd'[c] = [cmd[c] EXCEPT !.fd = "gone"]
  BY DEF Edit
<1> QED
  BY <1>1, <1>6, <1>7, <1>8

(***************************************************************************)
(* The types of requests, and what the others do to a request.             *)
(***************************************************************************)

\* A request that keeps a file which has lost its name
LEMMA NamelessIs ==
  ASSUME NEW r \in RequestState, NEW t \in Text, NEW W \in SUBSET Command
  PROVE  /\ Nameless(r, t, W) \in RequestState
         /\ Nameless(r, t, W).name = r.name /\ Nameless(r, t, W).pc = r.pc
         /\ Nameless(r, t, W).to = r.to /\ Nameless(r, t, W).port = r.port
         /\ Nameless(r, t, W).fd = "gone" /\ Nameless(r, t, W).text = t
         /\ Nameless(r, t, W).with = W
BY DEF Nameless, RequestState

\* What a step of somebody else leaves of request q: the file it has open keeps
\* its name, or loses it, or is written without one.
Same(q) ==
  /\ req'[q] = req[q]
  /\ req[q].fd = "entry" => entry'[req[q].name].kind = "file"
  /\ req[q].fd = "project" => project'[req[q].to].kind # "gone"
LosesEntry(q) ==
  LET n == req[q].name
  IN /\ req[q].fd = "entry" /\ entry'[n] = Absent
     /\ req'[q] = Nameless(req[q], entry[n].text, Writers(n))
LosesProject(q) ==
  LET d == req[q].to
      W == {c \in Command : cmd[c].to = d /\ cmd[c].fd = "project"}
  IN /\ req[q].fd = "project" /\ (project'[d].kind = "gone" \/ W = {})
     /\ req'[q] = Nameless(req[q], project[d].text, W)
SeesWrite(q) ==
  /\ req[q].fd = "gone"
  /\ \E W \in SUBSET req[q].with, t \in Text :
       /\ req'[q] = Nameless(req[q], t, W)
       /\ t # req[q].text => \E c \in req[q].with : t = Overwrite(req[q].text, cmd[c].port)
HoldsOn(q) ==
  /\ Same(q) \/ LosesEntry(q) \/ LosesProject(q) \/ SeesWrite(q)
  /\ \A c \in req'[q].with : cmd'[c].fd = "gone" /\ cmd'[c].port = cmd[c].port

\* What the request has then
LEMMA Held ==
  ASSUME Typed, RequestsTyped, NEW q \in Request, HoldsOn(q)
  PROVE  /\ req'[q] \in RequestState
         /\ req'[q].name = req[q].name /\ req'[q].pc = req[q].pc /\ req'[q].to = req[q].to
         /\ req'[q].fd \in {req[q].fd, "gone"} /\ (req'[q].fd = "none" <=> req[q].fd = "none")
         /\ req'[q].fd # "gone" => req'[q] = req[q]
<1>1. req[q] \in RequestState /\ RequestFits(q)
  BY DEF RequestsTyped
<1>2. CASE Same(q)
  BY <1>1, <1>2 DEF Same, RequestState
<1>3. CASE LosesEntry(q)
  <2>1. entry[req[q].name].text \in Text /\ Writers(req[q].name) \in SUBSET Command
    <3>1. req[q].name \in Name
      BY <1>1, <1>3 DEF LosesEntry, RequestFits
    <3> QED
      BY <3>1, EntryType DEF Typed, Writers
  <2> QED
    BY <1>1, <1>3, <2>1, NamelessIs DEF LosesEntry
<1>4. CASE LosesProject(q)
  <2> DEFINE W == {c \in Command : cmd[c].to = req[q].to /\ cmd[c].fd = "project"}
  <2>1. project[req[q].to].text \in Text /\ W \in SUBSET Command
    <3>1. req[q].to \in Project
      BY <1>1, <1>4 DEF LosesProject, RequestFits
    <3> QED
      BY <3>1 DEF Typed, ProjectState, Gone, Blank, Text
  <2> QED
    BY <1>1, <1>4, <2>1, NamelessIs DEF LosesProject
<1>5. CASE SeesWrite(q)
  <2>1. req[q].with \in SUBSET Command
    BY <1>1 DEF RequestState
  <2>2. PICK W \in SUBSET req[q].with, t \in Text : req'[q] = Nameless(req[q], t, W)
    BY <1>5 DEF SeesWrite
  <2> QED
    BY <1>1, <1>5, <2>1, <2>2, NamelessIs DEF SeesWrite
<1> QED
  BY <1>2, <1>3, <1>4, <1>5 DEF HoldsOn

\* It stays well typed.
LEMMA HeldTyped ==
  ASSUME Typed, RequestsTyped, NEW q \in Request, HoldsOn(q)
  PROVE  req'[q] \in RequestState /\ RequestFits(q)'
<1>1. req[q] \in RequestState /\ RequestFits(q)
  BY DEF RequestsTyped
<1>2. /\ req'[q] \in RequestState
      /\ req'[q].name = req[q].name /\ req'[q].pc = req[q].pc /\ req'[q].to = req[q].to
      /\ req'[q].fd \in {req[q].fd, "gone"} /\ (req'[q].fd = "none" <=> req[q].fd = "none")
      /\ req'[q].fd # "gone" => req'[q] = req[q]
  BY Held
<1>3. \A c \in req'[q].with : cmd'[c].fd = "gone"
  BY DEF HoldsOn
<1>4. CASE req'[q].fd = "gone"
  BY <1>1, <1>2, <1>3, <1>4 DEF RequestFits
<1>5. CASE req'[q].fd # "gone"
  <2>1. req'[q] = req[q] /\ req[q].with = {}
    BY <1>1, <1>2, <1>5 DEF RequestFits
  <2>2. Same(q)
    <3>1. LosesEntry(q) \/ LosesProject(q) => req'[q].fd = "gone"
      BY <1>1 DEF LosesEntry, LosesProject, Nameless, RequestState
    <3> QED
      BY <1>5, <2>1, <3>1 DEF HoldsOn, SeesWrite
  <2> QED
    BY <1>1, <2>1, <2>2 DEF RequestFits, Same
<1> QED
  BY <1>2, <1>4, <1>5

\* A step of c that touches no file a request may have open
LEMMA Untouched ==
  ASSUME RequestsTyped, NEW c \in Command, cmd[c].fd # "gone", req' = req,
         \A d \in Command \ {c} : cmd'[d] = cmd[d],
         \A n \in Name : entry[n].kind = "file" => entry'[n].kind = "file",
         \A d \in Project : project[d].kind # "gone" => project'[d].kind # "gone",
         NEW q \in Request
  PROVE  HoldsOn(q)
<1>1. req[q] \in RequestState /\ RequestFits(q)
  BY DEF RequestsTyped
<1>2. Same(q)
  <2>1. req[q].fd # "none" => req[q].name \in Name
    BY <1>1 DEF RequestFits
  <2> QED
    BY <1>1, <2>1 DEF RequestFits, Same
<1>3. \A d \in req[q].with : d \in Command \ {c}
  BY <1>1 DEF RequestFits, RequestState
<1> QED
  BY <1>1, <1>2, <1>3 DEF HoldsOn, RequestFits

\* The steps of commands that write no text and remove nothing
LEMMA CommandUntouched ==
  ASSUME Typed, RequestsTyped, NEW c \in Command,
         \/ \E n \in Name : Invoke(c, n)
         \/ Check(c)
         \/ Remove(c) /\ entry[cmd[c].name].kind \in {"absent", "dir"}
         \/ CreateSymlink(c)
         \/ OpenPortFile(c)
  PROVE  req' = req /\ \A q \in Request : HoldsOn(q)
<1>1. cmd[c].fd # "gone" /\ req' = req /\ \A d \in Command \ {c} : cmd'[d] = cmd[d]
  <2>1. CommandFits(c)
    BY DEF Typed
  <2>2. cmd[c].pc # "write"
    <3>1. (\E n \in Name : Invoke(c, n)) => cmd[c] = NoCommand
      BY DEF Invoke
    <3>2. NoCommand.pc # "write"
      BY DEF NoCommand
    <3> QED
      BY <3>1, <3>2 DEF Check, Remove, CreateSymlink, OpenPortFile, At
  <2>3. cmd[c].fd # "gone"
    BY <2>1, <2>2 DEF CommandFits, NoCommand
  <2>4. req' = req
    BY DEF Invoke, Check, Remove, CreateSymlink, OpenPortFile
  <2>5. Finish(c) => \A d \in Command \ {c} : cmd'[d] = cmd[d]
    BY DEF Finish, Typed
  <2>6. \A l : Step(c, l) => \A d \in Command \ {c} : cmd'[d] = cmd[d]
    BY DEF Step, Typed
  <2>7. (\E n \in Name : Invoke(c, n)) => \A d \in Command \ {c} : cmd'[d] = cmd[d]
    BY InvokeTyped
  <2>8. OpenPortFile(c) => \A d \in Command \ {c} : cmd'[d] = cmd[d]
    BY <2>5 DEF OpenPortFile, Typed
  <2> QED
    BY <2>3, <2>4, <2>5, <2>6, <2>7, <2>8 DEF Check, Remove, CreateSymlink
<1>2. /\ \A n \in Name : entry[n].kind = "file" => entry'[n].kind = "file"
      /\ \A d \in Project : project[d].kind # "gone" => project'[d].kind # "gone"
  <2>1. CASE UNCHANGED <<entry, project>>
    BY <2>1
  <2>2. CASE CreateSymlink(c)
    BY <2>2 DEF CreateSymlink, Typed
  <2>3. CASE OpenPortFile(c)
    <3>1. File(Blank).kind = "file"
      BY DEF File, Absent
    <3>2. \/ UNCHANGED entry
          \/ entry' = [entry EXCEPT ![cmd[c].name] = File(Blank)]
      BY <2>3 DEF OpenPortFile
    <3>3. \/ UNCHANGED project
          \/ \E d : project' = [project EXCEPT ![d] = [kind |-> "file", text |-> Blank]]
      BY <2>3 DEF OpenPortFile
    <3> QED
      BY <3>1, <3>2, <3>3 DEF Typed
  <2>4. CASE Remove(c) /\ entry[cmd[c].name].kind \in {"absent", "dir"}
    BY <2>1, <2>4 DEF Remove
  <2> QED
    BY <2>1, <2>2, <2>3, <2>4 DEF Invoke, Check
<1> QED
  BY <1>1, <1>2, Untouched

\* A request that notices that c has closed a nameless file
LEMMA ClosedIs ==
  ASSUME RequestsTyped, NEW c \in Command, NEW q \in Request, NEW t \in Text
  PROVE  /\ c \notin req[q].with => Closed(c)[q] = req[q]
         /\ c \in req[q].with =>
              /\ req[q].fd = "gone" /\ req[q].text \in Text
              /\ Closed(c)[q] = Nameless(req[q], req[q].text, req[q].with \ {c})
              /\ [Closed(c)[q] EXCEPT !.text = t] = Nameless(req[q], t, req[q].with \ {c})
<1>1. req[q] \in RequestState /\ RequestFits(q)
  BY DEF RequestsTyped
<1>2. Closed(c)[q] = [req[q] EXCEPT !.with = req[q].with \ {c}]
  BY DEF Closed
<1>3. ASSUME c \notin req[q].with PROVE Closed(c)[q] = req[q]
  <2>1. req[q].with \ {c} = req[q].with
    BY <1>3
  <2> QED
    BY <1>1, <1>2, <2>1 DEF RequestState
<1>4. ASSUME c \in req[q].with
      PROVE  /\ req[q].fd = "gone" /\ req[q].text \in Text
             /\ Closed(c)[q] = Nameless(req[q], req[q].text, req[q].with \ {c})
             /\ [Closed(c)[q] EXCEPT !.text = t] = Nameless(req[q], t, req[q].with \ {c})
  <2>1. req[q].fd = "gone" /\ req[q].text \in Text
    BY <1>1, <1>4 DEF RequestFits, RequestState
  <2>2. Closed(c)[q] = Nameless(req[q], req[q].text, req[q].with \ {c})
    BY <1>1, <1>2, <2>1 DEF RequestState, Nameless
  <2>3. [Closed(c)[q] EXCEPT !.text = t] = Nameless(req[q], t, req[q].with \ {c})
    BY <1>1, <1>2, <2>1 DEF RequestState, Nameless
  <2> QED
    BY <2>1, <2>2, <2>3
<1> QED
  BY <1>3, <1>4

\* The end of c changes requests only by what c had open with them.
LEMMA EndHolds ==
  ASSUME Typed, RequestsTyped, NEW c \in Command, Finish(c),
         \A n \in Name : entry'[n].kind = entry[n].kind,
         \A d \in Project : project'[d].kind = project[d].kind,
         NEW q \in Request,
         \/ req'[q] = Closed(c)[q]
         \/ /\ c \in req[q].with
            /\ req'[q] = [Closed(c)[q] EXCEPT !.text = Overwrite(@, cmd[c].port)]
         \/ c \notin req[q].with /\ req'[q] = req[q],
         c \in req[q].with => cmd[c].port \in Port
  PROVE  HoldsOn(q)
<1>1. req[q] \in RequestState /\ RequestFits(q)
  BY DEF RequestsTyped
<1>2. \A d \in req[q].with \ {c} : cmd'[d] = cmd[d] /\ cmd[d].fd = "gone"
  BY <1>1 DEF RequestFits, RequestState, Finish, Typed
<1>3. CASE c \notin req[q].with
  <2>1. req'[q] = req[q]
    BY <1>1, <1>3, ClosedIs DEF RequestState
  <2>2. Same(q)
    <3>1. req[q].fd # "none" => req[q].name \in Name
      BY <1>1 DEF RequestFits
    <3> QED
      BY <1>1, <2>1, <3>1 DEF RequestFits, Same
  <2> QED
    BY <1>2, <1>3, <2>1, <2>2 DEF HoldsOn
<1>4. CASE c \in req[q].with
  <2> DEFINE W == req[q].with \ {c}
  <2>1. /\ req[q].fd = "gone" /\ req[q].text \in Text /\ W \in SUBSET Command
        /\ Overwrite(req[q].text, cmd[c].port) \in Text
    <3>1. req[q].fd = "gone" /\ req[q].text \in Text /\ W \in SUBSET Command
      BY <1>1, <1>4 DEF RequestFits, RequestState
    <3> QED
      BY <1>4, <3>1, TextType
  <2>2. PICK t \in {req[q].text, Overwrite(req[q].text, cmd[c].port)} :
          req'[q] = Nameless(req[q], t, W)
    <3>1. Closed(c)[q].text = req[q].text
      BY <1>1 DEF Closed, RequestState
    <3>2. ASSUME req'[q] = [Closed(c)[q] EXCEPT !.text = Overwrite(@, cmd[c].port)]
          PROVE  req'[q] = Nameless(req[q], Overwrite(req[q].text, cmd[c].port), W)
      <4> DEFINE t == Overwrite(req[q].text, cmd[c].port)
      <4>1. [Closed(c)[q] EXCEPT !.text = Overwrite(@, cmd[c].port)]
              = [Closed(c)[q] EXCEPT !.text = t]
        BY <3>1
      <4>2. t \in Text
        BY <2>1
      <4> HIDE DEF t
      <4>3. [Closed(c)[q] EXCEPT !.text = t] = Nameless(req[q], t, W)
        BY <1>4, <4>2, ClosedIs
      <4> QED
        BY <3>2, <4>1, <4>3 DEF t
    <3>3. ASSUME req'[q] = Closed(c)[q] PROVE req'[q] = Nameless(req[q], req[q].text, W)
      BY <1>4, <2>1, <3>3, ClosedIs
    <3> QED
      BY <1>4, <3>2, <3>3
  <2>3. t \in Text /\ req'[q].with = W
    BY <1>1, <2>1, <2>2, NamelessIs
  <2>4. SeesWrite(q)
    <3>1. W \in SUBSET req[q].with
      OBVIOUS
    <3>2. t # req[q].text => \E d \in req[q].with : t = Overwrite(req[q].text, cmd[d].port)
      BY <1>4, <2>2
    <3> QED
      BY <2>1, <2>2, <2>3, <3>1, <3>2 DEF SeesWrite
  <2> QED
    BY <1>2, <2>3, <2>4 DEF HoldsOn
<1> QED
  BY <1>3, <1>4

\* Crash and WritePortFile
LEMMA EndsHolds ==
  ASSUME Typed, RequestsTyped, NEW c \in Command, Crash(c) \/ WritePortFile(c)
  PROVE  req' = [q \in Request |-> req'[q]] /\ \A q \in Request : HoldsOn(q)
<1>1. Finish(c) /\ req' = [q \in Request |-> req'[q]]
  BY DEF Crash, WritePortFile, Closed
<1>2. /\ \A n \in Name : entry'[n].kind = entry[n].kind
      /\ \A d \in Project : project'[d].kind = project[d].kind
  <2>1. CASE Crash(c)
    BY <2>1 DEF Crash
  <2>2. CASE WritePortFile(c)
    BY <2>2, WritePortFileTyped
  <2> QED
    BY <2>1, <2>2
<1>3. ASSUME NEW q \in Request, c \in req[q].with PROVE cmd[c].port \in Port
  <2>1. cmd[c].fd = "gone" /\ CommandFits(c)
    BY <1>3 DEF RequestsTyped, RequestFits, Typed
  <2> QED
    BY <2>1 DEF CommandFits, NoCommand
<1>4. ASSUME NEW q \in Request
      PROVE  \/ req'[q] = Closed(c)[q]
             \/ /\ c \in req[q].with
                /\ req'[q] = [Closed(c)[q] EXCEPT !.text = Overwrite(@, cmd[c].port)]
             \/ c \notin req[q].with /\ req'[q] = req[q]
  BY DEF Crash, WritePortFile, Closed
<1> QED
  BY <1>1, <1>2, <1>3, <1>4, EndHolds

\* Remove takes the name from what others have open.
LEMMA RemovedHolds ==
  ASSUME Typed, RequestsTyped, NEW c \in Command, Remove(c),
         entry[cmd[c].name].kind \notin {"absent", "dir"}
  PROVE  req' = [q \in Request |-> req'[q]] /\ \A q \in Request : HoldsOn(q)
<1> DEFINE n == cmd[c].name
<1>1. Removed(c) /\ n \in Name /\ cmd[c].fd = "none"
  BY DEF Remove, At, Typed, CommandFits
<1>2. /\ entry' = [entry EXCEPT ![n] = Absent] /\ project' = project
      /\ req' = [q \in Request |->
           IF req[q].name = n /\ req[q].fd = "entry"
           THEN Nameless(req[q], entry[req[q].name].text, Writers(n)) ELSE req[q]]
  BY <1>1 DEF Removed, Remove
<1>3. ASSUME NEW d \in Command, d # c
      PROVE  cmd'[d] = IF d \in Writers(n) THEN [cmd[d] EXCEPT !.fd = "gone"] ELSE cmd[d]
  BY <1>1, <1>3 DEF Removed, Unlinked
<1>4. ASSUME NEW d \in Writers(n) PROVE cmd'[d].fd = "gone" /\ cmd'[d].port = cmd[d].port
  <2>1. d \in Command /\ d # c /\ cmd[d] \in CommandState
    BY <1>1 DEF Writers, Typed
  <2> QED
    BY <1>3, <2>1 DEF CommandState
<1>5. ASSUME NEW q \in Request PROVE HoldsOn(q)
  <2>1. req[q] \in RequestState /\ RequestFits(q)
    BY DEF RequestsTyped
  <2>2. CASE req[q].name = n /\ req[q].fd = "entry"
    <3>1. req'[q] = Nameless(req[q], entry[n].text, Writers(n)) /\ entry'[n] = Absent
      BY <1>1, <1>2, <2>2 DEF Typed
    <3>2. req'[q].with = Writers(n)
      <4>1. entry[n].text \in Text /\ Writers(n) \in SUBSET Command
        BY <1>1, EntryType DEF Typed, Writers
      <4> QED
        BY <2>1, <3>1, <4>1, NamelessIs
    <3> QED
      BY <1>4, <2>2, <3>1, <3>2 DEF HoldsOn, LosesEntry
  <2>3. CASE ~(req[q].name = n /\ req[q].fd = "entry")
    <3>1. req'[q] = req[q]
      BY <1>2, <2>3
    <3>2. Same(q)
      <4>1. req[q].fd # "none" => req[q].name \in Name
        BY <2>1 DEF RequestFits
      <4> QED
        BY <1>1, <1>2, <2>1, <2>3, <3>1, <4>1 DEF RequestFits, Same, Typed
    <3>3. ASSUME NEW d \in req[q].with PROVE cmd'[d] = cmd[d] /\ cmd[d].fd = "gone"
      <4>1. d \in Command /\ d # c /\ cmd[d].fd = "gone"
        BY <1>1, <2>1 DEF RequestFits, RequestState
      <4> QED
        BY <1>3, <4>1 DEF Writers
    <3> QED
      BY <3>1, <3>2, <3>3 DEF HoldsOn
  <2> QED
    BY <2>2, <2>3
<1> QED
  BY <1>2, <1>5

\* Edit takes it from the port file of a project.
LEMMA EditHolds ==
  ASSUME Typed, RequestsTyped, Edit
  PROVE  req' = [q \in Request |-> req'[q]] /\ \A q \in Request : HoldsOn(q)
<1> DEFINE W(d) == {c \in Command : cmd[c].to = d /\ cmd[c].fd = "project"}
<1>1. ASSUME req' = req,
             \A n \in Name : entry[n].kind = "file" => entry'[n].kind = "file",
             \A d \in Project : project[d].kind # "gone" => project'[d].kind # "gone",
             cmd' = cmd
      PROVE  \A q \in Request : HoldsOn(q)
  <2> SUFFICES ASSUME NEW q \in Request PROVE HoldsOn(q)
    OBVIOUS
  <2>1. req[q] \in RequestState /\ RequestFits(q)
    BY DEF RequestsTyped
  <2>2. req[q].fd # "none" => req[q].name \in Name
    BY <2>1 DEF RequestFits
  <2>3. Same(q)
    BY <1>1, <2>1, <2>2 DEF RequestFits, Same
  <2> QED
    BY <1>1, <2>1, <2>3 DEF RequestFits, HoldsOn
<1>2. ASSUME NEW d \in Project, req' = MovedAway(d), UNCHANGED entry,
             project'[d].kind = "gone" \/ W(d) = {},
             \A e \in Project \ {d} : project'[e].kind = project[e].kind,
             \A c \in Command :
               cmd'[c] = IF c \in W(d) THEN [cmd[c] EXCEPT !.fd = "gone"] ELSE cmd[c]
      PROVE  \A q \in Request : HoldsOn(q)
  <2> SUFFICES ASSUME NEW q \in Request PROVE HoldsOn(q)
    OBVIOUS
  <2>1. req[q] \in RequestState /\ RequestFits(q)
    BY DEF RequestsTyped
  <2>2. CASE req[q].fd = "project" /\ req[q].to = d
    <3>1. req'[q] = Nameless(req[q], project[d].text, W(d))
      BY <1>2, <2>2 DEF MovedAway
    <3>2. req'[q].with = W(d)
      <4>1. project[d].text \in Text /\ W(d) \in SUBSET Command
        BY DEF Typed, ProjectState, Gone, Blank, Text
      <4> QED
        BY <2>1, <3>1, <4>1, NamelessIs
    <3>3. \A c \in W(d) : cmd'[c].fd = "gone" /\ cmd'[c].port = cmd[c].port
      <4>1. \A c \in Command : cmd[c] \in CommandState
        BY DEF Typed
      <4> QED
        BY <1>2, <4>1 DEF CommandState
    <3>4. LosesProject(q)
      BY <1>2, <2>2, <3>1 DEF LosesProject
    <3> QED
      BY <3>2, <3>3, <3>4 DEF HoldsOn
  <2>3. CASE ~(req[q].fd = "project" /\ req[q].to = d)
    <3>1. req'[q] = req[q]
      BY <1>2, <2>3 DEF MovedAway
    <3>2. Same(q)
      BY <1>2, <2>1, <2>3, <3>1 DEF RequestFits, Same
    <3>3. \A c \in req[q].with : cmd'[c] = cmd[c] /\ cmd[c].fd = "gone"
      BY <1>2, <2>1 DEF RequestFits, RequestState
    <3> QED
      BY <3>1, <3>2, <3>3 DEF HoldsOn
  <2> QED
    BY <2>2, <2>3
<1>3. ASSUME NEW d \in Project, NEW t \in Text, project[d].kind = "dir",
             project' = [project EXCEPT ![d].text = t], UNCHANGED <<entry, cmd>>,
             req' \in {req, MovedAway(d)}
      PROVE  \A q \in Request : HoldsOn(q)
  <2>1. \A e \in Project : project'[e].kind = project[e].kind
    <3>1. project[d] \in [kind : {"dir", "file"}, text : Text]
      BY <1>3 DEF Typed, ProjectState, Gone
    <3> QED
      BY <1>3, <3>1 DEF Typed
  <2>2. W(d) = {}
    BY <1>3 DEF Typed, CommandFits, NoCommand
  <2>3. CASE req' = req
    BY <1>1, <1>3, <2>1, <2>3
  <2>4. CASE req' = MovedAway(d)
    BY <1>2, <1>3, <2>1, <2>2, <2>4
  <2> QED
    BY <1>3, <2>3, <2>4
<1>4. ASSUME NEW d \in Project,
             project' = [project EXCEPT ![d] =
               [kind |-> IF @.kind = "gone" THEN "dir" ELSE "gone", text |-> Blank]],
             cmd' = [c \in Command |-> IF cmd[c].to = d /\ cmd[c].fd = "project"
                                       THEN [cmd[c] EXCEPT !.fd = "gone"] ELSE cmd[c]],
             req' = MovedAway(d), UNCHANGED entry
      PROVE  \A q \in Request : HoldsOn(q)
  <2>1. project'[d].kind = "gone" \/ W(d) = {}
    <3>1. project[d].kind = "gone" => W(d) = {}
      BY DEF Typed, CommandFits, NoCommand
    <3>2. project[d].kind # "gone" => project'[d].kind = "gone"
      BY <1>4 DEF Typed
    <3> QED
      BY <3>1, <3>2
  <2>2. \A e \in Project \ {d} : project'[e].kind = project[e].kind
    BY <1>4 DEF Typed
  <2>3. \A c \in Command :
          cmd'[c] = IF c \in W(d) THEN [cmd[c] EXCEPT !.fd = "gone"] ELSE cmd[c]
    BY <1>4
  <2> QED
    BY <1>2, <1>4, <2>1, <2>2, <2>3
<1>5. ASSUME NEW n \in Name, entry[n] = Absent, entry' = [entry EXCEPT ![n] = Directory],
             UNCHANGED <<project, cmd, req>>
      PROVE  \A q \in Request : HoldsOn(q)
  <2>1. Absent.kind # "file"
    BY DEF Absent
  <2>2. \A m \in Name : entry[m].kind = "file" => entry'[m].kind = "file"
    BY <1>5, <2>1 DEF Typed
  <2> QED
    BY <1>1, <1>5, <2>2
<1>6. {Blank} \cup {Line(p) : p \in Port} \subseteq Text
  <2>1. Blank \in Text
    BY DEF Blank, Text
  <2>2. \A p \in Port : Line(p) \in Text
    BY <2>1, TextType
  <2> QED
    BY <2>1, <2>2
<1>7. req' = [q \in Request |-> req'[q]]
  BY DEF Edit, MovedAway, RequestsTyped
<1> QED
  BY <1>3, <1>4, <1>5, <1>6, <1>7 DEF Edit

\* Only the request at work moves.
OnlyRequest(q) ==
  req' = [req EXCEPT ![q] = req'[q]] /\ UNCHANGED <<entry, project, cmd, edits>>

\* The system calls of resolve_port.
Resolve(q) ==
  SymlinkMetadata(q) \/ ReadLink(q) \/ Metadata(q) \/ OpenPort(q) \/ ReadPort(q)

\* The three ways in which a request goes on.
LEMMA AnswerIs ==
  ASSUME RequestsTyped, NEW q \in Request, NEW p \in Port \cup {NoPort}, Answer(q, p)
  PROVE  /\ req'[q] \in RequestState /\ req' = [req EXCEPT ![q] = req'[q]]
         /\ req'[q].pc = "none" /\ req'[q].fd = "none" /\ req'[q].with = {}
         /\ req'[q].name = req[q].name /\ req'[q].port = p
<1> DEFINE r == [NoRequest EXCEPT !.name = req[q].name, !.to = req[q].to, !.port = p]
<1>1. req[q] \in RequestState /\ req' = [req EXCEPT ![q] = r]
  BY DEF Answer, RequestsTyped
<1>2. req'[q] = r
  BY <1>1 DEF RequestsTyped
<1>3. /\ r \in RequestState /\ r.pc = "none" /\ r.fd = "none" /\ r.with = {}
      /\ r.name = req[q].name /\ r.port = p
  <2>1. "none" \in RequestLabel /\ Blank \in Text
    BY DEF RequestLabel, Blank, Text
  <2> QED
    BY <1>1, <2>1 DEF RequestState, NoRequest
<1> QED
  BY <1>1, <1>2, <1>3

\* A request whose label, open file or target has changed
LEMMA LabelChanged ==
  ASSUME NEW r \in RequestState, NEW l \in RequestLabel, NEW x, x = [r EXCEPT !.pc = l]
  PROVE  /\ x \in RequestState /\ x.pc = l /\ x.fd = r.fd /\ x.to = r.to
         /\ x.with = r.with /\ x.name = r.name
BY DEF RequestState

\* Its file
LEMMA FileChanged ==
  ASSUME NEW r \in RequestState, NEW f \in {"none", "entry", "project", "gone"},
         NEW x, x = [r EXCEPT !.fd = f]
  PROVE  /\ x \in RequestState /\ x.pc = r.pc /\ x.fd = f /\ x.to = r.to
         /\ x.with = r.with /\ x.name = r.name
BY DEF RequestState

\* Its target
LEMMA TargetChanged ==
  ASSUME NEW r \in RequestState, NEW d \in Project \cup {NoProject},
         NEW x, x = [r EXCEPT !.to = d]
  PROVE  /\ x \in RequestState /\ x.pc = r.pc /\ x.fd = r.fd /\ x.to = d
         /\ x.with = r.with /\ x.name = r.name
BY DEF RequestState

\* It goes to label l.
LEMMA GotoIs ==
  ASSUME RequestsTyped, NEW q \in Request, NEW l \in RequestLabel, Goto(q, l)
  PROVE  /\ req'[q] \in RequestState /\ req' = [req EXCEPT ![q] = req'[q]]
         /\ req'[q].pc = l /\ req'[q].fd = req[q].fd /\ req'[q].with = req[q].with
         /\ req'[q].name = req[q].name /\ req'[q].to = req[q].to
<1>1. req[q] \in RequestState /\ req'[q] = [req[q] EXCEPT !.pc = l]
  BY DEF Goto, RequestsTyped
<1>2. req' = [req EXCEPT ![q] = req'[q]]
  BY <1>1 DEF Goto, RequestsTyped
<1> QED
  BY <1>1, <1>2, LabelChanged

\* It opens the file of the entry or of project d.
LEMMA OpenIs ==
  ASSUME RequestsTyped, NEW q \in Request, NEW f \in {"entry", "project"},
         NEW d \in Project \cup {NoProject}, Open(q, f, d)
  PROVE  /\ req'[q] \in RequestState /\ req' = [req EXCEPT ![q] = req'[q]]
         /\ req'[q].pc = "read" /\ req'[q].fd = f /\ req'[q].with = req[q].with
         /\ req'[q].name = req[q].name /\ req'[q].to = d
<1>1. /\ req[q] \in RequestState
      /\ req' = [req EXCEPT ![q] = [[[req[q] EXCEPT !.pc = "read"] EXCEPT !.fd = f]
                                      EXCEPT !.to = d]]
  BY DEF Open, RequestsTyped
<1>2. req'[q] = [[[req[q] EXCEPT !.pc = "read"] EXCEPT !.fd = f] EXCEPT !.to = d]
  BY <1>1 DEF RequestsTyped
<1>3. "read" \in RequestLabel
  BY DEF RequestLabel
<1>4. req' = [req EXCEPT ![q] = req'[q]]
  BY <1>1, <1>2
<1>5. PICK x1 : x1 = [req[q] EXCEPT !.pc = "read"]
  OBVIOUS
<1>6. PICK x2 : x2 = [x1 EXCEPT !.fd = f]
  OBVIOUS
<1>7. req'[q] = [x2 EXCEPT !.to = d]
  BY <1>2, <1>5, <1>6
<1>8. /\ x1 \in RequestState /\ x1.pc = "read"
      /\ x1.with = req[q].with /\ x1.name = req[q].name
  BY <1>1, <1>3, <1>5, LabelChanged
<1>9. /\ x2 \in RequestState /\ x2.pc = "read" /\ x2.fd = f
      /\ x2.with = req[q].with /\ x2.name = req[q].name
  BY <1>6, <1>8, FileChanged
<1>10. /\ req'[q] \in RequestState /\ req'[q].pc = x2.pc /\ req'[q].fd = x2.fd
       /\ req'[q].to = d /\ req'[q].with = x2.with /\ req'[q].name = x2.name
  BY <1>7, <1>9, TargetChanged
<1> QED
  BY <1>4, <1>9, <1>10

\* If the request at work stays well typed, everything does.
LEMMA RequestTyped ==
  ASSUME Typed, RequestsTyped, NEW q \in Request, OnlyRequest(q),
         req'[q] \in RequestState, RequestFits(q)'
  PROVE  Typed' /\ RequestsTyped' /\ Moves /\ \A s \in Request \ {q} : HoldsOn(s)
<1>1. UNCHANGED <<entry, project, cmd, edits>>
  BY DEF OnlyRequest
<1>2. \A s \in Request \ {q} : req'[s] = req[s]
  BY DEF OnlyRequest, RequestsTyped
<1>3. ASSUME NEW s \in Request PROVE req'[s] \in RequestState /\ RequestFits(s)'
  BY <1>1, <1>2 DEF RequestsTyped, RequestFits
<1>4. RequestsTyped'
  BY <1>3 DEF RequestsTyped, OnlyRequest
<1>5. Typed' /\ Moves
  BY <1>1 DEF Typed, CommandFits, Moves, EntryStep, ProjectStep
<1>6. ASSUME NEW s \in Request \ {q} PROVE HoldsOn(s)
  <2>1. req[s] \in RequestState /\ RequestFits(s) /\ req'[s] = req[s]
    BY <1>2 DEF RequestsTyped
  <2> QED
    BY <1>1, <2>1 DEF RequestFits, HoldsOn, Same
<1> QED
  BY <1>4, <1>5, <1>6

\* A request for a name arrives.
LEMMA ArriveTyped ==
  ASSUME Typed, RequestsTyped, NEW q \in Request, NEW n \in Name, Arrive(q, n)
  PROVE  OnlyRequest(q) /\ req'[q] \in RequestState /\ RequestFits(q)'
         /\ req'[q].pc = "lstat" /\ req'[q].fd = "none" /\ req'[q].with = {}
<1> DEFINE r == [NoRequest EXCEPT !.name = n, !.pc = "lstat"]
<1>1. req' = [req EXCEPT ![q] = r] /\ req'[q] = r /\ UNCHANGED <<entry, project, cmd, edits>>
  BY DEF Arrive, RequestsTyped
<1>2. "lstat" \in RequestLabel /\ Blank \in Text
  BY DEF RequestLabel, Blank, Text
<1>3. r \in RequestState /\ r.pc = "lstat" /\ r.name = n /\ r.fd = "none" /\ r.with = {}
  BY <1>2 DEF NoRequest, RequestState
<1> HIDE DEF r
<1>4. RequestFits(q)'
  BY <1>1, <1>3 DEF RequestFits
<1> QED
  BY <1>1, <1>3, <1>4 DEF OnlyRequest

\* What a request looks at.
LEMMA ResolveLooks ==
  ASSUME Typed, RequestsTyped, NEW q \in Request, Resolve(q)
  PROVE  /\ req[q] \in RequestState /\ RequestFits(q) /\ req[q].pc # "none"
         /\ req[q].name \in Name /\ entry[req[q].name] \in Entry
         /\ UNCHANGED <<entry, project, cmd, edits>>
         /\ entry[req[q].name].kind = "link" => entry[req[q].name].to \in Project
         /\ entry[req[q].name].text.port \in Port \cup {NoPort}
         /\ \A d \in Project : project[d].text.port \in Port \cup {NoPort}
         /\ req[q].text.port \in Port \cup {NoPort}
<1> USE DEF Resolve
<1>1. /\ req[q] \in RequestState /\ RequestFits(q)
      /\ req[q].pc # "none" /\ UNCHANGED <<entry, project, cmd, edits>>
  BY DEF RequestsTyped, SymlinkMetadata, ReadLink, Metadata, OpenPort, ReadPort
<1>2. req[q].name \in Name /\ entry[req[q].name] \in Entry
  BY <1>1 DEF RequestFits, Typed
<1>3. /\ entry[req[q].name].kind = "link" => entry[req[q].name].to \in Project
      /\ entry[req[q].name].text.port \in Port \cup {NoPort}
  BY <1>2, EntryType DEF Text
<1>4. \A d \in Project : project[d].text.port \in Port \cup {NoPort}
  BY DEF Typed, ProjectState, Gone, Blank, Text
<1>5. req[q].text.port \in Port \cup {NoPort}
  BY <1>1 DEF RequestState, Text
<1> QED
  BY <1>1, <1>2, <1>3, <1>4, <1>5

\* The system calls, one by one, each with what it has seen.
LEMMA ResolveIs ==
  ASSUME Typed, RequestsTyped, NEW q \in Request, Resolve(q)
  PROVE  LET n == req[q].name
             r == req'[q]
             d == req[q].to
         IN /\ r \in RequestState /\ r.name = n /\ OnlyRequest(q)
            /\ r.fd # "gone" /\ r.with = {}
            /\ \/ r.pc = "none" /\ r.fd = "none" /\
                    \/ r.port = NoPort /\ entry[n].kind = "absent"
                    \/ r.port = NoPort /\ req[q].pc = "readlink" /\ entry[n].kind # "link"
                    \/ r.port = NoPort /\ req[q].pc = "metadata" /\ project[d].kind = "gone"
                    \/ r.port = NoPort /\ req[q].pc = "open_entry" /\ entry[n].kind # "file"
                    \/ /\ r.port = NoPort /\ req[q].pc = "open_dir"
                       /\ project[d].kind # "dir" \/ project[d].text = Blank
                    \/ r.port = NoPort /\ req[q].pc = "open_file" /\ project[d].kind # "file"
                    \/ r.port = Found(q) /\ req[q].pc = "read"
               \/ r.pc = "readlink" /\ r.fd = "none" /\ entry[n].kind = "link"
               \/ r.pc = "open_entry" /\ r.fd = "none" /\ entry[n].kind \in {"file", "dir"}
               \/ /\ r.pc = "metadata" /\ r.fd = "none"
                  /\ entry[n].kind = "link" /\ r.to = entry[n].to
               \/ /\ r.pc = "open_dir" /\ r.fd = "none" /\ r.to = d /\ req[q].pc = "metadata"
                  /\ project[d].kind = "dir"
               \/ /\ r.pc = "open_file" /\ r.fd = "none" /\ r.to = d /\ req[q].pc = "metadata"
                  /\ project[d].kind = "file"
               \/ r.pc = "read" /\ r.fd = "entry" /\ entry[n].kind = "file"
               \/ /\ r.pc = "read" /\ r.fd = "project"
                  /\ \/ entry[n].kind = "link" /\ r.to = entry[n].to /\ project[r.to].kind = "file"
                     \/ req[q].pc = "open_dir" /\ r.to = d /\ project[d].kind = "dir"
                     \/ req[q].pc = "open_file" /\ r.to = d /\ project[d].kind = "file"
<1> DEFINE n == req[q].name
           d == req[q].to
<1>1. /\ req[q] \in RequestState /\ RequestFits(q) /\ n \in Name /\ entry[n] \in Entry
      /\ UNCHANGED <<entry, project, cmd, edits>>
      /\ entry[n].kind = "link" => entry[n].to \in Project
      /\ entry[n].text.port \in Port \cup {NoPort}
      /\ \A e \in Project : project[e].text.port \in Port \cup {NoPort}
      /\ req[q].text.port \in Port \cup {NoPort}
  BY ResolveLooks
<1>2. entry[n].kind \in {"absent", "dir", "file", "link"}
  BY <1>1, EntryType
<1>3. ASSUME req[q].pc # "read" PROVE req[q].fd = "none" /\ req[q].with = {}
  BY <1>1, <1>3 DEF RequestFits
<1>4. /\ req[q].pc \in {"metadata", "open_dir", "open_file"} => d \in Project
      /\ req[q].fd = "project" => d \in Project
  BY <1>1 DEF RequestFits
<1>5. {"readlink", "metadata", "open_entry", "open_dir", "open_file", "read"} \subseteq RequestLabel
  BY DEF RequestLabel
<1>6. ASSUME NEW p \in Port \cup {NoPort}, Answer(q, p)
      PROVE  /\ req'[q] \in RequestState /\ OnlyRequest(q)
             /\ req'[q].pc = "none" /\ req'[q].fd = "none" /\ req'[q].with = {}
             /\ req'[q].name = n /\ req'[q].port = p
  BY <1>1, <1>6, AnswerIs DEF OnlyRequest
<1>7. ASSUME NEW l \in RequestLabel, Goto(q, l), req[q].pc # "read"
      PROVE  /\ req'[q] \in RequestState /\ OnlyRequest(q)
             /\ req'[q].pc = l /\ req'[q].fd = "none" /\ req'[q].with = {}
             /\ req'[q].name = n /\ req'[q].to = d
  BY <1>1, <1>3, <1>7, GotoIs DEF OnlyRequest
<1>8. ASSUME NEW f \in {"entry", "project"}, NEW e \in Project \cup {NoProject}, Open(q, f, e),
             req[q].pc # "read"
      PROVE  /\ req'[q] \in RequestState /\ OnlyRequest(q)
             /\ req'[q].pc = "read" /\ req'[q].fd = f /\ req'[q].with = {}
             /\ req'[q].name = n /\ req'[q].to = e
  BY <1>1, <1>3, <1>8, OpenIs DEF OnlyRequest
<1>9. CASE SymlinkMetadata(q)
  <2>1. CASE entry[n].kind = "absent" /\ Answer(q, NoPort)
    BY <1>6, <2>1
  <2>2. CASE entry[n].kind = "link" /\ Goto(q, "readlink")
    BY <1>5, <1>7, <1>9, <2>2 DEF SymlinkMetadata
  <2>3. CASE entry[n].kind \in {"file", "dir"} /\ Goto(q, "open_entry")
    BY <1>5, <1>7, <1>9, <2>3 DEF SymlinkMetadata
  <2> QED
    BY <1>9, <2>1, <2>2, <2>3 DEF SymlinkMetadata
<1>10. CASE ReadLink(q)
  <2>1. CASE entry[n].kind = "link"
    <3>1. req' = [req EXCEPT ![q].pc = "metadata", ![q].to = entry[n].to]
      BY <1>10, <2>1 DEF ReadLink
    <3>2. /\ req' = [req EXCEPT ![q] = [req[q] EXCEPT !.pc = "metadata", !.to = entry[n].to]]
          /\ req'[q] = [req[q] EXCEPT !.pc = "metadata", !.to = entry[n].to]
      BY <3>1 DEF RequestsTyped
    <3>3. /\ req'[q] \in RequestState /\ req'[q].pc = "metadata" /\ req'[q].to = entry[n].to
          /\ req'[q].fd = req[q].fd /\ req'[q].with = req[q].with /\ req'[q].name = n
      <4>1. PICK x1 : x1 = [req[q] EXCEPT !.pc = "metadata"]
        OBVIOUS
      <4>2. "metadata" \in RequestLabel /\ req'[q] = [x1 EXCEPT !.to = entry[n].to]
        BY <3>2, <4>1 DEF RequestLabel
      <4>3. /\ x1 \in RequestState /\ x1.pc = "metadata" /\ x1.fd = req[q].fd
            /\ x1.with = req[q].with /\ x1.name = n
        BY <1>1, <4>1, <4>2, LabelChanged
      <4> QED
        BY <1>1, <2>1, <4>2, <4>3, TargetChanged
    <3>4. OnlyRequest(q) /\ req[q].pc # "read"
      BY <1>1, <1>10, <3>2 DEF OnlyRequest, ReadLink
    <3> QED
      BY <1>3, <2>1, <3>3, <3>4
  <2>2. CASE entry[n].kind # "link"
    BY <1>6, <1>10, <2>2 DEF ReadLink
  <2> QED
    BY <2>1, <2>2
<1>11. CASE Metadata(q)
  <2>1. CASE project[d].kind = "gone" /\ Answer(q, NoPort)
    BY <1>6, <1>11, <2>1 DEF Metadata
  <2>2. CASE project[d].kind = "dir" /\ Goto(q, "open_dir")
    BY <1>5, <1>7, <1>11, <2>2 DEF Metadata
  <2>3. CASE project[d].kind = "file" /\ Goto(q, "open_file")
    BY <1>5, <1>7, <1>11, <2>3 DEF Metadata
  <2> QED
    BY <1>11, <2>1, <2>2, <2>3 DEF Metadata
<1>12. CASE OpenPort(q)
  <2>1. CASE req[q].pc = "open_entry"
    <3>1. d \in Project \cup {NoProject}
      BY <1>1 DEF RequestState
    <3>2. CASE entry[n].kind = "file" /\ Open(q, "entry", d)
      BY <1>8, <2>1, <3>1, <3>2
    <3>3. CASE /\ entry[n].kind = "link" /\ project[entry[n].to].kind = "file"
               /\ Open(q, "project", entry[n].to)
      BY <1>1, <1>8, <2>1, <3>3
    <3>4. CASE entry[n].kind # "file" /\ Answer(q, NoPort)
      BY <1>6, <2>1, <3>4
    <3> QED
      BY <1>12, <2>1, <3>2, <3>3, <3>4 DEF OpenPort
  <2>2. CASE req[q].pc = "open_dir"
    <3>1. CASE project[d].kind = "dir" /\ Open(q, "project", d)
      BY <1>4, <1>8, <2>2, <3>1
    <3>2. CASE (project[d].kind # "dir" \/ project[d].text = Blank) /\ Answer(q, NoPort)
      BY <1>6, <2>2, <3>2
    <3> QED
      BY <1>12, <2>2, <3>1, <3>2 DEF OpenPort
  <2>3. CASE req[q].pc = "open_file"
    <3>1. CASE project[d].kind = "file" /\ Open(q, "project", d)
      BY <1>4, <1>8, <2>3, <3>1
    <3>2. CASE project[d].kind # "file" /\ Answer(q, NoPort)
      BY <1>6, <2>3, <3>2
    <3> QED
      BY <1>12, <2>3, <3>1, <3>2 DEF OpenPort
  <2> QED
    BY <1>12, <2>1, <2>2, <2>3 DEF OpenPort
<1>13. CASE ReadPort(q)
  <2>1. Found(q) \in Port \cup {NoPort} /\ Answer(q, Found(q)) /\ req[q].pc = "read"
    BY <1>1, <1>4, <1>13 DEF ReadPort, Found
  <2> QED
    BY <1>6, <2>1
<1> QED
  BY <1>9, <1>10, <1>11, <1>12, <1>13 DEF Resolve

\* The request at work stays well typed.
LEMMA ResolveTyped ==
  ASSUME Typed, RequestsTyped, NEW q \in Request, Resolve(q)
  PROVE  RequestFits(q)'
<1> DEFINE n == req[q].name
<1>1. /\ n \in Name /\ RequestFits(q) /\ entry' = entry /\ project' = project
      /\ entry[n].kind = "link" => entry[n].to \in Project
  BY ResolveLooks
<1>2. req'[q].name = n /\ req'[q].fd # "gone" /\ req'[q].with = {}
  BY ResolveIs
<1>3. /\ req'[q].pc \in {"metadata", "open_dir", "open_file"} => req'[q].to \in Project
      /\ req'[q].pc = "read" <=> req'[q].fd # "none"
      /\ req'[q].fd = "entry" => entry[n].kind = "file"
      /\ req'[q].fd = "project" => req'[q].to \in Project /\ project[req'[q].to].kind # "gone"
  BY <1>1, ResolveIs DEF RequestFits
<1> QED
  BY <1>1, <1>2, <1>3 DEF RequestFits

\* In a step at most one request is at work, and the others hold on to what they
\* have open; entries and projects move only so.
LEMMA NextTyped ==
  ASSUME Typed, RequestsTyped, Next
  PROVE  /\ Typed' /\ RequestsTyped' /\ Moves /\ Record
         /\ \/ \A q \in Request : HoldsOn(q)
            \/ \E q \in Request :
                 /\ Resolve(q) \/ \E n \in Name : Arrive(q, n)
                 /\ \A s \in Request \ {q} : HoldsOn(s)
<1>1. ASSUME req' = [q \in Request |-> req'[q]], \A q \in Request : HoldsOn(q)
      PROVE  RequestsTyped'
  <2>1. \A q \in Request : req'[q] \in RequestState /\ RequestFits(q)'
    BY <1>1, HeldTyped
  <2> QED
    BY <1>1, <2>1 DEF RequestsTyped
<1>2. req' = req => req' = [q \in Request |-> req'[q]]
  BY DEF RequestsTyped
<1>3. ASSUME NEW c \in Command, NEW n \in Name, Invoke(c, n)
      PROVE  Typed' /\ RequestsTyped' /\ Moves /\ \A q \in Request : HoldsOn(q)
  BY <1>1, <1>2, <1>3, InvokeTyped, CommandUntouched
<1>4. ASSUME NEW c \in Command, Crash(c) \/ WritePortFile(c)
      PROVE  Typed' /\ RequestsTyped' /\ Moves /\ \A q \in Request : HoldsOn(q)
  BY <1>1, <1>4, CrashTyped, WritePortFileTyped, EndsHolds
<1>5. ASSUME NEW c \in Command, Remove(c)
      PROVE  Typed' /\ RequestsTyped' /\ Moves /\ \A q \in Request : HoldsOn(q)
  <2>1. Typed' /\ Moves
    BY <1>5, RemoveTyped
  <2>2. req' = [q \in Request |-> req'[q]] /\ \A q \in Request : HoldsOn(q)
    BY <1>2, <1>5, CommandUntouched, RemovedHolds
  <2> QED
    BY <1>1, <2>1, <2>2
<1>6. ASSUME NEW c \in Command, Check(c) \/ CreateSymlink(c) \/ OpenPortFile(c)
      PROVE  Typed' /\ RequestsTyped' /\ Moves /\ \A q \in Request : HoldsOn(q)
  BY <1>1, <1>2, <1>6, CheckTyped, CreateSymlinkTyped, OpenPortFileTyped, CommandUntouched
<1>7. ASSUME NEW q \in Request, NEW n \in Name, Arrive(q, n)
      PROVE  Typed' /\ RequestsTyped' /\ Moves /\ \A s \in Request \ {q} : HoldsOn(s)
  BY <1>7, ArriveTyped, RequestTyped
<1>8. ASSUME NEW q \in Request, Resolve(q)
      PROVE  Typed' /\ RequestsTyped' /\ Moves /\ \A s \in Request \ {q} : HoldsOn(s)
  <2>1. req'[q] \in RequestState /\ OnlyRequest(q)
    BY <1>8, ResolveIs
  <2>2. RequestFits(q)'
    BY <1>8, ResolveTyped
  <2> QED
    BY <2>1, <2>2, RequestTyped
<1>9. ASSUME Edit
      PROVE  Typed' /\ RequestsTyped' /\ Moves /\ \A q \in Request : HoldsOn(q)
  BY <1>1, <1>9, EditTyped, EditHolds
<1>10. Record
  BY DEF Next
<1> QED
  BY <1>3, <1>4, <1>5, <1>6, <1>7, <1>8, <1>9, <1>10 DEF Next, Resolve

\* At first there is nothing but directories.
LEMMA InitTyped == Init => Typed /\ RequestsTyped
<1> SUFFICES ASSUME Init PROVE Typed /\ RequestsTyped
  OBVIOUS
<1>1. entry \in [Name -> Entry] /\ project \in [Project -> ProjectState]
  BY DEF Init, InitEntries, Entry, ProjectState, Gone, Blank, Text
<1>2. cmd \in [Command -> CommandState] /\ \A c \in Command : CommandFits(c)
  BY DEF Init, NoCommand, CommandState, CommandFits
<1>3. req \in [Request -> RequestState] /\ \A q \in Request : RequestFits(q)
  <2>1. "none" \in RequestLabel /\ Blank \in Text
    BY DEF RequestLabel, Blank, Text
  <2> QED
    BY <2>1 DEF Init, NoRequest, RequestState, RequestFits
<1> QED
  BY <1>1, <1>2, <1>3, RegistryAssumption DEF Init, Typed, RequestsTyped

\* The types hold in every state.
LEMMA AlwaysTyped == Spec => [](Typed /\ RequestsTyped)
<1> DEFINE T == Typed /\ RequestsTyped
<1>1. T /\ UNCHANGED vars => T'
  BY DEF vars, Typed, RequestsTyped, CommandFits, RequestFits
<1>2. T /\ [Next]_vars => T'
  BY <1>1, NextTyped
<1> QED
  BY InitTyped, <1>2, PTL DEF Spec

\* TypeOK: every variable has its type; no text in a port file, whoever wrote
\* it and whatever was left of the one before, is longer than a line.
THEOREM RegistryTypeCorrect == Spec => []TypeOK
<1>1. Typed /\ RequestsTyped => TypeOK
  <2> SUFFICES ASSUME Typed, RequestsTyped PROVE TypeOK
    OBVIOUS
  <2>1. \A n \in Name : entry[n].kind \in {"absent", "dir", "file", "link"}
                        /\ entry[n].text \in Text
    BY EntryType DEF Typed
  <2>2. \A d \in Project : project[d].kind \in {"dir", "gone", "file"}
                           /\ project[d].text \in Text
    BY DEF Typed, ProjectState, Gone, Blank, Text
  <2>3. \A c \in Command : cmd[c] \in CommandState
    BY DEF Typed
  <2>4. \A q \in Request : req[q] \in RequestState
    BY DEF RequestsTyped
  <2> QED
    BY <2>1, <2>2, <2>3, <2>4 DEF TypeOK, CommandState, RequestState
<1> QED
  BY <1>1, AlwaysTyped, PTL

\* DirectoriesAreSafe: link and unlink never remove a directory somebody made
\* in apps/, whenever it was made.
THEOREM RegistryKeepsDirectories == Spec => DirectoriesAreSafe
<1> DEFINE Safe == \A n \in Name : entry[n] = Directory => entry'[n] = Directory
<1>1. Typed /\ RequestsTyped /\ [Next]_vars => [Safe]_vars
  BY NextTyped DEF Moves, EntryStep, Directory, Absent
<1> QED
  BY <1>1, AlwaysTyped, PTL DEF Spec, DirectoriesAreSafe

(***************************************************************************)
(* Requests.                                                               *)
(***************************************************************************)

\* What Record notes for a request that goes on.
LEMMA Recorded ==
  ASSUME Typed', RequestsTyped', HistoryTyped, Record,
         NEW q \in Request, req'[q].pc # "none"
  PROVE  /\ linked[q] \subseteq linked'[q] /\ valid[q] \subseteq valid'[q]
         /\ req'[q].name \in Name /\ Current(req[q].name)' \in valid'[q]
         /\ entry'[req'[q].name].kind = "link" => entry'[req'[q].name].to \in linked'[q]
         /\ \A d \in linked'[q] : d \in Project /\ ProjectPort(d)' \in valid'[q]
         /\ \A c \in Command :
              HasOpen(c, req[q].name, linked[q])' => cmd'[c].port \in valid'[q]
<1> DEFINE n == req'[q].name
<1>1. n \in Name /\ entry'[n] \in Entry
  BY DEF Typed, RequestsTyped, RequestFits
<1>2. linked'[q] = linked[q] \cup ({entry'[n].to} \ {NoProject})
  BY DEF Record
<1>3. valid'[q] = valid[q] \cup {Ports'[n]} \cup {ProjectPorts'[d] : d \in linked'[q]}
                  \cup BeingWritten(req[q].name, linked[q])'
  BY DEF Record
<1>4. entry'[n].to \in Project \cup {NoProject}
      /\ (entry'[n].kind = "link" => entry'[n].to \in Project)
  BY <1>1, EntryType
<1>5. linked'[q] \subseteq Project
  BY <1>2, <1>4 DEF HistoryTyped
<1>6. Ports'[n] = Current(req[q].name)'
  BY <1>1 DEF Ports
<1>7. \A d \in linked'[q] : ProjectPorts'[d] = ProjectPort(d)'
  BY <1>5 DEF ProjectPorts
<1>8. \A c \in Command : HasOpen(c, req[q].name, linked[q])'
        => cmd'[c].port \in BeingWritten(req[q].name, linked[q])'
  BY DEF BeingWritten
<1> QED
  BY <1>1, <1>2, <1>3, <1>4, <1>5, <1>6, <1>7, <1>8, RegistryAssumption

\* History stays well typed.
LEMMA HistoryKept ==
  ASSUME Typed', RequestsTyped', HistoryTyped, Record
  PROVE  HistoryTyped'
<1>1. ASSUME NEW q \in Request PROVE linked'[q] \subseteq Project
  <2>1. CASE req'[q].pc = "none"
    BY <2>1 DEF Record
  <2>2. CASE req'[q].pc # "none"
    BY <2>2, Recorded
  <2> QED
    BY <2>1, <2>2
<1> QED
  BY <1>1 DEF HistoryTyped, Record

\* What is written at the start of a text is read as that port, or as none.
LEMMA OverwrittenPort ==
  ASSUME NEW t \in Text, NEW p \in Port
  PROVE  Overwrite(t, p).port \in {p, NoPort}
BY DEF Overwrite, Line

\* The file that a request keeps without its name
LEMMA HeldFileTracks ==
  ASSUME Typed, RequestsTyped, HistoryTyped, Typed', RequestsTyped', Record,
         NEW q \in Request, req[q].pc # "none", Tracks(q), HoldsOn(q), req'[q].fd = "gone"
  PROVE  /\ req'[q].text.port \in valid'[q]
         /\ \A c \in req'[q].with : NoPort \in valid'[q] /\ cmd'[c].port \in valid'[q]
<1> DEFINE n == req[q].name
           d == req[q].to
<1>1. req[q] \in RequestState /\ RequestFits(q) /\ req'[q].pc # "none"
      /\ req'[q].name = n /\ n \in Name
  BY Held DEF RequestsTyped, RequestFits
<1>2. /\ linked[q] \subseteq linked'[q] /\ valid[q] \subseteq valid'[q]
      /\ Current(req[q].name)' \in valid'[q]
      /\ \A e \in linked'[q] : e \in Project /\ ProjectPort(e)' \in valid'[q]
  BY <1>1, Recorded
<1>3. \A c \in req'[q].with : cmd'[c].port = cmd[c].port
  BY DEF HoldsOn
<1>4. CASE Same(q)
  <2>1. req'[q] = req[q] /\ req[q].fd = "gone"
    BY <1>4 DEF Same
  <2> QED
    BY <1>1, <1>2, <1>3, <2>1 DEF Tracks
<1>5. CASE LosesEntry(q)
  <2>1. req'[q].text = entry[n].text /\ req'[q].with = Writers(n)
    <3>1. entry[n].text \in Text /\ Writers(n) \in SUBSET Command
      BY <1>1, EntryType DEF Typed, Writers
    <3> QED
      BY <1>1, <1>5, <3>1, NamelessIs DEF LosesEntry
  <2>2. entry[n].text.port \in valid[q]
    BY <1>1, <1>5 DEF LosesEntry, RequestFits, Tracks, Current
  <2>3. NoPort \in valid'[q]
    <3>1. entry'[req'[q].name] = Absent
      BY <1>1, <1>5 DEF LosesEntry
    <3> QED
      BY <1>1, <1>2, <3>1 DEF Current, Absent, Blank
  <2>4. \A c \in Writers(n) : cmd[c].port \in valid[q]
    BY <1>1 DEF Writers, Tracks, HasOpen
  <2> QED
    BY <1>2, <1>3, <2>1, <2>2, <2>3, <2>4
<1>6. CASE LosesProject(q)
  <2> DEFINE W == {c \in Command : cmd[c].to = d /\ cmd[c].fd = "project"}
  <2>1. d \in Project /\ d \in linked[q] /\ req[q].fd = "project" /\ project[d].kind # "gone"
    BY <1>1, <1>6 DEF LosesProject, RequestFits, Tracks
  <2>2. req'[q].text = project[d].text /\ req'[q].with = W
    <3>1. project[d].text \in Text /\ W \in SUBSET Command
      BY <2>1 DEF Typed, ProjectState, Gone, Blank, Text
    <3> QED
      BY <1>1, <1>6, <3>1, NamelessIs DEF LosesProject
  <2>3. project[d].text.port \in valid[q]
    BY <1>1, <2>1 DEF Tracks, ProjectPort
  <2>4. W # {} => NoPort \in valid'[q]
    <3>1. W # {} => project'[d].kind = "gone"
      BY <1>6 DEF LosesProject
    <3> QED
      BY <1>2, <2>1, <3>1 DEF ProjectPort
  <2>5. \A c \in W : cmd[c].port \in valid[q]
    BY <1>1, <2>1 DEF Tracks, HasOpen
  <2> QED
    BY <1>2, <1>3, <2>2, <2>3, <2>4, <2>5
<1>7. CASE SeesWrite(q)
  <2>1. PICK W \in SUBSET req[q].with, t \in Text :
          /\ req'[q] = Nameless(req[q], t, W)
          /\ t # req[q].text => \E c \in req[q].with : t = Overwrite(req[q].text, cmd[c].port)
    BY <1>7 DEF SeesWrite
  <2>2. req'[q].text = t /\ req'[q].with = W
    <3>1. W \in SUBSET Command
      BY <1>1 DEF RequestState
    <3> QED
      BY <1>1, <2>1, <3>1, NamelessIs
  <2>3. /\ req[q].text.port \in valid[q]
        /\ \A c \in req[q].with : NoPort \in valid[q] /\ cmd[c].port \in valid[q]
    BY <1>7 DEF SeesWrite, Tracks
  <2>4. t.port \in valid[q]
    <3>1. CASE t = req[q].text
      BY <2>3, <3>1
    <3>2. CASE t # req[q].text
      <4>1. PICK c \in req[q].with : t = Overwrite(req[q].text, cmd[c].port)
        BY <2>1, <3>2
      <4>2. c \in Command /\ cmd[c].fd = "gone" /\ CommandFits(c) /\ req[q].text \in Text
        BY <1>1 DEF RequestFits, RequestState, Typed
      <4>3. cmd[c].port \in Port
        BY <4>2 DEF CommandFits, NoCommand
      <4> QED
        BY <2>3, <4>1, <4>2, <4>3, OverwrittenPort
    <3> QED
      BY <3>1, <3>2
  <2> QED
    BY <1>2, <1>3, <2>2, <2>3, <2>4
<1> QED
  BY <1>4, <1>5, <1>6, <1>7 DEF HoldsOn

\* A request that is not at work is not disturbed by what others do.
LEMMA OthersKeepTracks ==
  ASSUME Typed, RequestsTyped, HistoryTyped, Typed', RequestsTyped', Moves, Record,
         NEW q \in Request, Tracks(q), HoldsOn(q)
  PROVE  Tracks(q)'
<1>0. /\ req'[q].name = req[q].name /\ req'[q].pc = req[q].pc /\ req'[q].to = req[q].to
      /\ req'[q].fd # "gone" => req'[q] = req[q]
  BY Held
<1> SUFFICES ASSUME req[q].pc # "none" PROVE Tracks(q)'
  BY <1>0 DEF Tracks
<1> DEFINE n == req[q].name
<1>1. /\ linked[q] \subseteq linked'[q] /\ valid[q] \subseteq valid'[q]
      /\ n \in Name /\ Current(req[q].name)' \in valid'[q]
      /\ entry'[n].kind = "link" => entry'[n].to \in linked'[q]
      /\ \A d \in linked'[q] : d \in Project /\ ProjectPort(d)' \in valid'[q]
      /\ \A c \in Command : HasOpen(c, req[q].name, linked[q])' => cmd'[c].port \in valid'[q]
  BY <1>0, Recorded
<1>2. entry'[n] = Absent => NoPort \in valid'[q]
  BY <1>0, <1>1 DEF Current, Absent, Blank
<1>3. EntryStep(n)
  BY <1>1 DEF Moves
<1>4. /\ req[q].pc = "readlink" /\ entry'[n].kind # "link" => NoPort \in valid'[q]
      /\ req[q].pc = "open_entry" /\ entry'[n].kind # "file" => NoPort \in valid'[q]
  BY <1>1, <1>2, <1>3 DEF Tracks, EntryStep
<1>5. ASSUME req[q].pc \in {"metadata", "open_dir", "open_file"}
      PROVE  /\ req[q].to \in linked'[q]
             /\ req[q].pc = "open_dir" /\ project'[req[q].to].kind # "dir" => NoPort \in valid'[q]
             /\ req[q].pc = "open_file" /\ project'[req[q].to].kind # "file"
                  => NoPort \in valid'[q]
  <2>1. req[q].to \in linked'[q] /\ req[q].to \in Project
    BY <1>1, <1>5 DEF Tracks
  <2>2. project'[req[q].to].kind = "gone" => NoPort \in valid'[q]
    BY <1>1, <2>1 DEF ProjectPort
  <2>3. ProjectStep(req[q].to)
    BY <2>1 DEF Moves
  <2> QED
    BY <1>1, <2>1, <2>2, <2>3 DEF Tracks, ProjectStep
<1>6. req'[q].fd = "project" => req'[q].to \in linked'[q]
  BY <1>0, <1>1 DEF Tracks
<1>7. /\ req'[q].fd = "gone" => req'[q].text.port \in valid'[q]
      /\ \A c \in req'[q].with : NoPort \in valid'[q] /\ cmd'[c].port \in valid'[q]
  <2>1. CASE req'[q].fd = "gone"
    BY <2>1, HeldFileTracks
  <2>2. CASE req'[q].fd # "gone"
    BY <2>2 DEF RequestsTyped, RequestFits
  <2> QED
    BY <2>1, <2>2
<1> QED
  BY <1>0, <1>1, <1>4, <1>5, <1>6, <1>7 DEF Tracks

\* A request that arrives.
LEMMA ArriveTracks ==
  ASSUME Typed, RequestsTyped, HistoryTyped, Typed', RequestsTyped', Record,
         NEW q \in Request, NEW n \in Name, Arrive(q, n)
  PROVE  Tracks(q)'
<1>1. req'[q].pc = "lstat" /\ req'[q].fd = "none" /\ req'[q].with = {}
  BY ArriveTyped
<1> QED
  BY <1>1, Recorded DEF Tracks

\* A request that goes on: what it decides on is so at this moment.
LEMMA ResolveTracks ==
  ASSUME Typed, RequestsTyped, HistoryTyped, Typed', RequestsTyped', Record,
         NEW q \in Request, Tracks(q), Resolve(q)
  PROVE  Tracks(q)'
<1> DEFINE n == req[q].name
<1> SUFFICES ASSUME req'[q].pc # "none" PROVE Tracks(q)'
  BY DEF Tracks
<1>1. /\ req[q].pc # "none" /\ n \in Name /\ entry[n] \in Entry
      /\ entry' = entry /\ project' = project
  BY ResolveLooks
<1>2. req'[q].name = n /\ req'[q].fd # "gone" /\ req'[q].with = {}
  BY ResolveIs
<1>3. /\ linked[q] \subseteq linked'[q] /\ valid[q] \subseteq valid'[q]
      /\ Current(req[q].name)' \in valid'[q]
      /\ entry'[n].kind = "link" => entry'[n].to \in linked'[q]
      /\ \A d \in linked'[q] : d \in Project /\ ProjectPort(d)' \in valid'[q]
      /\ \A c \in Command : HasOpen(c, req[q].name, linked[q])' => cmd'[c].port \in valid'[q]
  BY <1>2, Recorded
<1>4. entry[n].kind = "dir" => NoPort \in valid'[q]
  <2>1. entry[n].kind = "dir" => entry[n].text.port = NoPort
    BY <1>1, EntryType DEF Blank
  <2> QED
    BY <1>1, <1>2, <1>3, <2>1 DEF Current
<1>5. /\ req'[q].pc = "readlink" => entry[n].kind = "link"
      /\ req'[q].pc = "open_entry" => entry[n].kind \in {"file", "dir"}
      /\ req'[q].pc \in {"metadata", "open_dir", "open_file"} => req'[q].to \in linked'[q]
      /\ req'[q].pc = "open_dir" => project[req'[q].to].kind = "dir"
      /\ req'[q].pc = "open_file" => project[req'[q].to].kind = "file"
      /\ req'[q].fd = "project" => req'[q].to \in linked'[q]
  <2>1. req[q].pc \in {"metadata", "open_dir", "open_file"} => req[q].to \in linked'[q]
    BY <1>1, <1>3 DEF Tracks
  <2>2. entry[n].kind = "link" => entry[n].to \in linked'[q]
    BY <1>1, <1>3
  <2> QED
    BY <2>1, <2>2, ResolveIs
<1> QED
  BY <1>1, <1>2, <1>3, <1>4, <1>5 DEF Tracks

\* What an answer rests on: the port the name has at this moment, or none.
LEMMA AnswerFits ==
  ASSUME Typed, RequestsTyped, HistoryTyped, NEW q \in Request, Tracks(q), Resolve(q),
         req'[q].pc = "none"
  PROVE  req'[q].port \in valid[q]
<1> DEFINE n == req[q].name
           d == req[q].to
<1>1. /\ req[q].pc # "none" /\ RequestFits(q) /\ n \in Name /\ entry[n] \in Entry
  BY ResolveLooks
<1>2. \A e \in linked[q] : ProjectPort(e) \in valid[q]
  BY <1>1 DEF Tracks
<1>3. entry[n].kind = "absent" => NoPort \in valid[q]
  <2>1. entry[n].kind = "absent" => Current(n) = NoPort
    BY <1>1, EntryType DEF Current, Blank
  <2> QED
    BY <1>1, <2>1 DEF Tracks
<1>4. req[q].pc = "metadata" /\ project[d].kind = "gone" => NoPort \in valid[q]
  BY <1>1, <1>2 DEF Tracks, ProjectPort
<1>5. req[q].pc = "open_dir" /\ (project[d].kind # "dir" \/ project[d].text = Blank)
        => NoPort \in valid[q]
  BY <1>1, <1>2 DEF Tracks, ProjectPort, Blank
<1>6. req[q].pc = "read" => Found(q) \in valid[q]
  <2>1. CASE req[q].fd = "entry"
    BY <1>1, <2>1 DEF Found, Tracks, RequestFits, Current
  <2>2. CASE req[q].fd = "project"
    BY <1>1, <1>2, <2>2 DEF Found, Tracks, RequestFits, ProjectPort
  <2>3. CASE req[q].fd = "gone"
    BY <1>1, <2>3 DEF Found, Tracks
  <2>4. req[q].pc = "read" => req[q].fd \in {"entry", "project", "gone"}
    BY <1>1 DEF RequestFits, RequestsTyped, RequestState
  <2> QED
    BY <2>1, <2>2, <2>3, <2>4
<1>7. /\ req[q].pc = "readlink" /\ entry[n].kind # "link" => NoPort \in valid[q]
      /\ req[q].pc = "open_entry" /\ entry[n].kind # "file" => NoPort \in valid[q]
      /\ req[q].pc = "open_file" /\ project[d].kind # "file" => NoPort \in valid[q]
  BY <1>1 DEF Tracks
<1> QED
  BY <1>3, <1>4, <1>5, <1>6, <1>7, ResolveIs

\* What requests can rely on, they can always rely on.
TracksInv == Typed /\ RequestsTyped /\ HistoryTyped /\ \A q \in Request : Tracks(q)

\* Whoever makes the step.
LEMMA TracksNext == TracksInv /\ [Next]_vars => TracksInv'
<1> SUFFICES ASSUME TracksInv, [Next]_vars PROVE TracksInv'
  OBVIOUS
<1>1. CASE UNCHANGED vars
  <2>1. Typed' /\ RequestsTyped' /\ HistoryTyped'
    BY <1>1 DEF TracksInv, vars, Typed, RequestsTyped, CommandFits, RequestFits, HistoryTyped
  <2>2. ASSUME NEW q \in Request PROVE Tracks(q)'
    BY <1>1 DEF TracksInv, vars, Tracks, Current, ProjectPort, HasOpen
  <2> QED
    BY <2>1, <2>2 DEF TracksInv
<1>2. CASE Next
  <2>1. /\ Typed' /\ RequestsTyped' /\ Moves /\ Record
        /\ \/ \A q \in Request : HoldsOn(q)
           \/ \E q \in Request :
                /\ Resolve(q) \/ \E n \in Name : Arrive(q, n)
                /\ \A s \in Request \ {q} : HoldsOn(s)
    BY <1>2, NextTyped DEF TracksInv
  <2>2. HistoryTyped'
    BY <2>1, HistoryKept DEF TracksInv
  <2>3. ASSUME NEW q \in Request, HoldsOn(q) PROVE Tracks(q)'
    BY <2>1, <2>3, OthersKeepTracks DEF TracksInv
  <2>4. ASSUME NEW q \in Request, Resolve(q) \/ \E n \in Name : Arrive(q, n)
        PROVE  Tracks(q)'
    BY <2>1, <2>4, ArriveTracks, ResolveTracks DEF TracksInv
  <2>5. \A q \in Request : Tracks(q)'
    BY <2>1, <2>3, <2>4
  <2> QED
    BY <2>1, <2>2, <2>5 DEF TracksInv
<1> QED
  BY <1>1, <1>2

\* At first there are no requests.
LEMMA TracksInit == Init => TracksInv
<1> SUFFICES ASSUME Init PROVE TracksInv
  OBVIOUS
<1>1. Typed /\ RequestsTyped /\ HistoryTyped
  BY InitTyped DEF Init, HistoryTyped
<1>2. \A q \in Request : Tracks(q)
  BY DEF Init, Tracks, NoRequest
<1> QED
  BY <1>1, <1>2 DEF TracksInv

\* AnswerOfItsTime: no request is answered from an older registration or from a
\* mixture of two, whatever happens between the system calls of resolve_port,
\* an unlink between the open and the read of a port file included.
THEOREM RegistryAnswers == Spec => AnswerOfItsTime
<1> DEFINE Right(q) == req[q].pc # "none" /\ req'[q].pc = "none" => req'[q].port \in valid[q]
           Answers == \A q \in Request : Right(q)
<1>1. TracksInv /\ [Next]_vars => [Answers]_vars
  <2> SUFFICES ASSUME TracksInv, Next, NEW q \in Request PROVE Right(q)
    OBVIOUS
  <2>1. Typed /\ RequestsTyped /\ HistoryTyped /\ Tracks(q)
    BY DEF TracksInv
  <2>2. CASE HoldsOn(q)
    BY <2>1, <2>2, Held
  <2>3. CASE \E n \in Name : Arrive(q, n)
    BY <2>3 DEF Arrive
  <2>4. CASE Resolve(q)
    BY <2>1, <2>4, AnswerFits
  <2> QED
    BY <2>1, <2>2, <2>3, <2>4, NextTyped
<1> QED
  BY <1>1, TracksInit, TracksNext, PTL DEF Spec, AnswerOfItsTime

(***************************************************************************)
(* Commands.                                                               *)
(***************************************************************************)

\* What a step of a command does while nobody comes across it: it is at its
\* next stage, or it is done and the entry is what it was asked for.
Done(c) ==
  LET e == entry'[cmd[c].name]
  IN e = Directory \/ e = CASE cmd[c].op = "port" -> File(Line(cmd[c].port))
                            [] cmd[c].op = "symlink" -> Link(cmd[c].to)
                            [] OTHER -> Absent
Ready(c) ==
  LET k == cmd'[c]
      e == entry'[cmd[c].name]
  IN /\ k.pc # "none" /\ k.name = cmd[c].name
     /\ k.pc = "remove" => e.kind \in {"file", "link"}
     /\ k.pc \in {"open", "symlink"} => e.kind \in {"absent", "dir"}
     /\ k.pc = "write" => k.fd = "entry" /\ e = File(Blank)

\* A command that ends has its entry deleted from the table.
LEMMA Ends == ASSUME Typed, NEW c \in Command, Finish(c) PROVE cmd'[c] = NoCommand
BY DEF Typed, Finish

\* Nothing but a directory keeps link from going on; unlink may also be done.
LEMMA CheckWorks ==
  ASSUME Typed, NEW c \in Command, Undisturbed(c), Check(c)
  PROVE  (cmd'[c] = NoCommand /\ Done(c)) \/ Ready(c)
<1> DEFINE n == cmd[c].name
<1>1. /\ n \in Name /\ entry[n] \in Entry /\ entry' = entry /\ cmd[c] \in CommandState
      /\ cmd[c].op \in {"port", "symlink", "unlink"} /\ At(c, "check")
  BY DEF Typed, CommandFits, Check, At, CommandState
<1>2. CASE Finish(c)
  <2>1. entry[n] = Directory \/ (entry[n] = Absent /\ cmd[c].op = "unlink")
    <3>1. \A l : Step(c, l) => cmd'[c].pc = l
      BY <1>1 DEF Step, Typed, CommandState
    <3>2. cmd'[c].pc = "none"
      BY <1>2, Ends DEF NoCommand
    <3> QED
      BY <1>1, <3>1, <3>2, EntryType DEF Check, Replace, Create
  <2> QED
    BY <1>1, <1>2, <2>1, Ends DEF Done
<1>3. ASSUME NEW l, Step(c, l), l # "none", l # "write",
             l = "remove" => entry[n].kind \in {"file", "link"},
             l \in {"open", "symlink"} => entry[n].kind \in {"absent", "dir"}
      PROVE  Ready(c)
  BY <1>1, <1>3 DEF Ready, Step, Typed, CommandState
<1> QED
  BY <1>1, <1>2, <1>3 DEF Check, Replace, Create

\* The entry that was found is still there to be removed.
LEMMA RemoveWorks ==
  ASSUME Typed, NEW c \in Command, Undisturbed(c), Remove(c)
  PROVE  (cmd'[c] = NoCommand /\ Done(c)) \/ Ready(c)
<1> DEFINE n == cmd[c].name
<1>1. /\ n \in Name /\ entry[n].kind \in {"file", "link"} /\ cmd[c] \in CommandState
      /\ cmd[c].op \in {"port", "symlink", "unlink"}
  BY DEF Typed, CommandFits, Remove, At, CommandState, Undisturbed
<1>2. Removed(c)
  BY <1>1 DEF Remove
<1>3. entry'[n] = Absent
  BY <1>1, <1>2 DEF Removed, Typed
<1>4. cmd'[c] = IF cmd[c].op = "unlink" THEN NoCommand ELSE [cmd[c] EXCEPT !.pc = Create(c)]
  BY <1>2 DEF Removed, Unlinked
<1>5. CASE cmd[c].op = "unlink"
  BY <1>3, <1>4, <1>5 DEF Done
<1>6. CASE cmd[c].op # "unlink"
  <2>1. cmd'[c].pc = Create(c) /\ cmd'[c].name = n
    BY <1>1, <1>4, <1>6 DEF CommandState
  <2> QED
    BY <1>3, <2>1 DEF Ready, Create, Absent
<1> QED
  BY <1>5, <1>6

\* Nobody but the developer has put anything in the place of the entry.
LEMMA CreateSymlinkWorks ==
  ASSUME Typed, NEW c \in Command, Undisturbed(c), CreateSymlink(c)
  PROVE  (cmd'[c] = NoCommand /\ Done(c)) \/ Ready(c)
<1> DEFINE n == cmd[c].name
<1>1. /\ n \in Name /\ entry[n].kind \in {"absent", "dir"} /\ entry[n] \in Entry
      /\ cmd[c].op = "symlink"
  BY DEF Typed, CommandFits, CreateSymlink, At, Undisturbed
<1>2. entry'[n] = IF entry[n].kind = "absent" THEN Link(cmd[c].to) ELSE entry[n]
  BY <1>1 DEF CreateSymlink, Typed
<1>3. entry'[n] = Link(cmd[c].to) \/ entry'[n] = Directory
  BY <1>1, <1>2, EntryType
<1> QED
  BY <1>1, <1>3, Ends DEF Done, CreateSymlink

\* So the file that is opened is a new one ...
LEMMA OpenPortFileWorks ==
  ASSUME Typed, NEW c \in Command, Undisturbed(c), OpenPortFile(c)
  PROVE  (cmd'[c] = NoCommand /\ Done(c)) \/ Ready(c)
<1> DEFINE n == cmd[c].name
<1>1. /\ n \in Name /\ entry[n].kind \in {"absent", "dir"} /\ entry[n] \in Entry
      /\ cmd[c].op = "port" /\ cmd[c] \in CommandState
  BY DEF Typed, CommandFits, OpenPortFile, At, Undisturbed
<1>2. CASE entry[n].kind = "absent"
  <2>1. /\ entry' = [entry EXCEPT ![n] = File(Blank)]
        /\ cmd' = [cmd EXCEPT ![c].pc = "write", ![c].fd = "entry"]
    BY <1>2 DEF OpenPortFile
  <2>2. entry'[n] = File(Blank) /\ cmd'[c] = [cmd[c] EXCEPT !.pc = "write", !.fd = "entry"]
    BY <1>1, <2>1 DEF Typed
  <2>3. cmd'[c].pc = "write" /\ cmd'[c].fd = "entry" /\ cmd'[c].name = n
    BY <1>1, <2>2 DEF CommandState
  <2> QED
    BY <2>2, <2>3 DEF Ready
<1>3. CASE entry[n].kind = "dir"
  <2>1. entry[n] = Directory /\ Finish(c) /\ entry' = entry
    BY <1>1, <1>3, EntryType DEF OpenPortFile
  <2> QED
    BY <2>1, Ends DEF Done
<1> QED
  BY <1>1, <1>2, <1>3

\* ... and nothing of an older text is left in it.
LEMMA WritePortFileWorks ==
  ASSUME Typed, NEW c \in Command, Undisturbed(c), WritePortFile(c)
  PROVE  (cmd'[c] = NoCommand /\ Done(c)) \/ Ready(c)
<1> DEFINE n == cmd[c].name
           p == cmd[c].port
<1>1. /\ n \in Name /\ entry[n] = File(Blank) /\ cmd[c].fd = "entry"
      /\ cmd[c].op = "port" /\ p \in Port
  BY DEF Typed, CommandFits, WritePortFile, At, Undisturbed
<1>2. entry'[n] = [entry[n] EXCEPT !.text = Overwrite(entry[n].text, p)]
  BY <1>1 DEF WritePortFile, Typed
<1>3. Overwrite(Blank, p) = Line(p)
  BY <1>1, RegistryAssumption DEF Overwrite, Blank
<1>4. entry'[n] = File(Line(p))
  BY <1>1, <1>2, <1>3 DEF File, Absent
<1> QED
  BY <1>1, <1>4, Ends DEF Done, WritePortFile

\* The steps of c while nobody comes across it.
LEMMA Works ==
  ASSUME Typed, NEW c \in Command, Undisturbed(c),
         \/ Check(c) \/ Remove(c) \/ CreateSymlink(c) \/ OpenPortFile(c) \/ WritePortFile(c)
  PROVE  (cmd'[c] = NoCommand /\ Done(c)) \/ Ready(c)
BY CheckWorks, RemoveWorks, CreateSymlinkWorks, OpenPortFileWorks, WritePortFileWorks

\* What the others' steps do to c, if it does not run or nobody comes across it.
Spared(c) ==
  /\ cmd'[c] = cmd[c]
  /\ c \in alone => LET n == cmd[c].name
                    IN entry'[n] = entry[n] \/ (entry[n] = Absent /\ entry'[n] = Directory)

\* They change its entry only if the developer makes a directory there.
LEMMA OthersSpare ==
  ASSUME RegistryInv, Next, NEW c \in Command, c \in alone \/ cmd[c] = NoCommand,
         ~ \E n \in Name : Invoke(c, n), ~ Crash(c), ~ Check(c), ~ Remove(c),
         ~ CreateSymlink(c), ~ OpenPortFile(c), ~ WritePortFile(c)
  PROVE  Spared(c)
<1>1. Typed /\ (c \in alone => Undisturbed(c) /\ cmd[c].name \in Name)
  BY DEF RegistryInv, Typed, CommandFits, Undisturbed
<1>2. ASSUME NEW d \in Command, NEW n \in Name, Invoke(d, n) PROVE Spared(c)
  BY <1>1, <1>2, InvokeTyped DEF Spared
<1>3. ASSUME NEW d \in Command,
             \/ Crash(d) \/ Check(d) \/ Remove(d)
             \/ CreateSymlink(d) \/ OpenPortFile(d) \/ WritePortFile(d)
      PROVE  Spared(c)
  <2>1. d # c /\ OnlyCommand(d)
    BY <1>1, <1>3, CrashTyped, CheckTyped, RemoveTyped, CreateSymlinkTyped,
       OpenPortFileTyped, WritePortFileTyped
  <2>2. cmd[d].pc # "none"
    BY <1>1, <1>3
    DEF Crash, Check, Remove, CreateSymlink, OpenPortFile, WritePortFile, At, Typed, CommandFits
  <2>3. cmd[d].name \in Name
    BY <1>1, <2>2 DEF Typed, CommandFits
  <2>4. cmd[d].name # cmd[c].name
    <3>1. CASE c \in alone
      BY <1>1, <2>1, <3>1 DEF Undisturbed
    <3>2. CASE cmd[c] = NoCommand
      BY <2>3, <3>2, RegistryAssumption DEF NoCommand
    <3> QED
      BY <3>1, <3>2
  <2> QED
    BY <1>1, <2>1, <2>4 DEF OnlyCommand, Spared
<1>4. ASSUME UNCHANGED <<entry, cmd>> PROVE Spared(c)
  BY <1>4 DEF Spared
<1>5. CASE Edit
  <2>1. cmd[c].fd # "project"
    BY <1>1 DEF Undisturbed, Typed, CommandFits, NoCommand
  <2> QED
    BY <1>1, <1>5, <2>1, EditTyped DEF Spared
<1> QED
  BY <1>2, <1>3, <1>4, <1>5
  DEF Next, Arrive, SymlinkMetadata, ReadLink, Metadata, OpenPort, ReadPort

\* A command nobody has come across is still undisturbed.
LEMMA StaysUndisturbed ==
  ASSUME RegistryInv, Next, Typed', Record, NEW c \in alone'
  PROVE  Undisturbed(c)'
<1>1. /\ c \in Command /\ cmd'[c] # NoCommand /\ (c \in alone \/ cmd[c] = NoCommand)
      /\ \A d \in Command \ {c} : cmd'[d].name # cmd'[c].name
  BY DEF Record
<1>2. cmd'[c].pc # "none" /\ Typed
  BY <1>1 DEF Typed, CommandFits, RegistryInv
<1>3. CASE Ready(c)
  BY <1>1, <1>2, <1>3 DEF Ready, Undisturbed
<1>4. CASE \E n \in Name : Invoke(c, n)
  <2>1. cmd'[c].pc = "check"
    BY <1>1, <1>2, <1>4 DEF Invoke, Typed, NoCommand
  <2> QED
    BY <1>1, <2>1 DEF Undisturbed
<1>5. CASE Crash(c)
  BY <1>1, <1>2, <1>5, Ends DEF Crash
<1>6. CASE \/ Check(c) \/ Remove(c) \/ CreateSymlink(c) \/ OpenPortFile(c) \/ WritePortFile(c)
  <2>1. c \in alone
    BY <1>1, <1>6
    DEF Check, Remove, CreateSymlink, OpenPortFile, WritePortFile, At, NoCommand
  <2>2. Undisturbed(c)
    BY <2>1 DEF RegistryInv
  <2> QED
    BY <1>1, <1>2, <1>3, <1>6, <2>2, Works
<1>7. CASE Spared(c)
  <2>1. c \in alone /\ Undisturbed(c) /\ cmd'[c] = cmd[c]
    BY <1>1, <1>7 DEF Spared, RegistryInv
  <2>2. LET n == cmd[c].name
        IN entry'[n] = entry[n] \/ (entry[n] = Absent /\ entry'[n] = Directory)
    BY <1>7, <2>1 DEF Spared
  <2>3. Absent.kind = "absent" /\ Directory.kind = "dir" /\ File(Blank).kind = "file"
    BY DEF Absent, Directory, File
  <2>4. /\ cmd[c].pc = "remove" => entry'[cmd[c].name].kind \in {"file", "link"}
        /\ cmd[c].pc \in {"open", "symlink"} => entry'[cmd[c].name].kind \in {"absent", "dir"}
        /\ cmd[c].pc = "write" => cmd[c].fd = "entry" /\ entry'[cmd[c].name] = File(Blank)
    BY <2>1, <2>2, <2>3 DEF Undisturbed
  <2> QED
    BY <1>1, <1>2, <2>1, <2>4 DEF Undisturbed
<1> QED
  BY <1>1, <1>4, <1>5, <1>6, <1>7, OthersSpare

\* The inductive invariant.
LEMMA RegistryNext == RegistryInv /\ [Next]_vars => RegistryInv'
<1> SUFFICES ASSUME RegistryInv, [Next]_vars PROVE RegistryInv'
  OBVIOUS
<1>1. TracksInv' /\ TracksInv
  BY TracksNext DEF RegistryInv, TracksInv
<1>2. CASE UNCHANGED vars
  BY <1>1, <1>2 DEF RegistryInv, TracksInv, vars, Undisturbed
<1>3. CASE Next
  <2>1. Record /\ Typed'
    BY <1>1, <1>3, NextTyped DEF TracksInv
  <2>2. \A c \in alone' : Undisturbed(c)'
    BY <1>3, <2>1, StaysUndisturbed
  <2> QED
    BY <1>1, <2>2 DEF RegistryInv, TracksInv
<1> QED
  BY <1>2, <1>3

\* At first there are no commands.
LEMMA RegistryInit == Init => RegistryInv
BY TracksInit DEF Init, RegistryInv, TracksInv

\* LinkTakesEffect: a command that is not killed, and whose name no other one
\* changes at the same time, leaves the registration it was asked for, whatever
\* earlier commands have left behind.
THEOREM RegistryLinks == Spec => LinkTakesEffect
<1> DEFINE Wanted(c) == CASE cmd[c].op = "port" -> File(Line(cmd[c].port))
                          [] cmd[c].op = "symlink" -> Link(cmd[c].to)
                          [] OTHER -> Absent
           Effect(c) == LET n == cmd[c].name
                        IN cmd'[c] = NoCommand /\ edits' = edits /\ entry'[n] # Directory =>
                             entry'[n] = Wanted(c)
           Links == \A c \in alone : Effect(c)
<1>1. RegistryInv /\ [Next]_vars => [Links]_vars
  <2> SUFFICES ASSUME RegistryInv, Next, NEW c \in alone,
                      cmd'[c] = NoCommand, edits' = edits, entry'[cmd[c].name] # Directory
               PROVE  entry'[cmd[c].name] = Wanted(c)
    OBVIOUS
  <2>1. /\ c \in Command /\ Typed /\ Undisturbed(c) /\ cmd[c].pc # "none"
        /\ cmd[c] # NoCommand /\ edits \in Nat
    BY DEF RegistryInv, HistoryTyped, Typed, Undisturbed, NoCommand
  <2>2. cmd'[c].pc = "none"
    BY DEF NoCommand
  <2>3. ~ \E n \in Name : Invoke(c, n)
    BY <2>1 DEF Invoke
  <2>4. ~ Crash(c)
    BY <2>1 DEF Crash
  <2>5. ~ Spared(c)
    BY <2>1, <2>2 DEF Spared
  <2>6. Check(c) \/ Remove(c) \/ CreateSymlink(c) \/ OpenPortFile(c) \/ WritePortFile(c)
    BY <2>1, <2>3, <2>4, <2>5, OthersSpare
  <2>7. Done(c) \/ Ready(c)
    BY <2>1, <2>6, Works
  <2> QED
    BY <2>2, <2>7 DEF Done, Ready
<1> QED
  BY <1>1, RegistryInit, RegistryNext, PTL DEF Spec, LinkTakesEffect

==============================================================================
