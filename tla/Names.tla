------------------------------- MODULE Names --------------------------------
(***************************************************************************)
(* What the parts of the program take for the name of an app.  A host is   *)
(* written in more ways than one: with capitals, in the label of the app   *)
(* or in the top-level domain; with a final dot; with a port behind it.    *)
(***************************************************************************)
CONSTANTS
  App,   \* names of apps
  NoApp  \* "no app", also the host that is a top-level domain only

Part == {"app", "tld"}
Spelling == [app : App \cup {NoApp}, tld : {"test", "other"},
             upper : SUBSET Part, dot : BOOLEAN, port : BOOLEAN]

\* The name as link, DNS and TLS clients write it without thinking.
Plain(a) == [app |-> a, tld |-> "test", upper |-> {}, dot |-> FALSE, port |-> FALSE]

\* dns: final dots and capitals do not matter.
IsTestDomain(s) == s.tld = "test"

\* tls: nor do they for a certificate.
Normalize(s) == [s EXCEPT !.upper = {}, !.dot = FALSE]

\* Mutant: the port is left on the name.
ExtractAppNameKeepsPort(s) ==
  IF s.tld = "test" /\ "tld" \notin s.upper /\ ~s.dot /\ ~s.port THEN s.app ELSE NoApp

\* proxy: the port is cut off, and the rest has to end in ".test" exactly.  The
\* capitals of an app's name are left to the file system, which ignores them.
ExtractAppName(s) ==
  IF s.tld = "test" /\ "tld" \notin s.upper /\ ~s.dot THEN s.app ELSE NoApp
=============================================================================
