----------------------------- MODULE MCServing ------------------------------
\* The instances of Serving that TLC checks.
EXTENDS Serving, TLC

CONSTANTS web

Capital == [Plain(web) EXCEPT !.upper = {"app"}, !.port = TRUE]
Elsewhere == [Plain(web) EXCEPT !.tld = "other"]
Dotted == [Plain(web) EXCEPT !.dot = TRUE]

Questions == {[host |-> h, type |-> "A"] : h \in {Capital, Elsewhere, Dotted, Plain(NoApp)}}
               \cup {[host |-> Plain(web), type |-> "AAAA"]}
=============================================================================
