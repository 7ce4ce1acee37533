--------------------------- MODULE MCCertResolver ---------------------------
\* The instance of CertResolver that TLC checks: two apps, one of which is asked
\* for in a second spelling.
EXTENDS CertResolver, TLC

CONSTANTS web, api, noApp

N == INSTANCE Names WITH App <- {web, api}, NoApp <- noApp

Shouted == [N!Plain(web) EXCEPT !.upper = {"app", "tld"}, !.dot = TRUE]
Asking == {N!Plain(web), Shouted, N!Plain(api)}
SpellingNorm == [s \in Asking |-> N!Normalize(s)]

HandshakeSymmetry == Permutations(Handshake)
=============================================================================
