--------------------------- MODULE MCAppRegistry ---------------------------
\* The instances of AppRegistry that TLC checks.
EXTENDS AppRegistry, TLC

CONSTANTS p80, p3000

FarDigits == p80 :> 2 @@ p3000 :> 4

ProjectSymmetry == Permutations(Project) \cup Permutations(Command)
=============================================================================
