----------------------------- MODULE MCJobQueue -----------------------------
\* The instances of JobQueue that TLC checks.
EXTENDS JobQueue, TLC

CONSTANTS j1, j2

\* Packs run one at a time; a build's two attempts may overlap.
TwoPacks == (j1 :> "pack") @@ (j2 :> "pack")
OneBuild == j1 :> "build"
=============================================================================
