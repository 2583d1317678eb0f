-------------------------- MODULE MCInstallEngine --------------------------
\* The instances of InstallEngine that TLC checks.
EXTENDS InstallEngine

CONSTANTS e1, e2

\* A plan that lost a file since the last run, one that got another, and one
\* whose second folder is in the way.
ThreePlans == {<<"runtime">>, <<"runtime", "lib">>, <<"runtime", "taken">>}
OnePlan == {<<"runtime">>}
=============================================================================
