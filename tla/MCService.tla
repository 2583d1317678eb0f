------------------------------ MODULE MCService ------------------------------
(***************************************************************************)
(* The build server, the ticket page and the builds made in a page, for    *)
(* TLC. A behaviour follows one cast of callers, which bounds how many are *)
(* at work together: a page that has found its server, with its builds; a  *)
(* page on which the user acts before that, and nothing else goes wrong    *)
(* than its probe; the requests for one package's plan; the builds of one  *)
(* source with the requests for theirs; and builds in a page alone.        *)
(***************************************************************************)
EXTENDS TicketPage, PageBuilds

CONSTANTS j1, j2, n1, n2, r1, s1, b1, b2, b3

MCJobs == {j1, j2}
MCNameAsks == {n1, n2}
MCRecordAsks == {r1}
MCSourceAsks == {s1}
MCBuilds == {b1, b2, b3}

VARIABLE cast

Casts == {"page", "early", "names", "sources", "local"}
mcVars == <<clientAll, buildVars, cast>>

Resting(calls) == \A c \in calls : pc'[c] = "idle"

\* A page whose own server is the one it uses, as far as it matters.
Found == page.explicit /\ page.base = "name"

MCInit ==
    /\ InitServer /\ InitClient /\ InitBuilds
    /\ cast \in Casts
    /\ cast # "early" => Found

MCNext ==
    /\ UNCHANGED cast
    /\ \/ cast = "page" /\ NextClient /\ UNCHANGED buildVars
          /\ (page.probe = "asking" => page'.probe = "settled")
       \/ cast = "early" /\ NextClient /\ UNCHANGED buildVars
          /\ (budget'.faults = budget.faults \/ "probe" \in page'.hung)
       \/ cast = "names" /\ NextServer /\ Resting(Jobs) /\ UNCHANGED <<clientVars, buildVars>>
       \/ cast = "sources" /\ NextServer /\ Resting(NameAsks \cup RecordAsks)
          /\ UNCHANGED <<clientVars, buildVars>>
       \/ cast = "local" /\ NextBuilds /\ UNCHANGED clientAll

MCSpec == MCInit /\ [][MCNext]_mcVars /\ ClientFairness

=============================================================================
