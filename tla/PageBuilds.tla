----------------------------- MODULE PageBuilds -----------------------------
(***************************************************************************)
(* Builds made inside the page (local-api.js, and new.js that starts them):*)
(* the files each hands over, one at a time, as links of the page or into  *)
(* a file the user picked, and the links that are let go when the next     *)
(* build starts. Nothing keeps two builds from running at once.            *)
(***************************************************************************)
EXTENDS Naturals

CONSTANTS
    Builds,    \* builds started in this page
    Platforms  \* number of installers an offline build makes

Nobody == "nobody"

ASSUME BuildsAssumption == Platforms \in Nat \ {0} /\ Nobody \notin Builds

VARIABLES
    build,    \* where each build is
    sending,  \* the build whose form is being sent, if any
    asked,    \* how the user was asked where its files go
    saveTo,   \* the destination that is waiting, by the build it was picked for
    dest,     \* saveTo when the build was started
    made,     \* how many files it has handed over
    gens,     \* generations, by the build each was made for: links that are
              \* let go together
    newest,   \* the newest of them
    written,  \* <<build, destination>>: a file of the one went to the other
    lost,     \* links let go while their build was still at work
    together  \* pairs of builds that were at work at one time

buildVars == <<build, sending, asked, saveTo, dest, made, gens, newest, written, lost, together>>

AtWork(b) == build[b] \in {"env", "running"}

InitBuilds ==
    /\ build = [b \in Builds |-> "idle"]
    /\ sending = Nobody /\ saveTo = Nobody
    /\ asked = [b \in Builds |-> "online"]
    /\ dest = [b \in Builds |-> Nobody]
    /\ made = [b \in Builds |-> 0]
    /\ gens = [g \in Builds \cup {Nobody} |-> [links |-> {}, done |-> FALSE]]
    /\ newest = Nobody
    /\ written = {} /\ lost = {} /\ together = {}

\* askWhereToPack: a pack that can be held in memory is not asked about, and
\* what an earlier question left behind stays.
WhereTo(b, how) ==
    CASE how = "picked" -> b
      [] how = "cancelled" -> Nobody
      [] OTHER -> saveTo

\* The form is sent, and the page's own API asked.
Click(b, how) ==
    /\ sending = Nobody /\ build[b] = "idle"
    /\ sending' = b
    /\ build' = [build EXCEPT ![b] = "env"]
    /\ asked' = [asked EXCEPT ![b] = how]
    /\ saveTo' = WhereTo(b, how)
    /\ together' = together \cup {{b, c} : c \in {d \in Builds : AtWork(d)}}
    /\ UNCHANGED <<dest, made, gens, newest, written, lost>>

\* The catalogue cannot be read, or validate() finds something.
Refuse(b) ==
    /\ sending = b
    /\ sending' = Nobody
    /\ build' = [build EXCEPT ![b] = "refused"]
    /\ asked' = [asked EXCEPT ![b] = "online"]
    /\ UNCHANGED <<saveTo, dest, made, gens, newest, written, lost, together>>

\* Mutant: all of them are let go.
SpentAny(g) == TRUE

\* newGeneration: the links of builds that are done are let go.
Spent(g) == g.done

Submit(b) ==
    /\ sending = b
    /\ sending' = Nobody
    /\ build' = [build EXCEPT ![b] = "running"]
    /\ dest' = [dest EXCEPT ![b] = saveTo]
    /\ gens' = [g \in DOMAIN gens |->
                  IF Spent(gens[g]) THEN [gens[g] EXCEPT !.links = {}] ELSE gens[g]]
    /\ newest' = b
    /\ lost' = lost \cup {l \in UNION {gens[g].links : g \in {h \in DOMAIN gens : Spent(gens[h])}} :
                            build[l[1]] = "running"}
    /\ UNCHANGED <<asked, saveTo, made, written, together>>

Linking(b, n) == [gens EXCEPT ![newest].links = @ \cup {<<b, n>>}]

\* savePacked: into whatever destination waits now, or a link of the newest
\* generation.
HandOver(b) ==
    /\ build[b] = "running" /\ asked[b] # "online" /\ made[b] < Platforms
    /\ made' = [made EXCEPT ![b] = @ + 1]
    /\ IF saveTo # Nobody
       THEN written' = written \cup {<<b, saveTo>>} /\ UNCHANGED gens
       ELSE gens' = Linking(b, made[b] + 1) /\ UNCHANGED written
    /\ UNCHANGED <<build, sending, asked, saveTo, dest, newest, lost, together>>

DestKept(b) == saveTo
DestAfter(b) == IF saveTo = dest[b] THEN Nobody ELSE saveTo

\* What was known of a build goes with it.
Forget(b) ==
    /\ asked' = [asked EXCEPT ![b] = "online"]
    /\ dest' = [dest EXCEPT ![b] = Nobody]
    /\ made' = [made EXCEPT ![b] = 0]

\* An online build's files are linked at the end, its downloads not in them.
Done(b) ==
    /\ build[b] = "running"
    /\ asked[b] = "online" \/ made[b] = Platforms
    /\ build' = [build EXCEPT ![b] = "done"]
    /\ LET all == IF asked[b] = "online" THEN Linking(b, 1) ELSE gens
       IN  gens' = [all EXCEPT ![b].done = TRUE]
    /\ saveTo' = DestAfter(b) /\ Forget(b)
    /\ UNCHANGED <<sending, newest, written, lost, together>>

\* Its generation is not marked, and its links are kept for good.
Fail(b) ==
    /\ build[b] = "running"
    /\ build' = [build EXCEPT ![b] = "failed"]
    /\ saveTo' = DestAfter(b) /\ Forget(b)
    /\ UNCHANGED <<sending, gens, newest, written, lost, together>>

NextBuilds ==
    \E b \in Builds :
        \/ \E how \in {"online", "held", "picked", "cancelled"} : Click(b, how)
        \/ Refuse(b) \/ Submit(b) \/ HandOver(b) \/ Done(b) \/ Fail(b)

SpecBuilds == InitBuilds /\ [][NextBuilds]_buildVars

\* A link of a build that is still at work is let go only when a build that
\* started beside it has ended; and a file goes where its own user asked,
\* unless another build was at work at the same time, or the destination was
\* picked for a build that was then refused (local-api.js generations, saveTo).
OneAtATimeIsSafe ==
    /\ \A l \in lost : \E c \in Builds \ {l[1]} :
          {l[1], c} \in together /\ build[c] = "done"
    /\ \A w \in written :
          w[1] = w[2] \/ {w[1], w[2]} \in together \/ build[w[2]] = "refused"
=============================================================================
