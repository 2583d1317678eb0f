----------------------------- MODULE TicketPage -----------------------------
(***************************************************************************)
(* One page of the site and the server it talks to: the form that is sent  *)
(* (new.js), the ticket that polls its job (build.js), and the client both *)
(* go through (api.js), which waits through outages, sends again what got  *)
(* no answer, and may fall back to another address of the same server.     *)
(*                                                                         *)
(* The page is one value, and a handler that calls another is a function   *)
(* of it. The server it was built for is the one that serves it. A 429     *)
(* only delays a call and is left out; so are a second health check while  *)
(* one is under way, and a second build of the page.                       *)
(***************************************************************************)
EXTENDS BuildServer

CONSTANTS
    MaxMoves,    \* bound: what the user does on the page
    MaxFaults    \* bound: an address of the server stops answering, the server
                 \* dies, a call is given up on although the server answers, the
                 \* body of an answer breaks off or never ends, or a build of
                 \* the page never does

NoJob == "no job"
InPage == "a build of the page"

ASSUME TicketAssumption ==
    /\ MaxMoves \in Nat /\ MaxFaults \in Nat
    /\ Jobs \cap {NoJob, InPage} = {}

VARIABLES
    page,        \* all of the page's state
    up,          \* the server's addresses that answer
    strays,      \* posts given up on that may still reach the server
    mine,        \* builds the server queued for this page
    budget       \* what is left of the bounds

clientVars == <<page, up, strays, mine, budget>>

Addresses == {"name", "address"}
Tickets == Jobs \cup {InPage}
Slots == {1, 2}
Free == [pc |-> "free", job |-> NoJob, current |-> FALSE, to |-> "name", status |-> "none"]
NoPost == [pc |-> "none", to |-> "name", job |-> NoJob]

\* What GET /api/jobs/{id} says of a job of the server.
StatusOf(j) ==
    CASE pc[j] = "queued" -> "queued"
      [] pc[j] \in {"done", "failed"} -> pc[j]
      [] OTHER -> "running"
Ended == {"done", "failed", "unknown"}
Rank(s) == CASE s = "queued" -> 1 [] s = "running" -> 2 [] OTHER -> 3

\* Default is the server by its name, and an address that says otherwise, or a
\* choice of an earlier visit, is explicit. Probe says whether the page has found
\* out if its own server answers; own is the build of the page; hung are the
\* things that never come to an end; chosen is what the user last chose, and
\* during which probe or part of a health check.
InitClient ==
    /\ \E explicit \in BOOLEAN, base \in {"name", "local"} :
          /\ base = "local" => explicit
          /\ page = [explicit |-> explicit, probe |-> "asking", hash |-> NoJob, base |-> base,
                     chosen |-> base, during |-> {}, down |-> FALSE, recheck |-> FALSE,
                     check |-> "none", asked |-> "name", post |-> NoPost,
                     polls |-> [s \in Slots |-> Free], timer |-> FALSE, finished |-> FALSE,
                     shown |-> [job |-> NoJob, status |-> "none"], known |-> {},
                     own |-> "none", hung |-> {}, unheard |-> 0]
    /\ up = Addresses /\ strays = 0 /\ mine = {}
    /\ budget = [moves |-> MaxMoves, faults |-> MaxFaults]

Spend(what) == budget[what] > 0 /\ budget' = [budget EXCEPT ![what] = @ - 1]

(***************************************************************************)
(* build.js                                                                *)
(***************************************************************************)
Local(p) == p.base = "local"

\* An answer for the poll that nothing newer has taken the place of.
Painted(p, job, status) ==
    [p EXCEPT !.shown = [job |-> job, status |-> status],
              !.finished = status \in Ended,
              !.timer = status \notin Ended]

\* Mutant: an older poll stays current.
SupersededNot(polls) ==
    [s \in Slots |-> IF polls[s].pc \in {"sent", "body"} THEN polls[s] ELSE Free]

\* pollSeq: every poll before this one is out of date. One that waits for the
\* server would be sent again for nothing, and is forgotten.
Superseded(polls) ==
    [s \in Slots |-> IF polls[s].pc \in {"sent", "body"}
                     THEN [polls[s] EXCEPT !.current = FALSE] ELSE Free]

\* Any job the server has not seen.
NextJob == CHOOSE j \in Jobs : pc[j] = "idle"

FreeSlot(p) == \E s \in Slots : p.polls[s].pc = "free"

\* What the page itself answers: it knows its own build, and no other.
Answered(p, job) == Painted(p, job, IF job = InPage THEN p.own ELSE "unknown")

\* Every call waits for the probe, and one to the server for the server.
Poll(p) ==
    LET q == [p EXCEPT !.timer = FALSE, !.polls = Superseded(@), !.hung = @ \ {"poll"}]
        s == CHOOSE i \in Slots : q.polls[i].pc = "free"
        new(where) == [q EXCEPT !.polls[s] = [pc |-> where, job |-> p.hash, current |-> TRUE,
                                              to |-> p.base, status |-> "none"]]
    IN  CASE p.hash = NoJob -> q
          [] p.hash # NoJob /\ p.probe = "asking" -> new("early")
          [] p.hash # NoJob /\ p.probe # "asking" /\ (p.hash = InPage \/ Local(p)) ->
                Answered(q, p.hash)
          [] OTHER -> new(IF p.down THEN "wait" ELSE "sent")

\* start(): an address without a job hides the ticket and asks nothing.
Opened(p) ==
    IF p.hash = NoJob
    THEN [p EXCEPT !.finished = FALSE, !.shown = [job |-> NoJob, status |-> "none"]]
    ELSE Poll([p EXCEPT !.finished = FALSE])

ApiChanged(p) == IF p.hash = NoJob THEN p ELSE Opened(p)

(***************************************************************************)
(* api.js: down and up                                                     *)
(***************************************************************************)
MarkDown(p) ==
    IF p.down THEN p ELSE [p EXCEPT !.down = TRUE, !.recheck = TRUE]

Woken(x) == IF x.pc = "wait" THEN [x EXCEPT !.pc = "go"] ELSE x

\* Mutant: polls that wait are not sent again.
MarkUpWithoutWaking(p) ==
    IF ~p.down THEN p
    ELSE [p EXCEPT !.down = FALSE, !.recheck = FALSE, !.post = Woken(@)]

MarkUp(p) ==
    IF ~p.down THEN p
    ELSE [p EXCEPT !.down = FALSE, !.recheck = FALSE, !.post = Woken(@),
                   !.polls = [s \in Slots |-> Woken(@[s])]]

\* checkHealth, for the address in use; without an answer it goes on to the
\* other addresses of the server the page was built for.
Recheck(p) == [p EXCEPT !.recheck = FALSE, !.check = "first", !.asked = p.base]

NotChecking(p) == [p EXCEPT !.check = "none", !.asked = "name"]

\* Mutant: the health check answers for the server it was sent to.
Checked1OfAsked(p) ==
    CASE p.asked \in up -> MarkUp(NotChecking(p))
      [] p.asked \notin up /\ p.asked = "name" -> [p EXCEPT !.check = "second"]
      [] OTHER -> [NotChecking(p) EXCEPT !.recheck = p.down]

Checked1(p) ==
    CASE p.asked \in up -> MarkUp(NotChecking(p))
      [] p.asked \notin up /\ p.base = "name" -> [p EXCEPT !.check = "second"]
      [] OTHER -> [NotChecking(p) EXCEPT !.recheck = p.down]

Checked2(p) ==
    IF "address" \in up
    THEN MarkUp(ApiChanged([NotChecking(p) EXCEPT !.base = "address"]))
    ELSE [NotChecking(p) EXCEPT !.recheck = p.down]

\* setApiBase, by the header's panel or the banner.
Chosen(p, b) ==
    LET q == ApiChanged([p EXCEPT !.base = b, !.chosen = b,
                                  !.during = {p.check} \cup (IF p.probe = "asking" THEN {"probe"}
                                                             ELSE {})])
    IN  CASE p.down /\ b = "local" -> MarkUp(q)
          [] p.down /\ b # "local" /\ p.check = "none" -> Recheck(q)
          [] OTHER -> q

(***************************************************************************)
(* What the user does                                                      *)
(***************************************************************************)
Page(p) == page' = p /\ UNCHANGED <<serverVars, up, strays, mine>>
Alone(p) == Page(p) /\ UNCHANGED budget

\* Mutant: a form may be sent while it is being sent.
MaySendAgain == TRUE

\* The form is sent once at a time (new.js `sending').
MaySend == page.post.pc = "none"

Send ==
    /\ MaySend /\ page.hash = NoJob
    /\ Spend("moves")
    /\ Page([page EXCEPT !.post = [pc |-> CASE page.probe = "asking" -> "early"
                                             [] page.probe # "asking" /\ page.down -> "wait"
                                             [] OTHER -> "go",
                                   to |-> page.base, job |-> NoJob]])

\* Another ticket of this browser, or back to the page without one.
Navigate(h) ==
    /\ h # page.hash /\ FreeSlot(page)
    /\ Spend("moves")
    /\ Page(Opened([page EXCEPT !.hash = h]))

Choose(b) ==
    /\ b # page.base /\ FreeSlot(page)
    /\ Spend("moves")
    /\ Page(Chosen(page, b))

\* The tab comes back into view.
LookAgain ==
    /\ ~page.finished /\ page.hash # NoJob /\ FreeSlot(page)
    /\ Spend("moves")
    /\ Page(Poll(page))

(***************************************************************************)
(* The page's timers, its probe, and its own build                         *)
(***************************************************************************)
TimerFires ==
    /\ page.timer /\ FreeSlot(page)
    /\ Alone(Poll(page))

RecheckFires ==
    /\ page.recheck /\ page.check = "none"
    /\ Alone(Recheck(page))

FirstCheckEnds == page.check = "first" /\ Alone(Checked1(page))

SecondCheckEnds ==
    /\ page.check = "second" /\ FreeSlot(page)
    /\ Alone(Checked2(page))

\* apiReady: the server of the page's origin has answered, now or earlier in
\* this tab, or it has not. Without an explicit address the page is moved to it,
\* by what was explicit when it was loaded.
Ready(x) == IF x.pc = "early" THEN [x EXCEPT !.pc = "go"] ELSE x

Probed(p, yes) ==
    [p EXCEPT !.probe = "settled",
              !.base = IF yes /\ ~p.explicit THEN "name" ELSE @,
              !.post = Ready(@),
              !.polls = [s \in Slots |-> Ready(@[s])]]

ProbeEnds(yes) == page.probe = "asking" /\ "probe" \notin page.hung /\ Alone(Probed(page, yes))

\* submit of local-api.js: the build goes on by itself.
BuiltHere(p) ==
    Opened([p EXCEPT !.post = NoPost, !.hash = InPage, !.known = @ \cup {InPage}, !.own = "running"])

OwnBuildEnds(status) ==
    /\ page.own = "running" /\ "own" \notin page.hung
    /\ Alone([page EXCEPT !.own = status])

(***************************************************************************)
(* apiRequest: a poll                                                      *)
(***************************************************************************)
WithPoll(s, x) == [page EXCEPT !.polls[s] = x]

\* Once the page's server is known, and is up again - or was given up for the
\* page's own builder.
PollResumes(s) ==
    LET x == page.polls[s] IN
    /\ x.pc = "go"
    /\ Alone(IF x.job = InPage \/ Local(page) THEN Answered(WithPoll(s, Free), x.job)
             ELSE WithPoll(s, [x EXCEPT !.pc = "sent", !.to = page.base]))

\* The headers: the server is up, and there is no time-out any more.
PollIsAnswered(s) ==
    LET x == page.polls[s] IN
    /\ x.pc = "sent" /\ x.to \in up
    /\ Alone(MarkUp(WithPoll(s, [x EXCEPT !.pc = "body", !.status = StatusOf(x.job)])))

Taken(s, x) ==
    LET p == WithPoll(s, Free)
    IN  IF x.current THEN Painted(p, x.job, x.status) ELSE p

\* The body.
PollArrives(s) == page.polls[s].pc = "body" /\ Alone(Taken(s, page.polls[s]))

\* A body that breaks off is an error on the page, which asks again.
PollBreaks(s) ==
    LET x == page.polls[s] IN
    /\ x.pc = "body"
    /\ Spend("faults")
    /\ Page([WithPoll(s, Free) EXCEPT !.timer = IF x.current THEN ~page.finished ELSE @])

\* A body that never ends is waited for without end.
PollHangs(s) ==
    LET x == page.polls[s] IN
    /\ x.pc = "body"
    /\ Spend("faults")
    /\ Page([WithPoll(s, Free) EXCEPT !.hung = IF x.current THEN @ \cup {"poll"} ELSE @])

GivenUp(s) ==
    LET x == page.polls[s] IN
    MarkDown(WithPoll(s, IF x.current THEN [x EXCEPT !.pc = "wait"] ELSE Free))

PollFails(s) ==
    /\ page.polls[s].pc = "sent" /\ page.polls[s].to \notin up
    /\ Alone(GivenUp(s))

PollTimesOut(s) ==
    /\ page.polls[s].pc = "sent"
    /\ Spend("faults")
    /\ Page(GivenUp(s))

(***************************************************************************)
(* apiRequest: the form's post                                             *)
(***************************************************************************)
PostResumes ==
    /\ page.post.pc = "go"
    /\ Local(page) => FreeSlot(page) /\ InPage \notin page.known
    /\ Alone(IF Local(page) THEN BuiltHere(page)
             ELSE [page EXCEPT !.post.pc = "sent", !.post.to = page.base])

\* The server takes the post and queues a build.
PostIsTaken(j) ==
    /\ page.post.pc = "sent" /\ page.post.to \in up /\ page.post.job = NoJob
    /\ Accept(j) /\ j = NextJob
    /\ mine' = mine \cup {j}
    /\ page' = [page EXCEPT !.post.job = j]
    /\ UNCHANGED <<up, strays, budget>>

\* The headers of its answer, and the body, which names the ticket.
PostIsAnswered ==
    /\ page.post.pc = "sent" /\ page.post.job # NoJob
    /\ Alone(MarkUp([page EXCEPT !.post.pc = "body"]))

PostArrives ==
    /\ page.post.pc = "body" /\ "post" \notin page.hung /\ FreeSlot(page)
    /\ Alone(Opened([page EXCEPT !.post = NoPost, !.hash = page.post.job,
                                 !.known = @ \cup {page.post.job}]))

\* A body that breaks off is an error on the page; the form may be sent anew.
PostBreaks ==
    /\ page.post.pc = "body" /\ "post" \notin page.hung
    /\ Spend("faults")
    /\ Page([page EXCEPT !.post = NoPost, !.unheard = @ + 1])

\* To be sent again once the server is up. What was sent may have arrived,
\* or may still arrive.
PostGivenUp ==
    /\ page' = MarkDown([page EXCEPT !.post.pc = "wait", !.post.job = NoJob,
                                     !.unheard = @ + 1])
    /\ strays' = IF page.post.job = NoJob THEN strays + 1 ELSE strays
    /\ UNCHANGED <<serverVars, up, mine>>

PostFails ==
    /\ page.post.pc = "sent" /\ page.post.to \notin up
    /\ PostGivenUp
    /\ UNCHANGED budget

PostTimesOut ==
    /\ page.post.pc = "sent"
    /\ Spend("faults")
    /\ PostGivenUp

\* What ends by itself may also never do so: nothing times these out.
NeverEnds(what) ==
    /\ what \notin page.hung
    /\ CASE what = "probe" -> page.probe = "asking"
         [] what = "post" -> page.post.pc = "body"
         [] OTHER -> page.own = "running"
    /\ Spend("faults")
    /\ Page([page EXCEPT !.hung = @ \cup {what}])

StrayIsTaken(j) ==
    /\ strays > 0 /\ up # {}
    /\ Accept(j) /\ j = NextJob
    /\ strays' = strays - 1 /\ mine' = mine \cup {j}
    /\ UNCHANGED <<page, up, budget>>

(***************************************************************************)
(* The server, as the page sees it                                         *)
(***************************************************************************)
Outage(a) ==
    /\ a \in up
    /\ Spend("faults")
    /\ up' = up \ {a}
    /\ UNCHANGED <<serverVars, page, strays, mine>>

Recover(a) ==
    /\ a \notin up
    /\ up' = up \cup {a}
    /\ UNCHANGED <<serverVars, page, strays, mine, budget>>

\* With it go the connections it had; it is started again.
ServerDies ==
    /\ Spend("faults")
    /\ Crash
    /\ up' = {}
    /\ UNCHANGED <<page, strays, mine>>

PageStep ==
    \/ TimerFires \/ RecheckFires \/ FirstCheckEnds \/ SecondCheckEnds
    \/ \E s \in Slots : PollResumes(s) \/ PollIsAnswered(s) \/ PollArrives(s) \/ PollFails(s)
    \/ PostResumes \/ PostIsAnswered \/ PostArrives \/ PostFails
    \/ \E yes \in BOOLEAN : ProbeEnds(yes)
    \/ \E j \in Jobs : PostIsTaken(j)

UserStep ==
    \/ Send \/ LookAgain
    \/ \E h \in page.known \cup {NoJob} : Navigate(h)
    \/ \E b \in {"name", "local"} : Choose(b)

NetworkStep ==
    \/ \E s \in Slots : PollTimesOut(s) \/ PollBreaks(s) \/ PollHangs(s)
    \/ PostTimesOut \/ PostBreaks
    \/ \E what \in {"probe", "post", "own"} : NeverEnds(what)
    \/ \E j \in Jobs : StrayIsTaken(j)
    \/ \E a \in Addresses : Outage(a)

clientAll == <<serverVars, clientVars>>

JobsGoOn ==
    /\ \E j \in Jobs : JobStep(j) \/ WriterStep(j)
    /\ UNCHANGED clientVars

OwnBuild == \E status \in {"done", "failed"} : OwnBuildEnds(status)

NextClient ==
    \/ OwnBuild
    \/ PageStep \/ UserStep \/ NetworkStep \/ JobsGoOn
    \/ ServerDies
    \/ \E a \in Addresses : Recover(a)

\* The browser runs what is due, a build of the page goes on unless it waits for
\* what never ends, an address that is out comes back, and the server's workers
\* go on.
ClientFairness ==
    /\ WF_clientAll(PageStep)
    /\ WF_clientAll(OwnBuild)
    /\ \A a \in Addresses : WF_clientAll(Recover(a))
    /\ WF_clientAll(JobsGoOn)

SpecClient == InitServer /\ InitClient /\ [][NextClient]_clientAll /\ ClientFairness

(***************************************************************************)
(* Properties                                                              *)
(***************************************************************************)
\* Whatever order answers come in, one that is painted is of the job in the
\* address, or the address has none by now; a server's job is not painted by
\* a page that builds for itself; and the status of one job goes on, except
\* that a crash may have queued a running job again (build.js poll).
PaintsInOrder ==
    [][page'.shown # page.shown /\ page'.shown.job # NoJob =>
         /\ page'.hash \in {page'.shown.job, NoJob}
         /\ page'.shown.job \in Jobs /\ page'.shown.status # "unknown" =>
               page'.base # "local" \/ page'.hash = NoJob
         /\ page.shown.job = page'.shown.job /\ page'.shown.status # "unknown" =>
               \/ Rank(page.shown.status) <= Rank(page'.shown.status)
               \/ crashes > 0 /\ page.shown.status = "running"
               \/ page.shown.status = "unknown"]_page

\* A build the page has never heard of is one whose answer it did not get: it
\* gave the post up, and sends it again, or the body of the answer broke off, and
\* the user is told of an error. Each of these costs one build at the most.
NoBuildIsLost ==
    Cardinality(mine \ (page.known \cup {page.post.job})) <= page.unheard

\* A page that stays on a ticket comes to show how its build ended, unless it
\* waits for what never ends: the body of the probe's answer or of the newest
\* poll's, which have no time-out, or a build of its own.
EndIsShown ==
    page.hash # NoJob => page.shown.job = page.hash /\ page.shown.status \in Ended

WaitsForGood == {"probe", "poll"} \cap page.hung # {} \/ (page.hash = InPage /\ "own" \in page.hung)

TicketSettles ==
    <>[][page'.hash = page.hash]_page => []<>(EndIsShown \/ WaitsForGood)

\* A user who chose to build in the page stays with that, unless a health
\* check was trying the server's other addresses just then, or the page, loaded
\* without an explicit address, was still asking its own server: what answers
\* first takes the page to it (api.js checkHealth, apiReady, setApiBase).
ChoiceYieldsToAnswers ==
    page.chosen = "local" /\ page.base # "local" =>
        \/ "second" \in page.during
        \/ "probe" \in page.during /\ ~page.explicit
=============================================================================
