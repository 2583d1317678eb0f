------------------------------ MODULE JobQueue ------------------------------
(***************************************************************************)
(* The build server's job queue (src/build_server/lib/queue.js): the       *)
(* submitters of POST /api/build, the Redis keys a page's poll is answered *)
(* from, BullMQ's two queues, and the workers that run the jobs.           *)
(*                                                                         *)
(* Every await of submit() and of the worker function is a step of its     *)
(* own, so that submitters, workers, timers, saves and crashes interleave  *)
(* wherever the code lets them.  BullMQ is modelled from how queue.js uses *)
(* it: priorities, one attempt, a lock that can be lost, one re-run of a   *)
(* stalled job.                                                            *)
(***************************************************************************)
EXTENDS Naturals, FiniteSets

CONSTANTS
    Jobs,         \* job identifiers that will ever be submitted
    Class,        \* [Jobs -> {"record", "build", "pack"}]
    Workers,      \* the -workers flag
    MaxStep,      \* bound: progress messages a handler sends in one run
    MaxHistory,   \* durations kept for each class (50 in the code)
    Faults,       \* which kinds of fault may happen
    MaxFaults     \* bound: how many happen

\* "crash": the server process ends and is started again; "redis": a command is
\* refused; "lock": a working run's BullMQ lock runs out; "expiry": a key does.
FaultKinds == {"crash", "redis", "lock", "expiry"}

Classes == {"record", "build", "pack"}

ASSUME JobQueueAssumption ==
    /\ IsFiniteSet(Jobs)
    /\ Class \in [Jobs -> Classes]
    /\ Workers \in Nat
    /\ MaxStep \in Nat
    /\ MaxHistory \in Nat \ {0}
    /\ Faults \subseteq FaultKinds
    /\ MaxFaults \in Nat

VARIABLES
    ticket,    \* ti:ticket, the last ticket given
    tick,      \* the ticket of each job, 0 before it has one
    sub,       \* where submit() is with each job
    record,    \* ti:job:<id>
    queued,    \* ti:queued:<class>, over all classes (a job's class is fixed)
    running,   \* ti:running:<class>, likewise
    durs,      \* how many durations ti:dur:<class> holds
    bull,      \* BullMQ's state of each job
    place,     \* the order in which BullMQ was given the jobs, 0 before that
    stalls,    \* how often BullMQ found the job stalled
    run,       \* the worker function's activations, one per attempt
    faults     \* how many faults there have been

submitVars == <<ticket, tick, sub>>
redisVars == <<record, queued, running, durs>>
bullVars == <<bull, place, stalls>>
vars == <<ticket, tick, sub, record, queued, running, durs, bull, place, stalls, run, faults>>

----------------------------------------------------------------------------
Life == INSTANCE JobLife WITH seen <- record, again <- {j \in Jobs : stalls[j] = 1}

NoJob == Life!NoJob
FinalStep == Life!FinalStep

Attempts == {1, 2}        \* maxStalledCount: 1 gives a second attempt, no third
Runs == Jobs \X Attempts
JobOf(r) == r[1]
Current(j) == <<j, stalls[j] + 1>>

\* Where the worker function is: at which of its awaits, or
\*   "handle"  racing the handler against the two hour timer
\*   "return", "threw"  finished, BullMQ not yet told; "over" once it is
\*   "dead"  its process crashed while it held the job's lock
PCs == {"none", "get", "zrem", "sadd", "start", "handle", "srem", "flush", "trim", "final",
        "return", "threw", "over", "dead"}

NotRun == [pc |-> "none", status |-> "none", step |-> 0, said |-> 0, unsaved |-> 0,
           owed |-> 0, live |-> FALSE, verdict |-> "none", cut |-> "none"]

RunStates == [pc : PCs,
              status : {"none", "running", "done", "failed"},  \* j.status in memory
              step : 0..FinalStep,       \* j.progress in memory
              said : 0..MaxStep,         \* messages the handler has sent
              unsaved : 0..MaxStep,      \* saves chained on `saving' and not yet done
              owed : 0..MaxStep,         \* those `await saving' waits for
              live : BOOLEAN,            \* the handler is still working
              verdict : {"none", "ok", "error", "timeout"},  \* how the race ended
              cut : PCs]                 \* history: the await it was broken off at

Fault(f) == /\ f \in Faults
            /\ faults < MaxFaults
            /\ faults' = faults + 1
NoFault == UNCHANGED faults

Init == /\ ticket = 0
        /\ tick = [j \in Jobs |-> 0]
        /\ sub = [j \in Jobs |-> "new"]
        /\ record = [j \in Jobs |-> NoJob]
        /\ queued = {}
        /\ running = {}
        /\ durs = [c \in Classes |-> 0]
        /\ bull = [j \in Jobs |-> "none"]
        /\ place = [j \in Jobs |-> 0]
        /\ stalls = [j \in Jobs |-> 0]
        /\ run = [r \in Runs |-> NotRun]
        /\ faults = 0

----------------------------------------------------------------------------
(* submit() *)

Ticket(j) == /\ sub[j] = "new"
             /\ ticket' = ticket + 1
             /\ tick' = [tick EXCEPT ![j] = ticket + 1]
             /\ sub' = [sub EXCEPT ![j] = "ticketed"]
             /\ UNCHANGED <<redisVars, bullVars, run, faults>>

SaveQueued(j) == /\ sub[j] = "ticketed"
                 /\ record' = [record EXCEPT ![j] = Life!QueuedJob]
                 /\ sub' = [sub EXCEPT ![j] = "saved"]
                 /\ UNCHANGED <<ticket, tick, queued, running, durs, bullVars, run, faults>>

ZAdd(j) == /\ sub[j] = "saved"
           /\ queued' = queued \cup {j}
           /\ sub' = [sub EXCEPT ![j] = "listed"]
           /\ UNCHANGED <<ticket, tick, record, running, durs, bullVars, run, faults>>

\* Mutant: BullMQ is given the job without waiting for zadd.
AddUnlisted(j) == /\ sub[j] \in {"saved", "listed"}
                  /\ sub' = [sub EXCEPT ![j] = "added"]
                  /\ bull' = [bull EXCEPT ![j] = "wait"]
                  /\ place' = [place EXCEPT ![j] = 1 + Cardinality({k \in Jobs : place[k] # 0})]
                  /\ UNCHANGED <<ticket, tick, redisVars, stalls, run, faults>>

Add(j) == /\ sub[j] = "listed"
          /\ sub' = [sub EXCEPT ![j] = "added"]
          /\ bull' = [bull EXCEPT ![j] = "wait"]
          /\ place' = [place EXCEPT ![j] = 1 + Cardinality({k \in Jobs : place[k] # 0})]
          /\ UNCHANGED <<ticket, tick, redisVars, stalls, run, faults>>

\* Redis refuses a command before the job is listed: submit() throws.
SubmitFails(j) == /\ Fault("redis")
                  /\ sub[j] \in {"new", "ticketed", "saved"}
                  /\ sub' = [sub EXCEPT ![j] = "refused"]
                  /\ UNCHANGED <<ticket, tick, redisVars, bullVars, run>>

AddFails(j) == /\ Fault("redis")
               /\ sub[j] = "listed"
               /\ sub' = [sub EXCEPT ![j] = "refusing"]
               /\ UNCHANGED <<ticket, tick, redisVars, bullVars, run>>

\* The catch block takes the job off the list, and ignores a failure to:
\* "left" is a refused job that stays listed.
Unlist(j) == /\ sub[j] = "refusing"
             /\ \/ /\ NoFault
                   /\ queued' = queued \ {j}
                   /\ sub' = [sub EXCEPT ![j] = "refused"]
                \/ /\ Fault("redis")
                   /\ UNCHANGED queued
                   /\ sub' = [sub EXCEPT ![j] = "left"]
             /\ UNCHANGED <<ticket, tick, record, running, durs, bullVars, run>>

Submit(j) == \/ Ticket(j) \/ SaveQueued(j) \/ ZAdd(j) \/ Add(j) \/ Unlist(j)

----------------------------------------------------------------------------
(* BullMQ *)

\* CLASSES: the BullMQ priority of each class, 1 first.
Priority(c) == CASE c = "record" -> 1 [] c = "build" -> 2 [] c = "pack" -> 3

SameQueue(j, k) == (Class[j] = "pack") = (Class[k] = "pack")

\* Mutant: packs share the workers' concurrency.
ConcurrencyShared(j) == IF Workers = 0 THEN 1 ELSE Workers

Concurrency(j) == IF Class[j] = "pack" \/ Workers = 0 THEN 1 ELSE Workers

\* A job that stalled goes to the front; the others wait by priority, then
\* in the order they were added.
ServedBefore(k, j) ==
    \/ stalls[k] > stalls[j]
    \/ /\ stalls[k] = 0 /\ stalls[j] = 0
       /\ \/ Priority(Class[k]) < Priority(Class[j])
          \/ Class[k] = Class[j] /\ place[k] < place[j]

Busy(r) == run[r].pc \notin {"none", "over", "dead"}

Take(j) ==
    /\ bull[j] = "wait"
    /\ \A k \in Jobs : bull[k] = "wait" /\ SameQueue(j, k) => ~ServedBefore(k, j)
    /\ Cardinality({r \in Runs : Busy(r) /\ SameQueue(j, JobOf(r))}) < Concurrency(j)
    /\ bull' = [bull EXCEPT ![j] = "active"]
    /\ run' = [run EXCEPT ![Current(j)].pc = "get"]
    /\ UNCHANGED <<submitVars, redisVars, place, stalls, faults>>

\* The lock of an active job is no longer renewed, because its process died
\* or could not reach Redis for two minutes: another attempt, or a failure.
Stall(j) == /\ bull[j] = "active"
            /\ IF run[Current(j)].pc = "dead" THEN NoFault ELSE Fault("lock")
            /\ IF stalls[j] = 0
               THEN /\ bull' = [bull EXCEPT ![j] = "wait"]
                    /\ stalls' = [stalls EXCEPT ![j] = 1]
               ELSE /\ bull' = [bull EXCEPT ![j] = "failed"]
                    /\ UNCHANGED stalls
            /\ UNCHANGED <<submitVars, redisVars, place, run>>

\* Mutant: a job that threw is tried again (attempts left at two).
CompleteRetrying(r) ==
    /\ run[r].pc \in {"return", "threw"}
    /\ run' = [run EXCEPT ![r].pc = "over"]
    /\ bull' = IF bull[JobOf(r)] = "active" /\ r = Current(JobOf(r))
               THEN [bull EXCEPT ![JobOf(r)] =
                        IF run[r].pc = "return" /\ run[r].verdict # "error" THEN "completed"
                        ELSE "wait"]
               ELSE bull
    /\ UNCHANGED <<submitVars, redisVars, place, stalls, faults>>

\* The worker function is over; BullMQ moves the job, if the lock is still
\* this attempt's.
Complete(r) ==
    /\ run[r].pc \in {"return", "threw"}
    /\ run' = [run EXCEPT ![r].pc = "over"]
    /\ bull' = IF bull[JobOf(r)] = "active" /\ r = Current(JobOf(r))
               THEN [bull EXCEPT ![JobOf(r)] =
                        IF run[r].pc = "return" THEN "completed" ELSE "failed"]
               ELSE bull
    /\ UNCHANGED <<submitVars, redisVars, place, stalls, faults>>

----------------------------------------------------------------------------
(* serve(): the worker function, one await at a time *)

Goes(r, pc) == run' = [run EXCEPT ![r].pc = pc]

Get(r) == /\ run[r].pc = "get"
          /\ IF record[JobOf(r)] = NoJob
             THEN run' = [run EXCEPT ![r].pc = "return", ![r].cut = "get"]
             ELSE run' = [run EXCEPT ![r].pc = "zrem", ![r].status = "running"]
          /\ UNCHANGED <<submitVars, redisVars, bullVars, faults>>

\* Mutant: the job is not taken off the list.
ZRemForgotten(r) == /\ run[r].pc = "zrem"
                    /\ Goes(r, "sadd")
                    /\ UNCHANGED <<submitVars, redisVars, bullVars, faults>>

ZRem(r) == /\ run[r].pc = "zrem"
           /\ queued' = queued \ {JobOf(r)}
           /\ Goes(r, "sadd")
           /\ UNCHANGED <<submitVars, record, running, durs, bullVars, faults>>

SAdd(r) == /\ run[r].pc = "sadd"
           /\ running' = running \cup {JobOf(r)}
           /\ Goes(r, "start")
           /\ UNCHANGED <<submitVars, record, queued, durs, bullVars, faults>>

\* What save(j) writes: the job as it stands in memory when it is called.
InMemory(s) == [status |-> s.status, step |-> s.step]

\* A save that Redis may refuse; whether it did is for the caller to see.
Saves(j, rec) == NoFault /\ record' = [record EXCEPT ![j] = rec]
Lost == Fault("redis") /\ UNCHANGED record

\* `let saving = this.save(j)', then the handler is called in the same tick.
\* A refused first save that no progress() call has chained on is an unhandled
\* rejection, which ends the process: Start, then Crash.
Start(r) == /\ run[r].pc = "start"
            /\ Saves(JobOf(r), InMemory(run[r])) \/ Lost
            /\ run' = [run EXCEPT ![r].pc = "handle", ![r].live = TRUE]
            /\ UNCHANGED <<submitVars, queued, running, durs, bullVars>>

\* progress(s): set the text now, save when the earlier saves are done.
Progress(r) == /\ run[r].live
               /\ \E s \in (run[r].said + 1)..MaxStep :
                     run' = [run EXCEPT ![r].step = s, ![r].said = s,
                                        ![r].unsaved = @ + 1]
               /\ UNCHANGED <<submitVars, redisVars, bullVars, faults>>

SaveProgress(r) == /\ run[r].unsaved > 0
                   /\ Saves(JobOf(r), InMemory(run[r])) \/ Lost
                   /\ run' = [run EXCEPT ![r].unsaved = @ - 1,
                                         ![r].owed = IF @ > 0 THEN @ - 1 ELSE 0]
                   /\ UNCHANGED <<submitVars, queued, running, durs, bullVars>>

\* The handler resolves or rejects.
HandlerEnds(r) == /\ run[r].live
                  /\ run[r].pc = "handle"
                  /\ \E v \in {"ok", "error"} :
                        run' = [run EXCEPT ![r].live = FALSE, ![r].pc = "srem",
                                           ![r].verdict = v]
                  /\ UNCHANGED <<submitVars, redisVars, bullVars, faults>>

\* After the timer fired nobody listens.
EndsUnheard(r) == /\ run[r].live
                  /\ run[r].pc # "handle"
                  /\ run' = [run EXCEPT ![r].live = FALSE]
                  /\ UNCHANGED <<submitVars, redisVars, bullVars, faults>>

\* Mutant: no timer.
NoTimer(r) == run[r].pc = "timer" /\ UNCHANGED vars

\* The two hour timer wins the race.  The handler is not stopped.
TimeOut(r) == /\ run[r].pc = "handle"
              /\ run' = [run EXCEPT ![r].pc = "srem", ![r].verdict = "timeout"]
              /\ UNCHANGED <<submitVars, redisVars, bullVars, faults>>

\* `finally': srem, whose failure is ignored, then `await saving'.
SRem(r) == /\ run[r].pc = "srem"
           /\ \/ NoFault /\ running' = running \ {JobOf(r)}
              \/ Fault("redis") /\ UNCHANGED running
           /\ run' = [run EXCEPT ![r].pc = "flush", ![r].owed = run[r].unsaved]
           /\ UNCHANGED <<submitVars, record, queued, durs, bullVars>>

\* The job's last state, set in memory and saved; a refused save throws.
Concludes(r, status) ==
    \E saved \in BOOLEAN :
        /\ IF saved THEN Saves(JobOf(r), [status |-> status, step |-> FinalStep])
                    ELSE Lost
        /\ run' = [run EXCEPT ![r].status = status, ![r].step = FinalStep,
                              ![r].pc = IF saved THEN "return" ELSE "threw"]

\* Mutant: a failure is reported to nobody.
FailUnsaved(r) == /\ run[r].pc = "flush" /\ run[r].owed = 0 /\ run[r].verdict # "ok"
                  /\ Goes(r, "return")
                  /\ UNCHANGED <<submitVars, redisVars, bullVars, faults>>

Fail(r) == /\ run[r].pc = "flush" /\ run[r].owed = 0 /\ run[r].verdict # "ok"
           /\ Concludes(r, "failed")
           /\ UNCHANGED <<submitVars, queued, running, durs, bullVars>>

\* A job that succeeded is measured before its final save: lpush, then ltrim.
LPush(r) == /\ run[r].pc = "flush" /\ run[r].owed = 0 /\ run[r].verdict = "ok"
            /\ durs' = [durs EXCEPT ![Class[JobOf(r)]] = @ + 1]
            /\ Goes(r, "trim")
            /\ UNCHANGED <<submitVars, record, queued, running, bullVars, faults>>

\* Mutant: the history is not trimmed.
LTrimNot(r) == /\ run[r].pc = "trim"
               /\ Goes(r, "final")
               /\ UNCHANGED <<submitVars, redisVars, bullVars, faults>>

LTrim(r) == /\ run[r].pc = "trim"
            /\ durs' = [durs EXCEPT ![Class[JobOf(r)]] =
                           IF @ > MaxHistory THEN MaxHistory ELSE @]
            /\ Goes(r, "final")
            /\ UNCHANGED <<submitVars, record, queued, running, bullVars, faults>>

Finish(r) == /\ run[r].pc = "final"
             /\ Concludes(r, "done")
             /\ UNCHANGED <<submitVars, queued, running, durs, bullVars>>

\* Redis refuses a command whose failure the worker function does not catch.
Throw(r) == /\ Fault("redis")
            /\ \/ run[r].pc \in {"get", "zrem", "sadd", "trim"}
               \/ run[r].pc = "flush" /\ run[r].owed = 0
            /\ run' = [run EXCEPT ![r].pc = "threw", ![r].cut = run[r].pc]
            /\ UNCHANGED <<submitVars, redisVars, bullVars>>

Work(r) == \/ Get(r) \/ ZRem(r) \/ SAdd(r) \/ Start(r) \/ SRem(r)
           \/ Fail(r) \/ LPush(r) \/ LTrim(r) \/ Finish(r) \/ Complete(r)

----------------------------------------------------------------------------
(* The process and the keys' time to live *)

InFlight(j) == sub[j] \in {"ticketed", "saved", "listed", "refusing"}

\* The process is killed and started again, without close(), which waits for
\* the jobs at work when the server is told to stop: every submit() and every worker
\* function under way is gone, and what Redis and BullMQ hold stays.
Crash == /\ Fault("crash")
         /\ run' = [r \in Runs |->
                       [NotRun EXCEPT !.pc = CASE ~Busy(r) -> run[r].pc
                                               [] Busy(r) /\ r = Current(JobOf(r)) -> "dead"
                                               [] OTHER -> "over",
                                      !.verdict = run[r].verdict,
                                      !.cut = IF Busy(r) /\ run[r].cut = "none"
                                              THEN run[r].pc ELSE run[r].cut]]
         /\ sub' = [j \in Jobs |->
                       IF InFlight(j) THEN "cut" ELSE sub[j]]
         /\ UNCHANGED <<ticket, tick, redisVars, bullVars>>

\* ti:job:<id> lives a week after its last save.
Expire(j) == /\ Fault("expiry")
             /\ record[j] # NoJob
             /\ ~InFlight(j)
             /\ \A a \in Attempts : ~Busy(<<j, a>>) /\ ~run[<<j, a>>].live
                                    /\ run[<<j, a>>].unsaved = 0
             /\ record' = [record EXCEPT ![j] = NoJob]
             /\ UNCHANGED <<submitVars, queued, running, durs, bullVars, run>>

\* Nothing is left to do until the next job is submitted.
Idle == /\ \A j \in Jobs : /\ sub[j] \in {"added", "refused", "left", "cut"}
                           /\ bull[j] \notin {"wait", "active"}
        /\ \A r \in Runs : ~Busy(r) /\ ~run[r].live /\ run[r].unsaved = 0
        /\ UNCHANGED vars

Next == \/ \E j \in Jobs : \/ Submit(j) \/ SubmitFails(j) \/ AddFails(j)
                           \/ Take(j) \/ Stall(j) \/ Expire(j)
        \/ \E r \in Runs : \/ Work(r) \/ Progress(r) \/ SaveProgress(r)
                           \/ HandlerEnds(r) \/ EndsUnheard(r) \/ TimeOut(r) \/ Throw(r)
        \/ Crash
        \/ Idle

Spec == Init /\ [][Next]_vars

\* Node runs every ready continuation, BullMQ's workers poll for ever and look
\* for locks that ran out.  Nothing makes a handler end: the two hour timer is
\* what ends its run.
Fairness == /\ \A j \in Jobs : /\ WF_vars(Submit(j)) /\ WF_vars(Take(j))
                              /\ WF_vars(run[Current(j)].pc = "dead" /\ Stall(j))
            /\ \A r \in Runs : WF_vars(Work(r)) /\ WF_vars(SaveProgress(r)) /\ WF_vars(TimeOut(r))

FairSpec == Spec /\ Fairness

----------------------------------------------------------------------------
(* Properties *)

\* The type invariant.
TypeOK == /\ ticket \in Nat
          /\ tick \in [Jobs -> Nat]
          /\ sub \in [Jobs -> {"new", "ticketed", "saved", "listed", "added",
                               "refusing", "refused", "left", "cut"}]
          /\ record \in [Jobs -> Life!Records]
          /\ queued \subseteq Jobs
          /\ running \subseteq Jobs
          /\ durs \in [Classes -> Nat]
          /\ bull \in [Jobs -> {"none", "wait", "active", "completed", "failed"}]
          /\ place \in [Jobs -> Nat]
          /\ stalls \in [Jobs -> {0, 1}]
          /\ run \in [Runs -> RunStates]
          /\ faults \in 0..MaxFaults

\* position(): the jobs of j's class that are listed with a smaller ticket.
Ahead(j) == {k \in queued : Class[k] = Class[j] /\ tick[k] < tick[j]}

Started(j) == record[j].status \in {"running", "done", "failed"}

\* The position a page shows a waiting job counts every job of its class with
\* an earlier ticket that waits too, and no job that has already started: the
\* list is written before BullMQ has the job and cut before the record says
\* 'running', whatever the interleaving (queue.js submit, position, serve).
PositionIsHonest ==
    \A j \in Jobs : bull[j] = "wait" /\ stalls[j] = 0 =>
        /\ j \in queued
        /\ \A k \in Ahead(j) : ~Started(k)
        /\ \A k \in Jobs : /\ Class[k] = Class[j] /\ tick[k] < tick[j]
                           /\ bull[k] = "wait" /\ stalls[k] = 0
                           => k \in Ahead(j)

\* What ended this very job while it was listed: its submission was killed
\* between zadd and add, or both add and the zrem of the catch block were
\* refused; or its last attempt never got past zrem, because the record had
\* expired, the command was refused, the process was killed, or the attempt
\* lost its lock and is still on its way there.
PhantomCause(j) ==
    \/ sub[j] \in {"cut", "left"}
    \/ /\ sub[j] = "added"
       /\ \/ run[Current(j)].pc \in {"get", "zrem"}
          \/ run[Current(j)].cut \in {"get", "zrem"}

\* A listed job that no submit() is about to hand over and that BullMQ does not
\* hold has, in its own submission or its own last attempt, one of these causes:
\* whatever happens to other jobs or later in its own life leaves no entry that
\* every later position of the class would count (queue.js submit and serve).
PhantomsHaveACause ==
    \A j \in queued : InFlight(j) \/ bull[j] \in {"wait", "active"} \/ PhantomCause(j)

\* The activations of a class that pushed a duration and have not trimmed, or
\* never will.
Untrimmed(c) == {r \in Runs : /\ Class[JobOf(r)] = c
                              /\ "trim" \in {run[r].pc, run[r].cut}}

\* The history of a class is over its bound by no more than the runs that were
\* broken off, or stand, between lpush and ltrim: two awaits, so that runs on
\* several slots, retries and refusals can pass the bound between them
\* (queue.js:160-161); the next ltrim of the class makes good for all of them.
HistoryIsTrimmed ==
    \A c \in Classes : durs[c] <= MaxHistory + Cardinality(Untrimmed(c))

\* Attempt 1 was not ended by a crash but by a lost lock: it may still work.
Superseded(j) == stalls[j] = 1 /\ run[<<j, 1>>].pc # "dead"

\* A job BullMQ counts as completed has its last state on record, until the
\* record expires: no crash, refused save or second attempt leaves a
\* completed job that a page sees 'running' for a week.
CompletedIsFinal ==
    \A j \in Jobs : bull[j] = "completed" /\ ~Superseded(j) =>
        Life!Over(record[j]) \/ record[j] = NoJob

\* Two offline packs are under work at once only when one of them was given
\* up after its two hours and has not noticed.
PacksOverlapOnlyAfterTimeout ==
    \A r, s \in Runs :
        r # s /\ run[r].live /\ run[s].live
              /\ Class[JobOf(r)] = "pack" /\ Class[JobOf(s)] = "pack"
        => "timeout" \in {run[r].verdict, run[s].verdict}

\* What a polling page sees is a life of the job as JobLife tells it.
LifeHolds == Life!LifeSpec

\* Every job BullMQ was given ends: its record reaches a last state, or BullMQ
\* gives it up, or it waited so long that the record expired.
EveryJobEnds ==
    \A j \in Jobs : sub[j] = "added" ~> \/ Life!Over(record[j])
                                        \/ bull[j] = "failed"
                                        \/ record[j] = NoJob

\* queue.js:131: "Progress is saved in order, and before the final state."
ProgressBeforeFinalState ==
    \A j \in Jobs : Life!Over(record[j]) => record[j].step = FinalStep

=============================================================================
