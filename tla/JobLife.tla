------------------------------ MODULE JobLife ------------------------------
(***************************************************************************)
(* What a page that polls GET /api/status/<id> is promised about one job,  *)
(* whatever the queue, the workers and Redis do meanwhile.  `seen' is the  *)
(* job record in Redis; `again' holds the jobs BullMQ has handed out a     *)
(* second time after their worker went silent.                             *)
(***************************************************************************)
EXTENDS Naturals

CONSTANTS Jobs,      \* the job identifiers
          MaxStep    \* bound: progress messages one run of a job sends

VARIABLES seen, again

lifeVars == <<seen, again>>

FinalStep == MaxStep + 1     \* the text 'Done' or 'Failed'

NoJob == [status |-> "none", step |-> 0]
QueuedJob == [status |-> "queued", step |-> 0]
Records == [status : {"none", "queued", "running", "done", "failed"}, step : 0..FinalStep]

Over(rec) == rec.status \in {"done", "failed"}

LifeInit == /\ seen = [j \in Jobs |-> NoJob]
            /\ again = {}

Becomes(j, rec) == /\ seen' = [seen EXCEPT ![j] = rec]
                   /\ UNCHANGED again

Submitted(j) == /\ seen[j] = NoJob
                /\ Becomes(j, QueuedJob)

Runs(j) == /\ seen[j].status = "queued"
           /\ \E s \in 0..MaxStep : Becomes(j, [status |-> "running", step |-> s])

\* Progress only moves forward.
Advances(j) == /\ seen[j].status = "running"
               /\ \E s \in seen[j].step..MaxStep :
                     Becomes(j, [status |-> "running", step |-> s])

Settles(j) == /\ seen[j].status \in {"queued", "running"}
              /\ \/ Becomes(j, [status |-> "done", step |-> FinalStep])
                 \/ \E s \in 0..FinalStep : Becomes(j, [status |-> "failed", step |-> s])

\* The handler of a job that was given up after two hours may still talk:
\* it can reword a failure, and nothing else.
Mutters(j) == /\ seen[j].status = "failed"
              /\ \E s \in 0..FinalStep : Becomes(j, [status |-> "failed", step |-> s])

HandedOutAgain(j) == /\ j \notin again
                     /\ again' = again \cup {j}
                     /\ UNCHANGED seen

\* A second run starts the story over, but never returns a job to the queue.
Redone(j) == /\ j \in again
             /\ \E rec \in Records : /\ rec.status \in {"running", "done", "failed"}
                                     /\ Becomes(j, rec)

Forgotten(j) == Becomes(j, NoJob)

LifeNext == \E j \in Jobs : \/ Submitted(j) \/ Runs(j) \/ Advances(j) \/ Settles(j)
                            \/ Mutters(j) \/ HandedOutAgain(j) \/ Redone(j) \/ Forgotten(j)

LifeSpec == LifeInit /\ [][LifeNext]_lifeVars
=============================================================================
