---------------------------- MODULE JobQueueProofs ----------------------------
(***************************************************************************)
(* Proofs about JobQueue: its type invariant, that positions are honest,   *)
(* that a completed job has its last state on record, that what a page     *)
(* sees of a job is a life of JobLife, that packs are worked on one at a   *)
(* time but for one that timed out, that an entry left on the list of      *)
(* queued jobs was left there by its own job's submission or last attempt, *)
(* and what bounds the history of durations.                               *)
(***************************************************************************)
EXTENDS JobQueue, FiniteSetTheorems, TLAPS

(* The inductive invariant *)

Fresh == {"zrem", "sadd", "start"}
Working == {"handle", "srem", "flush", "trim", "final"}
Settled == {"return", "threw", "over"}

\* Saves of this activation may still reach Redis.
MayStillSave(s) == s.live \/ s.unsaved > 0

\* One activation of the worker function, on its own.
RunOK(s) ==
    /\ s.unsaved <= s.said
    /\ s.owed <= s.unsaved
    /\ s.status = "running" => s.step = s.said
    /\ s.pc \in {"none", "get", "dead"} => ~MayStillSave(s) /\ s.said = 0 /\ s.step = 0
    /\ s.pc \in {"none", "get"} => s.status = "none" /\ s.verdict = "none"
    /\ s.pc \in Fresh => /\ ~MayStillSave(s)
                         /\ s.status = "running" /\ s.said = 0 /\ s.verdict = "none"
    /\ s.pc \in Working => s.status = "running"
    /\ s.pc = "handle" => s.verdict = "none"
    /\ s.pc \in {"srem", "flush", "trim", "final"} => s.verdict # "none"
    /\ s.pc \in {"trim", "final"} => s.verdict = "ok"
    /\ s.pc = "return" => s.status # "running"
    /\ s.verdict = "ok" => /\ ~s.live
                           /\ s.pc = "flush" => s.unsaved = s.owed
                           /\ s.pc \notin {"srem", "flush"} => s.unsaved = 0
    /\ s.cut # "none" => s.pc \in Settled \cup {"dead"}
    /\ s.status = "done" => s.verdict = "ok"
    /\ s.status \in {"done", "failed"} => s.pc \in Settled
    /\ MayStillSave(s) => s.status \in {"running", "failed"}

\* The record of a job against its only activation so far.
RecordOK(q, s) ==
    /\ s.pc \in {"none", "get"} => q.status \in {"none", "queued"}
    /\ s.pc \in Fresh => q.status = "queued"
    /\ s.pc \in Working \/ (MayStillSave(s) /\ s.status = "running") =>
          q.status = "queued" \/ (q.status = "running" /\ q.step <= s.step)
    /\ MayStillSave(s) /\ s.status = "failed" => q.status \in {"queued", "running", "failed"}

\* submit() and BullMQ: what a job not yet added cannot have.
SubmitOK(j) ==
    /\ sub[j] = "added" <=> bull[j] # "none"
    /\ sub[j] \in {"listed", "refusing"} => j \in queued
    /\ sub[j] \in {"new", "ticketed"} => record[j] = NoJob
    /\ sub[j] # "added" => /\ record[j].status \in {"none", "queued"}
                           /\ \A a \in Attempts : run[<<j, a>>].pc = "none"

\* BullMQ and the activations.
AttemptOK(j) ==
    /\ bull[j] = "none" => stalls[j] = 0
    /\ bull[j] = "wait" => run[Current(j)].pc = "none"
    /\ stalls[j] = 0 => run[<<j, 2>>].pc = "none"
    /\ bull[j] = "completed" => run[Current(j)].pc = "over"

\* The list of queued jobs.
ListOK(j) ==
    /\ bull[j] = "wait" /\ stalls[j] = 0 => j \in queued
    /\ Started(j) => j \notin queued
    /\ \A a \in Attempts :
          run[<<j, a>>].pc \in {"sadd", "start"} \cup Working \/ MayStillSave(run[<<j, a>>])
          => j \notin queued

\* A job whose only live activation returned has its last state on record.
ConclusionOK(j) ==
    ~Superseded(j) /\ (run[Current(j)].pc = "return" \/ bull[j] = "completed") =>
        /\ Life!Over(record[j]) \/ record[j] = NoJob
        /\ run[Current(j)].status # "running"

JobOK(j) == /\ record[j].status = "none" => record[j] = NoJob
            /\ SubmitOK(j)
            /\ AttemptOK(j)
            /\ ListOK(j)
            /\ stalls[j] = 0 => RecordOK(record[j], run[<<j, 1>>])
            /\ ConclusionOK(j)

IInv == /\ TypeOK
        /\ \A r \in Runs : RunOK(run[r])
        /\ \A j \in Jobs : JobOK(j)

(* Lemmas the steps share *)

USE DEF NoJob, FinalStep, Life!NoJob, Life!QueuedJob, Life!FinalStep

\* Nothing JobOK(j) reads has changed.
Same(j) == /\ sub'[j] = sub[j]
           /\ record'[j] = record[j]
           /\ (j \in queued') = (j \in queued)
           /\ bull'[j] = bull[j]
           /\ stalls'[j] = stalls[j]
           /\ run'[<<j, 1>>] = run[<<j, 1>>]
           /\ run'[<<j, 2>>] = run[<<j, 2>>]

\* Attempts of different jobs, and the attempts of one job, are different runs.
LEMMA RunsOfJobs ==
    ASSUME NEW r \in Runs
    PROVE  /\ JobOf(r) \in Jobs
           /\ r = <<JobOf(r), 1>> \/ r = <<JobOf(r), 2>>
           /\ \A j \in Jobs : <<j, 1>> \in Runs /\ <<j, 2>> \in Runs
           /\ \A j \in Jobs \ {JobOf(r)} : <<j, 1>> # r /\ <<j, 2>> # r
  BY DEF Runs, Attempts, JobOf

\* A job that a step leaves alone stays as it should be.
LEMMA Unmoved ==
    ASSUME NEW j \in Jobs, TypeOK, JobOK(j), Same(j)
    PROVE  JobOK(j)'
<1>1. SubmitOK(j)'  BY DEF JobOK, Same, SubmitOK, Attempts
<1>2. AttemptOK(j)'
  <2>1. stalls[j] \in {0, 1}  BY DEF TypeOK
  <2>2. QED  BY <2>1 DEF JobOK, Same, AttemptOK, Current
<1>3. ListOK(j)'  BY DEF JobOK, Same, ListOK, Started, Attempts, MayStillSave, Working
<1>4. ConclusionOK(j)'
  <2>1. stalls[j] \in {0, 1}  BY DEF TypeOK
  <2>2. QED  BY <2>1 DEF JobOK, Same, ConclusionOK, Superseded, Current, Life!Over
<1>5. QED  BY <1>1, <1>2, <1>3, <1>4 DEF JobOK, Same, RecordOK, MayStillSave

\* A step that changes one activation, and leaves it well formed.
LEMMA OneRun ==
    ASSUME NEW r \in Runs, NEW s \in RunStates, RunOK(s),
           TypeOK, \A q \in Runs : RunOK(run[q]),
           run' = [run EXCEPT ![r] = s]
    PROVE  /\ run' \in [Runs -> RunStates]
           /\ \A q \in Runs : RunOK(run'[q])
           /\ run'[r] = s
           /\ \A q \in Runs \ {r} : run'[q] = run[q]
  BY DEF TypeOK

\* A step of one activation, when what it leaves of its own job is right.
LEMMA RunStep ==
    ASSUME NEW r \in Runs, NEW s \in RunStates, IInv, RunOK(s),
           run' = [run EXCEPT ![r] = s],
           UNCHANGED <<sub, stalls>>,
           \A k \in Jobs \ {JobOf(r)} : /\ record'[k] = record[k]
                                        /\ bull'[k] = bull[k]
                                        /\ (k \in queued') = (k \in queued),
           run' \in [Runs -> RunStates] => TypeOK',
           run'[r] = s /\ (\A q \in Runs \ {r} : run'[q] = run[q]) => JobOK(JobOf(r))'
    PROVE  IInv'
<1>1. /\ run' \in [Runs -> RunStates]
      /\ \A q \in Runs : RunOK(run'[q])
      /\ run'[r] = s
      /\ \A q \in Runs \ {r} : run'[q] = run[q]
  BY OneRun DEF IInv
<1>2. ASSUME NEW j \in Jobs PROVE JobOK(j)'
  <2>1. CASE j = JobOf(r)  BY <1>1, <2>1
  <2>2. CASE j # JobOf(r)
    <3>1. Same(j)  BY <1>1, <2>2, RunsOfJobs DEF Same
    <3>2. QED  BY <3>1, Unmoved DEF IInv
  <2>3. QED  BY <2>1, <2>2
<1>3. QED  BY <1>1, <1>2 DEF IInv

LEMMA GetStep ==
    ASSUME IInv, NEW r \in Runs, Get(r)
    PROVE  IInv'
<1> DEFINE j == JobOf(r)
<1>1. PICK s \in RunStates : /\ run' = [run EXCEPT ![r] = s]
                             /\ RunOK(s)
                             /\ s.pc \in {"return", "zrem"}
                             /\ s.pc = "return" => record[j] = NoJob /\ s.status = "none"
                             /\ s.pc = "zrem" => record[j] # NoJob
                             /\ ~MayStillSave(s)
  BY DEF Get, Goes, IInv, TypeOK, RunStates, PCs, RunOK, MayStillSave, Fresh, Working, Settled
<1>2. j \in Jobs /\ JobOK(j) /\ stalls[j] \in {0, 1} /\ run[r].pc = "get"  BY RunsOfJobs DEF IInv, TypeOK, Get
<1>3. ASSUME run'[r] = s, \A q \in Runs \ {r} : run'[q] = run[q]  PROVE JobOK(j)'
  <2>0. UNCHANGED <<sub, record, queued, running, bull, stalls>>  BY DEF Get, submitVars, redisVars, bullVars
  <2>1. SubmitOK(j)'  BY <1>1, <1>2, <1>3, <2>0, RunsOfJobs DEF JobOK, SubmitOK, Attempts
  <2>2. AttemptOK(j)'  BY <1>1, <1>2, <1>3, <2>0, RunsOfJobs DEF JobOK, AttemptOK, Current
  <2>3. ListOK(j)'  BY <1>1, <1>2, <1>3, <2>0, RunsOfJobs DEF JobOK, ListOK, Started, Attempts, Working
  <2>4. (stalls[j] = 0 => RecordOK(record[j], run[<<j, 1>>]))'
    BY <1>1, <1>2, <1>3, <2>0, RunsOfJobs DEF JobOK, RecordOK, AttemptOK, Fresh, Working
  <2>5. ConclusionOK(j)'
    BY <1>1, <1>2, <1>3, <2>0, RunsOfJobs DEF JobOK, AttemptOK, ConclusionOK, Superseded, Current, Life!Over
  <2>6. QED  BY <1>2, <2>0, <2>1, <2>2, <2>3, <2>4, <2>5 DEF JobOK
<1>4. run' \in [Runs -> RunStates] => TypeOK'  BY DEF IInv, TypeOK, Get, submitVars, redisVars, bullVars
<1>5. QED  BY <1>1, <1>3, <1>4, RunStep DEF Get, submitVars, redisVars, bullVars

LEMMA ZRemStep ==
    ASSUME IInv, NEW r \in Runs, ZRem(r)
    PROVE  IInv'
<1> DEFINE j == JobOf(r)
<1>0. PICK s : s = run'[r]  OBVIOUS
<1>1. /\ j \in Jobs /\ JobOK(j) /\ stalls[j] \in {0, 1}
      /\ RunOK(run[r]) /\ run[r] \in RunStates
      /\ run \in [Runs -> RunStates]
  BY RunsOfJobs DEF IInv, TypeOK
<1>2. /\ run' = [run EXCEPT ![r] = s]
      /\ s = [run[r] EXCEPT !.pc = "sadd"] /\ run[r].pc = "zrem"
  BY <1>0, <1>1 DEF ZRem, RunStates, PCs, Goes
<1>3. s \in RunStates
  BY <1>1, <1>2, JobQueueAssumption DEF RunStates, PCs
<1>4. RunOK(s)
  BY <1>1, <1>2, JobQueueAssumption DEF RunStates, RunOK, MayStillSave, Fresh, Working, Settled
<1>5. UNCHANGED <<sub, record, bull, stalls>> /\ queued' = queued \ {j}
  BY <1>1 DEF IInv, TypeOK, ZRem, submitVars, redisVars, bullVars
<1>6. \A k \in Jobs \ {j} : (k \in queued') = (k \in queued)
  BY <1>5
<1>7. ASSUME run'[r] = s, \A q \in Runs \ {r} : run'[q] = run[q]
      PROVE  JobOK(j)'
  <2> USE <1>1, <1>2, <1>5, <1>7, RunsOfJobs
  <2>1. SubmitOK(j)'
    BY DEF JobOK, SubmitOK, Attempts, RunOK, MayStillSave
  <2>2. AttemptOK(j)'
    BY DEF JobOK, AttemptOK, Current, Working, RunOK, MayStillSave
  <2>3. ListOK(j)'
    BY DEF JobOK, ListOK, AttemptOK, Current, Started, Attempts, Fresh, Working, MayStillSave
  <2>4. (stalls[j] = 0 => RecordOK(record[j], run[<<j, 1>>]))'
    BY DEF JobOK, RecordOK, AttemptOK, Fresh, Working, MayStillSave, RunOK
  <2>5. ConclusionOK(j)'
    BY DEF JobOK, AttemptOK, ConclusionOK, Superseded, Current, RunOK, MayStillSave, Life!Over
  <2>6. QED  BY <2>1, <2>2, <2>3, <2>4, <2>5 DEF JobOK
<1>8. run' \in [Runs -> RunStates] => TypeOK'
  BY <1>1, JobQueueAssumption
     DEF IInv, TypeOK, ZRem, submitVars, redisVars, bullVars
<1>9. QED
  BY <1>1, <1>2, <1>3, <1>4, <1>5, <1>6, <1>7, <1>8, RunStep
     DEF IInv, TypeOK, ZRem, submitVars, redisVars, bullVars

LEMMA SAddStep ==
    ASSUME IInv, NEW r \in Runs, SAdd(r)
    PROVE  IInv'
<1> DEFINE j == JobOf(r)
<1>0. PICK s : s = run'[r]  OBVIOUS
<1>1. /\ j \in Jobs /\ JobOK(j) /\ stalls[j] \in {0, 1}
      /\ RunOK(run[r]) /\ run[r] \in RunStates
      /\ run \in [Runs -> RunStates]
  BY RunsOfJobs DEF IInv, TypeOK
<1>2. /\ run' = [run EXCEPT ![r] = s]
      /\ s = [run[r] EXCEPT !.pc = "start"] /\ run[r].pc = "sadd"
  BY <1>0, <1>1 DEF SAdd, RunStates, PCs, Goes
<1>3. s \in RunStates
  BY <1>1, <1>2, JobQueueAssumption DEF RunStates, PCs
<1>4. RunOK(s)
  BY <1>1, <1>2, JobQueueAssumption DEF RunStates, RunOK, MayStillSave, Fresh, Working, Settled
<1>5. UNCHANGED <<sub, record, queued, bull, stalls>>
  BY <1>1 DEF IInv, TypeOK, SAdd, submitVars, redisVars, bullVars
<1>6. \A k \in Jobs \ {j} : (k \in queued') = (k \in queued)
  BY <1>5
<1>7. ASSUME run'[r] = s, \A q \in Runs \ {r} : run'[q] = run[q]
      PROVE  JobOK(j)'
  <2> USE <1>1, <1>2, <1>5, <1>7, RunsOfJobs
  <2>1. SubmitOK(j)'
    BY DEF JobOK, SubmitOK, Attempts, RunOK, MayStillSave
  <2>2. AttemptOK(j)'
    BY DEF JobOK, AttemptOK, Current, Working, RunOK, MayStillSave
  <2>3. ListOK(j)'
    BY DEF JobOK, ListOK, AttemptOK, Current, Started, Attempts, Fresh, Working, MayStillSave
  <2>4. (stalls[j] = 0 => RecordOK(record[j], run[<<j, 1>>]))'
    BY DEF JobOK, RecordOK, AttemptOK, Fresh, Working, MayStillSave, RunOK
  <2>5. ConclusionOK(j)'
    BY DEF JobOK, AttemptOK, ConclusionOK, Superseded, Current, RunOK, MayStillSave, Life!Over
  <2>6. QED  BY <2>1, <2>2, <2>3, <2>4, <2>5 DEF JobOK
<1>8. run' \in [Runs -> RunStates] => TypeOK'
  BY <1>1, JobQueueAssumption
     DEF IInv, TypeOK, SAdd, submitVars, redisVars, bullVars
<1>9. QED
  BY <1>1, <1>2, <1>3, <1>4, <1>5, <1>6, <1>7, <1>8, RunStep
     DEF IInv, TypeOK, SAdd, submitVars, redisVars, bullVars

LEMMA ProgressStep ==
    ASSUME IInv, NEW r \in Runs, Progress(r)
    PROVE  IInv'
<1> DEFINE j == JobOf(r)
<1>. PICK p \in (run[r].said + 1)..MaxStep :
            run' = [run EXCEPT ![r].step = p, ![r].said = p, ![r].unsaved = @ + 1]
  BY DEF Progress
<1>0. PICK s : s = run'[r]  OBVIOUS
<1>1. /\ j \in Jobs /\ JobOK(j) /\ stalls[j] \in {0, 1}
      /\ RunOK(run[r]) /\ run[r] \in RunStates
      /\ run \in [Runs -> RunStates]
  BY RunsOfJobs DEF IInv, TypeOK
<1>2. /\ run' = [run EXCEPT ![r] = s]
      /\ s = [run[r] EXCEPT !.step = p, !.said = p, !.unsaved = run[r].unsaved + 1]
      /\ run[r].live
  BY <1>0, <1>1 DEF Progress, RunStates, PCs
<1>3. s \in RunStates
  BY <1>1, <1>2, JobQueueAssumption DEF RunStates, PCs
<1>4. RunOK(s)
  BY <1>1, <1>2, JobQueueAssumption DEF RunStates, RunOK, MayStillSave, Fresh, Working, Settled
<1>5. UNCHANGED <<sub, record, queued, bull, stalls>>
  BY <1>1 DEF IInv, TypeOK, Progress, submitVars, redisVars, bullVars
<1>6. \A k \in Jobs \ {j} : (k \in queued') = (k \in queued)
  BY <1>5
<1>7. ASSUME run'[r] = s, \A q \in Runs \ {r} : run'[q] = run[q]
      PROVE  JobOK(j)'
  <2> USE <1>1, <1>2, <1>5, <1>7, RunsOfJobs
  <2>1. SubmitOK(j)'
    BY DEF JobOK, SubmitOK, Attempts, RunOK, MayStillSave
  <2>2. AttemptOK(j)'
    BY DEF JobOK, AttemptOK, Current, Working, RunOK, MayStillSave
  <2>3. ListOK(j)'
    BY DEF JobOK, ListOK, AttemptOK, Current, Started, Attempts, Fresh, Working, MayStillSave
  <2>4. (stalls[j] = 0 => RecordOK(record[j], run[<<j, 1>>]))'
    <3>1. record[j].step \in Nat /\ run[r].said \in Nat
      BY DEF IInv, TypeOK, Life!Records, RunStates
    <3>2. QED  BY <3>1 DEF JobOK, RecordOK, AttemptOK, Fresh, Working, MayStillSave, RunOK
  <2>5. ConclusionOK(j)'
    BY DEF JobOK, AttemptOK, ConclusionOK, Superseded, Current, RunOK, MayStillSave, Life!Over
  <2>6. QED  BY <2>1, <2>2, <2>3, <2>4, <2>5 DEF JobOK
<1>8. run' \in [Runs -> RunStates] => TypeOK'
  BY <1>1, JobQueueAssumption
     DEF IInv, TypeOK, Progress, submitVars, redisVars, bullVars
<1>9. QED
  BY <1>1, <1>2, <1>3, <1>4, <1>5, <1>6, <1>7, <1>8, RunStep
     DEF IInv, TypeOK, Progress, submitVars, redisVars, bullVars

LEMMA HandlerEndsStep ==
    ASSUME IInv, NEW r \in Runs, HandlerEnds(r)
    PROVE  IInv'
<1> DEFINE j == JobOf(r)
<1>. PICK v \in {"ok", "error"} :
            run' = [run EXCEPT ![r].live = FALSE, ![r].pc = "srem", ![r].verdict = v]
  BY DEF HandlerEnds
<1>0. PICK s : s = run'[r]  OBVIOUS
<1>1. /\ j \in Jobs /\ JobOK(j) /\ stalls[j] \in {0, 1}
      /\ RunOK(run[r]) /\ run[r] \in RunStates
      /\ run \in [Runs -> RunStates]
  BY RunsOfJobs DEF IInv, TypeOK
<1>2. /\ run' = [run EXCEPT ![r] = s]
      /\ s = [run[r] EXCEPT !.live = FALSE, !.pc = "srem", !.verdict = v]
      /\ run[r].live /\ run[r].pc = "handle"
  BY <1>0, <1>1 DEF HandlerEnds, RunStates, PCs
<1>3. s \in RunStates
  BY <1>1, <1>2, JobQueueAssumption DEF RunStates, PCs
<1>4. RunOK(s)
  BY <1>1, <1>2, JobQueueAssumption DEF RunStates, RunOK, MayStillSave, Fresh, Working, Settled
<1>5. UNCHANGED <<sub, record, queued, bull, stalls>>
  BY <1>1 DEF IInv, TypeOK, HandlerEnds, submitVars, redisVars, bullVars
<1>6. \A k \in Jobs \ {j} : (k \in queued') = (k \in queued)
  BY <1>5
<1>7. ASSUME run'[r] = s, \A q \in Runs \ {r} : run'[q] = run[q]
      PROVE  JobOK(j)'
  <2> USE <1>1, <1>2, <1>5, <1>7, RunsOfJobs
  <2>1. SubmitOK(j)'
    BY DEF JobOK, SubmitOK, Attempts, RunOK, MayStillSave
  <2>2. AttemptOK(j)'
    BY DEF JobOK, AttemptOK, Current, Working, RunOK, MayStillSave
  <2>3. ListOK(j)'
    BY DEF JobOK, ListOK, AttemptOK, Current, Started, Attempts, Fresh, Working, MayStillSave
  <2>4. (stalls[j] = 0 => RecordOK(record[j], run[<<j, 1>>]))'
    BY DEF JobOK, RecordOK, AttemptOK, Fresh, Working, MayStillSave, RunOK
  <2>5. ConclusionOK(j)'
    BY DEF JobOK, AttemptOK, ConclusionOK, Superseded, Current, RunOK, MayStillSave, Life!Over
  <2>6. QED  BY <2>1, <2>2, <2>3, <2>4, <2>5 DEF JobOK
<1>8. run' \in [Runs -> RunStates] => TypeOK'
  BY <1>1, JobQueueAssumption
     DEF IInv, TypeOK, HandlerEnds, submitVars, redisVars, bullVars
<1>9. QED
  BY <1>1, <1>2, <1>3, <1>4, <1>5, <1>6, <1>7, <1>8, RunStep
     DEF IInv, TypeOK, HandlerEnds, submitVars, redisVars, bullVars

LEMMA EndsUnheardStep ==
    ASSUME IInv, NEW r \in Runs, EndsUnheard(r)
    PROVE  IInv'
<1> DEFINE j == JobOf(r)
<1>0. PICK s : s = run'[r]  OBVIOUS
<1>1. /\ j \in Jobs /\ JobOK(j) /\ stalls[j] \in {0, 1}
      /\ RunOK(run[r]) /\ run[r] \in RunStates
      /\ run \in [Runs -> RunStates]
  BY RunsOfJobs DEF IInv, TypeOK
<1>2. /\ run' = [run EXCEPT ![r] = s]
      /\ s = [run[r] EXCEPT !.live = FALSE]
      /\ run[r].live /\ run[r].pc # "handle"
  BY <1>0, <1>1 DEF EndsUnheard, RunStates, PCs
<1>3. s \in RunStates
  BY <1>1, <1>2, JobQueueAssumption DEF RunStates, PCs
<1>4. RunOK(s)
  BY <1>1, <1>2, JobQueueAssumption DEF RunStates, RunOK, MayStillSave, Fresh, Working, Settled
<1>5. UNCHANGED <<sub, record, queued, bull, stalls>>
  BY <1>1 DEF IInv, TypeOK, EndsUnheard, submitVars, redisVars, bullVars
<1>6. \A k \in Jobs \ {j} : (k \in queued') = (k \in queued)
  BY <1>5
<1>7. ASSUME run'[r] = s, \A q \in Runs \ {r} : run'[q] = run[q]
      PROVE  JobOK(j)'
  <2> USE <1>1, <1>2, <1>5, <1>7, RunsOfJobs
  <2>1. SubmitOK(j)'
    BY DEF JobOK, SubmitOK, Attempts, RunOK, MayStillSave
  <2>2. AttemptOK(j)'
    BY DEF JobOK, AttemptOK, Current, Working, RunOK, MayStillSave
  <2>3. ListOK(j)'
    BY DEF JobOK, ListOK, AttemptOK, Current, Started, Attempts, Fresh, Working, MayStillSave
  <2>4. (stalls[j] = 0 => RecordOK(record[j], run[<<j, 1>>]))'
    BY DEF JobOK, RecordOK, AttemptOK, Fresh, Working, MayStillSave, RunOK
  <2>5. ConclusionOK(j)'
    BY DEF JobOK, AttemptOK, ConclusionOK, Superseded, Current, RunOK, MayStillSave, Life!Over
  <2>6. QED  BY <2>1, <2>2, <2>3, <2>4, <2>5 DEF JobOK
<1>8. run' \in [Runs -> RunStates] => TypeOK'
  BY <1>1, JobQueueAssumption
     DEF IInv, TypeOK, EndsUnheard, submitVars, redisVars, bullVars
<1>9. QED
  BY <1>1, <1>2, <1>3, <1>4, <1>5, <1>6, <1>7, <1>8, RunStep
     DEF IInv, TypeOK, EndsUnheard, submitVars, redisVars, bullVars

LEMMA TimeOutStep ==
    ASSUME IInv, NEW r \in Runs, TimeOut(r)
    PROVE  IInv'
<1> DEFINE j == JobOf(r)
<1>0. PICK s : s = run'[r]  OBVIOUS
<1>1. /\ j \in Jobs /\ JobOK(j) /\ stalls[j] \in {0, 1}
      /\ RunOK(run[r]) /\ run[r] \in RunStates
      /\ run \in [Runs -> RunStates]
  BY RunsOfJobs DEF IInv, TypeOK
<1>2. /\ run' = [run EXCEPT ![r] = s]
      /\ s = [run[r] EXCEPT !.pc = "srem", !.verdict = "timeout"] /\ run[r].pc = "handle"
  BY <1>0, <1>1 DEF TimeOut, RunStates, PCs
<1>3. s \in RunStates
  BY <1>1, <1>2, JobQueueAssumption DEF RunStates, PCs
<1>4. RunOK(s)
  BY <1>1, <1>2, JobQueueAssumption DEF RunStates, RunOK, MayStillSave, Fresh, Working, Settled
<1>5. UNCHANGED <<sub, record, queued, bull, stalls>>
  BY <1>1 DEF IInv, TypeOK, TimeOut, submitVars, redisVars, bullVars
<1>6. \A k \in Jobs \ {j} : (k \in queued') = (k \in queued)
  BY <1>5
<1>7. ASSUME run'[r] = s, \A q \in Runs \ {r} : run'[q] = run[q]
      PROVE  JobOK(j)'
  <2> USE <1>1, <1>2, <1>5, <1>7, RunsOfJobs
  <2>1. SubmitOK(j)'
    BY DEF JobOK, SubmitOK, Attempts, RunOK, MayStillSave
  <2>2. AttemptOK(j)'
    BY DEF JobOK, AttemptOK, Current, Working, RunOK, MayStillSave
  <2>3. ListOK(j)'
    BY DEF JobOK, ListOK, AttemptOK, Current, Started, Attempts, Fresh, Working, MayStillSave
  <2>4. (stalls[j] = 0 => RecordOK(record[j], run[<<j, 1>>]))'
    BY DEF JobOK, RecordOK, AttemptOK, Fresh, Working, MayStillSave, RunOK
  <2>5. ConclusionOK(j)'
    BY DEF JobOK, AttemptOK, ConclusionOK, Superseded, Current, RunOK, MayStillSave, Life!Over
  <2>6. QED  BY <2>1, <2>2, <2>3, <2>4, <2>5 DEF JobOK
<1>8. run' \in [Runs -> RunStates] => TypeOK'
  BY <1>1, JobQueueAssumption
     DEF IInv, TypeOK, TimeOut, submitVars, redisVars, bullVars
<1>9. QED
  BY <1>1, <1>2, <1>3, <1>4, <1>5, <1>6, <1>7, <1>8, RunStep
     DEF IInv, TypeOK, TimeOut, submitVars, redisVars, bullVars

LEMMA SRemStep ==
    ASSUME IInv, NEW r \in Runs, SRem(r)
    PROVE  IInv'
<1> DEFINE j == JobOf(r)
<1>0. PICK s : s = run'[r]  OBVIOUS
<1>1. /\ j \in Jobs /\ JobOK(j) /\ stalls[j] \in {0, 1}
      /\ RunOK(run[r]) /\ run[r] \in RunStates
      /\ run \in [Runs -> RunStates]
  BY RunsOfJobs DEF IInv, TypeOK
<1>2. /\ run' = [run EXCEPT ![r] = s]
      /\ s = [run[r] EXCEPT !.pc = "flush", !.owed = run[r].unsaved] /\ run[r].pc = "srem"
  BY <1>0, <1>1 DEF SRem, RunStates, PCs
<1>3. s \in RunStates
  BY <1>1, <1>2, JobQueueAssumption DEF RunStates, PCs
<1>4. RunOK(s)
  BY <1>1, <1>2, JobQueueAssumption DEF RunStates, RunOK, MayStillSave, Fresh, Working, Settled
<1>5. UNCHANGED <<sub, record, queued, bull, stalls>>
  BY <1>1 DEF IInv, TypeOK, SRem, submitVars, redisVars, bullVars, Fault, NoFault
<1>6. \A k \in Jobs \ {j} : (k \in queued') = (k \in queued)
  BY <1>5
<1>7. ASSUME run'[r] = s, \A q \in Runs \ {r} : run'[q] = run[q]
      PROVE  JobOK(j)'
  <2> USE <1>1, <1>2, <1>5, <1>7, RunsOfJobs
  <2>1. SubmitOK(j)'
    BY DEF JobOK, SubmitOK, Attempts, RunOK, MayStillSave
  <2>2. AttemptOK(j)'
    BY DEF JobOK, AttemptOK, Current, Working, RunOK, MayStillSave
  <2>3. ListOK(j)'
    BY DEF JobOK, ListOK, AttemptOK, Current, Started, Attempts, Fresh, Working, MayStillSave
  <2>4. (stalls[j] = 0 => RecordOK(record[j], run[<<j, 1>>]))'
    BY DEF JobOK, RecordOK, AttemptOK, Fresh, Working, MayStillSave, RunOK
  <2>5. ConclusionOK(j)'
    BY DEF JobOK, AttemptOK, ConclusionOK, Superseded, Current, RunOK, MayStillSave, Life!Over
  <2>6. QED  BY <2>1, <2>2, <2>3, <2>4, <2>5 DEF JobOK
<1>8. run' \in [Runs -> RunStates] => TypeOK'
  BY <1>1, JobQueueAssumption
     DEF IInv, TypeOK, SRem, submitVars, redisVars, bullVars, Fault, NoFault
<1>9. QED
  BY <1>1, <1>2, <1>3, <1>4, <1>5, <1>6, <1>7, <1>8, RunStep
     DEF IInv, TypeOK, SRem, submitVars, redisVars, bullVars, Fault, NoFault

LEMMA LPushStep ==
    ASSUME IInv, NEW r \in Runs, LPush(r)
    PROVE  IInv'
<1> DEFINE j == JobOf(r)
<1>0. PICK s : s = run'[r]  OBVIOUS
<1>1. /\ j \in Jobs /\ JobOK(j) /\ stalls[j] \in {0, 1}
      /\ RunOK(run[r]) /\ run[r] \in RunStates
      /\ run \in [Runs -> RunStates]
  BY RunsOfJobs DEF IInv, TypeOK
<1>2. /\ run' = [run EXCEPT ![r] = s]
      /\ s = [run[r] EXCEPT !.pc = "trim"] /\ run[r].pc = "flush"
      /\ run[r].owed = 0 /\ run[r].verdict = "ok"
  BY <1>0, <1>1 DEF LPush, RunStates, PCs, Goes
<1>3. s \in RunStates
  BY <1>1, <1>2, JobQueueAssumption DEF RunStates, PCs
<1>4. RunOK(s)
  BY <1>1, <1>2, JobQueueAssumption DEF RunStates, RunOK, MayStillSave, Fresh, Working, Settled
<1>5. UNCHANGED <<sub, record, queued, bull, stalls>>
  BY <1>1 DEF IInv, TypeOK, LPush, submitVars, redisVars, bullVars
<1>6. \A k \in Jobs \ {j} : (k \in queued') = (k \in queued)
  BY <1>5
<1>7. ASSUME run'[r] = s, \A q \in Runs \ {r} : run'[q] = run[q]
      PROVE  JobOK(j)'
  <2> USE <1>1, <1>2, <1>5, <1>7, RunsOfJobs
  <2>1. SubmitOK(j)'
    BY DEF JobOK, SubmitOK, Attempts, RunOK, MayStillSave
  <2>2. AttemptOK(j)'
    BY DEF JobOK, AttemptOK, Current, Working, RunOK, MayStillSave
  <2>3. ListOK(j)'
    BY DEF JobOK, ListOK, AttemptOK, Current, Started, Attempts, Fresh, Working, MayStillSave
  <2>4. (stalls[j] = 0 => RecordOK(record[j], run[<<j, 1>>]))'
    BY DEF JobOK, RecordOK, AttemptOK, Fresh, Working, MayStillSave, RunOK
  <2>5. ConclusionOK(j)'
    BY DEF JobOK, AttemptOK, ConclusionOK, Superseded, Current, RunOK, MayStillSave, Life!Over
  <2>6. QED  BY <2>1, <2>2, <2>3, <2>4, <2>5 DEF JobOK
<1>8. run' \in [Runs -> RunStates] => TypeOK'
  BY <1>1, JobQueueAssumption
     DEF IInv, TypeOK, LPush, submitVars, redisVars, bullVars
<1>9. QED
  BY <1>1, <1>2, <1>3, <1>4, <1>5, <1>6, <1>7, <1>8, RunStep
     DEF IInv, TypeOK, LPush, submitVars, redisVars, bullVars

LEMMA LTrimStep ==
    ASSUME IInv, NEW r \in Runs, LTrim(r)
    PROVE  IInv'
<1> DEFINE j == JobOf(r)
<1>0. PICK s : s = run'[r]  OBVIOUS
<1>1. /\ j \in Jobs /\ JobOK(j) /\ stalls[j] \in {0, 1}
      /\ RunOK(run[r]) /\ run[r] \in RunStates
      /\ run \in [Runs -> RunStates]
  BY RunsOfJobs DEF IInv, TypeOK
<1>2. /\ run' = [run EXCEPT ![r] = s]
      /\ s = [run[r] EXCEPT !.pc = "final"] /\ run[r].pc = "trim"
  BY <1>0, <1>1 DEF LTrim, RunStates, PCs, Goes
<1>3. s \in RunStates
  BY <1>1, <1>2, JobQueueAssumption DEF RunStates, PCs
<1>4. RunOK(s)
  BY <1>1, <1>2, JobQueueAssumption DEF RunStates, RunOK, MayStillSave, Fresh, Working, Settled
<1>5. UNCHANGED <<sub, record, queued, bull, stalls>>
  BY <1>1 DEF IInv, TypeOK, LTrim, submitVars, redisVars, bullVars
<1>6. \A k \in Jobs \ {j} : (k \in queued') = (k \in queued)
  BY <1>5
<1>7. ASSUME run'[r] = s, \A q \in Runs \ {r} : run'[q] = run[q]
      PROVE  JobOK(j)'
  <2> USE <1>1, <1>2, <1>5, <1>7, RunsOfJobs
  <2>1. SubmitOK(j)'
    BY DEF JobOK, SubmitOK, Attempts, RunOK, MayStillSave
  <2>2. AttemptOK(j)'
    BY DEF JobOK, AttemptOK, Current, Working, RunOK, MayStillSave
  <2>3. ListOK(j)'
    BY DEF JobOK, ListOK, AttemptOK, Current, Started, Attempts, Fresh, Working, MayStillSave
  <2>4. (stalls[j] = 0 => RecordOK(record[j], run[<<j, 1>>]))'
    BY DEF JobOK, RecordOK, AttemptOK, Fresh, Working, MayStillSave, RunOK
  <2>5. ConclusionOK(j)'
    <3>1. CASE stalls[j] = 0  BY <3>1 DEF JobOK, AttemptOK, ConclusionOK, Superseded, Current, RunOK, MayStillSave, Life!Over
    <3>2. CASE stalls[j] = 1  BY <3>2 DEF JobOK, AttemptOK, ConclusionOK, Superseded, Current, RunOK, MayStillSave, Life!Over
    <3>3. QED  BY <3>1, <3>2
  <2>6. QED  BY <2>1, <2>2, <2>3, <2>4, <2>5 DEF JobOK
<1>8. run' \in [Runs -> RunStates] => TypeOK'
  BY <1>1, JobQueueAssumption
     DEF IInv, TypeOK, LTrim, submitVars, redisVars, bullVars
<1>9. QED
  BY <1>1, <1>2, <1>3, <1>4, <1>5, <1>6, <1>7, <1>8, RunStep
     DEF IInv, TypeOK, LTrim, submitVars, redisVars, bullVars

LEMMA ThrowStep ==
    ASSUME IInv, NEW r \in Runs, Throw(r)
    PROVE  IInv'
<1> DEFINE j == JobOf(r)
<1>0. PICK s : s = run'[r]  OBVIOUS
<1>1. /\ j \in Jobs /\ JobOK(j) /\ stalls[j] \in {0, 1}
      /\ RunOK(run[r]) /\ run[r] \in RunStates
      /\ run \in [Runs -> RunStates]
  BY RunsOfJobs DEF IInv, TypeOK
<1>2. /\ run' = [run EXCEPT ![r] = s]
      /\ s = [run[r] EXCEPT !.pc = "threw", !.cut = run[r].pc]
      /\ run[r].pc \in {"get", "zrem", "sadd", "flush", "trim"}
      /\ run[r].pc = "flush" => run[r].owed = 0
  BY <1>0, <1>1 DEF Throw, RunStates, PCs, Goes
<1>3. s \in RunStates
  BY <1>1, <1>2, JobQueueAssumption DEF RunStates, PCs
<1>4. RunOK(s)
  BY <1>1, <1>2, JobQueueAssumption DEF RunStates, RunOK, MayStillSave, Fresh, Working, Settled
<1>5. UNCHANGED <<sub, record, queued, bull, stalls>>
  BY <1>1 DEF IInv, TypeOK, Throw, submitVars, redisVars, bullVars, Fault
<1>6. \A k \in Jobs \ {j} : (k \in queued') = (k \in queued)
  BY <1>5
<1>7. ASSUME run'[r] = s, \A q \in Runs \ {r} : run'[q] = run[q]
      PROVE  JobOK(j)'
  <2> USE <1>1, <1>2, <1>5, <1>7, RunsOfJobs
  <2>1. SubmitOK(j)'
    BY DEF JobOK, SubmitOK, Attempts, RunOK, MayStillSave
  <2>2. AttemptOK(j)'
    BY DEF JobOK, AttemptOK, Current, Working, RunOK, MayStillSave
  <2>3. ListOK(j)'
    BY DEF JobOK, ListOK, AttemptOK, Current, Started, Attempts, Fresh, Working, MayStillSave
  <2>4. (stalls[j] = 0 => RecordOK(record[j], run[<<j, 1>>]))'
    BY DEF JobOK, RecordOK, AttemptOK, Fresh, Working, MayStillSave, RunOK
  <2>5. ConclusionOK(j)'
    BY DEF JobOK, AttemptOK, ConclusionOK, Superseded, Current, RunOK, MayStillSave, Life!Over
  <2>6. QED  BY <2>1, <2>2, <2>3, <2>4, <2>5 DEF JobOK
<1>8. run' \in [Runs -> RunStates] => TypeOK'
  BY <1>1, JobQueueAssumption
     DEF IInv, TypeOK, Throw, submitVars, redisVars, bullVars, Fault
<1>9. QED
  BY <1>1, <1>2, <1>3, <1>4, <1>5, <1>6, <1>7, <1>8, RunStep
     DEF IInv, TypeOK, Throw, submitVars, redisVars, bullVars, Fault

\* A save that may be refused.
LEMMA Saved ==
    ASSUME TypeOK, NEW j \in Jobs, NEW rec \in Life!Records, Saves(j, rec) \/ Lost
    PROVE  /\ record' \in [Jobs -> Life!Records]
           /\ record'[j] = record[j] \/ record'[j] = rec
           /\ \A k \in Jobs \ {j} : record'[k] = record[k]
  BY DEF TypeOK, Saves, Lost

LEMMA StartStep ==
    ASSUME IInv, NEW r \in Runs, Start(r)
    PROVE  IInv'
<1> DEFINE j == JobOf(r)
<1>0. PICK s : s = run'[r]  OBVIOUS
<1>1. /\ j \in Jobs /\ JobOK(j) /\ stalls[j] \in {0, 1}
      /\ RunOK(run[r]) /\ run[r] \in RunStates
      /\ run \in [Runs -> RunStates]
  BY RunsOfJobs DEF IInv, TypeOK
<1>2. /\ run' = [run EXCEPT ![r] = s]
      /\ s = [run[r] EXCEPT !.pc = "handle", !.live = TRUE] /\ run[r].pc = "start"
  BY <1>0, <1>1 DEF Start, RunStates, PCs
<1>3. s \in RunStates
  BY <1>1, <1>2, JobQueueAssumption DEF RunStates, PCs
<1>4. RunOK(s)
  BY <1>1, <1>2, JobQueueAssumption DEF RunStates, RunOK, MayStillSave, Fresh, Working, Settled
<1>5. UNCHANGED <<sub, queued, bull, stalls>>
  BY <1>1 DEF IInv, TypeOK, Start, submitVars, redisVars, bullVars, Fault, NoFault, Saves, Lost
<1>6. \A k \in Jobs \ {j} : (k \in queued') = (k \in queued)
  BY <1>5
<1>r. /\ record' \in [Jobs -> Life!Records]
      /\ record'[j] = record[j] \/ record'[j] = [status |-> "running", step |-> 0]
      /\ \A k \in Jobs \ {j} : record'[k] = record[k]
  <2>1. [status |-> "running", step |-> 0] \in Life!Records
    BY <1>1, JobQueueAssumption DEF Life!Records, RunStates
  <2>2. Saves(j, [status |-> "running", step |-> 0]) \/ Lost
    BY <1>1, <1>2 DEF Start, InMemory, RunOK, Fresh
  <2>3. QED  BY <1>1, <1>2, <2>1, <2>2, Saved DEF IInv, RunOK, MayStillSave, Fresh, RunStates
<1>7. ASSUME run'[r] = s, \A q \in Runs \ {r} : run'[q] = run[q]
      PROVE  JobOK(j)'
  <2> USE <1>1, <1>2, <1>5, <1>7, RunsOfJobs, <1>r
  <2>1. SubmitOK(j)'
    BY DEF JobOK, SubmitOK, Attempts, RunOK, MayStillSave
  <2>2. AttemptOK(j)'
    <3>1. CASE stalls[j] = 0  BY <3>1 DEF JobOK, AttemptOK, Current, Working, RunOK, MayStillSave
    <3>2. CASE stalls[j] = 1  BY <3>2 DEF JobOK, AttemptOK, Current, Working, RunOK, MayStillSave
    <3>3. QED  BY <3>1, <3>2
  <2>3. ListOK(j)'
    BY DEF JobOK, ListOK, AttemptOK, Current, Started, Attempts, Fresh, Working, MayStillSave
  <2>4. (stalls[j] = 0 => RecordOK(record[j], run[<<j, 1>>]))'
    <3>1. record[j].step \in Nat /\ run[r].step \in Nat
      BY <1>1 DEF IInv, TypeOK, Life!Records, RunStates
    <3>2. QED  BY <3>1 DEF JobOK, RecordOK, AttemptOK, Fresh, Working, MayStillSave, RunOK
  <2>5. ConclusionOK(j)'
    BY DEF JobOK, AttemptOK, ConclusionOK, Superseded, Current, RunOK, MayStillSave, Life!Over
  <2>6. QED  BY <2>1, <2>2, <2>3, <2>4, <2>5 DEF JobOK
<1>8. run' \in [Runs -> RunStates] => TypeOK'
  BY <1>1, JobQueueAssumption, <1>r
     DEF IInv, TypeOK, Start, submitVars, redisVars, bullVars, Fault, NoFault, Saves, Lost
<1>9. QED
  BY <1>1, <1>2, <1>3, <1>4, <1>5, <1>6, <1>7, <1>8, <1>r, RunStep
     DEF IInv, TypeOK, Start, submitVars, redisVars, bullVars, Fault, NoFault, Saves, Lost

LEMMA SaveProgressStep ==
    ASSUME IInv, NEW r \in Runs, SaveProgress(r)
    PROVE  IInv'
<1> DEFINE j == JobOf(r)
<1>. PICK u, o : /\ u = run[r].unsaved - 1
                  /\ o = IF run[r].owed > 0 THEN run[r].owed - 1 ELSE 0
  OBVIOUS
<1>u. u \in 0..MaxStep /\ o \in 0..MaxStep
  BY RunsOfJobs, JobQueueAssumption DEF SaveProgress, IInv, TypeOK, RunStates
<1> USE <1>u
<1>0. PICK s : s = run'[r]  OBVIOUS
<1>1. /\ j \in Jobs /\ JobOK(j) /\ stalls[j] \in {0, 1}
      /\ RunOK(run[r]) /\ run[r] \in RunStates
      /\ run \in [Runs -> RunStates]
  BY RunsOfJobs DEF IInv, TypeOK
<1>2. /\ run' = [run EXCEPT ![r] = s]
      /\ s = [run[r] EXCEPT !.unsaved = u, !.owed = o]
      /\ run[r].unsaved > 0
  BY <1>0, <1>1 DEF SaveProgress, RunStates, PCs
<1>3. s \in RunStates
  BY <1>1, <1>2, JobQueueAssumption DEF RunStates, PCs
<1>4. RunOK(s)
  BY <1>1, <1>2, JobQueueAssumption DEF RunStates, RunOK, MayStillSave, Fresh, Working, Settled
<1>5. UNCHANGED <<sub, queued, bull, stalls>>
  BY <1>1 DEF IInv, TypeOK, SaveProgress, submitVars, redisVars, bullVars, Fault, NoFault, Saves, Lost
<1>6. \A k \in Jobs \ {j} : (k \in queued') = (k \in queued)
  BY <1>5
<1>r. /\ record' \in [Jobs -> Life!Records]
      /\ record'[j] = record[j] \/ record'[j] = [status |-> run[r].status, step |-> run[r].step]
      /\ \A k \in Jobs \ {j} : record'[k] = record[k]
      /\ run[r].pc \notin {"none", "get", "dead"} /\ run[r].status \in {"running", "failed"}
  <2>1. [status |-> run[r].status, step |-> run[r].step] \in Life!Records
    BY <1>1, JobQueueAssumption DEF Life!Records, RunStates
  <2>2. Saves(j, [status |-> run[r].status, step |-> run[r].step]) \/ Lost
    BY <1>1, <1>2 DEF SaveProgress, InMemory, RunOK, Fresh
  <2>3. QED  BY <1>1, <1>2, <2>1, <2>2, Saved DEF IInv, RunOK, MayStillSave, Fresh, RunStates
<1>7. ASSUME run'[r] = s, \A q \in Runs \ {r} : run'[q] = run[q]
      PROVE  JobOK(j)'
  <2> USE <1>1, <1>2, <1>5, <1>7, RunsOfJobs, <1>r
  <2>1. SubmitOK(j)'
    BY DEF JobOK, SubmitOK, Attempts, RunOK, MayStillSave
  <2>2. AttemptOK(j)'
    BY DEF JobOK, AttemptOK, Current, Working, RunOK, MayStillSave
  <2>3. ListOK(j)'
    BY DEF JobOK, ListOK, AttemptOK, Current, Started, Attempts, Fresh, Working, MayStillSave
  <2>4. (stalls[j] = 0 => RecordOK(record[j], run[<<j, 1>>]))'
    <3>1. record[j].step \in Nat /\ run[r].step \in Nat
      BY <1>1 DEF IInv, TypeOK, Life!Records, RunStates
    <3>2. QED  BY <3>1 DEF JobOK, RecordOK, AttemptOK, Fresh, Working, MayStillSave, RunOK
  <2>5. ConclusionOK(j)'
    BY DEF JobOK, AttemptOK, ConclusionOK, Superseded, Current, RunOK, MayStillSave, Life!Over
  <2>6. QED  BY <2>1, <2>2, <2>3, <2>4, <2>5 DEF JobOK
<1>8. run' \in [Runs -> RunStates] => TypeOK'
  BY <1>1, JobQueueAssumption, <1>r
     DEF IInv, TypeOK, SaveProgress, submitVars, redisVars, bullVars, Fault, NoFault, Saves, Lost
<1>9. QED
  BY <1>1, <1>2, <1>3, <1>4, <1>5, <1>6, <1>7, <1>8, <1>r, RunStep
     DEF IInv, TypeOK, SaveProgress, submitVars, redisVars, bullVars, Fault, NoFault, Saves, Lost

LEMMA FailStep ==
    ASSUME IInv, NEW r \in Runs, Fail(r)
    PROVE  IInv'
<1> DEFINE j == JobOf(r)
<1>. PICK saved \in BOOLEAN :
          /\ IF saved THEN Saves(j, [status |-> "failed", step |-> FinalStep]) ELSE Lost
          /\ run' = [run EXCEPT ![r].status = "failed", ![r].step = FinalStep,
                                ![r].pc = IF saved THEN "return" ELSE "threw"]
  BY DEF Fail, Concludes
<1>0. PICK s : s = run'[r]  OBVIOUS
<1>1. /\ j \in Jobs /\ JobOK(j) /\ stalls[j] \in {0, 1}
      /\ RunOK(run[r]) /\ run[r] \in RunStates
      /\ run \in [Runs -> RunStates]
  BY RunsOfJobs DEF IInv, TypeOK
<1>2. /\ run' = [run EXCEPT ![r] = s]
      /\ s = [run[r] EXCEPT !.status = "failed", !.step = FinalStep,
                           !.pc = IF saved THEN "return" ELSE "threw"]
      /\ run[r].pc = "flush"
      /\ run[r].owed = 0 /\ run[r].verdict # "ok"
  BY <1>0, <1>1 DEF Fail, RunStates, PCs
<1>3. s \in RunStates
  BY <1>1, <1>2, JobQueueAssumption DEF RunStates, PCs
<1>4. RunOK(s)
  BY <1>1, <1>2, JobQueueAssumption DEF RunStates, RunOK, MayStillSave, Fresh, Working, Settled
<1>5. UNCHANGED <<sub, queued, bull, stalls>>
  BY <1>1 DEF IInv, TypeOK, Fail, submitVars, redisVars, bullVars, Fault, NoFault, Saves, Lost, Concludes
<1>6. \A k \in Jobs \ {j} : (k \in queued') = (k \in queued)
  BY <1>5
<1>r. /\ record' \in [Jobs -> Life!Records]
      /\ record'[j] = IF saved THEN [status |-> "failed", step |-> FinalStep] ELSE record[j]
      /\ \A k \in Jobs \ {j} : record'[k] = record[k]
  <2>1. [status |-> "failed", step |-> FinalStep] \in Life!Records
    BY JobQueueAssumption DEF Life!Records
  <2>2. QED  BY <1>1, <2>1 DEF IInv, TypeOK, Saves, Lost
<1>7. ASSUME run'[r] = s, \A q \in Runs \ {r} : run'[q] = run[q]
      PROVE  JobOK(j)'
  <2> USE <1>1, <1>2, <1>5, <1>7, RunsOfJobs, <1>r
  <2>1. SubmitOK(j)'
    BY DEF JobOK, SubmitOK, Attempts, RunOK, MayStillSave
  <2>2. AttemptOK(j)'
    BY DEF JobOK, AttemptOK, Current, Working, RunOK, MayStillSave
  <2>3. ListOK(j)'
    BY DEF JobOK, ListOK, AttemptOK, Current, Started, Attempts, Fresh, Working, MayStillSave
  <2>4. (stalls[j] = 0 => RecordOK(record[j], run[<<j, 1>>]))'
    BY DEF JobOK, RecordOK, AttemptOK, Fresh, Working, MayStillSave, RunOK
  <2>5. ConclusionOK(j)'
    BY DEF JobOK, AttemptOK, ConclusionOK, Superseded, Current, RunOK, MayStillSave, Life!Over
  <2>6. QED  BY <2>1, <2>2, <2>3, <2>4, <2>5 DEF JobOK
<1>8. run' \in [Runs -> RunStates] => TypeOK'
  BY <1>1, JobQueueAssumption, <1>r
     DEF IInv, TypeOK, Fail, submitVars, redisVars, bullVars, Fault, NoFault, Saves, Lost, Concludes
<1>9. QED
  BY <1>1, <1>2, <1>3, <1>4, <1>5, <1>6, <1>7, <1>8, <1>r, RunStep
     DEF IInv, TypeOK, Fail, submitVars, redisVars, bullVars, Fault, NoFault, Saves, Lost, Concludes

LEMMA FinishStep ==
    ASSUME IInv, NEW r \in Runs, Finish(r)
    PROVE  IInv'
<1> DEFINE j == JobOf(r)
<1>. PICK saved \in BOOLEAN :
          /\ IF saved THEN Saves(j, [status |-> "done", step |-> FinalStep]) ELSE Lost
          /\ run' = [run EXCEPT ![r].status = "done", ![r].step = FinalStep,
                                ![r].pc = IF saved THEN "return" ELSE "threw"]
  BY DEF Finish, Concludes
<1>0. PICK s : s = run'[r]  OBVIOUS
<1>1. /\ j \in Jobs /\ JobOK(j) /\ stalls[j] \in {0, 1}
      /\ RunOK(run[r]) /\ run[r] \in RunStates
      /\ run \in [Runs -> RunStates]
  BY RunsOfJobs DEF IInv, TypeOK
<1>2. /\ run' = [run EXCEPT ![r] = s]
      /\ s = [run[r] EXCEPT !.status = "done", !.step = FinalStep,
                           !.pc = IF saved THEN "return" ELSE "threw"]
      /\ run[r].pc = "final"
  BY <1>0, <1>1 DEF Finish, RunStates, PCs
<1>3. s \in RunStates
  BY <1>1, <1>2, JobQueueAssumption DEF RunStates, PCs
<1>4. RunOK(s)
  BY <1>1, <1>2, JobQueueAssumption DEF RunStates, RunOK, MayStillSave, Fresh, Working, Settled
<1>5. UNCHANGED <<sub, queued, bull, stalls>>
  BY <1>1 DEF IInv, TypeOK, Finish, submitVars, redisVars, bullVars, Fault, NoFault, Saves, Lost, Concludes
<1>6. \A k \in Jobs \ {j} : (k \in queued') = (k \in queued)
  BY <1>5
<1>r. /\ record' \in [Jobs -> Life!Records]
      /\ record'[j] = IF saved THEN [status |-> "done", step |-> FinalStep] ELSE record[j]
      /\ \A k \in Jobs \ {j} : record'[k] = record[k]
  <2>1. [status |-> "done", step |-> FinalStep] \in Life!Records
    BY JobQueueAssumption DEF Life!Records
  <2>2. QED  BY <1>1, <2>1 DEF IInv, TypeOK, Saves, Lost
<1>7. ASSUME run'[r] = s, \A q \in Runs \ {r} : run'[q] = run[q]
      PROVE  JobOK(j)'
  <2> USE <1>1, <1>2, <1>5, <1>7, RunsOfJobs, <1>r
  <2>1. SubmitOK(j)'
    BY DEF JobOK, SubmitOK, Attempts, RunOK, MayStillSave
  <2>2. AttemptOK(j)'
    BY DEF JobOK, AttemptOK, Current, Working, RunOK, MayStillSave
  <2>3. ListOK(j)'
    BY DEF JobOK, ListOK, AttemptOK, Current, Started, Attempts, Fresh, Working, MayStillSave
  <2>4. (stalls[j] = 0 => RecordOK(record[j], run[<<j, 1>>]))'
    BY DEF JobOK, RecordOK, AttemptOK, Fresh, Working, MayStillSave, RunOK
  <2>5. ConclusionOK(j)'
    BY DEF JobOK, AttemptOK, ConclusionOK, Superseded, Current, RunOK, MayStillSave, Life!Over
  <2>6. QED  BY <2>1, <2>2, <2>3, <2>4, <2>5 DEF JobOK
<1>8. run' \in [Runs -> RunStates] => TypeOK'
  BY <1>1, JobQueueAssumption, <1>r
     DEF IInv, TypeOK, Finish, submitVars, redisVars, bullVars, Fault, NoFault, Saves, Lost, Concludes
<1>9. QED
  BY <1>1, <1>2, <1>3, <1>4, <1>5, <1>6, <1>7, <1>8, <1>r, RunStep
     DEF IInv, TypeOK, Finish, submitVars, redisVars, bullVars, Fault, NoFault, Saves, Lost, Concludes

LEMMA CompleteStep ==
    ASSUME IInv, NEW r \in Runs, Complete(r)
    PROVE  IInv'
<1> DEFINE j == JobOf(r)
<1>0. PICK s : s = run'[r]  OBVIOUS
<1>1. /\ j \in Jobs /\ JobOK(j) /\ stalls[j] \in {0, 1}
      /\ RunOK(run[r]) /\ run[r] \in RunStates
      /\ run \in [Runs -> RunStates]
  BY RunsOfJobs DEF IInv, TypeOK
<1>2. /\ run' = [run EXCEPT ![r] = s]
      /\ s = [run[r] EXCEPT !.pc = "over"] /\ run[r].pc \in {"return", "threw"}
  BY <1>0, <1>1 DEF Complete, RunStates, PCs
<1>3. s \in RunStates
  BY <1>1, <1>2, JobQueueAssumption DEF RunStates, PCs
<1>4. RunOK(s)
  BY <1>1, <1>2, JobQueueAssumption DEF RunStates, RunOK, MayStillSave, Fresh, Working, Settled
<1>5. UNCHANGED <<sub, record, queued, stalls>>
  BY <1>1 DEF IInv, TypeOK, Complete, submitVars, redisVars, bullVars
<1>6. \A k \in Jobs \ {j} : (k \in queued') = (k \in queued)
  BY <1>5
<1>r. /\ s.pc = "over"
      /\ bull' \in [Jobs -> {"none", "wait", "active", "completed", "failed"}]
      /\ \/ bull'[j] = bull[j]
         \/ /\ bull'[j] = "completed" /\ run[r].pc = "return"
            /\ bull[j] = "active" /\ r = <<j, stalls[j] + 1>>
         \/ /\ bull'[j] = "failed"
            /\ bull[j] = "active" /\ r = <<j, stalls[j] + 1>>
      /\ \A k \in Jobs \ {j} : bull'[k] = bull[k]
  BY <1>1, <1>2 DEF Complete, IInv, TypeOK, Current, RunStates
<1>7. ASSUME run'[r] = s, \A q \in Runs \ {r} : run'[q] = run[q]
      PROVE  JobOK(j)'
  <2> USE <1>1, <1>2, <1>5, <1>7, RunsOfJobs, <1>r
  <2>1. SubmitOK(j)'
    BY DEF JobOK, SubmitOK, Attempts, RunOK, MayStillSave
  <2>2. AttemptOK(j)'
    <3>1. CASE stalls[j] = 0  BY <3>1 DEF JobOK, AttemptOK, Current
    <3>2. CASE stalls[j] = 1
      <4>1. CASE r = <<j, 1>>
        <5>1. bull'[j] = bull[j] /\ run'[<<j, 2>>] = run[<<j, 2>>]  BY <3>2, <4>1
        <5>2. QED  BY <3>2, <5>1 DEF JobOK, AttemptOK, Current
      <4>2. CASE r = <<j, 2>>  BY <3>2, <4>2 DEF JobOK, AttemptOK, Current
      <4>3. QED  BY <4>1, <4>2
    <3>3. QED  BY <3>1, <3>2 DEF JobOK, AttemptOK, Current, Working, RunOK, MayStillSave
  <2>3. ListOK(j)'
    <3>1. (bull[j] = "wait" /\ stalls[j] = 0 => j \in queued)'  BY DEF JobOK, ListOK
    <3>2. (Started(j) => j \notin queued)'  BY DEF JobOK, ListOK, Started
    <3>3. ASSUME NEW a \in Attempts,
                 (run[<<j, a>>].pc \in {"sadd", "start"} \cup Working \/ MayStillSave(run[<<j, a>>]))'
          PROVE  j \notin queued
      BY <3>3 DEF JobOK, ListOK, Attempts, Working, MayStillSave
    <3>4. QED  BY <3>1, <3>2, <3>3 DEF ListOK
  <2>4. (stalls[j] = 0 => RecordOK(record[j], run[<<j, 1>>]))'
    BY DEF JobOK, RecordOK, AttemptOK, Fresh, Working, MayStillSave, RunOK
  <2>5. ConclusionOK(j)'
    BY DEF JobOK, AttemptOK, ConclusionOK, Superseded, Current, RunOK, MayStillSave, Life!Over
  <2>6. QED  BY <2>1, <2>2, <2>3, <2>4, <2>5 DEF JobOK
<1>8. run' \in [Runs -> RunStates] => TypeOK'
  BY <1>1, JobQueueAssumption, <1>r
     DEF IInv, TypeOK, Complete, submitVars, redisVars, bullVars
<1>9. QED
  BY <1>1, <1>2, <1>3, <1>4, <1>5, <1>6, <1>7, <1>8, <1>r, RunStep
     DEF IInv, TypeOK, Complete, submitVars, redisVars, bullVars

\* A step that concerns one job and no activation.
LEMMA JobStep ==
    ASSUME NEW j \in Jobs, IInv, UNCHANGED run, TypeOK',
           \A k \in Jobs \ {j} : /\ sub'[k] = sub[k]
                                 /\ record'[k] = record[k]
                                 /\ bull'[k] = bull[k]
                                 /\ stalls'[k] = stalls[k]
                                 /\ (k \in queued') = (k \in queued),
           JobOK(j)'
    PROVE  IInv'
<1>1. ASSUME NEW k \in Jobs PROVE JobOK(k)'
  <2>1. CASE k = j  BY <2>1
  <2>2. CASE k # j
    <3>1. Same(k)  BY <2>2 DEF Same
    <3>2. QED  BY <3>1, Unmoved DEF IInv
  <2>3. QED  BY <2>1, <2>2
<1>2. QED  BY <1>1 DEF IInv

\* Before BullMQ has the job there is nothing but its record and its listing.
LEMMA NotYetAdded ==
    ASSUME IInv, NEW j \in Jobs, sub[j] # "added"
    PROVE  /\ bull[j] = "none" /\ stalls[j] = 0
           /\ record[j].status \in {"none", "queued"}
           /\ \A a \in Attempts : /\ run[<<j, a>>].pc = "none"
                                  /\ ~MayStillSave(run[<<j, a>>])
<1>1. \A a \in Attempts : <<j, a>> \in Runs /\ RunOK(run[<<j, a>>])  BY DEF IInv, Runs
<1>2. TypeOK /\ JobOK(j)  BY DEF IInv
<1>3. QED  BY <1>1, <1>2 DEF TypeOK, JobOK, SubmitOK, AttemptOK, RunOK

LEMMA SubmitStep ==
    ASSUME IInv, NEW j \in Jobs,
           Submit(j) \/ SubmitFails(j) \/ AddFails(j)
    PROVE  IInv'
<1>1. /\ TypeOK /\ JobOK(j)
      /\ Life!QueuedJob \in Life!Records
  BY JobQueueAssumption DEF IInv, Life!Records
<1>2. sub[j] # "added"
  BY DEF Submit, Ticket, SaveQueued, ZAdd, Add, Unlist, SubmitFails, AddFails
<1>3. /\ bull[j] = "none" /\ stalls[j] = 0
      /\ record[j].status \in {"none", "queued"}
      /\ \A a \in Attempts : run[<<j, a>>].pc = "none" /\ ~MayStillSave(run[<<j, a>>])
  BY <1>2, NotYetAdded
<1>4. /\ UNCHANGED <<run, stalls>>
      /\ \A k \in Jobs \ {j} : /\ sub'[k] = sub[k]
                               /\ record'[k] = record[k]
                               /\ bull'[k] = bull[k]
                               /\ (k \in queued') = (k \in queued)
  BY <1>1 DEF Submit, Ticket, SaveQueued, ZAdd, Add, Unlist, SubmitFails, AddFails,
              TypeOK, submitVars, redisVars, bullVars
<1>5. TypeOK'
  <2>1. 1 + Cardinality({k \in Jobs : place[k] # 0}) \in Nat
    <3>1. IsFiniteSet({k \in Jobs : place[k] # 0})  BY FS_Subset, JobQueueAssumption
    <3>2. QED  BY <3>1, FS_CardinalityType
  <2>2. CASE Add(j)  BY <1>1, <2>1, <2>2 DEF Add, TypeOK, submitVars, redisVars, bullVars
  <2>3. CASE ~Add(j)
    BY <1>1, <2>3, JobQueueAssumption
       DEF Submit, Ticket, SaveQueued, ZAdd, Unlist, SubmitFails, AddFails, Fault, NoFault,
           TypeOK, submitVars, redisVars, bullVars
  <2>4. QED  BY <2>2, <2>3
<1>6. /\ sub'[j] = "added" <=> bull'[j] # "none"
      /\ sub'[j] = "added" => bull'[j] = "wait" /\ j \in queued'
      /\ sub'[j] \in {"listed", "refusing"} => j \in queued'
      /\ sub'[j] \in {"new", "ticketed"} => record'[j] = NoJob
      /\ record'[j] \in {record[j], Life!QueuedJob}
  BY <1>1, <1>2, <1>3
     DEF Submit, Ticket, SaveQueued, ZAdd, Add, Unlist, SubmitFails, AddFails,
         TypeOK, JobOK, SubmitOK, submitVars, redisVars, bullVars
<1>7. JobOK(j)'
  <2> USE <1>1, <1>3, <1>4, <1>6
  <2>1. SubmitOK(j)'  BY DEF SubmitOK, Attempts
  <2>2. AttemptOK(j)'  BY DEF AttemptOK, Current, Attempts, TypeOK
  <2>3. ListOK(j)'
    <3>1. bull'[j] \in {"none", "wait"}  BY DEF TypeOK, Submit, Ticket, SaveQueued, ZAdd,
            Add, Unlist, SubmitFails, AddFails, submitVars, redisVars, bullVars
    <3>2. bull'[j] = "wait" => j \in queued'  BY <3>1
    <3>3. QED  BY <3>1, <3>2 DEF ListOK, Started, Attempts, Working
  <2>4. (stalls[j] = 0 => RecordOK(record[j], run[<<j, 1>>]))'
    BY DEF RecordOK, Attempts, Fresh, Working, MayStillSave
  <2>5. ConclusionOK(j)'
    <3>1. bull'[j] # "completed"  BY DEF TypeOK, Submit, Ticket, SaveQueued, ZAdd,
            Add, Unlist, SubmitFails, AddFails, submitVars, redisVars, bullVars
    <3>2. QED  BY <3>1 DEF ConclusionOK, Current, Attempts
  <2>6. QED  BY <2>1, <2>2, <2>3, <2>4, <2>5 DEF JobOK
<1>8. QED  BY <1>4, <1>5, <1>7, JobStep DEF IInv

LEMMA StallStep ==
    ASSUME IInv, NEW j \in Jobs, Stall(j)
    PROVE  IInv'
<1>1. /\ TypeOK /\ JobOK(j) /\ stalls[j] \in {0, 1} /\ bull[j] = "active"
      /\ RunOK(run[<<j, 1>>]) /\ RunOK(run[<<j, 2>>])
  BY DEF IInv, TypeOK, Stall, Runs, Attempts
<1>2. /\ UNCHANGED <<sub, record, queued, run>>
      /\ \/ stalls[j] = 0 /\ stalls'[j] = 1 /\ bull'[j] = "wait"
         \/ stalls[j] = 1 /\ stalls'[j] = 1 /\ bull'[j] = "failed"
      /\ \A k \in Jobs \ {j} : stalls'[k] = stalls[k] /\ bull'[k] = bull[k]
  BY <1>1 DEF Stall, TypeOK, submitVars, redisVars, bullVars
<1>3. TypeOK'
  BY <1>1, JobQueueAssumption
     DEF Stall, Fault, NoFault, TypeOK, submitVars, redisVars, bullVars
<1>4. JobOK(j)'
  <2> USE <1>1, <1>2
  <2>1. SubmitOK(j)'  BY DEF JobOK, SubmitOK
  <2>2. AttemptOK(j)'  BY DEF JobOK, AttemptOK, Current
  <2>3. ListOK(j)'  BY DEF JobOK, ListOK, Started, Attempts, MayStillSave, Working
  <2>4. ConclusionOK(j)'
    BY DEF JobOK, AttemptOK, ConclusionOK, Superseded, Current
  <2>5. QED  BY <2>1, <2>2, <2>3, <2>4 DEF JobOK
<1>5. QED  BY <1>2, <1>3, <1>4, JobStep

LEMMA ExpireStep ==
    ASSUME IInv, NEW j \in Jobs, Expire(j)
    PROVE  IInv'
<1>1. /\ TypeOK /\ JobOK(j) /\ stalls[j] \in {0, 1}
      /\ NoJob \in Life!Records
  BY JobQueueAssumption DEF IInv, TypeOK, Life!Records
<1>2. /\ UNCHANGED <<sub, queued, bull, stalls, run>>
      /\ record' = [record EXCEPT ![j] = NoJob]
      /\ record'[j] = NoJob
      /\ run[<<j, 1>>].pc \in {"none", "over", "dead"} /\ ~MayStillSave(run[<<j, 1>>])
      /\ run[<<j, 2>>].pc \in {"none", "over", "dead"} /\ ~MayStillSave(run[<<j, 2>>])
  <2>1. <<j, 1>> \in Runs /\ <<j, 2>> \in Runs /\ run \in [Runs -> RunStates]
    BY DEF IInv, TypeOK, Runs, Attempts
  <2>2. QED
    BY <1>1, <2>1
       DEF Expire, TypeOK, Busy, MayStillSave, Attempts, RunStates, submitVars, redisVars, bullVars
<1>3. TypeOK'
  BY <1>1, <1>2, JobQueueAssumption
     DEF Expire, Fault, TypeOK, submitVars, redisVars, bullVars
<1>4. JobOK(j)'
  <2> USE <1>1, <1>2
  <2>1. SubmitOK(j)'  BY DEF JobOK, SubmitOK
  <2>2. AttemptOK(j)'  BY DEF JobOK, AttemptOK, Current
  <2>3. ListOK(j)'  BY DEF JobOK, ListOK, Started, Attempts, MayStillSave
  <2>4. RecordOK(record[j], run[<<j, 1>>])'  BY DEF RecordOK, Fresh, Working
  <2>5. ConclusionOK(j)'
    BY DEF JobOK, ConclusionOK, Superseded, Current
  <2>6. QED  BY <2>1, <2>2, <2>3, <2>4, <2>5 DEF JobOK
<1>5. QED  BY <1>1, <1>2, <1>3, <1>4, JobStep DEF TypeOK

LEMMA TakeStep ==
    ASSUME IInv, NEW j \in Jobs, Take(j)
    PROVE  IInv'
<1> DEFINE r == Current(j)
<1>0. PICK s : s = run'[r]  OBVIOUS
<1>1. /\ TypeOK /\ JobOK(j) /\ stalls[j] \in {0, 1} /\ bull[j] = "wait"
      /\ r \in Runs /\ JobOf(r) = j
      /\ RunOK(run[r]) /\ run[r] \in RunStates /\ run[r].pc = "none"
      /\ run \in [Runs -> RunStates]
  <2>1. TypeOK /\ JobOK(j) /\ stalls[j] \in {0, 1} /\ bull[j] = "wait"
    BY DEF IInv, TypeOK, Take
  <2>2. r \in Runs /\ JobOf(r) = j  BY <2>1 DEF Runs, Attempts, Current, JobOf
  <2>3. run[r].pc = "none"  BY <2>1 DEF JobOK, AttemptOK
  <2>4. QED  BY <2>1, <2>2, <2>3 DEF IInv, TypeOK
<1>2. run' = [run EXCEPT ![r] = s] /\ s = [run[r] EXCEPT !.pc = "get"]
  BY <1>0, <1>1 DEF Take, RunStates
<1>3. s \in RunStates  BY <1>1, <1>2 DEF RunStates, PCs
<1>4. RunOK(s) /\ ~MayStillSave(s)
  BY <1>1, <1>2 DEF RunStates, RunOK, MayStillSave, Fresh, Working, Settled
<1>5. /\ UNCHANGED <<sub, record, queued, stalls>>
      /\ bull'[j] = "active"
      /\ \A k \in Jobs \ {j} : bull'[k] = bull[k]
  BY <1>1 DEF Take, TypeOK, submitVars, redisVars, bullVars
<1>6. ASSUME run'[r] = s, \A q \in Runs \ {r} : run'[q] = run[q]
      PROVE  JobOK(j)'
  <2>1. <<j, 1>> \in Runs /\ <<j, 2>> \in Runs  BY DEF Runs, Attempts
  <2> USE <1>1, <1>2, <1>4, <1>5, <1>6, <2>1
  <2>2. SubmitOK(j)'  BY DEF JobOK, SubmitOK
  <2>3. AttemptOK(j)'
    <3>1. CASE stalls[j] = 0  BY <3>1 DEF JobOK, AttemptOK, Current
    <3>2. CASE stalls[j] = 1  BY <3>2 DEF JobOK, AttemptOK, Current
    <3>3. QED  BY <3>1, <3>2
  <2>4. ListOK(j)'
    <3>1. CASE stalls[j] = 0
      BY <3>1 DEF JobOK, ListOK, Started, Attempts, MayStillSave, Working, Current, RunStates
    <3>2. CASE stalls[j] = 1
      BY <3>2 DEF JobOK, ListOK, Started, Attempts, MayStillSave, Working, Current, RunStates
    <3>3. QED  BY <3>1, <3>2
  <2>5. (stalls[j] = 0 => RecordOK(record[j], run[<<j, 1>>]))'
    BY DEF JobOK, RecordOK, Current, Fresh, Working, RunStates
  <2>6. ConclusionOK(j)'  BY DEF JobOK, ConclusionOK, Superseded, Current, RunStates
  <2>7. QED  BY <2>2, <2>3, <2>4, <2>5, <2>6 DEF JobOK
<1>7. run' \in [Runs -> RunStates] => TypeOK'
  BY <1>1 DEF Take, TypeOK, submitVars, redisVars, bullVars
<1>8. QED
  BY <1>1, <1>2, <1>3, <1>4, <1>5, <1>6, <1>7, RunStep

LEMMA CrashStep ==
    ASSUME IInv, Crash
    PROVE  IInv'
<1>1. ASSUME NEW r \in Runs
      PROVE  /\ run'[r] \in RunStates /\ RunOK(run'[r]) /\ ~MayStillSave(run'[r])
             /\ run'[r].pc \in {"none", "over", "dead"}
             /\ run[r].pc \in {"none", "over", "dead"} => run'[r].pc = run[r].pc
             /\ run'[r].pc = "dead" => run[r].pc = "dead" \/ r = Current(JobOf(r))
             /\ run'[r].pc = "none" => run[r].pc = "none"
             /\ run'[r].status = "none"
  <2>1. run[r] \in RunStates /\ RunOK(run[r])  BY DEF IInv, TypeOK
  <2>2. PICK pc : pc = CASE ~Busy(r) -> run[r].pc
                         [] Busy(r) /\ r = Current(JobOf(r)) -> "dead"
                         [] OTHER -> "over"
    OBVIOUS
  <2>c. PICK cut : cut = IF Busy(r) /\ run[r].cut = "none" THEN run[r].pc ELSE run[r].cut
    OBVIOUS
  <2>3. run'[r] = [NotRun EXCEPT !.pc = pc, !.verdict = run[r].verdict, !.cut = cut]
    BY <2>2, <2>c DEF Crash
  <2>4. /\ pc \in {"none", "over", "dead"}
        /\ run[r].pc \in {"none", "over", "dead"} => pc = run[r].pc
        /\ pc = "dead" => run[r].pc = "dead" \/ r = Current(JobOf(r))
        /\ pc = "none" => run[r].pc = "none"
        /\ cut \in PCs /\ (cut # "none" => pc \in {"over", "dead"})
    BY <2>1, <2>2, <2>c DEF Busy, RunStates, RunOK, Settled
  <2>5. run[r].verdict \in {"none", "ok", "error", "timeout"}
    BY <2>1 DEF RunStates
  <2>6. pc = "none" => run[r].verdict = "none"
    BY <2>1, <2>4 DEF RunOK
  <2>7. run'[r] = [pc |-> pc, status |-> "none", step |-> 0, said |-> 0, unsaved |-> 0,
                   owed |-> 0, live |-> FALSE, verdict |-> run[r].verdict, cut |-> cut]
    BY <2>3 DEF NotRun
  <2>8. run'[r] \in RunStates
    BY <2>4, <2>5, <2>7, JobQueueAssumption DEF RunStates, PCs
  <2>9. RunOK(run'[r])
    BY <2>4, <2>6, <2>7 DEF RunOK, MayStillSave, Fresh, Working, Settled
  <2>10. QED  BY <2>4, <2>7, <2>8, <2>9 DEF MayStillSave
<1>2. /\ UNCHANGED <<record, queued, bull, stalls>>
      /\ \A j \in Jobs : sub'[j] = IF InFlight(j) THEN "cut" ELSE sub[j]
  BY DEF Crash, redisVars, bullVars
<1>3. TypeOK'
  <2>1. run' \in [Runs -> RunStates]  BY <1>1 DEF Crash
  <2>2. sub' \in [Jobs -> {"new", "ticketed", "saved", "listed", "added",
                           "refusing", "refused", "left", "cut"}]
    BY DEF IInv, TypeOK, Crash
  <2>3. faults' \in 0..MaxFaults
    <3>1. Fault("crash")  BY DEF Crash
    <3>2. faults \in 0..MaxFaults  BY DEF IInv, TypeOK
    <3>3. QED  BY <3>1, <3>2, JobQueueAssumption DEF Fault
  <2>4. UNCHANGED <<ticket, tick, record, queued, running, durs, bull, place, stalls>>
    BY DEF Crash, redisVars, bullVars
  <2>5. QED  BY <2>1, <2>2, <2>3, <2>4 DEF IInv, TypeOK
<1>4. ASSUME NEW j \in Jobs PROVE JobOK(j)'
  <2>1. /\ JobOK(j) /\ stalls[j] \in {0, 1}
        /\ <<j, 1>> \in Runs /\ <<j, 2>> \in Runs /\ JobOf(<<j, 1>>) = j
    BY DEF IInv, TypeOK, Runs, Attempts, JobOf
  <2> USE <2>1, <1>1, <1>2
  <2>2. SubmitOK(j)'  BY DEF JobOK, SubmitOK, InFlight, Attempts
  <2>3. AttemptOK(j)'  BY DEF JobOK, AttemptOK, Current
  <2>4. ListOK(j)'  BY DEF JobOK, ListOK, Started, Attempts, Working
  <2>5. (stalls[j] = 0 => RecordOK(record[j], run[<<j, 1>>]))'
    BY DEF JobOK, RecordOK, Fresh, Working
  <2>6. ConclusionOK(j)'
    <3>1. Superseded(j)' <=> Superseded(j)
      <4>1. CASE stalls[j] = 0  BY <4>1 DEF Superseded
      <4>2. CASE stalls[j] = 1
        BY <4>2 DEF Superseded, Current
      <4>3. QED  BY <4>1, <4>2
    <3>2. run'[Current(j)'].pc # "return" /\ run'[Current(j)'].status # "running"
      BY DEF Current
    <3>3. QED  BY <3>1, <3>2 DEF JobOK, ConclusionOK, Life!Over
  <2>7. QED  BY <2>2, <2>3, <2>4, <2>5, <2>6 DEF JobOK
<1>5. QED  BY <1>1, <1>3, <1>4 DEF IInv

LEMMA InitOK == Init => IInv
<1> SUFFICES ASSUME Init PROVE IInv  OBVIOUS
<1>1. NoJob \in Life!Records /\ NotRun \in RunStates
  BY JobQueueAssumption DEF Life!Records, NotRun, RunStates, PCs
<1>2. TypeOK  BY <1>1, JobQueueAssumption DEF Init, TypeOK
<1>3. RunOK(NotRun) /\ ~MayStillSave(NotRun)
  BY DEF NotRun, RunOK, MayStillSave, Fresh, Working, Settled
<1>4. ASSUME NEW r \in Runs PROVE RunOK(run[r])  BY <1>3 DEF Init
<1>5. ASSUME NEW j \in Jobs PROVE JobOK(j)
  <2>1. \A a \in Attempts : run[<<j, a>>] = NotRun  BY DEF Init, Runs
  <2> USE <1>3, <2>1
  <2>2. SubmitOK(j)
    <3>1. sub[j] = "new" /\ bull[j] = "none" /\ record[j] = NoJob  BY DEF Init
    <3>2. \A a \in Attempts : run[<<j, a>>].pc = "none"  BY DEF NotRun
    <3>3. QED  BY <3>1, <3>2 DEF SubmitOK
  <2>3. AttemptOK(j)  BY DEF Init, AttemptOK, Attempts, NotRun
  <2>4. ListOK(j)  BY DEF Init, ListOK, Started, Attempts, Working, NotRun
  <2>5. RecordOK(record[j], run[<<j, 1>>])  BY DEF Init, RecordOK, Attempts, Fresh, Working, NotRun
  <2>6. ConclusionOK(j)  BY DEF Init, ConclusionOK, Current, Attempts, NotRun
  <2>7. QED  BY <2>2, <2>3, <2>4, <2>5, <2>6 DEF Init, JobOK
<1>6. QED  BY <1>2, <1>4, <1>5 DEF IInv

LEMMA Stutters ==
    ASSUME IInv, UNCHANGED vars
    PROVE  IInv'
<1>1. TypeOK'  BY DEF IInv, TypeOK, vars
<1>2. ASSUME NEW j \in Jobs PROVE Same(j)  BY DEF Same, vars
<1>3. QED  BY <1>1, <1>2, Unmoved DEF IInv, vars

LEMMA NextStep == IInv /\ [Next]_vars => IInv'
<1> SUFFICES ASSUME IInv, [Next]_vars PROVE IInv'  OBVIOUS
<1>1. ASSUME NEW j \in Jobs, Submit(j) \/ SubmitFails(j) \/ AddFails(j) PROVE IInv'
  BY <1>1, SubmitStep
<1>2. ASSUME NEW j \in Jobs, Take(j) PROVE IInv'  BY <1>2, TakeStep
<1>3. ASSUME NEW j \in Jobs, Stall(j) PROVE IInv'  BY <1>3, StallStep
<1>4. ASSUME NEW j \in Jobs, Expire(j) PROVE IInv'  BY <1>4, ExpireStep
<1>5. ASSUME NEW r \in Runs, Work(r) PROVE IInv'
  BY <1>5, GetStep, ZRemStep, SAddStep, StartStep, SRemStep, FailStep, LPushStep, LTrimStep,
     FinishStep, CompleteStep DEF Work
<1>6. ASSUME NEW r \in Runs, Progress(r) \/ SaveProgress(r) PROVE IInv'
  BY <1>6, ProgressStep, SaveProgressStep
<1>7. ASSUME NEW r \in Runs, HandlerEnds(r) \/ EndsUnheard(r) \/ TimeOut(r) PROVE IInv'
  BY <1>7, HandlerEndsStep, EndsUnheardStep, TimeOutStep
<1>8. ASSUME NEW r \in Runs, Throw(r) PROVE IInv'  BY <1>8, ThrowStep
<1>9. CASE Crash  BY <1>9, CrashStep
<1>10. CASE Idle \/ UNCHANGED vars  BY <1>10, Stutters DEF Idle
<1>11. QED
  BY <1>1, <1>2, <1>3, <1>4, <1>5, <1>6, <1>7, <1>8, <1>9, <1>10 DEF Next

LEMMA Invariance == Spec => []IInv
  BY InitOK, NextStep, PTL DEF Spec

(* The theorems *)

\* Every variable keeps its type, whatever the number of jobs and workers.
THEOREM TypeCorrect == Spec => []TypeOK
<1>1. IInv => TypeOK  BY DEF IInv
<1>2. QED  BY <1>1, Invariance, PTL

\* No completed job is left with a record that says it is queued or running.
THEOREM CompletedJobsAreFinal == Spec => []CompletedIsFinal
<1>1. IInv => CompletedIsFinal
  BY DEF IInv, JobOK, ConclusionOK, CompletedIsFinal
<1>2. QED  BY <1>1, Invariance, PTL

\* A waiting job is listed, no started job is counted ahead of it, and every
\* earlier waiting job of its class is.
THEOREM PositionsAreHonest == Spec => []PositionIsHonest
<1>1. IInv => PositionIsHonest
  <2> SUFFICES ASSUME IInv, NEW j \in Jobs, bull[j] = "wait", stalls[j] = 0
               PROVE  /\ j \in queued
                      /\ \A k \in Ahead(j) : ~Started(k)
                      /\ \A k \in Jobs : /\ Class[k] = Class[j] /\ tick[k] < tick[j]
                                         /\ bull[k] = "wait" /\ stalls[k] = 0
                                         => k \in Ahead(j)
    BY DEF PositionIsHonest
  <2>1. \A k \in Jobs : ListOK(k)  BY DEF IInv, JobOK
  <2>2. queued \subseteq Jobs  BY DEF IInv, TypeOK
  <2>3. QED  BY <2>1, <2>2 DEF ListOK, Ahead
<1>2. QED  BY <1>1, Invariance, PTL

\* A save of a first attempt moves its job's life on by one step, a save of a
\* second attempt tells it anew.
LEMMA SaveIsLife ==
    ASSUME IInv, NEW r \in Runs, NEW rec \in Life!Records,
           Saves(JobOf(r), rec), UNCHANGED stalls,
           rec.status \in {"running", "done", "failed"},
           rec.status = "running" => rec.step <= MaxStep,
           rec.status = "done" => rec.step = FinalStep,
           stalls[JobOf(r)] = 0 =>
               \/ record[JobOf(r)].status = "queued"
               \/ record[JobOf(r)].status = "running"
                    /\ (rec.status = "running" => record[JobOf(r)].step <= rec.step)
               \/ record[JobOf(r)].status = "failed" /\ rec.status = "failed"
    PROVE  Life!LifeNext
<1> DEFINE j == JobOf(r)
<1>1. /\ j \in Jobs /\ stalls[j] \in {0, 1} /\ record[j] \in Life!Records
  BY RunsOfJobs DEF IInv, TypeOK
<1>2. Life!Becomes(j, rec)  BY DEF Life!Becomes, Saves
<1>3. rec = [status |-> rec.status, step |-> rec.step] /\ rec.step \in 0..FinalStep
      /\ record[j].step \in Nat
  BY <1>1, JobQueueAssumption DEF Life!Records
<1>4. CASE stalls[j] = 1
  <2>1. Life!Redone(j)  BY <1>1, <1>2, <1>4 DEF Life!Redone
  <2>2. QED  BY <1>1, <2>1 DEF Life!LifeNext
<1>5. CASE stalls[j] = 0
  <2>1. CASE rec.status = "running"
    <3>1. Life!Becomes(j, [status |-> "running", step |-> rec.step])  BY <1>2, <1>3, <2>1
    <3>2. Life!Runs(j) \/ Life!Advances(j)
      BY <1>3, <1>5, <2>1, <3>1, JobQueueAssumption DEF Life!Runs, Life!Advances
    <3>3. QED  BY <1>1, <3>2 DEF Life!LifeNext
  <2>2. CASE rec.status = "done"
    <3>1. Life!Becomes(j, [status |-> "done", step |-> FinalStep])  BY <1>2, <1>3, <2>2
    <3>2. Life!Settles(j)  BY <1>5, <2>2, <3>1 DEF Life!Settles
    <3>3. QED  BY <1>1, <3>2 DEF Life!LifeNext
  <2>3. CASE rec.status = "failed"
    <3>1. Life!Becomes(j, [status |-> "failed", step |-> rec.step])  BY <1>2, <1>3, <2>3
    <3>2. Life!Settles(j) \/ Life!Mutters(j)
      BY <1>3, <1>5, <2>3, <3>1 DEF Life!Settles, Life!Mutters
    <3>3. QED  BY <1>1, <3>2 DEF Life!LifeNext
  <2>4. QED  BY <2>1, <2>2, <2>3
<1>6. QED  BY <1>1, <1>4, <1>5

\* Of a job that was handed out once only the first activation does anything.
LEMMA FirstAttempt ==
    ASSUME IInv, NEW r \in Runs, stalls[JobOf(r)] = 0,
           run[r].pc # "none" \/ MayStillSave(run[r])
    PROVE  RecordOK(record[JobOf(r)], run[r])
<1>1. r = <<JobOf(r), 1>> \/ r = <<JobOf(r), 2>>  BY RunsOfJobs
<1>2. JobOf(r) \in Jobs /\ JobOK(JobOf(r)) /\ RunOK(run[r])  BY RunsOfJobs DEF IInv
<1>3. run[r].pc # "none"  BY <1>2 DEF RunOK
<1>4. r # <<JobOf(r), 2>>  BY <1>2, <1>3 DEF JobOK, AttemptOK
<1>5. QED  BY <1>1, <1>2, <1>4 DEF JobOK

LEMMA StartIsLife ==
    ASSUME IInv, NEW r \in Runs, Start(r)
    PROVE  Life!LifeNext \/ UNCHANGED Life!lifeVars
<1>1. UNCHANGED stalls  BY DEF Start, bullVars
<1>2. run[r] \in RunStates /\ RunOK(run[r]) /\ run[r].pc = "start"
  BY DEF IInv, TypeOK, Start
<1>3. InMemory(run[r]) = [status |-> "running", step |-> 0]
  BY <1>2 DEF InMemory, RunOK, Fresh
<1>4. CASE Saves(JobOf(r), InMemory(run[r]))
  <2>1. InMemory(run[r]) \in Life!Records  BY <1>3, JobQueueAssumption DEF Life!Records
  <2>2. stalls[JobOf(r)] = 0 => record[JobOf(r)].status = "queued"
    BY <1>2, FirstAttempt DEF RecordOK, Fresh
  <2>3. QED  BY <1>1, <1>3, <1>4, <2>1, <2>2, SaveIsLife, JobQueueAssumption
<1>5. CASE Lost  BY <1>1, <1>5 DEF Lost, Life!lifeVars
<1>6. QED  BY <1>4, <1>5 DEF Start

LEMMA SaveProgressIsLife ==
    ASSUME IInv, NEW r \in Runs, SaveProgress(r)
    PROVE  Life!LifeNext \/ UNCHANGED Life!lifeVars
<1>1. UNCHANGED stalls  BY DEF SaveProgress, bullVars
<1>2. run[r] \in RunStates /\ RunOK(run[r]) /\ MayStillSave(run[r])
  BY DEF IInv, TypeOK, SaveProgress, MayStillSave
<1>3. /\ run[r].status \in {"running", "failed"}
      /\ run[r].status = "running" => run[r].step <= MaxStep
      /\ run[r].step \in 0..FinalStep
  BY <1>2, JobQueueAssumption DEF RunOK, RunStates
<1>4. CASE Saves(JobOf(r), InMemory(run[r]))
  <2>1. /\ InMemory(run[r]) \in Life!Records
        /\ InMemory(run[r]).status = run[r].status
        /\ InMemory(run[r]).step = run[r].step
    BY <1>3 DEF Life!Records, InMemory
  <2>2. stalls[JobOf(r)] = 0 =>
             \/ record[JobOf(r)].status = "queued"
             \/ record[JobOf(r)].status = "running"
                  /\ (run[r].status = "running" => record[JobOf(r)].step <= run[r].step)
             \/ record[JobOf(r)].status = "failed" /\ run[r].status = "failed"
    BY <1>2, <1>3, FirstAttempt DEF RecordOK
  <2>3. QED  BY <1>1, <1>3, <1>4, <2>1, <2>2, SaveIsLife, JobQueueAssumption
<1>5. CASE Lost  BY <1>1, <1>5 DEF Lost, Life!lifeVars
<1>6. QED  BY <1>4, <1>5 DEF SaveProgress

LEMMA ConclusionIsLife ==
    ASSUME IInv, NEW r \in Runs, Fail(r) \/ Finish(r)
    PROVE  Life!LifeNext \/ UNCHANGED Life!lifeVars
<1>1. UNCHANGED stalls  BY DEF Fail, Finish, bullVars
<1>2. PICK status \in {"done", "failed"} : Concludes(r, status)  BY DEF Fail, Finish
<1>3. run[r].pc \in Working  BY DEF Fail, Finish, Working
<1> DEFINE rec == [status |-> status, step |-> FinalStep]
<1>4. CASE Saves(JobOf(r), rec)
  <2>1. rec \in Life!Records  BY JobQueueAssumption DEF Life!Records
  <2>2. stalls[JobOf(r)] = 0 => record[JobOf(r)].status \in {"queued", "running"}
    BY <1>3, FirstAttempt DEF RecordOK, Working
  <2>3. QED  BY <1>1, <1>4, <2>1, <2>2, SaveIsLife
<1>5. CASE Lost  BY <1>1, <1>5 DEF Lost, Life!lifeVars
<1>6. QED  BY <1>2, <1>4, <1>5 DEF Concludes

LEMMA StepIsLife ==
    ASSUME IInv, [Next]_vars
    PROVE  Life!LifeNext \/ UNCHANGED Life!lifeVars
<1>1. ASSUME UNCHANGED <<record, stalls>> PROVE UNCHANGED Life!lifeVars
  BY <1>1 DEF Life!lifeVars
<1>2. ASSUME NEW j \in Jobs, Submit(j) \/ SubmitFails(j) \/ AddFails(j)
      PROVE  Life!LifeNext \/ UNCHANGED Life!lifeVars
  <2>1. CASE SaveQueued(j)
    <3>1. record[j] = NoJob  BY <2>1 DEF IInv, JobOK, SubmitOK, SaveQueued
    <3>2. Life!Submitted(j)
      BY <2>1, <3>1 DEF SaveQueued, Life!Submitted, Life!Becomes, bullVars
    <3>3. QED  BY <3>2 DEF Life!LifeNext
  <2>2. CASE ~SaveQueued(j)
    <3>1. UNCHANGED <<record, stalls>>
      BY <1>2, <2>2 DEF Submit, Ticket, ZAdd, Add, Unlist, SubmitFails, AddFails,
                        redisVars, bullVars
    <3>2. QED  BY <1>1, <3>1
  <2>3. QED  BY <2>1, <2>2
<1>3. ASSUME NEW j \in Jobs, Take(j)
      PROVE  Life!LifeNext \/ UNCHANGED Life!lifeVars
  BY <1>1, <1>3 DEF Take, redisVars
<1>4. ASSUME NEW j \in Jobs, Stall(j)
      PROVE  Life!LifeNext \/ UNCHANGED Life!lifeVars
  <2>1. CASE stalls[j] = 0
    <3>1. stalls' = [stalls EXCEPT ![j] = 1] /\ UNCHANGED record
      BY <1>4, <2>1 DEF Stall, redisVars
    <3>2. {k \in Jobs : stalls'[k] = 1} = {k \in Jobs : stalls[k] = 1} \cup {j}
      BY <3>1 DEF IInv, TypeOK
    <3>3. Life!HandedOutAgain(j)  BY <2>1, <3>1, <3>2 DEF Life!HandedOutAgain
    <3>4. QED  BY <3>3 DEF Life!LifeNext
  <2>2. CASE stalls[j] # 0  BY <1>1, <1>4, <2>2 DEF Stall, redisVars
  <2>3. QED  BY <2>1, <2>2
<1>5. ASSUME NEW j \in Jobs, Expire(j)
      PROVE  Life!LifeNext \/ UNCHANGED Life!lifeVars
  <2>1. Life!Forgotten(j)  BY <1>5 DEF Expire, Life!Forgotten, Life!Becomes, bullVars
  <2>2. QED  BY <2>1 DEF Life!LifeNext
<1>6. ASSUME NEW r \in Runs,
             \/ Get(r) \/ ZRem(r) \/ SAdd(r) \/ SRem(r) \/ LPush(r) \/ LTrim(r) \/ Complete(r)
             \/ Progress(r) \/ HandlerEnds(r) \/ EndsUnheard(r) \/ TimeOut(r) \/ Throw(r)
      PROVE  Life!LifeNext \/ UNCHANGED Life!lifeVars
  <2>1. UNCHANGED <<record, stalls>>
    BY <1>6 DEF Get, ZRem, SAdd, SRem, LPush, LTrim, Complete, Progress, HandlerEnds,
                EndsUnheard, TimeOut, Throw, redisVars, bullVars
  <2>2. QED  BY <1>1, <2>1
<1>7. ASSUME NEW r \in Runs, Start(r) \/ SaveProgress(r) \/ Fail(r) \/ Finish(r)
      PROVE  Life!LifeNext \/ UNCHANGED Life!lifeVars
  BY <1>7, StartIsLife, SaveProgressIsLife, ConclusionIsLife
<1>8. CASE Crash \/ Idle \/ UNCHANGED vars
  BY <1>1, <1>8 DEF Crash, Idle, vars, redisVars, bullVars
<1>9. QED
  BY <1>2, <1>3, <1>4, <1>5, <1>6, <1>7, <1>8 DEF Next, Work

\* What a polling page sees of the queue is a life of the job: JobQueue
\* implements JobLife.
THEOREM QueueRefinesLife == Spec => LifeHolds
<1>1. Init => Life!LifeInit
  BY DEF Init, Life!LifeInit
<1>2. IInv /\ [Next]_vars => [Life!LifeNext]_(Life!lifeVars)
  BY StepIsLife
<1>3. QED  BY <1>1, <1>2, Invariance, PTL DEF Spec, LifeHolds, Life!LifeSpec

(* One pack at a time *)

IsPack(r) == Class[JobOf(r)] = "pack"

\* A handler nobody has given up on is the one its activation waits for.
HeardOrTimedOut(s) == s.live => s.pc = "handle" \/ s.verdict = "timeout"

PackInv ==
    /\ \A r \in Runs : HeardOrTimedOut(run[r])
    /\ \A r, s \in Runs : Busy(r) /\ Busy(s) /\ IsPack(r) /\ IsPack(s) => r = s

LEMMA NobodyBusy ==
    ASSUME NEW j \in Jobs, Class[j] = "pack", Take(j)
    PROVE  \A r \in Runs : ~(Busy(r) /\ IsPack(r))
<1> DEFINE B == {r \in Runs : Busy(r) /\ SameQueue(j, JobOf(r))}
<1>1. IsFiniteSet(B)
  <2>1. IsFiniteSet(Attempts)
    <3>1. IsFiniteSet({}) /\ Attempts = ({} \cup {1}) \cup {2}  BY FS_EmptySet DEF Attempts
    <3>2. QED  BY <3>1, FS_AddElement
  <2>2. IsFiniteSet(Runs)  BY <2>1, FS_Product, JobQueueAssumption DEF Runs
  <2>3. QED  BY <2>2, FS_Subset
<1>2. Cardinality(B) < 1  BY DEF Take, Concurrency
<1>3. Cardinality(B) = 0  BY <1>1, <1>2, FS_CardinalityType
<1>4. B = {}  BY <1>1, <1>3, FS_EmptySet
<1>5. QED  BY <1>4 DEF SameQueue, IsPack

\* A step that begins no activation.
LEMMA PackKept ==
    ASSUME PackInv, \A r \in Runs : Busy(r)' => Busy(r),
           \A r \in Runs : HeardOrTimedOut(run'[r])
    PROVE  PackInv'
  BY DEF PackInv, IsPack, HeardOrTimedOut

LEMMA PackStep == ASSUME IInv, PackInv, [Next]_vars  PROVE PackInv'
<1>1. run \in [Runs -> RunStates] /\ \A r \in Runs : RunOK(run[r])  BY DEF IInv, TypeOK
<1>2. ASSUME UNCHANGED run  PROVE PackInv'
  BY <1>2 DEF PackInv, Busy, IsPack, HeardOrTimedOut
<1>3. ASSUME NEW j \in Jobs, Submit(j) \/ SubmitFails(j) \/ AddFails(j) \/ Stall(j) \/ Expire(j)
      PROVE  PackInv'
  BY <1>2, <1>3 DEF Submit, Ticket, SaveQueued, ZAdd, Add, Unlist, SubmitFails, AddFails, Stall, Expire
<1>4. ASSUME NEW j \in Jobs, Take(j)  PROVE PackInv'
  <2>1. run' = [run EXCEPT ![Current(j)].pc = "get"]  BY <1>4 DEF Take
  <2>2. Current(j) \in Runs /\ run[Current(j)].pc = "none" /\ ~run[Current(j)].live
        /\ JobOf(Current(j)) = j
    <3>1. stalls[j] \in {0, 1} /\ bull[j] = "wait" /\ JobOK(j)  BY <1>4 DEF IInv, TypeOK, Take
    <3>2. Current(j) \in Runs /\ JobOf(Current(j)) = j  BY <3>1 DEF Current, Runs, Attempts, JobOf
    <3>3. run[Current(j)].pc = "none"  BY <3>1 DEF JobOK, AttemptOK
    <3>4. QED  BY <1>1, <3>2, <3>3 DEF RunOK, MayStillSave
  <2>3. /\ \A q \in Runs \ {Current(j)} : run'[q] = run[q]
        /\ ~run'[Current(j)].live
    BY <1>1, <2>1, <2>2 DEF RunStates
  <2>4. \A r \in Runs : HeardOrTimedOut(run'[r])
    BY <2>3 DEF PackInv, HeardOrTimedOut
  <2>5. ASSUME NEW r \in Runs, NEW s \in Runs, Busy(r)', Busy(s)', IsPack(r), IsPack(s)  PROVE r = s
    <3>1. CASE Class[j] = "pack"
      BY <1>4, <2>3, <2>5, <3>1, NobodyBusy DEF Busy
    <3>2. CASE Class[j] # "pack"
      <4>1. r # Current(j) /\ s # Current(j)  BY <2>2, <2>5, <3>2 DEF IsPack
      <4>2. QED  BY <2>3, <2>5, <4>1 DEF PackInv, Busy
    <3>3. QED  BY <3>1, <3>2
  <2>6. QED  BY <2>4, <2>5 DEF PackInv, IsPack
<1>5. ASSUME NEW r \in Runs, Get(r) \/ ZRem(r) \/ SAdd(r) \/ SRem(r) \/ LPush(r) \/ LTrim(r) \/ Complete(r) \/ Throw(r)
      PROVE  PackInv'
  <2>1. /\ \A q \in Runs \ {r} : run'[q] = run[q]
        /\ Busy(r) /\ run[r].pc # "handle"
        /\ run'[r].live = run[r].live /\ run'[r].verdict = run[r].verdict
    BY <1>1, <1>5 DEF Get, ZRem, SAdd, SRem, LPush, LTrim, Complete, Throw, Goes, Busy, RunStates
  <2>2. QED  BY <2>1, PackKept DEF PackInv, HeardOrTimedOut, Busy
<1>6. ASSUME NEW r \in Runs, Start(r) \/ Progress(r) \/ SaveProgress(r) \/ HandlerEnds(r) \/ EndsUnheard(r)
                             \/ TimeOut(r)
      PROVE  PackInv'
  <2> DEFINE Kept == /\ \A q \in Runs \ {r} : run'[q] = run[q]
                     /\ Busy(r)' => Busy(r)
                     /\ HeardOrTimedOut(run'[r])
  <2>0. HeardOrTimedOut(run[r])  BY DEF PackInv
  <2>1. ASSUME Start(r)  PROVE Kept
    BY <1>1, <2>1 DEF Start, Busy, RunStates, HeardOrTimedOut
  <2>2. ASSUME Progress(r)  PROVE Kept
    BY <1>1, <2>0, <2>2 DEF Progress, Busy, RunStates, HeardOrTimedOut
  <2>3. ASSUME SaveProgress(r)  PROVE Kept
    BY <1>1, <2>0, <2>3 DEF SaveProgress, Busy, RunStates, HeardOrTimedOut
  <2>4. ASSUME HandlerEnds(r)  PROVE Kept
    BY <1>1, <2>4 DEF HandlerEnds, Busy, RunStates, HeardOrTimedOut
  <2>5. ASSUME EndsUnheard(r)  PROVE Kept
    BY <1>1, <2>5 DEF EndsUnheard, Busy, RunStates, HeardOrTimedOut
  <2>6. ASSUME TimeOut(r)  PROVE Kept
    BY <1>1, <2>6 DEF TimeOut, Busy, RunStates, HeardOrTimedOut
  <2>7. Kept  BY <1>6, <2>1, <2>2, <2>3, <2>4, <2>5, <2>6
  <2>8. QED  BY <2>7, PackKept DEF PackInv, HeardOrTimedOut, Busy
<1>7. ASSUME NEW r \in Runs, Fail(r) \/ Finish(r)  PROVE PackInv'
  <2>1. PICK status, pc : run' = [run EXCEPT ![r].status = status, ![r].step = FinalStep, ![r].pc = pc]
    BY <1>7 DEF Fail, Finish, Concludes
  <2>2. /\ \A q \in Runs \ {r} : run'[q] = run[q]
        /\ Busy(r) /\ run[r].pc # "handle"
        /\ run'[r].live = run[r].live /\ run'[r].verdict = run[r].verdict
    BY <1>1, <1>7, <2>1 DEF Fail, Finish, Busy, RunStates
  <2>3. QED  BY <2>2, PackKept DEF PackInv, HeardOrTimedOut, Busy
<1>8. CASE Crash
  <2>1. \A r \in Runs : ~run'[r].live /\ (Busy(r)' => Busy(r))
    BY <1>1, <1>8 DEF Crash, NotRun, Busy
  <2>2. QED  BY <2>1, PackKept DEF HeardOrTimedOut
<1>9. CASE Idle \/ UNCHANGED vars  BY <1>2, <1>9 DEF Idle, vars
<1>10. QED  BY <1>3, <1>4, <1>5, <1>6, <1>7, <1>8, <1>9 DEF Next, Work

\* Packs take turns: two handlers of packs work at once only when one of them
\* was given up after its two hours (queue.js:9 and the timer of serve()).
THEOREM PacksTakeTurns == Spec => []PacksOverlapOnlyAfterTimeout
<1>1. Init => PackInv
  BY DEF Init, PackInv, HeardOrTimedOut, NotRun, Busy
<1>2. PackInv => PacksOverlapOnlyAfterTimeout
  BY DEF PackInv, PacksOverlapOnlyAfterTimeout, HeardOrTimedOut, Busy, IsPack
<1>3. QED  BY <1>1, <1>2, Invariance, PackStep, PTL DEF Spec

USE DEF NoJob, FinalStep, Life!NoJob, Life!QueuedJob, Life!FinalStep

\* Steps of submit(), of BullMQ and of the keys: no activation is touched.
LEMMA NoRunMoves ==
    ASSUME NEW k \in Jobs,
           Submit(k) \/ SubmitFails(k) \/ AddFails(k) \/ Stall(k) \/ Expire(k)
    PROVE  UNCHANGED <<run, durs>>
  BY DEF Submit, Ticket, SaveQueued, ZAdd, Add, Unlist, SubmitFails, AddFails, Stall, Expire,
         redisVars

\* An activation that has not taken its job off the list.
NotPastZRem(s) == s.pc \in {"none", "get", "zrem"} \/ s.cut \in {"get", "zrem"}

\* An activation that stands, or was broken off, between lpush and ltrim.
AtTrim(s) == "trim" \in {s.pc, s.cut}

\* A step of one activation keeps what the others are at.
LEMMA OthersStay ==
    ASSUME TypeOK, NEW r \in Runs, NEW s, run' = [run EXCEPT ![r] = s]
    PROVE  run'[r] = s /\ \A q \in Runs \ {r} : run'[q] = run[q]
  BY DEF TypeOK

\* An activation that began stays begun; it passes zrem only by taking its job
\* off the list, and leaves the place between lpush and ltrim only by ltrim.
Onward(q) == /\ run[q].pc # "none" => run'[q].pc # "none"
             /\ NotPastZRem(run[q]) => NotPastZRem(run'[q]) \/ JobOf(q) \notin queued'
             /\ AtTrim(run[q]) => AtTrim(run'[q]) \/ LTrim(q)

LEMMA RunsGoOnward ==
    ASSUME IInv, [Next]_vars, NEW q \in Runs
    PROVE  Onward(q)
<1>1. TypeOK /\ RunOK(run[q]) /\ run[q] \in RunStates /\ \A r \in Runs : run[r] \in RunStates
  BY DEF IInv, TypeOK
<1>2. CASE UNCHANGED run  BY <1>2 DEF Onward, NotPastZRem, AtTrim
<1>3. ASSUME NEW k \in Jobs, Take(k)  PROVE Onward(q)
  <2>1. run' = [run EXCEPT ![Current(k)].pc = "get"] /\ run[Current(k)].pc = "none"
    BY <1>3 DEF Take, IInv, JobOK, AttemptOK
  <2>2. run'[q].cut = run[q].cut /\ run'[q].pc \in {run[q].pc, "get"}
        /\ (run'[q].pc # run[q].pc => run[q].pc = "none")
    BY <1>1, <2>1 DEF TypeOK, RunStates
  <2>3. QED  BY <2>2 DEF Onward, NotPastZRem, AtTrim
<1>4. ASSUME NEW r \in Runs, Work(r) \/ Progress(r) \/ SaveProgress(r) \/ HandlerEnds(r)
                             \/ EndsUnheard(r) \/ TimeOut(r) \/ Throw(r)
      PROVE  Onward(q)
  <2>1. CASE q # r
    <3>1. \E s : run' = [run EXCEPT ![r] = s]
      BY <1>4 DEF Work, Get, ZRem, SAdd, Start, SRem, Fail, LPush, LTrim, Finish, Complete, Goes,
                  Concludes, Progress, SaveProgress, HandlerEnds, EndsUnheard, TimeOut, Throw
    <3>2. run'[q] = run[q]  BY <1>1, <2>1, <3>1, OthersStay
    <3>3. QED  BY <3>2 DEF Onward, NotPastZRem, AtTrim
  <2> SUFFICES ASSUME q = r  PROVE Onward(r)
    BY <2>1
  <2> USE <1>1
  <2>2. CASE Get(r)
    BY <2>2 DEF Get, Goes, TypeOK, RunStates, RunOK, Settled, Onward, NotPastZRem, AtTrim
  <2>3. CASE ZRem(r)
    BY <2>3 DEF ZRem, Goes, TypeOK, RunStates, RunOK, Settled, Onward, NotPastZRem, AtTrim
  <2>4. CASE SAdd(r)
    BY <2>4 DEF SAdd, Goes, TypeOK, RunStates, RunOK, Settled, Onward, NotPastZRem, AtTrim
  <2>5. CASE Start(r)
    BY <2>5 DEF Start, TypeOK, RunStates, RunOK, Settled, Onward, NotPastZRem, AtTrim
  <2>6. CASE SRem(r)
    BY <2>6 DEF SRem, TypeOK, RunStates, RunOK, Settled, Onward, NotPastZRem, AtTrim
  <2>7. CASE Fail(r)
    BY <2>7 DEF Fail, Concludes, TypeOK, RunStates, RunOK, Settled, Onward, NotPastZRem, AtTrim
  <2>8. CASE LPush(r)
    BY <2>8 DEF LPush, Goes, TypeOK, RunStates, RunOK, Settled, Onward, NotPastZRem, AtTrim
  <2>9. CASE LTrim(r)
    BY <2>9 DEF LTrim, Goes, TypeOK, RunStates, RunOK, Settled, Onward, NotPastZRem, AtTrim
  <2>10. CASE Finish(r)
    BY <2>10 DEF Finish, Concludes, TypeOK, RunStates, RunOK, Settled, Onward, NotPastZRem, AtTrim
  <2>11. CASE Complete(r)
    BY <2>11 DEF Complete, TypeOK, RunStates, RunOK, Settled, Onward, NotPastZRem, AtTrim
  <2>12. CASE Progress(r)
    <3>1. run'[r].pc = run[r].pc /\ run'[r].cut = run[r].cut
      BY <2>12 DEF Progress, TypeOK, RunStates
    <3>2. QED  BY <3>1 DEF Onward, NotPastZRem, AtTrim
  <2>13. CASE SaveProgress(r)
    BY <2>13 DEF SaveProgress, TypeOK, RunStates, Onward, NotPastZRem, AtTrim
  <2>14. CASE HandlerEnds(r)
    BY <2>14 DEF HandlerEnds, TypeOK, RunStates, RunOK, Settled, Onward, NotPastZRem, AtTrim
  <2>15. CASE EndsUnheard(r) \/ TimeOut(r)
    BY <2>15 DEF EndsUnheard, TimeOut, TypeOK, RunStates, RunOK, Settled, Onward, NotPastZRem, AtTrim
  <2>16. CASE Throw(r)
    BY <2>16 DEF Throw, TypeOK, RunStates, RunOK, Settled, Onward, NotPastZRem, AtTrim
  <2>17. QED
    BY <1>4, <2>2, <2>3, <2>4, <2>5, <2>6, <2>7, <2>8, <2>9, <2>10, <2>11, <2>12, <2>13, <2>14,
       <2>15, <2>16 DEF Work
<1>5. CASE Crash
  <2>1. run'[q].cut = IF Busy(q) /\ run[q].cut = "none" THEN run[q].pc ELSE run[q].cut
    BY <1>5 DEF Crash, NotRun
  <2>2. run'[q].pc = CASE ~Busy(q) -> run[q].pc
                       [] Busy(q) /\ q = Current(JobOf(q)) -> "dead"
                       [] OTHER -> "over"
    BY <1>5 DEF Crash, NotRun
  <2>3. QED  BY <1>1, <2>1, <2>2 DEF Busy, RunOK, Settled, Onward, NotPastZRem, AtTrim
<1>6. UNCHANGED vars \/ Idle => UNCHANGED run  BY DEF vars, Idle
<1>7. QED  BY <1>2, <1>3, <1>4, <1>5, <1>6, NoRunMoves DEF Next

(* What is left on the list *)

\* A listed job was listed by its submit() and no activation of it is past
\* zrem; a job BullMQ has taken has an activation.
Listed(j) == /\ j \in queued => /\ sub[j] \notin {"new", "ticketed", "saved", "refused"}
                                /\ \A a \in Attempts : NotPastZRem(run[<<j, a>>])
             /\ bull[j] \notin {"none", "wait"} => run[Current(j)].pc # "none"

ListInv == \A j \in Jobs : Listed(j)

LEMMA ListStep ==
    ASSUME IInv, ListInv, [Next]_vars
    PROVE  ListInv'
<1> SUFFICES ASSUME NEW j \in Jobs  PROVE Listed(j)'
  BY DEF ListInv
<1>0. /\ Listed(j) /\ TypeOK /\ JobOK(j) /\ stalls[j] \in {0, 1}
      /\ \A a \in Attempts : <<j, a>> \in Runs /\ Onward(<<j, a>>) /\ JobOf(<<j, a>>) = j
      /\ Current(j) \in Runs
  BY RunsGoOnward DEF ListInv, IInv, TypeOK, Runs, JobOf, Current, Attempts
<1>1. ASSUME j \in queued, j \in queued', sub'[j] \notin {"new", "ticketed", "saved", "refused"},
             stalls'[j] = stalls[j], bull'[j] \in {"none", "wait"} \/ bull[j] \notin {"none", "wait"}
      PROVE  Listed(j)'
  BY <1>0, <1>1 DEF Listed, Onward, Current, Attempts
<1>2. ASSUME j \notin queued', stalls'[j] = stalls[j],
             bull'[j] \in {"none", "wait"} \/ bull[j] \notin {"none", "wait"}
      PROVE  Listed(j)'
  BY <1>0, <1>2 DEF Listed, Onward, Current, Attempts
<1>3. CASE UNCHANGED <<sub, queued, stalls, bull>>
  BY <1>0, <1>1, <1>2, <1>3 DEF Listed
<1>4. ASSUME NEW k \in Jobs, k # j, Submit(k) \/ SubmitFails(k) \/ AddFails(k) \/ Take(k) \/ Stall(k)
      PROVE  Listed(j)'
  <2>1. /\ sub'[j] = sub[j] /\ (j \in queued <=> j \in queued')
        /\ stalls'[j] = stalls[j] /\ bull'[j] = bull[j]
    BY <1>0, <1>4 DEF Submit, Ticket, SaveQueued, ZAdd, Add, Unlist, SubmitFails, AddFails, Take,
                 Stall, submitVars, redisVars, bullVars, TypeOK
  <2>2. QED  BY <1>0, <1>1, <1>2, <2>1 DEF Listed
<1>5. ASSUME Submit(j) \/ SubmitFails(j) \/ AddFails(j)  PROVE Listed(j)'
  <2>1. sub[j] # "added"
    BY <1>5 DEF Submit, Ticket, SaveQueued, ZAdd, Add, Unlist, SubmitFails, AddFails
  <2>2. \A a \in Attempts : run[<<j, a>>].pc = "none" /\ run'[<<j, a>>].pc = "none"
    BY <1>5, <2>1, NotYetAdded, NoRunMoves
  <2>3. bull'[j] \in {"none", "wait"}
    BY <1>0, <1>5, <2>1, NotYetAdded
       DEF Submit, Ticket, SaveQueued, ZAdd, Add, Unlist, SubmitFails, AddFails, bullVars, TypeOK
  <2>4. j \in queued' => sub'[j] \notin {"new", "ticketed", "saved", "refused"}
    BY <1>0, <1>5 DEF Listed, Submit, Ticket, SaveQueued, ZAdd, Add, Unlist, SubmitFails, AddFails,
                      submitVars, redisVars, TypeOK
  <2>5. QED  BY <2>2, <2>3, <2>4 DEF Listed, NotPastZRem
<1>6. CASE Take(j)
  <2>1. /\ run' = [run EXCEPT ![Current(j)].pc = "get"] /\ UNCHANGED <<sub, queued, stalls>>
    BY <1>6 DEF Take, submitVars, redisVars
  <2>2. run'[Current(j)'].pc = "get"
    BY <1>0, <2>1 DEF TypeOK, RunStates, Current
  <2>3. QED  BY <1>0, <2>1, <2>2 DEF Listed, Onward
<1>7. CASE Stall(j)
  <2>1. /\ bull'[j] = "wait" \/ (bull'[j] = "failed" /\ stalls'[j] = stalls[j])
        /\ bull[j] = "active" /\ UNCHANGED <<sub, queued, run>>
    BY <1>0, <1>7 DEF Stall, submitVars, redisVars, TypeOK
  <2>2. QED  BY <1>0, <2>1 DEF Listed, Onward, Current
<1>8. ASSUME NEW r \in Runs, ZRem(r)  PROVE Listed(j)'
  <2>1. queued' = queued \ {JobOf(r)} /\ UNCHANGED <<sub, stalls, bull>>
    BY <1>8 DEF ZRem, submitVars, bullVars
  <2>2. QED  BY <1>0, <1>1, <1>2, <2>1 DEF Listed
<1>9. ASSUME NEW r \in Runs, Complete(r)  PROVE Listed(j)'
  <2>1. /\ UNCHANGED <<sub, queued, stalls>>
        /\ bull'[j] = bull[j] \/ bull[j] = "active"
    BY <1>0, <1>9 DEF Complete, submitVars, redisVars, TypeOK
  <2>2. QED  BY <1>0, <1>1, <1>2, <2>1 DEF Listed
<1>10. CASE Crash
  <2>1. UNCHANGED <<queued, stalls, bull>> /\ sub'[j] \in {"cut", sub[j]}
    BY <1>0, <1>10 DEF Crash, redisVars, bullVars, TypeOK
  <2>2. QED  BY <1>0, <1>1, <1>2, <2>1 DEF Listed
<1>11. ASSUME NEW r \in Runs, \/ Get(r) \/ SAdd(r) \/ Start(r) \/ SRem(r) \/ Fail(r) \/ LPush(r) \/ LTrim(r)
                              \/ Finish(r) \/ Progress(r) \/ SaveProgress(r) \/ HandlerEnds(r)
                              \/ EndsUnheard(r) \/ TimeOut(r) \/ Throw(r)
       PROVE  UNCHANGED <<sub, queued, stalls, bull>>
  BY <1>11 DEF Get, SAdd, Start, SRem, Fail, LPush, LTrim, Finish, Concludes, Progress, SaveProgress,
     HandlerEnds, EndsUnheard, TimeOut, Throw, submitVars, redisVars, bullVars
<1>12. ASSUME Idle \/ UNCHANGED vars \/ \E k \in Jobs : Expire(k)
       PROVE  UNCHANGED <<sub, queued, stalls, bull>>
  BY <1>12 DEF Idle, vars, Expire, submitVars, bullVars
<1>13. QED
  BY <1>3, <1>4, <1>5, <1>6, <1>7, <1>8, <1>9, <1>10, <1>11, <1>12 DEF Next, Work

\* An entry that stays behind on the list of queued jobs, where every later
\* position of the class would count it, was left there by what happened to its
\* own submission or its own last attempt (submit, zadd before add and the
\* catch block; serve, zrem before anything else is done).
THEOREM PhantomsAreExplained == Spec => []PhantomsHaveACause
<1>1. Init => ListInv
  BY DEF Init, ListInv, Listed
<1>2. IInv /\ ListInv => PhantomsHaveACause
  <2> SUFFICES ASSUME IInv, ListInv, NEW j \in queued,
                      ~InFlight(j), bull[j] \notin {"wait", "active"}
               PROVE  PhantomCause(j)
    BY DEF PhantomsHaveACause
  <2>1. j \in Jobs /\ TypeOK /\ Listed(j) /\ SubmitOK(j)  BY DEF IInv, TypeOK, ListInv, JobOK
  <2>2. sub[j] \in {"added", "left", "cut"}  BY <2>1 DEF TypeOK, Listed, InFlight
  <2>3. CASE sub[j] = "added"
    <3>1. run[Current(j)].pc # "none"  BY <2>1, <2>3 DEF SubmitOK, Listed
    <3>2. NotPastZRem(run[Current(j)])  BY <2>1 DEF Listed, Current, TypeOK, Attempts
    <3>3. QED  BY <2>3, <3>1, <3>2 DEF PhantomCause, NotPastZRem
  <2>4. QED  BY <2>2, <2>3 DEF PhantomCause
<1>3. QED  BY <1>1, <1>2, Invariance, ListStep, PTL DEF Spec

(* The history of durations *)

LEMMA RunsFinite == IsFiniteSet(Runs)
<1>1. Attempts = 1..2  BY DEF Attempts
<1>2. IsFiniteSet(1..2)
  <2>1. 1 \in Int /\ 2 \in Int  OBVIOUS
  <2>2. QED  BY <2>1, FS_Interval
<1>3. QED  BY <1>1, <1>2, FS_Product, JobQueueAssumption DEF Runs

LEMMA UntrimmedCounts ==
    ASSUME NEW c \in Classes
    PROVE  /\ IsFiniteSet(Untrimmed(c)) /\ Cardinality(Untrimmed(c)) \in Nat
           /\ IsFiniteSet(Untrimmed(c)') /\ Cardinality(Untrimmed(c)') \in Nat
<1>1. Untrimmed(c) \subseteq Runs /\ Untrimmed(c)' \subseteq Runs  BY DEF Untrimmed
<1>2. QED  BY <1>1, RunsFinite, FS_Subset, FS_CardinalityType

LEMMA HistoryStep ==
    ASSUME IInv, HistoryIsTrimmed, [Next]_vars
    PROVE  HistoryIsTrimmed'
<1> SUFFICES ASSUME NEW c \in Classes
             PROVE  durs'[c] <= MaxHistory + Cardinality(Untrimmed(c)')
  BY DEF HistoryIsTrimmed
<1>0. /\ TypeOK /\ durs[c] \in Nat /\ MaxHistory \in Nat
      /\ durs[c] <= MaxHistory + Cardinality(Untrimmed(c))
  BY JobQueueAssumption DEF IInv, TypeOK, HistoryIsTrimmed
<1>1. CASE \E r \in Runs : LTrim(r) /\ Class[JobOf(r)] = c
  <2>1. durs'[c] \in Nat /\ durs'[c] <= MaxHistory
    BY <1>0, <1>1 DEF LTrim, TypeOK
  <2>2. QED  BY <1>0, <2>1, UntrimmedCounts
<1>2. CASE ~\E r \in Runs : LTrim(r) /\ Class[JobOf(r)] = c
  <2>1. Untrimmed(c) \subseteq Untrimmed(c)'
    <3>1. \A q \in Runs : Onward(q)  BY RunsGoOnward
    <3>2. QED  BY <1>2, <3>1 DEF Untrimmed, Onward, AtTrim
  <2>2. Cardinality(Untrimmed(c)) <= Cardinality(Untrimmed(c)')
    BY <2>1, UntrimmedCounts, FS_Subset
  <2>3. CASE durs'[c] = durs[c]  BY <1>0, <2>2, <2>3, UntrimmedCounts
  <2>4. CASE \E r \in Runs : LPush(r) /\ Class[JobOf(r)] = c
    <3>1. PICK r \in Runs : LPush(r) /\ Class[JobOf(r)] = c  BY <2>4
    <3>2. durs'[c] = durs[c] + 1  BY <1>0, <3>1 DEF LPush, TypeOK
    <3>3. r \notin Untrimmed(c) /\ r \in Untrimmed(c)'
      BY <3>1 DEF IInv, RunOK, Settled, LPush, Goes, TypeOK, RunStates, Untrimmed
    <3>4. Cardinality(Untrimmed(c)) < Cardinality(Untrimmed(c)')
      BY <2>1, <3>3, UntrimmedCounts, FS_Subset
    <3>5. QED  BY <1>0, <3>2, <3>4, UntrimmedCounts
  <2>5. ASSUME NEW r \in Runs, LPush(r) \/ LTrim(r), Class[JobOf(r)] # c
        PROVE  durs'[c] = durs[c]
    BY <1>0, <2>5 DEF LPush, LTrim, TypeOK
  <2>6. ASSUME NEW r \in Runs, \/ Get(r) \/ ZRem(r) \/ SAdd(r) \/ Start(r) \/ SRem(r) \/ Fail(r)
                               \/ Finish(r) \/ Complete(r) \/ Progress(r) \/ SaveProgress(r)
                               \/ HandlerEnds(r) \/ EndsUnheard(r) \/ TimeOut(r) \/ Throw(r)
        PROVE  durs' = durs
    BY <2>6 DEF Get, ZRem, SAdd, Start, SRem, Fail, Finish, Complete, Concludes, Progress,
       SaveProgress, HandlerEnds, EndsUnheard, TimeOut, Throw, redisVars
  <2>7. (\E k \in Jobs : Take(k)) \/ Crash \/ Idle \/ UNCHANGED vars => durs' = durs
    BY DEF Take, Crash, Idle, vars, redisVars
  <2>8. QED
    BY <1>2, <2>3, <2>4, <2>5, <2>6, <2>7, NoRunMoves DEF Next, Work
<1>3. QED  BY <1>1, <1>2

\* The durations kept for a class pass their bound by no more than the runs
\* that stand, or were broken off, between lpush and ltrim (queue.js:160-161),
\* for any number of workers, attempts and faults.
THEOREM HistoryStaysTrimmed == Spec => []HistoryIsTrimmed
<1>1. Init => HistoryIsTrimmed
  <2> SUFFICES ASSUME Init, NEW c \in Classes
               PROVE  durs[c] <= MaxHistory + Cardinality(Untrimmed(c))
    BY DEF HistoryIsTrimmed
  <2>1. durs[c] = 0  BY DEF Init
  <2>2. QED  BY <2>1, UntrimmedCounts, JobQueueAssumption
<1>2. QED  BY <1>1, Invariance, HistoryStep, PTL DEF Spec
===============================================================================
