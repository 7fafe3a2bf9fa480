--------------------------- MODULE JobQueueProofs ---------------------------
(***************************************************************************)
(* Proofs of the safety properties of JobQueue for any number of jobs,     *)
(* executors, attempts and retries of dead letters.                        *)
(*                                                                         *)
(* The argument: a job an executor holds is in the table with a status     *)
(* claim_next does not look for (HeldIsTaken), whatever cancelling callers *)
(* write over it, and only its holder can give it such a status again.  So *)
(* nobody else claims it (OneExecutorPerJob) or moves it between tables,   *)
(* and the attempts its holder counts are never fewer than its handler's   *)
(* runs (RunsCounted).                                                     *)
(***************************************************************************)
EXTENDS JobQueue, TLAPS

(* A job is stored and cancelled under its own id; an executor that works  *)
(* has a job.                                                              *)
IdsMatch ==
    /\ \A j \in Jobs : Present(j) => jobs[j].id = j
    /\ \A j \in Jobs : toCancel[j] # NoJob => toCancel[j].id = j
    /\ \A w \in Workers : stage[w] \in {"running", "dead_letter"} => copy[w] \in Job

(* What an executor holds is not a candidate of claim_next. *)
HeldIsTaken ==
    \A w \in Workers : \A j \in Jobs :
        Holds(w, j) => Present(j) /\ jobs[j].status \in {"Running", "DeadLettered", "Cancelled"}

(* A job is in one of the tables, and no dead letter is a deleted one. *)
TablesDisjoint ==
    /\ \A j \in Jobs : Present(j) => j \notin deadLetters \cup deleted
    /\ deadLetters \cap deleted = {}
    /\ \A j \in Jobs : runs[j] > 0 => Present(j) \/ j \in deadLetters \cup deleted

(* How often a handler may run before a caller requeues the job. *)
MaxRuns(j) == IF MaxAttempts[j] = 0 THEN 1 ELSE MaxAttempts[j]

(* Attempts are counted before the runs they stand for. *)
RunsCounted ==
    /\ \A j \in Jobs : runs[j] <= MaxRuns(j)
    /\ \A j \in Jobs : Present(j) /\ jobs[j].status = "Pending" =>
           runs[j] = 0 /\ jobs[j].attempt = 0
    /\ \A j \in Jobs : Present(j) /\ jobs[j].status = "Failed" =>
           runs[j] <= jobs[j].attempt /\ jobs[j].attempt < MaxAttempts[j]
    /\ \A w \in Workers : stage[w] = "running" =>
           runs[copy[w].id] < copy[w].attempt /\ copy[w].attempt <= MaxRuns(copy[w].id)

(* A job that succeeded is finished and nobody works on it. *)
SuccessIsFinal ==
    \A j \in Jobs :
        /\ successes[j] <= 1
        /\ successes[j] > 0 =>
               /\ Present(j) /\ jobs[j].status \in {"Completed", "Cancelled"}
               /\ \A w \in Workers : ~Holds(w, j)

JobInv ==
    /\ TypeOK
    /\ IdsMatch
    /\ HeldIsTaken
    /\ OneExecutorPerJob
    /\ TablesDisjoint
    /\ RunsCounted
    /\ SuccessIsFinal

-----------------------------------------------------------------------------
(* Lemmas *)

(* No record stands for an absent job. *)
LEMMA NoJobIsNoJob == NoJob \notin Job
  BY JobQueueAssumption DEF NoJob, Job, NoId

(***************************************************************************)
(* mark_running and mark_failed keep the id; a job that failed has         *)
(* attempts left, and a job that does not fail is given up.                *)
(***************************************************************************)
LEMMA MarkedJob ==
    ASSUME NEW job \in Job
    PROVE  /\ MarkRunning(job) \in Job
           /\ MarkRunning(job).id = job.id
           /\ MarkRunning(job).status = "Running"
           /\ MarkRunning(job).attempt = job.attempt + 1
           /\ MarkFailed(job) \in Job
           /\ MarkFailed(job).id = job.id
           /\ MarkFailed(job).attempt = job.attempt
           /\ MarkFailed(job).status \in {"Failed", "DeadLettered"}
           /\ MarkFailed(job).status = "Failed" => job.attempt < MaxAttempts[job.id]
           /\ MarkCancelled(job) \in Job
           /\ MarkCancelled(job).id = job.id
           /\ MarkCancelled(job).status = "Cancelled"
  <1>1. job.attempt \in Nat /\ job.status \in Statuses /\ job.id \in Jobs /\ job.due \in BOOLEAN
    BY DEF Job
  <1>2. /\ MarkRunning(job) \in Job
        /\ MarkRunning(job).id = job.id
        /\ MarkRunning(job).status = "Running"
        /\ MarkRunning(job).attempt = job.attempt + 1
    <2>1. PICK n \in Nat : n = job.attempt + 1
      BY <1>1
    <2>2. MarkRunning(job) = [job EXCEPT !.status = "Running", !.attempt = n]
      BY <2>1 DEF MarkRunning
    <2> QED
      BY <2>1, <2>2 DEF Job, Statuses
  <1>3. /\ MarkCancelled(job) \in Job
        /\ MarkCancelled(job).id = job.id
        /\ MarkCancelled(job).status = "Cancelled"
    BY DEF Job, Statuses, MarkCancelled
  <1>4. CASE ShouldRetry(job)
    BY <1>2, <1>3, <1>4 DEF Job, Statuses, MarkFailed, ShouldRetry
  <1>5. CASE ~ShouldRetry(job)
    BY <1>2, <1>3, <1>5 DEF Job, Statuses, MarkFailed
  <1> QED
    BY <1>4, <1>5

(***************************************************************************)
(* The copy an executor stores when its handler has returned.              *)
(***************************************************************************)
LEMMA HandledJob ==
    ASSUME NEW job \in Job, NEW result \in Results
    PROVE  LET after == AfterHandler(job, result) IN
           /\ after \in Job
           /\ after.id = job.id
           /\ after.attempt = job.attempt
           /\ result = "Success" => after.status = "Completed"
           /\ result # "Success" => after.status \in {"Failed", "DeadLettered"}
           /\ after.status = "Failed" => job.attempt < MaxAttempts[job.id]
  <1>1. result \in {"Success", "Failure", "RetryNow", "RetryAfter"}
    BY JobQueueAssumption
  <1>2. CASE result = "Success"
    BY <1>2 DEF AfterHandler, MarkCompleted, Job, Statuses
  <1>3. CASE result = "Failure"
    BY <1>3, MarkedJob DEF AfterHandler
  <1>4. CASE result \in {"RetryNow", "RetryAfter"}
    <2>1. PICK due \in BOOLEAN :
              AfterHandler(job, result) = [MarkFailed(job) EXCEPT !.due = due]
      BY <1>4 DEF AfterHandler
    <2> QED
      BY <1>4, <2>1, MarkedJob DEF Job
  <1> QED
    BY <1>1, <1>2, <1>3, <1>4

-----------------------------------------------------------------------------
(* Nothing has happened to any job. *)
LEMMA InitInv == Init => JobInv
  <1> SUFFICES ASSUME Init PROVE JobInv
    OBVIOUS
  <1>1. TypeOK
    BY DEF Init, TypeOK, Stages
  <1>2. IdsMatch /\ HeldIsTaken /\ OneExecutorPerJob
    BY DEF Init, IdsMatch, HeldIsTaken, OneExecutorPerJob, Holds, Present
  <1>3. TablesDisjoint /\ RunsCounted /\ SuccessIsFinal
    BY JobQueueAssumption
       DEF Init, TablesDisjoint, RunsCounted, SuccessIsFinal, MaxRuns, Present
  <1> QED
    BY <1>1, <1>2, <1>3 DEF JobInv

(***************************************************************************)
(* A step that changes neither the executors nor what they hold, and only  *)
(* puts a job j into the table or replaces it, keeps the invariant if what *)
(* it writes is not claimable while somebody holds j.                      *)
(***************************************************************************)
LEMMA CallerStep ==
    ASSUME JobInv, NEW j \in Jobs, NEW job \in Job, job.id = j,
           jobs' = [jobs EXCEPT ![j] = job],
           TypeOK',
           UNCHANGED <<stage, copy, deleted, successes>>,
           \A i \in Jobs : toCancel'[i] \in {toCancel[i], NoJob},
           deadLetters' = deadLetters \ {j}, j \notin deleted,
           j \in deadLetters \/ UNCHANGED deadLetters,
           \A i \in Jobs : runs'[i] <= runs[i] /\ (i # j => runs'[i] = runs[i]),
           ~Present(j) \/ job.status = "Cancelled"
               \/ (job.status = jobs[j].status /\ job.attempt = jobs[j].attempt
                     /\ job.status \in {"Pending", "Failed"}),
           job.status = "Pending" => runs'[j] = 0 /\ job.attempt = 0,
           job.status \in {"Pending", "Failed", "Cancelled"},
           job.status = "Failed" => Present(j)
    PROVE  JobInv'
  <1> USE NoJobIsNoJob DEF JobInv, Present
  <1>1. jobs \in [Jobs -> Job \cup {NoJob}] /\ jobs'[j] = job /\ job # NoJob
        /\ \A i \in Jobs : i # j => jobs'[i] = jobs[i]
    BY DEF TypeOK
  <1>2. \A v \in Workers : \A i \in Jobs : Holds(v, i)' <=> Holds(v, i)
    BY DEF Holds
  <1>3. IdsMatch'
    BY <1>1 DEF IdsMatch
  <1>4. HeldIsTaken'
    BY <1>1, <1>2 DEF HeldIsTaken
  <1>5. OneExecutorPerJob'
    BY <1>2 DEF OneExecutorPerJob
  <1>6. runs \in [Jobs -> Nat] /\ runs' \in [Jobs -> Nat]
    BY DEF TypeOK
  <1>7. TablesDisjoint'
    BY <1>1, <1>6 DEF TablesDisjoint
  <1>8. RunsCounted'
    <2>1. \A i \in Jobs : MaxRuns(i) \in Nat
      BY JobQueueAssumption DEF MaxRuns
    <2>2. \A i \in Jobs : runs'[i] <= MaxRuns(i)
      BY <1>6, <2>1 DEF RunsCounted
    <2>3. \A i \in Jobs : jobs'[i] # NoJob /\ jobs'[i].status = "Pending" =>
              runs'[i] = 0 /\ jobs'[i].attempt = 0
      BY <1>1 DEF RunsCounted
    <2>4. \A i \in Jobs : jobs'[i] # NoJob /\ jobs'[i].status = "Failed" =>
              runs'[i] <= jobs'[i].attempt /\ jobs'[i].attempt < MaxAttempts[i]
      <3> SUFFICES ASSUME NEW i \in Jobs, jobs'[i] # NoJob, jobs'[i].status = "Failed"
                   PROVE  runs'[i] <= jobs'[i].attempt /\ jobs'[i].attempt < MaxAttempts[i]
        OBVIOUS
      <3>1. jobs[i] # NoJob /\ jobs[i].status = "Failed" /\ jobs'[i].attempt = jobs[i].attempt
        BY <1>1
      <3>2. runs[i] <= jobs[i].attempt /\ jobs[i].attempt < MaxAttempts[i]
        BY <3>1 DEF RunsCounted
      <3>3. jobs[i].attempt \in Nat
        BY <1>1, <3>1 DEF Job
      <3> QED
        BY <1>6, <3>1, <3>2, <3>3
    <2>5. ASSUME NEW w \in Workers, stage'[w] = "running"
          PROVE  runs'[copy'[w].id] < copy'[w].attempt
                 /\ copy'[w].attempt <= MaxRuns(copy'[w].id)
      <3>1. copy[w] \in Job
        BY <2>5 DEF IdsMatch
      <3>2. copy[w].id \in Jobs /\ copy[w].attempt \in Nat
        BY <3>1 DEF Job
      <3> QED
        BY <1>6, <2>5, <3>2 DEF RunsCounted
    <2> QED
      BY <2>2, <2>3, <2>4, <2>5 DEF RunsCounted
  <1>9. SuccessIsFinal'
    BY <1>1, <1>2 DEF SuccessIsFinal, TablesDisjoint
  <1> QED
    BY <1>3, <1>4, <1>5, <1>7, <1>8, <1>9

(***************************************************************************)
(* The executor that holds a job puts it back: finished, failed or given   *)
(* up, and keeps it only to move it to the dead letters.                   *)
(***************************************************************************)
LEMMA StoreStep ==
    ASSUME JobInv, NEW w \in Workers, stage[w] = "running",
           NEW job \in Job, job.id = copy[w].id,
           NEW exhausted \in BOOLEAN, exhausted => job.status = "DeadLettered",
           Store(w, job, exhausted)
    PROVE  /\ jobs' = [jobs EXCEPT ![job.id] = job]
           /\ jobs[job.id] # NoJob
           /\ stage' \in [Workers -> Stages] /\ copy' \in [Workers -> Job \cup {NoJob}]
           /\ \A v \in Workers : stage'[v] \in {"running", "dead_letter"} => copy'[v] \in Job
           /\ \A v \in Workers : stage'[v] = "running" =>
                  v # w /\ stage[v] = "running" /\ copy'[v] = copy[v]
           /\ \A v \in Workers : \A i \in Jobs : Holds(v, i)' =>
                  Holds(v, i) /\ (i = job.id => job.status = "DeadLettered")
           /\ job.status \in {"Completed", "Failed"} => \A v \in Workers : ~Holds(v, job.id)'
  <1> USE NoJobIsNoJob DEF JobInv
  <1>1. job.id \in Jobs
    BY DEF Job
  <1>2. Holds(w, job.id)
    BY DEF Holds
  <1>3. Present(job.id)
    BY <1>1, <1>2 DEF HeldIsTaken
  <1>4. jobs' = [jobs EXCEPT ![job.id] = job]
    BY <1>3 DEF Store
  <1>5. \A v \in Workers : Holds(v, job.id) => v = w
    BY <1>1, <1>2 DEF OneExecutorPerJob
  <1>6. stage \in [Workers -> Stages] /\ copy \in [Workers -> Job \cup {NoJob}]
    BY DEF TypeOK
  <1>7. CASE exhausted
    <2>1. /\ stage' = [stage EXCEPT ![w] = "dead_letter"]
          /\ copy' = [copy EXCEPT ![w] = job]
      BY <1>3, <1>7 DEF Store
    <2>2. stage' \in [Workers -> Stages] /\ copy' \in [Workers -> Job \cup {NoJob}]
      BY <1>6, <2>1 DEF Stages
    <2>3. \A v \in Workers : v # w => stage'[v] = stage[v] /\ copy'[v] = copy[v]
      BY <1>6, <2>1
    <2>4. stage'[w] = "dead_letter" /\ copy'[w] = job
      BY <1>6, <2>1
    <2> QED
      BY <1>2, <1>3, <1>4, <1>7, <2>2, <2>3, <2>4 DEF Holds, IdsMatch, Present
  <1>8. CASE ~exhausted
    <2>1. /\ stage' = [stage EXCEPT ![w] = "idle"]
          /\ copy' = [copy EXCEPT ![w] = NoJob]
      BY <1>8 DEF Store, Drop
    <2>2. stage' \in [Workers -> Stages] /\ copy' \in [Workers -> Job \cup {NoJob}]
      BY <1>6, <2>1 DEF Stages
    <2>3. \A v \in Workers : v # w => stage'[v] = stage[v] /\ copy'[v] = copy[v]
      BY <1>6, <2>1
    <2>4. stage'[w] = "idle"
      BY <1>6, <2>1
    <2>5. \A v \in Workers : ~Holds(v, job.id)'
      BY <1>5, <2>3, <2>4 DEF Holds
    <2> QED
      BY <1>3, <1>4, <2>2, <2>3, <2>4, <2>5 DEF Holds, IdsMatch, Present
  <1> QED
    BY <1>7, <1>8

(***************************************************************************)
(* So the invariant survives whatever the executor stores, if the attempts *)
(* it stores cover the runs it made.                                       *)
(***************************************************************************)
LEMMA StoreInv ==
    ASSUME JobInv, NEW w \in Workers, stage[w] = "running",
           NEW job \in Job, job.id = copy[w].id,
           NEW exhausted \in BOOLEAN, exhausted => job.status = "DeadLettered",
           Store(w, job, exhausted),
           job.status \in {"Completed", "Failed", "DeadLettered"},
           job.status = "Failed" => job.attempt < MaxAttempts[job.id],
           UNCHANGED <<deadLetters, toCancel, requeues, deleted>>,
           copy[w].attempt <= job.attempt,
           runs' \in [Jobs -> Nat], \A i \in Jobs : i # job.id => runs'[i] = runs[i],
           runs'[job.id] <= runs[job.id] + 1,
           successes' \in [Jobs -> Nat],
           \A i \in Jobs : i # job.id => successes'[i] = successes[i],
           successes'[job.id] <= successes[job.id] + 1,
           successes'[job.id] > successes[job.id] => job.status = "Completed"
    PROVE  JobInv'
  <1> DEFINE j == job.id
  <1> USE NoJobIsNoJob DEF JobInv
  <1>1. j \in Jobs /\ job.attempt \in Nat /\ copy[w] \in Job
    BY DEF Job, IdsMatch
  <1>2. copy[w].attempt \in Nat
    BY <1>1 DEF Job
  <1>3. /\ jobs' = [jobs EXCEPT ![j] = job]
        /\ jobs[j] # NoJob
        /\ stage' \in [Workers -> Stages] /\ copy' \in [Workers -> Job \cup {NoJob}]
        /\ \A v \in Workers : stage'[v] \in {"running", "dead_letter"} => copy'[v] \in Job
        /\ \A v \in Workers : stage'[v] = "running" =>
               v # w /\ stage[v] = "running" /\ copy'[v] = copy[v]
        /\ \A v \in Workers : \A i \in Jobs : Holds(v, i)' =>
               Holds(v, i) /\ (i = j => job.status = "DeadLettered")
        /\ job.status \in {"Completed", "Failed"} => \A v \in Workers : ~Holds(v, j)'
    BY StoreStep
  <1>4. jobs \in [Jobs -> Job \cup {NoJob}] /\ runs \in [Jobs -> Nat]
        /\ successes \in [Jobs -> Nat]
    BY DEF TypeOK
  <1>5. jobs'[j] = job /\ (\A i \in Jobs : i # j => jobs'[i] = jobs[i])
        /\ jobs' \in [Jobs -> Job \cup {NoJob}]
    BY <1>1, <1>3, <1>4
  <1>6. Holds(w, j)
    BY DEF Holds
  <1>7. \A v \in Workers : Holds(v, j) => v = w
    BY <1>1, <1>6 DEF OneExecutorPerJob
  <1>8. TypeOK'
    BY <1>3, <1>5 DEF TypeOK
  <1>9. IdsMatch'
    BY <1>3, <1>5 DEF IdsMatch, Present
  <1>10. HeldIsTaken'
    BY <1>3, <1>5 DEF HeldIsTaken, Present
  <1>11. OneExecutorPerJob'
    BY <1>3 DEF OneExecutorPerJob
  <1>12. TablesDisjoint'
    BY <1>1, <1>3, <1>4, <1>5 DEF TablesDisjoint, Present
  <1>13. RunsCounted'
    <2>1. \A i \in Jobs : MaxRuns(i) \in Nat
      BY JobQueueAssumption DEF MaxRuns
    <2>2. runs[j] < copy[w].attempt /\ copy[w].attempt <= MaxRuns(j)
      BY DEF RunsCounted
    <2>3. runs'[j] <= MaxRuns(j) /\ runs'[j] <= job.attempt
      BY <1>1, <1>2, <1>4, <2>1, <2>2
    <2>4. \A i \in Jobs : runs'[i] <= MaxRuns(i)
      BY <2>3 DEF RunsCounted
    <2>5. \A i \in Jobs : jobs'[i] # NoJob /\ jobs'[i].status = "Pending" =>
              runs'[i] = 0 /\ jobs'[i].attempt = 0
      BY <1>5 DEF RunsCounted, Present
    <2>6. \A i \in Jobs : jobs'[i] # NoJob /\ jobs'[i].status = "Failed" =>
              runs'[i] <= jobs'[i].attempt /\ jobs'[i].attempt < MaxAttempts[i]
      BY <1>5, <2>3 DEF RunsCounted, Present
    <2>7. ASSUME NEW v \in Workers, stage'[v] = "running"
          PROVE  runs'[copy'[v].id] < copy'[v].attempt
                 /\ copy'[v].attempt <= MaxRuns(copy'[v].id)
      <3>1. v # w /\ stage[v] = "running" /\ copy'[v] = copy[v] /\ copy[v] \in Job
        BY <1>3, <2>7 DEF IdsMatch
      <3>2. Holds(v, copy[v].id) /\ copy[v].id \in Jobs
        BY <3>1 DEF Holds, Job
      <3>3. copy[v].id # j
        BY <1>7, <3>1, <3>2
      <3> QED
        BY <3>1, <3>2, <3>3 DEF RunsCounted
    <2> QED
      BY <2>4, <2>5, <2>6, <2>7 DEF RunsCounted, Present
  <1>14. SuccessIsFinal'
    <2>1. successes[j] = 0
      BY <1>1, <1>4, <1>6 DEF SuccessIsFinal
    <2>2. successes'[j] \in Nat /\ successes'[j] <= 1
      BY <1>1, <2>1
    <2>3. successes'[j] > 0 => jobs'[j].status = "Completed" /\ \A v \in Workers : ~Holds(v, j)'
      BY <1>3, <1>5, <2>1
    <2>4. ASSUME NEW i \in Jobs, i # j
          PROVE  /\ successes'[i] <= 1
                 /\ successes'[i] > 0 =>
                        /\ jobs'[i] # NoJob /\ jobs'[i].status \in {"Completed", "Cancelled"}
                        /\ \A v \in Workers : ~Holds(v, i)'
      BY <1>3, <1>5, <2>4 DEF SuccessIsFinal, Present
    <2> QED
      BY <1>5, <2>2, <2>3, <2>4 DEF SuccessIsFinal, Present
  <1> QED
    BY <1>8, <1>9, <1>10, <1>11, <1>12, <1>13, <1>14

-----------------------------------------------------------------------------
(* The executors *)

(* claim_next takes a job nobody holds. *)
LEMMA ClaimInv ==
    ASSUME JobInv, NEW w \in Workers, Claim(w)
    PROVE  JobInv'
  <1> USE NoJobIsNoJob DEF JobInv
  <1>1. PICK j \in Candidates(w) :
            /\ jobs' = [jobs EXCEPT ![j] = MarkRunning(@)]
            /\ copy' = [copy EXCEPT ![w] = MarkRunning(jobs[j])]
    BY DEF Claim
  <1>2. j \in Jobs /\ jobs[j] # NoJob /\ jobs[j].status \in {"Pending", "Failed"}
    BY JobQueueAssumption DEF Candidates, Present
  <1> DEFINE job == MarkRunning(jobs[j])
  <1>3. jobs[j] \in Job /\ jobs[j].id = j
    BY <1>2 DEF TypeOK, IdsMatch, Present
  <1>4. job \in Job /\ job.id = j /\ job.status = "Running" /\ job.attempt = jobs[j].attempt + 1
    BY <1>3, MarkedJob
  <1> HIDE DEF job
  <1>5. /\ jobs' \in [Jobs -> Job \cup {NoJob}] /\ jobs'[j] = job
        /\ \A i \in Jobs : i # j => jobs'[i] = jobs[i]
    BY <1>1, <1>2, <1>4 DEF TypeOK, job
  <1>6. /\ copy' \in [Workers -> Job \cup {NoJob}] /\ copy'[w] = job
        /\ \A v \in Workers : v # w => copy'[v] = copy[v]
    BY <1>1, <1>4 DEF TypeOK, job
  <1>7. /\ stage[w] = "idle" /\ stage' \in [Workers -> Stages] /\ stage'[w] = "running"
        /\ \A v \in Workers : v # w => stage'[v] = stage[v]
    BY DEF Claim, TypeOK, Stages
  <1>8. UNCHANGED <<deadLetters, toCancel, requeues, runs, successes, deleted>>
    BY DEF Claim
  <1>9. \A v \in Workers : ~Holds(v, j)
    BY <1>2 DEF HeldIsTaken
  <1>10. \A v \in Workers : \A i \in Jobs :
             Holds(v, i)' <=> Holds(v, i) \/ (v = w /\ i = j)
    BY <1>4, <1>6, <1>7 DEF Holds
  <1>11. TypeOK'
    BY <1>5, <1>6, <1>7, <1>8 DEF TypeOK
  <1>12. IdsMatch'
    BY <1>4, <1>5, <1>6, <1>7, <1>8 DEF IdsMatch, Present
  <1>13. HeldIsTaken'
    BY <1>4, <1>5, <1>9, <1>10 DEF HeldIsTaken, Present
  <1>14. OneExecutorPerJob'
    BY <1>9, <1>10 DEF OneExecutorPerJob
  <1>15. TablesDisjoint'
    BY <1>2, <1>4, <1>5, <1>8 DEF TablesDisjoint, Present
  <1>16. RunsCounted'
    <2>1. jobs[j].attempt \in Nat /\ runs[j] \in Nat /\ MaxAttempts[j] \in Nat
      BY <1>2, <1>3, JobQueueAssumption DEF Job, TypeOK
    <2>2. runs[j] <= jobs[j].attempt /\ (jobs[j].attempt = 0 \/ jobs[j].attempt < MaxAttempts[j])
      BY <1>2, <2>1 DEF RunsCounted, Present
    <2>3. runs[j] < job.attempt /\ job.attempt <= MaxRuns(j)
      BY <1>4, <2>1, <2>2 DEF MaxRuns
    <2>4. \A i \in Jobs : jobs'[i] # NoJob /\ jobs'[i].status = "Pending" =>
              runs'[i] = 0 /\ jobs'[i].attempt = 0
      BY <1>4, <1>5, <1>8 DEF RunsCounted, Present
    <2>5. \A i \in Jobs : jobs'[i] # NoJob /\ jobs'[i].status = "Failed" =>
              runs'[i] <= jobs'[i].attempt /\ jobs'[i].attempt < MaxAttempts[i]
      BY <1>4, <1>5, <1>8 DEF RunsCounted, Present
    <2>6. \A v \in Workers : stage'[v] = "running" =>
              runs'[copy'[v].id] < copy'[v].attempt /\ copy'[v].attempt <= MaxRuns(copy'[v].id)
      BY <1>4, <1>6, <1>7, <1>8, <2>3 DEF RunsCounted
    <2> QED
      BY <1>8, <2>4, <2>5, <2>6 DEF RunsCounted, Present
  <1>17. SuccessIsFinal'
    BY <1>2, <1>5, <1>8, <1>10 DEF SuccessIsFinal, Present
  <1> QED
    BY <1>11, <1>12, <1>13, <1>14, <1>15, <1>16, <1>17

(* The handler returns and its executor stores the job. *)
LEMMA RunHandlerInv ==
    ASSUME JobInv, NEW w \in Workers, NEW result \in Results, RunHandler(w, result)
    PROVE  JobInv'
  <1> DEFINE before == HandlerCopy(w)
             job == AfterHandler(before, result)
  <1>1. copy[w] \in Job /\ stage[w] = "running"
    BY DEF RunHandler, JobInv, IdsMatch
  <1>2. copy[w].attempt \in Nat /\ copy[w].id \in Jobs
    BY <1>1 DEF Job
  <1>3. before \in Job /\ before.id = copy[w].id /\ copy[w].attempt <= before.attempt
    BY <1>1, <1>2, MarkedJob DEF HandlerCopy
  <1>4. /\ job \in Job
        /\ job.id = copy[w].id
        /\ job.attempt = before.attempt
        /\ result = "Success" => job.status = "Completed"
        /\ result # "Success" => job.status \in {"Failed", "DeadLettered"}
        /\ job.status = "Failed" => job.attempt < MaxAttempts[job.id]
    BY <1>3, HandledJob
  <1>5. /\ Store(w, job, result = "Failure" /\ job.status = "DeadLettered")
        /\ runs' = [runs EXCEPT ![job.id] = @ + 1]
        /\ successes' = [successes EXCEPT ![job.id] = IF result = "Success" THEN @ + 1 ELSE @]
        /\ UNCHANGED <<deadLetters, toCancel, requeues, deleted>>
    BY DEF RunHandler
  <1> HIDE DEF job, before
  <1>6. runs \in [Jobs -> Nat] /\ successes \in [Jobs -> Nat]
    BY DEF JobInv, TypeOK
  <1>7. /\ runs' \in [Jobs -> Nat] /\ \A i \in Jobs : i # job.id => runs'[i] = runs[i]
        /\ runs'[job.id] <= runs[job.id] + 1
    BY <1>2, <1>4, <1>5, <1>6
  <1>8. /\ successes' \in [Jobs -> Nat]
        /\ \A i \in Jobs : i # job.id => successes'[i] = successes[i]
        /\ successes'[job.id] <= successes[job.id] + 1
        /\ successes'[job.id] > successes[job.id] => job.status = "Completed"
    BY <1>2, <1>4, <1>5, <1>6
  <1>9. copy[w].attempt <= job.attempt
    BY <1>3, <1>4
  <1>10. PICK exhausted \in BOOLEAN :
             exhausted = (result = "Failure" /\ job.status = "DeadLettered")
    OBVIOUS
  <1>11. Store(w, job, exhausted) /\ (exhausted => job.status = "DeadLettered")
    BY <1>5, <1>10
  <1> QED
    BY <1>1, <1>4, <1>5, <1>7, <1>8, <1>9, <1>11, StoreInv

(* A job without a handler fails, or stays with nobody. *)
LEMMA NoHandlerInv ==
    ASSUME JobInv, NEW w \in Workers, NoHandler(w)
    PROVE  JobInv'
  <1>1. copy[w] \in Job /\ stage[w] = "running"
    BY DEF NoHandler, JobInv, IdsMatch
  <1>2. copy[w].attempt \in Nat /\ copy[w].id \in Jobs
    BY <1>1 DEF Job
  <1>3. UNCHANGED <<deadLetters, toCancel, requeues, runs, successes, deleted>>
    BY DEF NoHandler
  <1>4. runs \in [Jobs -> Nat] /\ successes \in [Jobs -> Nat]
    BY DEF JobInv, TypeOK
  <1>5. CASE w \notin SyncWorkers
    <2> DEFINE job == MarkFailed(copy[w])
    <2>1. /\ job \in Job /\ job.id = copy[w].id /\ job.attempt = copy[w].attempt
          /\ job.status \in {"Failed", "DeadLettered"}
          /\ job.status = "Failed" => job.attempt < MaxAttempts[job.id]
      BY <1>1, MarkedJob
    <2>2. Store(w, job, FALSE)
      BY <1>5 DEF NoHandler
    <2> HIDE DEF job
    <2>3. copy[w].attempt <= job.attempt
      BY <1>2, <2>1
    <2>4. /\ runs' \in [Jobs -> Nat] /\ \A i \in Jobs : i # job.id => runs'[i] = runs[i]
          /\ runs'[job.id] <= runs[job.id] + 1
      BY <1>2, <1>3, <1>4, <2>1
    <2>5. /\ successes' \in [Jobs -> Nat]
          /\ \A i \in Jobs : i # job.id => successes'[i] = successes[i]
          /\ successes'[job.id] <= successes[job.id] + 1
          /\ ~(successes'[job.id] > successes[job.id])
      BY <1>2, <1>3, <1>4, <2>1
    <2> QED
      BY <1>1, <1>3, <2>1, <2>2, <2>3, <2>4, <2>5, StoreInv
  <1>6. CASE w \in SyncWorkers
    <2>1. /\ stage' = [stage EXCEPT ![w] = "idle"]
          /\ copy' = [copy EXCEPT ![w] = NoJob]
          /\ UNCHANGED jobs
      BY <1>6 DEF NoHandler, Drop
    <2>2. /\ stage' \in [Workers -> Stages] /\ stage'[w] = "idle"
          /\ copy' \in [Workers -> Job \cup {NoJob}]
          /\ \A v \in Workers : v # w => stage'[v] = stage[v] /\ copy'[v] = copy[v]
      BY <2>1 DEF JobInv, TypeOK, Stages
    <2>3. \A v \in Workers : \A i \in Jobs : Holds(v, i)' => Holds(v, i)
      BY <2>2 DEF Holds
    <2> USE DEF JobInv
    <2>4. TypeOK'
      BY <1>3, <2>1, <2>2 DEF TypeOK
    <2>5. IdsMatch'
      BY <1>3, <2>1, <2>2 DEF IdsMatch, Present
    <2>6. HeldIsTaken' /\ OneExecutorPerJob'
      BY <2>1, <2>3 DEF HeldIsTaken, OneExecutorPerJob, Present
    <2>7. TablesDisjoint'
      BY <1>3, <2>1 DEF TablesDisjoint, Present
    <2>8. RunsCounted'
      BY <1>3, <2>1, <2>2 DEF RunsCounted, Present
    <2>9. SuccessIsFinal'
      BY <1>3, <2>1, <2>3 DEF SuccessIsFinal, Present
    <2> QED
      BY <2>4, <2>5, <2>6, <2>7, <2>8, <2>9
  <1> QED
    BY <1>5, <1>6

(* dead_letter moves the job its caller holds, alone, to the other table. *)
LEMMA DeadLetterInv ==
    ASSUME JobInv, NEW w \in Workers, DeadLetter(w)
    PROVE  JobInv'
  <1> DEFINE j == copy[w].id
  <1> USE NoJobIsNoJob DEF JobInv
  <1>1. stage[w] = "dead_letter" /\ copy[w] \in Job
    BY DEF DeadLetter, IdsMatch
  <1>2. j \in Jobs /\ Holds(w, j)
    BY <1>1 DEF Job, Holds
  <1>3. Present(j) /\ jobs[j].status \in {"Running", "DeadLettered", "Cancelled"}
    BY <1>2 DEF HeldIsTaken
  <1>4. /\ jobs' = [jobs EXCEPT ![j] = NoJob] /\ deadLetters' = deadLetters \cup {j}
        /\ stage' = [stage EXCEPT ![w] = "idle"] /\ copy' = [copy EXCEPT ![w] = NoJob]
        /\ UNCHANGED <<toCancel, requeues, runs, successes, deleted>>
    BY DEF DeadLetter, Drop
  <1> HIDE DEF j
  <1>5. /\ stage' \in [Workers -> Stages] /\ stage'[w] = "idle"
        /\ copy' \in [Workers -> Job \cup {NoJob}]
        /\ \A v \in Workers : v # w => stage'[v] = stage[v] /\ copy'[v] = copy[v]
    BY <1>4 DEF TypeOK, Stages
  <1>6. /\ jobs' \in [Jobs -> Job \cup {NoJob}] /\ jobs'[j] = NoJob
        /\ \A i \in Jobs : i # j => jobs'[i] = jobs[i]
    BY <1>2, <1>4 DEF TypeOK
  <1>7. \A v \in Workers : Holds(v, j) => v = w
    BY <1>2 DEF OneExecutorPerJob
  <1>8. \A v \in Workers : \A i \in Jobs : Holds(v, i)' => Holds(v, i) /\ i # j
    BY <1>5, <1>7 DEF Holds
  <1>9. TypeOK'
    BY <1>2, <1>4, <1>5, <1>6 DEF TypeOK
  <1>10. IdsMatch'
    BY <1>4, <1>5, <1>6 DEF IdsMatch, Present
  <1>11. HeldIsTaken'
    BY <1>6, <1>8 DEF HeldIsTaken, Present
  <1>12. OneExecutorPerJob'
    BY <1>8 DEF OneExecutorPerJob
  <1>13. TablesDisjoint'
    BY <1>2, <1>3, <1>4, <1>6 DEF TablesDisjoint, Present
  <1>14. RunsCounted'
    BY <1>4, <1>5, <1>6 DEF RunsCounted, Present
  <1>15. SuccessIsFinal'
    BY <1>2, <1>4, <1>6, <1>8 DEF SuccessIsFinal, Present
  <1> QED
    BY <1>9, <1>10, <1>11, <1>12, <1>13, <1>14, <1>15

(* A panic only takes the executor away. *)
LEMMA PanicInv ==
    ASSUME JobInv, NEW w \in Workers, Panic(w)
    PROVE  JobInv'
  <1> USE DEF JobInv
  <1>1. /\ stage' \in [Workers -> Stages] /\ stage'[w] = "dead"
        /\ \A v \in Workers : v # w => stage'[v] = stage[v]
        /\ UNCHANGED <<jobs, deadLetters, copy, toCancel, requeues, runs, successes, deleted>>
    BY DEF Panic, TypeOK, Stages
  <1>2. \A v \in Workers : \A i \in Jobs : Holds(v, i)' => Holds(v, i)
    BY <1>1 DEF Holds
  <1>3. TypeOK'
    BY <1>1 DEF TypeOK
  <1>4. IdsMatch' /\ TablesDisjoint'
    BY <1>1 DEF IdsMatch, TablesDisjoint, Present
  <1>5. HeldIsTaken' /\ OneExecutorPerJob'
    BY <1>1, <1>2 DEF HeldIsTaken, OneExecutorPerJob, Present
  <1>6. RunsCounted'
    BY <1>1 DEF RunsCounted, Present
  <1>7. SuccessIsFinal'
    BY <1>1, <1>2 DEF SuccessIsFinal, Present
  <1> QED
    BY <1>3, <1>4, <1>5, <1>6, <1>7

-----------------------------------------------------------------------------
(* The callers *)

(* enqueue puts in a job that is in neither table. *)
LEMMA EnqueueInv ==
    ASSUME JobInv, NEW j \in Jobs, Enqueue(j)
    PROVE  JobInv'
  <1>1. PICK due \in BOOLEAN : jobs' = [jobs EXCEPT ![j] = NewJob(j, due)]
    BY DEF Enqueue
  <1> DEFINE job == NewJob(j, due)
  <1>2. job \in Job /\ job.id = j /\ job.status = "Pending" /\ job.attempt = 0
    BY DEF NewJob, Job, Statuses
  <1> HIDE DEF job
  <1>3. /\ jobs' = [jobs EXCEPT ![j] = job] /\ ~Present(j) /\ j \notin deadLetters \cup deleted
        /\ UNCHANGED <<deadLetters, stage, copy, toCancel, requeues, runs, successes, deleted>>
    BY <1>1 DEF Enqueue, job
  <1>4. TypeOK'
    BY <1>2, <1>3 DEF JobInv, TypeOK
  <1>5. runs \in [Jobs -> Nat] /\ runs[j] = 0
    BY <1>3 DEF JobInv, TypeOK, TablesDisjoint
  <1>6. /\ deadLetters' = deadLetters \ {j} /\ j \notin deleted /\ runs'[j] = 0
        /\ \A i \in Jobs : toCancel'[i] \in {toCancel[i], NoJob}
        /\ \A i \in Jobs : runs'[i] <= runs[i] /\ (i # j => runs'[i] = runs[i])
    BY <1>3, <1>5
  <1>7. UNCHANGED <<stage, copy, deleted, successes>> /\ UNCHANGED deadLetters
    BY <1>3
  <1> QED
    BY <1>2, <1>3, <1>4, <1>6, <1>7, CallerStep

(* The time of a waiting job comes; nothing else changes in it. *)
LEMMA ElapseInv ==
    ASSUME JobInv, NEW j \in Jobs, Elapse(j)
    PROVE  JobInv'
  <1> DEFINE job == [jobs[j] EXCEPT !.due = TRUE]
  <1>1. jobs[j] # NoJob /\ jobs[j] \in Job /\ jobs[j].id = j
    BY DEF Elapse, JobInv, TypeOK, IdsMatch, Present, NoJob
  <1>2. job \in Job /\ job.id = j /\ job.status = jobs[j].status /\ job.attempt = jobs[j].attempt
    BY <1>1 DEF Job
  <1>3. /\ jobs' = [jobs EXCEPT ![j] = job] /\ jobs[j].status \in {"Pending", "Failed"}
        /\ UNCHANGED <<deadLetters, stage, copy, toCancel, requeues, runs, successes, deleted>>
    BY DEF Elapse
  <1> HIDE DEF job
  <1>4. TypeOK'
    BY <1>2, <1>3 DEF JobInv, TypeOK
  <1>5. j \notin deadLetters \cup deleted /\ runs \in [Jobs -> Nat]
    BY <1>1 DEF JobInv, TablesDisjoint, Present, TypeOK
  <1>6. job.status = "Pending" => runs[j] = 0 /\ job.attempt = 0
    BY <1>1, <1>2 DEF JobInv, RunsCounted, Present
  <1>7. /\ deadLetters' = deadLetters \ {j} /\ j \notin deleted
        /\ \A i \in Jobs : toCancel'[i] \in {toCancel[i], NoJob}
        /\ \A i \in Jobs : runs'[i] <= runs[i] /\ (i # j => runs'[i] = runs[i])
        /\ (job.status = "Pending" => runs'[j] = 0 /\ job.attempt = 0)
    BY <1>3, <1>5, <1>6
  <1>8. Present(j) /\ job.status \in {"Pending", "Failed"}
    BY <1>1, <1>2, <1>3 DEF Present
  <1>9. UNCHANGED <<stage, copy, deleted, successes>> /\ UNCHANGED deadLetters
    BY <1>3
  <1> QED
    BY <1>2, <1>3, <1>4, <1>7, <1>8, <1>9, CallerStep

(* A cancelling caller reads a job. *)
LEMMA CancelGetInv ==
    ASSUME JobInv, NEW j \in Jobs, CancelGet(j)
    PROVE  JobInv'
  <1> USE DEF JobInv
  <1>1. /\ toCancel' = [toCancel EXCEPT ![j] = jobs[j]] /\ jobs[j] # NoJob
        /\ UNCHANGED <<jobs, deadLetters, stage, copy, requeues, runs, successes, deleted>>
    BY DEF CancelGet, Present
  <1>2. TypeOK'
    BY <1>1 DEF TypeOK
  <1>3. IdsMatch'
    BY <1>1 DEF IdsMatch, Present, TypeOK
  <1>4. HeldIsTaken' /\ OneExecutorPerJob' /\ TablesDisjoint'
    BY <1>1 DEF HeldIsTaken, OneExecutorPerJob, TablesDisjoint, Holds, Present
  <1>5. RunsCounted' /\ SuccessIsFinal'
    BY <1>1 DEF RunsCounted, SuccessIsFinal, Holds, Present
  <1> QED
    BY <1>2, <1>3, <1>4, <1>5

(* It writes back what it read, cancelled, over whatever the job is now. *)
LEMMA CancelUpdateInv ==
    ASSUME JobInv, NEW j \in Jobs, CancelUpdate(j)
    PROVE  JobInv'
  <1>1. /\ toCancel' = [toCancel EXCEPT ![j] = NoJob] /\ toCancel[j] # NoJob
        /\ UNCHANGED <<deadLetters, stage, copy, requeues, runs, successes, deleted>>
    BY DEF CancelUpdate
  <1>2. toCancel[j] \in Job /\ toCancel[j].id = j
    BY <1>1 DEF JobInv, TypeOK, IdsMatch
  <1>3. /\ toCancel' \in [Jobs -> Job \cup {NoJob}]
        /\ \A i \in Jobs : toCancel'[i] \in {toCancel[i], NoJob}
    BY <1>1 DEF JobInv, TypeOK
  <1>4. CASE Present(j)
    <2> DEFINE job == MarkCancelled(toCancel[j])
    <2>1. job \in Job /\ job.id = j /\ job.status = "Cancelled"
      BY <1>2, MarkedJob
    <2>2. jobs' = [jobs EXCEPT ![j] = job]
      BY <1>4 DEF CancelUpdate
    <2> HIDE DEF job
    <2>3. TypeOK'
      BY <1>1, <1>3, <2>1, <2>2 DEF JobInv, TypeOK
    <2>4. j \notin deadLetters \cup deleted /\ runs \in [Jobs -> Nat]
      BY <1>4 DEF JobInv, TablesDisjoint, TypeOK
    <2>5. /\ deadLetters' = deadLetters \ {j} /\ j \notin deleted
          /\ \A i \in Jobs : runs'[i] <= runs[i] /\ (i # j => runs'[i] = runs[i])
      BY <1>1, <2>4
    <2>6. UNCHANGED <<stage, copy, deleted, successes>> /\ UNCHANGED deadLetters
      BY <1>1
    <2> QED
      BY <1>3, <2>1, <2>2, <2>3, <2>5, <2>6, CallerStep
  <1>5. CASE ~Present(j)
    <2> USE DEF JobInv
    <2>1. UNCHANGED jobs
      BY <1>5 DEF CancelUpdate
    <2>2. TypeOK'
      BY <1>1, <1>3, <2>1 DEF TypeOK
    <2>3. IdsMatch'
      BY <1>1, <1>3, <2>1 DEF IdsMatch, Present
    <2>4. HeldIsTaken' /\ OneExecutorPerJob' /\ TablesDisjoint'
      BY <1>1, <2>1 DEF HeldIsTaken, OneExecutorPerJob, TablesDisjoint, Holds, Present
    <2>5. RunsCounted' /\ SuccessIsFinal'
      BY <1>1, <2>1 DEF RunsCounted, SuccessIsFinal, Holds, Present
    <2> QED
      BY <2>2, <2>3, <2>4, <2>5
  <1> QED
    BY <1>4, <1>5

(* retry_dead_letter starts the count of runs again. *)
LEMMA RetryDeadLetterInv ==
    ASSUME JobInv, NEW j \in Jobs, RetryDeadLetter(j)
    PROVE  JobInv'
  <1> DEFINE job == NewJob(j, TRUE)
  <1>1. job \in Job /\ job.id = j /\ job.status = "Pending" /\ job.attempt = 0
    BY DEF NewJob, Job, Statuses
  <1>2. /\ jobs' = [jobs EXCEPT ![j] = job] /\ j \in deadLetters
        /\ deadLetters' = deadLetters \ {j}
        /\ requeues' = [requeues EXCEPT ![j] = @ + 1] /\ runs' = [runs EXCEPT ![j] = 0]
        /\ UNCHANGED <<stage, copy, toCancel, successes, deleted>>
    BY DEF RetryDeadLetter
  <1> HIDE DEF job
  <1>3. TypeOK'
    BY <1>1, <1>2 DEF JobInv, TypeOK
  <1>4. ~Present(j) /\ j \notin deleted
    BY <1>2 DEF JobInv, TablesDisjoint
  <1>5. runs'[j] = 0 /\ \A i \in Jobs : runs'[i] <= runs[i] /\ (i # j => runs'[i] = runs[i])
    BY <1>2 DEF JobInv, TypeOK
  <1> QED
    BY <1>1, <1>2, <1>3, <1>4, <1>5, CallerStep

(* delete_dead_letter ends a job that is in no other table. *)
LEMMA DeleteDeadLetterInv ==
    ASSUME JobInv, NEW j \in Jobs, DeleteDeadLetter(j)
    PROVE  JobInv'
  <1> USE DEF JobInv
  <1>1. /\ j \in deadLetters /\ deadLetters' = deadLetters \ {j} /\ deleted' = deleted \cup {j}
        /\ UNCHANGED <<jobs, stage, copy, toCancel, requeues, runs, successes>>
    BY DEF DeleteDeadLetter
  <1>2. TypeOK'
    BY <1>1 DEF TypeOK
  <1>3. IdsMatch' /\ HeldIsTaken' /\ OneExecutorPerJob'
    BY <1>1 DEF IdsMatch, HeldIsTaken, OneExecutorPerJob, Holds, Present
  <1>4. TablesDisjoint'
    BY <1>1 DEF TablesDisjoint, Present
  <1>5. RunsCounted' /\ SuccessIsFinal'
    BY <1>1 DEF RunsCounted, SuccessIsFinal, Holds, Present
  <1> QED
    BY <1>2, <1>3, <1>4, <1>5

-----------------------------------------------------------------------------
(***************************************************************************)
(* The invariant holds for any number of executors, callers and jobs.      *)
(***************************************************************************)
THEOREM JobInvariance == Spec => []JobInv
  <1>1. ASSUME JobInv, [Next]_vars PROVE JobInv'
    <2>1. ASSUME NEW w \in Workers, Execute(w) \/ Panic(w) PROVE JobInv'
      BY <1>1, <2>1, ClaimInv, RunHandlerInv, NoHandlerInv, DeadLetterInv, PanicInv DEF Execute
    <2>2. ASSUME NEW j \in Jobs,
                 \/ Enqueue(j) \/ Elapse(j) \/ CancelGet(j) \/ CancelUpdate(j)
                 \/ RetryDeadLetter(j) \/ DeleteDeadLetter(j)
          PROVE  JobInv'
      BY <1>1, <2>2, EnqueueInv, ElapseInv, CancelGetInv, CancelUpdateInv,
         RetryDeadLetterInv, DeleteDeadLetterInv
    <2>3. CASE UNCHANGED vars
      <3> USE <1>1, <2>3 DEF vars, JobInv
      <3>1. TypeOK' /\ IdsMatch'
        BY DEF TypeOK, IdsMatch, Present
      <3>2. HeldIsTaken' /\ OneExecutorPerJob' /\ TablesDisjoint'
        BY DEF HeldIsTaken, OneExecutorPerJob, TablesDisjoint, Holds, Present
      <3>3. RunsCounted' /\ SuccessIsFinal'
        BY DEF RunsCounted, SuccessIsFinal, Holds, Present
      <3> QED
        BY <3>1, <3>2, <3>3
    <2> QED
      BY <1>1, <2>1, <2>2, <2>3 DEF Next
  <1> QED
    BY InitInv, <1>1, PTL DEF Spec

(***************************************************************************)
(* Whatever is claimed again, cancelled meanwhile or requeued, claim_next  *)
(* hands a job to one executor at a time.                                  *)
(***************************************************************************)
THEOREM ExclusiveExecution == Spec => []OneExecutorPerJob
  BY JobInvariance, PTL DEF JobInv

(***************************************************************************)
(* No job is lost or doubled between the table of jobs and the table of    *)
(* dead letters.                                                           *)
(***************************************************************************)
THEOREM JobsAreKept == Spec => []NoJobLost
  <1>1. JobInv => NoJobLost
    BY DEF JobInv, HeldIsTaken, TablesDisjoint, NoJobLost
  <1> QED
    BY <1>1, JobInvariance, PTL

(***************************************************************************)
(* The handler of a job runs at most max_attempts times between two        *)
(* retries of the dead letter, once if there are no retries.               *)
(***************************************************************************)
THEOREM AttemptsBoundRuns == Spec => []RunsBounded
  <1>1. JobInv => RunsBounded
    BY DEF JobInv, RunsCounted, RunsBounded, MaxRuns
  <1> QED
    BY <1>1, JobInvariance, PTL

(***************************************************************************)
(* A job succeeds at most once.                                            *)
(***************************************************************************)
THEOREM SuccessOnce == Spec => []SucceedsOnce
  <1>1. JobInv => SucceedsOnce
    BY DEF JobInv, SuccessIsFinal, SucceedsOnce
  <1> QED
    BY <1>1, JobInvariance, PTL

=============================================================================
