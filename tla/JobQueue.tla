------------------------------ MODULE JobQueue ------------------------------
(***************************************************************************)
(* The background job system (crates/infra/src/jobs): InMemoryJobStore     *)
(* with its table of jobs and its table of dead letters, the threads of    *)
(* JobExecutor that claim and run jobs, the retry policy, and the callers  *)
(* that enqueue, cancel, requeue and delete jobs.                          *)
(*                                                                         *)
(* Each store call takes the store's locks once and is one step.  Between  *)
(* claim_next and update an executor holds its own copy of the job, and so *)
(* does a caller that cancels (get, mark_cancelled, update): what they     *)
(* write back is what they read, changed.                                  *)
(*                                                                         *)
(* A job id is the job's rank in created_at order.  scheduled_at is either *)
(* due or not; Elapse lets its time come.  Error texts, payloads and       *)
(* timestamps are left out.                                                *)
(***************************************************************************)
EXTENDS Integers, FiniteSets

CONSTANTS
    Jobs,         \* job ids, in created_at order
    Workers,      \* executor threads
    SyncWorkers,  \* those that call claim_next and execute_one themselves
    Serves,       \* the jobs each worker's tenant filter lets through
    Handled,      \* the jobs whose kind has a registered handler
    Results,      \* what handlers may return
    MaxAttempts,  \* retry_policy.max_attempts of each job
    MayPanic,     \* whether a handler may panic
    MayCancel,    \* whether callers cancel jobs
    MaxRequeues   \* bound on how often a dead letter is retried

ASSUME JobQueueAssumption ==
    /\ Jobs \subseteq Nat
    /\ SyncWorkers \subseteq Workers
    /\ Serves \in [Workers -> SUBSET Jobs]
    /\ Handled \subseteq Jobs
    /\ Results \subseteq {"Success", "Failure", "RetryNow", "RetryAfter"}
    /\ MaxAttempts \in [Jobs -> Nat]
    /\ MayPanic \in BOOLEAN
    /\ MayCancel \in BOOLEAN
    /\ MaxRequeues \in Nat

VARIABLES
    jobs,         \* the store's job table
    deadLetters,  \* the ids in the store's dead-letter table
    stage,        \* what each executor is doing
    copy,         \* the job an executor works on, as it knows it
    toCancel,     \* the copy of each job a cancelling caller holds
    requeues,     \* how often each dead letter was retried
    runs,         \* (history) handler runs since the job was last enqueued
    successes,    \* (history) handler runs of the job that returned Success
    deleted       \* (history) dead letters deleted by a caller

vars == <<jobs, deadLetters, stage, copy, toCancel, requeues, runs, successes, deleted>>

Statuses == {"Pending", "Running", "Completed", "Failed", "DeadLettered", "Cancelled"}

NoId == -1

Job == [id : Jobs, status : Statuses, attempt : Nat, due : BOOLEAN]

(* No entry under the id. *)
NoJob == [id |-> NoId, status |-> "None", attempt |-> 0, due |-> FALSE]

Stages == {"idle", "running", "dead_letter", "dead"}

TypeOK ==
    /\ jobs \in [Jobs -> Job \cup {NoJob}]
    /\ deadLetters \subseteq Jobs
    /\ stage \in [Workers -> Stages]
    /\ copy \in [Workers -> Job \cup {NoJob}]
    /\ toCancel \in [Jobs -> Job \cup {NoJob}]
    /\ requeues \in [Jobs -> Nat]
    /\ runs \in [Jobs -> Nat]
    /\ successes \in [Jobs -> Nat]
    /\ deleted \subseteq Jobs

Init ==
    /\ jobs = [j \in Jobs |-> NoJob]
    /\ deadLetters = {}
    /\ stage = [w \in Workers |-> "idle"]
    /\ copy = [w \in Workers |-> NoJob]
    /\ toCancel = [j \in Jobs |-> NoJob]
    /\ requeues = [j \in Jobs |-> 0]
    /\ runs = [j \in Jobs |-> 0]
    /\ successes = [j \in Jobs |-> 0]
    /\ deleted = {}

Present(j) == jobs[j] # NoJob

-----------------------------------------------------------------------------
(* Job: what happens to a job's own fields *)

NewJob(j, due) == [id |-> j, status |-> "Pending", attempt |-> 0, due |-> due]

MarkRunning(job) == [job EXCEPT !.status = "Running", !.attempt = @ + 1]

MarkCompleted(job) == [job EXCEPT !.status = "Completed"]

(* Mutant: one retry too many. *)
ShouldRetryOnceMore(job) == job.attempt <= MaxAttempts[job.id]

ShouldRetry(job) == job.attempt < MaxAttempts[job.id]

(* mark_failed: back off and retry, or give up. *)
MarkFailed(job) ==
    IF ShouldRetry(job) THEN [job EXCEPT !.status = "Failed", !.due = FALSE]
    ELSE [job EXCEPT !.status = "DeadLettered"]

MarkCancelled(job) == [job EXCEPT !.status = "Cancelled"]

(* The job after its handler returned result: RetryNow drops the backoff,  *)
(* RetryAfter sets one.                                                    *)
AfterHandler(job, result) ==
    CASE result = "Success"    -> MarkCompleted(job)
      [] result = "Failure"    -> MarkFailed(job)
      [] result = "RetryNow"   -> [MarkFailed(job) EXCEPT !.due = TRUE]
      [] result = "RetryAfter" -> [MarkFailed(job) EXCEPT !.due = FALSE]

-----------------------------------------------------------------------------
(* Callers of the store *)

(* enqueue of a new job, due at once or scheduled for later.  The store    *)
(* does not look at ids: a new job has a fresh one (JobId::new), which     *)
(* names no job in the table, among the dead letters or deleted before.    *)
Enqueue(j) ==
    /\ ~Present(j)
    /\ j \notin deadLetters \cup deleted
    /\ \E due \in BOOLEAN : jobs' = [jobs EXCEPT ![j] = NewJob(j, due)]
    /\ UNCHANGED <<deadLetters, stage, copy, toCancel, requeues, runs, successes, deleted>>

(* The scheduled time of a job that waits for it comes. *)
Elapse(j) ==
    /\ jobs[j].status \in {"Pending", "Failed"}
    /\ ~jobs[j].due
    /\ jobs' = [jobs EXCEPT ![j].due = TRUE]
    /\ UNCHANGED <<deadLetters, stage, copy, toCancel, requeues, runs, successes, deleted>>

(* A caller that wants to cancel reads the job ... *)
CancelGet(j) ==
    /\ MayCancel
    /\ Present(j)
    /\ toCancel[j] = NoJob
    /\ jobs[j].status \in {"Pending", "Running", "Failed"}
    /\ toCancel' = [toCancel EXCEPT ![j] = jobs[j]]
    /\ UNCHANGED <<jobs, deadLetters, stage, copy, requeues, runs, successes, deleted>>

(* ... and writes it back as cancelled; update refuses an id that is gone. *)
CancelUpdate(j) ==
    /\ toCancel[j] # NoJob
    /\ jobs' = IF Present(j) THEN [jobs EXCEPT ![j] = MarkCancelled(toCancel[j])] ELSE jobs
    /\ toCancel' = [toCancel EXCEPT ![j] = NoJob]
    /\ UNCHANGED <<deadLetters, stage, copy, requeues, runs, successes, deleted>>

(* retry_dead_letter: back to the job table, pending and due, attempt 0. *)
RetryDeadLetter(j) ==
    /\ j \in deadLetters
    /\ requeues[j] < MaxRequeues
    /\ deadLetters' = deadLetters \ {j}
    /\ jobs' = [jobs EXCEPT ![j] = NewJob(j, TRUE)]
    /\ requeues' = [requeues EXCEPT ![j] = @ + 1]
    /\ runs' = [runs EXCEPT ![j] = 0]
    /\ UNCHANGED <<stage, copy, toCancel, successes, deleted>>

DeleteDeadLetter(j) ==
    /\ j \in deadLetters
    /\ deadLetters' = deadLetters \ {j}
    /\ deleted' = deleted \cup {j}
    /\ UNCHANGED <<jobs, stage, copy, toCancel, requeues, runs, successes>>

-----------------------------------------------------------------------------
(* Executors *)

(* Mutant: running jobs are candidates too. *)
CandidatesWithRunning(w) ==
    {j \in Serves[w] : /\ Present(j)
                       /\ jobs[j].status \in {"Pending", "Failed", "Running"}
                       /\ jobs[j].due}

(* Mutant: failed jobs are not candidates. *)
CandidatesPendingOnly(w) ==
    {j \in Serves[w] : Present(j) /\ jobs[j].status = "Pending" /\ jobs[j].due}

(* What claim_next chooses from: pending and failed jobs that are due. *)
Candidates(w) ==
    {j \in Serves[w] : /\ Present(j)
                       /\ jobs[j].status \in {"Pending", "Failed"}
                       /\ jobs[j].due}

(* claim_next: the oldest candidate starts running. *)
Claim(w) ==
    /\ stage[w] = "idle"
    /\ \E j \in Candidates(w) :
        /\ \A i \in Candidates(w) : j <= i
        /\ jobs' = [jobs EXCEPT ![j] = MarkRunning(@)]
        /\ copy' = [copy EXCEPT ![w] = MarkRunning(jobs[j])]
    /\ stage' = [stage EXCEPT ![w] = "running"]
    /\ UNCHANGED <<deadLetters, toCancel, requeues, runs, successes, deleted>>

(* The executor is done with its copy and polls again. *)
Drop(w) ==
    /\ stage' = [stage EXCEPT ![w] = "idle"]
    /\ copy' = [copy EXCEPT ![w] = NoJob]

(* update: the executor writes its copy over the store's, and keeps it if  *)
(* dead_letter comes next; NotFound ends the job.                          *)
Store(w, job, exhausted) ==
    /\ jobs' = IF Present(job.id) THEN [jobs EXCEPT ![job.id] = job] ELSE jobs
    /\ IF Present(job.id) /\ exhausted
       THEN /\ stage' = [stage EXCEPT ![w] = "dead_letter"]
            /\ copy' = [copy EXCEPT ![w] = job]
       ELSE Drop(w)

(* The copy a handler gets; execute_one marks the claimed job running again. *)
HandlerCopy(w) == IF w \in SyncWorkers THEN MarkRunning(copy[w]) ELSE copy[w]

(* The handler returns, the job is marked and stored.  Only a Failure that *)
(* exhausts the retries goes on to dead_letter.                            *)
RunHandler(w, result) ==
    LET job == AfterHandler(HandlerCopy(w), result) IN
    /\ stage[w] = "running"
    /\ copy[w].id \in Handled
    /\ Store(w, job, result = "Failure" /\ job.status = "DeadLettered")
    /\ runs' = [runs EXCEPT ![job.id] = @ + 1]
    /\ successes' = [successes EXCEPT ![job.id] = IF result = "Success" THEN @ + 1 ELSE @]
    /\ UNCHANGED <<deadLetters, toCancel, requeues, deleted>>

(* No handler for the kind: the loop fails the job, execute_one only returns. *)
NoHandler(w) ==
    /\ stage[w] = "running"
    /\ copy[w].id \notin Handled
    /\ IF w \in SyncWorkers
       THEN Drop(w) /\ UNCHANGED jobs
       ELSE Store(w, MarkFailed(copy[w]), FALSE)
    /\ UNCHANGED <<deadLetters, toCancel, requeues, runs, successes, deleted>>

(* Mutant: the job leaves the job table and the entry is not written. *)
DeadLetterDrops(w) ==
    /\ stage[w] = "dead_letter"
    /\ jobs' = [jobs EXCEPT ![copy[w].id] = NoJob]
    /\ Drop(w)
    /\ UNCHANGED <<deadLetters, toCancel, requeues, runs, successes, deleted>>

(* dead_letter: from the job table to the dead-letter table in one step. *)
DeadLetter(w) ==
    /\ stage[w] = "dead_letter"
    /\ jobs' = [jobs EXCEPT ![copy[w].id] = NoJob]
    /\ deadLetters' = deadLetters \cup {copy[w].id}
    /\ Drop(w)
    /\ UNCHANGED <<toCancel, requeues, runs, successes, deleted>>

(* The handler panics and takes the executor thread with it. *)
Panic(w) ==
    /\ MayPanic
    /\ stage[w] = "running"
    /\ stage' = [stage EXCEPT ![w] = "dead"]
    /\ UNCHANGED <<jobs, deadLetters, copy, toCancel, requeues, runs, successes, deleted>>

-----------------------------------------------------------------------------
Execute(w) ==
    \/ Claim(w)
    \/ \E result \in Results : RunHandler(w, result)
    \/ NoHandler(w)
    \/ DeadLetter(w)

Next ==
    \/ \E w \in Workers : Execute(w) \/ Panic(w)
    \/ \E j \in Jobs : \/ Enqueue(j) \/ Elapse(j) \/ CancelGet(j) \/ CancelUpdate(j)
                       \/ RetryDeadLetter(j) \/ DeleteDeadLetter(j)

Spec == Init /\ [][Next]_vars

(***************************************************************************)
(* Executor threads poll for ever, handlers return and time passes; nobody *)
(* has to enqueue, cancel, retry or delete anything.                       *)
(***************************************************************************)
Fairness ==
    /\ \A w \in Workers : WF_vars(Execute(w))
    /\ \A j \in Jobs : WF_vars(Elapse(j))

FairSpec == Spec /\ Fairness

-----------------------------------------------------------------------------
(* Properties *)

Holds(w, j) == stage[w] \in {"running", "dead_letter"} /\ copy[w].id = j

(***************************************************************************)
(* claim_next hands a job to one executor at a time, although a failed job *)
(* is claimed again and a dead letter is retried.                          *)
(***************************************************************************)
OneExecutorPerJob ==
    \A v, w \in Workers : \A j \in Jobs : Holds(v, j) /\ Holds(w, j) => v = w

(***************************************************************************)
(* No job is lost or doubled on its way through update, dead_letter and    *)
(* retry_dead_letter: an id that an executor works on is in the job table, *)
(* and no id is in both tables.                                            *)
(***************************************************************************)
NoJobLost ==
    /\ \A w \in Workers : \A j \in Jobs : Holds(w, j) => Present(j)
    /\ \A j \in Jobs : Present(j) => j \notin deadLetters \cup deleted
    /\ \A j \in Jobs : runs[j] > 0 => Present(j) \/ j \in deadLetters \cup deleted

(***************************************************************************)
(* A job's handler runs at most max_attempts times, once if there are no   *)
(* retries, until a caller requeues it from the dead letters.              *)
(***************************************************************************)
RunsBounded == \A j \in Jobs : runs[j] <= (IF MaxAttempts[j] = 0 THEN 1 ELSE MaxAttempts[j])

(***************************************************************************)
(* A job succeeds at most once: a success is final whatever cancelling     *)
(* callers write back later.                                               *)
(***************************************************************************)
SucceedsOnce == \A j \in Jobs : successes[j] <= 1

(***************************************************************************)
(* Every enqueued job reaches an end: completed, cancelled, given up or in *)
(* the dead-letter table.  What can keep it from one is a panic (of the    *)
(* thread that runs it, or of every thread that serves it) or execute_one, *)
(* which leaves a job without handler running.                             *)
(***************************************************************************)
Settled(j) ==
    \/ jobs[j].status \in {"Completed", "DeadLettered", "Cancelled"}
    \/ j \in deadLetters \cup deleted

Abandoned(j) ==
    \/ jobs[j].status = "Running" /\ ~\E w \in Workers : Holds(w, j)
    \/ \A w \in Workers : j \in Serves[w] => stage[w] = "dead"

EveryJobSettles == \A j \in Jobs : Present(j) ~> Settled(j) \/ Abandoned(j)

=============================================================================
