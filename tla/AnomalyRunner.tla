--------------------------- MODULE AnomalyRunner ---------------------------
(***************************************************************************)
(* The inventory anomaly runner                                            *)
(* (crates/infra/src/ai/inventory_anomaly_runner.rs) behind the projection *)
(* loop of build_in_memory_services, which triggers it after every         *)
(* inventory envelope it could apply.  The keys are the items of one       *)
(* tenant, which has one runner.  What the inference computes is left out: *)
(* an insight is known by how much of each stream it has seen.  shutdown   *)
(* has no caller.                                                          *)
(***************************************************************************)
EXTENDS CommandDispatcher

CONSTANT MaxRetries  \* InventoryAnomalyRunner.max_retries

ASSUME RunnerAssumption == MaxRetries \in Nat

VARIABLES
    applied,     \* the loop has applied an envelope and not triggered yet
    triggers,    \* the trigger channel, of capacity 1
    stage,       \* where the runner's thread stands
    pending,     \* a run is wanted
    failures,    \* failures since the last insight
    backingOff,  \* backoff_until has not passed
    seen,        \* what the run under way has seen, by key
    insight,     \* what the last insight in the sink had seen
    givenUp      \* (history) what the last run that was not retried had seen

host == <<applied, triggers>>
runner == <<stage, pending, failures, backingOff, seen, insight, givenUp>>
allVars == <<vars, host, runner>>

Nothing == [k \in Keys |-> 0]

RunnerInit ==
    /\ Init
    /\ applied = FALSE /\ triggers = 0
    /\ stage = "none" /\ pending = FALSE /\ failures = 0 /\ backingOff = FALSE
    /\ seen = Nothing /\ insight = Nothing /\ givenUp = Nothing

-----------------------------------------------------------------------------
(* The projection loop *)

(* One envelope: a duplicate triggers too, a refused one does not. *)
LoopApplies ==
    /\ ~applied
    /\ Deliver
    /\ applied' = (CursorVerdict(cursor[Head(channel).key], Head(channel).seq)
                       # "NonMonotonicSequence")
    /\ UNCHANGED <<triggers, runner>>

(* The first trigger spawns the thread; it has a run pending from the start. *)
LoopTriggers ==
    /\ applied
    /\ applied' = FALSE
    /\ triggers' = 1
    /\ IF stage = "none" THEN stage' = "loop" /\ pending' = TRUE
                         ELSE UNCHANGED <<stage, pending>>
    /\ UNCHANGED <<vars, failures, backingOff, seen, insight, givenUp>>

-----------------------------------------------------------------------------
(* runner_loop *)

(* The head of the loop: the schedule's tick, the drained triggers, the    *)
(* gate of the backoff; pending is cleared before the snapshot is read.    *)
TakeUp(tick) ==
    /\ stage = "loop"
    /\ LET wanted == pending \/ triggers = 1 \/ tick IN
       IF wanted /\ ~backingOff
       THEN stage' = "snapshot" /\ pending' = FALSE /\ seen' = cursor
       ELSE pending' = wanted /\ UNCHANGED <<stage, seen>>
    /\ triggers' = 0
    /\ UNCHANGED <<vars, applied, failures, backingOff, insight, givenUp>>

GetSnapshot ==
    /\ stage = "snapshot"
    /\ seen' = cursor
    /\ stage' = "inference"
    /\ UNCHANGED <<vars, host, pending, failures, backingOff, insight, givenUp>>

(* Mutant: triggers that came during the run are taken to be served. *)
EmitDrains ==
    /\ stage = "inference"
    /\ insight' = seen
    /\ failures' = 0
    /\ stage' = "loop" /\ seen' = Nothing
    /\ triggers' = 0
    /\ UNCHANGED <<vars, applied, pending, backingOff, givenUp>>

Emit ==
    /\ stage = "inference"
    /\ insight' = seen
    /\ failures' = 0
    /\ stage' = "loop" /\ seen' = Nothing
    /\ UNCHANGED <<vars, host, pending, backingOff, givenUp>>

(* The reader or the job returns an error. *)
RunFails ==
    /\ stage \in {"snapshot", "inference"}
    /\ IF failures + 1 <= MaxRetries
       THEN /\ failures' = failures + 1
            /\ pending' = TRUE /\ backingOff' = TRUE
            /\ UNCHANGED givenUp
       ELSE /\ failures' = 0
            /\ givenUp' = seen
            /\ UNCHANGED <<pending, backingOff>>
    /\ stage' = "loop" /\ seen' = Nothing
    /\ UNCHANGED <<vars, host, insight>>

BackoffEnds ==
    /\ backingOff
    /\ backingOff' = FALSE
    /\ UNCHANGED <<vars, host, stage, pending, failures, seen, insight, givenUp>>

RunnerTurn == TakeUp(FALSE) \/ GetSnapshot \/ Emit \/ RunFails

-----------------------------------------------------------------------------
HostNext ==
    \/ /\ \E r \in Requests : Submit(r) \/ Retry(r) \/ DispatchStep(r)
       /\ UNCHANGED <<host, runner>>
    \/ LoopApplies \/ LoopTriggers
    \/ RunnerTurn \/ TakeUp(TRUE) \/ BackoffEnds

(***************************************************************************)
(* Tasks are scheduled by tokio and threads by the OS: a running dispatch, *)
(* the loop and the runner go on, and a backoff ends.  Nobody has to send  *)
(* or to retry a request, and ticks are not relied on: they would serve    *)
(* what a lost trigger forgot.                                             *)
(***************************************************************************)
HostFairness ==
    /\ \A r \in Requests : WF_allVars(DispatchStep(r) /\ UNCHANGED <<host, runner>>)
    /\ WF_allVars(LoopApplies) /\ WF_allVars(LoopTriggers)
    /\ WF_allVars(RunnerTurn) /\ WF_allVars(BackoffEnds)

HostSpec == RunnerInit /\ [][HostNext]_allVars /\ HostFairness

-----------------------------------------------------------------------------
(***************************************************************************)
(* "Triggers are coalesced": none is lost by it.  Every event the read     *)
(* model shows is seen by an insight in the end, or by a run that failed   *)
(* once more than the retries allow.                                       *)
(***************************************************************************)
InsightFollows ==
    \A k \in Keys : \A n \in 1 .. Cardinality(Requests) :
        (cursor[k] >= n) ~> (insight[k] >= n \/ givenUp[k] >= n)
=============================================================================
