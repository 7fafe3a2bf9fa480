----------------------------- MODULE MCJobQueue -----------------------------
(* Small instances of JobQueue for TLC. *)
EXTENDS JobQueue, TLC

CONSTANTS w1, w2

AllResults == {"Success", "Failure", "RetryNow", "RetryAfter"}

(* w2 filters by a tenant that owns job 1 only. *)
TenantFilter == (w1 :> Jobs) @@ (w2 :> {1})

(* Job 2 uses RetryPolicy::no_retry(). *)
Attempts == [j \in Jobs |-> IF j = 1 THEN 2 ELSE 0]

=============================================================================
