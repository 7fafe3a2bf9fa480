----------------------------- MODULE DesktopSync -----------------------------
(***************************************************************************)
(* The desktop client (crates/desktop/src): the command queue kept in      *)
(* SQLite, the offline flag, the cache of read models, and the actors that *)
(* post queued commands to the API: the adjust_stock handler of each       *)
(* command, the background SyncWorker and the sync_now command.            *)
(*                                                                         *)
(* Queue operations are single SQL statements and one step each; between   *)
(* them an actor works from the list it read.  Each makes a runtime and    *)
(* blocks on it, which panics where the caller is a task of a runtime      *)
(* itself, as all three actors are: at every queue call the actor may end  *)
(* (Panics), and nothing is assumed to go on.  A post and its reply are    *)
(* one step: the server may have applied a command whose reply says        *)
(* otherwise (502 after the append) or never comes.  Stock adjustments     *)
(* carry no key the server could recognise a repetition by.                *)
(*                                                                         *)
(* A command's id stands for its created_at; payloads, error texts, delays *)
(* between attempts and the events sent to the window are left out.  The   *)
(* cache is the set of items it holds: whichever way sync_read_model       *)
(* decides on a conflict, it stores the body it fetched.                   *)
(***************************************************************************)
EXTENDS Integers, Sequences, FiniteSets, SequencesExt, OrderedLists

CONSTANTS
    Cmds,        \* command ids, in created_at order
    Tenants,
    TenantOf,    \* the tenant of each command
    ItemOf,      \* the aggregate each command is for
    MaxRetries,  \* sync_command's max_retries
    MaxApplied,  \* bound on how often the server accepts one command
    MaxSyncs,    \* bound on calls of sync_now
    MaxFaults    \* bound on failing SQLite calls and process exits

ASSUME DesktopAssumption ==
    /\ Cmds \subseteq Nat /\ IsFiniteSet(Cmds)
    /\ TenantOf \in [Cmds -> Tenants]
    /\ MaxRetries \in Nat
    /\ MaxApplied \in Nat
    /\ MaxSyncs \in Nat
    /\ MaxFaults \in Nat

VARIABLES
    queue,     \* command_queue: the status of each command's row
    cached,    \* read_models: the items with a row
    mode,      \* OfflineMode.state
    worker,    \* the SyncWorker: "new", "running", told to shut down or "stopped"
    active,    \* its active_tenants
    pc,        \* where each actor is
    todo,      \* the commands an actor has still to post, the current one first
    tries,     \* attempts already made at the current command
    left,      \* tenants the worker has still to visit in this round
    tenant,    \* the tenant whose sync_tenant an actor is in
    applied,   \* (server) how often each command took effect
    syncs,     \* calls of sync_now so far
    faults,    \* failures so far
    unstored,  \* (history) commands whose INSERT failed
    excused    \* (history) commands with a reason to be applied twice

vars == <<queue, cached, mode, worker, active, pc, todo, tries,
          left, tenant, applied, syncs, faults, unstored, excused>>

Worker == <<"worker", 0>>
SyncNow == <<"sync_now", 0>>
Handler(c) == <<"adjust_stock", c>>
Handlers == {Handler(c) : c \in Cmds}
Actors == {Worker, SyncNow} \cup Handlers

Stored == {"Pending", "Syncing", "Synced", "Failed"}
Items == {ItemOf[c] : c \in Cmds}
NoTenant == "no tenant"

WorkerSteps == {"idle", "check", "tenants", "recheck", "list", "post", "accepted",
                "network", "failed", "read"}
HandlerSteps == {"new", "offline", "online", "post", "accepted", "network", "failed", "done"}

TypeOK ==
    /\ queue \in [Cmds -> Stored \cup {"Absent"}]
    /\ cached \subseteq Items
    /\ mode \in {"Online", "Offline"}
    /\ worker \in {"new", "running", "stopping", "stopped"}
    /\ active \subseteq Tenants
    /\ pc \in [Actors -> HandlerSteps \cup WorkerSteps]
    /\ \A a \in Actors : pc[a] \in IF a \in Handlers THEN HandlerSteps ELSE WorkerSteps
    /\ todo \in [Actors -> Seq(Cmds)]
    /\ tries \in [Actors -> 0 .. MaxRetries]
    /\ left \subseteq Tenants
    /\ tenant \in [Actors -> Tenants \cup {NoTenant}]
    /\ applied \in [Cmds -> 0 .. MaxApplied]
    /\ syncs \in 0 .. MaxSyncs
    /\ faults \in 0 .. MaxFaults
    /\ unstored \subseteq Cmds
    /\ excused \subseteq Cmds

Init ==
    /\ queue = [c \in Cmds |-> "Absent"]
    /\ cached = {}
    /\ mode = "Online"
    /\ worker = "new"
    /\ active = {}
    /\ pc = [a \in Actors |-> IF a \in Handlers THEN "new" ELSE "idle"]
    /\ todo = [a \in Actors |-> <<>>]
    /\ tries = [a \in Actors |-> 0]
    /\ left = {}
    /\ tenant = [a \in Actors |-> NoTenant]
    /\ applied = [c \in Cmds |-> 0]
    /\ syncs = 0
    /\ faults = 0
    /\ unstored = {}
    /\ excused = {}

At(a, step) == pc' = [pc EXCEPT ![a] = step]

(* A SQLite call may fail; its error is logged and the caller goes on. *)
Fails ==
    /\ faults < MaxFaults
    /\ faults' = faults + 1

-----------------------------------------------------------------------------
(* The command queue. *)

(* Mutant: what has been synced is listed too. *)
ListPendingAll(t) ==
    Ascending({c \in Cmds : TenantOf[c] = t /\ queue[c] \in {"Pending", "Failed", "Synced"}})

(* list_pending: what is Pending or Failed, in the order of created_at. *)
ListPending(t) ==
    Ascending({c \in Cmds : TenantOf[c] = t /\ queue[c] \in {"Pending", "Failed"}})

(* update_status and mark_failed change the row with the id, if there is one. *)
UpdateStatus(c, status) ==
    [queue EXCEPT ![c] = IF @ \in Stored THEN status ELSE @]

(* RetryFailed: retry_failed, at a caller's choice. *)
RetryFailed(c) ==
    /\ queue[c] = "Failed"
    /\ queue' = UpdateStatus(c, "Pending")
    /\ UNCHANGED <<cached, mode, syncs, worker, active, pc, todo, tries, left,
                   tenant, applied, faults, unstored, excused>>

(* Mutant: whatever is old is cleared, synced or not. *)
ClearOld ==
    \E old \in SUBSET {c \in Cmds : queue[c] \in Stored} \ {{}} :
        /\ queue' = [c \in Cmds |-> IF c \in old THEN "Absent" ELSE queue[c]]
        /\ UNCHANGED <<cached, mode, syncs, worker, active, pc, todo, tries, left,
                       tenant, applied, faults, unstored, excused>>

(* ClearSynced: clear_synced drops the synced commands that are a week old. *)
ClearSynced ==
    \E old \in SUBSET {c \in Cmds : queue[c] = "Synced"} \ {{}} :
        /\ queue' = [c \in Cmds |-> IF c \in old THEN "Absent" ELSE queue[c]]
        /\ UNCHANGED <<cached, mode, syncs, worker, active, pc, todo, tries, left,
                       tenant, applied, faults, unstored, excused>>

-----------------------------------------------------------------------------
(* sync_command: up to MaxRetries + 1 posts of the command at the head of  *)
(* the actor's list, each with one of these outcomes.                      *)

(* The server applied the command / the reply says so. *)
Outcomes == [took : BOOLEAN, reply : {"success", "conflict", "status", "none"}]

(* 2xx only for a command that was applied, 409 only for one that was not; *)
(* another status (502 when publishing failed) or no reply may be either.  *)
Possible(c, o) ==
    /\ o.took => applied[c] < MaxApplied
    /\ o.reply = "success" => o.took
    /\ o.reply = "conflict" => ~o.took

(* Mutant: a conflict is taken to mean that the command is already there. *)
AfterReplyConflictIsDone(a, reply) ==
    CASE reply \in {"success", "conflict"} -> "accepted"
      [] reply \in {"status", "none"} /\ tries[a] < MaxRetries -> "post"
      [] reply = "status" /\ tries[a] = MaxRetries -> "failed"
      [] OTHER -> "network"

(* Where sync_command stands after a reply. *)
AfterReply(a, reply) ==
    CASE reply = "success" -> "accepted"
      [] reply = "conflict" -> "failed"
      [] reply \in {"status", "none"} /\ tries[a] < MaxRetries -> "post"
      [] reply = "status" /\ tries[a] = MaxRetries -> "failed"
      [] OTHER -> "network"

SyncCommand(a) ==
    /\ pc[a] = "post"
    /\ LET c == Head(todo[a]) IN
       \E o \in Outcomes :
          /\ Possible(c, o)
          /\ applied' = [applied EXCEPT ![c] = IF o.took THEN @ + 1 ELSE @]
          /\ excused' = IF o.took /\ o.reply # "success" THEN excused \cup {c} ELSE excused
          /\ At(a, AfterReply(a, o.reply))
          /\ tries' = [tries EXCEPT ![a] =
                         IF AfterReply(a, o.reply) = "post" THEN @ + 1 ELSE 0]
    /\ UNCHANGED <<queue, cached, mode, syncs, worker, active, todo, left, tenant,
                   faults, unstored>>

-----------------------------------------------------------------------------
(* adjust_stock: the offline flag is read, then the command is queued, and *)
(* posted at once if the flag said online.                                 *)

AdjustStock(c) ==
    /\ pc[Handler(c)] = "new"
    /\ At(Handler(c), IF mode = "Offline" THEN "offline" ELSE "online")
    /\ UNCHANGED <<queue, cached, mode, syncs, worker, active, todo, tries, left,
                   tenant, applied, faults, unstored, excused>>

(* enqueue returns the command whether or not the INSERT succeeded. *)
Enqueue(c) ==
    /\ pc[Handler(c)] \in {"offline", "online"}
    /\ \/ /\ queue' = [queue EXCEPT ![c] = "Pending"]
          /\ UNCHANGED <<faults, unstored>>
       \/ /\ Fails
          /\ unstored' = unstored \cup {c}
          /\ UNCHANGED queue
    /\ IF pc[Handler(c)] = "online"
       THEN At(Handler(c), "post") /\ todo' = [todo EXCEPT ![Handler(c)] = <<c>>]
       ELSE At(Handler(c), "done") /\ UNCHANGED todo
    /\ UNCHANGED <<cached, mode, syncs, worker, active, tries, left, tenant, applied,
                   excused>>

(* What the caller of sync_command writes to the queue. *)
StatusAfter(a, c) ==
    CASE pc[a] = "accepted" -> UpdateStatus(c, "Synced")
      [] pc[a] = "network" /\ a \notin Handlers -> UpdateStatus(c, "Syncing")
      [] pc[a] = "failed" /\ a \notin Handlers -> UpdateStatus(c, "Failed")
      [] OTHER -> queue

(* The write, or its failure: a command that was applied and not marked    *)
(* will be sent again.                                                     *)
Mark(a, c) ==
    \/ /\ queue' = StatusAfter(a, c)
       /\ UNCHANGED <<faults, excused>>
    \/ /\ StatusAfter(a, c) # queue
       /\ Fails
       /\ excused' = excused \cup {c}
       /\ UNCHANGED queue

(* The handler marks what was accepted and leaves the rest as it is. *)
HandlerReturns(c) ==
    /\ pc[Handler(c)] \in {"accepted", "network", "failed"}
    /\ Mark(Handler(c), c)
    /\ todo' = [todo EXCEPT ![Handler(c)] = <<>>]
    /\ At(Handler(c), "done")
    /\ UNCHANGED <<cached, mode, syncs, worker, active, tries, left, tenant, applied,
                   unstored>>

-----------------------------------------------------------------------------
(* SyncManager::sync_tenant, for the worker and for sync_now. *)

(* After its last command the worker visits the next tenant. *)
NextStep(a, rest) ==
    IF rest # <<>> THEN "post" ELSE IF a = Worker THEN "tenants" ELSE "idle"

(* Another actor still has the command in hand. *)
Held(a, c) == \E b \in Actors \ {a} : c \in ToSet(todo[b])

(* The list is read once. *)
ReadPending(a) ==
    /\ pc[a] = "list"
    /\ \/ /\ todo' = [todo EXCEPT ![a] = ListPending(tenant[a])]
          /\ excused' = excused \cup {c \in ToSet(ListPending(tenant[a])) : Held(a, c)}
          /\ UNCHANGED faults
       \/ /\ Fails
          /\ UNCHANGED <<todo, excused>>
    /\ At(a, NextStep(a, todo'[a]))
    /\ UNCHANGED <<queue, cached, mode, syncs, worker, active, tries, left, tenant,
                   applied, unstored>>

(* The loop's three branches on sync_command's result. *)
MarkCommand(a) ==
    /\ pc[a] \in {"accepted", "network", "failed"}
    /\ Mark(a, Head(todo[a]))
    /\ IF pc[a] = "accepted"
       THEN At(a, "read") /\ UNCHANGED todo
       ELSE At(a, NextStep(a, Tail(todo[a]))) /\ todo' = [todo EXCEPT ![a] = Tail(@)]
    /\ UNCHANGED <<cached, mode, syncs, worker, active, tries, left, tenant, applied,
                   unstored>>

(* sync_read_model: the fetched body is cached; an error on the way is     *)
(* dropped by sync_tenant.                                                 *)
SyncReadModel(a) ==
    /\ pc[a] = "read"
    /\ \/ cached' = cached \cup {ItemOf[Head(todo[a])]}
       \/ UNCHANGED cached
    /\ todo' = [todo EXCEPT ![a] = Tail(@)]
    /\ At(a, NextStep(a, Tail(todo[a])))
    /\ UNCHANGED <<queue, mode, syncs, worker, active, tries, left, tenant, applied,
                   faults, unstored, excused>>

SyncTenant(a) == ReadPending(a) \/ SyncCommand(a) \/ MarkCommand(a) \/ SyncReadModel(a)

(* sync_now holds the lock on the offline flag while it tests the network. *)
SyncNowCalled(t) ==
    /\ pc[SyncNow] = "idle"
    /\ syncs < MaxSyncs
    /\ syncs' = syncs + 1
    /\ \/ /\ mode' = "Offline"
          /\ UNCHANGED <<pc, tenant>>
       \/ /\ mode' = "Online"
          /\ At(SyncNow, "list")
          /\ tenant' = [tenant EXCEPT ![SyncNow] = t]
    /\ UNCHANGED <<queue, cached, worker, active, todo, tries, left, applied,
                   faults, unstored, excused>>

(* resolve_conflict with UseRemote; the other resolutions change nothing. *)
ResolveConflict(i) ==
    /\ cached' = cached \cup {i}
    /\ UNCHANGED <<queue, mode, syncs, worker, active, pc, todo, tries, left, tenant,
                   applied, faults, unstored, excused>>

(* LocalCache::clear_tenant and clear_all. *)
ClearCache ==
    \E ts \in {{t} : t \in Tenants} \cup {Tenants} :
        /\ cached' = cached \ {ItemOf[c] : c \in {d \in Cmds : TenantOf[d] \in ts}}
        /\ UNCHANGED <<queue, mode, syncs, worker, active, pc, todo, tries, left, tenant,
                       applied, faults, unstored, excused>>

-----------------------------------------------------------------------------
(* SyncWorker.  start consumes the worker, so it runs with the tenants     *)
(* that were added to it, and not removed, before; shutdown leaves a permit *)
(* that the loop takes at one of its turns.                                *)

StartWorker ==
    /\ worker = "new"
    /\ active' \in SUBSET Tenants
    /\ worker' \in {"running", "stopping"}
    /\ UNCHANGED <<queue, cached, mode, pc, todo, tries, left, tenant, applied, syncs,
                   faults, unstored, excused>>

StopWorker ==
    /\ worker = "stopping" /\ pc[Worker] = "idle"
    /\ worker' = "stopped"
    /\ UNCHANGED <<queue, cached, mode, active, pc, todo, tries, left, tenant, applied,
                   syncs, faults, unstored, excused>>

(* A tick of the interval does nothing while the flag says offline: the    *)
(* worker never finds out that the network is back.                        *)
Tick ==
    /\ worker \in {"running", "stopping"} /\ pc[Worker] = "idle"
    /\ mode = "Online"
    /\ At(Worker, "check")
    /\ UNCHANGED <<queue, cached, mode, syncs, worker, active, todo, tries, left,
                   tenant, applied, faults, unstored, excused>>

CheckConnectivity ==
    /\ pc[Worker] = "check"
    /\ \/ mode' = "Offline" /\ At(Worker, "idle") /\ UNCHANGED left
       \/ mode' = "Online" /\ At(Worker, "tenants") /\ left' = active
    /\ UNCHANGED <<queue, cached, syncs, worker, active, todo, tries, tenant, applied,
                   faults, unstored, excused>>

(* The next tenant, skipped if nothing is pending or the flag went offline. *)
VisitTenant ==
    /\ pc[Worker] = "tenants"
    /\ IF left = {}
       THEN At(Worker, "idle") /\ UNCHANGED <<left, tenant, faults>>
       ELSE \E t \in left :
              /\ left' = left \ {t}
              /\ \/ /\ ListPending(t) # <<>> /\ mode = "Online"
                    /\ At(Worker, "recheck")
                    /\ tenant' = [tenant EXCEPT ![Worker] = t]
                    /\ UNCHANGED faults
                 \/ /\ ListPending(t) = <<>> \/ mode = "Offline"
                    /\ UNCHANGED <<pc, tenant, faults>>
                 \/ /\ Fails
                    /\ UNCHANGED <<pc, tenant>>
    /\ UNCHANGED <<queue, cached, mode, syncs, worker, active, todo, tries, applied,
                   unstored, excused>>

(* sync_tenant_internal tests the network again. *)
Recheck ==
    /\ pc[Worker] = "recheck"
    /\ \/ mode' = "Offline" /\ At(Worker, "tenants")
       \/ mode' = "Online" /\ At(Worker, "list")
    /\ UNCHANGED <<queue, cached, syncs, worker, active, todo, tries, left, tenant,
                   applied, faults, unstored, excused>>

WorkerStep == StopWorker \/ Tick \/ CheckConnectivity \/ VisitTenant \/ Recheck
                \/ SyncTenant(Worker)

(* The actor's next step is a call of the queue. *)
CallsQueue(a) ==
    \/ a \in Handlers /\ pc[a] \in {"offline", "online", "accepted"}
    \/ a \notin Handlers /\ pc[a] \in {"list", "accepted", "network", "failed"}
    \/ a = Worker /\ pc[a] = "tenants" /\ left # {}

(* The call panics before the statement is sent: the actor's task ends     *)
(* with what it had in hand, the worker's loop for good.                   *)
Panics(a) ==
    /\ CallsQueue(a)
    /\ At(a, IF a \in Handlers THEN "done" ELSE "idle")
    /\ todo' = [todo EXCEPT ![a] = <<>>]
    /\ excused' = IF pc[a] = "accepted" THEN excused \cup {Head(todo[a])} ELSE excused
    /\ unstored' = unstored \cup
                      {c \in Cmds : a = Handler(c) /\ pc[a] \in {"offline", "online"}}
    /\ IF a = Worker THEN worker' = "stopped" /\ left' = {} ELSE UNCHANGED <<worker, left>>
    /\ UNCHANGED <<queue, cached, mode, active, tries, tenant, applied, syncs, faults>>

(* The process ends and is started again: SQLite's tables stay. *)
Restart ==
    /\ Fails
    /\ mode' = "Online"
    /\ worker' = "new"
    /\ active' = {}
    /\ pc' = [a \in Actors |->
                IF a \notin Handlers THEN "idle" ELSE IF pc[a] = "new" THEN "new" ELSE "done"]
    /\ todo' = [a \in Actors |-> <<>>]
    /\ tries' = [a \in Actors |-> 0]
    /\ left' = {}
    /\ tenant' = [a \in Actors |-> NoTenant]
    /\ excused' = excused \cup {c \in Cmds : \E a \in Actors : c \in ToSet(todo[a])}
    /\ unstored' = unstored \cup {c \in Cmds : pc[Handler(c)] \in {"offline", "online"}}
    /\ UNCHANGED <<queue, cached, applied, syncs>>

Next ==
    \/ \E c \in Cmds : AdjustStock(c) \/ Enqueue(c) \/ SyncCommand(Handler(c))
                         \/ HandlerReturns(c) \/ RetryFailed(c)
    \/ ClearSynced \/ ClearCache
    \/ \E t \in Tenants : SyncNowCalled(t)
    \/ SyncTenant(SyncNow)
    \/ \E i \in Items : ResolveConflict(i)
    \/ StartWorker \/ WorkerStep
    \/ \E a \in Actors : Panics(a)
    \/ Restart

Spec == Init /\ [][Next]_vars

-----------------------------------------------------------------------------
(* A command the queue calls Synced has taken effect on the server,        *)
(* whichever actor marked it and however often it was marked over          *)
(* (sync_tenant and adjust_stock call mark_synced only on a success).      *)
SyncedIsApplied ==
    \A c \in Cmds : queue[c] = "Synced" => applied[c] > 0

(* A command takes effect twice only for a reason: a reply that was lost   *)
(* or said otherwise, a mark that failed or panicked, an exit with the     *)
(* command in hand, or a list read while another actor had the command in hand.       *)
(* Nothing else makes the client post a command again.                     *)
TwiceForAReason ==
    \A c \in Cmds : applied[c] > 1 => c \in excused

(* When adjust_stock has returned Ok the command is in the queue or has    *)
(* taken effect, unless its INSERT failed or was never sent ("Command is   *)
(* queued, will sync later").                                              *)
AcceptedIsKept ==
    \A c \in Cmds :
        pc[Handler(c)] = "done" /\ c \notin unstored => queue[c] \in Stored \/ applied[c] > 0
=============================================================================
