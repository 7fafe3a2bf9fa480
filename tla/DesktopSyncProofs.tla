-------------------------- MODULE DesktopSyncProofs --------------------------
(***************************************************************************)
(* Proofs of the safety properties of DesktopSync for any commands,        *)
(* tenants, retries and failures.                                          *)
(*                                                                         *)
(* The argument: a command nobody had a reason to excuse is in the hands   *)
(* of at most one actor (OneHolder), on a list that names it once, and is  *)
(* not applied until that actor's post succeeds (FreshUntilAccepted);      *)
(* then it is marked before the actor lets go of it, so no later list has  *)
(* it.                                                                     *)
(***************************************************************************)
EXTENDS DesktopSync, FiniteSetTheorems, TLAPS

-----------------------------------------------------------------------------
(* No element is twice in a list. *)
Distinct(s) == \A i, j \in 1 .. Len(s) : s[i] = s[j] => i = j

(* Ascending lists each member of a finite set of numbers once: as many    *)
(* members are smaller than one as its place says, so places and members   *)
(* correspond one to one.                                                  *)
LEMMA AscendingLists ==
    ASSUME NEW S \in SUBSET Nat, IsFiniteSet(S)
    PROVE  /\ Ascending(S) \in Seq(S) /\ Distinct(Ascending(S))
           /\ ToSet(Ascending(S)) = S
  <1> DEFINE Smaller(c) == {d \in S : d < c}
             n == Cardinality(S)
             rank == [c \in S |-> Cardinality(Smaller(c))]
             l == Ascending(S)
  <1>1. n \in Nat /\ \A c \in S : c \in Nat
    BY FS_CardinalityType
  <1>2. ASSUME NEW c \in S PROVE IsFiniteSet(Smaller(c)) /\ rank[c] \in 0 .. n - 1
    <2>1. IsFiniteSet(Smaller(c)) /\ Cardinality(Smaller(c)) <= n
          /\ (n = Cardinality(Smaller(c)) => S = Smaller(c))
      BY FS_Subset
    <2>2. c \notin Smaller(c)
      OBVIOUS
    <2>3. Cardinality(Smaller(c)) \in Nat /\ Cardinality(Smaller(c)) # n
      BY <2>1, <2>2, FS_CardinalityType
    <2> QED
      BY <1>1, <2>1, <2>3
  <1>3. ASSUME NEW c \in S, NEW d \in S, c < d PROVE rank[c] < rank[d]
    <2> c \in Nat /\ d \in Nat
      BY <1>1
    <2>0. ASSUME NEW x \in S, x < c PROVE x < d
      <3>1. x \in Nat
        BY <1>1
      <3> QED
        BY <1>3, <2>0, <3>1
    <2>1. Smaller(c) \subseteq Smaller(d)
      BY <2>0
    <2>2. c \in Smaller(d) /\ ~ c < c
      BY <1>3
    <2>3. /\ Cardinality(Smaller(c)) <= Cardinality(Smaller(d))
          /\ (Cardinality(Smaller(d)) = Cardinality(Smaller(c)) => Smaller(d) = Smaller(c))
      BY <1>2, <2>1, FS_Subset
    <2>4. Smaller(d) # Smaller(c)
      BY <2>2
    <2>5. rank[c] \in Nat /\ rank[d] \in Nat
      <3>1. rank[c] \in 0 .. n - 1 /\ rank[d] \in 0 .. n - 1
        BY <1>2
      <3> HIDE DEF n, rank
      <3> QED
        BY <1>1, <3>1
    <2> HIDE DEF Smaller
    <2> QED
      BY <2>3, <2>4, <2>5
  <1>4. rank \in Injection(S, 0 .. n - 1)
    <2>1. rank \in [S -> 0 .. n - 1]
      BY <1>2
    <2>2. \A c, d \in S : rank[c] = rank[d] => c = d
      <3> HIDE DEF rank
      <3>1. \A c, d \in Nat : c < d \/ d < c \/ c = d
        OBVIOUS
      <3>2. \A c \in S : rank[c] \in 0 .. n - 1
        BY <1>2
      <3> HIDE DEF n
      <3>3. \A c \in S : rank[c] \in Nat
        BY <1>1, <3>2
      <3> QED
        BY <1>1, <1>3, <3>1, <3>3
    <2> HIDE DEF rank
    <2> QED
      BY <2>1, <2>2, Zenon DEF Injection, IsInjective
  <1>5. IsFiniteSet(0 .. n - 1) /\ Cardinality(0 .. n - 1) = n
    <2> HIDE DEF n
    <2>1. n - 1 \in Int /\ (0 > n - 1 => n = 0) /\ (n - 1) - 0 + 1 = n
      BY <1>1
    <2> QED
      BY <1>1, <2>1, FS_Interval
  <1>6. rank \in Surjection(S, 0 .. n - 1)
    <2> HIDE DEF rank
    <2> QED
      BY <1>4, <1>5, FS_Injection
  <1>7. \A r \in 0 .. n - 1 : \E c \in S : rank[c] = r
    <2> HIDE DEF rank
    <2> QED
      BY <1>6, Zenon DEF Surjection
  <1>8. ASSUME NEW i \in 1 .. n PROVE l[i] \in S /\ rank[l[i]] = i - 1
    <2>1. i - 1 \in 0 .. n - 1
      BY <1>1
    <2>2. \E c \in S : Cardinality(Smaller(c)) = i - 1
      BY <1>7, <2>1
    <2>3. l[i] = CHOOSE c \in S : Cardinality(Smaller(c)) = i - 1
      BY DEF Ascending
    <2> HIDE DEF l
    <2> QED
      BY <2>2, <2>3
  <1>9. l \in [1 .. n -> S] /\ DOMAIN l = 1 .. n
    BY <1>8 DEF Ascending
  <1>10. l \in Seq(S) /\ Len(l) = n
    <2> HIDE DEF l, n
    <2> QED
      BY <1>1, <1>9
  <1>11. Distinct(l)
    <2> HIDE DEF l, n, rank
    <2> QED
      BY <1>1, <1>8, <1>10 DEF Distinct
  <1>12. ASSUME NEW c \in S PROVE \E i \in 1 .. n : l[i] = c
    <2>1. rank[c] \in 0 .. n - 1 /\ rank[c] + 1 \in 1 .. n /\ rank[c] + 1 - 1 = rank[c]
      BY <1>1, <1>2
    <2>2. \A d \in S : rank[d] = rank[c] => d = c
      BY <1>4, Zenon DEF Injection, IsInjective
    <2> HIDE DEF l, n, rank
    <2>3. PICK i \in 1 .. n : i - 1 = rank[c]
      BY <2>1
    <2> QED
      BY <1>8, <2>2, <2>3
  <1>13. ToSet(l) = S
    <2> HIDE DEF l, n, rank
    <2> QED
      BY <1>8, <1>9, <1>12 DEF ToSet
  <1> QED
    BY <1>10, <1>11, <1>13

-----------------------------------------------------------------------------

(* A command that is not yet queued is unknown to everyone. *)
NewIsUnknown ==
    \A c \in Cmds : pc[Handler(c)] \in {"new", "offline", "online"} =>
        /\ queue[c] = "Absent" /\ applied[c] = 0
        /\ \A a \in Actors : c \notin ToSet(todo[a])

(* What an actor does with a list in hand. *)
Busy == {"post", "accepted", "network", "failed", "read"}

(* A list names a command once, and an actor has one exactly while it      *)
(* works on it; a handler's is its own command.                            *)
ListsAreSound ==
    \A a \in Actors :
        /\ Distinct(todo[a])
        /\ pc[a] \in Busy <=> todo[a] # <<>>
        /\ \A c \in Cmds : a = Handler(c) => todo[a] \in {<<>>, <<c>>}

(* Once an actor's post succeeded, its command is applied. *)
AcceptedIsApplied ==
    \A a \in Actors : pc[a] = "accepted" => applied[Head(todo[a])] > 0

(* Without a reason to be posted again, a command is held by one actor. *)
OneHolder ==
    \A c \in Cmds \ excused : \A a, b \in Actors :
        c \in ToSet(todo[a]) /\ c \in ToSet(todo[b]) => a = b

(* It is not applied before that actor's post succeeded ... *)
FreshUntilAccepted ==
    \A c \in Cmds \ excused : \A a \in Actors : c \in ToSet(todo[a]) =>
        \/ applied[c] = 0
        \/ c = Head(todo[a]) /\ pc[a] = "accepted"
        \/ c = Head(todo[a]) /\ pc[a] = "read" /\ queue[c] \in {"Synced", "Absent"}

(* ... and is no longer listed afterwards. *)
ListedIsFresh ==
    \A c \in Cmds \ excused :
        /\ applied[c] <= 1
        /\ queue[c] \in {"Pending", "Failed"} /\ (\A a \in Actors : c \notin ToSet(todo[a])) =>
               applied[c] = 0

(* A queued command stays in the queue until it is applied. *)
KeptOnceQueued ==
    \A c \in Cmds :
        pc[Handler(c)] \in {"post", "accepted", "network", "failed", "done"} /\ c \notin unstored =>
            queue[c] \in Stored \/ applied[c] > 0

SyncInv ==
    /\ TypeOK
    /\ NewIsUnknown
    /\ ListsAreSound
    /\ AcceptedIsApplied
    /\ OneHolder
    /\ FreshUntilAccepted
    /\ ListedIsFresh
    /\ KeptOnceQueued
    /\ SyncedIsApplied

-----------------------------------------------------------------------------
(* Lists *)

(* What is left of a list when its first command is done. *)
LEMMA TailOfList ==
    ASSUME NEW S, NEW s \in Seq(S), s # <<>>, Distinct(s)
    PROVE  /\ Tail(s) \in Seq(S) /\ Distinct(Tail(s))
           /\ Head(s) \in S /\ Head(s) \in ToSet(s)
           /\ ToSet(Tail(s)) = ToSet(s) \ {Head(s)}
           /\ Tail(s) # <<>> => Head(Tail(s)) # Head(s)
  <1>1. /\ Len(s) \in Nat /\ Len(s) >= 1 /\ DOMAIN s = 1 .. Len(s) /\ Head(s) = s[1]
        /\ Tail(s) \in Seq(S) /\ Len(Tail(s)) = Len(s) - 1 /\ DOMAIN Tail(s) = 1 .. Len(s) - 1
        /\ \A i \in 1 .. Len(s) - 1 : Tail(s)[i] = s[i + 1]
    OBVIOUS
  <1>2. Distinct(Tail(s))
    BY <1>1 DEF Distinct
  <1>3. Head(s) \in S /\ Head(s) \in ToSet(s)
    BY <1>1 DEF ToSet
  <1>4. ToSet(Tail(s)) = ToSet(s) \ {Head(s)}
    <2>1. \A x \in ToSet(Tail(s)) : x \in ToSet(s) /\ x # Head(s)
      BY <1>1 DEF ToSet, Distinct
    <2>2. \A x \in ToSet(s) : x # Head(s) => x \in ToSet(Tail(s))
      <3> TAKE x \in ToSet(s)
      <3> HAVE x # Head(s)
      <3>1. PICK i \in 1 .. Len(s) : x = s[i]
        BY <1>1 DEF ToSet
      <3>2. i - 1 \in 1 .. Len(s) - 1 /\ (i - 1) + 1 = i
        BY <1>1, <3>1
      <3> QED
        BY <1>1, <3>1, <3>2 DEF ToSet
    <2> QED
      BY <2>1, <2>2
  <1>5. Tail(s) # <<>> => Head(Tail(s)) # Head(s)
    BY <1>1 DEF Distinct
  <1> QED
    BY <1>1, <1>2, <1>3, <1>4, <1>5

(* Actors are different actors. *)
LEMMA ActorsDiffer ==
    /\ Worker \in Actors /\ SyncNow \in Actors /\ Worker # SyncNow
    /\ Worker \notin Handlers /\ SyncNow \notin Handlers
    /\ \A c \in Cmds : Handler(c) \in Handlers /\ Handler(c) \in Actors
    /\ \A c : Handler(c) # Worker /\ Handler(c) # SyncNow
    /\ \A c, d : Handler(c) = Handler(d) => c = d
    /\ \A a \in Actors : a \in Handlers => \E c \in Cmds : a = Handler(c)
  BY DEF Actors, Handlers, Handler, Worker, SyncNow

-----------------------------------------------------------------------------
(* Steps that touch neither the queue nor a list *)

(* The worker or sync_now moves on without a list, or nobody moves. *)
LEMMA QuietMove ==
    ASSUME SyncInv, TypeOK', UNCHANGED <<queue, todo, applied, excused, unstored>>,
           NEW a \in {Worker, SyncNow}, NEW step,
           pc' = pc \/ (pc[a] \notin Busy /\ step \notin Busy /\ pc' = [pc EXCEPT ![a] = step])
    PROVE  SyncInv'
  <1> USE DEF SyncInv
  <1>1. a \in Actors /\ \A c \in Cmds : Handler(c) \in Actors /\ Handler(c) # a
    BY ActorsDiffer
  <1>2. \A b \in Actors : b # a => pc'[b] = pc[b]
    BY DEF TypeOK
  <1>3. pc'[a] = pc[a] \/ (pc[a] \notin Busy /\ pc'[a] \notin Busy)
    BY <1>1 DEF TypeOK
  <1>4. NewIsUnknown'
    BY <1>1, <1>2 DEF NewIsUnknown
  <1>5. ListsAreSound'
    BY <1>2, <1>3 DEF ListsAreSound
  <1>6. AcceptedIsApplied'
    BY <1>2, <1>3 DEF AcceptedIsApplied, Busy
  <1>7. OneHolder'
    BY DEF OneHolder
  <1>8. FreshUntilAccepted'
    <2> SUFFICES ASSUME NEW c \in Cmds \ excused, NEW b \in Actors, c \in ToSet(todo[b])
                 PROVE  \/ applied[c] = 0
                        \/ c = Head(todo[b]) /\ pc'[b] = "accepted"
                        \/ c = Head(todo[b]) /\ pc'[b] = "read" /\ queue[c] \in {"Synced", "Absent"}
      BY DEF FreshUntilAccepted
    <2> QED
      BY <1>2, <1>3 DEF FreshUntilAccepted, Busy
  <1>9. ListedIsFresh'
    BY DEF ListedIsFresh
  <1>10. KeptOnceQueued' /\ SyncedIsApplied'
    BY <1>1, <1>2 DEF KeptOnceQueued, SyncedIsApplied
  <1> QED
    BY <1>4, <1>5, <1>6, <1>7, <1>8, <1>9, <1>10

(* The steps of the cache, of the worker's loop and of sync_now's call. *)
LEMMA LoopInv ==
    ASSUME SyncInv,
           \/ ClearCache \/ StartWorker \/ StopWorker \/ Tick \/ CheckConnectivity
           \/ VisitTenant \/ Recheck \/ UNCHANGED vars
           \/ \E t \in Tenants : SyncNowCalled(t)
           \/ \E i \in Items : ResolveConflict(i)
    PROVE  SyncInv'
  <1> USE DEF SyncInv
  <1>1. Worker \in Actors /\ SyncNow \in Actors /\ Worker \notin Handlers /\ SyncNow \notin Handlers
    BY ActorsDiffer
  <1>2. CASE UNCHANGED vars
    BY <1>2, QuietMove DEF vars, TypeOK
  <1>3. CASE ClearCache
    <2>1. cached' \subseteq cached /\ UNCHANGED <<queue, mode, syncs, worker, active, pc, todo,
                                     tries, left, tenant, applied, faults, unstored, excused>>
      BY <1>3 DEF ClearCache
    <2>2. TypeOK'
      BY <2>1 DEF TypeOK
    <2> QED
      BY <2>1, <2>2, QuietMove
  <1>4. ASSUME NEW i \in Items, ResolveConflict(i) PROVE SyncInv'
    <2>1. cached' = cached \cup {i} /\ UNCHANGED <<queue, mode, syncs, worker, active, pc, todo,
                                      tries, left, tenant, applied, faults, unstored, excused>>
      BY <1>4 DEF ResolveConflict
    <2>2. TypeOK'
      BY <2>1 DEF TypeOK
    <2> QED
      BY <2>1, <2>2, QuietMove
  <1>5. CASE StartWorker \/ StopWorker
    <2>1. /\ worker' \in {"new", "running", "stopping", "stopped"} /\ active' \in SUBSET Tenants
          /\ UNCHANGED <<queue, cached, mode, pc, todo, tries, left, tenant, applied, syncs,
                         faults, unstored, excused>>
      BY <1>5 DEF StartWorker, StopWorker, TypeOK
    <2>2. TypeOK'
      BY <2>1 DEF TypeOK
    <2> QED
      BY <2>1, <2>2, QuietMove
  <1>6. CASE Tick
    <2>1. /\ pc[Worker] = "idle" /\ pc' = [pc EXCEPT ![Worker] = "check"]
          /\ UNCHANGED <<queue, cached, mode, syncs, worker, active, todo, tries, left,
                         tenant, applied, faults, unstored, excused>>
      BY <1>6 DEF Tick, At
    <2>2. TypeOK'
      BY <1>1, <2>1 DEF TypeOK, WorkerSteps
    <2>3. "idle" \notin Busy /\ "check" \notin Busy
      BY DEF Busy
    <2> QED
      BY <2>1, <2>2, <2>3, QuietMove
  <1>7. CASE CheckConnectivity
    <2>1. PICK step \in {"idle", "tenants"} :
          /\ pc[Worker] = "check" /\ pc' = [pc EXCEPT ![Worker] = step]
          /\ mode' \in {"Online", "Offline"} /\ left' \in {left, active}
          /\ UNCHANGED <<queue, cached, syncs, worker, active, todo, tries, tenant, applied,
                         faults, unstored, excused>>
      BY <1>7 DEF CheckConnectivity, At
    <2>2. TypeOK'
      BY <1>1, <2>1 DEF TypeOK, WorkerSteps
    <2>3. "check" \notin Busy /\ step \notin Busy
      BY DEF Busy
    <2> QED
      BY <2>1, <2>2, <2>3, QuietMove
  <1>8. CASE VisitTenant
    <2>1. PICK step \in {"idle", "recheck"} :
          /\ pc[Worker] = "tenants" /\ (pc' = pc \/ pc' = [pc EXCEPT ![Worker] = step])
          /\ left' \subseteq left /\ (faults' = faults \/ Fails)
          /\ tenant' = tenant \/ \E t \in left : tenant' = [tenant EXCEPT ![Worker] = t]
          /\ UNCHANGED <<queue, cached, mode, syncs, worker, active, todo, tries, applied,
                         unstored, excused>>
      BY <1>8 DEF VisitTenant, At
    <2>2. TypeOK'
      <3>1. faults' \in 0 .. MaxFaults
        BY <2>1, DesktopAssumption DEF TypeOK, Fails
      <3>2. tenant' \in [Actors -> Tenants \cup {NoTenant}]
        BY <2>1 DEF TypeOK
      <3> QED
        BY <1>1, <2>1, <3>1, <3>2 DEF TypeOK, WorkerSteps
    <2>3. "tenants" \notin Busy /\ step \notin Busy
      BY DEF Busy
    <2> QED
      BY <2>1, <2>2, <2>3, QuietMove
  <1>9. CASE Recheck
    <2>1. PICK step \in {"tenants", "list"} :
          /\ pc[Worker] = "recheck" /\ pc' = [pc EXCEPT ![Worker] = step]
          /\ mode' \in {"Online", "Offline"}
          /\ UNCHANGED <<queue, cached, syncs, worker, active, todo, tries, left, tenant,
                         applied, faults, unstored, excused>>
      BY <1>9 DEF Recheck, At
    <2>2. TypeOK'
      BY <1>1, <2>1 DEF TypeOK, WorkerSteps
    <2>3. "recheck" \notin Busy /\ step \notin Busy
      BY DEF Busy
    <2> QED
      BY <2>1, <2>2, <2>3, QuietMove
  <1>10. ASSUME NEW t \in Tenants, SyncNowCalled(t) PROVE SyncInv'
    <2>1. /\ pc[SyncNow] = "idle" /\ syncs < MaxSyncs /\ syncs' = syncs + 1
          /\ pc' = pc \/ pc' = [pc EXCEPT ![SyncNow] = "list"]
          /\ mode' \in {"Online", "Offline"}
          /\ tenant' = tenant \/ tenant' = [tenant EXCEPT ![SyncNow] = t]
          /\ UNCHANGED <<queue, cached, worker, active, todo, tries, left, applied,
                         faults, unstored, excused>>
      BY <1>10 DEF SyncNowCalled, At
    <2>2. TypeOK'
      <3>1. syncs' \in 0 .. MaxSyncs
        BY <2>1, DesktopAssumption DEF TypeOK
      <3> QED
        BY <1>1, <2>1, <3>1 DEF TypeOK, WorkerSteps
    <2>3. "idle" \notin Busy /\ "list" \notin Busy
      BY DEF Busy
    <2> QED
      BY <2>1, <2>2, <2>3, QuietMove
  <1> QED
    BY <1>2, <1>3, <1>4, <1>5, <1>6, <1>7, <1>8, <1>9, <1>10

-----------------------------------------------------------------------------
(* Steps of the queue *)

(* A step that only lists a failed command anew or clears synced ones. *)
LEMMA QueueInv ==
    ASSUME SyncInv, ClearSynced \/ \E c \in Cmds : RetryFailed(c)
    PROVE  SyncInv'
  <1> USE DEF SyncInv
  <1>1. UNCHANGED <<cached, mode, syncs, worker, active, pc, todo, tries, left,
                    tenant, applied, faults, unstored, excused>>
    BY DEF ClearSynced, RetryFailed
  <1>2. queue' \in [Cmds -> Stored \cup {"Absent"}]
        /\ \A c \in Cmds : \/ queue'[c] = queue[c]
                           \/ queue[c] = "Failed" /\ queue'[c] = "Pending"
                           \/ queue[c] = "Synced" /\ queue'[c] = "Absent"
    <2>1. CASE ClearSynced
      BY <2>1 DEF ClearSynced, TypeOK
    <2>2. ASSUME NEW c \in Cmds, RetryFailed(c)
          PROVE  queue' = [queue EXCEPT ![c] = "Pending"] /\ queue[c] = "Failed"
      BY <2>2 DEF RetryFailed, UpdateStatus, Stored
    <2>3. ASSUME NEW c \in Cmds, RetryFailed(c)
          PROVE  <1>2!2
      BY <2>2, <2>3 DEF TypeOK
    <2>4. ASSUME NEW c \in Cmds, RetryFailed(c)
          PROVE  <1>2!1
      BY <2>2, <2>4 DEF TypeOK, Stored
    <2> QED
      BY <2>1, <2>3, <2>4
  <1>3. TypeOK'
    BY <1>1, <1>2 DEF TypeOK
  <1>4. NewIsUnknown'
    BY <1>1, <1>2 DEF NewIsUnknown
  <1>5. ListsAreSound' /\ AcceptedIsApplied' /\ OneHolder'
    BY <1>1 DEF ListsAreSound, AcceptedIsApplied, OneHolder
  <1>6. FreshUntilAccepted'
    BY <1>1, <1>2 DEF FreshUntilAccepted
  <1>7. ListedIsFresh'
    BY <1>1, <1>2 DEF ListedIsFresh
  <1>8. KeptOnceQueued'
    BY <1>1, <1>2 DEF KeptOnceQueued, SyncedIsApplied, Stored
  <1>9. SyncedIsApplied'
    BY <1>1, <1>2 DEF SyncedIsApplied
  <1> QED
    BY <1>3, <1>4, <1>5, <1>6, <1>7, <1>8, <1>9

(* adjust_stock reads the flag. *)
LEMMA AdjustStockInv ==
    ASSUME SyncInv, NEW c \in Cmds, AdjustStock(c)
    PROVE  SyncInv'
  <1> USE DEF SyncInv
  <1>1. PICK step \in {"offline", "online"} :
            pc[Handler(c)] = "new" /\ pc' = [pc EXCEPT ![Handler(c)] = step]
    BY DEF AdjustStock, At
  <1>2. UNCHANGED <<queue, cached, mode, syncs, worker, active, todo, tries, left,
                    tenant, applied, faults, unstored, excused>>
    BY DEF AdjustStock
  <1>3. /\ Handler(c) \in Actors /\ Handler(c) \in Handlers
        /\ \A d \in Cmds : Handler(d) \in Actors /\ (Handler(d) = Handler(c) => d = c)
    BY ActorsDiffer
  <1>4. pc'[Handler(c)] = step /\ \A b \in Actors : b # Handler(c) => pc'[b] = pc[b]
    BY <1>1, <1>3 DEF TypeOK
  <1>5. TypeOK'
    BY <1>1, <1>2, <1>3 DEF TypeOK, HandlerSteps
  <1>6. NewIsUnknown'
    BY <1>1, <1>2, <1>3, <1>4 DEF NewIsUnknown
  <1>7. ListsAreSound'
    BY <1>1, <1>2, <1>3, <1>4 DEF ListsAreSound, Busy
  <1>8. AcceptedIsApplied' /\ OneHolder' /\ ListedIsFresh' /\ SyncedIsApplied'
    BY <1>1, <1>2, <1>3, <1>4 DEF AcceptedIsApplied, OneHolder, ListedIsFresh, SyncedIsApplied
  <1>9. FreshUntilAccepted'
    BY <1>1, <1>2, <1>3, <1>4 DEF FreshUntilAccepted
  <1>10. KeptOnceQueued'
    BY <1>1, <1>2, <1>3, <1>4 DEF KeptOnceQueued
  <1> QED
    BY <1>5, <1>6, <1>7, <1>8, <1>9, <1>10

(* enqueue: the command is stored, or its INSERT failed; the handler of an *)
(* online client has it in hand.                                           *)
LEMMA EnqueueInv ==
    ASSUME SyncInv, NEW c \in Cmds, Enqueue(c)
    PROVE  SyncInv'
  <1> USE DEF SyncInv
  <1> DEFINE h == Handler(c)
  <1>1. pc[h] \in {"offline", "online"}
        /\ UNCHANGED <<cached, mode, syncs, worker, active, tries, left, tenant, applied, excused>>
    BY DEF Enqueue
  <1>2. /\ h \in Actors /\ h \in Handlers
        /\ \A d \in Cmds : Handler(d) \in Actors /\ (Handler(d) = h => d = c)
    BY ActorsDiffer
  <1>3. queue[c] = "Absent" /\ applied[c] = 0 /\ \A a \in Actors : c \notin ToSet(todo[a])
    BY <1>1 DEF NewIsUnknown
  <1>4. /\ queue' \in [Cmds -> Stored \cup {"Absent"}] /\ unstored' \subseteq Cmds
        /\ faults' \in 0 .. MaxFaults
        /\ \A d \in Cmds : d # c => queue'[d] = queue[d] /\ (d \in unstored' <=> d \in unstored)
        /\ queue'[c] = "Pending" \/ (queue'[c] = "Absent" /\ c \in unstored')
    <2>1. CASE queue' = [queue EXCEPT ![c] = "Pending"] /\ UNCHANGED <<faults, unstored>>
      BY <2>1 DEF TypeOK, Stored
    <2>2. CASE Fails /\ unstored' = unstored \cup {c} /\ UNCHANGED queue
      BY <1>3, <2>2, DesktopAssumption DEF TypeOK, Fails
    <2> QED
      BY <2>1, <2>2 DEF Enqueue
  <1>5. PICK step \in {"post", "done"}, l \in {<<>>, <<c>>} :
            /\ pc' = [pc EXCEPT ![h] = step] /\ todo' = [todo EXCEPT ![h] = l]
            /\ step = "post" <=> l = <<c>>
    <2>1. CASE pc[h] = "online"
      BY <2>1 DEF Enqueue, At
    <2>2. CASE pc[h] = "offline"
      <3>1. todo[h] = <<>>
        BY <1>2, <2>2 DEF ListsAreSound, Busy
      <3>2. todo' = [todo EXCEPT ![h] = <<>>]
        BY <2>2, <3>1 DEF Enqueue, TypeOK
      <3>3. pc' = [pc EXCEPT ![h] = "done"]
        BY <2>2 DEF Enqueue, At
      <3>4. <<>> # <<c>>
        OBVIOUS
      <3> QED
        BY <3>2, <3>3, <3>4
    <2> QED
      BY <1>1, <2>1, <2>2
  <1> HIDE DEF h
  <1>6. /\ pc'[h] = step /\ todo'[h] = l
        /\ \A b \in Actors : b # h => pc'[b] = pc[b] /\ todo'[b] = todo[b]
    BY <1>2, <1>5 DEF TypeOK
  <1>7. l \in Seq(Cmds) /\ Distinct(l) /\ ToSet(l) \subseteq {c} /\ (l # <<>> => Head(l) = c)
    <2>1. CASE l = <<>>
      BY <2>1 DEF Distinct, ToSet
    <2>2. CASE l = <<c>>
      <3>1. l \in Seq(Cmds) /\ Len(l) = 1 /\ DOMAIN l = 1 .. 1 /\ l[1] = c
        BY <2>2
      <3> QED
        BY <3>1 DEF Distinct, ToSet
    <2> QED
      BY <2>1, <2>2
  <1>8. TypeOK'
    BY <1>1, <1>2, <1>4, <1>5, <1>7 DEF TypeOK, HandlerSteps
  <1>9. \A d \in Cmds : d # c =>
            /\ Handler(d) # h /\ pc'[Handler(d)] = pc[Handler(d)]
            /\ \A a \in Actors : d \in ToSet(todo'[a]) <=> d \in ToSet(todo[a]) /\ a # h
    <2>1. \A d \in Cmds : d \in ToSet(todo[h]) => d = c
      BY <1>1, <1>2 DEF ListsAreSound, ToSet, Busy
    <2> QED
      BY <1>2, <1>6, <1>7, <2>1
  <1>10. \A a \in Actors : c \in ToSet(todo'[a]) => a = h
    BY <1>3, <1>6
  <1>11. NewIsUnknown'
    <2>1. pc'[Handler(c)] \notin {"new", "offline", "online"}
      BY <1>6 DEF h
    <2> QED
      BY <1>1, <1>4, <1>9, <2>1 DEF NewIsUnknown
  <1>12. ListsAreSound'
    <2> SUFFICES ASSUME NEW a \in Actors
                 PROVE  /\ Distinct(todo'[a])
                        /\ pc'[a] \in Busy <=> todo'[a] # <<>>
                        /\ \A d \in Cmds : a = Handler(d) => todo'[a] \in {<<>>, <<d>>}
      BY DEF ListsAreSound
    <2>1. CASE a = h
      <3>1. step \in Busy <=> l # <<>>
        BY <1>5 DEF Busy
      <3> QED
        BY <1>2, <1>6, <1>7, <2>1, <3>1
    <2>2. CASE a # h
      BY <1>6, <2>2 DEF ListsAreSound
    <2> QED
      BY <2>1, <2>2
  <1>13. AcceptedIsApplied'
    BY <1>1, <1>6 DEF AcceptedIsApplied
  <1>14. OneHolder'
    BY <1>1, <1>9, <1>10 DEF OneHolder
  <1>15. FreshUntilAccepted'
    <2> SUFFICES ASSUME NEW d \in Cmds \ excused, NEW a \in Actors, d \in ToSet(todo'[a])
                 PROVE  \/ applied[d] = 0
                        \/ d = Head(todo'[a]) /\ pc'[a] = "accepted"
                        \/ d = Head(todo'[a]) /\ pc'[a] = "read" /\ queue'[d] \in {"Synced", "Absent"}
      BY <1>1 DEF FreshUntilAccepted
    <2>1. CASE d = c
      BY <1>3, <2>1
    <2>2. CASE d # c
      BY <1>4, <1>6, <1>9, <2>2 DEF FreshUntilAccepted
    <2> QED
      BY <2>1, <2>2
  <1>16. ListedIsFresh'
    <2> SUFFICES ASSUME NEW d \in Cmds \ excused
                 PROVE  /\ applied[d] <= 1
                        /\ queue'[d] \in {"Pending", "Failed"}
                             /\ (\A a \in Actors : d \notin ToSet(todo'[a])) => applied[d] = 0
      BY <1>1 DEF ListedIsFresh
    <2>1. CASE d = c
      BY <1>3, <2>1
    <2>2. CASE d # c
      <3>1. d \notin ToSet(todo[h])
        BY <1>1, <1>2, <2>2 DEF ListsAreSound, ToSet, Busy
      <3>2. \A a \in Actors : d \in ToSet(todo'[a]) <=> d \in ToSet(todo[a])
        BY <1>9, <2>2, <3>1
      <3> QED
        BY <1>4, <2>2, <3>2 DEF ListedIsFresh
    <2> QED
      BY <2>1, <2>2
  <1>17. KeptOnceQueued'
    BY <1>1, <1>4, <1>9 DEF KeptOnceQueued, Stored
  <1>18. SyncedIsApplied'
    BY <1>1, <1>4 DEF SyncedIsApplied
  <1> QED
    BY <1>8, <1>11, <1>12, <1>13, <1>14, <1>15, <1>16, <1>17, <1>18

-----------------------------------------------------------------------------
(* Steps with a list in hand *)

(* The first command of a list in hand. *)
LEMMA InHand ==
    ASSUME SyncInv, NEW a \in Actors, pc[a] \in Busy
    PROVE  /\ todo[a] # <<>> /\ Head(todo[a]) \in Cmds /\ Head(todo[a]) \in ToSet(todo[a])
           /\ Tail(todo[a]) \in Seq(Cmds) /\ Distinct(Tail(todo[a]))
           /\ ToSet(Tail(todo[a])) = ToSet(todo[a]) \ {Head(todo[a])}
           /\ pc[Handler(Head(todo[a]))] \notin {"new", "offline", "online"}
  <1>1. todo[a] \in Seq(Cmds) /\ todo[a] # <<>> /\ Distinct(todo[a])
    BY DEF SyncInv, TypeOK, ListsAreSound
  <1>2. /\ Head(todo[a]) \in Cmds /\ Head(todo[a]) \in ToSet(todo[a])
        /\ Tail(todo[a]) \in Seq(Cmds) /\ Distinct(Tail(todo[a]))
        /\ ToSet(Tail(todo[a])) = ToSet(todo[a]) \ {Head(todo[a])}
    BY <1>1, TailOfList
  <1>3. pc[Handler(Head(todo[a]))] \notin {"new", "offline", "online"}
    BY <1>2 DEF SyncInv, NewIsUnknown
  <1> QED
    BY <1>1, <1>2, <1>3

(* A post and its outcome: whoever is excused afterwards, a command that   *)
(* is not was applied by this post alone, and the actor knows it.          *)
LEMMA SyncCommandInv ==
    ASSUME SyncInv, NEW a \in Actors, SyncCommand(a)
    PROVE  SyncInv'
  <1> USE DEF SyncInv
  <1>1. pc[a] = "post" /\ pc[a] \in Busy
    BY DEF SyncCommand, Busy
  <1>2. PICK c : c = Head(todo[a])
    OBVIOUS
  <1>3. /\ todo[a] # <<>> /\ c \in Cmds /\ c \in ToSet(todo[a])
        /\ pc[Handler(c)] \notin {"new", "offline", "online"}
    BY <1>1, <1>2, InHand
  <1>4. PICK o \in Outcomes :
          /\ Possible(c, o)
          /\ applied' = [applied EXCEPT ![c] = IF o.took THEN @ + 1 ELSE @]
          /\ excused' = IF o.took /\ o.reply # "success" THEN excused \cup {c} ELSE excused
          /\ At(a, AfterReply(a, o.reply))
          /\ tries' = [tries EXCEPT ![a] =
                         IF AfterReply(a, o.reply) = "post" THEN @ + 1 ELSE 0]
    BY <1>2 DEF SyncCommand
  <1>5. UNCHANGED <<queue, cached, mode, syncs, worker, active, todo, left, tenant, faults, unstored>>
    BY DEF SyncCommand
  <1>6. PICK step : step = AfterReply(a, o.reply)
    OBVIOUS
  <1>7. /\ step \in {"accepted", "failed", "post", "network"}
        /\ step = "accepted" => o.took
        /\ o.reply = "success" => step = "accepted"
        /\ step = "post" => tries[a] < MaxRetries
    BY <1>4, <1>6 DEF AfterReply, Possible, Outcomes
  <1>8. /\ pc' = [pc EXCEPT ![a] = step]
        /\ pc'[a] = step /\ \A b \in Actors : b # a => pc'[b] = pc[b]
    BY <1>4, <1>6 DEF At, TypeOK
  <1>9. /\ applied' \in [Cmds -> 0 .. MaxApplied]
        /\ \A d \in Cmds : applied'[d] >= applied[d] /\ (d # c => applied'[d] = applied[d])
        /\ o.took => applied'[c] = applied[c] + 1
        /\ ~o.took => applied'[c] = applied[c]
    <2>1. \A d \in Cmds : applied[d] \in 0 .. MaxApplied
      BY DEF TypeOK
    <2>2. MaxApplied \in Nat /\ applied \in [Cmds -> 0 .. MaxApplied]
      BY DesktopAssumption DEF TypeOK
    <2>3. CASE o.took
      <3>1. applied[c] + 1 \in 0 .. MaxApplied
        BY <1>3, <1>4, <2>1, <2>2, <2>3 DEF Possible
      <3>2. applied' = [applied EXCEPT ![c] = applied[c] + 1]
        BY <1>4, <2>3
      <3> QED
        BY <1>3, <2>1, <2>2, <2>3, <3>1, <3>2
    <2>4. CASE ~o.took
      <3>1. applied' = applied
        BY <1>4, <2>2, <2>4
      <3> QED
        BY <1>3, <2>1, <2>2, <2>4, <3>1
    <2> QED
      BY <2>3, <2>4
  <1>10. /\ excused \subseteq excused' /\ excused' \subseteq Cmds
         /\ \A d \in excused' : d \in excused \/ d = c
         /\ o.took /\ o.reply # "success" => c \in excused'
    BY <1>3, <1>4 DEF TypeOK
  <1>11. TypeOK'
    <2>1. tries' \in [Actors -> 0 .. MaxRetries]
      <3>1. tries[a] \in 0 .. MaxRetries /\ MaxRetries \in Nat
        BY DesktopAssumption DEF TypeOK
      <3>2. (IF step = "post" THEN tries[a] + 1 ELSE 0) \in 0 .. MaxRetries
        BY <1>7, <3>1
      <3>3. tries' = [tries EXCEPT ![a] = IF step = "post" THEN tries[a] + 1 ELSE 0]
        BY <1>4, <1>6
      <3> QED
        BY <3>2, <3>3 DEF TypeOK
    <2>2. step \in HandlerSteps \cap WorkerSteps
      BY <1>7 DEF HandlerSteps, WorkerSteps
    <2> QED
      BY <1>5, <1>8, <1>9, <1>10, <2>1, <2>2 DEF TypeOK
  <1>12. c \notin excused => applied[c] = 0
    BY <1>1, <1>3 DEF FreshUntilAccepted
  <1>13. NewIsUnknown'
    <2> SUFFICES ASSUME NEW d \in Cmds, pc'[Handler(d)] \in {"new", "offline", "online"}
                 PROVE  /\ queue[d] = "Absent" /\ applied'[d] = 0
                        /\ \A b \in Actors : d \notin ToSet(todo[b])
      BY <1>5 DEF NewIsUnknown
    <2>1. Handler(d) \in Actors /\ Handler(d) # a
      BY <1>7, <1>8, ActorsDiffer
    <2>2. pc[Handler(d)] \in {"new", "offline", "online"} /\ d # c
      BY <1>3, <1>8, <2>1
    <2> QED
      BY <1>9, <2>2 DEF NewIsUnknown
  <1>14. ListsAreSound'
    <2>1. step \in Busy
      BY <1>7 DEF Busy
    <2> QED
      BY <1>1, <1>5, <1>8, <2>1 DEF ListsAreSound
  <1>15. AcceptedIsApplied'
    <2> SUFFICES ASSUME NEW b \in Actors, pc'[b] = "accepted"
                 PROVE  applied'[Head(todo[b])] > 0
      BY <1>5 DEF AcceptedIsApplied
    <2>1. CASE b = a
      <3>1. o.took /\ applied[c] \in Nat
        BY <1>3, <1>7, <1>8, <2>1, DesktopAssumption DEF TypeOK
      <3> QED
        BY <1>2, <1>9, <2>1, <3>1
    <2>2. CASE b # a
      <3>1. pc[b] = "accepted" /\ pc[b] \in Busy
        BY <1>8, <2>2 DEF Busy
      <3>2. Head(todo[b]) \in Cmds
        BY <3>1, InHand
      <3>3. applied[Head(todo[b])] > 0
        BY <3>1 DEF AcceptedIsApplied
      <3>4. PICK d \in Cmds : d = Head(todo[b])
        BY <3>2
      <3>5. applied[d] \in Nat /\ applied'[d] \in Nat /\ applied'[d] >= applied[d]
        BY <1>9, DesktopAssumption DEF TypeOK
      <3> QED
        BY <3>3, <3>4, <3>5
    <2> QED
      BY <2>1, <2>2
  <1>16. OneHolder'
    BY <1>5, <1>10 DEF OneHolder
  <1>17. ASSUME c \notin excused'
         PROVE  applied'[c] = 0 \/ (applied'[c] = 1 /\ step = "accepted")
    BY <1>7, <1>9, <1>10, <1>12, <1>17
  <1>18. FreshUntilAccepted'
    <2> SUFFICES ASSUME NEW d \in Cmds \ excused', NEW b \in Actors, d \in ToSet(todo[b])
                 PROVE  \/ applied'[d] = 0
                        \/ d = Head(todo[b]) /\ pc'[b] = "accepted"
                        \/ d = Head(todo[b]) /\ pc'[b] = "read" /\ queue[d] \in {"Synced", "Absent"}
      BY <1>5 DEF FreshUntilAccepted
    <2>1. d \in Cmds \ excused
      BY <1>10
    <2>2. CASE d = c
      <3>1. b = a
        BY <1>3, <2>1, <2>2 DEF OneHolder
      <3> QED
        BY <1>2, <1>8, <1>17, <2>2, <3>1
    <2>3. CASE d # c
      <3>1. applied'[d] = applied[d]
        BY <1>9, <2>3
      <3>2. CASE b = a
        BY <1>2, <2>1, <2>3, <3>1, <3>2 DEF FreshUntilAccepted
      <3>3. CASE b # a
        BY <1>8, <2>1, <3>1, <3>3 DEF FreshUntilAccepted
      <3> QED
        BY <3>2, <3>3
    <2> QED
      BY <2>2, <2>3
  <1>19. ListedIsFresh'
    <2> SUFFICES ASSUME NEW d \in Cmds \ excused'
                 PROVE  /\ applied'[d] <= 1
                        /\ queue[d] \in {"Pending", "Failed"}
                             /\ (\A b \in Actors : d \notin ToSet(todo[b])) => applied'[d] = 0
      BY <1>5 DEF ListedIsFresh
    <2>1. CASE d = c
      BY <1>3, <1>17, <2>1
    <2>2. CASE d # c
      BY <1>9, <1>10, <2>2 DEF ListedIsFresh
    <2> QED
      BY <2>1, <2>2
  <1>20. KeptOnceQueued' /\ SyncedIsApplied'
    <2>1. \A d \in Cmds : applied[d] > 0 => applied'[d] > 0
      <3>1. \A d \in Cmds : applied[d] \in Nat /\ applied'[d] \in Nat
        BY <1>9, DesktopAssumption DEF TypeOK
      <3> QED
        BY <1>9, <3>1
    <2>2. \A d \in Cmds : pc'[Handler(d)] = pc[Handler(d)] \/ pc[Handler(d)] = "post"
      BY <1>1, <1>8, ActorsDiffer
    <2> QED
      BY <1>5, <2>1, <2>2 DEF KeptOnceQueued, SyncedIsApplied
  <1> QED
    BY <1>11, <1>13, <1>14, <1>15, <1>16, <1>18, <1>19, <1>20

(* An actor writes the status of the command it is done with and lets go   *)
(* of it, or keeps an accepted one to read its item.                       *)
LEMMA DoneStep ==
    ASSUME SyncInv, TypeOK', NEW a \in Actors, NEW c, NEW step, c = Head(todo[a]),
           pc[a] \in {"accepted", "network", "failed", "read"},
           UNCHANGED <<applied, unstored>>,
           excused \subseteq excused', excused' \subseteq excused \cup {c},
           \A d \in Cmds \ {c} : queue'[d] = queue[d],
           queue[c] \in Stored <=> queue'[c] \in Stored,
           queue'[c] = "Synced" => queue[c] = "Synced" \/ pc[a] = "accepted",
           c \notin excused' /\ pc[a] = "accepted" => queue'[c] \in {"Synced", "Absent"},
           pc[a] = "read" => queue'[c] = queue[c],
           pc' = [pc EXCEPT ![a] = step],
           \/ UNCHANGED todo /\ pc[a] = "accepted" /\ step = "read"
           \/ /\ todo' = [todo EXCEPT ![a] = Tail(todo[a])]
              /\ step \notin {"new", "offline", "online", "accepted", "read"}
              /\ step \in Busy <=> Tail(todo[a]) # <<>>
    PROVE  SyncInv'
  <1> USE DEF SyncInv
  <1>1. pc[a] \in Busy
    BY DEF Busy
  <1>2. /\ todo[a] # <<>> /\ c \in Cmds /\ c \in ToSet(todo[a])
        /\ Tail(todo[a]) \in Seq(Cmds) /\ Distinct(Tail(todo[a]))
        /\ ToSet(Tail(todo[a])) = ToSet(todo[a]) \ {c}
        /\ pc[Handler(c)] \notin {"new", "offline", "online"}
    BY <1>1, InHand
  <1>3. /\ pc'[a] = step /\ \A b \in Actors : b # a => pc'[b] = pc[b] /\ todo'[b] = todo[b]
        /\ todo'[a] \in {todo[a], Tail(todo[a])}
        /\ step \notin {"new", "offline", "online", "accepted"}
    BY DEF TypeOK
  <1>4. \A d \in Cmds : \A b \in Actors :
            /\ d \in ToSet(todo'[b]) => d \in ToSet(todo[b])
            /\ b # a \/ d # c => (d \in ToSet(todo'[b]) <=> d \in ToSet(todo[b]))
    BY <1>2, <1>3
  <1>5. \A d \in Cmds : Handler(d) \in Actors
    BY ActorsDiffer
  <1>6. NewIsUnknown'
    <2> SUFFICES ASSUME NEW d \in Cmds, pc'[Handler(d)] \in {"new", "offline", "online"}
                 PROVE  /\ queue'[d] = "Absent" /\ applied[d] = 0
                        /\ \A b \in Actors : d \notin ToSet(todo'[b])
      BY DEF NewIsUnknown
    <2>1. pc[Handler(d)] \in {"new", "offline", "online"} /\ d # c
      BY <1>2, <1>3, <1>5
    <2> QED
      BY <1>4, <2>1 DEF NewIsUnknown
  <1>7. ListsAreSound'
    <2> SUFFICES ASSUME NEW b \in Actors
                 PROVE  /\ Distinct(todo'[b])
                        /\ pc'[b] \in Busy <=> todo'[b] # <<>>
                        /\ \A d \in Cmds : b = Handler(d) => todo'[b] \in {<<>>, <<d>>}
      BY DEF ListsAreSound
    <2>1. CASE b # a
      BY <1>3, <2>1 DEF ListsAreSound
    <2>2. CASE b = a
      <3>1. Distinct(todo'[a])
        BY <1>2, <1>3 DEF ListsAreSound
      <3>2. pc'[a] \in Busy <=> todo'[a] # <<>>
        BY <1>2, <1>3 DEF Busy, TypeOK
      <3>3. ASSUME NEW d \in Cmds, a = Handler(d) PROVE todo'[a] \in {<<>>, <<d>>}
        <4>1. todo[a] = <<d>>
          BY <1>2, <3>3 DEF ListsAreSound
        <4>2. Tail(todo[a]) = <<>>
          BY <4>1
        <4> QED
          BY <1>3, <4>1, <4>2
      <3> QED
        BY <2>2, <3>1, <3>2, <3>3
    <2> QED
      BY <2>1, <2>2
  <1>8. AcceptedIsApplied'
    BY <1>3 DEF AcceptedIsApplied
  <1>9. OneHolder'
    BY <1>4 DEF OneHolder
  <1>10. FreshUntilAccepted'
    <2> SUFFICES ASSUME NEW d \in Cmds \ excused', NEW b \in Actors, d \in ToSet(todo'[b])
                 PROVE  \/ applied[d] = 0
                        \/ d = Head(todo'[b]) /\ pc'[b] = "accepted"
                        \/ d = Head(todo'[b]) /\ pc'[b] = "read" /\ queue'[d] \in {"Synced", "Absent"}
      BY DEF FreshUntilAccepted
    <2>1. d \in Cmds \ excused /\ d \in ToSet(todo[b])
      BY <1>4
    <2>2. CASE b # a
      <3>1. d # c
        BY <1>2, <2>1, <2>2 DEF OneHolder
      <3> QED
        BY <1>3, <2>1, <2>2, <3>1 DEF FreshUntilAccepted
    <2>3. CASE b = a /\ d # c
      BY <2>1, <2>3 DEF FreshUntilAccepted
    <2>4. CASE b = a /\ d = c
      <3>1. todo'[a] = todo[a] /\ pc[a] = "accepted" /\ step = "read"
        BY <1>2, <1>3, <2>4 DEF TypeOK
      <3> QED
        BY <1>3, <2>4, <3>1
    <2> QED
      BY <2>2, <2>3, <2>4
  <1>11. ListedIsFresh'
    <2> SUFFICES ASSUME NEW d \in Cmds \ excused'
                 PROVE  /\ applied[d] <= 1
                        /\ queue'[d] \in {"Pending", "Failed"}
                             /\ (\A b \in Actors : d \notin ToSet(todo'[b])) => applied[d] = 0
      BY DEF ListedIsFresh
    <2>1. CASE d # c
      BY <1>4, <2>1 DEF ListedIsFresh
    <2>2. CASE d = c
      <3>1. applied[c] <= 1 /\ c \notin excused
        BY <2>2 DEF ListedIsFresh
      <3>2. applied[c] = 0 \/ pc[a] = "accepted" \/ (pc[a] = "read" /\ queue[c] \in {"Synced", "Absent"})
        BY <1>2, <2>2, <3>1 DEF FreshUntilAccepted
      <3> QED
        BY <2>2, <3>1, <3>2
    <2> QED
      BY <2>1, <2>2
  <1>12. KeptOnceQueued'
    <2> SUFFICES ASSUME NEW d \in Cmds, d \notin unstored,
                        pc'[Handler(d)] \in {"post", "accepted", "network", "failed", "done"}
                 PROVE  queue'[d] \in Stored \/ applied[d] > 0
      BY DEF KeptOnceQueued
    <2>1. pc[Handler(d)] \in {"post", "accepted", "network", "failed", "done"}
      <3>1. CASE Handler(d) # a
        BY <1>3, <1>5, <3>1
      <3>2. CASE Handler(d) = a
        <4>1. pc[a] \in HandlerSteps
          BY <3>2, ActorsDiffer DEF TypeOK
        <4> QED
          BY <3>2, <4>1 DEF HandlerSteps
      <3> QED
        BY <3>1, <3>2
    <2> QED
      BY <2>1 DEF KeptOnceQueued
  <1>13. SyncedIsApplied'
    BY <1>2 DEF SyncedIsApplied, AcceptedIsApplied
  <1> QED
    BY <1>6, <1>7, <1>8, <1>9, <1>10, <1>11, <1>12, <1>13

(* What the write of a status, or its failure, does to the queue. *)
LEMMA MarkFacts ==
    ASSUME SyncInv, NEW a \in Actors, NEW c \in Cmds, Mark(a, c),
           pc[a] \in {"accepted", "network", "failed"}
    PROVE  /\ queue' \in [Cmds -> Stored \cup {"Absent"}] /\ faults' \in 0 .. MaxFaults
           /\ excused \subseteq excused' /\ excused' \subseteq excused \cup {c}
           /\ \A d \in Cmds \ {c} : queue'[d] = queue[d]
           /\ queue[c] \in Stored <=> queue'[c] \in Stored
           /\ queue'[c] = "Synced" => queue[c] = "Synced" \/ pc[a] = "accepted"
           /\ c \notin excused' /\ pc[a] = "accepted" => queue'[c] \in {"Synced", "Absent"}
  <1> USE DEF SyncInv
  <1>1. queue \in [Cmds -> Stored \cup {"Absent"}] /\ queue[c] \in Stored \cup {"Absent"}
    BY DEF TypeOK
  <1>2. CASE queue' = StatusAfter(a, c) /\ UNCHANGED <<faults, excused>>
    <2>1. ASSUME NEW s \in {"Synced", "Syncing", "Failed"}, queue' = UpdateStatus(c, s)
          PROVE  /\ queue' \in [Cmds -> Stored \cup {"Absent"}]
                 /\ \A d \in Cmds \ {c} : queue'[d] = queue[d]
                 /\ queue'[c] = IF queue[c] \in Stored THEN s ELSE queue[c]
      BY <1>1, <2>1 DEF UpdateStatus, Stored
    <2>2. CASE pc[a] = "accepted"
      <3>1. queue' = UpdateStatus(c, "Synced")
        BY <1>2, <2>2 DEF StatusAfter
      <3> QED
        BY <1>1, <1>2, <2>1, <2>2, <3>1 DEF Stored, TypeOK
    <2>3. CASE pc[a] # "accepted"
      <3>1. queue' = queue \/ queue' = UpdateStatus(c, "Syncing") \/ queue' = UpdateStatus(c, "Failed")
        BY <1>2, <2>3 DEF StatusAfter
      <3>2. CASE queue' = queue
        BY <1>1, <1>2, <2>3, <3>2 DEF TypeOK
      <3>3. CASE queue' = UpdateStatus(c, "Syncing")
        BY <1>1, <1>2, <2>1, <2>3, <3>3 DEF Stored, TypeOK
      <3>4. CASE queue' = UpdateStatus(c, "Failed")
        BY <1>1, <1>2, <2>1, <2>3, <3>4 DEF Stored, TypeOK
      <3> QED
        BY <3>1, <3>2, <3>3, <3>4
    <2> QED
      BY <2>2, <2>3
  <1>3. CASE Fails /\ excused' = excused \cup {c} /\ queue' = queue
    <2>1. faults' \in 0 .. MaxFaults
      BY <1>3, DesktopAssumption DEF Fails, TypeOK
    <2> QED
      BY <1>1, <1>3, <2>1
  <1> QED
    BY <1>2, <1>3 DEF Mark

(* adjust_stock returns. *)
LEMMA HandlerReturnsInv ==
    ASSUME SyncInv, NEW c \in Cmds, HandlerReturns(c)
    PROVE  SyncInv'
  <1> USE DEF SyncInv
  <1>1. PICK h : h = Handler(c)
    OBVIOUS
  <1>2. h \in Actors /\ h \in Handlers
    BY <1>1, ActorsDiffer
  <1>3. /\ pc[h] \in {"accepted", "network", "failed"} /\ Mark(h, c)
        /\ todo' = [todo EXCEPT ![h] = <<>>] /\ pc' = [pc EXCEPT ![h] = "done"]
        /\ UNCHANGED <<cached, mode, syncs, worker, active, tries, left, tenant, applied, unstored>>
    BY <1>1 DEF HandlerReturns, At
  <1>4. pc[h] \in Busy /\ "done" \notin Busy
    BY <1>3 DEF Busy
  <1>5. todo[h] = <<c>>
    BY <1>1, <1>2, <1>4 DEF ListsAreSound
  <1>6. Head(todo[h]) = c /\ Tail(todo[h]) = <<>>
    BY <1>5
  <1>7. /\ queue' \in [Cmds -> Stored \cup {"Absent"}] /\ faults' \in 0 .. MaxFaults
        /\ excused \subseteq excused' /\ excused' \subseteq excused \cup {c}
        /\ \A d \in Cmds \ {c} : queue'[d] = queue[d]
        /\ queue[c] \in Stored <=> queue'[c] \in Stored
        /\ queue'[c] = "Synced" => queue[c] = "Synced" \/ pc[h] = "accepted"
        /\ c \notin excused' /\ pc[h] = "accepted" => queue'[c] \in {"Synced", "Absent"}
    BY <1>2, <1>3, MarkFacts
  <1>8. TypeOK'
    <2>1. todo' \in [Actors -> Seq(Cmds)]
      <3>1. <<>> \in Seq(Cmds)
        OBVIOUS
      <3> QED
        BY <1>3, <3>1 DEF TypeOK
    <2>2. "done" \in HandlerSteps
      BY DEF HandlerSteps
    <2> QED
      BY <1>2, <1>3, <1>7, <2>1, <2>2 DEF TypeOK
  <1>9. /\ pc[h] \in {"accepted", "network", "failed", "read"} /\ UNCHANGED <<applied, unstored>>
        /\ pc[h] = "read" => queue'[c] = queue[c]
        /\ todo' = [todo EXCEPT ![h] = Tail(todo[h])]
        /\ "done" \notin {"new", "offline", "online", "accepted", "read"}
        /\ "done" \in Busy <=> Tail(todo[h]) # <<>>
    BY <1>3, <1>4, <1>6
  <1> QED
    BY <1>2, <1>3, <1>6, <1>7, <1>8, <1>9, DoneStep

(* Where the worker or sync_now goes with what is left of its list. *)
LEMMA NextStepFacts ==
    ASSUME NEW a \in {Worker, SyncNow}, NEW rest
    PROVE  /\ NextStep(a, rest) \in {"post", "tenants", "idle"}
           /\ NextStep(a, rest) \in WorkerSteps
           /\ NextStep(a, rest) \notin {"new", "offline", "online", "accepted", "read"}
           /\ NextStep(a, rest) \in Busy <=> rest # <<>>
  BY DEF NextStep, Busy, WorkerSteps

(* sync_tenant marks a command and goes on to the next or to its item. *)
LEMMA MarkCommandInv ==
    ASSUME SyncInv, NEW a \in {Worker, SyncNow}, MarkCommand(a)
    PROVE  SyncInv'
  <1> USE DEF SyncInv
  <1>1. a \in Actors /\ a \notin Handlers
    BY ActorsDiffer
  <1>2. PICK c : c = Head(todo[a])
    OBVIOUS
  <1>3. /\ pc[a] \in {"accepted", "network", "failed"} /\ Mark(a, c)
        /\ UNCHANGED <<cached, mode, syncs, worker, active, tries, left, tenant, applied, unstored>>
    BY <1>2 DEF MarkCommand
  <1>4. pc[a] \in Busy
    BY <1>3 DEF Busy
  <1>5. c \in Cmds /\ Tail(todo[a]) \in Seq(Cmds)
    BY <1>1, <1>2, <1>4, InHand
  <1>6. PICK step :
          /\ pc' = [pc EXCEPT ![a] = step] /\ step \in WorkerSteps
          /\ \/ UNCHANGED todo /\ pc[a] = "accepted" /\ step = "read"
             \/ /\ todo' = [todo EXCEPT ![a] = Tail(todo[a])]
                /\ step \notin {"new", "offline", "online", "accepted", "read"}
                /\ step \in Busy <=> Tail(todo[a]) # <<>>
    <2>1. CASE pc[a] = "accepted"
      BY <2>1 DEF MarkCommand, At, WorkerSteps
    <2>2. CASE pc[a] # "accepted"
      BY <2>2, NextStepFacts DEF MarkCommand, At
    <2> QED
      BY <2>1, <2>2
  <1>7. /\ queue' \in [Cmds -> Stored \cup {"Absent"}] /\ faults' \in 0 .. MaxFaults
        /\ excused \subseteq excused' /\ excused' \subseteq excused \cup {c}
        /\ \A d \in Cmds \ {c} : queue'[d] = queue[d]
        /\ queue[c] \in Stored <=> queue'[c] \in Stored
        /\ queue'[c] = "Synced" => queue[c] = "Synced" \/ pc[a] = "accepted"
        /\ c \notin excused' /\ pc[a] = "accepted" => queue'[c] \in {"Synced", "Absent"}
    BY <1>1, <1>3, <1>5, MarkFacts
  <1>8. TypeOK'
    <2>1. todo' \in [Actors -> Seq(Cmds)]
      BY <1>5, <1>6 DEF TypeOK
    <2> QED
      BY <1>1, <1>3, <1>5, <1>6, <1>7, <2>1 DEF TypeOK
  <1>9. /\ pc[a] \in {"accepted", "network", "failed", "read"} /\ UNCHANGED <<applied, unstored>>
        /\ pc[a] = "read" => queue'[c] = queue[c]
    BY <1>3
  <1> QED
    BY <1>1, <1>2, <1>6, <1>7, <1>8, <1>9, DoneStep

(* sync_tenant has fetched the item of an accepted command, or not. *)
LEMMA SyncReadModelInv ==
    ASSUME SyncInv, NEW a \in {Worker, SyncNow}, SyncReadModel(a)
    PROVE  SyncInv'
  <1> USE DEF SyncInv
  <1>1. a \in Actors /\ a \notin Handlers
    BY ActorsDiffer
  <1>2. PICK c : c = Head(todo[a])
    OBVIOUS
  <1>3. PICK step : step = NextStep(a, Tail(todo[a]))
    OBVIOUS
  <1>4. /\ pc[a] = "read" /\ pc[a] \in Busy
        /\ cached' = cached \cup {ItemOf[c]} \/ cached' = cached
        /\ todo' = [todo EXCEPT ![a] = Tail(todo[a])] /\ pc' = [pc EXCEPT ![a] = step]
        /\ UNCHANGED <<queue, mode, syncs, worker, active, tries, left, tenant, applied,
                       faults, unstored, excused>>
    BY <1>2, <1>3 DEF SyncReadModel, At, Busy
  <1>5. c \in Cmds /\ Tail(todo[a]) \in Seq(Cmds) /\ c \in ToSet(todo[a])
    BY <1>1, <1>2, <1>4, InHand
  <1>6. /\ step \in WorkerSteps
        /\ step \notin {"new", "offline", "online", "accepted", "read"}
        /\ step \in Busy <=> Tail(todo[a]) # <<>>
    BY <1>3, NextStepFacts
  <1>7. TypeOK'
    <2>1. todo' \in [Actors -> Seq(Cmds)]
      BY <1>4, <1>5 DEF TypeOK
    <2>2. cached' \subseteq Items
      BY <1>4, <1>5 DEF TypeOK, Items
    <2> QED
      BY <1>1, <1>4, <1>6, <2>1, <2>2 DEF TypeOK
  <1>8. /\ pc[a] \in {"accepted", "network", "failed", "read"} /\ UNCHANGED <<applied, unstored>>
        /\ excused \subseteq excused' /\ excused' \subseteq excused \cup {c}
        /\ \A d \in Cmds \ {c} : queue'[d] = queue[d]
        /\ queue[c] \in Stored <=> queue'[c] \in Stored
        /\ queue'[c] = "Synced" => queue[c] = "Synced" \/ pc[a] = "accepted"
        /\ c \notin excused' /\ pc[a] = "accepted" => queue'[c] \in {"Synced", "Absent"}
        /\ pc[a] = "read" => queue'[c] = queue[c]
    BY <1>4
  <1> QED
    BY <1>1, <1>2, <1>4, <1>6, <1>7, <1>8, DoneStep


(* sync_tenant reads its list: what another actor holds is excused from    *)
(* then on, and what nobody holds has not been applied.                    *)
LEMMA ReadPendingInv ==
    ASSUME SyncInv, NEW a \in {Worker, SyncNow}, ReadPending(a)
    PROVE  SyncInv'
  <1> USE DEF SyncInv
  <1>1. a \in Actors /\ a \notin Handlers /\ \A c \in Cmds : Handler(c) \in Actors /\ Handler(c) # a
    BY ActorsDiffer
  <1>2. PICK step : step = NextStep(a, todo'[a])
    OBVIOUS
  <1>3. /\ pc[a] = "list" /\ pc[a] \notin Busy /\ pc' = [pc EXCEPT ![a] = step]
        /\ UNCHANGED <<queue, cached, mode, syncs, worker, active, tries, left, tenant,
                       applied, unstored>>
    BY <1>2 DEF ReadPending, At, Busy
  <1>4. todo[a] = <<>> /\ \A c : c \notin ToSet(todo[a])
    <2>1. todo[a] = <<>>
      BY <1>1, <1>3 DEF ListsAreSound
    <2> QED
      BY <2>1 DEF ToSet
  <1>5. /\ step \in WorkerSteps /\ step \notin {"new", "offline", "online", "accepted", "read"}
        /\ step \in Busy <=> todo'[a] # <<>>
    BY <1>2, NextStepFacts
  <1>6. PICK l \in Seq(Cmds) :
          /\ todo' = [todo EXCEPT ![a] = l] /\ Distinct(l)
          /\ \A c \in ToSet(l) : c \in Cmds /\ queue[c] \in {"Pending", "Failed"}
          /\ excused' = excused \cup {c \in ToSet(l) : Held(a, c)}
          /\ faults' \in 0 .. MaxFaults
    <2>1. CASE /\ todo' = [todo EXCEPT ![a] = ListPending(tenant[a])]
               /\ excused' = excused \cup {c \in ToSet(ListPending(tenant[a])) : Held(a, c)}
               /\ UNCHANGED faults
      <3>1. PICK S : S = {c \in Cmds : TenantOf[c] = tenant[a] /\ queue[c] \in {"Pending", "Failed"}}
        OBVIOUS
      <3>2. S \in SUBSET Nat /\ S \subseteq Cmds /\ IsFiniteSet(S)
        BY <3>1, DesktopAssumption, FS_Subset
      <3>3. PICK l : l = ListPending(tenant[a])
        OBVIOUS
      <3>4. l = Ascending(S)
        BY <3>1, <3>3 DEF ListPending
      <3>5. l \in Seq(S) /\ Distinct(l) /\ ToSet(l) = S
        BY <3>2, <3>4, AscendingLists
      <3>6. l \in Seq(Cmds)
        <4>1. Len(l) \in Nat /\ l \in [1 .. Len(l) -> S]
          BY <3>5
        <4>2. l \in [1 .. Len(l) -> Cmds]
          BY <3>2, <4>1
        <4> QED
          BY <4>1, <4>2
      <3>7. \A c \in ToSet(l) : c \in Cmds /\ queue[c] \in {"Pending", "Failed"}
        BY <3>1, <3>5
      <3>8. faults' \in 0 .. MaxFaults
        BY <2>1 DEF TypeOK
      <3> QED
        BY <2>1, <3>3, <3>5, <3>6, <3>7, <3>8, Zenon
    <2>2. CASE Fails /\ UNCHANGED <<todo, excused>>
      <3>1. <<>> \in Seq(Cmds) /\ Distinct(<<>>) /\ \A c : c \notin ToSet(<<>>)
        BY DEF Distinct, ToSet
      <3>2. faults' \in 0 .. MaxFaults
        BY <2>2, DesktopAssumption DEF Fails, TypeOK
      <3>3. todo' = [todo EXCEPT ![a] = <<>>]
        BY <1>4, <2>2 DEF TypeOK
      <3>4. excused' = excused \cup {c \in ToSet(<<>>) : Held(a, c)}
        BY <2>2, <3>1
      <3> QED
        BY <3>1, <3>2, <3>3, <3>4
    <2> QED
      BY <2>1, <2>2 DEF ReadPending
  <1>7. /\ todo'[a] = l /\ pc'[a] = step
        /\ \A b \in Actors : b # a => todo'[b] = todo[b] /\ pc'[b] = pc[b]
        /\ excused \subseteq excused' /\ excused' \subseteq Cmds
    BY <1>1, <1>3, <1>6 DEF TypeOK
  <1>8. ASSUME NEW c \in Cmds \ excused', c \in ToSet(l)
        PROVE  applied[c] = 0 /\ \A b \in Actors : b # a => c \notin ToSet(todo[b])
    <2>1. ~Held(a, c)
      BY <1>6, <1>8
    <2>2. \A b \in Actors : c \notin ToSet(todo[b])
      BY <1>4, <2>1 DEF Held
    <2> QED
      BY <1>6, <1>7, <1>8, <2>2 DEF ListedIsFresh
  <1>9. TypeOK'
    BY <1>1, <1>3, <1>5, <1>6, <1>7 DEF TypeOK
  <1>10. NewIsUnknown'
    <2> SUFFICES ASSUME NEW c \in Cmds, pc'[Handler(c)] \in {"new", "offline", "online"}
                 PROVE  /\ queue[c] = "Absent" /\ applied[c] = 0
                        /\ \A b \in Actors : c \notin ToSet(todo'[b])
      BY <1>3 DEF NewIsUnknown
    <2>1. pc[Handler(c)] \in {"new", "offline", "online"}
      BY <1>1, <1>7
    <2>2. queue[c] = "Absent" /\ applied[c] = 0 /\ \A b \in Actors : c \notin ToSet(todo[b])
      BY <2>1 DEF NewIsUnknown
    <2> QED
      BY <1>6, <1>7, <2>2
  <1>11. ListsAreSound'
    BY <1>1, <1>5, <1>6, <1>7 DEF ListsAreSound
  <1>12. AcceptedIsApplied'
    BY <1>3, <1>5, <1>7 DEF AcceptedIsApplied
  <1>13. OneHolder'
    <2> SUFFICES ASSUME NEW c \in Cmds \ excused', NEW b \in Actors, NEW d \in Actors,
                        c \in ToSet(todo'[b]), c \in ToSet(todo'[d])
                 PROVE  b = d
      BY DEF OneHolder
    <2>1. CASE b # a /\ d # a
      BY <1>7, <2>1 DEF OneHolder
    <2>2. CASE b = a \/ d = a
      BY <1>7, <1>8, <2>2
    <2> QED
      BY <2>1, <2>2
  <1>14. FreshUntilAccepted'
    <2> SUFFICES ASSUME NEW c \in Cmds \ excused', NEW b \in Actors, c \in ToSet(todo'[b])
                 PROVE  \/ applied[c] = 0
                        \/ c = Head(todo'[b]) /\ pc'[b] = "accepted"
                        \/ c = Head(todo'[b]) /\ pc'[b] = "read" /\ queue[c] \in {"Synced", "Absent"}
      BY <1>3 DEF FreshUntilAccepted
    <2>1. CASE b = a
      BY <1>7, <1>8, <2>1
    <2>2. CASE b # a
      BY <1>7, <2>2 DEF FreshUntilAccepted
    <2> QED
      BY <2>1, <2>2
  <1>15. ListedIsFresh'
    <2> SUFFICES ASSUME NEW c \in Cmds \ excused'
                 PROVE  /\ applied[c] <= 1
                        /\ queue[c] \in {"Pending", "Failed"}
                             /\ (\A b \in Actors : c \notin ToSet(todo'[b])) => applied[c] = 0
      BY <1>3 DEF ListedIsFresh
    <2> QED
      BY <1>4, <1>7 DEF ListedIsFresh
  <1>16. KeptOnceQueued' /\ SyncedIsApplied'
    BY <1>1, <1>3, <1>7 DEF KeptOnceQueued, SyncedIsApplied
  <1> QED
    BY <1>9, <1>10, <1>11, <1>12, <1>13, <1>14, <1>15, <1>16

(* An exit excuses whatever an actor had in hand, and loses what a handler *)
(* had not queued yet.                                                     *)
LEMMA RestartInv ==
    ASSUME SyncInv, Restart
    PROVE  SyncInv'
  <1> USE DEF SyncInv
  <1>1. /\ todo' = [a \in Actors |-> <<>>]
        /\ pc' = [a \in Actors |->
                IF a \notin Handlers THEN "idle" ELSE IF pc[a] = "new" THEN "new" ELSE "done"]
        /\ excused' = excused \cup {c \in Cmds : \E a \in Actors : c \in ToSet(todo[a])}
        /\ unstored' = unstored \cup {c \in Cmds : pc[Handler(c)] \in {"offline", "online"}}
        /\ UNCHANGED <<queue, cached, applied, syncs>>
    BY DEF Restart
  <1>2. \A c : c \notin ToSet(<<>>)
    BY DEF ToSet
  <1>3. \A a \in Actors : todo'[a] = <<>> /\ \A c : c \notin ToSet(todo'[a])
    BY <1>1, <1>2
  <1>4. \A a \in Actors : pc'[a] \in {"idle", "new", "done"} /\ pc'[a] \notin Busy
    BY <1>1 DEF Busy
  <1>5. \A c \in Cmds : /\ Handler(c) \in Actors /\ pc[Handler(c)] \in HandlerSteps
                        /\ pc'[Handler(c)] = IF pc[Handler(c)] = "new" THEN "new" ELSE "done"
    BY <1>1, ActorsDiffer DEF TypeOK
  <1>6. TypeOK'
    <2>1. <<>> \in Seq(Cmds) /\ 0 \in 0 .. MaxRetries /\ faults' \in 0 .. MaxFaults
      BY DesktopAssumption DEF Restart, Fails, TypeOK
    <2>2. todo' \in [Actors -> Seq(Cmds)] /\ tries' \in [Actors -> 0 .. MaxRetries]
          /\ tenant' \in [Actors -> Tenants \cup {NoTenant}]
      BY <2>1 DEF Restart
    <2>3. pc' \in [Actors -> HandlerSteps \cup WorkerSteps]
          /\ \A a \in Actors : pc'[a] \in IF a \in Handlers THEN HandlerSteps ELSE WorkerSteps
      BY <1>1 DEF HandlerSteps, WorkerSteps
    <2>4. excused' \subseteq Cmds /\ unstored' \subseteq Cmds
      BY <1>1 DEF TypeOK
    <2> QED
      BY <1>1, <2>1, <2>2, <2>3, <2>4 DEF Restart, TypeOK
  <1>7. NewIsUnknown'
    <2>1. \A c \in Cmds : pc'[Handler(c)] \in {"new", "offline", "online"} => pc[Handler(c)] = "new"
      BY <1>5
    <2> QED
      BY <1>1, <1>3, <2>1 DEF NewIsUnknown
  <1>8. ListsAreSound'
    <2>1. Distinct(<<>>)
      BY DEF Distinct
    <2> QED
      BY <1>3, <1>4, <2>1 DEF ListsAreSound
  <1>9. AcceptedIsApplied' /\ OneHolder' /\ FreshUntilAccepted'
    BY <1>3, <1>4 DEF AcceptedIsApplied, OneHolder, FreshUntilAccepted
  <1>10. ListedIsFresh'
    BY <1>1 DEF ListedIsFresh
  <1>11. KeptOnceQueued' /\ SyncedIsApplied'
    BY <1>1, <1>5 DEF KeptOnceQueued, SyncedIsApplied, HandlerSteps
  <1> QED
    BY <1>6, <1>7, <1>8, <1>9, <1>10, <1>11

(* A queue call panics. *)
LEMMA PanicsInv ==
    ASSUME SyncInv, NEW a \in Actors, Panics(a)
    PROVE  SyncInv'
  <1> USE DEF SyncInv
  <1>1. PICK step : /\ step = IF a \in Handlers THEN "done" ELSE "idle"
                    /\ pc' = [pc EXCEPT ![a] = step]
    BY DEF Panics, At
  <1>2. /\ CallsQueue(a) /\ todo' = [todo EXCEPT ![a] = <<>>]
        /\ excused' = IF pc[a] = "accepted" THEN excused \cup {Head(todo[a])} ELSE excused
        /\ unstored' = unstored \cup
                          {c \in Cmds : a = Handler(c) /\ pc[a] \in {"offline", "online"}}
        /\ UNCHANGED <<queue, cached, mode, active, tries, tenant, applied, syncs, faults>>
    BY DEF Panics
  <1>3. /\ pc \in [Actors -> HandlerSteps \cup WorkerSteps] /\ todo \in [Actors -> Seq(Cmds)]
        /\ excused \subseteq Cmds
    BY DEF TypeOK
  <1>4. /\ pc'[a] = step /\ todo'[a] = <<>>
        /\ \A b \in Actors \ {a} : pc'[b] = pc[b] /\ todo'[b] = todo[b]
    BY <1>1, <1>2, <1>3
  <1>5. \A c : c \notin ToSet(<<>>)
    BY DEF ToSet
  <1>6. \A b \in Actors : \A c : c \in ToSet(todo'[b]) => b # a /\ c \in ToSet(todo[b])
    BY <1>4, <1>5
  <1>7. step \notin Busy /\ step \notin {"new", "offline", "online", "accepted"} /\ pc[a] # "read"
    BY <1>1, <1>2 DEF Busy, CallsQueue
  <1>8. pc[a] = "accepted" => Head(todo[a]) \in Cmds
    <2> SUFFICES ASSUME pc[a] = "accepted" PROVE Head(todo[a]) \in Cmds
      OBVIOUS
    <2>1. pc[a] \in Busy
      BY DEF Busy
    <2> QED
      BY <2>1, InHand
  <1>9. excused \subseteq excused' /\ excused' \subseteq Cmds
    BY <1>2, <1>3, <1>8
  <1>10. TypeOK'
    <2>1. todo' \in [Actors -> Seq(Cmds)]
      <3>1. <<>> \in Seq(Cmds)
        OBVIOUS
      <3> QED
        BY <1>2, <1>3, <3>1
    <2>2. /\ pc' \in [Actors -> HandlerSteps \cup WorkerSteps]
          /\ \A b \in Actors : pc'[b] \in IF b \in Handlers THEN HandlerSteps ELSE WorkerSteps
      BY <1>1, <1>3 DEF TypeOK, HandlerSteps, WorkerSteps
    <2>3. worker' \in {"new", "running", "stopping", "stopped"} /\ left' \subseteq Tenants
      BY DEF Panics, TypeOK
    <2>4. unstored' \subseteq Cmds
      BY <1>2 DEF TypeOK
    <2> QED
      BY <1>2, <1>9, <2>1, <2>2, <2>3, <2>4 DEF TypeOK
  <1>11. \A c \in Cmds : Handler(c) \in Actors
    BY ActorsDiffer
  <1>12. NewIsUnknown'
    <2>1. \A c \in Cmds : pc'[Handler(c)] \in {"new", "offline", "online"} =>
              pc[Handler(c)] \in {"new", "offline", "online"}
      BY <1>4, <1>7, <1>11
    <2> QED
      BY <1>2, <1>6, <2>1 DEF NewIsUnknown
  <1>13. ListsAreSound'
    <2>1. Distinct(<<>>)
      BY DEF Distinct
    <2>2. ASSUME NEW b \in Actors
          PROVE  /\ Distinct(todo'[b])
                 /\ pc'[b] \in Busy <=> todo'[b] # <<>>
                 /\ \A c \in Cmds : b = Handler(c) => todo'[b] \in {<<>>, <<c>>}
      <3>1. CASE b = a
        BY <1>4, <1>7, <2>1, <3>1
      <3>2. CASE b # a
        BY <1>4, <3>2 DEF ListsAreSound
      <3> QED
        BY <3>1, <3>2
    <2> QED
      BY <2>2 DEF ListsAreSound
  <1>14. AcceptedIsApplied'
    BY <1>2, <1>4, <1>7 DEF AcceptedIsApplied
  <1>15. OneHolder'
    BY <1>6, <1>9 DEF OneHolder
  <1>16. FreshUntilAccepted'
    BY <1>2, <1>4, <1>6, <1>9 DEF FreshUntilAccepted
  <1>17. ListedIsFresh'
    <2> SUFFICES ASSUME NEW c \in Cmds, c \notin excused'
                 PROVE  /\ applied'[c] <= 1
                        /\ /\ queue'[c] \in {"Pending", "Failed"}
                           /\ \A b \in Actors : c \notin ToSet(todo'[b])
                           => applied'[c] = 0
      BY DEF ListedIsFresh
    <2>1. c \in Cmds \ excused
      BY <1>9
    <2>2. CASE c \in ToSet(todo[a])
      <3>1. applied[c] = 0 \/ (c = Head(todo[a]) /\ pc[a] = "accepted")
        BY <1>7, <2>1, <2>2 DEF FreshUntilAccepted
      <3>2. applied[c] = 0
        BY <1>2, <3>1
      <3> QED
        BY <1>2, <3>2
    <2>3. CASE c \notin ToSet(todo[a])
      <3>1. \A b \in Actors : c \in ToSet(todo[b]) => c \in ToSet(todo'[b])
        BY <1>4, <2>3
      <3> QED
        BY <1>2, <2>1, <3>1 DEF ListedIsFresh
    <2> QED
      BY <2>2, <2>3
  <1>18. KeptOnceQueued'
    <2> SUFFICES ASSUME NEW c \in Cmds, c \notin unstored',
                        pc'[Handler(c)] \in {"post", "accepted", "network", "failed", "done"}
                 PROVE  queue'[c] \in Stored \/ applied'[c] > 0
      BY DEF KeptOnceQueued
    <2>1. c \notin unstored
      BY <1>2
    <2>2. CASE Handler(c) = a
      <3>1. a \in Handlers /\ pc[a] \in {"offline", "online", "accepted"}
        BY <1>2, <2>2, ActorsDiffer DEF CallsQueue
      <3>2. pc[a] = "accepted"
        BY <1>2, <2>2, <3>1
      <3> QED
        BY <1>2, <2>1, <2>2, <3>2 DEF KeptOnceQueued
    <2>3. CASE Handler(c) # a
      BY <1>2, <1>4, <1>11, <2>1, <2>3 DEF KeptOnceQueued
    <2> QED
      BY <2>2, <2>3
  <1>19. SyncedIsApplied'
    BY <1>2 DEF SyncedIsApplied
  <1> QED
    BY <1>10, <1>12, <1>13, <1>14, <1>15, <1>16, <1>17, <1>18, <1>19

-----------------------------------------------------------------------------
(* The theorems *)

(* Nothing is queued or in hand when the client is first started. *)
LEMMA InitSync == Init => SyncInv
  <1> SUFFICES ASSUME Init PROVE SyncInv
    OBVIOUS
  <1>1. /\ \A a \in Actors : todo[a] = <<>> /\ pc[a] \in {"new", "idle"} /\ pc[a] \notin Busy
        /\ \A c \in Cmds : queue[c] = "Absent" /\ applied[c] = 0
    BY DEF Init, Busy
  <1>2. \A c \in Cmds : Handler(c) \in Actors /\ pc[Handler(c)] = "new"
    BY ActorsDiffer DEF Init
  <1>3. \A a \in Actors : \A c : c \notin ToSet(todo[a])
    <2>1. \A c : c \notin ToSet(<<>>)
      BY DEF ToSet
    <2> QED
      BY <1>1, <2>1
  <1>4. TypeOK
    <2>1. <<>> \in Seq(Cmds) /\ 0 \in 0 .. MaxRetries /\ 0 \in 0 .. MaxApplied
          /\ 0 \in 0 .. MaxSyncs /\ 0 \in 0 .. MaxFaults
      BY DesktopAssumption
    <2>2. /\ todo \in [Actors -> Seq(Cmds)] /\ tries \in [Actors -> 0 .. MaxRetries]
          /\ tenant \in [Actors -> Tenants \cup {NoTenant}] /\ applied \in [Cmds -> 0 .. MaxApplied]
          /\ queue \in [Cmds -> Stored \cup {"Absent"}]
      BY <2>1 DEF Init
    <2>3. pc \in [Actors -> HandlerSteps \cup WorkerSteps]
          /\ \A a \in Actors : pc[a] \in IF a \in Handlers THEN HandlerSteps ELSE WorkerSteps
      BY DEF Init, HandlerSteps, WorkerSteps
    <2> QED
      BY <2>1, <2>2, <2>3 DEF Init, TypeOK
  <1>5. NewIsUnknown /\ OneHolder /\ FreshUntilAccepted /\ ListedIsFresh
    <2>1. NewIsUnknown /\ OneHolder /\ FreshUntilAccepted
      BY <1>1, <1>3, Zenon DEF NewIsUnknown, OneHolder, FreshUntilAccepted
    <2>2. ListedIsFresh
      BY <1>1 DEF ListedIsFresh
    <2> QED
      BY <2>1, <2>2
  <1>6. AcceptedIsApplied
    <2>1. \A a \in Actors : pc[a] # "accepted"
      BY <1>1
    <2> QED
      BY <2>1 DEF AcceptedIsApplied
  <1>7. ListsAreSound
    <2>1. Distinct(<<>>)
      BY DEF Distinct
    <2> QED
      BY <1>1, <2>1 DEF ListsAreSound
  <1>8. KeptOnceQueued /\ SyncedIsApplied
    BY <1>1, <1>2 DEF KeptOnceQueued, SyncedIsApplied
  <1> QED
    BY <1>4, <1>5, <1>6, <1>7, <1>8 DEF SyncInv

(* Every step keeps the invariant. *)
LEMMA NextSync == SyncInv /\ [Next]_vars => SyncInv'
  <1> SUFFICES ASSUME SyncInv, [Next]_vars PROVE SyncInv'
    OBVIOUS
  <1>1. ASSUME NEW c \in Cmds, AdjustStock(c) PROVE SyncInv'
    BY <1>1, AdjustStockInv
  <1>2. ASSUME NEW c \in Cmds, Enqueue(c) PROVE SyncInv'
    BY <1>2, EnqueueInv
  <1>3. ASSUME NEW c \in Cmds, SyncCommand(Handler(c)) PROVE SyncInv'
    <2>1. Handler(c) \in Actors
      BY ActorsDiffer
    <2> QED
      BY <1>3, <2>1, SyncCommandInv
  <1>4. ASSUME NEW c \in Cmds, HandlerReturns(c) PROVE SyncInv'
    BY <1>4, HandlerReturnsInv
  <1>5. ASSUME NEW c \in Cmds, RetryFailed(c) PROVE SyncInv'
    BY <1>5, QueueInv
  <1>6. CASE ClearSynced
    BY <1>6, QueueInv
  <1>7. ASSUME NEW a \in {Worker, SyncNow}, SyncTenant(a) PROVE SyncInv'
    <2>1. a \in Actors
      BY ActorsDiffer
    <2> QED
      BY <1>7, <2>1, ReadPendingInv, SyncCommandInv, MarkCommandInv, SyncReadModelInv DEF SyncTenant
  <1>8. CASE Restart
    BY <1>8, RestartInv
  <1>9. CASE \/ ClearCache \/ StartWorker \/ StopWorker \/ Tick \/ CheckConnectivity
             \/ VisitTenant \/ Recheck \/ UNCHANGED vars
             \/ \E t \in Tenants : SyncNowCalled(t)
             \/ \E i \in Items : ResolveConflict(i)
    BY <1>9, LoopInv
  <1>10. ASSUME NEW a \in Actors, Panics(a) PROVE SyncInv'
    BY <1>10, PanicsInv
  <1> QED
    BY <1>1, <1>2, <1>3, <1>4, <1>5, <1>6, <1>7, <1>8, <1>9, <1>10 DEF Next, WorkerStep

(* The argument above holds of every behaviour of the desktop client.      *)
THEOREM SyncInvariance == Spec => []SyncInv
  BY InitSync, NextSync, PTL DEF Spec

(* The queue calls a command Synced only if the server applied it          *)
(* (mark_synced follows a success, in sync_tenant and in adjust_stock).    *)
THEOREM SyncedMeansApplied == Spec => []SyncedIsApplied
  <1>1. SyncInv => SyncedIsApplied
    BY DEF SyncInv
  <1> QED
    BY <1>1, SyncInvariance, PTL

(* However the handlers, the worker and sync_now interleave, no command    *)
(* takes effect twice without one of the listed reasons.                   *)
THEOREM NoSilentRepeat == Spec => []TwiceForAReason
  <1>1. SyncInv => TwiceForAReason
    <2> SUFFICES ASSUME SyncInv, NEW c \in Cmds, applied[c] > 1, c \notin excused PROVE FALSE
      BY DEF TwiceForAReason
    <2>1. applied[c] <= 1 /\ applied[c] \in Nat
      BY DesktopAssumption DEF SyncInv, TypeOK, ListedIsFresh
    <2> QED
      BY <2>1
  <1> QED
    BY <1>1, SyncInvariance, PTL

(* What adjust_stock accepted is queued or applied, unless its INSERT      *)
(* failed.                                                                 *)
THEOREM AcceptedStays == Spec => []AcceptedIsKept
  <1>1. SyncInv => AcceptedIsKept
    BY DEF SyncInv, KeptOnceQueued, AcceptedIsKept
  <1> QED
    BY <1>1, SyncInvariance, PTL


=============================================================================
