-------------------------- MODULE ProjectionReplay --------------------------
(***************************************************************************)
(* Rebuilding read models (crates/infra/src/projections/replay.rs, behind  *)
(* crates/api/src/app/routes/replay.rs) while the service loop goes on     *)
(* applying published events to the same projections.                      *)
(*                                                                         *)
(* Applying an envelope is several steps: the cursor is read, the row is   *)
(* read, the row is written, the cursor is written, each under a lock of   *)
(* its own.  The loop and any number of replay tasks take them             *)
(* independently.                                                          *)
(*                                                                         *)
(* Rows and cursors are in memory, as they are for every projection but    *)
(* the persistent stock table, so a restart loses both; events stay.  A    *)
(* row is the sequence of the events folded into it: it is right when it   *)
(* is 1, 2, ..., n.  An aggregate belongs to one projection.  The tenant   *)
(* is fixed: replays of different tenants touch different rows.            *)
(***************************************************************************)
EXTENDS Integers, Sequences, FiniteSets, SequencesExt, ProjectionCursor

CONSTANTS
    Aggs,         \* aggregate ids, in the order of their bytes
    Projections,  \* the projections that can be replayed
    TypeOf,       \* the projection each aggregate's events are for
    Jobs,         \* replay job ids
    PageSize,     \* PAGE_SIZE
    MaxEvents,    \* bound on the events stored
    MaxInbox,     \* bound on the events the service loop has not received
    MaxFaults     \* bound on restarts and failing queries

ASSUME ReplayAssumption ==
    /\ Aggs \subseteq Nat \ {0}
    /\ TypeOf \in [Aggs -> Projections]
    /\ PageSize \in Nat \ {0}
    /\ MaxEvents \in Nat
    /\ MaxInbox \in Nat
    /\ MaxFaults \in Nat

Loop == "service loop"
ASSUME LoopAssumption == Loop \notin Jobs

VARIABLES
    timeline,  \* the event store as query_events lists it, latest occurred_at first
    inbox,     \* events the service loop will receive, in the order of their publication
    rows,      \* the read models' rows
    cursor,    \* the projections' cursors
    apply,     \* where each actor is in apply_envelope
    job,       \* the replay jobs
    faults,    \* failures so far
    stored,    \* (history) events of each aggregate stored when a job began, unless it is dry
    disturbed  \* (history) jobs whose projection others wrote to since their clear

vars == <<timeline, inbox, rows, cursor, apply, job, faults, stored, disturbed>>

Actors == {Loop} \cup Jobs
Event == [agg : Aggs, seq : 1 .. MaxEvents]
NoEvent == [agg |-> 0, seq |-> 0]

Stored(a) == {i \in 1 .. Len(timeline) : timeline[i].agg = a}
LastSeq(a) == Cardinality(Stored(a))

(* apply_envelope in progress: the event, and the row as it was read. *)
Idle == [step |-> "idle", event |-> NoEvent, row |-> <<>>]

(* A job before it is started. *)
NoJob == [phase |-> "none", projection |-> "none", dry |-> FALSE, offset |-> 0,
          events |-> <<>>, cancelled |-> FALSE]

Phases == {"none", "Loading", "Clearing", "ClearingCursors", "Replaying", "Complete", "Failed"}

TypeOK ==
    /\ timeline \in Seq(Event)
    /\ inbox \in Seq(Event)
    /\ rows \in [Aggs -> Seq(1 .. MaxEvents)]
    /\ cursor \in [Aggs -> 0 .. MaxEvents]
    /\ apply \in [Actors -> [step : {"idle", "get", "upsert", "advance"},
                             event : Event \cup {NoEvent}, row : Seq(1 .. MaxEvents)]]
    /\ \A j \in Jobs :
          /\ job[j].phase \in Phases
          /\ job[j].projection \in Projections \cup {"none"}
          /\ job[j].dry \in BOOLEAN /\ job[j].cancelled \in BOOLEAN
          /\ job[j].offset \in Nat
          /\ job[j].events \in Seq(Event)
    /\ faults \in 0 .. MaxFaults
    /\ stored \in [Jobs -> [Aggs -> 0 .. MaxEvents]]
    /\ disturbed \subseteq Jobs

Init ==
    /\ timeline = <<>>
    /\ inbox = <<>>
    /\ rows = [a \in Aggs |-> <<>>]
    /\ cursor = [a \in Aggs |-> 0]
    /\ apply = [x \in Actors |-> Idle]
    /\ job = [j \in Jobs |-> NoJob]
    /\ faults = 0
    /\ stored = [j \in Jobs |-> [a \in Aggs |-> 0]]
    /\ disturbed = {}

-----------------------------------------------------------------------------
(***************************************************************************)
(* A dispatch stores the next event of an aggregate and publishes it       *)
(* afterwards.  Other dispatches of the aggregate publish meanwhile, so    *)
(* the event may get ahead of those the loop has not received: a late      *)
(* publication and a late receipt look the same to the loop, and one that  *)
(* failed is an event that is never received.  Events of different         *)
(* aggregates touch different rows and keep their order.                   *)
(*                                                                         *)
(* occurred_at was taken when the command arrived, so the event may rank   *)
(* behind events that were stored before it, though not behind the one     *)
(* that created its aggregate and made its id known.  Equal times are      *)
(* left out: each query would list them in an order of its own.            *)
(***************************************************************************)
AppendEvent(a) ==
    /\ Len(timeline) < MaxEvents
    /\ Len(inbox) < MaxInbox
    /\ LET e == [agg |-> a, seq |-> LastSeq(a) + 1] IN
       /\ \E i \in 1 .. Len(timeline) + 1 :
             /\ \A k \in Stored(a) : timeline[k].seq = 1 => i <= k
             /\ timeline' = InsertAt(timeline, i, e)
       /\ \E i \in 1 .. Len(inbox) + 1 :
             /\ \A k \in i .. Len(inbox) : inbox[k].agg = a
             /\ inbox' = InsertAt(inbox, i, e)
    /\ UNCHANGED <<rows, cursor, apply, job, faults, stored, disturbed>>

-----------------------------------------------------------------------------
(* apply_envelope, step by step. *)

(* The jobs between their clear and their end on the event's projection,   *)
(* other than the actor itself.                                            *)
Disturbs(x, p) ==
    {j \in Jobs \ {x} : job[j].projection = p /\ job[j].phase \in {"ClearingCursors", "Replaying"}
                          /\ ~job[j].dry}

(* The cursor test: what apply_envelope does with the event from here.     *)
Begin(x, e) ==
    apply' = [apply EXCEPT ![x] =
        IF CursorVerdict(cursor[e.agg], e.seq) # "Next" THEN Idle
        ELSE [step |-> IF e.seq = 1 THEN "upsert" ELSE "get", event |-> e, row |-> <<>>]]

(* store.get; the first event of an aggregate creates the row unread. *)
GetRow(x) ==
    /\ apply[x].step = "get"
    /\ apply' = [apply EXCEPT ![x].step = "upsert", ![x].row = rows[apply[x].event.agg]]
    /\ UNCHANGED <<timeline, inbox, rows, cursor, job, faults, stored, disturbed>>

UpsertRow(x) ==
    /\ apply[x].step = "upsert"
    /\ LET e == apply[x].event IN
       /\ rows' = [rows EXCEPT ![e.agg] = Append(apply[x].row, e.seq)]
       /\ disturbed' = disturbed \cup Disturbs(x, TypeOf[e.agg])
    /\ apply' = [apply EXCEPT ![x].step = "advance"]
    /\ UNCHANGED <<timeline, inbox, cursor, job, faults, stored>>

UpdateCursor(x) ==
    /\ apply[x].step = "advance"
    /\ LET e == apply[x].event IN
       /\ cursor' = [cursor EXCEPT ![e.agg] = e.seq]
       /\ disturbed' = disturbed \cup Disturbs(x, TypeOf[e.agg])
    /\ apply' = [apply EXCEPT ![x] = Idle]
    /\ UNCHANGED <<timeline, inbox, rows, job, faults, stored>>

ApplyStep(x) == GetRow(x) \/ UpsertRow(x) \/ UpdateCursor(x)

(* The service loop takes the next published event; an error is logged. *)
Receive ==
    /\ apply[Loop] = Idle
    /\ inbox # <<>>
    /\ Begin(Loop, Head(inbox))
    /\ inbox' = Tail(inbox)
    /\ UNCHANGED <<timeline, rows, cursor, job, faults, stored, disturbed>>

-----------------------------------------------------------------------------
(* The routes. *)

Running(j) == job[j].phase \in {"Loading", "Clearing", "ClearingCursors", "Replaying"}

StartReplay(j) ==
    /\ job[j] = NoJob
    /\ \E p \in Projections, dry \in BOOLEAN :
          /\ job' = [job EXCEPT ![j] = [NoJob EXCEPT !.phase = "Loading", !.projection = p, !.dry = dry]]
          /\ stored' = IF dry THEN stored
                       ELSE [stored EXCEPT ![j] = [a \in Aggs |-> LastSeq(a)]]
    /\ UNCHANGED <<timeline, inbox, rows, cursor, apply, faults, disturbed>>

(* A flag set after the job's end is never read. *)
CancelReplay(j) ==
    /\ Running(j)
    /\ job' = [job EXCEPT ![j].cancelled = TRUE]
    /\ UNCHANGED <<timeline, inbox, rows, cursor, apply, faults, stored, disturbed>>

-----------------------------------------------------------------------------
(* run_replay.  Its result becomes the job's last phase; the task's own    *)
(* state is gone with it, and what was recorded about it.                  *)
Ended(j, phase) ==
    /\ job' = [job EXCEPT ![j] = [NoJob EXCEPT !.phase = phase, !.projection = job[j].projection]]
    /\ stored' = [stored EXCEPT ![j] = [a \in Aggs |-> 0]]
    /\ disturbed' = disturbed \ {j}

(* The flag is tested before each page, before and after the clear and     *)
(* before each event.                                                      *)
Cancelled(j) ==
    /\ job[j].phase \in {"Loading", "Clearing", "Replaying"}
    /\ apply[j] = Idle
    /\ job[j].cancelled
    /\ Ended(j, "Failed")
    /\ UNCHANGED <<timeline, inbox, rows, cursor, apply, faults>>

(* Counted over the events of all projections. *)
HasMore(j) == Len(timeline) > job[j].offset + PageSize

(* One page of query_events: the relevant ones of PageSize events from     *)
(* offset on.  While loading, events holds what the pages brought.         *)
Page(j) ==
    SelectSeq(SubSeq(timeline, job[j].offset + 1,
                     IF HasMore(j) THEN job[j].offset + PageSize ELSE Len(timeline)),
              LAMBDA e : TypeOf[e.agg] = job[j].projection)

(* Replay order: by aggregate and sequence number. *)
ReplayOrder(events) == 
    SortSeq(events, LAMBDA d, e : d.agg < e.agg \/ (d.agg = e.agg /\ d.seq < e.seq))

LoadPage(j) ==
    /\ job[j].phase = "Loading" /\ ~job[j].cancelled
    /\ IF HasMore(j)
       THEN job' = [job EXCEPT ![j].events = @ \o Page(j), ![j].offset = @ + PageSize]
       ELSE job' = [job EXCEPT ![j].events = @ \o Page(j), ![j].phase = "Clearing"]
    /\ UNCHANGED <<timeline, inbox, rows, cursor, apply, faults, stored, disturbed>>

LoadFails(j) ==
    /\ job[j].phase = "Loading" /\ ~job[j].cancelled
    /\ faults < MaxFaults
    /\ faults' = faults + 1
    /\ Ended(j, "Failed")
    /\ UNCHANGED <<timeline, inbox, rows, cursor, apply>>

Mine(j, a) == TypeOf[a] = job[j].projection

(* rebuild_from_scratch, called for its effect on the tenant: the rows go, *)
(* then the cursors.  A dry run leaves both.                               *)
ClearRows(j) ==
    /\ job[j].phase = "Clearing" /\ ~job[j].cancelled
    /\ IF job[j].dry
       THEN /\ job' = [job EXCEPT ![j].phase = "Replaying", ![j].events = ReplayOrder(@)]
            /\ UNCHANGED <<rows, disturbed>>
       ELSE /\ rows' = [a \in Aggs |-> IF Mine(j, a) THEN <<>> ELSE rows[a]]
            /\ job' = [job EXCEPT ![j].phase = "ClearingCursors"]
            /\ disturbed' = disturbed \cup Disturbs(j, job[j].projection)
                 \cup {i \in {j} : \E x \in Actors \ {j} :
                          \/ apply[x].step # "idle" /\ Mine(j, apply[x].event.agg)
                          \/ x \in Disturbs(j, job[j].projection)}
    /\ UNCHANGED <<timeline, inbox, cursor, apply, faults, stored>>

(* Mutant: the cursors stay. *)
ClearCursorsForgotten(j) ==
    /\ job[j].phase = "ClearingCursors"
    /\ job' = [job EXCEPT ![j].phase = "Replaying", ![j].events = ReplayOrder(@)]
    /\ UNCHANGED <<timeline, inbox, rows, cursor, apply, faults, stored, disturbed>>

ClearCursors(j) ==
    /\ job[j].phase = "ClearingCursors"
    /\ cursor' = [a \in Aggs |-> IF Mine(j, a) THEN 0 ELSE cursor[a]]
    /\ job' = [job EXCEPT ![j].phase = "Replaying", ![j].events = ReplayOrder(@)]
    /\ disturbed' = disturbed \cup Disturbs(j, job[j].projection)
    /\ UNCHANGED <<timeline, inbox, rows, apply, faults, stored>>

(* Mutant: a refused event is tried again instead of ending the replay. *)
ReplayEventAgain(j) ==
    /\ job[j].phase = "Replaying" /\ ~job[j].cancelled
    /\ apply[j] = Idle
    /\ job[j].events # <<>>
    /\ LET e == Head(job[j].events) IN
       /\ job[j].dry \/ CursorVerdict(cursor[e.agg], e.seq) # "NonMonotonicSequence"
       /\ IF job[j].dry THEN UNCHANGED apply ELSE Begin(j, e)
       /\ job' = [job EXCEPT ![j].events = Tail(@)]
    /\ UNCHANGED <<timeline, inbox, rows, cursor, faults, stored, disturbed>>

(* The next event; one the cursor refuses ends the replay. *)
ReplayEvent(j) ==
    /\ job[j].phase = "Replaying" /\ ~job[j].cancelled
    /\ apply[j] = Idle
    /\ job[j].events # <<>>
    /\ LET e == Head(job[j].events) IN
       /\ IF job[j].dry THEN UNCHANGED apply ELSE Begin(j, e)
       /\ IF ~job[j].dry /\ CursorVerdict(cursor[e.agg], e.seq) = "NonMonotonicSequence"
          THEN Ended(j, "Failed")
          ELSE /\ job' = [job EXCEPT ![j].events = Tail(@)]
               /\ UNCHANGED <<stored, disturbed>>
    /\ UNCHANGED <<timeline, inbox, rows, cursor, faults>>

ReplayDone(j) ==
    /\ job[j].phase = "Replaying"
    /\ apply[j] = Idle
    /\ job[j].events = <<>>
    /\ Ended(j, "Complete")
    /\ UNCHANGED <<timeline, inbox, rows, cursor, apply, faults>>

ReplayTask(j) ==
    Cancelled(j) \/ LoadPage(j) \/ LoadFails(j) \/ ClearRows(j) \/ ClearCursors(j)
      \/ ReplayEvent(j) \/ ApplyStep(j) \/ ReplayDone(j)

-----------------------------------------------------------------------------
(* A restart: rows, cursors and jobs are gone, and so is what the loop had *)
(* taken off the bus; the events are still stored.                         *)
Restart ==
    /\ faults < MaxFaults
    /\ faults' = faults + 1
    /\ rows' = [a \in Aggs |-> <<>>]
    /\ cursor' = [a \in Aggs |-> 0]
    /\ apply' = [x \in Actors |-> Idle]
    /\ job' = [j \in Jobs |-> NoJob]
    /\ \E i \in 0 .. Len(inbox) : inbox' = SubSeq(inbox, i + 1, Len(inbox))
    /\ stored' = [j \in Jobs |-> [a \in Aggs |-> 0]]
    /\ disturbed' = {}
    /\ UNCHANGED timeline

Next ==
    \/ \E a \in Aggs : AppendEvent(a)
    \/ Receive \/ ApplyStep(Loop)
    \/ \E j \in Jobs : StartReplay(j) \/ CancelReplay(j) \/ ReplayTask(j)
    \/ Restart

(* Spawned tasks are run. *)
Spec == Init /\ [][Next]_vars /\ \A j \in Jobs : WF_vars(ReplayTask(j))

-----------------------------------------------------------------------------
Prefix(n) == [i \in 1 .. n |-> i]

Ends(j) == Running(j) /\ job'[j].phase \in {"Complete", "Failed"}

(* The hazard of replay.rs: wherever rows and cursors stood before (a      *)
(* restart, a cancelled replay, an event that was refused), a replay that  *)
(* nobody else disturbs after its clear leaves rows that are prefixes of   *)
(* the streams, up to their cursors, and a complete one has all the events *)
(* that were stored when it was started.                                   *)
RebuildRestores ==
    [][\A j \in Jobs :
         Ends(j) /\ ~job[j].dry /\ j \notin disturbed /\ job[j].phase = "Replaying" =>
           \A a \in Aggs : Mine(j, a) =>
             /\ rows[a] = Prefix(cursor[a])
             /\ job'[j].phase = "Complete" => cursor[a] >= stored[j][a]]_vars

(* A replay ends, whatever pages, events and cancellations come in the     *)
(* meantime, unless the process is restarted.                              *)
ReplayEnds ==
    \A j \in Jobs : Running(j) ~> ~Running(j)
=============================================================================
