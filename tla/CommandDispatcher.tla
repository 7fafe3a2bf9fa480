------------------------- MODULE CommandDispatcher -------------------------
(***************************************************************************)
(* The write path of ForgeERP and the read model behind it, with the       *)
(* in-memory store and bus (build_in_memory_services):                     *)
(*                                                                         *)
(*   - every HTTP request runs CommandDispatcher::dispatch on its own task *)
(*     (load_stream, apply_history, handle, append, publish); tasks share  *)
(*     the store and the bus and interleave between those calls;           *)
(*   - InMemoryEventStore keeps one Vec per (tenant, aggregate) and tests  *)
(*     the expected version under its write lock;                          *)
(*   - InMemoryEventBus copies a message to every subscriber's channel;    *)
(*   - one worker drains its channel into the stock projection.            *)
(*                                                                         *)
(* history, agg and done are the locals of a running dispatch.  states and *)
(* first are history variables: they record what happened and no action is *)
(* guarded by them.                                                        *)
(***************************************************************************)
EXTENDS StockProjection, Sequences, FiniteSets

CONSTANTS
    Requests,     \* command requests clients send
    Clients,      \* a client sends its requests one at a time
    ClientOf,     \* the client of each request
    RetryOn,      \* the errors after which a client sends a request again
    BusMayFail,   \* whether publish can return an error
    MaxAttempts   \* bound on how often one request is sent

ASSUME DispatcherAssumption ==
    /\ ClientOf \in [Requests -> Clients]
    /\ RetryOn \subseteq {"Concurrency", "Publish"}
    /\ BusMayFail \in BOOLEAN
    /\ MaxAttempts \in Nat

VARIABLES
    streams,    \* the event store: one append-only stream per key
    channel,    \* the projection worker's mpsc channel, oldest first
    pc,         \* where each request's dispatch stands
    cmd,        \* the command each request carries
    attempts,   \* how often each request was sent
    history,    \* the stream as dispatch loaded it
    agg,        \* the aggregate being rehydrated
    done,       \* how many events of history were applied to agg
    reply,      \* how each attempt ended, in order
    cursor,     \* the projection's last applied sequence number per stream
    readModel,  \* the projection's row per item
    states,     \* (history) the item states each stream went through
    first       \* (history) the first sequence number the projection applied

storeVars == <<streams, states>>
taskVars  == <<pc, cmd, attempts, history, agg, done, reply>>
projVars  == <<cursor, readModel, first>>
vars == <<streams, channel, pc, cmd, attempts, history, agg, done, reply,
          cursor, readModel, states, first>>

(***************************************************************************)
(* A stored event, also the envelope made of it: origin and attempt say    *)
(* which sending of which request appended it; nothing in the code reads   *)
(* them (they are history, as the earlier elements of reply are).          *)
(***************************************************************************)
StoredEvent ==
    [key : Keys, seq : Nat \ {0}, payload : Event, origin : Requests, attempt : Nat]

Stages  == {"new", "load", "rehydrate", "append", "publish", "done"}
Replies ==
    {"Ok", "Concurrency", "TenantIsolation", "Validation", "InvariantViolation",
     "NotFound", "Store", "Publish"}

NoCommand == [type |-> "None", key |-> NoKey, name |-> BlankName, delta |-> 0]

TypeOK ==
    /\ streams \in [Keys -> Seq(StoredEvent)]
    /\ channel \in Seq(StoredEvent)
    /\ pc \in [Requests -> Stages]
    /\ cmd \in [Requests -> Command \cup {NoCommand}]
    /\ attempts \in [Requests -> Nat]
    /\ history \in [Requests -> Seq(StoredEvent)]
    /\ agg \in [Requests -> Item]
    /\ done \in [Requests -> Nat]
    /\ reply \in [Requests -> Seq(Replies)]
    /\ cursor \in [Keys -> Nat]
    /\ readModel \in [Keys -> ReadModel]
    /\ states \in [Keys -> Seq(Item)]
    /\ first \in [Keys -> Nat]

Init ==
    /\ streams = [k \in Keys |-> <<>>]
    /\ channel = <<>>
    /\ pc = [r \in Requests |-> "new"]
    /\ cmd = [r \in Requests |-> NoCommand]
    /\ attempts = [r \in Requests |-> 0]
    /\ history = [r \in Requests |-> <<>>]
    /\ agg = [r \in Requests |-> EmptyItem]
    /\ done = [r \in Requests |-> 0]
    /\ reply = [r \in Requests |-> <<>>]
    /\ cursor = [k \in Keys |-> 0]
    /\ readModel = [k \in Keys |-> NoModel]
    /\ states = [k \in Keys |-> <<EmptyItem>>]
    /\ first = [k \in Keys |-> 0]

-----------------------------------------------------------------------------
(* The event store *)

(* stream_version and current_version: the last sequence number, 0 if none. *)
StreamVersion(stream) == IF stream = <<>> THEN 0 ELSE stream[Len(stream)].seq

(* Events a stream must not hold: another stream's, or out of order. *)
Faults(k, stream) ==
    {i \in 1 .. Len(stream) : \/ stream[i].key # k
                             \/ stream[i].seq = 0
                             \/ (i > 1 /\ stream[i].seq <= stream[i - 1].seq)}

(* validate_loaded_stream: the first fault decides the error. *)
ValidateLoadedStream(k, stream) ==
    IF Faults(k, stream) = {} THEN "None"
    ELSE IF \E i \in Faults(k, stream) :
                stream[i].key # k /\ \A j \in Faults(k, stream) : i <= j
    THEN "TenantIsolation"
    ELSE "Store"

-----------------------------------------------------------------------------
(* Clients *)

InFlight(r) == pc[r] \notin {"new", "done"}

ClientIdle(c) == \A q \in Requests : ClientOf[q] = c => ~InFlight(q)

(* A client sends a command for some item. *)
Submit(r) ==
    /\ pc[r] = "new"
    /\ attempts[r] < MaxAttempts
    /\ ClientIdle(ClientOf[r])
    /\ \E k \in Keys : \E c \in CommandsFor(k) : cmd' = [cmd EXCEPT ![r] = c]
    /\ pc' = [pc EXCEPT ![r] = "load"]
    /\ attempts' = [attempts EXCEPT ![r] = @ + 1]
    /\ UNCHANGED <<storeVars, projVars, channel, history, agg, done, reply>>

(* A client sends the same command again after an error it retries on. *)
Retry(r) ==
    /\ pc[r] = "done"
    /\ reply[r][Len(reply[r])] \in RetryOn
    /\ attempts[r] < MaxAttempts
    /\ ClientIdle(ClientOf[r])
    /\ pc' = [pc EXCEPT ![r] = "load"]
    /\ attempts' = [attempts EXCEPT ![r] = @ + 1]
    /\ UNCHANGED <<storeVars, projVars, channel, cmd, history, agg, done, reply>>

-----------------------------------------------------------------------------
(* CommandDispatcher::dispatch *)

Finish(r, result) ==
    /\ pc' = [pc EXCEPT ![r] = "done"]
    /\ reply' = [reply EXCEPT ![r] = Append(@, result)]

(* load_stream under the read lock, validation, make_aggregate. *)
Load(r) ==
    /\ pc[r] = "load"
    /\ history' = [history EXCEPT ![r] = streams[cmd[r].key]]
    /\ agg' = [agg EXCEPT ![r] = EmptyItem]
    /\ done' = [done EXCEPT ![r] = 0]
    /\ LET error == ValidateLoadedStream(cmd[r].key, streams[cmd[r].key]) IN
       IF error = "None"
       THEN pc' = [pc EXCEPT ![r] = "rehydrate"] /\ UNCHANGED reply
       ELSE Finish(r, error)
    /\ UNCHANGED <<storeVars, projVars, channel, cmd, attempts>>

(* One turn of the loop in apply_history, on the dispatch's own copy. *)
ApplyHistory(r) ==
    /\ pc[r] = "rehydrate"
    /\ done[r] < Len(history[r])
    /\ agg' = [agg EXCEPT ![r] = Apply(@, history[r][done[r] + 1].payload)]
    /\ done' = [done EXCEPT ![r] = @ + 1]
    /\ UNCHANGED <<storeVars, projVars, channel, pc, cmd, attempts, history, reply>>

(* From<DomainError>: a conflict in the domain looks like a version conflict. *)
ErrorReply(error) == IF error = "Conflict" THEN "Concurrency" ELSE error

(* aggregate.handle: an error ends the dispatch, otherwise one event is decided. *)
HandleCommand(r) ==
    /\ pc[r] = "rehydrate"
    /\ done[r] = Len(history[r])
    /\ IF HandleError(agg[r], cmd[r]) = "None"
       THEN pc' = [pc EXCEPT ![r] = "append"] /\ UNCHANGED reply
       ELSE Finish(r, ErrorReply(HandleError(agg[r], cmd[r])))
    /\ UNCHANGED <<storeVars, projVars, channel, cmd, attempts, history, agg, done>>

(* The event dispatch appends: the next number of the stream. *)
Committed(r) ==
    [key |-> cmd[r].key, seq |-> StreamVersion(streams[cmd[r].key]) + 1,
     payload |-> Decide(cmd[r]), origin |-> r, attempt |-> attempts[r]]

(* Mutant: append called with ExpectedVersion::Any. *)
VersionMatchesAny(r) == TRUE

(* ExpectedVersion::Exact(version of the loaded history).matches(current) *)
VersionMatches(r) == StreamVersion(history[r]) = StreamVersion(streams[cmd[r].key])

(* Mutant: the version is tested after the event went into the stream. *)
AppendEventThenTest(r) ==
    /\ pc[r] = "append"
    /\ LET k == cmd[r].key IN
       /\ streams' = [streams EXCEPT ![k] = Append(@, Committed(r))]
       /\ states' = [states EXCEPT ![k] = Append(@, Apply(@[Len(@)], Decide(cmd[r])))]
       /\ IF VersionMatches(r)
          THEN pc' = [pc EXCEPT ![r] = "publish"] /\ UNCHANGED reply
          ELSE Finish(r, "Concurrency")
    /\ UNCHANGED <<projVars, channel, cmd, attempts, history, agg, done>>

(* InMemoryEventStore::append, atomic under the write lock. *)
AppendEvent(r) ==
    /\ pc[r] = "append"
    /\ LET k == cmd[r].key IN
       IF VersionMatches(r)
       THEN /\ streams' = [streams EXCEPT ![k] = Append(@, Committed(r))]
            /\ states' = [states EXCEPT ![k] = Append(@, Apply(@[Len(@)], Decide(cmd[r])))]
            /\ pc' = [pc EXCEPT ![r] = "publish"]
            /\ UNCHANGED reply
       ELSE Finish(r, "Concurrency") /\ UNCHANGED storeVars
    /\ UNCHANGED <<projVars, channel, cmd, attempts, history, agg, done>>

(* The event this dispatch committed, as it is read back from append's result. *)
Unpublished(r) == streams[cmd[r].key][StreamVersion(history[r]) + 1]

(* bus.publish(stored.to_envelope()) reaches the worker's channel. *)
Publish(r) ==
    /\ pc[r] = "publish"
    /\ channel' = Append(channel, Unpublished(r))
    /\ Finish(r, "Ok")
    /\ UNCHANGED <<storeVars, projVars, cmd, attempts, history, agg, done>>

(* Mutant: a failed publication is reported like a failed append. *)
PublishFailsAsConflict(r) ==
    /\ pc[r] = "publish"
    /\ BusMayFail
    /\ Finish(r, "Concurrency")
    /\ UNCHANGED <<storeVars, projVars, channel, cmd, attempts, history, agg, done>>

(* bus.publish fails after the append: the caller gets Publish, the event stays. *)
PublishFails(r) ==
    /\ pc[r] = "publish"
    /\ BusMayFail
    /\ Finish(r, "Publish")
    /\ UNCHANGED <<storeVars, projVars, channel, cmd, attempts, history, agg, done>>

-----------------------------------------------------------------------------
(* The projection worker: sub.recv() and apply_envelope; an error is only logged. *)
Deliver ==
    /\ channel # <<>>
    /\ channel' = Tail(channel)
    /\ LET env == Head(channel)
           k == env.key
       IN IF Accepts(cursor[k], env)
          THEN /\ cursor' = [cursor EXCEPT ![k] = env.seq]
               /\ readModel' = [readModel EXCEPT ![k] = Upsert(@, env.payload)]
               /\ first' = [first EXCEPT ![k] = IF @ = 0 THEN env.seq ELSE @]
          ELSE UNCHANGED projVars
    /\ UNCHANGED <<storeVars, taskVars>>

-----------------------------------------------------------------------------
DispatchStep(r) ==
    \/ Load(r) \/ ApplyHistory(r) \/ HandleCommand(r) \/ AppendEvent(r)
    \/ Publish(r) \/ PublishFails(r)

Next == Deliver \/ \E r \in Requests : Submit(r) \/ Retry(r) \/ DispatchStep(r)

Spec == Init /\ [][Next]_vars

-----------------------------------------------------------------------------
(* Properties *)

(***************************************************************************)
(* Optimistic concurrency loses no update: every event of a stream was     *)
(* decided by handle() in the very state its predecessors produce, however *)
(* the tasks interleave between load_stream and append.                    *)
(***************************************************************************)
EventsDecidedOnCurrentState ==
    \A k \in Keys : \A i \in 1 .. Len(streams[k]) :
        LET e == streams[k][i]
            c == cmd[e.origin]
        IN /\ e.payload = Decide(c)
           /\ HandleError(states[k][i], c) = "None"
           /\ states[k][i + 1] = Apply(states[k][i], e.payload)

(***************************************************************************)
(* Stock never goes negative in any state a stream has gone through, not   *)
(* even when the sum handle_adjust computes wraps around.                  *)
(***************************************************************************)
StockNeverNegative == \A k \in Keys : \A i \in 1 .. Len(states[k]) : states[k][i].stock >= 0

(***************************************************************************)
(* What a repeated command may do.  One sending of a request commits at    *)
(* most one event, and of two events of one request the client was told    *)
(* Publish for the earlier before it sent the later: a retried conflict    *)
(* never repeats a command that took effect, a retried Publish can.        *)
(***************************************************************************)
CommitsRepeatOnlyAfterPublish ==
    \A k \in Keys : \A i, j \in 1 .. Len(streams[k]) :
        LET e == streams[k][i]
            f == streams[k][j]
        IN i < j /\ e.origin = f.origin =>
            /\ e.attempt < f.attempt
            /\ e.attempt <= Len(reply[e.origin])
            /\ reply[e.origin][e.attempt] = "Publish"

(***************************************************************************)
(* A reply tells the truth about the store: the attempts answered Ok or    *)
(* Publish stored their event, the ones answered with an error of the      *)
(* domain or a version conflict stored nothing.                            *)
(***************************************************************************)
StoredBy(r, a) ==
    \E k \in Keys : \E i \in 1 .. Len(streams[k]) :
        streams[k][i].origin = r /\ streams[k][i].attempt = a

ReplyTellsOutcome ==
    \A r \in Requests : \A a \in 1 .. Len(reply[r]) :
        StoredBy(r, a) <=> reply[r][a] \in {"Ok", "Publish"}

(***************************************************************************)
(* The row of an item whose first applied event was event 1 is the item's  *)
(* state at the cursor: no event skipped, doubled or taken out of order.   *)
(***************************************************************************)
ReadModelIsAPrefix ==
    \A k \in Keys : first[k] = 1 => readModel[k] = RowOf(states[k][cursor[k] + 1])

(***************************************************************************)
(* Streams are append-only: a step never changes or removes an event, and  *)
(* never adds more than one.                                               *)
(***************************************************************************)
AppendOnly ==
    [][\A k \in Keys :
        /\ Len(streams'[k]) - Len(streams[k]) \in {0, 1}
        /\ SubSeq(streams'[k], 1, Len(streams[k])) = streams[k]]_vars

(***************************************************************************)
(* Dispatch implements the serial specification: the tasks, the versions   *)
(* and the bus are invisible behind the item states.                       *)
(***************************************************************************)
CurrentItem(k) == states[k][Len(states[k])]

Serial == INSTANCE SerialInventory WITH items <- [k \in Keys |-> CurrentItem(k)]

ImplementsSerial == Serial!Spec

(***************************************************************************)
(* Every committed event is eventually reflected by the read model.        *)
(***************************************************************************)
ReadModelCatchesUp ==
    \A k \in Keys : \A n \in 1 .. MaxAttempts * Cardinality(Requests) :
        (Len(streams[k]) >= n) ~> (cursor[k] >= n)

-----------------------------------------------------------------------------
(* The inductive invariant behind the safety properties *)

(* Streams are numbered 1, 2, 3, ... and have one state more than events. *)
StreamsNumbered ==
    \A k \in Keys :
        /\ Len(states[k]) = Len(streams[k]) + 1
        /\ states[k][1] = EmptyItem
        /\ \A i \in 1 .. Len(streams[k]) : streams[k][i].seq = i /\ streams[k][i].key = k

(* A request that was sent carries a command, and only such requests have events. *)
CommandsStarted ==
    /\ \A r \in Requests :
        pc[r] # "new" => cmd[r].key \in Keys /\ cmd[r] \in CommandsFor(cmd[r].key)
    /\ \A k \in Keys : \A i \in 1 .. Len(streams[k]) :
        pc[streams[k][i].origin] # "new" /\ cmd[streams[k][i].origin].key = k

(* What dispatch loaded is a prefix of the stream, what it rehydrated a state of it. *)
LoadedPrefixOf(r) ==
    LET k == cmd[r].key IN
    /\ Len(history[r]) <= Len(streams[k])
    /\ \A i \in 1 .. Len(history[r]) : history[r][i] = streams[k][i]
    /\ done[r] <= Len(history[r])
    /\ agg[r] = states[k][done[r] + 1]
    /\ pc[r] # "rehydrate" =>
        /\ done[r] = Len(history[r])
        /\ HandleError(agg[r], cmd[r]) = "None"
    /\ pc[r] = "publish" => Len(history[r]) < Len(streams[k])

LoadedPrefix ==
    \A r \in Requests : pc[r] \in {"rehydrate", "append", "publish"} => LoadedPrefixOf(r)

(* Only stored events are published, and the projection never runs ahead. *)
PublishedIsStored ==
    /\ \A i \in 1 .. Len(channel) :
        /\ channel[i].seq <= Len(streams[channel[i].key])
        /\ channel[i] = streams[channel[i].key][channel[i].seq]
    /\ \A k \in Keys :
        /\ cursor[k] <= Len(streams[k])
        /\ cursor[k] = 0 => readModel[k] = NoModel
        /\ cursor[k] = 0 <=> first[k] = 0

StoreInv ==
    /\ TypeOK
    /\ StreamsNumbered
    /\ CommandsStarted
    /\ LoadedPrefix
    /\ EventsDecidedOnCurrentState
    /\ StockNeverNegative

(***************************************************************************)
(* An attempt is answered when its dispatch ends, one after the other, and *)
(* only answers a client retries on are followed by another attempt.       *)
(***************************************************************************)
AttemptsAnswered ==
    \A r \in Requests :
        /\ Len(reply[r]) = IF InFlight(r) THEN attempts[r] - 1 ELSE attempts[r]
        /\ pc[r] = "new" => attempts[r] = 0
        /\ pc[r] = "done" => attempts[r] > 0
        /\ \A a \in 1 .. attempts[r] - 1 : reply[r][a] \in {"Concurrency", "Publish"}

(***************************************************************************)
(* An event belongs to an attempt that was made, and the attempt under way *)
(* has its event in the store exactly while it is past its append.         *)
(***************************************************************************)
CurrentAttempt ==
    /\ \A k \in Keys : \A i \in 1 .. Len(streams[k]) :
        streams[k][i].attempt \in 1 .. attempts[streams[k][i].origin]
    /\ \A r \in Requests : InFlight(r) => (StoredBy(r, attempts[r]) <=> pc[r] = "publish")

OutcomeInv ==
    AttemptsAnswered /\ CurrentAttempt /\ ReplyTellsOutcome /\ CommitsRepeatOnlyAfterPublish

(***************************************************************************)
(* The inductive invariant: what the proofs of the safety properties carry *)
(* through every step of dispatch and of the projection worker.            *)
(***************************************************************************)
InductiveInvariant == StoreInv /\ PublishedIsStored /\ ReadModelIsAPrefix

=============================================================================
