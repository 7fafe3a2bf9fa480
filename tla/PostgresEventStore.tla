------------------------ MODULE PostgresEventStore ------------------------
(***************************************************************************)
(* append_events of PostgresEventStore                                     *)
(* (crates/infra/src/event_store/postgres.rs) as the transaction it is:    *)
(* begin and check_stream_version, one INSERT per event, COMMIT, each a    *)
(* round trip between which other appends run.  PostgreSQL itself is       *)
(* external: READ COMMITTED reads, a unique index on (stream, number) and  *)
(* a primary key on event_id that make an INSERT wait for the transaction  *)
(* holding the same key and fail when it commits.  A connection may break  *)
(* at any point, also after COMMIT was executed and before it is           *)
(* acknowledged.                                                           *)
(***************************************************************************)
EXTENDS Integers, Sequences, FiniteSets

CONSTANTS
    Keys,      \* (tenant_id, aggregate_id): the streams
    Types,     \* aggregate types
    Calls,     \* calls of append, each with a batch of its own
    BatchLen,  \* how many events each call appends
    AnyVersion,  \* ExpectedVersion::Any
    MayBreak,  \* whether connections break
    MaxTries   \* bound on how often a call is made, with the same events

ASSUME PostgresAssumption ==
    /\ BatchLen \in [Calls -> Nat \ {0}]
    /\ AnyVersion \notin Nat
    /\ MayBreak \in BOOLEAN
    /\ MaxTries \in Nat

VARIABLES
    table,      \* the committed rows of events
    stage,      \* where each call stands
    args,       \* its stream, aggregate type and expected version
    tries,      \* how often it was made
    base,       \* the version check_stream_version returned
    inserted,   \* the rows its open transaction has inserted
    reply       \* how it ended

vars == <<table, stage, args, tries, base, inserted, reply>>

EventIds == Calls \X (Nat \ {0})

Row == [key : Keys, seq : Nat, id : EventIds, type : Types]

Stages == {"new", "check", "insert", "done"}

Replies == {"None", "Ok", "Concurrency", "AggregateTypeMismatch", "InvalidAppend"}

Args == [key : Keys, type : Types, expected : Nat \cup {AnyVersion}]

NoArgs == [type |-> "None"]

Rows(k) == {row \in table : row.key = k}

(* MAX(sequence_number) over committed rows, 0 if there are none. *)
StreamVersion(k) ==
    IF Rows(k) = {} THEN 0
    ELSE CHOOSE n \in {row.seq : row \in Rows(k)} : \A row \in Rows(k) : row.seq <= n

(* load_stream: the committed events ORDER BY sequence_number. *)
LoadStream(k) ==
    [i \in 1 .. StreamVersion(k) |-> (CHOOSE row \in Rows(k) : row.seq = i).id]

TypeOK ==
    /\ table \subseteq Row
    /\ stage \in [Calls -> Stages]
    /\ args \in [Calls -> Args \cup {NoArgs}]
    /\ tries \in [Calls -> Nat]
    /\ base \in [Calls -> Nat]
    /\ inserted \in [Calls -> SUBSET Row]
    /\ reply \in [Calls -> Replies]

Init ==
    /\ table = {}
    /\ stage = [c \in Calls |-> "new"]
    /\ args = [c \in Calls |-> NoArgs]
    /\ tries = [c \in Calls |-> 0]
    /\ base = [c \in Calls |-> 0]
    /\ inserted = [c \in Calls |-> {}]
    /\ reply = [c \in Calls |-> "None"]

-----------------------------------------------------------------------------
(* Callers *)

(* The batch of a call: its event ids in order. *)
Batch(c) == [i \in 1 .. BatchLen[c] |-> <<c, i>>]

(***************************************************************************)
(* A caller appends: the dispatcher with the version of the stream it just *)
(* loaded, the saga repository with Any.  EventStore::append hands the     *)
(* batch to append_events through Handle::block_on, which panics in a task *)
(* of the runtime before anything is sent to the database: such a call is  *)
(* one that is never made here.                                            *)
(***************************************************************************)
Call(c) ==
    /\ stage[c] = "new"
    /\ \E k \in Keys : \E t \in Types : \E v \in {StreamVersion(k), AnyVersion} :
           args' = [args EXCEPT ![c] = [key |-> k, type |-> t, expected |-> v]]
    /\ stage' = [stage EXCEPT ![c] = "check"]
    /\ tries' = [tries EXCEPT ![c] = 1]
    /\ UNCHANGED <<table, base, inserted, reply>>

(* The caller makes the same call again after a database error. *)
CallAgain(c) ==
    /\ stage[c] = "done"
    /\ reply[c] = "InvalidAppend"
    /\ tries[c] < MaxTries
    /\ stage' = [stage EXCEPT ![c] = "check"]
    /\ tries' = [tries EXCEPT ![c] = @ + 1]
    /\ UNCHANGED <<table, args, base, inserted, reply>>

-----------------------------------------------------------------------------
(* append_events *)

(* Mutant: the transaction is left open. *)
ReturnLeavesOpen(c, result) ==
    /\ stage' = [stage EXCEPT ![c] = "done"]
    /\ reply' = [reply EXCEPT ![c] = result]
    /\ UNCHANGED inserted

(* The call returns; a transaction that was not committed is rolled back. *)
Return(c, result) ==
    /\ stage' = [stage EXCEPT ![c] = "done"]
    /\ reply' = [reply EXCEPT ![c] = result]
    /\ inserted' = [inserted EXCEPT ![c] = {}]

(* Mutant: the version of the stream is not compared. *)
CheckErrorIgnoresVersion(c) ==
    IF \E row \in Rows(args[c].key) : row.type # args[c].type THEN "AggregateTypeMismatch"
    ELSE "None"

(* What the checks after check_stream_version find, in their order. *)
CheckError(c) ==
    IF \E row \in Rows(args[c].key) : row.type # args[c].type THEN "AggregateTypeMismatch"
    ELSE IF args[c].expected \notin {AnyVersion, StreamVersion(args[c].key)} THEN "Concurrency"
    ELSE "None"

(* BEGIN, check_stream_version and the checks of what it returned. *)
CheckStreamVersion(c) ==
    /\ stage[c] = "check"
    /\ IF CheckError(c) = "None"
       THEN /\ base' = [base EXCEPT ![c] = StreamVersion(args[c].key)]
            /\ stage' = [stage EXCEPT ![c] = "insert"]
            /\ UNCHANGED <<reply, inserted>>
       ELSE Return(c, CheckError(c)) /\ UNCHANGED base
    /\ UNCHANGED <<table, args, tries>>

(* The row the next INSERT of the loop writes. *)
NextRow(c) ==
    LET n == Cardinality(inserted[c]) + 1 IN
    [key |-> args[c].key, seq |-> base[c] + n, id |-> <<c, n>>, type |-> args[c].type]

(* Mutant: event_id is not a key. *)
SameKeyNoPrimary(r, s) == r.key = s.key /\ r.seq = s.seq

(* events_stream_unique and the primary key. *)
SameKey(r, s) == (r.key = s.key /\ r.seq = s.seq) \/ r.id = s.id

(* An INSERT waits while an open transaction holds one of its keys. *)
Waits(c) ==
    \E d \in Calls \ {c} : \E row \in inserted[d] : SameKey(row, NextRow(c))

(* Mutant: no transaction, every INSERT is visible at once. *)
InsertEventAutocommit(c) ==
    /\ stage[c] = "insert"
    /\ Cardinality(inserted[c]) < BatchLen[c]
    /\ ~Waits(c)
    /\ IF \E row \in table \ inserted[c] : SameKey(row, NextRow(c))
       THEN Return(c, "Concurrency") /\ UNCHANGED table
       ELSE /\ inserted' = [inserted EXCEPT ![c] = @ \cup {NextRow(c)}]
            /\ table' = table \cup {NextRow(c)}
            /\ UNCHANGED <<stage, reply>>
    /\ UNCHANGED <<args, tries, base>>

(* One INSERT; a unique violation is a Concurrency error. *)
InsertEvent(c) ==
    /\ stage[c] = "insert"
    /\ Cardinality(inserted[c]) < BatchLen[c]
    /\ ~Waits(c)
    /\ IF \E row \in table : SameKey(row, NextRow(c))
       THEN Return(c, "Concurrency")
       ELSE /\ inserted' = [inserted EXCEPT ![c] = @ \cup {NextRow(c)}]
            /\ UNCHANGED <<stage, reply>>
    /\ UNCHANGED <<table, args, tries, base>>

AllInserted(c) == stage[c] = "insert" /\ Cardinality(inserted[c]) = BatchLen[c]

(* COMMIT, acknowledged. *)
Commit(c) ==
    /\ AllInserted(c)
    /\ table' = table \cup inserted[c]
    /\ Return(c, "Ok")
    /\ UNCHANGED <<args, tries, base>>

(* COMMIT takes effect and the connection breaks before the answer. *)
CommitUnacknowledged(c) ==
    /\ MayBreak
    /\ AllInserted(c)
    /\ table' = table \cup inserted[c]
    /\ Return(c, "InvalidAppend")
    /\ UNCHANGED <<args, tries, base>>

(* The connection breaks and the server rolls the transaction back. *)
Break(c) ==
    /\ MayBreak
    /\ stage[c] \in {"check", "insert"}
    /\ Return(c, "InvalidAppend")
    /\ UNCHANGED <<table, args, tries, base>>

-----------------------------------------------------------------------------
CallStep(c) ==
    CheckStreamVersion(c) \/ InsertEvent(c) \/ Commit(c) \/ CommitUnacknowledged(c) \/ Break(c)

Next == \E c \in Calls : Call(c) \/ CallAgain(c) \/ CallStep(c)

Spec == Init /\ [][Next]_vars

(* A call that was made is carried on; an INSERT that waits is woken.  No  *)
(* connection has to break.                                                *)
Progress(c) == CheckStreamVersion(c) \/ InsertEvent(c) \/ Commit(c)

Fairness == \A c \in Calls : WF_vars(Progress(c))

FairSpec == Spec /\ Fairness

-----------------------------------------------------------------------------
(* Properties *)

(***************************************************************************)
(* Whatever transactions overlap, the committed rows of a stream carry the *)
(* numbers 1 to n once each and one aggregate type: load_stream returns a  *)
(* stream without holes that validate_loaded_stream accepts.               *)
(***************************************************************************)
StreamsGapFree ==
    \A k \in Keys :
        /\ {row.seq : row \in Rows(k)} = 1 .. Cardinality(Rows(k))
        /\ \A r, s \in Rows(k) : r.type = s.type

(***************************************************************************)
(* A batch is stored as a whole, once and in order, or not at all, also    *)
(* when the call is made again after a commit whose answer was lost.  With *)
(* an exact version it directly follows the stream its caller loaded.      *)
(***************************************************************************)
StoredRows(c) == {row \in table : row.id[1] = c}

BatchesWhole ==
    \A c \in Calls : StoredRows(c) # {} =>
        \E first \in 1 .. Cardinality(table) :
            /\ StoredRows(c) = {[key |-> args[c].key, seq |-> first + i - 1, id |-> <<c, i>>,
                                 type |-> args[c].type] : i \in 1 .. BatchLen[c]}
            /\ args[c].expected \in {AnyVersion, first - 1}

(***************************************************************************)
(* What a reader of a stream relies on: the streams are gap-free and made  *)
(* of whole batches, whatever overlapped, broke or was called again.       *)
(***************************************************************************)
StreamsWhole == StreamsGapFree /\ BatchesWhole

(***************************************************************************)
(* Ok means stored.  A call made once that is refused stored nothing.      *)
(***************************************************************************)
ReplyTellsOutcome ==
    \A c \in Calls : stage[c] = "done" =>
        /\ reply[c] = "Ok" => StoredRows(c) # {}
        /\ tries[c] = 1 /\ reply[c] \notin {"Ok", "InvalidAppend"} => StoredRows(c) = {}

(***************************************************************************)
(* The transactional store implements the event log: a batch appears at    *)
(* its COMMIT, everything before is invisible.                             *)
(***************************************************************************)
Log == INSTANCE EventLog WITH
           Streams <- Keys,
           Batches <- {Batch(c) : c \in Calls},
           log <- [k \in Keys |-> LoadStream(k)]

ImplementsLog == Log!Spec

(***************************************************************************)
(* No append waits for ever: waiting INSERTs form no cycle, because a call *)
(* waits only before it has inserted anything.                             *)
(***************************************************************************)
CallsReturn == \A c \in Calls : stage[c] = "check" ~> stage[c] = "done"

=============================================================================
