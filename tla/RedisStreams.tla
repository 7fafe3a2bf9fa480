---------------------------- MODULE RedisStreams ----------------------------
(***************************************************************************)
(* RedisStreamsEventBus (crates/infra/src/event_bus/redis_streams.rs) with *)
(* the consumer group of the projection loop in build_persistent_services. *)
(* Redis is external: a stream, the group's last delivered entry and one   *)
(* list of pending entries per consumer.  Every start of the program joins *)
(* the group under a new consumer name.  The polling thread of a           *)
(* subscription reads a batch and drains it into a channel; nothing is     *)
(* ever acknowledged.  The projection keeps its rows in PostgreSQL and its *)
(* cursors in memory.                                                      *)
(***************************************************************************)
EXTENDS Integers, Sequences, SequencesExt, OrderedLists, ProjectionCursor

CONSTANTS
    Keys,       \* (tenant, aggregate): the streams of events
    Names,      \* consumer names, one per start of the program
    Filter,     \* the keys each consumer's tenant filter lets through
    Replicas,   \* how many instances of the program run at a time
    BatchSize,  \* messages read at a time (10)
    MaxRetries, \* max_retries (5)
    MaxEvents,  \* bound on the events of a key
    MaxQueued,  \* bound on how often a channel holds an entry
    MaxUnpublished,  \* bound on failed publications
    MaxLostReplies,  \* bound on replies lost by the polling threads
    MaxStops    \* bound on stops of the program

ASSUME RedisAssumption ==
    /\ Filter \in [Names -> SUBSET Keys]
    /\ {Replicas, BatchSize, MaxRetries} \subseteq Nat \ {0}
    /\ {MaxEvents, MaxQueued, MaxUnpublished, MaxLostReplies, MaxStops} \subseteq Nat

VARIABLES
    numbered,   \* the last event number given out for each key
    stream,     \* the Redis stream, an envelope per entry
    lastRead,   \* the group's last delivered entry
    pending,    \* the unacknowledged entries of each consumer, in order
    idle,       \* the pending entries that reached pending_timeout_ms
    dlq,        \* the dead-letter stream
    running,    \* the consumers of running instances
    used,       \* the names used so far
    channel,    \* entries a subscription has handed out and nobody received
    cursor,     \* the cursors of each instance's projection
    rows,       \* what PostgreSQL's rows contain: the numbers applied, in order
    unpublished,  \* failed publications so far
    lostReplies,  \* lost replies so far
    stops,      \* stops so far
    received    \* history: entries some projection loop has received

redisVars == <<stream, lastRead, pending, idle, dlq>>
instanceVars == <<running, used, channel, cursor>>
boundVars == <<unpublished, lostReplies, stops>>
vars == <<numbered, redisVars, instanceVars, rows, boundVars, received>>

Entries == 1 .. Len(stream)
MaxEntries == MaxEvents * Cardinality(Keys)

Envelope == [key : Keys, seq : Nat \ {0}]

TypeOK ==
    /\ numbered \in [Keys -> 0 .. MaxEvents]
    /\ stream \in Seq(Envelope)
    /\ lastRead \in 0 .. Len(stream)
    /\ pending \in [Names -> Seq(Entries)]
    /\ idle \subseteq 1 .. lastRead
    /\ dlq \in Seq(Entries)
    /\ running \subseteq used /\ used \subseteq Names
    /\ channel \in [Names -> Seq(Entries)]
    /\ cursor \in [Names -> [Keys -> 0 .. MaxEvents]]
    /\ rows \in [Keys -> Seq(1 .. MaxEvents)]
    /\ unpublished \in 0 .. MaxUnpublished
    /\ lostReplies \in 0 .. MaxLostReplies
    /\ stops \in 0 .. MaxStops
    /\ received \subseteq 1 .. lastRead

Init ==
    /\ numbered = [k \in Keys |-> 0]
    /\ stream = <<>> /\ lastRead = 0
    /\ pending = [c \in Names |-> <<>>]
    /\ idle = {} /\ dlq = <<>>
    /\ running = {} /\ used = {}
    /\ channel = [c \in Names |-> <<>>]
    /\ cursor = [c \in Names |-> [k \in Keys |-> 0]]
    /\ rows = [k \in Keys |-> <<>>]
    /\ unpublished = 0 /\ lostReplies = 0 /\ stops = 0
    /\ received = {}

-----------------------------------------------------------------------------
(* Publishers *)

(* publish: XADD of the next event of a key.  Events of a key are          *)
(* published in the order they were appended.                              *)
Publish(k) ==
    /\ numbered[k] < MaxEvents
    /\ numbered' = [numbered EXCEPT ![k] = @ + 1]
    /\ stream' = Append(stream, [key |-> k, seq |-> numbered[k] + 1])
    /\ UNCHANGED <<lastRead, pending, idle, dlq, instanceVars, rows, boundVars, received>>

(* XADD fails: the event is stored and never reaches the stream. *)
PublishFails(k) ==
    /\ numbered[k] < MaxEvents
    /\ unpublished < MaxUnpublished
    /\ numbered' = [numbered EXCEPT ![k] = @ + 1]
    /\ unpublished' = unpublished + 1
    /\ UNCHANGED <<redisVars, instanceVars, rows, lostReplies, stops, received>>

-----------------------------------------------------------------------------
(* Instances of the program *)

(* Mutant: the group is created anew. *)
StartAtBeginning(c) ==
    /\ c \notin used
    /\ Cardinality(running) < Replicas
    /\ used' = used \cup {c}
    /\ running' = running \cup {c}
    /\ lastRead' = 0
    /\ UNCHANGED <<numbered, stream, pending, idle, dlq, channel, cursor, rows,
                   boundVars, received>>

(* subscribe_with_group under a new name; the group exists already or is   *)
(* created at the beginning of the stream.                                 *)
Start(c) ==
    /\ c \notin used
    /\ Cardinality(running) < Replicas
    /\ used' = used \cup {c}
    /\ running' = running \cup {c}
    /\ UNCHANGED <<numbered, redisVars, channel, cursor, rows, boundVars, received>>

(* The program ends; what was in its channel and its cursors are gone. *)
Stop(c) ==
    /\ c \in running
    /\ stops < MaxStops
    /\ running' = running \ {c}
    /\ stops' = stops + 1
    /\ channel' = [channel EXCEPT ![c] = <<>>]
    /\ cursor' = [cursor EXCEPT ![c] = [k \in Keys |-> 0]]
    /\ UNCHANGED <<numbered, redisVars, used, rows, unpublished, lostReplies, received>>

-----------------------------------------------------------------------------
(* The polling thread *)

(* An entry of a running consumer has not been delivered for               *)
(* pending_timeout_ms.                                                     *)
Elapse(c, i) ==
    /\ c \in running
    /\ Cardinality({n \in 1 .. Len(channel[c]) : channel[c][n] = i}) < MaxQueued
    /\ i \in Range(pending[c]) \ idle
    /\ idle' = idle \cup {i}
    /\ UNCHANGED <<numbered, stream, lastRead, pending, dlq, instanceVars, rows, boundVars,
                   received>>

(* Mutant: XPENDING + - : the newest pending entries. *)
NewestWindow(c) ==
    SubSeq(pending[c], IF Len(pending[c]) < BatchSize THEN 1 ELSE Len(pending[c]) - BatchSize + 1,
           Len(pending[c]))

(* XPENDING: the first BatchSize pending entries of this consumer. *)
Window(c) ==
    SubSeq(pending[c], 1, IF Len(pending[c]) < BatchSize THEN Len(pending[c]) ELSE BatchSize)

(* XCLAIM: those of them that are idle. *)
Claimed(c) == Keeping(Window(c), idle)

(* XREADGROUP: up to BatchSize entries after the last delivered one. *)
Unread ==
    [n \in 1 .. (IF Len(stream) - lastRead < BatchSize
                 THEN Len(stream) - lastRead ELSE BatchSize) |-> lastRead + n]

(* Entries parse_stream_entry accepts; the others are skipped. *)
Parsed(c) == {i \in Entries : stream[i].key \in Filter[c]}

(* The field retry_count is read, and publish does not write it. *)
RetryCount(i) == 0

Exhausted == {i \in Entries : RetryCount(i) >= MaxRetries}

(* The rest of poll, and the loop that pops the buffer from its end. *)
Deliver(c, entries) ==
    /\ dlq' = dlq \o Keeping(entries, Parsed(c) \cap Exhausted)
    /\ channel' = [channel EXCEPT ![c] =
           @ \o Reverse(Keeping(entries, Parsed(c) \ Exhausted))]

(* What XREADGROUP changes in Redis. *)
ReadUnread(c) ==
    /\ pending' = [pending EXCEPT ![c] = @ \o Unread]
    /\ lastRead' = lastRead + Len(Unread)

(* One turn: idle pending entries, or new ones if those yield nothing. *)
Poll(c) ==
    /\ c \in running
    /\ idle' = idle \ Range(Claimed(c))
    /\ IF Range(Claimed(c)) \cap Parsed(c) # {}
       THEN Deliver(c, Claimed(c)) /\ UNCHANGED <<pending, lastRead>>
       ELSE ReadUnread(c) /\ Deliver(c, Unread)
    /\ UNCHANGED <<numbered, stream, running, used, cursor, rows, boundVars, received>>

(* The commands take effect and the reply is lost: poll logs an error. *)
PollFails(c) ==
    /\ c \in running
    /\ lostReplies < MaxLostReplies
    /\ lostReplies' = lostReplies + 1
    /\ idle' = idle \ Range(Claimed(c))
    /\ \/ Claimed(c) # <<>> /\ UNCHANGED <<pending, lastRead>>
       \/ Range(Claimed(c)) \cap Parsed(c) = {} /\ ReadUnread(c)
    /\ UNCHANGED <<numbered, stream, dlq, instanceVars, rows, unpublished, stops, received>>

-----------------------------------------------------------------------------
(* The projection loop *)

(* recv and apply_envelope; a refused envelope is logged and dropped. *)
Receive(c) ==
    /\ c \in running
    /\ channel[c] # <<>>
    /\ channel' = [channel EXCEPT ![c] = Tail(@)]
    /\ LET i == Head(channel[c])
           k == stream[i].key
           verdict == CursorVerdict(cursor[c][k], stream[i].seq) IN
       /\ received' = received \cup {i}
       /\ IF verdict = "Next"
          THEN /\ rows' = [rows EXCEPT ![k] = Append(@, stream[i].seq)]
               /\ cursor' = [cursor EXCEPT ![c][k] = stream[i].seq]
          ELSE UNCHANGED <<rows, cursor>>
    /\ UNCHANGED <<numbered, redisVars, running, used, boundVars>>

Next ==
    \/ \E k \in Keys : Publish(k) \/ PublishFails(k)
    \/ \E c \in Names : Start(c) \/ Stop(c) \/ Poll(c) \/ PollFails(c) \/ Receive(c)
    \/ \E c \in Names : \E i \in Entries : Elapse(c, i)

Spec == Init /\ [][Next]_vars

(***************************************************************************)
(* Instances are started again while names are left, time passes for every *)
(* pending entry (what keeps it from passing is only the bound), and the   *)
(* polling thread and the projection loop of a running instance go on.     *)
(* Polls are 100 ms apart and timeouts of an entry 60 s, so again and      *)
(* again a poll finds nothing idle and reads what is new.                  *)
(***************************************************************************)
PollNew(c) == Claimed(c) = <<>> /\ Poll(c)

Fairness ==
    /\ WF_vars(\E c \in Names : Start(c))
    /\ \A i \in 1 .. MaxEntries : WF_vars(\E c \in Names : Elapse(c, i))
    /\ \A c \in Names : WF_vars(Poll(c)) /\ WF_vars(Receive(c)) /\ SF_vars(PollNew(c))

FairSpec == Spec /\ Fairness

-----------------------------------------------------------------------------
(* Properties *)

(***************************************************************************)
(* Redelivery, reversed batches, restarts without cursors and instances    *)
(* that share a group never add an event to a persistent row twice, and as *)
(* long as one instance has run there is no event after a later one.       *)
(***************************************************************************)
AppliedOnce ==
    \A k \in Keys : \A i, j \in 1 .. Len(rows[k]) : i < j =>
        /\ rows[k][i] # rows[k][j]
        /\ Cardinality(used) = 1 => rows[k][i] < rows[k][j]

(***************************************************************************)
(* What is read and never acknowledged stays pending, and only the oldest  *)
(* BatchSize pending entries of a running consumer are ever claimed again. *)
(***************************************************************************)
OutOfReach(i) ==
    \E c \in used : \E n \in 1 .. Len(pending[c]) :
        /\ pending[c][n] = i
        /\ c \in running => n > BatchSize /\ i \notin Range(channel[c])

(***************************************************************************)
(* An entry of the stream is received by a projection loop in the end,     *)
(* however many replies are lost, unless it got out of reach: its consumer *)
(* stopped before the loop had it, or the reply that carried it was lost   *)
(* when BatchSize older entries were pending.                              *)
(***************************************************************************)
EveryEntryReceived == []<>(\A i \in Entries : i \in received \/ OutOfReach(i))

(***************************************************************************)
(* An event that was refused because an earlier one of its reversed batch  *)
(* was missing is offered again: the projection reaches the last published *)
(* event, or the one it waits for is out of reach.                         *)
(***************************************************************************)
CatchesUp ==
    \A k \in Keys : []<>(\A c \in running :
        \/ cursor[c][k] = numbered[k]
        \/ \E i \in Entries : stream[i] = [key |-> k, seq |-> cursor[c][k] + 1] /\ OutOfReach(i))
=============================================================================
