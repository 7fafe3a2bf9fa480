---------------------- MODULE CommandDispatcherProofs ----------------------
(***************************************************************************)
(* Proofs of the safety properties of CommandDispatcher for any number of  *)
(* items, clients, requests and attempts.                                  *)
(*                                                                         *)
(* The argument: what a dispatch loaded stays a prefix of the append-only  *)
(* stream and what it rehydrated is the item's state after that prefix     *)
(* (LoadedPrefix).  When append finds the version unchanged the prefix is  *)
(* the whole stream (StreamsNumbered turns equal versions into equal       *)
(* lengths), so the event was decided on the current state.                *)
(***************************************************************************)
EXTENDS CommandDispatcher, SequenceTheorems, TLAPS

-----------------------------------------------------------------------------
(* The inventory aggregate and the stock read model *)

(***************************************************************************)
(* An i64 sum is an i64, wrapped around or not (self.stock += e.delta).    *)
(***************************************************************************)
LEMMA AddI64Type ==
    ASSUME NEW a \in I64, NEW b \in I64
    PROVE  AddI64(a, b) \in I64
  BY InventoryAssumption DEF AddI64, I64

(***************************************************************************)
(* A command of CommandsFor(k) is a well-formed command for k.             *)
(***************************************************************************)
LEMMA CommandsForType ==
    ASSUME NEW k \in Keys, NEW c \in CommandsFor(k)
    PROVE  c \in Command /\ c.key = k
  <1>1. CASE \E n \in Names : c = CreateItem(k, n)
    BY <1>1, InventoryAssumption DEF CreateItem, Command, I64
  <1>2. CASE \E d \in Deltas : c = AdjustStock(k, d)
    BY <1>2, InventoryAssumption DEF AdjustStock, Command, I64
  <1> QED
    BY <1>1, <1>2 DEF CommandsFor

(***************************************************************************)
(* handle() turns a command into an event, and apply() keeps an item an    *)
(* item.                                                                   *)
(***************************************************************************)
LEMMA DecideType ==
    ASSUME NEW c \in Command
    PROVE  Decide(c) \in Event
  BY DEF Decide, Command, Event

(* apply keeps an item an item, its stock an i64. *)
LEMMA ApplyType ==
    ASSUME NEW item \in Item, NEW e \in Event
    PROVE  Apply(item, e) \in Item
  <1>1. AddI64(item.stock, e.delta) \in I64
    BY AddI64Type DEF Item, Event
  <1>2. 0 \in I64
    BY InventoryAssumption DEF I64
  <1>3. CASE e.type = "ItemCreated"
    BY <1>2, <1>3 DEF Apply, Item, Event
  <1>4. CASE e.type # "ItemCreated"
    <2>1. Apply(item, e) = [created |-> item.created, key |-> item.key, name |-> item.name,
                            stock |-> AddI64(item.stock, e.delta),
                            version |-> item.version + 1]
      BY <1>4 DEF Apply, Item
    <2> QED
      BY <1>1, <2>1 DEF Item
  <1> QED
    BY <1>3, <1>4

(* empty() is an item. *)
LEMMA EmptyItemType == EmptyItem \in Item
  BY InventoryAssumption DEF EmptyItem, Item, I64

(***************************************************************************)
(* The upsert keeps the read model well-typed.                             *)
(***************************************************************************)
LEMMA UpsertType ==
    ASSUME NEW rm \in ReadModel, NEW e \in Event
    PROVE  Upsert(rm, e) \in ReadModel
  <1>1. AddI64(rm.quantity, e.delta) \in I64
    BY AddI64Type DEF ReadModel, Event
  <1>2. 0 \in I64
    BY InventoryAssumption DEF I64
  <1> QED
    BY <1>1, <1>2 DEF Upsert, ReadModel, Event

(* The absent row is a row. *)
LEMMA NoModelType == NoModel \in ReadModel
  BY InventoryAssumption DEF NoModel, ReadModel, I64

(***************************************************************************)
(* A command that handle() accepts leaves the stock non-negative: the sum  *)
(* handle_adjust tests is the sum apply() computes, wrap-around included.  *)
(***************************************************************************)
LEMMA AcceptedKeepsStock ==
    ASSUME NEW item \in Item, NEW c \in Command,
           HandleError(item, c) = "None"
    PROVE  Apply(item, Decide(c)).stock >= 0
  <1>1. CASE c.type = "CreateItem"
    BY <1>1 DEF Apply, Decide
  <1>2. CASE c.type # "CreateItem"
    <2>1. AddI64(item.stock, c.delta) \in I64
      BY AddI64Type DEF Item, Command
    <2>2. ~(AddI64(item.stock, c.delta) < 0)
      BY <1>2 DEF HandleError, AdjustError
    <2>3. Apply(item, Decide(c)).stock = AddI64(item.stock, c.delta)
      BY <1>2 DEF Apply, Decide, Item
    <2> QED
      BY <2>1, <2>2, <2>3, InventoryAssumption DEF I64
  <1> QED
    BY <1>1, <1>2

(***************************************************************************)
(* The projection mirrors the aggregate: on an event handle() accepted,    *)
(* the upsert does to the row what apply() does to the item.               *)
(***************************************************************************)
LEMMA UpsertMirrorsApply ==
    ASSUME NEW item \in Item, NEW c \in Command,
           HandleError(item, c) = "None"
    PROVE  RowOf(Apply(item, Decide(c))) = Upsert(RowOf(item), Decide(c))
  <1>1. CASE c.type = "CreateItem"
    BY <1>1 DEF RowOf, Apply, Upsert, Decide
  <1>2. CASE c.type # "CreateItem"
    <2>1. item.created = TRUE
      BY <1>2 DEF HandleError, AdjustError, Item
    <2>2. Apply(item, Decide(c)) =
            [item EXCEPT !.stock = AddI64(item.stock, c.delta), !.version = item.version + 1]
      BY <1>2 DEF Apply, Decide
    <2> QED
      BY <1>2, <2>1, <2>2 DEF RowOf, Upsert, Decide, Item
  <1> QED
    BY <1>1, <1>2

-----------------------------------------------------------------------------
(* Facts about the store that hold in every state of the invariant *)

(***************************************************************************)
(* Reading a stored event and a recorded item state stays within types.    *)
(***************************************************************************)
LEMMA StoredType ==
    ASSUME TypeOK, NEW k \in Keys, NEW i \in 1 .. Len(streams[k])
    PROVE  streams[k][i] \in StoredEvent
  BY DEF TypeOK

(* Every recorded state of a stream is an item. *)
LEMMA StateType ==
    ASSUME TypeOK, NEW k \in Keys, NEW i \in 1 .. Len(states[k])
    PROVE  states[k][i] \in Item
  BY DEF TypeOK

(***************************************************************************)
(* A sent request carries a command for an item.                           *)
(***************************************************************************)
LEMMA SentCommand ==
    ASSUME CommandsStarted, NEW r \in Requests, pc[r] # "new"
    PROVE  /\ cmd[r].key \in Keys
           /\ cmd[r] \in CommandsFor(cmd[r].key)
           /\ cmd[r] \in Command
  BY CommandsForType DEF CommandsStarted

(***************************************************************************)
(* The version of a stream or of a loaded prefix of it is its length.      *)
(***************************************************************************)
LEMMA VersionIsLength ==
    ASSUME TypeOK, StreamsNumbered, NEW k \in Keys
    PROVE  StreamVersion(streams[k]) = Len(streams[k])
  <1>1. streams[k] \in Seq(StoredEvent)
    BY DEF TypeOK
  <1>2. CASE streams[k] = <<>>
    BY <1>2 DEF StreamVersion
  <1>3. CASE streams[k] # <<>>
    <2>1. Len(streams[k]) \in 1 .. Len(streams[k])
      BY <1>1, <1>3
    <2> QED
      BY <1>3, <2>1 DEF StreamVersion, StreamsNumbered
  <1> QED
    BY <1>2, <1>3

(* The version dispatch computes from what it loaded is its length. *)
LEMMA HistoryVersionIsLength ==
    ASSUME TypeOK, StreamsNumbered, CommandsStarted, LoadedPrefix,
           NEW r \in Requests, pc[r] \in {"rehydrate", "append", "publish"}
    PROVE  StreamVersion(history[r]) = Len(history[r])
  <1> DEFINE k == cmd[r].key
  <1>1. history[r] \in Seq(StoredEvent) /\ streams[k] \in Seq(StoredEvent) /\ k \in Keys
    BY SentCommand DEF TypeOK
  <1>2. CASE history[r] = <<>>
    BY <1>2 DEF StreamVersion
  <1>3. CASE history[r] # <<>>
    <2>1. Len(history[r]) \in 1 .. Len(history[r])
      BY <1>1, <1>3
    <2>2. Len(history[r]) \in 1 .. Len(streams[k])
      BY <1>1, <2>1 DEF LoadedPrefix, LoadedPrefixOf
    <2>3. history[r][Len(history[r])].seq = Len(history[r])
      BY <1>1, <2>1, <2>2 DEF LoadedPrefix, LoadedPrefixOf, StreamsNumbered
    <2> QED
      BY <1>3, <2>3 DEF StreamVersion
  <1> QED
    BY <1>2, <1>3

(***************************************************************************)
(* What append commits: when the version test passes, the dispatch has     *)
(* seen the whole stream, its aggregate is the item's current state, and   *)
(* the new event takes the next number.                                    *)
(***************************************************************************)
LEMMA CommitOnCurrentState ==
    ASSUME StoreInv, NEW r \in Requests, pc[r] = "append", VersionMatches(r)
    PROVE  LET k == cmd[r].key IN
           /\ Len(history[r]) = Len(streams[k])
           /\ agg[r] = states[k][Len(states[k])]
           /\ states[k][Len(states[k])] \in Item
           /\ HandleError(states[k][Len(states[k])], cmd[r]) = "None"
           /\ Committed(r) \in StoredEvent
           /\ Committed(r).seq = Len(streams[k]) + 1
           /\ Committed(r).key = k
           /\ Committed(r).payload = Decide(cmd[r])
           /\ Committed(r).origin = r
  <1> DEFINE k == cmd[r].key
  <1> USE DEF StoreInv
  <1>1. k \in Keys /\ cmd[r] \in Command
    BY SentCommand
  <1>2. StreamVersion(streams[k]) = Len(streams[k])
    BY <1>1, VersionIsLength
  <1>3. Len(history[r]) = Len(streams[k])
    BY <1>2, HistoryVersionIsLength DEF VersionMatches
  <1>4. Len(streams[k]) \in Nat /\ Len(states[k]) = Len(streams[k]) + 1
    BY <1>1 DEF TypeOK, StreamsNumbered
  <1>5. agg[r] = states[k][Len(states[k])] /\ HandleError(agg[r], cmd[r]) = "None"
    BY <1>3, <1>4, SMTT(30) DEF LoadedPrefix, LoadedPrefixOf
  <1>6. states[k][Len(states[k])] \in Item
    BY <1>1, <1>4, StateType
  <1>7. Decide(cmd[r]) \in Event
    BY <1>1, DecideType
  <1>8. Committed(r) \in StoredEvent
    <2>1. attempts[r] \in Nat
      BY DEF TypeOK
    <2> QED
      BY <1>1, <1>2, <1>4, <1>7, <2>1 DEF Committed, StoredEvent
  <1> QED
    BY <1>2, <1>3, <1>5, <1>6, <1>8 DEF Committed

-----------------------------------------------------------------------------
(* The inductive invariant, action by action *)

(***************************************************************************)
(* The system starts with empty streams, no request sent and no row.       *)
(***************************************************************************)
LEMMA InvInit == Init => InductiveInvariant
  <1> SUFFICES ASSUME Init PROVE InductiveInvariant
    OBVIOUS
  <1> USE DEF Init
  <1>1. TypeOK
    BY EmptyItemType, NoModelType DEF TypeOK, Stages, Replies
  <1>2. StreamsNumbered /\ CommandsStarted /\ LoadedPrefix /\ EventsDecidedOnCurrentState
    BY DEF StreamsNumbered, CommandsStarted, LoadedPrefix, LoadedPrefixOf, EventsDecidedOnCurrentState
  <1>3. StockNeverNegative
    BY DEF StockNeverNegative, EmptyItem
  <1>4. PublishedIsStored /\ ReadModelIsAPrefix
    BY DEF PublishedIsStored, ReadModelIsAPrefix
  <1> QED
    BY <1>1, <1>2, <1>3, <1>4 DEF InductiveInvariant, StoreInv

(***************************************************************************)
(* A step that leaves the store alone leaves its invariants alone.         *)
(***************************************************************************)
LEMMA StoreFrame ==
    ASSUME StoreInv, UNCHANGED storeVars
    PROVE  /\ StreamsNumbered'
           /\ StockNeverNegative'
           /\ UNCHANGED cmd => EventsDecidedOnCurrentState'
  <1> USE DEF StoreInv, storeVars
  <1>1. StreamsNumbered'
    BY DEF StreamsNumbered
  <1>2. StockNeverNegative'
    BY DEF StockNeverNegative
  <1>3. UNCHANGED cmd => EventsDecidedOnCurrentState'
    BY DEF EventsDecidedOnCurrentState
  <1> QED
    BY <1>1, <1>2, <1>3

(***************************************************************************)
(* Sending a request disturbs neither the store nor another dispatch.      *)
(***************************************************************************)
LEMMA SubmitInv ==
    ASSUME StoreInv, NEW r \in Requests, Submit(r)
    PROVE  StoreInv'
  <1> USE DEF StoreInv, storeVars, projVars
  <1>0. PICK k \in Keys : \E c \in CommandsFor(k) : cmd' = [cmd EXCEPT ![r] = c]
    BY DEF Submit
  <1>1. PICK c \in CommandsFor(k) : cmd' = [cmd EXCEPT ![r] = c]
    BY <1>0
  <1>2. c \in Command /\ c.key = k
    BY CommandsForType
  <1>3. TypeOK'
    <2>1. cmd' \in [Requests -> Command \cup {NoCommand}]
      BY <1>1, <1>2 DEF TypeOK
    <2>2. pc' \in [Requests -> Stages] /\ attempts' \in [Requests -> Nat]
      BY DEF TypeOK, Submit, Stages
    <2> QED
      BY <2>1, <2>2 DEF TypeOK, Submit
  <1>4. StreamsNumbered' /\ StockNeverNegative'
    BY StoreFrame DEF Submit
  <1>5. \A j \in Keys : \A i \in 1 .. Len(streams[j]) :
            streams[j][i].origin \in Requests /\ streams[j][i].origin # r
    BY StoredType DEF CommandsStarted, StoredEvent, Submit
  <1>6. CommandsStarted'
    <2>1. /\ pc'[r] = "load" /\ cmd'[r] = c
          /\ \A q \in Requests : q # r => pc'[q] = pc[q] /\ cmd'[q] = cmd[q]
      BY <1>1 DEF Submit, TypeOK
    <2>2. \A q \in Requests :
              pc'[q] # "new" => cmd'[q].key \in Keys /\ cmd'[q] \in CommandsFor(cmd'[q].key)
      BY <1>2, <2>1 DEF CommandsStarted
    <2>3. \A j \in Keys : \A i \in 1 .. Len(streams[j]) :
              pc'[streams[j][i].origin] # "new" /\ cmd'[streams[j][i].origin].key = j
      BY <1>5, <2>1 DEF CommandsStarted
    <2> QED
      BY <2>2, <2>3 DEF CommandsStarted, Submit
  <1>7. LoadedPrefix'
    BY <1>1, SMTT(30) DEF LoadedPrefix, LoadedPrefixOf, Submit, TypeOK
  <1>8. EventsDecidedOnCurrentState'
    <2>1. \A j \in Keys : \A i \in 1 .. Len(streams[j]) :
              cmd'[streams[j][i].origin] = cmd[streams[j][i].origin]
      BY <1>1, <1>5 DEF TypeOK
    <2> QED
      BY <2>1 DEF EventsDecidedOnCurrentState, Submit
  <1> QED
    BY <1>3, <1>4, <1>6, <1>7, <1>8

(* A request sent again starts over; nothing of the store changes. *)
LEMMA RetryInv ==
    ASSUME StoreInv, NEW r \in Requests, Retry(r)
    PROVE  StoreInv'
  <1> USE DEF StoreInv, storeVars, projVars
  <1>1. TypeOK'
    BY DEF TypeOK, Retry, Stages
  <1>2. StreamsNumbered' /\ StockNeverNegative' /\ EventsDecidedOnCurrentState'
    BY StoreFrame DEF Retry
  <1>3. CommandsStarted'
    <2>1. \A q \in Requests : pc'[q] # "new" <=> pc[q] # "new"
      BY DEF Retry, TypeOK
    <2>2. \A k \in Keys : \A i \in 1 .. Len(streams[k]) : streams[k][i].origin \in Requests
      BY StoredType DEF StoredEvent
    <2> QED
      BY <2>1, <2>2 DEF CommandsStarted, Retry
  <1>4. LoadedPrefix'
    BY DEF LoadedPrefix, LoadedPrefixOf, Retry, TypeOK
  <1> QED
    BY <1>1, <1>2, <1>3, <1>4

(* The end of a dispatch adds one answer. *)
LEMMA FinishType ==
    ASSUME TypeOK, NEW r \in Requests, NEW result \in Replies, Finish(r, result)
    PROVE  pc' \in [Requests -> Stages] /\ reply' \in [Requests -> Seq(Replies)]
  <1>1. Append(reply[r], result) \in Seq(Replies)
    BY AppendProperties DEF TypeOK
  <1> QED
    BY <1>1 DEF Finish, TypeOK, Stages

(***************************************************************************)
(* Loading copies the whole stream; no event of it is applied yet.         *)
(***************************************************************************)
LEMMA LoadInv ==
    ASSUME StoreInv, NEW r \in Requests, Load(r)
    PROVE  StoreInv'
  <1> USE DEF StoreInv, storeVars, projVars
  <1> DEFINE k == cmd[r].key
  <1>0. pc[r] # "new" /\ k \in Keys /\ streams[k] \in Seq(StoredEvent)
    BY SentCommand DEF Load, TypeOK
  <1>1. pc' \in [Requests -> Stages] /\ reply' \in [Requests -> Seq(Replies)]
    <2>1. PICK error \in {"None", "TenantIsolation", "Store"} :
              error = ValidateLoadedStream(k, streams[k])
      BY DEF ValidateLoadedStream
    <2>2. IF error = "None" THEN pc' = [pc EXCEPT ![r] = "rehydrate"] /\ reply' = reply
                            ELSE Finish(r, error)
      BY <2>1 DEF Load
    <2>3. CASE error = "None"
      BY <2>2, <2>3 DEF TypeOK, Stages
    <2>4. CASE error # "None"
      BY <2>2, <2>4, FinishType DEF Replies
    <2> QED
      BY <2>3, <2>4
  <1>2. TypeOK'
    BY <1>0, <1>1, EmptyItemType DEF TypeOK, Load
  <1>3. StreamsNumbered' /\ StockNeverNegative' /\ EventsDecidedOnCurrentState'
    BY StoreFrame DEF Load
  <1>4. /\ \A q \in Requests : q # r => pc'[q] = pc[q]
        /\ pc'[r] \in {"rehydrate", "done"}
    BY DEF Load, Finish, TypeOK
  <1>5. CommandsStarted'
    BY <1>0, <1>4, StoredType DEF CommandsStarted, Load, StoredEvent
  <1>6. LoadedPrefix'
    <2> SUFFICES ASSUME NEW q \in Requests, pc'[q] \in {"rehydrate", "append", "publish"}
                 PROVE  LoadedPrefixOf(q)'
      BY DEF LoadedPrefix
    <2>1. CASE q = r
      BY <1>0, <1>4, <2>1, SMTT(30) DEF Load, TypeOK, StreamsNumbered, LoadedPrefixOf
    <2>2. CASE q # r
      BY <1>4, <2>2 DEF LoadedPrefix, LoadedPrefixOf, Load, TypeOK
    <2> QED
      BY <2>1, <2>2
  <1> QED
    BY <1>2, <1>3, <1>5, <1>6

(***************************************************************************)
(* Applying the next loaded event moves the aggregate from one recorded    *)
(* state of the stream to the next.                                        *)
(***************************************************************************)
LEMMA ApplyHistoryInv ==
    ASSUME StoreInv, NEW r \in Requests, ApplyHistory(r)
    PROVE  StoreInv'
  <1> USE DEF StoreInv, storeVars, projVars
  <1> DEFINE k == cmd[r].key
             i == done[r] + 1
  <1>1. /\ k \in Keys /\ Len(streams[k]) \in Nat /\ Len(history[r]) \in Nat
        /\ LoadedPrefixOf(r)
    BY SentCommand DEF ApplyHistory, LoadedPrefix, TypeOK
  <1>2. i \in 1 .. Len(streams[k]) /\ i \in 1 .. Len(history[r])
    BY <1>1 DEF ApplyHistory, LoadedPrefixOf, TypeOK
  <1>3. history[r][i] = streams[k][i] /\ streams[k][i] \in StoredEvent
    BY <1>1, <1>2, StoredType DEF LoadedPrefixOf
  <1>4. Apply(agg[r], history[r][i].payload) = states[k][i + 1]
    BY <1>1, <1>2, <1>3 DEF LoadedPrefixOf, EventsDecidedOnCurrentState
  <1>5. TypeOK'
    <2>1. Apply(agg[r], history[r][i].payload) \in Item
      BY <1>3, ApplyType DEF TypeOK, StoredEvent
    <2> QED
      BY <2>1 DEF TypeOK, ApplyHistory
  <1>6. StreamsNumbered' /\ StockNeverNegative' /\ EventsDecidedOnCurrentState'
    BY StoreFrame DEF ApplyHistory
  <1>7. CommandsStarted'
    BY DEF CommandsStarted, ApplyHistory
  <1>8. LoadedPrefix'
    <2> SUFFICES ASSUME NEW q \in Requests, pc'[q] \in {"rehydrate", "append", "publish"}
                 PROVE  LoadedPrefixOf(q)'
      BY DEF LoadedPrefix
    <2>1. CASE q = r
      <3>1. agg'[r] = states[k][i + 1] /\ done'[r] = i /\ pc'[r] = "rehydrate"
        BY <1>4 DEF ApplyHistory, TypeOK
      <3> QED
        BY <1>1, <1>2, <2>1, <3>1 DEF LoadedPrefixOf, ApplyHistory
    <2>2. CASE q # r
      BY <2>2 DEF LoadedPrefix, LoadedPrefixOf, ApplyHistory, TypeOK
    <2> QED
      BY <2>1, <2>2
  <1> QED
    BY <1>5, <1>6, <1>7, <1>8

(***************************************************************************)
(* A dispatch reaches append only with a command its aggregate accepts.    *)
(***************************************************************************)
LEMMA HandleErrorType ==
    ASSUME NEW item, NEW c
    PROVE  HandleError(item, c) \in DomainErrors \cup {"None"}
  BY DEF HandleError, CreateError, AdjustError, DomainErrors

(* handle changes nothing but the stage and the reply. *)
LEMMA HandleCommandInv ==
    ASSUME StoreInv, NEW r \in Requests, HandleCommand(r)
    PROVE  StoreInv'
  <1> USE DEF StoreInv, storeVars, projVars
  <1>1. /\ \A q \in Requests : q # r => pc'[q] = pc[q]
        /\ pc'[r] \in {"append", "done"}
        /\ pc'[r] = "append" => HandleError(agg[r], cmd[r]) = "None"
    BY DEF HandleCommand, Finish, TypeOK
  <1>2. pc' \in [Requests -> Stages] /\ reply' \in [Requests -> Seq(Replies)]
    <2>1. PICK error \in DomainErrors \cup {"None"} : error = HandleError(agg[r], cmd[r])
      BY HandleErrorType
    <2>2. IF error = "None" THEN pc' = [pc EXCEPT ![r] = "append"] /\ reply' = reply
                            ELSE Finish(r, ErrorReply(error))
      BY <2>1 DEF HandleCommand
    <2>3. CASE error = "None"
      BY <2>2, <2>3 DEF TypeOK, Stages
    <2>4. CASE error # "None"
      <3>1. ErrorReply(error) \in Replies
        BY <2>4 DEF ErrorReply, DomainErrors, Replies
      <3> QED
        BY <2>2, <2>4, <3>1, FinishType
    <2> QED
      BY <2>3, <2>4
  <1>3. TypeOK'
    BY <1>2 DEF TypeOK, HandleCommand
  <1>4. StreamsNumbered' /\ StockNeverNegative' /\ EventsDecidedOnCurrentState'
    BY StoreFrame DEF HandleCommand
  <1>5. CommandsStarted'
    BY <1>1, StoredType DEF CommandsStarted, HandleCommand, StoredEvent
  <1>6. LoadedPrefix'
    <2> SUFFICES ASSUME NEW q \in Requests, pc'[q] \in {"rehydrate", "append", "publish"}
                 PROVE  LoadedPrefixOf(q)'
      BY DEF LoadedPrefix
    <2>1. CASE q = r
      BY <1>1, <2>1 DEF LoadedPrefix, LoadedPrefixOf, HandleCommand
    <2>2. CASE q # r
      BY <1>1, <2>2 DEF LoadedPrefix, LoadedPrefixOf, HandleCommand
    <2> QED
      BY <2>1, <2>2
  <1> QED
    BY <1>3, <1>4, <1>5, <1>6

(***************************************************************************)
(* A dispatch that leaves the store alone and ends, successfully or not.   *)
(***************************************************************************)
LEMMA FinishInv ==
    ASSUME StoreInv, NEW r \in Requests, NEW result \in Replies,
           pc[r] # "new", Finish(r, result),
           UNCHANGED <<storeVars, projVars, cmd, attempts, history, agg, done>>,
           channel' \in Seq(StoredEvent)
    PROVE  StoreInv'
  <1> USE DEF StoreInv, storeVars, projVars
  <1>1. /\ \A q \in Requests : q # r => pc'[q] = pc[q]
        /\ pc'[r] = "done"
    BY DEF Finish, TypeOK
  <1>2. TypeOK'
    BY DEF TypeOK, Finish, Stages
  <1>3. StreamsNumbered' /\ StockNeverNegative' /\ EventsDecidedOnCurrentState'
    BY StoreFrame
  <1>4. CommandsStarted'
    <2>1. \A q \in Requests : pc'[q] # "new" <=> pc[q] # "new"
      BY <1>1
    <2>2. \A k \in Keys : \A i \in 1 .. Len(streams[k]) : streams[k][i].origin \in Requests
      BY StoredType DEF StoredEvent
    <2> QED
      BY <2>1, <2>2 DEF CommandsStarted
  <1>5. LoadedPrefix'
    BY <1>1 DEF LoadedPrefix, LoadedPrefixOf
  <1> QED
    BY <1>2, <1>3, <1>4, <1>5

(***************************************************************************)
(* Appending to one of several sequences: the others stay, and the one     *)
(* grows by the new element at its end.                                    *)
(***************************************************************************)
LEMMA AppendToOne ==
    ASSUME NEW K, NEW S, NEW f \in [K -> Seq(S)], NEW k \in K, NEW x \in S, NEW g,
           g = [f EXCEPT ![k] = Append(f[k], x)]
    PROVE  /\ g \in [K -> Seq(S)]
           /\ Len(f[k]) \in Nat
           /\ Len(g[k]) = Len(f[k]) + 1
           /\ g[k][Len(f[k]) + 1] = x
           /\ \A j \in K : j # k => g[j] = f[j]
           /\ \A j \in K : \A i \in 1 .. Len(f[j]) : i \in 1 .. Len(g[j]) /\ g[j][i] = f[j][i]
           /\ \A j \in K : \A i \in 1 .. Len(g[j]) :
                  i \in 1 .. Len(f[j]) \/ (j = k /\ i = Len(f[k]) + 1)
  <1>1. f[k] \in Seq(S) /\ Len(f[k]) \in Nat /\ g[k] = Append(f[k], x)
    OBVIOUS
  <1>2. /\ Append(f[k], x) \in Seq(S)
        /\ Len(g[k]) = Len(f[k]) + 1
        /\ g[k][Len(f[k]) + 1] = x
        /\ \A i \in 1 .. Len(f[k]) : g[k][i] = f[k][i]
    BY <1>1, AppendProperties
  <1>3. g \in [K -> Seq(S)] /\ \A j \in K : j # k => g[j] = f[j]
    BY <1>2
  <1>4. \A j \in K : \A i \in 1 .. Len(f[j]) : i \in 1 .. Len(g[j]) /\ g[j][i] = f[j][i]
    BY <1>1, <1>2, <1>3
  <1>5. \A j \in K : \A i \in 1 .. Len(g[j]) :
            i \in 1 .. Len(f[j]) \/ (j = k /\ i = Len(f[k]) + 1)
    BY <1>1, <1>2, <1>3
  <1> QED
    BY <1>1, <1>2, <1>3, <1>4, <1>5

(***************************************************************************)
(* The append that passes the version test extends the stream by an event  *)
(* decided on its last state; every other dispatch still holds a prefix.   *)
(***************************************************************************)
LEMMA CommitInv ==
    ASSUME StoreInv, NEW r \in Requests, AppendEvent(r), VersionMatches(r)
    PROVE  StoreInv'
  <1> USE DEF StoreInv
  <1> DEFINE k == cmd[r].key
             n == Len(streams[k])
             e == Committed(r)
             s == Apply(states[k][n + 1], Decide(cmd[r]))
  <1>1. /\ pc[r] = "append" /\ k \in Keys /\ k = cmd[r].key /\ cmd[r] \in Command
        /\ n \in Nat /\ n = Len(streams[k])
    BY SentCommand DEF AppendEvent, TypeOK
  <1>2. /\ streams' = [streams EXCEPT ![k] = Append(streams[k], e)]
        /\ states' = [states EXCEPT ![k] = Append(states[k], Apply(states[k][Len(states[k])], Decide(cmd[r])))]
        /\ pc' = [pc EXCEPT ![r] = "publish"]
        /\ UNCHANGED <<channel, cmd, attempts, history, agg, done, reply, cursor, readModel, first>>
    BY DEF AppendEvent, projVars
  <1>3. /\ Len(states[k]) = n + 1
        /\ Len(history[r]) = n
        /\ states[k][n + 1] \in Item
        /\ HandleError(states[k][n + 1], cmd[r]) = "None"
        /\ e \in StoredEvent
        /\ e.seq = n + 1 /\ e.key = k /\ e.payload = Decide(cmd[r]) /\ e.origin = r
    BY <1>1, CommitOnCurrentState DEF StreamsNumbered
  <1>4. s \in Item /\ s.stock >= 0
    BY <1>1, <1>3, ApplyType, DecideType, AcceptedKeepsStock DEF Item
  <1>5. /\ streams' \in [Keys -> Seq(StoredEvent)]
        /\ Len(streams'[k]) = n + 1
        /\ streams'[k][n + 1] = e
        /\ \A j \in Keys : j # k => streams'[j] = streams[j]
        /\ \A j \in Keys : \A i \in 1 .. Len(streams[j]) :
               i \in 1 .. Len(streams'[j]) /\ streams'[j][i] = streams[j][i]
        /\ \A j \in Keys : \A i \in 1 .. Len(streams'[j]) :
               i \in 1 .. Len(streams[j]) \/ (j = k /\ i = n + 1)
    <2>1. streams \in [Keys -> Seq(StoredEvent)]
      BY DEF TypeOK
    <2>2. k \in Keys /\ e \in StoredEvent
      BY <1>1, <1>3
    <2>3. streams' = [streams EXCEPT ![k] = Append(streams[k], e)]
      BY <1>2
    <2> HIDE DEF e, k, StoreInv
    <2> QED
      BY <2>1, <2>2, <2>3, AppendToOne
  <1>6. /\ states' \in [Keys -> Seq(Item)]
        /\ Len(states'[k]) = n + 2
        /\ states'[k][n + 2] = s
        /\ \A j \in Keys : j # k => states'[j] = states[j]
        /\ \A j \in Keys : \A i \in 1 .. Len(states[j]) :
               i \in 1 .. Len(states'[j]) /\ states'[j][i] = states[j][i]
        /\ \A j \in Keys : \A i \in 1 .. Len(states'[j]) :
               i \in 1 .. Len(states[j]) \/ (j = k /\ i = n + 2)
    <2>1. states' = [states EXCEPT ![k] = Append(states[k], s)]
      BY <1>2, <1>3
    <2>2. states \in [Keys -> Seq(Item)]
      BY DEF TypeOK
    <2>3. k \in Keys /\ s \in Item /\ Len(states[k]) = n + 1 /\ n \in Nat
      BY <1>1, <1>3, <1>4
    <2> HIDE DEF s, k, n, StoreInv
    <2>4. /\ states' \in [Keys -> Seq(Item)]
          /\ Len(states'[k]) = Len(states[k]) + 1
          /\ states'[k][Len(states[k]) + 1] = s
          /\ \A j \in Keys : j # k => states'[j] = states[j]
          /\ \A j \in Keys : \A i \in 1 .. Len(states[j]) :
                 i \in 1 .. Len(states'[j]) /\ states'[j][i] = states[j][i]
          /\ \A j \in Keys : \A i \in 1 .. Len(states'[j]) :
                 i \in 1 .. Len(states[j]) \/ (j = k /\ i = Len(states[k]) + 1)
      BY <2>1, <2>2, <2>3, AppendToOne
    <2>5. Len(states[k]) + 1 = n + 2
      BY <2>3
    <2> QED
      BY <2>4, <2>5
  <1>7. s = Apply(states[k][n + 1], e.payload) /\ \A j \in Keys : Len(streams[j]) \in Nat
    BY <1>3 DEF TypeOK
  <1> HIDE DEF k, n, e, s
  <1>8. TypeOK'
    <2>1. streams' \in [Keys -> Seq(StoredEvent)]
      BY <1>5
    <2>2. states' \in [Keys -> Seq(Item)]
      BY <1>6
    <2>3. pc' \in [Requests -> Stages]
      BY <1>2 DEF TypeOK, Stages
    <2> QED
      BY <1>2, <2>1, <2>2, <2>3 DEF TypeOK
  <1>9. StreamsNumbered'
    <2> SUFFICES ASSUME NEW j \in Keys
                 PROVE  /\ Len(states'[j]) = Len(streams'[j]) + 1
                        /\ states'[j][1] = EmptyItem
                        /\ \A i \in 1 .. Len(streams'[j]) :
                             streams'[j][i].seq = i /\ streams'[j][i].key = j
      BY DEF StreamsNumbered
    <2>1. states'[j][1] = EmptyItem
      <3>1. 1 \in 1 .. Len(states[j])
        BY <1>7 DEF StreamsNumbered
      <3> QED
        BY <1>6, <3>1 DEF StreamsNumbered
    <2>2. Len(states'[j]) = Len(streams'[j]) + 1
      <3>1. CASE j = k
        BY <1>1, <1>5, <1>6, <3>1
      <3>2. CASE j # k
        BY <1>5, <1>6, <3>2 DEF StreamsNumbered
      <3> QED
        BY <3>1, <3>2
    <2>3. \A i \in 1 .. Len(streams'[j]) : streams'[j][i].seq = i /\ streams'[j][i].key = j
      BY <1>3, <1>5 DEF StreamsNumbered
    <2> QED
      BY <2>1, <2>2, <2>3
  <1>10. CommandsStarted'
    <2>1. \A q \in Requests : pc'[q] # "new" <=> pc[q] # "new"
      BY <1>1, <1>2 DEF TypeOK
    <2>2. \A j \in Keys : \A i \in 1 .. Len(streams[j]) : streams[j][i].origin \in Requests
      BY StoredType DEF StoredEvent
    <2>3. \A j \in Keys : \A i \in 1 .. Len(streams'[j]) :
              pc'[streams'[j][i].origin] # "new" /\ cmd[streams'[j][i].origin].key = j
      <3> SUFFICES ASSUME NEW j \in Keys, NEW i \in 1 .. Len(streams'[j])
                   PROVE  pc'[streams'[j][i].origin] # "new" /\ cmd[streams'[j][i].origin].key = j
        OBVIOUS
      <3>1. CASE i \in 1 .. Len(streams[j])
        BY <1>5, <2>1, <2>2, <3>1 DEF CommandsStarted
      <3>2. CASE j = k /\ i = n + 1
        BY <1>1, <1>3, <1>5, <2>1, <3>2
      <3> QED
        BY <1>5, <3>1, <3>2
    <2> QED
      BY <1>2, <2>1, <2>3 DEF CommandsStarted
  <1>11. LoadedPrefix'
    <2> SUFFICES ASSUME NEW q \in Requests, pc'[q] \in {"rehydrate", "append", "publish"}
                 PROVE  LoadedPrefixOf(q)'
      BY DEF LoadedPrefix
    <2>1. LoadedPrefixOf(q) /\ cmd[q].key \in Keys /\ pc[q] # "new"
      BY <1>1, <1>2, SentCommand DEF LoadedPrefix, TypeOK
    <2>2. CASE q = r
      <3>1. n + 1 \in 1 .. Len(states[k]) /\ pc'[r] = "publish"
        BY <1>1, <1>2, <1>3 DEF TypeOK
      <3>2. done[r] = n /\ agg[r] = states[k][n + 1] /\ HandleError(agg[r], cmd[r]) = "None"
        BY <1>1, <1>3, <2>1, <2>2 DEF LoadedPrefixOf
      <3>3. \A i \in 1 .. n : history[r][i] = streams'[k][i]
        <4>1. \A i \in 1 .. Len(history[r]) : history[r][i] = streams[k][i]
          BY <1>1, <2>1, <2>2 DEF LoadedPrefixOf
        <4>2. \A i \in 1 .. n : streams'[k][i] = streams[k][i]
          BY <1>1, <1>5
        <4> QED
          BY <1>3, <4>1, <4>2
      <3>4. agg[r] = states'[k][n + 1]
        BY <1>1, <1>6, <3>1, <3>2
      <3>5. history'[r] = history[r] /\ agg'[r] = agg[r] /\ done'[r] = done[r] /\ cmd'[r] = cmd[r]
        BY <1>2
      <3> QED
        <4>1. /\ Len(history[r]) <= Len(streams'[k]) /\ Len(history[r]) < Len(streams'[k])
              /\ done[r] <= Len(history[r]) /\ done[r] = Len(history[r])
          BY <1>1, <1>3, <1>5, <3>2
        <4>2. \A i \in 1 .. Len(history[r]) : history[r][i] = streams'[k][i]
          BY <1>3, <3>3
        <4> QED
          BY <1>1, <2>2, <3>1, <3>2, <3>4, <3>5, <4>1, <4>2 DEF LoadedPrefixOf
    <2>3. CASE q # r /\ cmd[q].key # k
      BY <1>2, <1>5, <1>6, <2>1, <2>3 DEF LoadedPrefixOf, TypeOK
    <2>4. CASE q # r /\ cmd[q].key = k
      <3>1. pc'[q] = pc[q] /\ done[q] \in Nat /\ Len(history[q]) \in Nat
        BY <1>2, <2>4 DEF TypeOK
      <3>2. done[q] + 1 \in 1 .. n + 1
        BY <1>1, <2>1, <2>4, <3>1 DEF LoadedPrefixOf
      <3>3. \A i \in 1 .. Len(history[q]) : i \in 1 .. n
        BY <1>1, <2>1, <2>4, <3>1 DEF LoadedPrefixOf
      <3>4. states'[k][done[q] + 1] = states[k][done[q] + 1]
        BY <1>1, <1>3, <1>6, <3>2
      <3>5. \A i \in 1 .. Len(history[q]) : history[q][i] = streams'[k][i]
        BY <1>1, <1>5, <2>1, <2>4, <3>3, SMTT(30) DEF LoadedPrefixOf
      <3>6. Len(history[q]) < Len(streams'[k])
        BY <1>1, <1>5, <2>1, <2>4, <3>1 DEF LoadedPrefixOf
      <3>7. history'[q] = history[q] /\ agg'[q] = agg[q] /\ done'[q] = done[q] /\ cmd'[q] = cmd[q]
        BY <1>2
      <3>8. Len(history[q]) <= Len(streams'[k])
        BY <1>1, <1>5, <3>1, <3>6
      <3> QED
        BY <2>1, <2>4, <3>1, <3>4, <3>5, <3>6, <3>7, <3>8 DEF LoadedPrefixOf
    <2> QED
      BY <2>2, <2>3, <2>4
  <1>12. EventsDecidedOnCurrentState'
    <2>1. ASSUME NEW j \in Keys, NEW i \in 1 .. Len(streams'[j])
          PROVE  /\ streams'[j][i].payload = Decide(cmd[streams'[j][i].origin])
                 /\ HandleError(states'[j][i], cmd[streams'[j][i].origin]) = "None"
                 /\ states'[j][i + 1] = Apply(states'[j][i], streams'[j][i].payload)
      <3>1. CASE j = k /\ i = n + 1
        <4>1. n + 1 \in 1 .. Len(states[k]) /\ i + 1 = n + 2
          BY <1>1, <1>3, <3>1
        <4>2. states'[k][n + 1] = states[k][n + 1]
          BY <1>1, <1>6, <4>1
        <4> QED
          BY <1>1, <1>3, <1>5, <1>6, <1>7, <3>1, <4>1, <4>2
      <3>2. CASE i \in 1 .. Len(streams[j])
        <4>1. i \in 1 .. Len(states[j]) /\ i + 1 \in 1 .. Len(states[j])
          BY <1>7, <3>2 DEF StreamsNumbered
        <4>2. /\ states'[j][i] = states[j][i] /\ states'[j][i + 1] = states[j][i + 1]
              /\ streams'[j][i] = streams[j][i]
          BY <1>5, <1>6, <3>2, <4>1
        <4> QED
          BY <3>2, <4>2 DEF EventsDecidedOnCurrentState
      <3> QED
        BY <1>5, <3>1, <3>2
    <2>2. cmd' = cmd
      BY <1>2
    <2> QED
      BY <2>1, <2>2 DEF EventsDecidedOnCurrentState
  <1>13. StockNeverNegative'
    <2> SUFFICES ASSUME NEW j \in Keys, NEW i \in 1 .. Len(states'[j])
                 PROVE  states'[j][i].stock >= 0
      BY DEF StockNeverNegative
    <2>1. CASE j = k /\ i = n + 2
      BY <1>4, <1>6, <2>1
    <2>2. CASE ~(j = k /\ i = n + 2)
      BY <1>6, <2>2 DEF StockNeverNegative
    <2> QED
      BY <2>1, <2>2
  <1> QED
    BY <1>8, <1>9, <1>10, <1>11, <1>12, <1>13

(***************************************************************************)
(* append: commits on the current state, or reports Concurrency and leaves *)
(* everything as it was.                                                   *)
(***************************************************************************)
LEMMA AppendEventInv ==
    ASSUME StoreInv, NEW r \in Requests, AppendEvent(r)
    PROVE  StoreInv'
  <1>1. CASE VersionMatches(r)
    BY <1>1, CommitInv
  <1>2. CASE ~VersionMatches(r)
    <2>1. /\ pc[r] = "append" /\ Finish(r, "Concurrency")
          /\ UNCHANGED <<storeVars, projVars, channel, cmd, attempts, history, agg, done>>
      BY <1>2 DEF AppendEvent
    <2>2. "Concurrency" \in Replies /\ channel' \in Seq(StoredEvent)
      BY <2>1 DEF Replies, StoreInv, TypeOK
    <2> QED
      BY <2>1, <2>2, FinishInv
  <1> QED
    BY <1>1, <1>2

(***************************************************************************)
(* The event a dispatch publishes is a stored one.                         *)
(***************************************************************************)
LEMMA UnpublishedStored ==
    ASSUME StoreInv, NEW r \in Requests, pc[r] = "publish"
    PROVE  \E i \in 1 .. Len(streams[cmd[r].key]) :
              /\ Unpublished(r) = streams[cmd[r].key][i]
              /\ Unpublished(r) \in StoredEvent
              /\ Unpublished(r).seq = i
              /\ Unpublished(r).key = cmd[r].key
              /\ cmd[r].key \in Keys
  <1> USE DEF StoreInv
  <1> DEFINE k == cmd[r].key
  <1>1. k \in Keys /\ Len(streams[k]) \in Nat /\ Len(history[r]) \in Nat
    BY SentCommand DEF TypeOK
  <1>2. StreamVersion(history[r]) + 1 \in 1 .. Len(streams[k])
    BY <1>1, HistoryVersionIsLength DEF LoadedPrefix, LoadedPrefixOf
  <1> QED
    BY <1>1, <1>2, StoredType DEF Unpublished, StreamsNumbered

(* Publishing, successful or not, leaves the store as it is. *)
LEMMA PublishInv ==
    ASSUME StoreInv, NEW r \in Requests, Publish(r) \/ PublishFails(r)
    PROVE  StoreInv'
  <1>1. Unpublished(r) \in StoredEvent /\ channel \in Seq(StoredEvent)
    BY UnpublishedStored DEF Publish, PublishFails, StoreInv, TypeOK
  <1>2. channel' \in Seq(StoredEvent) /\ {"Ok", "Publish"} \subseteq Replies
    BY <1>1 DEF Publish, PublishFails, Replies
  <1> QED
    BY <1>2, FinishInv DEF Publish, PublishFails

(***************************************************************************)
(* A delivery touches the projection only.                                 *)
(***************************************************************************)
LEMMA DeliverType ==
    ASSUME TypeOK, Deliver
    PROVE  /\ Head(channel) \in StoredEvent
           /\ TypeOK'
  <1> DEFINE env == Head(channel)
             k == env.key
  <1>1. env \in StoredEvent /\ Tail(channel) \in Seq(StoredEvent)
    BY HeadTailProperties DEF TypeOK, Deliver
  <1>2. k \in Keys /\ env.seq \in Nat /\ env.payload \in Event
    BY <1>1 DEF StoredEvent
  <1>3. Upsert(readModel[k], env.payload) \in ReadModel
    BY <1>2, UpsertType DEF TypeOK
  <1> HIDE DEF env
  <1>4. /\ cursor' \in [Keys -> Nat]
        /\ readModel' \in [Keys -> ReadModel]
        /\ first' \in [Keys -> Nat]
    <2>1. CASE Accepts(cursor[k], env)
      <3>1. /\ cursor' = [cursor EXCEPT ![k] = env.seq]
            /\ readModel' = [readModel EXCEPT ![k] = Upsert(readModel[k], env.payload)]
            /\ first' = [first EXCEPT ![k] = IF first[k] = 0 THEN env.seq ELSE first[k]]
        BY <2>1 DEF Deliver, env
      <3>2. cursor' \in [Keys -> Nat] /\ readModel' \in [Keys -> ReadModel]
        BY <1>2, <1>3, <3>1 DEF TypeOK
      <3>3. first' \in [Keys -> Nat]
        BY <1>2, <3>1 DEF TypeOK
      <3> QED
        BY <3>2, <3>3
    <2>2. CASE ~Accepts(cursor[k], env)
      BY <2>2 DEF TypeOK, Deliver, projVars, env
    <2> QED
      BY <2>1, <2>2
  <1>5. channel' \in Seq(StoredEvent)
    BY <1>1 DEF Deliver
  <1>6. TypeOK'
    BY <1>4, <1>5 DEF TypeOK, Deliver, storeVars, taskVars
  <1> QED
    BY <1>1, <1>6 DEF env

(* The projection worker does not touch the store or a dispatch. *)
LEMMA DeliverInv ==
    ASSUME StoreInv, Deliver
    PROVE  StoreInv'
  <1> USE DEF StoreInv
  <1>1. TypeOK'
    BY DeliverType
  <1>2. StreamsNumbered' /\ StockNeverNegative' /\ EventsDecidedOnCurrentState'
    BY StoreFrame DEF Deliver, taskVars
  <1>3. CommandsStarted' /\ LoadedPrefix'
    BY DEF Deliver, storeVars, taskVars, CommandsStarted, LoadedPrefix, LoadedPrefixOf
  <1> QED
    BY <1>1, <1>2, <1>3

(* Every step preserves the part of the invariant about the store. *)
LEMMA StoreInvNext ==
    ASSUME StoreInv, [Next]_vars
    PROVE  StoreInv'
  <1>1. CASE UNCHANGED vars
    BY <1>1 DEF vars, StoreInv, TypeOK, StreamsNumbered, CommandsStarted, LoadedPrefix,
                LoadedPrefixOf, EventsDecidedOnCurrentState, StockNeverNegative
  <1>2. CASE Deliver
    BY <1>2, DeliverInv
  <1>3. ASSUME NEW r \in Requests, Submit(r) \/ Retry(r) \/ DispatchStep(r)
        PROVE  StoreInv'
    BY <1>3, SubmitInv, RetryInv, LoadInv, ApplyHistoryInv, HandleCommandInv,
       AppendEventInv, PublishInv DEF DispatchStep
  <1> QED
    BY <1>1, <1>2, <1>3 DEF Next

-----------------------------------------------------------------------------
(* Streams only grow *)

(***************************************************************************)
(* A step either leaves the store alone or is one successful append.       *)
(***************************************************************************)
LEMMA StoreStep ==
    ASSUME [Next]_vars
    PROVE  \/ UNCHANGED storeVars
           \/ \E r \in Requests : AppendEvent(r) /\ VersionMatches(r)
  BY DEF Next, vars, storeVars, Deliver, Submit, Retry, DispatchStep, Load, ApplyHistory,
         HandleCommand, AppendEvent, Publish, PublishFails

(***************************************************************************)
(* No step changes an event or a state that is there, none adds two.       *)
(***************************************************************************)
LEMMA StreamsGrow ==
    ASSUME StoreInv, [Next]_vars, NEW k \in Keys
    PROVE  /\ Len(streams'[k]) = Len(streams[k]) \/ Len(streams'[k]) = Len(streams[k]) + 1
           /\ \A i \in 1 .. Len(streams[k]) :
                 i \in 1 .. Len(streams'[k]) /\ streams'[k][i] = streams[k][i]
           /\ \A i \in 1 .. Len(states[k]) :
                 i \in 1 .. Len(states'[k]) /\ states'[k][i] = states[k][i]
  <1>1. CASE UNCHANGED storeVars
    BY <1>1 DEF storeVars
  <1>2. ASSUME NEW r \in Requests, AppendEvent(r), VersionMatches(r)
        PROVE  /\ Len(streams'[k]) = Len(streams[k]) \/ Len(streams'[k]) = Len(streams[k]) + 1
               /\ \A i \in 1 .. Len(streams[k]) :
                     i \in 1 .. Len(streams'[k]) /\ streams'[k][i] = streams[k][i]
               /\ \A i \in 1 .. Len(states[k]) :
                     i \in 1 .. Len(states'[k]) /\ states'[k][i] = states[k][i]
    <2> DEFINE j == cmd[r].key
               e == Committed(r)
               s == Apply(states[j][Len(states[j])], Decide(cmd[r]))
    <2>1. j \in Keys /\ cmd[r] \in Command /\ pc[r] = "append"
      BY <1>2, SentCommand DEF AppendEvent, StoreInv
    <2>2. e \in StoredEvent /\ s \in Item
      BY <1>2, <2>1, CommitOnCurrentState, ApplyType, DecideType
    <2>3. streams \in [Keys -> Seq(StoredEvent)] /\ states \in [Keys -> Seq(Item)]
      BY DEF StoreInv, TypeOK
    <2>4. /\ streams' = [streams EXCEPT ![j] = Append(streams[j], e)]
          /\ states' = [states EXCEPT ![j] = Append(states[j], s)]
      BY <1>2 DEF AppendEvent
    <2> HIDE DEF j, e, s
    <2>5. /\ Len(streams'[j]) = Len(streams[j]) + 1
          /\ \A m \in Keys : m # j => streams'[m] = streams[m]
          /\ \A i \in 1 .. Len(streams[k]) :
                i \in 1 .. Len(streams'[k]) /\ streams'[k][i] = streams[k][i]
      BY <2>1, <2>2, <2>3, <2>4, AppendToOne
    <2>6. \A i \in 1 .. Len(states[k]) :
                i \in 1 .. Len(states'[k]) /\ states'[k][i] = states[k][i]
      BY <2>1, <2>2, <2>3, <2>4, AppendToOne
    <2> QED
      BY <2>1, <2>5, <2>6
  <1> QED
    BY <1>1, <1>2, StoreStep

-----------------------------------------------------------------------------
(* The bus and the projection *)

(***************************************************************************)
(* What the channel holds after a step was published or is in the channel  *)
(* already.                                                                *)
(***************************************************************************)
LEMMA ChannelStep ==
    ASSUME StoreInv, [Next]_vars
    PROVE  \/ UNCHANGED <<channel, projVars>>
           \/ \E r \in Requests : Publish(r)
           \/ Deliver
  BY DEF Next, vars, projVars, Submit, Retry, DispatchStep, Load, ApplyHistory,
         HandleCommand, AppendEvent, PublishFails

(* What is in the channel after a step is stored: streams only grow. *)
LEMMA ChannelStored ==
    ASSUME StoreInv, PublishedIsStored, [Next]_vars
    PROVE  \A i \in 1 .. Len(channel') :
              /\ channel'[i].seq <= Len(streams'[channel'[i].key])
              /\ channel'[i] = streams'[channel'[i].key][channel'[i].seq]
  <1> DEFINE Good(x) == /\ x \in StoredEvent
                        /\ x.seq <= Len(streams[x.key])
                        /\ x = streams[x.key][x.seq]
  <1>1. ASSUME NEW x, Good(x)
        PROVE  x.seq <= Len(streams'[x.key]) /\ x = streams'[x.key][x.seq]
    <2>1. x.key \in Keys /\ x.seq \in Nat \ {0}
      BY <1>1 DEF StoredEvent
    <2>2. Len(streams[x.key]) \in Nat
      BY <2>1 DEF StoreInv, TypeOK
    <2>3. x.seq \in 1 .. Len(streams[x.key])
      BY <1>1, <2>1, <2>2
    <2> QED
      BY <1>1, <2>1, <2>2, <2>3, StreamsGrow
  <1>2. channel \in Seq(StoredEvent) /\ \A i \in 1 .. Len(channel) : Good(channel[i])
    BY DEF StoreInv, TypeOK, PublishedIsStored
  <1>3. \A i \in 1 .. Len(channel') : Good(channel'[i])
    <2>1. CASE UNCHANGED channel
      BY <1>2, <2>1
    <2>2. ASSUME NEW r \in Requests, Publish(r)
          PROVE  \A i \in 1 .. Len(channel') : Good(channel'[i])
      <3>1. Good(Unpublished(r))
        <4>1. PICK i \in 1 .. Len(streams[cmd[r].key]) :
                  /\ Unpublished(r) = streams[cmd[r].key][i]
                  /\ Unpublished(r) \in StoredEvent
                  /\ Unpublished(r).seq = i
                  /\ Unpublished(r).key = cmd[r].key
          BY <2>2, UnpublishedStored DEF Publish
        <4> QED
          BY <4>1
      <3>2. channel' = Append(channel, Unpublished(r))
        BY <2>2 DEF Publish
      <3> HIDE DEF Good
      <3>3. /\ Len(channel') = Len(channel) + 1
            /\ \A i \in 1 .. Len(channel) : channel'[i] = channel[i]
            /\ channel'[Len(channel) + 1] = Unpublished(r)
        <4>1. Unpublished(r) \in StoredEvent
          BY <3>1 DEF Good
        <4> QED
          BY <1>2, <3>2, <4>1, AppendProperties
      <3>4. Len(channel) \in Nat
        BY <1>2
      <3> QED
        BY <1>2, <3>1, <3>3, <3>4
    <2>3. CASE Deliver
      <3>1. /\ Len(channel') = Len(channel) - 1 /\ Len(channel) \in Nat
            /\ \A i \in 1 .. Len(channel') : channel'[i] = channel[i + 1]
        BY <1>2, <2>3, HeadTailProperties DEF Deliver
      <3> HIDE DEF Good
      <3> QED
        BY <1>2, <3>1
    <2> QED
      BY <2>1, <2>2, <2>3, ChannelStep
  <1> HIDE DEF Good
  <1> QED
    BY <1>1, <1>3

(***************************************************************************)
(* An accepted envelope carries event cursor + 1, except that the first    *)
(* one may carry any number.                                               *)
(***************************************************************************)
LEMMA AcceptedNumber ==
    ASSUME NEW last \in Nat, NEW env \in StoredEvent, Accepts(last, env)
    PROVE  env.seq > last /\ (last = 0 \/ env.seq = last + 1)
  BY DEF Accepts, CursorVerdict, StoredEvent

(***************************************************************************)
(* The event with number n takes the row from the item's n-th state to the *)
(* next: apply_envelope repeats what apply() did in the aggregate.         *)
(***************************************************************************)
LEMMA RowStep ==
    ASSUME StoreInv, NEW k \in Keys, NEW n \in 1 .. Len(streams[k])
    PROVE  RowOf(states[k][n + 1]) = Upsert(RowOf(states[k][n]), streams[k][n].payload)
  <1> DEFINE c == cmd[streams[k][n].origin]
  <1>1. streams[k][n].origin \in Requests
    BY StoredType DEF StoreInv, StoredEvent
  <1>2. c \in Command
    BY <1>1, SentCommand DEF StoreInv, CommandsStarted
  <1>3. states[k][n] \in Item
    <2>1. n \in 1 .. Len(states[k])
      BY DEF StoreInv, StreamsNumbered, TypeOK
    <2> QED
      BY <2>1, StateType DEF StoreInv
  <1>4. /\ HandleError(states[k][n], c) = "None"
        /\ streams[k][n].payload = Decide(c)
        /\ states[k][n + 1] = Apply(states[k][n], Decide(c))
    BY DEF StoreInv, EventsDecidedOnCurrentState
  <1> HIDE DEF c
  <1> QED
    BY <1>2, <1>3, <1>4, UpsertMirrorsApply

(* An accepted envelope is the next event, so the row follows the stream. *)
LEMMA DeliverProjection ==
    ASSUME InductiveInvariant, Deliver, NEW k \in Keys
    PROVE  /\ cursor'[k] <= Len(streams[k])
           /\ cursor'[k] = 0 => readModel'[k] = NoModel
           /\ cursor'[k] = 0 <=> first'[k] = 0
           /\ first'[k] = 1 => readModel'[k] = RowOf(states[k][cursor'[k] + 1])
  <1> USE DEF InductiveInvariant
  <1> DEFINE env == Head(channel)
  <1>0. TypeOK /\ StreamsNumbered
    BY DEF StoreInv
  <1>1. env \in StoredEvent /\ env.key \in Keys /\ env.seq \in Nat
    BY <1>0, DeliverType DEF StoredEvent
  <1>2. env.seq <= Len(streams[env.key]) /\ env = streams[env.key][env.seq]
    <2>1. 1 \in 1 .. Len(channel) /\ env = channel[1]
      BY <1>0 DEF Deliver, TypeOK
    <2> QED
      BY <2>1 DEF PublishedIsStored
  <1>3. /\ cursor[k] \in Nat /\ first[k] \in Nat /\ cursor[k] <= Len(streams[k])
        /\ cursor[k] = 0 => readModel[k] = NoModel
        /\ cursor[k] = 0 <=> first[k] = 0
        /\ first[k] = 1 => readModel[k] = RowOf(states[k][cursor[k] + 1])
    BY <1>0 DEF TypeOK, PublishedIsStored, ReadModelIsAPrefix
  <1>4. CASE k = env.key /\ Accepts(cursor[k], env)
    <2>1. /\ cursor'[k] = env.seq
          /\ readModel'[k] = Upsert(readModel[k], env.payload)
          /\ first'[k] = IF first[k] = 0 THEN env.seq ELSE first[k]
      BY <1>0, <1>4 DEF Deliver, TypeOK
    <2> HIDE DEF env
    <2>2. env.seq > cursor[k] /\ (cursor[k] = 0 \/ env.seq = cursor[k] + 1)
      BY <1>1, <1>3, <1>4, AcceptedNumber
    <2>3. ASSUME first'[k] = 1
          PROVE  readModel'[k] = RowOf(states[k][cursor'[k] + 1])
      <3>1. env.seq = cursor[k] + 1
        BY <1>1, <1>3, <2>1, <2>2, <2>3
      <3>2. readModel[k] = RowOf(states[k][env.seq])
        <4>1. CASE cursor[k] = 0
          <5>1. RowOf(EmptyItem) = NoModel
            BY DEF RowOf, NoModel, EmptyItem
          <5>2. states[k][env.seq] = EmptyItem
            BY <1>0, <3>1, <4>1 DEF StreamsNumbered
          <5> QED
            BY <1>3, <4>1, <5>1, <5>2
        <4>2. CASE cursor[k] # 0
          BY <1>3, <2>1, <2>3, <3>1, <4>2
        <4> QED
          BY <4>1, <4>2
      <3>3. env.seq \in 1 .. Len(streams[k])
        BY <1>0, <1>1, <1>2, <1>3, <1>4, <3>1 DEF TypeOK
      <3>4. RowOf(states[k][env.seq + 1]) = Upsert(RowOf(states[k][env.seq]), env.payload)
        BY <1>2, <1>4, <3>3, RowStep
      <3> QED
        BY <2>1, <3>2, <3>4
    <2> QED
      BY <1>1, <1>2, <1>3, <1>4, <2>1, <2>2, <2>3
  <1>5. CASE ~(k = env.key /\ Accepts(cursor[k], env))
    <2>1. cursor'[k] = cursor[k] /\ readModel'[k] = readModel[k] /\ first'[k] = first[k]
      BY <1>0, <1>5 DEF Deliver, TypeOK, projVars
    <2> QED
      BY <1>3, <2>1
  <1> QED
    BY <1>4, <1>5

(* Every step preserves the part about the channel and the projection. *)
LEMMA ProjectionNext ==
    ASSUME InductiveInvariant, [Next]_vars
    PROVE  PublishedIsStored' /\ ReadModelIsAPrefix'
  <1> USE DEF InductiveInvariant
  <1>1. ASSUME NEW k \in Keys
        PROVE  /\ cursor'[k] <= Len(streams'[k])
               /\ cursor'[k] = 0 => readModel'[k] = NoModel
               /\ cursor'[k] = 0 <=> first'[k] = 0
               /\ first'[k] = 1 => readModel'[k] = RowOf(states'[k][cursor'[k] + 1])
    <2>1. CASE Deliver
      <3>1. UNCHANGED <<streams, states>>
        BY <2>1 DEF Deliver, storeVars
      <3> QED
        BY <2>1, <3>1, DeliverProjection
    <2>2. CASE UNCHANGED projVars
      <3>1. /\ cursor[k] \in Nat /\ cursor[k] <= Len(streams[k])
            /\ Len(states[k]) = Len(streams[k]) + 1 /\ Len(streams[k]) \in Nat
            /\ cursor[k] = 0 => readModel[k] = NoModel
            /\ cursor[k] = 0 <=> first[k] = 0
            /\ first[k] = 1 => readModel[k] = RowOf(states[k][cursor[k] + 1])
        BY DEF PublishedIsStored, ReadModelIsAPrefix, StoreInv, TypeOK, StreamsNumbered
      <3>2. cursor[k] + 1 \in 1 .. Len(states[k])
        BY <3>1
      <3>3. Len(streams'[k]) >= Len(streams[k]) /\ Len(streams'[k]) \in Nat
        BY <3>1, StreamsGrow
      <3>4. states'[k][cursor[k] + 1] = states[k][cursor[k] + 1]
        BY <3>2, StreamsGrow
      <3>5. cursor[k] <= Len(streams'[k])
        BY <3>1, <3>3
      <3> QED
        BY <2>2, <3>1, <3>4, <3>5 DEF projVars
    <2>3. UNCHANGED projVars \/ Deliver
      BY ChannelStep DEF Publish
    <2> QED
      BY <2>1, <2>2, <2>3
  <1>2. PublishedIsStored'
    BY <1>1, ChannelStored DEF PublishedIsStored
  <1>3. ReadModelIsAPrefix'
    BY <1>1 DEF ReadModelIsAPrefix
  <1> QED
    BY <1>2, <1>3

-----------------------------------------------------------------------------
(* Theorems *)

(***************************************************************************)
(* The invariant is inductive, so it holds in every reachable state of     *)
(* dispatch, store, bus and projection, whatever the constants.            *)
(***************************************************************************)
THEOREM Invariance == Spec => []InductiveInvariant
  <1>1. Init => InductiveInvariant
    BY InvInit
  <1>2. InductiveInvariant /\ [Next]_vars => InductiveInvariant'
    BY StoreInvNext, ProjectionNext DEF InductiveInvariant
  <1> QED
    BY <1>1, <1>2, PTL DEF Spec

(***************************************************************************)
(* Type correctness.                                                       *)
(***************************************************************************)
THEOREM TypeCorrect == Spec => []TypeOK
  <1>1. InductiveInvariant => TypeOK
    BY DEF InductiveInvariant, StoreInv
  <1> QED
    BY <1>1, Invariance, PTL

(***************************************************************************)
(* Optimistic concurrency loses no update: whatever tasks do between their *)
(* load_stream and their append, every stored event was decided on the     *)
(* state its predecessors produce.                                         *)
(***************************************************************************)
THEOREM NoLostUpdate == Spec => []EventsDecidedOnCurrentState
  <1>1. InductiveInvariant => EventsDecidedOnCurrentState
    BY DEF InductiveInvariant, StoreInv
  <1> QED
    BY <1>1, Invariance, PTL

(***************************************************************************)
(* handle_adjust's test protects every state of every stream, for every    *)
(* width of the integers.                                                  *)
(***************************************************************************)
THEOREM StockSafety == Spec => []StockNeverNegative
  <1>1. InductiveInvariant => StockNeverNegative
    BY DEF InductiveInvariant, StoreInv
  <1> QED
    BY <1>1, Invariance, PTL

(***************************************************************************)
(* A row whose first event was event 1 is the item's state at the cursor.  *)
(***************************************************************************)
THEOREM ProjectionPrefix == Spec => []ReadModelIsAPrefix
  <1>1. InductiveInvariant => ReadModelIsAPrefix
    BY DEF InductiveInvariant
  <1> QED
    BY <1>1, Invariance, PTL

(***************************************************************************)
(* Streams are append-only.                                                *)
(***************************************************************************)
THEOREM StreamsAppendOnly == Spec => AppendOnly
  <1> DEFINE Extends(k) ==
        /\ Len(streams'[k]) - Len(streams[k]) \in {0, 1}
        /\ SubSeq(streams'[k], 1, Len(streams[k])) = streams[k]
  <1>1. ASSUME InductiveInvariant, [Next]_vars, NEW k \in Keys
        PROVE  Extends(k)
    <2> DEFINE s == streams[k]
               t == streams'[k]
    <2>1. s \in Seq(StoredEvent) /\ t \in Seq(StoredEvent)
      BY <1>1, StoreInvNext DEF InductiveInvariant, StoreInv, TypeOK
    <2>2. /\ Len(t) = Len(s) \/ Len(t) = Len(s) + 1
          /\ \A i \in 1 .. Len(s) : i \in 1 .. Len(t) /\ t[i] = s[i]
      BY <1>1, StreamsGrow DEF InductiveInvariant
    <2> HIDE DEF s, t
    <2>3. Len(s) \in Nat /\ Len(t) \in Nat
      BY <2>1
    <2>4. \A i \in 1 .. Len(s) : t[i] \in StoredEvent
      BY <2>1, <2>2
    <2>5. /\ SubSeq(t, 1, Len(s)) \in Seq(StoredEvent)
          /\ Len(SubSeq(t, 1, Len(s))) = Len(s)
          /\ \A i \in 1 .. Len(s) : SubSeq(t, 1, Len(s))[i] = t[i]
      BY <2>1, <2>2, <2>3
    <2>6. SubSeq(t, 1, Len(s)) = s
      BY <2>1, <2>2, <2>5
    <2>7. Len(t) - Len(s) \in {0, 1}
      BY <2>2, <2>3
    <2> QED
      BY <2>6, <2>7 DEF s, t
  <1>2. InductiveInvariant /\ [Next]_vars =>
            [\A k \in Keys : /\ Len(streams'[k]) - Len(streams[k]) \in {0, 1}
                             /\ SubSeq(streams'[k], 1, Len(streams[k])) = streams[k]]_vars
    BY <1>1
  <1> QED
    BY <1>2, Invariance, PTL DEF Spec, AppendOnly

(***************************************************************************)
(* Dispatch implements the serial specification: its initial states map to *)
(* initial states, a successful append to one Execute step on the item's   *)
(* current state, and every other step to a stutter.                       *)
(***************************************************************************)
THEOREM Refinement == Spec => ImplementsSerial
  <1> DEFINE items == [k \in Keys |-> CurrentItem(k)]
  <1>1. Init => Serial!Init
    BY DEF Init, Serial!Init, CurrentItem, EmptyItem, Serial!EmptyItem
  <1>2. ASSUME InductiveInvariant, [Next]_vars
        PROVE  [Serial!Next]_items
    <2>1. CASE UNCHANGED storeVars
      BY <2>1 DEF storeVars, CurrentItem
    <2>2. ASSUME NEW r \in Requests, AppendEvent(r), VersionMatches(r)
          PROVE  Serial!Next
      <3> DEFINE k == cmd[r].key
                 s == Apply(states[k][Len(states[k])], Decide(cmd[r]))
      <3>1. k \in Keys /\ cmd[r] \in CommandsFor(k) /\ cmd[r] \in Command /\ pc[r] = "append"
        BY <1>2, <2>2, SentCommand DEF AppendEvent, InductiveInvariant, StoreInv
      <3>2. HandleError(CurrentItem(k), cmd[r]) = "None" /\ s \in Item
        BY <1>2, <2>2, <3>1, CommitOnCurrentState, ApplyType, DecideType
           DEF InductiveInvariant, CurrentItem
      <3>3. states' = [states EXCEPT ![k] = Append(states[k], s)]
        BY <2>2 DEF AppendEvent
      <3>4. states \in [Keys -> Seq(Item)]
        BY <1>2 DEF InductiveInvariant, StoreInv, TypeOK
      <3> HIDE DEF s
      <3>5. /\ states'[k][Len(states[k]) + 1] = s
            /\ Len(states'[k]) = Len(states[k]) + 1
            /\ \A j \in Keys : j # k => states'[j] = states[j]
        <4> HIDE DEF k
        <4> QED
          BY <3>1, <3>2, <3>3, <3>4, AppendToOne
      <3>6. items' = [items EXCEPT ![k] = s]
        BY <3>1, <3>5 DEF CurrentItem
      <3>7. s = Apply(items[k], Decide(cmd[r])) /\ HandleError(items[k], cmd[r]) = "None"
        BY <3>1, <3>2 DEF CurrentItem, s
      <3>8. Serial!Execute(k, cmd[r])
        <4>1. Serial!HandleError(items[k], cmd[r]) = "None"
          BY <3>7 DEF Serial!HandleError, Serial!CreateError, Serial!AdjustError, Serial!AddI64,
                      HandleError, CreateError, AdjustError, AddI64
        <4>2. s = Serial!Apply(items[k], Serial!Decide(cmd[r]))
          BY <3>7 DEF Serial!Apply, Serial!Decide, Serial!AddI64, Apply, Decide, AddI64
        <4> QED
          BY <3>6, <4>1, <4>2 DEF Serial!Execute
      <3>9. cmd[r] \in Serial!CommandsFor(k)
        BY <3>1 DEF Serial!CommandsFor, Serial!CreateItem, Serial!AdjustStock,
                    CommandsFor, CreateItem, AdjustStock
      <3> QED
        BY <3>1, <3>8, <3>9 DEF Serial!Next
    <2> QED
      BY <1>2, <2>1, <2>2, StoreStep
  <1> QED
    BY <1>1, <1>2, Invariance, PTL DEF Spec, ImplementsSerial, Serial!Spec

-----------------------------------------------------------------------------
(* Replies *)

(***************************************************************************)
(* The parts of the outcome invariant about one request.                   *)
(***************************************************************************)
LEMMA OutcomeOf ==
    ASSUME StoreInv, OutcomeInv, NEW r \in Requests
    PROVE  /\ reply[r] \in Seq(Replies) /\ Len(reply[r]) \in Nat /\ attempts[r] \in Nat
           /\ InFlight(r) => Len(reply[r]) = attempts[r] - 1 /\ attempts[r] > 0
           /\ ~InFlight(r) => Len(reply[r]) = attempts[r]
  <1>1. reply[r] \in Seq(Replies) /\ attempts[r] \in Nat
    BY DEF StoreInv, TypeOK
  <1>2. Len(reply[r]) \in Nat
    BY <1>1
  <1> QED
    BY <1>1, <1>2 DEF OutcomeInv, AttemptsAnswered

(* Nothing the outcome is about changes. *)
LEMMA OutcomeFrame ==
    ASSUME OutcomeInv, UNCHANGED <<streams, pc, attempts, reply>>
    PROVE  OutcomeInv'
  BY DEF OutcomeInv, AttemptsAnswered, CurrentAttempt, ReplyTellsOutcome,
         CommitsRepeatOnlyAfterPublish, StoredBy, InFlight

(* The origin of a stored event is a request and its attempt one that was made. *)
LEMMA StoredAttempt ==
    ASSUME StoreInv, OutcomeInv, NEW k \in Keys, NEW i \in 1 .. Len(streams[k])
    PROVE  /\ streams[k][i].origin \in Requests
           /\ streams[k][i].attempt \in Nat
           /\ 1 <= streams[k][i].attempt
           /\ streams[k][i].attempt <= attempts[streams[k][i].origin]
  <1>1. streams[k][i] \in StoredEvent
    BY StoredType DEF StoreInv
  <1>2. streams[k][i].origin \in Requests /\ streams[k][i].attempt \in Nat
    BY <1>1 DEF StoredEvent
  <1>3. attempts[streams[k][i].origin] \in Nat
    BY <1>2 DEF StoreInv, TypeOK
  <1>4. streams[k][i].attempt \in 1 .. attempts[streams[k][i].origin]
    BY DEF OutcomeInv, CurrentAttempt
  <1> QED
    BY <1>2, <1>3, <1>4

(***************************************************************************)
(* A request is sent, for the first time or again: its attempts so far are *)
(* all answered with an error a client retries on, and none of its events  *)
(* belongs to the new attempt.                                             *)
(***************************************************************************)
LEMMA SentOutcome ==
    ASSUME StoreInv, OutcomeInv, NEW r \in Requests, ~InFlight(r),
           \A a \in 1 .. attempts[r] : reply[r][a] \in {"Concurrency", "Publish"},
           pc' = [pc EXCEPT ![r] = "load"],
           attempts' = [attempts EXCEPT ![r] = attempts[r] + 1],
           UNCHANGED <<streams, reply>>
    PROVE  OutcomeInv'
  <1>1. /\ pc'[r] = "load" /\ attempts'[r] = attempts[r] + 1 /\ attempts[r] \in Nat
        /\ \A q \in Requests : q # r => pc'[q] = pc[q] /\ attempts'[q] = attempts[q]
        /\ \A q \in Requests : attempts[q] \in Nat /\ attempts'[q] \in Nat
        /\ \A q \in Requests : attempts[q] <= attempts'[q]
    BY DEF StoreInv, TypeOK
  <1>2. AttemptsAnswered'
    <2> SUFFICES ASSUME NEW q \in Requests
                 PROVE  /\ Len(reply'[q]) = IF InFlight(q)' THEN attempts'[q] - 1 ELSE attempts'[q]
                        /\ pc'[q] = "new" => attempts'[q] = 0
                        /\ pc'[q] = "done" => attempts'[q] > 0
                        /\ \A a \in 1 .. attempts'[q] - 1 :
                               reply'[q][a] \in {"Concurrency", "Publish"}
      BY DEF AttemptsAnswered
    <2>1. CASE q = r
      BY <1>1, <2>1, OutcomeOf DEF InFlight
    <2>2. CASE q # r
      BY <1>1, <2>2 DEF OutcomeInv, AttemptsAnswered, InFlight
    <2> QED
      BY <2>1, <2>2
  <1>3. CurrentAttempt'
    <2>1. \A k \in Keys : \A i \in 1 .. Len(streams[k]) :
              streams[k][i].attempt \in 1 .. attempts'[streams[k][i].origin]
      BY <1>1, StoredAttempt
    <2>2. ASSUME NEW q \in Requests, InFlight(q)'
          PROVE  StoredBy(q, attempts[q])' <=> pc'[q] = "publish"
      <3>1. CASE q = r
        <4>1. ASSUME NEW k \in Keys, NEW i \in 1 .. Len(streams[k]),
                     streams[k][i].origin = r, streams[k][i].attempt = attempts'[r]
              PROVE  FALSE
          BY <1>1, <4>1, StoredAttempt
        <4> QED
          BY <1>1, <3>1, <4>1 DEF StoredBy
      <3>2. CASE q # r
        <4>1. InFlight(q)
          BY <1>1, <2>2, <3>2 DEF InFlight
        <4> QED
          BY <1>1, <3>2, <4>1 DEF OutcomeInv, CurrentAttempt, StoredBy
      <3> QED
        BY <3>1, <3>2
    <2> QED
      BY <2>1, <2>2 DEF CurrentAttempt
  <1>4. ReplyTellsOutcome' /\ CommitsRepeatOnlyAfterPublish'
    BY DEF OutcomeInv, ReplyTellsOutcome, CommitsRepeatOnlyAfterPublish, StoredBy
  <1> QED
    BY <1>2, <1>3, <1>4 DEF OutcomeInv

(***************************************************************************)
(* A dispatch ends: its answer becomes the last one of the request, and it *)
(* is Ok or Publish exactly if the attempt has its event in the store.     *)
(***************************************************************************)
LEMMA AnsweredOutcome ==
    ASSUME StoreInv, OutcomeInv, NEW r \in Requests, InFlight(r), NEW result \in Replies,
           Finish(r, result), pc[r] = "publish" <=> result \in {"Ok", "Publish"},
           UNCHANGED <<streams, attempts>>
    PROVE  OutcomeInv'
  <1> DEFINE n == Len(reply[r])
  <1>1. /\ reply[r] \in Seq(Replies) /\ n \in Nat /\ attempts[r] = n + 1
        /\ reply'[r] = Append(reply[r], result)
        /\ \A q \in Requests : q # r => reply'[q] = reply[q] /\ pc'[q] = pc[q]
        /\ pc'[r] = "done"
    BY OutcomeOf DEF Finish, StoreInv, TypeOK
  <1>2. /\ Len(reply'[r]) = n + 1 /\ reply'[r][n + 1] = result
        /\ \A a \in 1 .. n : reply'[r][a] = reply[r][a]
    BY <1>1, AppendProperties
  <1>3. \A q \in Requests : /\ Len(reply[q]) \in Nat /\ Len(reply'[q]) >= Len(reply[q])
                            /\ \A a \in 1 .. Len(reply[q]) : reply'[q][a] = reply[q][a]
    <2> TAKE q \in Requests
    <2>1. CASE q = r
      BY <1>1, <1>2, <2>1
    <2>2. CASE q # r
      <3>1. reply'[q] = reply[q] /\ Len(reply[q]) \in Nat
        BY <1>1, <2>2, OutcomeOf
      <3> QED
        BY <3>1
    <2> QED
      BY <2>1, <2>2
  <1> HIDE DEF n
  <1>4. AttemptsAnswered'
    <2> SUFFICES ASSUME NEW q \in Requests
                 PROVE  /\ Len(reply'[q]) = IF InFlight(q)' THEN attempts'[q] - 1 ELSE attempts'[q]
                        /\ pc'[q] = "new" => attempts'[q] = 0
                        /\ pc'[q] = "done" => attempts'[q] > 0
                        /\ \A a \in 1 .. attempts'[q] - 1 :
                               reply'[q][a] \in {"Concurrency", "Publish"}
      BY DEF AttemptsAnswered
    <2>1. CASE q = r
      <3>1. \A a \in 1 .. n : reply[r][a] \in {"Concurrency", "Publish"}
        BY <1>1 DEF OutcomeInv, AttemptsAnswered
      <3>2. attempts'[r] = n + 1 /\ Len(reply'[r]) = n + 1 /\ n \in Nat /\ ~InFlight(r)'
        BY <1>1, <1>2 DEF InFlight
      <3>3. \A a \in 1 .. attempts'[r] - 1 : reply'[r][a] \in {"Concurrency", "Publish"}
        <4> TAKE a \in 1 .. attempts'[r] - 1
        <4>1. a \in 1 .. n
          BY <3>2
        <4> QED
          BY <1>2, <3>1, <4>1
      <3> QED
        BY <1>1, <2>1, <3>2, <3>3
    <2>2. CASE q # r
      BY <1>1, <2>2 DEF OutcomeInv, AttemptsAnswered, InFlight
    <2> QED
      BY <2>1, <2>2
  <1>5. CurrentAttempt'
    BY <1>1 DEF OutcomeInv, CurrentAttempt, StoredBy, InFlight
  <1>6. ReplyTellsOutcome'
    <2> SUFFICES ASSUME NEW q \in Requests, NEW a \in 1 .. Len(reply'[q])
                 PROVE  StoredBy(q, a)' <=> reply'[q][a] \in {"Ok", "Publish"}
      BY DEF ReplyTellsOutcome
    <2>1. StoredBy(q, a)' <=> StoredBy(q, a)
      BY DEF StoredBy
    <2>2. CASE a \in 1 .. Len(reply[q])
      BY <1>3, <2>1, <2>2 DEF OutcomeInv, ReplyTellsOutcome
    <2>3. CASE a \notin 1 .. Len(reply[q])
      <3>1. q = r /\ a = n + 1
        BY <1>1, <1>2, <1>3, <2>3 DEF n
      <3>2. StoredBy(r, n + 1) <=> pc[r] = "publish"
        BY <1>1 DEF OutcomeInv, CurrentAttempt
      <3> QED
        BY <1>2, <2>1, <3>1, <3>2
    <2> QED
      BY <2>2, <2>3
  <1>7. CommitsRepeatOnlyAfterPublish'
    <2> SUFFICES ASSUME NEW k \in Keys, NEW i \in 1 .. Len(streams[k]),
                        NEW j \in 1 .. Len(streams[k]), i < j,
                        streams[k][i].origin = streams[k][j].origin
                 PROVE  /\ streams[k][i].attempt < streams[k][j].attempt
                        /\ streams[k][i].attempt <= Len(reply'[streams[k][i].origin])
                        /\ reply'[streams[k][i].origin][streams[k][i].attempt] = "Publish"
      BY DEF CommitsRepeatOnlyAfterPublish
    <2>1. PICK q \in Requests, a \in Nat : /\ streams[k][i].origin = q
                                          /\ streams[k][i].attempt = a /\ 1 <= a
      BY StoredAttempt
    <2>2. /\ a < streams[k][j].attempt /\ a <= Len(reply[q]) /\ reply[q][a] = "Publish"
      BY <2>1 DEF OutcomeInv, CommitsRepeatOnlyAfterPublish
    <2>3. a \in 1 .. Len(reply[q])
      BY <1>3, <2>1, <2>2
    <2> QED
      BY <1>3, <2>1, <2>2, <2>3
  <1> QED
    BY <1>4, <1>5, <1>6, <1>7 DEF OutcomeInv

(* A dispatch that goes on from one stage to another before its append. *)
LEMMA MovedOutcome ==
    ASSUME StoreInv, OutcomeInv, NEW r \in Requests, InFlight(r), pc[r] # "publish",
           NEW stage \in {"load", "rehydrate", "append"},
           pc' = [pc EXCEPT ![r] = stage], UNCHANGED <<streams, attempts, reply>>
    PROVE  OutcomeInv'
  <1>1. /\ pc'[r] = stage /\ \A q \in Requests : q # r => pc'[q] = pc[q]
        /\ \A q \in Requests : /\ InFlight(q)' <=> InFlight(q)
                               /\ pc'[q] = "publish" <=> pc[q] = "publish"
                               /\ pc'[q] = "new" <=> pc[q] = "new"
                               /\ pc'[q] = "done" <=> pc[q] = "done"
    BY DEF StoreInv, TypeOK, InFlight
  <1>2. AttemptsAnswered' /\ CurrentAttempt'
    BY <1>1 DEF OutcomeInv, AttemptsAnswered, CurrentAttempt, StoredBy
  <1>3. ReplyTellsOutcome' /\ CommitsRepeatOnlyAfterPublish'
    BY DEF OutcomeInv, ReplyTellsOutcome, CommitsRepeatOnlyAfterPublish, StoredBy
  <1> QED
    BY <1>2, <1>3 DEF OutcomeInv

(***************************************************************************)
(* The append: the attempt under way had no event in the store, so earlier *)
(* events of the request belong to attempts that are answered and stored   *)
(* something, and only Publish is such an answer that is retried.          *)
(***************************************************************************)
LEMMA CommitOutcome ==
    ASSUME StoreInv, OutcomeInv, NEW r \in Requests, AppendEvent(r), VersionMatches(r)
    PROVE  OutcomeInv'
  <1> DEFINE k == cmd[r].key
             e == Committed(r)
  <1>1. k \in Keys /\ pc[r] = "append" /\ streams \in [Keys -> Seq(StoredEvent)]
    BY SentCommand DEF AppendEvent, StoreInv, TypeOK
  <1>2. e \in StoredEvent /\ e.origin = r /\ e.attempt = attempts[r]
    BY <1>1, CommitOnCurrentState DEF Committed
  <1>3. /\ streams' = [streams EXCEPT ![k] = Append(streams[k], e)]
        /\ pc' = [pc EXCEPT ![r] = "publish"] /\ reply' = reply /\ attempts' = attempts
    BY DEF AppendEvent
  <1> HIDE DEF k, e
  <1>4. /\ Len(streams[k]) \in Nat
        /\ Len(streams'[k]) = Len(streams[k]) + 1
        /\ streams'[k][Len(streams[k]) + 1] = e
        /\ \A j \in Keys : \A i \in 1 .. Len(streams[j]) :
               i \in 1 .. Len(streams'[j]) /\ streams'[j][i] = streams[j][i]
        /\ \A j \in Keys : \A i \in 1 .. Len(streams'[j]) :
               i \in 1 .. Len(streams[j]) \/ (j = k /\ i = Len(streams[k]) + 1)
    BY <1>1, <1>2, <1>3, AppendToOne
  <1>5. /\ pc'[r] = "publish" /\ \A q \in Requests : q # r => pc'[q] = pc[q]
        /\ \A q \in Requests : InFlight(q)' <=> InFlight(q)
        /\ InFlight(r)
    BY <1>1, <1>3 DEF StoreInv, TypeOK, InFlight
  <1>6. /\ attempts[r] \in Nat /\ attempts[r] > 0 /\ Len(reply[r]) = attempts[r] - 1
    BY <1>5, OutcomeOf
  <1>7. ~StoredBy(r, attempts[r])
    BY <1>1, <1>5 DEF OutcomeInv, CurrentAttempt
  <1>8. \A q \in Requests, a \in Nat :
            StoredBy(q, a)' <=> StoredBy(q, a) \/ (q = r /\ a = attempts[r])
    <2>1. Len(streams[k]) + 1 \in 1 .. Len(streams'[k])
      BY <1>4
    <2>2. StoredBy(r, attempts[r])'
      BY <1>1, <1>2, <1>3, <1>4, <2>1 DEF StoredBy
    <2>3. ASSUME NEW q \in Requests, NEW a \in Nat, StoredBy(q, a) PROVE StoredBy(q, a)'
      BY <1>4, <2>3 DEF StoredBy
    <2>4. ASSUME NEW q \in Requests, NEW a \in Nat, StoredBy(q, a)'
          PROVE  StoredBy(q, a) \/ (q = r /\ a = attempts[r])
      <3>1. PICK j \in Keys : \E i \in 1 .. Len(streams'[j]) :
                streams'[j][i].origin = q /\ streams'[j][i].attempt = a
        BY <2>4 DEF StoredBy
      <3>2. PICK i \in 1 .. Len(streams'[j]) :
                streams'[j][i].origin = q /\ streams'[j][i].attempt = a
        BY <3>1
      <3> QED
        BY <1>2, <1>4, <3>2 DEF StoredBy
    <2>5. \A q \in Requests, a \in Nat : q = r /\ a = attempts[r] => StoredBy(q, a)'
      BY <1>3, <2>2 DEF StoredBy
    <2> QED
      BY <2>3, <2>4, <2>5
  <1>9. AttemptsAnswered'
    BY <1>1, <1>3, <1>5 DEF OutcomeInv, AttemptsAnswered
  <1>10. CurrentAttempt'
    <2>1. ASSUME NEW j \in Keys, NEW i \in 1 .. Len(streams'[j])
          PROVE  streams'[j][i].attempt \in 1 .. attempts'[streams'[j][i].origin]
      <3>1. CASE i \in 1 .. Len(streams[j])
        BY <1>3, <1>4, <3>1 DEF OutcomeInv, CurrentAttempt
      <3>2. CASE i \notin 1 .. Len(streams[j])
        BY <1>2, <1>3, <1>4, <1>6, <3>2
      <3> QED
        BY <3>1, <3>2
    <2>2. ASSUME NEW q \in Requests, InFlight(q)'
          PROVE  StoredBy(q, attempts[q])' <=> pc'[q] = "publish"
      <3>1. attempts'[q] = attempts[q] /\ attempts[q] \in Nat /\ InFlight(q)
        BY <1>3, <1>5, <2>2, OutcomeOf
      <3>2. StoredBy(q, attempts[q]) <=> pc[q] = "publish"
        BY <3>1 DEF OutcomeInv, CurrentAttempt
      <3>3. StoredBy(q, attempts[q])' <=> StoredBy(q, attempts[q]) \/ q = r
        <4>1. PICK a \in Nat : a = attempts[q]
          BY <3>1
        <4>2. StoredBy(q, a)' <=> StoredBy(q, a) \/ (q = r /\ a = attempts[r])
          BY <1>8
        <4> QED
          BY <3>1, <4>1, <4>2 DEF StoredBy
      <3> QED
        BY <1>5, <3>2, <3>3
    <2> QED
      BY <2>1, <2>2 DEF CurrentAttempt
  <1>11. ReplyTellsOutcome'
    <2> SUFFICES ASSUME NEW q \in Requests, NEW a \in 1 .. Len(reply[q])
                 PROVE  StoredBy(q, a)' <=> reply[q][a] \in {"Ok", "Publish"}
      BY <1>3 DEF ReplyTellsOutcome
    <2>1. a \in Nat /\ ~(q = r /\ a = attempts[r])
      BY <1>6
    <2> QED
      BY <1>8, <2>1 DEF OutcomeInv, ReplyTellsOutcome
  <1>12. CommitsRepeatOnlyAfterPublish'
    <2> SUFFICES ASSUME NEW j \in Keys, NEW a \in 1 .. Len(streams'[j]),
                        NEW b \in 1 .. Len(streams'[j]), a < b,
                        streams'[j][a].origin = streams'[j][b].origin
                 PROVE  /\ streams'[j][a].attempt < streams'[j][b].attempt
                        /\ streams'[j][a].attempt <= Len(reply[streams'[j][a].origin])
                        /\ reply[streams'[j][a].origin][streams'[j][a].attempt] = "Publish"
      BY <1>3 DEF CommitsRepeatOnlyAfterPublish
    <2>0. a \in 1 .. Len(streams[j]) /\ streams'[j][a] = streams[j][a]
      BY <1>4
    <2>1. CASE b \in 1 .. Len(streams[j])
      <3>1. streams'[j][b] = streams[j][b]
        BY <1>4, <2>1
      <3>2. streams[j][a].origin = streams[j][b].origin
        BY <2>0, <3>1
      <3>3. /\ streams[j][a].attempt < streams[j][b].attempt
            /\ streams[j][a].attempt <= Len(reply[streams[j][a].origin])
            /\ reply[streams[j][a].origin][streams[j][a].attempt] = "Publish"
        BY <2>0, <2>1, <3>2 DEF OutcomeInv, CommitsRepeatOnlyAfterPublish
      <3> QED
        BY <2>0, <3>1, <3>3
    <2>2. CASE b \notin 1 .. Len(streams[j])
      <3>1. streams'[j][b] = e /\ streams[j][a].origin = r
        BY <1>2, <1>4, <2>0, <2>2
      <3>2. PICK t \in Nat : t = streams[j][a].attempt /\ 1 <= t /\ t <= attempts[r]
        BY <2>0, <3>1, StoredAttempt
      <3>3. StoredBy(r, t)
        BY <2>0, <3>1, <3>2 DEF StoredBy
      <3>4. t # attempts[r]
        BY <1>7, <3>3
      <3>5. t \in 1 .. Len(reply[r]) /\ t \in 1 .. attempts[r] - 1
        BY <1>6, <3>2, <3>4
      <3>6. reply[r][t] \in {"Ok", "Publish"} /\ reply[r][t] \in {"Concurrency", "Publish"}
        BY <3>3, <3>5 DEF OutcomeInv, ReplyTellsOutcome, AttemptsAnswered
      <3>7. t < attempts[r] /\ t <= Len(reply[r]) /\ reply[r][t] = "Publish"
        BY <1>6, <3>2, <3>5, <3>6
      <3>8. /\ streams'[j][a].attempt = t /\ streams'[j][a].origin = r
            /\ streams'[j][b].attempt = attempts[r]
        BY <1>2, <2>0, <3>1, <3>2
      <3> QED
        BY <3>7, <3>8
    <2> QED
      BY <2>1, <2>2
  <1> QED
    BY <1>9, <1>10, <1>11, <1>12 DEF OutcomeInv

(* Every step preserves the link between answers and stored events. *)
LEMMA OutcomeNext ==
    ASSUME StoreInv, OutcomeInv, [Next]_vars
    PROVE  OutcomeInv'
  <1>1. CASE UNCHANGED vars
    BY <1>1, OutcomeFrame DEF vars
  <1>2. CASE Deliver
    BY <1>2, OutcomeFrame DEF Deliver, storeVars, taskVars
  <1>3. ASSUME NEW r \in Requests, Submit(r) PROVE OutcomeInv'
    <2>1. pc[r] = "new" /\ attempts[r] = 0
      BY <1>3 DEF Submit, OutcomeInv, AttemptsAnswered
    <2>2. /\ pc' = [pc EXCEPT ![r] = "load"] /\ attempts' = [attempts EXCEPT ![r] = attempts[r] + 1]
          /\ UNCHANGED <<streams, reply>>
      BY <1>3 DEF Submit, storeVars
    <2>3. ~InFlight(r) /\ \A a \in 1 .. attempts[r] : reply[r][a] \in {"Concurrency", "Publish"}
      BY <2>1 DEF InFlight
    <2> QED
      BY <2>2, <2>3, SentOutcome
  <1>4. ASSUME NEW r \in Requests, Retry(r) PROVE OutcomeInv'
    <2>1. /\ pc[r] = "done" /\ ~InFlight(r) /\ Len(reply[r]) = attempts[r] /\ attempts[r] \in Nat
      BY <1>4, OutcomeOf DEF Retry, InFlight
    <2>2. reply[r][attempts[r]] \in {"Concurrency", "Publish"}
      BY <1>4, <2>1, DispatcherAssumption DEF Retry
    <2>3. \A a \in 1 .. attempts[r] : reply[r][a] \in {"Concurrency", "Publish"}
      BY <2>1, <2>2 DEF OutcomeInv, AttemptsAnswered
    <2> QED
      BY <1>4, <2>1, <2>3, SentOutcome DEF Retry, storeVars
  <1>5. ASSUME NEW r \in Requests, Load(r) PROVE OutcomeInv'
    <2>1. PICK error \in {"None", "TenantIsolation", "Store"} :
              error = ValidateLoadedStream(cmd[r].key, streams[cmd[r].key])
      BY DEF ValidateLoadedStream
    <2>2. /\ pc[r] = "load" /\ InFlight(r) /\ UNCHANGED <<streams, attempts>>
          /\ IF error = "None" THEN pc' = [pc EXCEPT ![r] = "rehydrate"] /\ UNCHANGED reply
                               ELSE Finish(r, error)
      BY <1>5, <2>1 DEF Load, InFlight, storeVars
    <2>3. CASE error = "None"
      BY <2>2, <2>3, MovedOutcome
    <2>4. CASE error # "None"
      BY <2>2, <2>4, AnsweredOutcome DEF Replies
    <2> QED
      BY <2>3, <2>4
  <1>6. ASSUME NEW r \in Requests, ApplyHistory(r) PROVE OutcomeInv'
    BY <1>6, OutcomeFrame DEF ApplyHistory, storeVars
  <1>7. ASSUME NEW r \in Requests, HandleCommand(r) PROVE OutcomeInv'
    <2>1. PICK error \in DomainErrors \cup {"None"} : error = HandleError(agg[r], cmd[r])
      BY HandleErrorType
    <2>2. /\ pc[r] = "rehydrate" /\ InFlight(r) /\ UNCHANGED <<streams, attempts>>
          /\ IF error = "None" THEN pc' = [pc EXCEPT ![r] = "append"] /\ UNCHANGED reply
                               ELSE Finish(r, ErrorReply(error))
      BY <1>7, <2>1 DEF HandleCommand, InFlight, storeVars
    <2>3. CASE error = "None"
      BY <2>2, <2>3, MovedOutcome
    <2>4. CASE error # "None"
      <3>1. ErrorReply(error) \in Replies /\ ErrorReply(error) \notin {"Ok", "Publish"}
        BY <2>4 DEF ErrorReply, DomainErrors, Replies
      <3> QED
        BY <2>2, <2>4, <3>1, AnsweredOutcome
    <2> QED
      BY <2>3, <2>4
  <1>8. ASSUME NEW r \in Requests, AppendEvent(r) PROVE OutcomeInv'
    <2>1. CASE VersionMatches(r)
      BY <1>8, <2>1, CommitOutcome
    <2>2. CASE ~VersionMatches(r)
      BY <1>8, <2>2, AnsweredOutcome DEF AppendEvent, storeVars, InFlight, Replies
    <2> QED
      BY <2>1, <2>2
  <1>9. ASSUME NEW r \in Requests, Publish(r) \/ PublishFails(r) PROVE OutcomeInv'
    BY <1>9, AnsweredOutcome DEF Publish, PublishFails, storeVars, InFlight, Replies
  <1> QED
    BY <1>1, <1>2, <1>3, <1>4, <1>5, <1>6, <1>7, <1>8, <1>9 DEF Next, DispatchStep

(***************************************************************************)
(* Attempts are answered in order, an answered attempt has stored its      *)
(* event exactly if the answer was Ok or Publish, the one under way        *)
(* exactly while it is past its append.                                    *)
(***************************************************************************)
THEOREM OutcomeInvariance == Spec => []OutcomeInv
  <1>1. Init => OutcomeInv
    BY DEF Init, OutcomeInv, AttemptsAnswered, CurrentAttempt, ReplyTellsOutcome,
           CommitsRepeatOnlyAfterPublish, StoredBy, InFlight
  <1>2. InductiveInvariant /\ OutcomeInv /\ [Next]_vars => OutcomeInv'
    BY OutcomeNext DEF InductiveInvariant
  <1> QED
    BY <1>1, <1>2, Invariance, PTL DEF Spec

(***************************************************************************)
(* Whatever errors clients retry on, a request commits a second event only *)
(* after an attempt that committed one was answered Publish.               *)
(***************************************************************************)
THEOREM RepeatedCommits == Spec => []CommitsRepeatOnlyAfterPublish
  <1>1. OutcomeInv => CommitsRepeatOnlyAfterPublish
    BY DEF OutcomeInv
  <1> QED
    BY <1>1, OutcomeInvariance, PTL

(***************************************************************************)
(* Every reply of dispatch tells whether its attempt stored an event.      *)
(***************************************************************************)
THEOREM RepliesAreTrue == Spec => []ReplyTellsOutcome
  <1>1. OutcomeInv => ReplyTellsOutcome
    BY DEF OutcomeInv
  <1> QED
    BY <1>1, OutcomeInvariance, PTL

=============================================================================
