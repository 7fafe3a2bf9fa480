---------------------- MODULE PostgresEventStoreProofs ----------------------
(***************************************************************************)
(* Proofs of the safety properties of PostgresEventStore and of its        *)
(* refinement of EventLog, for any streams, calls, batches and number of   *)
(* broken connections.                                                     *)
(*                                                                         *)
(* The argument: a call that read version b and whose first INSERT got     *)
(* through found no row b + 1, so b still is the version of its stream,    *)
(* and it holds the key b + 1, so no other transaction is past its first   *)
(* INSERT into that stream until it ends (OneWriter).  Its COMMIT then     *)
(* extends the stream by exactly its batch (OpenFollows).                  *)
(***************************************************************************)
EXTENDS PostgresEventStore, FiniteSetTheorems, SequenceTheorems, TLAPS

(* The i-th row of a call's transaction. *)
RowOf(c, i) ==
    [id |-> <<c, i>>, key |-> args[c].key, seq |-> base[c] + i, type |-> args[c].type]

(* Committed rows are numbered without holes, keep the unique indexes and  *)
(* have one type per stream.                                               *)
Numbered ==
    \A k \in Keys :
        StreamVersion(k) \in Nat /\ {row.seq : row \in Rows(k)} = 1 .. StreamVersion(k)

KeysUnique == \A r, s \in table : SameKey(r, s) => r = s

OneType == \A k \in Keys : \A r, s \in Rows(k) : r.type = s.type

(* An open transaction holds the first rows of its batch. *)
OpenRows ==
    \A c \in Calls :
        /\ IsFiniteSet(inserted[c])
        /\ Cardinality(inserted[c]) \in 0 .. BatchLen[c]
        /\ inserted[c] = {RowOf(c, i) : i \in 1 .. Cardinality(inserted[c])}
        /\ stage[c] # "insert" => inserted[c] = {}

(* One that has a row continues its stream as it is now. *)
OpenFollows ==
    \A c \in Calls : stage[c] = "insert" =>
        /\ base[c] <= StreamVersion(args[c].key)
        /\ args[c].expected \in {AnyVersion, base[c]}
        /\ inserted[c] # {} => base[c] = StreamVersion(args[c].key) /\ StoredRows(c) = {}
        /\ base[c] = StreamVersion(args[c].key) =>
               \A row \in Rows(args[c].key) : row.type = args[c].type

(* At most one open transaction has a row of a stream. *)
OneWriter ==
    \A c, d \in Calls : c # d /\ inserted[c] # {} /\ inserted[d] # {} =>
        args[c].key # args[d].key

(* A call has its arguments once it is made; before, it stored nothing,    *)
(* and neither did it before its first answer.                             *)
CallsMade ==
    \A c \in Calls :
        /\ stage[c] # "new" => args[c] \in Args /\ tries[c] >= 1
        /\ stage[c] = "new" => StoredRows(c) = {} /\ tries[c] = 0
        /\ stage[c] \in {"check", "insert"} /\ tries[c] = 1 => StoredRows(c) = {}

StoreInv ==
    /\ TypeOK
    /\ IsFiniteSet(table)
    /\ Numbered
    /\ KeysUnique
    /\ OneType
    /\ OpenRows
    /\ OpenFollows
    /\ OneWriter
    /\ CallsMade
    /\ BatchesWhole
    /\ ReplyTellsOutcome

-----------------------------------------------------------------------------
(* Numbers of rows and their greatest *)

(* The greatest number of rows that carry 1 to n is n. *)
LEMMA MaxOfNumbers ==
    ASSUME NEW R, NEW n \in Nat, {row.seq : row \in R} = 1 .. n
    PROVE  (IF R = {} THEN 0
            ELSE CHOOSE m \in {row.seq : row \in R} : \A row \in R : row.seq <= m) = n
  <1>1. CASE R = {}
    <2>1. 1 .. n = {}
      BY <1>1
    <2> QED
      BY <1>1, <2>1
  <1>2. CASE R # {}
    <2>1. 1 .. n # {} /\ n \in 1 .. n
      BY <1>2
    <2>2. \A row \in R : row.seq \in 1 .. n
      OBVIOUS
    <2>3. n \in {row.seq : row \in R} /\ \A row \in R : row.seq <= n
      BY <2>1, <2>2
    <2>4. \A m \in {row.seq : row \in R} : (\A row \in R : row.seq <= m) => m = n
      <3> SUFFICES ASSUME NEW m \in 1 .. n, \A row \in R : row.seq <= m
                   PROVE  m = n
        OBVIOUS
      <3>1. PICK row \in R : row.seq = n
        BY <2>3
      <3> QED
        BY <3>1
    <2> DEFINE P(m) == m \in {row.seq : row \in R} /\ \A row \in R : row.seq <= m
    <2>5. (CHOOSE m \in {row.seq : row \in R} : \A row \in R : row.seq <= m) = n
      BY <2>3, <2>4
    <2> QED
      BY <1>2, <2>5
  <1> QED
    BY <1>1, <1>2

(* Rows that carry 1 to n once each are n rows. *)
LEMMA CountOfNumbers ==
    ASSUME NEW R, NEW n \in Nat, {row.seq : row \in R} = 1 .. n,
           \A r, s \in R : r.seq = s.seq => r = s
    PROVE  IsFiniteSet(R) /\ Cardinality(R) = n
  <1> DEFINE f == [i \in 1 .. n |-> CHOOSE row \in R : row.seq = i]
  <1>1. \A i \in 1 .. n : \E row \in R : row.seq = i
    OBVIOUS
  <1>2. \A i \in 1 .. n : f[i] \in R /\ f[i].seq = i
    BY <1>1
  <1>4. f \in [1 .. n -> R]
    BY <1>2
  <1> HIDE DEF f
  <1>5. \A row \in R : row.seq \in 1 .. n /\ f[row.seq] = row
    BY <1>2
  <1>6. f \in Bijection(1 .. n, R)
    <2>1. \A i, j \in 1 .. n : f[i] = f[j] => i = j
      BY <1>2
    <2>2. \A row \in R : \E i \in 1 .. n : f[i] = row
      BY <1>5
    <2> QED
      BY <1>4, <2>1, <2>2, Zenon DEF Bijection, Injection, Surjection, IsInjective
  <1>7. ExistsBijection(1 .. n, R)
    BY <1>6 DEF ExistsBijection
  <1> QED
    BY <1>7, FS_NatBijection, FS_CountingElements

-----------------------------------------------------------------------------
(* The rows of a call *)

(* A row of a call that was made has the fields its INSERT gives it. *)
LEMMA RowOfFields ==
    ASSUME TypeOK, NEW c \in Calls, args[c] \in Args, NEW i \in Nat \ {0}
    PROVE  /\ RowOf(c, i) \in Row
           /\ RowOf(c, i).key = args[c].key /\ RowOf(c, i).seq = base[c] + i
           /\ RowOf(c, i).id = <<c, i>> /\ RowOf(c, i).type = args[c].type
  <1>1. args[c].key \in Keys /\ args[c].type \in Types
    BY DEF Args
  <1>2. base[c] + i \in Nat /\ <<c, i>> \in EventIds
    BY DEF TypeOK, EventIds
  <1> QED
    BY <1>1, <1>2 DEF RowOf, Row

(* The next INSERT writes the next row of the call. *)
LEMMA NextRowIsRowOf ==
    ASSUME NEW c \in Calls
    PROVE  NextRow(c) = RowOf(c, Cardinality(inserted[c]) + 1)
  BY DEF NextRow, RowOf

-----------------------------------------------------------------------------
(* Streams *)

(* What load_stream returns when rows are numbered without holes. *)
StreamFacts ==
    \A k \in Keys :
        /\ LoadStream(k) \in Seq(EventIds) /\ Len(LoadStream(k)) = StreamVersion(k)
        /\ \A row \in Rows(k) :
               row.seq \in 1 .. StreamVersion(k) /\ LoadStream(k)[row.seq] = row.id
        /\ \A i \in 1 .. StreamVersion(k) :
               \E row \in Rows(k) : row.seq = i /\ LoadStream(k)[i] = row.id

(* load_stream returns the ids of the rows in the order of their numbers. *)
LEMMA LoadStreamIs ==
    TypeOK /\ Numbered /\ KeysUnique => StreamFacts
  <1> SUFFICES ASSUME TypeOK, Numbered, KeysUnique, NEW k \in Keys
               PROVE  /\ LoadStream(k) \in Seq(EventIds) /\ Len(LoadStream(k)) = StreamVersion(k)
                      /\ \A row \in Rows(k) :
                           row.seq \in 1 .. StreamVersion(k) /\ LoadStream(k)[row.seq] = row.id
                      /\ \A i \in 1 .. StreamVersion(k) :
                           \E row \in Rows(k) : row.seq = i /\ LoadStream(k)[i] = row.id
    BY DEF StreamFacts
  <1>1. PICK n \in Nat : n = StreamVersion(k) /\ {row.seq : row \in Rows(k)} = 1 .. n
    BY DEF Numbered
  <1>2. \A r, s \in Rows(k) : r.seq = s.seq => r = s
    BY DEF KeysUnique, SameKey, Rows
  <1>3. \A row \in Rows(k) : row \in Row /\ row.id \in EventIds /\ row.seq \in 1 .. n
    BY <1>1 DEF TypeOK, Rows, Row
  <1>4. ASSUME NEW i \in 1 .. n
        PROVE  \E row \in Rows(k) : row.seq = i /\ LoadStream(k)[i] = row.id
    <2>1. \E row \in Rows(k) : row.seq = i
      BY <1>1
    <2>2. LoadStream(k)[i] = (CHOOSE row \in Rows(k) : row.seq = i).id
      BY <1>1 DEF LoadStream
    <2> QED
      BY <2>1, <2>2
  <1>5. DOMAIN LoadStream(k) = 1 .. n
    BY <1>1 DEF LoadStream
  <1>6. LoadStream(k) \in [1 .. n -> EventIds]
    BY <1>1, <1>3, <1>4, <1>5 DEF LoadStream
  <1>7. LoadStream(k) \in Seq(EventIds) /\ Len(LoadStream(k)) = n
    BY <1>5, <1>6
  <1>8. \A row \in Rows(k) : LoadStream(k)[row.seq] = row.id
    BY <1>2, <1>3, <1>4
  <1> QED
    BY <1>1, <1>3, <1>4, <1>7, <1>8

(* The same in the state after a step. *)
LEMMA LoadStreamIsNext ==
    TypeOK' /\ Numbered' /\ KeysUnique' => StreamFacts'
  BY LoadStreamIs, PTL

(* What a step that commits nothing leaves as it is. *)
LEMMA TableSame ==
    ASSUME UNCHANGED table, TypeOK, TypeOK', Numbered, KeysUnique
    PROVE  /\ \A k : Rows(k)' = Rows(k)
           /\ \A k \in Keys : StreamVersion(k)' = StreamVersion(k)
           /\ \A k \in Keys : LoadStream(k)' = LoadStream(k)
           /\ \A c : StoredRows(c)' = StoredRows(c)
           /\ Numbered' /\ KeysUnique'
  <1>1. \A k : Rows(k)' = Rows(k)
    BY DEF Rows
  <1>2. ASSUME NEW k \in Keys PROVE StreamVersion(k)' = StreamVersion(k)
    <2>1. PICK n \in Nat : n = StreamVersion(k) /\ {row.seq : row \in Rows(k)} = 1 .. n
      BY DEF Numbered
    <2> DEFINE R == Rows(k)'
    <2>2. {row.seq : row \in R} = 1 .. n
      BY <1>1, <2>1
    <2>3. StreamVersion(k)' = (IF R = {} THEN 0
            ELSE CHOOSE m \in {row.seq : row \in R} : \A row \in R : row.seq <= m)
      BY DEF StreamVersion
    <2> HIDE DEF R
    <2> QED
      BY <2>1, <2>2, <2>3, MaxOfNumbers
  <1>3. Numbered'
    BY <1>1, <1>2 DEF Numbered
  <1>4. KeysUnique'
    BY DEF KeysUnique, SameKey
  <1>5. \A k \in Keys : LoadStream(k)' = LoadStream(k)
    <2> SUFFICES ASSUME NEW k \in Keys
                 PROVE  LoadStream(k)' = LoadStream(k)
      OBVIOUS
    <2>1. StreamFacts /\ StreamFacts'
      BY <1>3, <1>4, LoadStreamIs, LoadStreamIsNext
    <2> DEFINE s == LoadStream(k)
               t == LoadStream(k)'
    <2>2. s \in Seq(EventIds) /\ t \in Seq(EventIds) /\ Len(s) = Len(t) /\ Len(s) = StreamVersion(k)
      BY <1>2, <2>1 DEF StreamFacts
    <2>3. \A i \in 1 .. Len(s) : s[i] = t[i]
      BY <1>1, <1>2, <2>1, <2>2 DEF StreamFacts
    <2> HIDE DEF s, t
    <2>4. s = t
      BY <2>2, <2>3, SeqEqual
    <2> QED
      BY <2>4 DEF s, t
  <1>6. \A c : StoredRows(c)' = StoredRows(c)
    BY DEF StoredRows
  <1> QED
    BY <1>1, <1>2, <1>3, <1>4, <1>5, <1>6

-----------------------------------------------------------------------------
(* Steps that commit nothing *)

(* They keep what is said of the tables, if made calls keep their arguments. *)
LEMMA QuietStep ==
    ASSUME StoreInv, TypeOK', UNCHANGED table,
           \A c \in Calls : stage[c] # "new" => args'[c] = args[c]
    PROVE  /\ IsFiniteSet(table)' /\ Numbered' /\ KeysUnique' /\ OneType' /\ BatchesWhole'
           /\ \A k : Rows(k)' = Rows(k)
           /\ \A k \in Keys : StreamVersion(k)' = StreamVersion(k)
           /\ \A c : StoredRows(c)' = StoredRows(c)
  <1> USE DEF StoreInv
  <1>1. /\ \A k : Rows(k)' = Rows(k)
        /\ \A k \in Keys : StreamVersion(k)' = StreamVersion(k)
        /\ \A k \in Keys : LoadStream(k)' = LoadStream(k)
        /\ \A c : StoredRows(c)' = StoredRows(c)
        /\ Numbered' /\ KeysUnique'
    BY TableSame
  <1>2. OneType'
    BY <1>1 DEF OneType
  <1>3. BatchesWhole'
    <2> SUFFICES ASSUME NEW c \in Calls, StoredRows(c) # {}
                 PROVE  (\E first \in 1 .. Cardinality(table) :
                           /\ StoredRows(c) = {[key |-> args[c].key, seq |-> first + i - 1,
                                  id |-> <<c, i>>, type |-> args[c].type] : i \in 1 .. BatchLen[c]}
                           /\ args[c].expected \in {AnyVersion, first - 1})'
      BY <1>1 DEF BatchesWhole
    <2>1. args'[c] = args[c]
      BY DEF CallsMade, TypeOK
    <2>2. PICK first \in 1 .. Cardinality(table) :
            /\ StoredRows(c) = {[key |-> args[c].key, seq |-> first + i - 1,
                  id |-> <<c, i>>, type |-> args[c].type] : i \in 1 .. BatchLen[c]}
            /\ args[c].expected \in {AnyVersion, first - 1}
      BY Zenon DEF BatchesWhole
    <2>3. StoredRows(c)' = {[key |-> args'[c].key, seq |-> first + i - 1,
            id |-> <<c, i>>, type |-> args'[c].type] : i \in 1 .. BatchLen[c]}
      BY <1>1, <2>1, <2>2
    <2> QED
      BY <2>1, <2>2, <2>3
  <1> QED
    BY <1>1, <1>2, <1>3

(* A call that returns an error, or loses its connection, rolls back. *)
LEMMA ReturnInv ==
    ASSUME StoreInv, NEW c \in Calls, NEW result \in Replies \ {"Ok"},
           stage[c] \in {"check", "insert"}, Return(c, result),
           UNCHANGED <<table, args, tries, base>>
    PROVE  StoreInv'
  <1> USE DEF StoreInv
  <1>1. TypeOK'
    BY DEF TypeOK, Return, Stages
  <1>2. /\ IsFiniteSet(table)' /\ Numbered' /\ KeysUnique' /\ OneType' /\ BatchesWhole'
        /\ \A k : Rows(k)' = Rows(k)
        /\ \A k \in Keys : StreamVersion(k)' = StreamVersion(k)
        /\ \A d : StoredRows(d)' = StoredRows(d)
    BY <1>1, QuietStep
  <1>3. /\ \A d \in Calls : d # c =>
              stage'[d] = stage[d] /\ reply'[d] = reply[d] /\ inserted'[d] = inserted[d]
        /\ stage'[c] = "done" /\ reply'[c] = result /\ inserted'[c] = {}
    BY DEF Return, TypeOK
  <1>4. OpenRows'
    <2> SUFFICES ASSUME NEW d \in Calls
                 PROVE  (/\ IsFiniteSet(inserted[d])
                         /\ Cardinality(inserted[d]) \in 0 .. BatchLen[d]
                         /\ inserted[d] = {RowOf(d, i) : i \in 1 .. Cardinality(inserted[d])}
                         /\ stage[d] # "insert" => inserted[d] = {})'
      BY DEF OpenRows
    <2>1. CASE d = c
      <3>1. IsFiniteSet({}) /\ Cardinality({}) = 0 /\ BatchLen[c] \in Nat
        BY FS_EmptySet, PostgresAssumption
      <3> QED
        BY <1>3, <2>1, <3>1
    <2>2. CASE d # c
      <3>1. \A i : RowOf(d, i)' = RowOf(d, i)
        BY DEF RowOf
      <3> QED
        BY <1>3, <2>2, <3>1 DEF OpenRows
    <2> QED
      BY <2>1, <2>2
  <1>5. OpenFollows'
    <2> SUFFICES ASSUME NEW d \in Calls, stage'[d] = "insert"
                 PROVE  (/\ base[d] <= StreamVersion(args[d].key)
                         /\ args[d].expected \in {AnyVersion, base[d]}
                         /\ inserted[d] # {} =>
                              base[d] = StreamVersion(args[d].key) /\ StoredRows(d) = {}
                         /\ base[d] = StreamVersion(args[d].key) =>
                              \A row \in Rows(args[d].key) : row.type = args[d].type)'
      BY DEF OpenFollows
    <2>1. d # c /\ stage[d] = "insert" /\ args[d].key \in Keys
      BY <1>3 DEF CallsMade, Args
    <2> QED
      BY <1>2, <1>3, <2>1 DEF OpenFollows
  <1>6. OneWriter'
    BY <1>3 DEF OneWriter
  <1>7. CallsMade'
    BY <1>2, <1>3 DEF CallsMade
  <1>8. ReplyTellsOutcome'
    BY <1>2, <1>3 DEF ReplyTellsOutcome, CallsMade
  <1> QED
    BY <1>1, <1>2, <1>4, <1>5, <1>6, <1>7, <1>8

(* A step of c that leaves the transactions, the tables and the arguments  *)
(* of made calls alone, and does not enter the loop of INSERTs.            *)
LEMMA CallerStep ==
    ASSUME StoreInv, TypeOK', NEW c \in Calls,
           UNCHANGED <<table, base, inserted, reply>>,
           stage[c] \in {"new", "done"}, stage' = [stage EXCEPT ![c] = "check"],
           tries' = [tries EXCEPT ![c] = tries'[c]], tries'[c] > tries[c],
           args'[c] \in Args, \A d \in Calls : d # c => args'[d] = args[d],
           stage[c] = "done" => UNCHANGED args
    PROVE  StoreInv'
  <1> USE DEF StoreInv
  <1>1. /\ \A d \in Calls : d # c => stage'[d] = stage[d] /\ tries'[d] = tries[d]
        /\ stage'[c] = "check" /\ tries'[c] \in Nat /\ tries'[c] >= 1 /\ tries[c] \in Nat
    BY DEF TypeOK
  <1>2. /\ IsFiniteSet(table)' /\ Numbered' /\ KeysUnique' /\ OneType' /\ BatchesWhole'
        /\ \A k : Rows(k)' = Rows(k)
        /\ \A k \in Keys : StreamVersion(k)' = StreamVersion(k)
        /\ \A d : StoredRows(d)' = StoredRows(d)
    BY <1>1, QuietStep
  <1>3. inserted[c] = {}
    BY DEF OpenRows
  <1>4. OpenRows'
    <2> SUFFICES ASSUME NEW d \in Calls
                 PROVE  (/\ IsFiniteSet(inserted[d])
                         /\ Cardinality(inserted[d]) \in 0 .. BatchLen[d]
                         /\ inserted[d] = {RowOf(d, i) : i \in 1 .. Cardinality(inserted[d])}
                         /\ stage[d] # "insert" => inserted[d] = {})'
      BY DEF OpenRows
    <2>1. CASE d = c
      <3>1. IsFiniteSet({}) /\ Cardinality({}) = 0 /\ BatchLen[c] \in Nat
        BY FS_EmptySet, PostgresAssumption
      <3> QED
        BY <1>3, <2>1, <3>1
    <2>2. CASE d # c
      <3>1. \A i : RowOf(d, i)' = RowOf(d, i)
        BY <2>2 DEF RowOf
      <3> QED
        BY <1>1, <2>2, <3>1 DEF OpenRows
    <2> QED
      BY <2>1, <2>2
  <1>5. OpenFollows'
    <2> SUFFICES ASSUME NEW d \in Calls, stage'[d] = "insert"
                 PROVE  (/\ base[d] <= StreamVersion(args[d].key)
                         /\ args[d].expected \in {AnyVersion, base[d]}
                         /\ inserted[d] # {} =>
                              base[d] = StreamVersion(args[d].key) /\ StoredRows(d) = {}
                         /\ base[d] = StreamVersion(args[d].key) =>
                              \A row \in Rows(args[d].key) : row.type = args[d].type)'
      BY DEF OpenFollows
    <2>1. d # c /\ stage[d] = "insert" /\ args[d].key \in Keys /\ args'[d] = args[d]
      BY <1>1 DEF CallsMade, Args
    <2> QED
      BY <1>2, <2>1 DEF OpenFollows
  <1>6. OneWriter'
    BY <1>3 DEF OneWriter
  <1>7. CallsMade'
    <2> SUFFICES ASSUME NEW d \in Calls
                 PROVE  (/\ stage[d] # "new" => args[d] \in Args /\ tries[d] >= 1
                         /\ stage[d] = "new" => StoredRows(d) = {} /\ tries[d] = 0
                         /\ stage[d] \in {"check", "insert"} /\ tries[d] = 1 =>
                                StoredRows(d) = {})'
      BY DEF CallsMade
    <2>1. CASE d = c
      <3>1. stage[c] = "done" => tries'[c] # 1
        BY <1>1 DEF CallsMade
      <3> QED
        BY <1>1, <1>2, <2>1, <3>1 DEF CallsMade
    <2>2. CASE d # c
      BY <1>1, <1>2, <2>2 DEF CallsMade
    <2> QED
      BY <2>1, <2>2
  <1>8. ReplyTellsOutcome'
    BY <1>1, <1>2 DEF ReplyTellsOutcome
  <1> QED
    BY <1>1, <1>2, <1>4, <1>5, <1>6, <1>7, <1>8

(* The first call gets its arguments. *)
LEMMA CallInv ==
    ASSUME StoreInv, NEW c \in Calls, Call(c)
    PROVE  StoreInv'
  <1>1. PICK k \in Keys : \E t \in Types : \E u \in {StreamVersion(k), AnyVersion} :
            args' = [args EXCEPT ![c] = [key |-> k, type |-> t, expected |-> u]]
    BY DEF Call
  <1> PICK t \in Types, v \in {StreamVersion(k), AnyVersion} :
            args' = [args EXCEPT ![c] = [key |-> k, type |-> t, expected |-> v]]
    BY <1>1
  <1>2. v \in Nat \cup {AnyVersion}
    BY DEF StoreInv, Numbered
  <1>3. PICK a \in Args : args' = [args EXCEPT ![c] = a]
    BY <1>2 DEF Args
  <1>4. /\ stage' = [stage EXCEPT ![c] = "check"] /\ tries' = [tries EXCEPT ![c] = 1]
        /\ stage[c] = "new" /\ UNCHANGED <<table, base, inserted, reply>>
    BY DEF Call
  <1>5. TypeOK'
    BY <1>3, <1>4 DEF StoreInv, TypeOK, Stages
  <1>6. args'[c] = a /\ \A d \in Calls : d # c => args'[d] = args[d]
    BY <1>3 DEF StoreInv, TypeOK
  <1>7. tries[c] = 0
    BY <1>4 DEF StoreInv, CallsMade
  <1>8. tries'[c] = 1 /\ tries' = [tries EXCEPT ![c] = tries'[c]]
    BY <1>4 DEF StoreInv, TypeOK
  <1>9. /\ stage[c] \in {"new", "done"} /\ (stage[c] = "done" => UNCHANGED args)
        /\ tries'[c] > tries[c] /\ args'[c] \in Args
    BY <1>4, <1>6, <1>7, <1>8
  <1> QED
    BY <1>4, <1>5, <1>6, <1>8, <1>9, CallerStep

(* It is made again with the same ones. *)
LEMMA CallAgainInv ==
    ASSUME StoreInv, NEW c \in Calls, CallAgain(c)
    PROVE  StoreInv'
  <1>1. /\ stage' = [stage EXCEPT ![c] = "check"] /\ tries' = [tries EXCEPT ![c] = @ + 1]
        /\ stage[c] = "done" /\ UNCHANGED <<table, args, base, inserted, reply>>
    BY DEF CallAgain
  <1>2. TypeOK'
    BY <1>1 DEF StoreInv, TypeOK, Stages
  <1>3. tries'[c] > tries[c] /\ tries' = [tries EXCEPT ![c] = tries'[c]]
    BY <1>1 DEF StoreInv, TypeOK
  <1>4. args'[c] \in Args
    BY <1>1 DEF StoreInv, CallsMade
  <1> QED
    BY <1>1, <1>2, <1>3, <1>4, CallerStep

(* A call whose checks pass takes the version it read for its base. *)
LEMMA CheckPassesInv ==
    ASSUME StoreInv, NEW c \in Calls, stage[c] = "check", CheckError(c) = "None",
           base' = [base EXCEPT ![c] = StreamVersion(args[c].key)],
           stage' = [stage EXCEPT ![c] = "insert"],
           UNCHANGED <<table, args, tries, reply, inserted>>
    PROVE  StoreInv'
  <1> USE DEF StoreInv
  <1>1. args[c] \in Args /\ args[c].key \in Keys /\ StreamVersion(args[c].key) \in Nat
    BY DEF CallsMade, Args, Numbered
  <1>2. TypeOK'
    BY <1>1 DEF TypeOK, Stages
  <1>3. /\ IsFiniteSet(table)' /\ Numbered' /\ KeysUnique' /\ OneType' /\ BatchesWhole'
        /\ \A k : Rows(k)' = Rows(k)
        /\ \A k \in Keys : StreamVersion(k)' = StreamVersion(k)
        /\ \A d : StoredRows(d)' = StoredRows(d)
    BY <1>2, QuietStep
  <1>4. /\ \A d \in Calls : d # c => stage'[d] = stage[d] /\ base'[d] = base[d]
        /\ stage'[c] = "insert" /\ base'[c] = StreamVersion(args[c].key)
    BY DEF TypeOK
  <1>5. inserted[c] = {}
    BY DEF OpenRows
  <1>6. OpenRows'
    <2> SUFFICES ASSUME NEW d \in Calls
                 PROVE  (/\ IsFiniteSet(inserted[d])
                         /\ Cardinality(inserted[d]) \in 0 .. BatchLen[d]
                         /\ inserted[d] = {RowOf(d, i) : i \in 1 .. Cardinality(inserted[d])}
                         /\ stage[d] # "insert" => inserted[d] = {})'
      BY DEF OpenRows
    <2>1. CASE d = c
      <3>1. IsFiniteSet({}) /\ Cardinality({}) = 0 /\ BatchLen[c] \in Nat
        BY FS_EmptySet, PostgresAssumption
      <3> QED
        BY <1>4, <1>5, <2>1, <3>1
    <2>2. CASE d # c
      <3>1. \A i : RowOf(d, i)' = RowOf(d, i)
        BY <1>4, <2>2 DEF RowOf
      <3> QED
        BY <1>4, <2>2, <3>1 DEF OpenRows
    <2> QED
      BY <2>1, <2>2
  <1>7. OpenFollows'
    <2> SUFFICES ASSUME NEW d \in Calls, stage'[d] = "insert"
                 PROVE  (/\ base[d] <= StreamVersion(args[d].key)
                         /\ args[d].expected \in {AnyVersion, base[d]}
                         /\ inserted[d] # {} =>
                              base[d] = StreamVersion(args[d].key) /\ StoredRows(d) = {}
                         /\ base[d] = StreamVersion(args[d].key) =>
                              \A row \in Rows(args[d].key) : row.type = args[d].type)'
      BY DEF OpenFollows
    <2>1. CASE d = c
      <3>1. /\ \A row \in Rows(args[c].key) : row.type = args[c].type
            /\ args[c].expected \in {AnyVersion, StreamVersion(args[c].key)}
        BY DEF CheckError
      <3> QED
        BY <1>1, <1>3, <1>4, <1>5, <2>1, <3>1
    <2>2. CASE d # c
      <3>1. stage[d] = "insert" /\ args[d].key \in Keys
        BY <1>4, <2>2 DEF CallsMade, Args
      <3> QED
        BY <1>3, <1>4, <2>2, <3>1 DEF OpenFollows
    <2> QED
      BY <2>1, <2>2
  <1>8. OneWriter'
    BY DEF OneWriter
  <1>9. CallsMade'
    BY <1>3, <1>4 DEF CallsMade
  <1>10. ReplyTellsOutcome'
    BY <1>3, <1>4 DEF ReplyTellsOutcome
  <1> QED
    BY <1>2, <1>3, <1>6, <1>7, <1>8, <1>9, <1>10

(* An INSERT that gets through: with its first row the call is the only    *)
(* writer of its stream, whose version is still the one it read.           *)
LEMMA InsertPassesInv ==
    ASSUME StoreInv, NEW c \in Calls, stage[c] = "insert",
           Cardinality(inserted[c]) < BatchLen[c], ~Waits(c),
           ~ \E row \in table : SameKey(row, NextRow(c)),
           inserted' = [inserted EXCEPT ![c] = @ \cup {NextRow(c)}],
           UNCHANGED <<table, stage, args, tries, base, reply>>
    PROVE  StoreInv'
  <1> USE DEF StoreInv
  <1>1. PICK n \in Nat : n = Cardinality(inserted[c])
    BY FS_CardinalityType DEF OpenRows
  <1>2. args[c] \in Args /\ args[c].key \in Keys
    BY DEF CallsMade, Args
  <1>3. NextRow(c) = RowOf(c, n + 1)
    BY <1>1, NextRowIsRowOf
  <1>4. /\ RowOf(c, n + 1) \in Row
        /\ RowOf(c, n + 1).key = args[c].key /\ RowOf(c, n + 1).seq = base[c] + (n + 1)
        /\ RowOf(c, n + 1).id = <<c, n + 1>>
    BY <1>2, RowOfFields
  <1>5. /\ \A d \in Calls : d # c => inserted'[d] = inserted[d]
        /\ inserted'[c] = inserted[c] \cup {RowOf(c, n + 1)}
    BY <1>3 DEF TypeOK
  <1>6. TypeOK'
    BY <1>3, <1>4 DEF TypeOK
  <1>7. /\ IsFiniteSet(table)' /\ Numbered' /\ KeysUnique' /\ OneType' /\ BatchesWhole'
        /\ \A k : Rows(k)' = Rows(k)
        /\ \A k \in Keys : StreamVersion(k)' = StreamVersion(k)
        /\ \A d : StoredRows(d)' = StoredRows(d)
    BY <1>6, QuietStep
  <1>8. \A d : \A i : RowOf(d, i)' = RowOf(d, i)
    BY DEF RowOf
  <1>9. OpenRows'
    <2> SUFFICES ASSUME NEW d \in Calls
                 PROVE  (/\ IsFiniteSet(inserted[d])
                         /\ Cardinality(inserted[d]) \in 0 .. BatchLen[d]
                         /\ inserted[d] = {RowOf(d, i) : i \in 1 .. Cardinality(inserted[d])}
                         /\ stage[d] # "insert" => inserted[d] = {})'
      BY DEF OpenRows
    <2>1. CASE d = c
      <3>1. RowOf(c, n + 1) \notin inserted[c]
        <4>1. SUFFICES ASSUME NEW i \in 1 .. n, RowOf(c, n + 1) = RowOf(c, i)
                       PROVE  FALSE
          BY <1>1 DEF OpenRows
        <4>2. RowOf(c, i).id = <<c, i>>
          BY <1>2, RowOfFields
        <4> QED
          BY <1>4, <4>1, <4>2
      <3>2. IsFiniteSet(inserted'[c]) /\ Cardinality(inserted'[c]) = n + 1
        BY <1>1, <1>5, <3>1, FS_AddElement DEF OpenRows
      <3>3. BatchLen[c] \in Nat /\ n + 1 \in 0 .. BatchLen[c]
        BY <1>1, PostgresAssumption
      <3>4. inserted'[c] = {RowOf(c, i) : i \in 1 .. n + 1}
        BY <1>1, <1>5 DEF OpenRows
      <3> QED
        BY <1>8, <2>1, <3>2, <3>3, <3>4
    <2>2. CASE d # c
      BY <1>5, <1>8, <2>2 DEF OpenRows
    <2> QED
      BY <2>1, <2>2
  <1>10. base[c] \in Nat /\ StreamVersion(args[c].key) \in Nat
    BY <1>2 DEF Numbered, TypeOK
  <1>11. inserted[c] = {} => base[c] = StreamVersion(args[c].key) /\ StoredRows(c) = {}
    <2> SUFFICES ASSUME inserted[c] = {}
                 PROVE  base[c] = StreamVersion(args[c].key) /\ StoredRows(c) = {}
      OBVIOUS
    <2>1. n = 0
      BY <1>1, FS_EmptySet
    <2>2. \A row \in Rows(args[c].key) : row.seq # base[c] + 1
      BY <1>3, <1>4, <2>1 DEF SameKey, Rows
    <2>3. base[c] + 1 \notin 1 .. StreamVersion(args[c].key)
      BY <1>2, <2>2 DEF Numbered
    <2>4. base[c] <= StreamVersion(args[c].key)
      BY DEF OpenFollows
    <2>5. \A row \in table : row.id # <<c, 1>>
      BY <1>3, <1>4, <2>1 DEF SameKey
    <2>6. StoredRows(c) = {}
      <3> SUFFICES ASSUME StoredRows(c) # {}
                   PROVE  FALSE
        OBVIOUS
      <3>1. PICK first \in 1 .. Cardinality(table) :
              StoredRows(c) = {[key |-> args[c].key, seq |-> first + i - 1,
                  id |-> <<c, i>>, type |-> args[c].type] : i \in 1 .. BatchLen[c]}
        BY Zenon DEF BatchesWhole
      <3>2. 1 \in 1 .. BatchLen[c]
        BY PostgresAssumption
      <3>3. PICK row : row = [key |-> args[c].key, seq |-> first + 1 - 1,
                              id |-> <<c, 1>>, type |-> args[c].type]
        OBVIOUS
      <3>4. row \in StoredRows(c) /\ row.id = <<c, 1>>
        BY <3>1, <3>2, <3>3
      <3> QED
        BY <2>5, <3>4 DEF StoredRows
    <2> QED
      BY <1>10, <2>3, <2>4, <2>6
  <1>12. OpenFollows'
    <2> SUFFICES ASSUME NEW d \in Calls, stage[d] = "insert"
                 PROVE  (/\ base[d] <= StreamVersion(args[d].key)
                         /\ args[d].expected \in {AnyVersion, base[d]}
                         /\ inserted[d] # {} =>
                              base[d] = StreamVersion(args[d].key) /\ StoredRows(d) = {}
                         /\ base[d] = StreamVersion(args[d].key) =>
                              \A row \in Rows(args[d].key) : row.type = args[d].type)'
      BY DEF OpenFollows
    <2>1. args[d].key \in Keys
      BY DEF CallsMade, Args
    <2>2. (inserted[d] # {})' => base[d] = StreamVersion(args[d].key) /\ StoredRows(d) = {}
      BY <1>5, <1>11 DEF OpenFollows
    <2> QED
      BY <1>7, <2>1, <2>2 DEF OpenFollows
  <1>13. OneWriter'
    <2>1. ASSUME NEW d \in Calls, d # c, inserted[d] # {}, inserted[c] = {},
                 args[d].key = args[c].key
          PROVE  FALSE
      <3>1. stage[d] = "insert" /\ args[d] \in Args
        BY <2>1 DEF OpenRows, CallsMade
      <3>2. base[d] = StreamVersion(args[c].key)
        BY <2>1, <3>1 DEF OpenFollows
      <3>3. IsFiniteSet(inserted[d]) /\ Cardinality(inserted[d]) \in Nat /\ Cardinality(inserted[d]) # 0
        BY <2>1, FS_EmptySet, FS_CardinalityType DEF OpenRows
      <3>4. RowOf(d, 1) \in inserted[d]
        BY <3>3 DEF OpenRows
      <3>5. RowOf(d, 1).key = args[c].key /\ RowOf(d, 1).seq = base[d] + 1
        BY <2>1, <3>1, RowOfFields
      <3>6. n = 0
        BY <1>1, <2>1, FS_EmptySet
      <3>7. SameKey(RowOf(d, 1), NextRow(c))
        BY <1>3, <1>4, <1>11, <2>1, <3>2, <3>5, <3>6 DEF SameKey
      <3> QED
        BY <2>1, <3>4, <3>7 DEF Waits
    <2> QED
      BY <1>5, <2>1 DEF OneWriter
  <1>14. CallsMade' /\ ReplyTellsOutcome'
    BY <1>7 DEF CallsMade, ReplyTellsOutcome
  <1> QED
    BY <1>6, <1>7, <1>9, <1>12, <1>13, <1>14

-----------------------------------------------------------------------------
(* COMMIT *)

(* The stream of the call grows by its batch and no other stream changes. *)
LEMMA PublishFacts ==
    ASSUME StoreInv, TypeOK', NEW c \in Calls, AllInserted(c), table' = table \cup inserted[c],
           NEW k, k = args[c].key
    PROVE  /\ k \in Keys /\ args[c] \in Args /\ StoredRows(c) = {}
           /\ base[c] = StreamVersion(k) /\ inserted[c] # {}
           /\ inserted[c] = {RowOf(c, i) : i \in 1 .. BatchLen[c]}
           /\ \A m \in Keys \ {k} : Rows(m)' = Rows(m)
           /\ Rows(k)' = Rows(k) \cup inserted[c]
           /\ \A m \in Keys \ {k} : StreamVersion(m)' = StreamVersion(m)
           /\ StreamVersion(k)' = base[c] + BatchLen[c]
           /\ Numbered' /\ KeysUnique' /\ OneType'
           /\ StoredRows(c)' = inserted[c]
           /\ \A d \in Calls \ {c} : StoredRows(d)' = StoredRows(d)
  <1> USE DEF StoreInv
  <1>1. PICK n \in Nat : n = BatchLen[c] /\ n >= 1 /\ n = Cardinality(inserted[c])
    BY PostgresAssumption DEF AllInserted
  <1>2. PICK b \in Nat : b = base[c]
    BY DEF TypeOK
  <1>3. args[c] \in Args /\ k \in Keys /\ stage[c] = "insert"
    BY DEF AllInserted, CallsMade, Args, TypeOK
  <1>4. inserted[c] = {RowOf(c, i) : i \in 1 .. n} /\ inserted[c] # {}
    BY <1>1, FS_EmptySet DEF OpenRows
  <1>5. b = StreamVersion(k) /\ StoredRows(c) = {}
        /\ \A row \in Rows(k) : row.type = args[c].type
    BY <1>2, <1>3, <1>4 DEF OpenFollows
  <1>6. \A i \in 1 .. n : /\ RowOf(c, i) \in Row /\ RowOf(c, i).key = k
                          /\ RowOf(c, i).seq = b + i /\ RowOf(c, i).id = <<c, i>>
                          /\ RowOf(c, i).type = args[c].type
    BY <1>2, <1>3, RowOfFields
  <1>7. \A r \in inserted[c] : /\ r.key = k /\ r.type = args[c].type
                               /\ \E i \in 1 .. n : r = RowOf(c, i) /\ r.seq = b + i /\ r.id = <<c, i>>
    BY <1>4, <1>6
  <1>8. \A m \in Keys \ {k} : Rows(m)' = Rows(m)
    BY <1>7 DEF Rows
  <1>9. Rows(k)' = Rows(k) \cup inserted[c]
    BY <1>7 DEF Rows
  <1>10. StoredRows(c)' = inserted[c] /\ \A d \in Calls \ {c} : StoredRows(d)' = StoredRows(d)
    <2>1. \A r \in inserted[c] : r.id[1] = c
      BY <1>7
    <2> QED
      BY <1>5, <2>1 DEF StoredRows
  <1>11. {row.seq : row \in Rows(k)} = 1 .. b
    BY <1>3, <1>5 DEF Numbered
  <1>12. {row.seq : row \in Rows(k)'} = 1 .. b + n
    <2>1. \A row \in Rows(k)' : row.seq \in 1 .. b + n
      <3>1. \A row \in Rows(k) : row.seq \in 1 .. b
        BY <1>11
      <3> QED
        BY <1>7, <1>9, <3>1
    <2>2. ASSUME NEW j \in 1 .. b + n
          PROVE  \E row \in Rows(k)' : row.seq = j
      <3>1. CASE j <= b
        <4>1. j \in 1 .. b
          <5> HIDE DEF StoreInv
          <5> QED
            BY <3>1
        <4>2. j \in {row.seq : row \in Rows(k)}
          BY <1>11, <4>1, Zenon
        <4> QED
          BY <1>9, <4>2, Zenon
      <3>2. CASE j > b
        <4>1. PICK i \in 1 .. n : b + i = j
          <5>1. j - b \in 1 .. n /\ b + (j - b) = j
            BY <3>2
          <5> QED
            BY <5>1
        <4> QED
          BY <1>4, <1>6, <1>9, <4>1
      <3> QED
        BY <3>1, <3>2
    <2> QED
      BY <2>1, <2>2
  <1>13. StreamVersion(k)' = b + n
    <2> DEFINE R == Rows(k)'
    <2>1. {row.seq : row \in R} = 1 .. b + n
      BY <1>12
    <2>2. StreamVersion(k)' = (IF R = {} THEN 0
            ELSE CHOOSE m \in {row.seq : row \in R} : \A row \in R : row.seq <= m)
      BY DEF StreamVersion
    <2>3. b + n \in Nat
      <3> HIDE DEF StoreInv
      <3> QED
        OBVIOUS
    <2>4. (IF R = {} THEN 0
           ELSE CHOOSE m \in {row.seq : row \in R} : \A row \in R : row.seq <= m) = b + n
      <3> HIDE DEF R, StoreInv
      <3> QED
        BY <2>1, <2>3, MaxOfNumbers
    <2> HIDE DEF R, StoreInv
    <2> QED
      BY <2>2, <2>4, Zenon
  <1>14. ASSUME NEW m \in Keys \ {k}
         PROVE  StreamVersion(m)' = StreamVersion(m)
    <2>1. PICK v \in Nat : v = StreamVersion(m) /\ {row.seq : row \in Rows(m)} = 1 .. v
      BY DEF Numbered
    <2> DEFINE R == Rows(m)'
    <2>2. {row.seq : row \in R} = 1 .. v
      BY <1>8, <2>1
    <2>3. StreamVersion(m)' = (IF R = {} THEN 0
            ELSE CHOOSE w \in {row.seq : row \in R} : \A row \in R : row.seq <= w)
      BY DEF StreamVersion
    <2> HIDE DEF R
    <2> QED
      BY <2>1, <2>2, <2>3, MaxOfNumbers
  <1>15. Numbered'
    <2> SUFFICES ASSUME NEW m \in Keys
                 PROVE  /\ StreamVersion(m)' \in Nat
                        /\ {row.seq : row \in Rows(m)'} = 1 .. StreamVersion(m)'
      BY DEF Numbered
    <2>1. CASE m = k
      BY <1>12, <1>13, <2>1
    <2>2. CASE m # k
      BY <1>8, <1>14, <2>2 DEF Numbered
    <2> QED
      BY <2>1, <2>2
  <1>16. KeysUnique'
    <2>1. \A r \in inserted[c] : \A s \in inserted[c] : SameKey(r, s) => r = s
      BY <1>7 DEF SameKey
    <2>2. \A r \in inserted[c] : \A s \in table : ~SameKey(r, s)
      <3> SUFFICES ASSUME NEW r \in inserted[c], NEW s \in table, SameKey(r, s)
                   PROVE  FALSE
        OBVIOUS
      <3>1. PICK i \in 1 .. n : r.seq = b + i /\ r.id = <<c, i>> /\ r.key = k
        BY <1>7
      <3>2. CASE r.id = s.id
        BY <1>5, <3>1, <3>2 DEF StoredRows
      <3>3. CASE s.key = k /\ s.seq = b + i
        BY <1>11, <3>3 DEF Rows
      <3> QED
        BY <3>1, <3>2, <3>3 DEF SameKey
    <2>3. \A r, s : SameKey(r, s) => SameKey(s, r)
      BY DEF SameKey
    <2>4. ASSUME NEW r \in table', NEW s \in table', SameKey(r, s)
          PROVE  r = s
      BY <2>1, <2>2, <2>3, <2>4 DEF KeysUnique
    <2> QED
      BY <2>4 DEF KeysUnique, SameKey
  <1>17. OneType'
    <2> SUFFICES ASSUME NEW m \in Keys, NEW r \in Rows(m)', NEW s \in Rows(m)'
                 PROVE  r.type = s.type
      BY DEF OneType
    <2>1. CASE m = k
      BY <1>5, <1>7, <1>9, <2>1
    <2>2. CASE m # k
      BY <1>8, <2>2 DEF OneType
    <2> QED
      BY <2>1, <2>2
  <1> QED
    BY <1>1, <1>2, <1>3, <1>4, <1>5, <1>8, <1>9, <1>10, <1>13, <1>14, <1>15, <1>16, <1>17

(* What load_stream returns after the COMMIT. *)
LEMMA PublishStreams ==
    ASSUME StoreInv, TypeOK', NEW c \in Calls, AllInserted(c), table' = table \cup inserted[c],
           NEW k, k = args[c].key
    PROVE  /\ \A m \in Keys \ {k} : LoadStream(m)' = LoadStream(m)
           /\ LoadStream(k)' = LoadStream(k) \o Batch(c)
           /\ Batch(c) \in Seq(EventIds) /\ Len(Batch(c)) = BatchLen[c]
           /\ \A i \in 1 .. BatchLen[c] : Batch(c)[i] = <<c, i>>
  <1> USE DEF StoreInv
  <1>1. /\ k \in Keys /\ args[c] \in Args
        /\ base[c] = StreamVersion(k)
        /\ inserted[c] = {RowOf(c, i) : i \in 1 .. BatchLen[c]}
        /\ \A m \in Keys \ {k} : Rows(m)' = Rows(m)
        /\ Rows(k)' = Rows(k) \cup inserted[c]
        /\ \A m \in Keys \ {k} : StreamVersion(m)' = StreamVersion(m)
        /\ StreamVersion(k)' = base[c] + BatchLen[c]
        /\ Numbered' /\ KeysUnique'
    BY PublishFacts
  <1>2. StreamFacts /\ StreamFacts'
    BY <1>1, LoadStreamIs, LoadStreamIsNext
  <1>3. PICK n \in Nat : n = BatchLen[c] /\ n >= 1
    BY PostgresAssumption
  <1>4. PICK b \in Nat : b = base[c]
    BY DEF TypeOK
  <1>5. /\ Batch(c) \in Seq(EventIds) /\ Len(Batch(c)) = n
        /\ \A i \in 1 .. n : Batch(c)[i] = <<c, i>>
    <2>1. Batch(c) = [i \in 1 .. n |-> <<c, i>>] /\ \A i \in 1 .. n : <<c, i>> \in EventIds
      BY <1>3 DEF Batch, EventIds
    <2> QED
      BY <2>1
  <1>6. ASSUME NEW m \in Keys \ {k}
        PROVE  LoadStream(m)' = LoadStream(m)
    <2> DEFINE s == LoadStream(m)
               t == LoadStream(m)'
    <2>1. s \in Seq(EventIds) /\ t \in Seq(EventIds) /\ Len(s) = Len(t) /\ Len(s) = StreamVersion(m)
      BY <1>1, <1>2 DEF StreamFacts
    <2>2. \A i \in 1 .. Len(s) : s[i] = t[i]
      BY <1>1, <1>2, <2>1 DEF StreamFacts
    <2> HIDE DEF s, t
    <2>3. s = t
      BY <2>1, <2>2, SeqEqual
    <2> QED
      BY <2>3 DEF s, t
  <1>7. LoadStream(k)' = LoadStream(k) \o Batch(c)
    <2> DEFINE s == LoadStream(k)
               t == LoadStream(k)'
               u == Batch(c)
    <2>1. s \in Seq(EventIds) /\ t \in Seq(EventIds) /\ Len(s) = b /\ Len(t) = b + n
      BY <1>1, <1>2, <1>3, <1>4 DEF StreamFacts
    <2>2. u \in Seq(EventIds) /\ Len(u) = n /\ \A i \in 1 .. n : u[i] = <<c, i>>
      BY <1>5
    <2>3. \A i \in 1 .. b : t[i] = s[i]
      <3> TAKE i \in 1 .. b
      <3>1. PICK row \in Rows(k) : row.seq = i /\ s[i] = row.id
        BY <1>1, <1>2, <1>4 DEF StreamFacts
      <3> QED
        BY <1>1, <1>2, <3>1 DEF StreamFacts
    <2>4. \A i \in 1 .. n : t[b + i] = <<c, i>>
      <3> TAKE i \in 1 .. n
      <3>1. RowOf(c, i) \in Rows(k)'
        BY <1>1, <1>3
      <3>2. RowOf(c, i).seq = b + i /\ RowOf(c, i).id = <<c, i>>
        BY <1>1, <1>4, RowOfFields
      <3> QED
        BY <1>1, <1>2, <3>1, <3>2 DEF StreamFacts
    <2> HIDE DEF s, t, u
    <2>5. /\ s \o u \in Seq(EventIds) /\ Len(s \o u) = b + n
          /\ \A i \in 1 .. b + n : (s \o u)[i] = IF i <= b THEN s[i] ELSE u[i - b]
      BY <2>1, <2>2, ConcatProperties
    <2>6. ASSUME NEW i \in 1 .. b + n
          PROVE  t[i] = (s \o u)[i]
      <3>1. CASE i <= b
        BY <2>3, <2>5, <3>1
      <3>2. CASE i > b
        <4>1. PICK j \in 1 .. n : i = b + j /\ i - b = j
          <5>1. i - b \in 1 .. n /\ i = b + (i - b)
            BY <3>2
          <5> QED
            BY <5>1
        <4>2. (s \o u)[i] = u[j]
          BY <2>5, <3>2, <4>1
        <4>3. t[i] = <<c, j>>
          BY <2>4, <4>1
        <4> QED
          BY <2>2, <4>2, <4>3
      <3>3. i <= b \/ i > b
        OBVIOUS
      <3> QED
        BY <3>1, <3>2, <3>3
    <2>7. t = s \o u
      BY <2>1, <2>5, <2>6, SeqEqual
    <2> QED
      BY <2>7 DEF s, t, u
  <1> QED
    BY <1>3, <1>5, <1>6, <1>7

(* A COMMIT, acknowledged or not. *)
LEMMA PublishInv ==
    ASSUME StoreInv, NEW c \in Calls, NEW result \in {"Ok", "InvalidAppend"},
           AllInserted(c), table' = table \cup inserted[c], Return(c, result),
           UNCHANGED <<args, tries, base>>
    PROVE  StoreInv'
  <1> USE DEF StoreInv
  <1>1. /\ \A d \in Calls : d # c =>
              stage'[d] = stage[d] /\ reply'[d] = reply[d] /\ inserted'[d] = inserted[d]
        /\ stage'[c] = "done" /\ reply'[c] = result /\ inserted'[c] = {}
    BY DEF Return, TypeOK
  <1>2. TypeOK'
    BY DEF TypeOK, Return, Stages, Replies
  <1>3. PICK k : k = args[c].key
    OBVIOUS
  <1>4. /\ k \in Keys /\ args[c] \in Args /\ StoredRows(c) = {}
        /\ base[c] = StreamVersion(k) /\ inserted[c] # {}
        /\ inserted[c] = {RowOf(c, i) : i \in 1 .. BatchLen[c]}
        /\ \A m \in Keys \ {k} : Rows(m)' = Rows(m)
        /\ Rows(k)' = Rows(k) \cup inserted[c]
        /\ \A m \in Keys \ {k} : StreamVersion(m)' = StreamVersion(m)
        /\ StreamVersion(k)' = base[c] + BatchLen[c]
        /\ Numbered' /\ KeysUnique' /\ OneType'
        /\ StoredRows(c)' = inserted[c]
        /\ \A d \in Calls \ {c} : StoredRows(d)' = StoredRows(d)
    BY <1>2, <1>3, PublishFacts
  <1>5. PICK n \in Nat : n = BatchLen[c] /\ n >= 1
    BY PostgresAssumption
  <1>6. PICK b \in Nat : b = base[c]
    BY DEF TypeOK
  <1>7. IsFiniteSet(table)'
    BY FS_Union DEF OpenRows
  <1>8. OpenRows'
    <2> SUFFICES ASSUME NEW d \in Calls
                 PROVE  (/\ IsFiniteSet(inserted[d])
                         /\ Cardinality(inserted[d]) \in 0 .. BatchLen[d]
                         /\ inserted[d] = {RowOf(d, i) : i \in 1 .. Cardinality(inserted[d])}
                         /\ stage[d] # "insert" => inserted[d] = {})'
      BY DEF OpenRows
    <2>1. CASE d = c
      <3>1. IsFiniteSet({}) /\ Cardinality({}) = 0
        BY FS_EmptySet
      <3> QED
        BY <1>1, <1>5, <2>1, <3>1
    <2>2. CASE d # c
      <3>1. \A i : RowOf(d, i)' = RowOf(d, i)
        BY DEF RowOf
      <3> QED
        BY <1>1, <2>2, <3>1 DEF OpenRows
    <2> QED
      BY <2>1, <2>2
  <1>9. OpenFollows'
    <2> SUFFICES ASSUME NEW d \in Calls, stage'[d] = "insert"
                 PROVE  (/\ base[d] <= StreamVersion(args[d].key)
                         /\ args[d].expected \in {AnyVersion, base[d]}
                         /\ inserted[d] # {} =>
                              base[d] = StreamVersion(args[d].key) /\ StoredRows(d) = {}
                         /\ base[d] = StreamVersion(args[d].key) =>
                              \A row \in Rows(args[d].key) : row.type = args[d].type)'
      BY DEF OpenFollows
    <2>1. d # c /\ stage[d] = "insert" /\ args[d].key \in Keys /\ base[d] \in Nat
      BY <1>1 DEF CallsMade, Args, TypeOK
    <2>2. CASE args[d].key = k
      <3>1. inserted'[d] = {}
        BY <1>1, <1>3, <1>4, <2>1, <2>2 DEF OneWriter
      <3>2. base[d] <= b /\ args[d].expected \in {AnyVersion, base[d]}
        BY <1>4, <1>6, <2>1, <2>2 DEF OpenFollows
      <3>3. base[d] < StreamVersion(k)'
        BY <1>4, <1>5, <1>6, <2>1, <3>2
      <3>4. StreamVersion(k)' \in Nat
        BY <1>4, <1>5, <1>6
      <3> QED
        BY <2>1, <2>2, <3>1, <3>2, <3>3, <3>4
    <2>3. CASE args[d].key # k
      <3>1. /\ Rows(args[d].key)' = Rows(args[d].key)
            /\ StreamVersion(args[d].key)' = StreamVersion(args[d].key)
            /\ StoredRows(d)' = StoredRows(d) /\ inserted'[d] = inserted[d]
        BY <1>1, <1>4, <2>1, <2>3
      <3> QED
        BY <2>1, <3>1 DEF OpenFollows
    <2> QED
      BY <2>2, <2>3
  <1>10. OneWriter'
    BY <1>1 DEF OneWriter
  <1>11. CallsMade'
    BY <1>1, <1>4 DEF CallsMade, AllInserted
  <1>12. ReplyTellsOutcome'
    BY <1>1, <1>4 DEF ReplyTellsOutcome
  <1>13. BatchesWhole'
    <2> DEFINE Whole(d, f, S) ==
                 /\ S = {[key |-> args[d].key, seq |-> f + i - 1, id |-> <<d, i>>,
                          type |-> args[d].type] : i \in 1 .. BatchLen[d]}
                 /\ args[d].expected \in {AnyVersion, f - 1}
    <2>1. Cardinality(table) \in Nat /\ Cardinality(table') \in Nat
          /\ Cardinality(table) <= Cardinality(table')
      BY <1>7, FS_CardinalityType, FS_Subset
    <2>2. ASSUME NEW d \in Calls \ {c}, StoredRows(d)' # {}
          PROVE  \E f \in 1 .. Cardinality(table') : Whole(d, f, StoredRows(d)')
      <3>1. \E f \in 1 .. Cardinality(table) : Whole(d, f, StoredRows(d))
        BY <1>4, <2>2, Zenon DEF BatchesWhole
      <3>2. StoredRows(d)' = StoredRows(d)
        BY <1>4
      <3> HIDE DEF Whole
      <3> QED
        BY <2>1, <3>1, <3>2
    <2>3. \E f \in 1 .. Cardinality(table') : Whole(c, f, StoredRows(c)')
      <3>1. b + 1 \in 1 .. Cardinality(table')
        <4> DEFINE R == Rows(k)'
        <4>0. {row.seq : row \in R} = 1 .. b + n
          BY <1>4, <1>5, <1>6 DEF Numbered
        <4>1. \A r, s \in R : r.seq = s.seq => r = s
          BY <1>4 DEF KeysUnique, SameKey, Rows
        <4>2. R \subseteq table'
          BY DEF Rows
        <4> HIDE DEF R
        <4>3. Cardinality(R) = b + n
          <5>1. PICK m \in Nat : m = b + n
            BY <1>5
          <5>2. Cardinality(R) = m
            BY <4>0, <4>1, <5>1, CountOfNumbers
          <5> QED
            BY <5>1, <5>2
        <4>4. b + n <= Cardinality(table')
          BY <1>7, <4>2, <4>3, FS_Subset
        <4> QED
          BY <1>5, <2>1, <4>4
      <3>2. \A i \in 1 .. n : RowOf(c, i) = [key |-> args[c].key, seq |-> (b + 1) + i - 1,
                                            id |-> <<c, i>>, type |-> args[c].type]
        <4> TAKE i \in 1 .. n
        <4>1. (b + 1) + i - 1 = base[c] + i
          BY <1>6
        <4> QED
          BY <4>1 DEF RowOf
      <3>3. StoredRows(c)' = {[key |-> args[c].key, seq |-> (b + 1) + i - 1, id |-> <<c, i>>,
                               type |-> args[c].type] : i \in 1 .. BatchLen[c]}
        BY <1>4, <1>5, <3>2
      <3>4. args[c].expected \in {AnyVersion, (b + 1) - 1}
        BY <1>6 DEF OpenFollows, AllInserted
      <3>5. Whole(c, b + 1, StoredRows(c)')
        BY <3>3, <3>4
      <3> QED
        BY <3>1, <3>5
    <2>4. \A d \in Calls : StoredRows(d)' # {} =>
              \E f \in 1 .. Cardinality(table') : Whole(d, f, StoredRows(d)')
      <3> HIDE DEF Whole
      <3> QED
        BY <2>2, <2>3
    <2>5. ASSUME NEW d \in Calls, StoredRows(d)' # {}
          PROVE  \E first \in 1 .. Cardinality(table') :
                   /\ StoredRows(d)' = {[key |-> args'[d].key, seq |-> first + i - 1,
                        id |-> <<d, i>>, type |-> args'[d].type] : i \in 1 .. BatchLen[d]}
                   /\ args'[d].expected \in {AnyVersion, first - 1}
      <3>1. PICK f \in 1 .. Cardinality(table') : Whole(d, f, StoredRows(d)')
        BY <2>4, <2>5
      <3> QED
        BY <3>1
    <2> QED
      BY <2>5, Zenon DEF BatchesWhole
  <1> QED
    BY <1>2, <1>4, <1>7, <1>8, <1>9, <1>10, <1>11, <1>12, <1>13

-----------------------------------------------------------------------------
(* The invariant *)

(* Nothing is stored and no call is made. *)
LEMMA InitInv == Init => StoreInv
  <1> SUFFICES ASSUME Init PROVE StoreInv
    OBVIOUS
  <1> USE DEF Init
  <1>1. TypeOK
    BY DEF TypeOK, Stages, Replies
  <1>2. \A k : Rows(k) = {} /\ StreamVersion(k) = 0
    BY DEF Rows, StreamVersion
  <1>3. Numbered /\ KeysUnique /\ OneType
    BY <1>2 DEF Numbered, KeysUnique, OneType
  <1>4. \A c : StoredRows(c) = {}
    BY DEF StoredRows
  <1>5. OpenRows
    <2>1. \A c \in Calls : BatchLen[c] \in Nat
      BY PostgresAssumption
    <2> QED
      BY <2>1, FS_EmptySet DEF OpenRows
  <1>6. OpenFollows /\ OneWriter /\ CallsMade
    BY <1>4 DEF OpenFollows, OneWriter, CallsMade
  <1>7. BatchesWhole
    BY <1>4, Zenon DEF BatchesWhole
  <1>8. ReplyTellsOutcome
    BY DEF ReplyTellsOutcome
  <1>9. IsFiniteSet(table)
    BY FS_EmptySet
  <1> QED
    BY <1>1, <1>3, <1>5, <1>6, <1>7, <1>8, <1>9 DEF StoreInv

(* check_stream_version and the checks that follow it. *)
LEMMA CheckStreamVersionInv ==
    ASSUME StoreInv, NEW c \in Calls, CheckStreamVersion(c)
    PROVE  StoreInv'
  <1>1. stage[c] = "check" /\ UNCHANGED <<table, args, tries>>
    BY DEF CheckStreamVersion
  <1>2. CASE CheckError(c) = "None"
    BY <1>1, <1>2, CheckPassesInv DEF CheckStreamVersion
  <1>3. CASE CheckError(c) # "None"
    <2>1. CheckError(c) \in Replies \ {"Ok"}
      BY <1>3 DEF CheckError, Replies
    <2>2. Return(c, CheckError(c)) /\ UNCHANGED base
      BY <1>3 DEF CheckStreamVersion
    <2> QED
      BY <1>1, <2>1, <2>2, ReturnInv
  <1> QED
    BY <1>2, <1>3

(* One INSERT. *)
LEMMA InsertEventInv ==
    ASSUME StoreInv, NEW c \in Calls, InsertEvent(c)
    PROVE  StoreInv'
  <1>1. /\ stage[c] = "insert" /\ Cardinality(inserted[c]) < BatchLen[c] /\ ~Waits(c)
        /\ UNCHANGED <<table, args, tries, base>>
    BY DEF InsertEvent
  <1>2. CASE \E row \in table : SameKey(row, NextRow(c))
    <2>1. Return(c, "Concurrency")
      BY <1>2 DEF InsertEvent
    <2>2. "Concurrency" \in Replies \ {"Ok"}
      BY DEF Replies
    <2> QED
      BY <1>1, <2>1, <2>2, ReturnInv
  <1>3. CASE ~ \E row \in table : SameKey(row, NextRow(c))
    <2>1. inserted' = [inserted EXCEPT ![c] = @ \cup {NextRow(c)}] /\ UNCHANGED <<stage, reply>>
      BY <1>3 DEF InsertEvent
    <2> QED
      BY <1>1, <1>3, <2>1, InsertPassesInv
  <1> QED
    BY <1>2, <1>3

(* Every step keeps the invariant. *)
LEMMA NextInv ==
    ASSUME StoreInv, [Next]_vars
    PROVE  StoreInv'
  <1>1. ASSUME NEW c \in Calls, Call(c) PROVE StoreInv'
    BY <1>1, CallInv
  <1>2. ASSUME NEW c \in Calls, CallAgain(c) PROVE StoreInv'
    BY <1>2, CallAgainInv
  <1>3. ASSUME NEW c \in Calls, CheckStreamVersion(c) PROVE StoreInv'
    BY <1>3, CheckStreamVersionInv
  <1>4. ASSUME NEW c \in Calls, InsertEvent(c) PROVE StoreInv'
    BY <1>4, InsertEventInv
  <1>5. ASSUME NEW c \in Calls, Commit(c) PROVE StoreInv'
    BY <1>5, PublishInv DEF Commit
  <1>6. ASSUME NEW c \in Calls, CommitUnacknowledged(c) PROVE StoreInv'
    BY <1>6, PublishInv DEF CommitUnacknowledged
  <1>7. ASSUME NEW c \in Calls, Break(c) PROVE StoreInv'
    <2>1. "InvalidAppend" \in Replies \ {"Ok"}
      BY DEF Replies
    <2> QED
      BY <1>7, <2>1, ReturnInv DEF Break
  <1>9. CASE UNCHANGED vars
    <2>1. UNCHANGED <<table, stage, args, tries, base, inserted, reply>>
      BY <1>9 DEF vars
    <2>2. TypeOK'
      BY <2>1 DEF StoreInv, TypeOK
    <2>3. /\ IsFiniteSet(table)' /\ Numbered' /\ KeysUnique' /\ OneType' /\ BatchesWhole'
          /\ \A m : Rows(m)' = Rows(m)
          /\ \A m \in Keys : StreamVersion(m)' = StreamVersion(m)
          /\ \A d : StoredRows(d)' = StoredRows(d)
      BY <2>1, <2>2, QuietStep
    <2>4. OpenRows'
      <3>1. \A d : \A i : RowOf(d, i)' = RowOf(d, i)
        BY <2>1 DEF RowOf
      <3> QED
        BY <2>1, <3>1 DEF StoreInv, OpenRows
    <2>5. OpenFollows'
      <3>1. \A d \in Calls : stage[d] = "insert" => args[d].key \in Keys
        BY DEF StoreInv, CallsMade, Args
      <3> QED
        BY <2>1, <2>3, <3>1 DEF StoreInv, OpenFollows
    <2>6. OneWriter' /\ CallsMade' /\ ReplyTellsOutcome'
      BY <2>1, <2>3 DEF StoreInv, OneWriter, CallsMade, ReplyTellsOutcome
    <2> QED
      BY <2>2, <2>3, <2>4, <2>5, <2>6 DEF StoreInv
  <1> QED
    BY <1>1, <1>2, <1>3, <1>4, <1>5, <1>6, <1>7, <1>9 DEF Next, CallStep

(***************************************************************************)
(* The invariant of append_events: open transactions hold the first rows   *)
(* of their batches, and at most one has rows of a stream.                 *)
(***************************************************************************)
THEOREM StoreInvariance == Spec => []StoreInv
  BY InitInv, NextInv, PTL DEF Spec

(***************************************************************************)
(* Streams have no holes and consist of whole batches, each stored once,   *)
(* whatever appends overlap, break or are called again.                    *)
(***************************************************************************)
THEOREM WholeStreams == Spec => []StreamsWhole
  <1>1. StoreInv => StreamsWhole
    <2> SUFFICES ASSUME StoreInv, NEW k \in Keys
                 PROVE  /\ {row.seq : row \in Rows(k)} = 1 .. Cardinality(Rows(k))
                        /\ \A r, s \in Rows(k) : r.type = s.type
      BY DEF StreamsWhole, StreamsGapFree, StoreInv
    <2>1. {row.seq : row \in Rows(k)} = 1 .. StreamVersion(k) /\ StreamVersion(k) \in Nat
      BY DEF StoreInv, Numbered
    <2>2. \A r, s \in Rows(k) : r.seq = s.seq => r = s
      BY DEF StoreInv, KeysUnique, SameKey, Rows
    <2>3. Cardinality(Rows(k)) = StreamVersion(k)
      BY <2>1, <2>2, CountOfNumbers
    <2> QED
      BY <2>1, <2>3 DEF StoreInv, OneType
  <1> QED
    BY <1>1, StoreInvariance, PTL

(***************************************************************************)
(* A caller that is told Ok has its batch stored; one that is refused at   *)
(* its first call has stored nothing.                                      *)
(***************************************************************************)
THEOREM RepliesAreTrue == Spec => []ReplyTellsOutcome
  BY StoreInvariance, PTL DEF StoreInv

-----------------------------------------------------------------------------
(* The refinement of EventLog *)

(* The streams as readers see them. *)
Streams == [k \in Keys |-> LoadStream(k)]

(* A COMMIT is an append of the whole batch, of events no stream has. *)
LEMMA PublishAppends ==
    ASSUME StoreInv, StoreInv', NEW c \in Calls, AllInserted(c), table' = table \cup inserted[c]
    PROVE  Log!Next
  <1>1. PICK k : k = args[c].key
    OBVIOUS
  <1>2. k \in Keys /\ StoredRows(c) = {}
    BY <1>1, PublishFacts DEF StoreInv
  <1>3. /\ \A m \in Keys \ {k} : LoadStream(m)' = LoadStream(m)
        /\ LoadStream(k)' = LoadStream(k) \o Batch(c)
        /\ Batch(c) \in Seq(EventIds) /\ Len(Batch(c)) = BatchLen[c]
        /\ \A i \in 1 .. BatchLen[c] : Batch(c)[i] = <<c, i>>
    BY <1>1, PublishStreams DEF StoreInv
  <1>4. StreamFacts
    BY LoadStreamIs DEF StoreInv
  <1>5. ASSUME NEW m \in Keys, NEW i \in 1 .. Len(Streams[m]), NEW j \in 1 .. Len(Batch(c))
        PROVE  Streams[m][i] # Batch(c)[j]
    <2>1. Streams[m] = LoadStream(m) /\ i \in 1 .. StreamVersion(m)
      BY <1>4 DEF Streams, StreamFacts
    <2>2. PICK row \in Rows(m) : LoadStream(m)[i] = row.id
      BY <1>4, <2>1 DEF StreamFacts
    <2>3. row.id[1] # c
      BY <1>2 DEF Rows, StoredRows
    <2>4. Batch(c)[j] = <<c, j>>
      BY <1>3
    <2> QED
      BY <2>1, <2>2, <2>3, <2>4
  <1>6. Streams' = [Streams EXCEPT ![k] = @ \o Batch(c)]
    BY <1>2, <1>3 DEF Streams
  <1>7. Log!Append1(k, Batch(c))
    BY <1>5, <1>6 DEF Log!Append1, Streams
  <1> QED
    BY <1>2, <1>7 DEF Log!Next

(***************************************************************************)
(* append_events implements the event log: readers see each batch appear   *)
(* as a whole at its COMMIT, at the end of its stream, once; every other   *)
(* step changes nothing they see.                                          *)
(***************************************************************************)
THEOREM LogRefinement == Spec => ImplementsLog
  <1>1. Init => Log!Init
    <2> SUFFICES ASSUME Init PROVE Streams = [k \in Keys |-> <<>>]
      BY DEF Log!Init, Streams
    <2>1. ASSUME NEW k \in Keys PROVE LoadStream(k) = <<>>
      <3>1. StoreInv
        BY InitInv
      <3>2. StreamVersion(k) = 0
        BY DEF Init, StreamVersion, Rows
      <3>3. LoadStream(k) \in Seq(EventIds) /\ Len(LoadStream(k)) = 0
        BY <3>1, <3>2, LoadStreamIs DEF StoreInv, StreamFacts
      <3> QED
        BY <3>3
    <2> QED
      BY <2>1 DEF Streams
  <1>2. ASSUME StoreInv, StoreInv', [Next]_vars
        PROVE  [Log!Next]_Streams
    <2>1. ASSUME UNCHANGED table PROVE UNCHANGED Streams
      <3>1. \A k \in Keys : LoadStream(k)' = LoadStream(k)
        BY <1>2, <2>1, TableSame DEF StoreInv
      <3> QED
        BY <3>1 DEF Streams
    <2>2. ASSUME NEW c \in Calls, Commit(c) \/ CommitUnacknowledged(c)
          PROVE  Log!Next
      BY <1>2, <2>2, PublishAppends DEF Commit, CommitUnacknowledged
    <2>3. ASSUME NEW c \in Calls, Call(c) \/ CallAgain(c) \/ CheckStreamVersion(c)
                                    \/ InsertEvent(c) \/ Break(c)
          PROVE  UNCHANGED table
      BY <2>3 DEF Call, CallAgain, CheckStreamVersion, InsertEvent, Break
    <2>5. CASE UNCHANGED vars
      BY <2>1, <2>5 DEF vars
    <2> QED
      BY <1>2, <2>1, <2>2, <2>3, <2>5 DEF Next, CallStep
  <1> QED
    BY <1>1, <1>2, StoreInvariance, PTL DEF Spec, ImplementsLog, Log!Spec, Streams

=============================================================================
