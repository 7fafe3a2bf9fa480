------------------------- MODULE RedisStreamsProofs -------------------------
(***************************************************************************)
(* Proof that a persistent row never contains an event twice, for any      *)
(* number of instances, restarts, redeliveries and lost replies.           *)
(*                                                                         *)
(* The argument: an entry of the stream is pending with one consumer for   *)
(* ever (nothing is acknowledged and no consumer claims another's), so     *)
(* only that consumer can apply it (Owned).  Every number in a row is that *)
(* of an entry pending with a consumer that has run, and while it runs its *)
(* cursor is at or past the number (RowsHaveOwners).  So when a cursor     *)
(* lets a number through, the consumer itself has not applied it, and      *)
(* nobody else can have.                                                   *)
(***************************************************************************)
EXTENDS RedisStreams, FiniteSetTheorems, TLAPS

-----------------------------------------------------------------------------
(* What the operators on sequences list. *)

(* No element is twice in a list. *)
Distinct(s) == \A i, j \in 1 .. Len(s) : s[i] = s[j] => i = j

(* Ascending lists each member of a finite set of numbers once: as many    *)
(* members are smaller than one as its place says, so places and members   *)
(* correspond one to one.                                                  *)
LEMMA AscendingLists ==
    ASSUME NEW S \in SUBSET Nat, IsFiniteSet(S)
    PROVE  /\ Ascending(S) \in Seq(S) /\ Distinct(Ascending(S))
           /\ ToSet(Ascending(S)) = S
  <1> DEFINE Smaller(c) == {d \in S : d < c}
             n == Cardinality(S)
             rank == [c \in S |-> Cardinality(Smaller(c))]
             l == Ascending(S)
  <1>1. n \in Nat /\ \A c \in S : c \in Nat
    BY FS_CardinalityType
  <1>2. ASSUME NEW c \in S PROVE IsFiniteSet(Smaller(c)) /\ rank[c] \in 0 .. n - 1
    <2>1. IsFiniteSet(Smaller(c)) /\ Cardinality(Smaller(c)) <= n
          /\ (n = Cardinality(Smaller(c)) => S = Smaller(c))
      BY FS_Subset
    <2>2. c \notin Smaller(c)
      OBVIOUS
    <2>3. Cardinality(Smaller(c)) \in Nat /\ Cardinality(Smaller(c)) # n
      BY <2>1, <2>2, FS_CardinalityType
    <2> QED
      BY <1>1, <2>1, <2>3
  <1>3. ASSUME NEW c \in S, NEW d \in S, c < d PROVE rank[c] < rank[d]
    <2> c \in Nat /\ d \in Nat
      BY <1>1
    <2>0. ASSUME NEW x \in S, x < c PROVE x < d
      <3>1. x \in Nat
        BY <1>1
      <3> QED
        BY <1>3, <2>0, <3>1
    <2>1. Smaller(c) \subseteq Smaller(d)
      BY <2>0
    <2>2. c \in Smaller(d) /\ ~ c < c
      BY <1>3
    <2>3. /\ Cardinality(Smaller(c)) <= Cardinality(Smaller(d))
          /\ (Cardinality(Smaller(d)) = Cardinality(Smaller(c)) => Smaller(d) = Smaller(c))
      BY <1>2, <2>1, FS_Subset
    <2>4. Smaller(d) # Smaller(c)
      BY <2>2
    <2>5. rank[c] \in Nat /\ rank[d] \in Nat
      <3>1. rank[c] \in 0 .. n - 1 /\ rank[d] \in 0 .. n - 1
        BY <1>2
      <3> HIDE DEF n, rank
      <3> QED
        BY <1>1, <3>1
    <2> HIDE DEF Smaller
    <2> QED
      BY <2>3, <2>4, <2>5
  <1>4. rank \in Injection(S, 0 .. n - 1)
    <2>1. rank \in [S -> 0 .. n - 1]
      BY <1>2
    <2>2. \A c, d \in S : rank[c] = rank[d] => c = d
      <3> HIDE DEF rank
      <3>1. \A c, d \in Nat : c < d \/ d < c \/ c = d
        OBVIOUS
      <3>2. \A c \in S : rank[c] \in 0 .. n - 1
        BY <1>2
      <3> HIDE DEF n
      <3>3. \A c \in S : rank[c] \in Nat
        BY <1>1, <3>2
      <3> QED
        BY <1>1, <1>3, <3>1, <3>3
    <2> HIDE DEF rank
    <2> QED
      BY <2>1, <2>2, Zenon DEF Injection, IsInjective
  <1>5. IsFiniteSet(0 .. n - 1) /\ Cardinality(0 .. n - 1) = n
    <2> HIDE DEF n
    <2>1. n - 1 \in Int /\ (0 > n - 1 => n = 0) /\ (n - 1) - 0 + 1 = n
      BY <1>1
    <2> QED
      BY <1>1, <2>1, FS_Interval
  <1>6. rank \in Surjection(S, 0 .. n - 1)
    <2> HIDE DEF rank
    <2> QED
      BY <1>4, <1>5, FS_Injection
  <1>7. \A r \in 0 .. n - 1 : \E c \in S : rank[c] = r
    <2> HIDE DEF rank
    <2> QED
      BY <1>6, Zenon DEF Surjection
  <1>8. ASSUME NEW i \in 1 .. n PROVE l[i] \in S /\ rank[l[i]] = i - 1
    <2>1. i - 1 \in 0 .. n - 1
      BY <1>1
    <2>2. \E c \in S : Cardinality(Smaller(c)) = i - 1
      BY <1>7, <2>1
    <2>3. l[i] = CHOOSE c \in S : Cardinality(Smaller(c)) = i - 1
      BY DEF Ascending
    <2> HIDE DEF l
    <2> QED
      BY <2>2, <2>3
  <1>9. l \in [1 .. n -> S] /\ DOMAIN l = 1 .. n
    BY <1>8 DEF Ascending
  <1>10. l \in Seq(S) /\ Len(l) = n
    <2> HIDE DEF l, n
    <2> QED
      BY <1>1, <1>9
  <1>11. Distinct(l)
    <2> HIDE DEF l, n, rank
    <2> QED
      BY <1>1, <1>8, <1>10 DEF Distinct
  <1>12. ASSUME NEW c \in S PROVE \E i \in 1 .. n : l[i] = c
    <2>1. rank[c] \in 0 .. n - 1 /\ rank[c] + 1 \in 1 .. n /\ rank[c] + 1 - 1 = rank[c]
      BY <1>1, <1>2
    <2>2. \A d \in S : rank[d] = rank[c] => d = c
      BY <1>4, Zenon DEF Injection, IsInjective
    <2> HIDE DEF l, n, rank
    <2>3. PICK i \in 1 .. n : i - 1 = rank[c]
      BY <2>1
    <2> QED
      BY <1>8, <2>2, <2>3
  <1>13. ToSet(l) = S
    <2> HIDE DEF l, n, rank
    <2> QED
      BY <1>8, <1>9, <1>12 DEF ToSet
  <1> QED
    BY <1>10, <1>11, <1>13

(* A filter keeps members of the list, in a list, and only those wanted. *)
LEMMA KeepingKeeps ==
    ASSUME NEW T, NEW s \in Seq(T), NEW S
    PROVE  /\ Keeping(s, S) \in Seq(T)
           /\ ToSet(Keeping(s, S)) = ToSet(s) \cap S
  <1> DEFINE P == {i \in 1 .. Len(s) : s[i] \in S}
             l == Ascending(P)
             k == Keeping(s, S)
  <1>1. Len(s) \in Nat /\ DOMAIN s = 1 .. Len(s) /\ \A i \in 1 .. Len(s) : s[i] \in T
    OBVIOUS
  <1>2. P \in SUBSET Nat /\ P \subseteq 1 .. Len(s)
    BY <1>1
  <1>3. IsFiniteSet(1 .. Len(s))
    <2>1. 1 \in Int /\ Len(s) \in Int
      BY <1>1
    <2> QED
      BY <2>1, FS_Interval
  <1>4. IsFiniteSet(P)
    BY <1>2, <1>3, FS_Subset
  <1>5. l \in Seq(P) /\ ToSet(l) = P
    <2> HIDE DEF P
    <2> QED
      BY <1>2, <1>4, AscendingLists
  <1>6. k = [n \in 1 .. Len(l) |-> s[l[n]]]
    BY DEF Keeping
  <1> HIDE DEF l, k
  <1>7. Len(l) \in Nat /\ DOMAIN l = 1 .. Len(l) /\ \A n \in 1 .. Len(l) : l[n] \in P
    <2> HIDE DEF P
    <2> QED
      BY <1>5
  <1>8. \A n \in 1 .. Len(l) : k[n] \in T /\ k[n] \in S /\ k[n] \in ToSet(s)
    BY <1>1, <1>6, <1>7 DEF ToSet
  <1>9. k \in [1 .. Len(l) -> T] /\ DOMAIN k = 1 .. Len(l)
    BY <1>6, <1>8
  <1>10. k \in Seq(T)
    BY <1>7, <1>9
  <1>11. ToSet(k) \subseteq ToSet(s) \cap S
    BY <1>8, <1>9 DEF ToSet
  <1>12. ToSet(s) \cap S \subseteq ToSet(k)
    <2> SUFFICES ASSUME NEW i \in 1 .. Len(s), s[i] \in S PROVE s[i] \in ToSet(k)
      BY <1>1 DEF ToSet
    <2>1. i \in ToSet(l)
      BY <1>5
    <2>2. PICK n \in 1 .. Len(l) : l[n] = i
      BY <1>7, <2>1 DEF ToSet
    <2>3. k[n] = s[i]
      BY <1>6, <2>2
    <2> QED
      BY <1>9, <2>3 DEF ToSet
  <1> QED
    BY <1>10, <1>11, <1>12 DEF k

(* A sequence over a set is one over every larger set. *)
LEMMA SeqWidens ==
    ASSUME NEW S, NEW T, S \subseteq T, NEW s \in Seq(S)
    PROVE  s \in Seq(T)
  <1>1. Len(s) \in Nat /\ s \in [1 .. Len(s) -> S]
    OBVIOUS
  <1>2. s \in [1 .. Len(s) -> T]
    BY <1>1
  <1> QED
    BY <1>1, <1>2

(* A concatenation lists what both parts list. *)
LEMMA ConcatLists ==
    ASSUME NEW T, NEW s \in Seq(T), NEW t \in Seq(T)
    PROVE  s \o t \in Seq(T) /\ ToSet(s \o t) = ToSet(s) \cup ToSet(t)
  <1>1. /\ Len(s) \in Nat /\ Len(t) \in Nat
        /\ DOMAIN s = 1 .. Len(s) /\ DOMAIN t = 1 .. Len(t)
        /\ s \o t \in Seq(T) /\ Len(s \o t) = Len(s) + Len(t)
        /\ DOMAIN (s \o t) = 1 .. Len(s) + Len(t)
    OBVIOUS
  <1>2. \A i \in 1 .. Len(s) + Len(t) :
            (s \o t)[i] = IF i <= Len(s) THEN s[i] ELSE t[i - Len(s)]
    OBVIOUS
  <1> DEFINE u == s \o t
  <1> HIDE DEF u
  <1>3. ASSUME NEW i \in DOMAIN u PROVE u[i] \in ToSet(s) \cup ToSet(t)
    <2>1. i \in 1 .. Len(s) + Len(t)
      BY <1>1 DEF u
    <2>2. CASE i <= Len(s)
      <3>1. i \in 1 .. Len(s) /\ u[i] = s[i]
        BY <1>1, <1>2, <2>1, <2>2 DEF u
      <3> QED
        BY <1>1, <3>1 DEF ToSet
    <2>3. CASE ~ i <= Len(s)
      <3>1. i - Len(s) \in 1 .. Len(t) /\ u[i] = t[i - Len(s)]
        BY <1>1, <1>2, <2>1, <2>3 DEF u
      <3> QED
        BY <1>1, <3>1 DEF ToSet
    <2> QED
      BY <2>2, <2>3
  <1>4. ASSUME NEW i \in 1 .. Len(s) PROVE s[i] \in ToSet(u)
    <2>1. i \in DOMAIN u /\ u[i] = s[i]
      BY <1>1, <1>2 DEF u
    <2> QED
      BY <2>1 DEF ToSet
  <1>5. ASSUME NEW i \in 1 .. Len(t) PROVE t[i] \in ToSet(u)
    <2>1. i + Len(s) \in DOMAIN u /\ u[i + Len(s)] = t[i]
      BY <1>1, <1>2 DEF u
    <2> QED
      BY <2>1 DEF ToSet
  <1>6. ToSet(u) = ToSet(s) \cup ToSet(t)
    BY <1>1, <1>3, <1>4, <1>5 DEF ToSet
  <1> QED
    BY <1>1, <1>6 DEF u

(* A reversed list lists the same. *)
LEMMA ReverseLists ==
    ASSUME NEW T, NEW s \in Seq(T)
    PROVE  Reverse(s) \in Seq(T) /\ ToSet(Reverse(s)) = ToSet(s)
  <1> DEFINE r == Reverse(s)
  <1>1. Len(s) \in Nat /\ DOMAIN s = 1 .. Len(s) /\ \A i \in 1 .. Len(s) : s[i] \in T
    OBVIOUS
  <1>2. r = [i \in 1 .. Len(s) |-> s[(Len(s) - i) + 1]]
    BY DEF Reverse
  <1> HIDE DEF r
  <1>3. \A i \in 1 .. Len(s) : (Len(s) - i) + 1 \in 1 .. Len(s)
    BY <1>1
  <1>4. r \in [1 .. Len(s) -> T] /\ DOMAIN r = 1 .. Len(s)
    BY <1>1, <1>2, <1>3
  <1>5. r \in Seq(T)
    BY <1>1, <1>4
  <1>6. \A i \in 1 .. Len(s) : r[i] \in ToSet(s)
    BY <1>1, <1>2, <1>3 DEF ToSet
  <1>7. ASSUME NEW i \in 1 .. Len(s) PROVE s[i] \in ToSet(r)
    <2>1. PICK j \in 1 .. Len(s) : j = (Len(s) - i) + 1
      BY <1>3
    <2>2. (Len(s) - j) + 1 = i
      BY <1>1, <2>1
    <2>3. r[j] = s[i]
      BY <1>2, <2>2
    <2> QED
      BY <1>4, <2>3 DEF ToSet
  <1>8. ToSet(r) = ToSet(s)
    BY <1>1, <1>4, <1>6, <1>7 DEF ToSet
  <1> QED
    BY <1>5, <1>8 DEF r

(* The rest of a list, and the first of it, are of the list. *)
LEMMA TailLists ==
    ASSUME NEW T, NEW s \in Seq(T), s # <<>>
    PROVE  Head(s) \in ToSet(s) /\ Tail(s) \in Seq(T) /\ ToSet(Tail(s)) \subseteq ToSet(s)
  <1>1. /\ Len(s) \in Nat \ {0} /\ DOMAIN s = 1 .. Len(s)
        /\ Tail(s) \in Seq(T) /\ Len(Tail(s)) = Len(s) - 1 /\ DOMAIN Tail(s) = 1 .. Len(s) - 1
        /\ \A i \in 1 .. Len(s) - 1 : Tail(s)[i] = s[i + 1]
        /\ Head(s) = s[1]
    OBVIOUS
  <1>2. \A i \in 1 .. Len(s) - 1 : i + 1 \in 1 .. Len(s)
    BY <1>1
  <1>3. Head(s) \in ToSet(s)
    BY <1>1 DEF ToSet
  <1>4. ToSet(Tail(s)) \subseteq ToSet(s)
    BY <1>1, <1>2 DEF ToSet
  <1> QED
    BY <1>1, <1>3, <1>4

(* The first n of a list are of the list. *)
LEMMA PrefixLists ==
    ASSUME NEW T, NEW s \in Seq(T), NEW n \in 0 .. Len(s)
    PROVE  SubSeq(s, 1, n) \in Seq(T) /\ ToSet(SubSeq(s, 1, n)) \subseteq ToSet(s)
  <1>1. /\ Len(s) \in Nat /\ DOMAIN s = 1 .. Len(s) /\ n \in Nat /\ n <= Len(s)
        /\ \A i \in 1 .. Len(s) : s[i] \in T
    OBVIOUS
  <1>2. SubSeq(s, 1, n) = [i \in 1 .. n |-> s[i]]
    BY <1>1
  <1>3. \A i \in 1 .. n : i \in 1 .. Len(s)
    BY <1>1
  <1>4. SubSeq(s, 1, n) \in [1 .. n -> T]
    BY <1>1, <1>2, <1>3
  <1>5. SubSeq(s, 1, n) \in Seq(T)
    BY <1>1, <1>4
  <1>6. ToSet(SubSeq(s, 1, n)) \subseteq ToSet(s)
    BY <1>1, <1>2, <1>3 DEF ToSet
  <1> QED
    BY <1>5, <1>6

-----------------------------------------------------------------------------

(* The entries of a key carry increasing numbers, already given out. *)
StreamNumbered ==
    /\ \A i \in Entries : stream[i].seq <= numbered[stream[i].key]
    /\ \A i, j \in Entries :
           i < j /\ stream[i].key = stream[j].key => stream[i].seq < stream[j].seq

(* An entry is pending with one consumer at most, and only that consumer   *)
(* can have it in its channel.                                             *)
Owned ==
    \A c \in Names :
        /\ ToSet(pending[c]) \subseteq 1 .. lastRead
        /\ ToSet(channel[c]) \subseteq ToSet(pending[c])
        /\ \A d \in Names \ {c} : ToSet(pending[c]) \cap ToSet(pending[d]) = {}

(* Entry i of consumer c is where a row's number n for key k came from. *)
CameFrom(c, i, k, n) ==
    /\ i \in ToSet(pending[c])
    /\ stream[i].key = k /\ stream[i].seq = n
    /\ c \in running => n <= cursor[c][k]

RowsHaveOwners ==
    \A k \in Keys : \A m \in 1 .. Len(rows[k]) :
        \E c \in used : \E i \in Entries : CameFrom(c, i, k, rows[k][m])

RedisInv ==
    /\ TypeOK /\ IsFiniteSet(used)
    /\ StreamNumbered /\ Owned /\ RowsHaveOwners /\ AppliedOnce

-----------------------------------------------------------------------------
(* What a poll reads. *)

(* Entries claimed again are entries of the consumer that claims them. *)
LEMMA ClaimedIsPending ==
    ASSUME TypeOK, NEW c \in Names
    PROVE  /\ Claimed(c) \in Seq(Entries)
           /\ ToSet(Claimed(c)) \subseteq ToSet(pending[c])
  <1>1. pending[c] \in Seq(Entries) /\ Len(pending[c]) \in Nat /\ BatchSize \in Nat
    BY RedisAssumption DEF TypeOK
  <1>2. PICK n \in 0 .. Len(pending[c]) : Window(c) = SubSeq(pending[c], 1, n)
    BY <1>1 DEF Window
  <1>3. Window(c) \in Seq(Entries) /\ ToSet(Window(c)) \subseteq ToSet(pending[c])
    BY <1>1, <1>2, PrefixLists
  <1>4. Claimed(c) \in Seq(Entries) /\ ToSet(Claimed(c)) = ToSet(Window(c)) \cap idle
    BY <1>3, KeepingKeeps DEF Claimed
  <1> QED
    BY <1>3, <1>4

(* Entries read for the first time are after the last delivered one. *)
LEMMA UnreadIsNew ==
    ASSUME TypeOK
    PROVE  /\ Unread \in Seq(Entries) /\ Len(Unread) \in Nat
           /\ lastRead + Len(Unread) \in 0 .. Len(stream)
           /\ ToSet(Unread) = lastRead + 1 .. lastRead + Len(Unread)
  <1> DEFINE u == Unread
  <1>1. Len(stream) \in Nat /\ lastRead \in Nat /\ lastRead <= Len(stream) /\ BatchSize \in Nat
    BY RedisAssumption DEF TypeOK
  <1>2. PICK n \in Nat : n <= Len(stream) - lastRead /\ u = [m \in 1 .. n |-> lastRead + m]
    <2> DEFINE many == IF Len(stream) - lastRead < BatchSize
                       THEN Len(stream) - lastRead ELSE BatchSize
    <2>1. u = [m \in 1 .. many |-> lastRead + m]
      BY DEF Unread
    <2>2. many \in Nat /\ many <= Len(stream) - lastRead
      BY <1>1
    <2> HIDE DEF many, u
    <2> QED
      BY <2>1, <2>2
  <1> HIDE DEF u
  <1>3. \A m \in 1 .. n : lastRead + m \in Entries
    BY <1>1, <1>2 DEF Entries
  <1>4. u \in [1 .. n -> Entries] /\ DOMAIN u = 1 .. n
    BY <1>2, <1>3
  <1>5. u \in Seq(Entries) /\ Len(u) = n
    BY <1>4
  <1>6. lastRead + n \in 0 .. Len(stream)
    BY <1>1, <1>2
  <1>7. ASSUME NEW e \in lastRead + 1 .. lastRead + n PROVE e \in ToSet(u)
    <2>1. e - lastRead \in 1 .. n /\ lastRead + (e - lastRead) = e
      BY <1>1
    <2>2. u[e - lastRead] = e
      BY <1>2, <2>1
    <2> QED
      BY <1>4, <2>1, <2>2 DEF ToSet
  <1>8. \A m \in 1 .. n : u[m] \in lastRead + 1 .. lastRead + n
    BY <1>1, <1>2
  <1>9. ToSet(u) = lastRead + 1 .. lastRead + n
    BY <1>4, <1>7, <1>8 DEF ToSet
  <1> QED
    BY <1>5, <1>6, <1>9 DEF u

(* What a poll hands out is what it read. *)
LEMMA DeliveredIsRead ==
    ASSUME TypeOK, NEW c \in Names, NEW entries \in Seq(Entries), Deliver(c, entries)
    PROVE  /\ dlq' \in Seq(Entries)
           /\ channel' \in [Names -> Seq(Entries)]
           /\ \A d \in Names \ {c} : channel'[d] = channel[d]
           /\ ToSet(channel'[c]) \subseteq ToSet(channel[c]) \cup ToSet(entries)
  <1> DEFINE dead == Keeping(entries, Parsed(c) \cap Exhausted)
             good == Keeping(entries, Parsed(c) \ Exhausted)
  <1>1. dead \in Seq(Entries) /\ good \in Seq(Entries) /\ ToSet(good) \subseteq ToSet(entries)
    BY KeepingKeeps
  <1>2. dlq' = dlq \o dead /\ channel' = [channel EXCEPT ![c] = @ \o Reverse(good)]
    BY DEF Deliver
  <1> HIDE DEF dead, good
  <1>3. dlq \in Seq(Entries) /\ channel \in [Names -> Seq(Entries)] /\ channel[c] \in Seq(Entries)
    BY DEF TypeOK
  <1>4. dlq \o dead \in Seq(Entries)
    BY <1>1, <1>3, ConcatLists
  <1>5. Reverse(good) \in Seq(Entries) /\ ToSet(Reverse(good)) = ToSet(good)
    BY <1>1, ReverseLists
  <1>6. PICK l : l = channel[c] \o Reverse(good)
    OBVIOUS
  <1>7. l \in Seq(Entries) /\ ToSet(l) = ToSet(channel[c]) \cup ToSet(Reverse(good))
    BY <1>3, <1>5, <1>6, ConcatLists
  <1>8. channel' = [channel EXCEPT ![c] = l]
    BY <1>2, <1>6
  <1>9. channel' \in [Names -> Seq(Entries)] /\ channel'[c] = l
    BY <1>3, <1>7, <1>8
  <1>10. \A d \in Names \ {c} : channel'[d] = channel[d]
    BY <1>3, <1>8
  <1> QED
    BY <1>1, <1>2, <1>4, <1>5, <1>7, <1>9, <1>10

-----------------------------------------------------------------------------
(* What steps leave alone. *)

(* A row keeps its owners as long as nothing is taken from the stream or   *)
(* the pending lists and no consumer that owns entries is started again or *)
(* forgets its cursor while it runs.                                       *)
LEMMA OwnersStay ==
    ASSUME TypeOK, RowsHaveOwners,
           rows' = rows, used \subseteq used',
           Entries \subseteq Entries', \A i \in Entries : stream'[i] = stream[i],
           \A c \in Names : ToSet(pending[c]) \subseteq ToSet(pending'[c]),
           \A c \in used : c \in running' => c \in running /\ cursor'[c] = cursor[c]
    PROVE  RowsHaveOwners'
  <1> SUFFICES ASSUME NEW k \in Keys, NEW m \in 1 .. Len(rows[k])
               PROVE  \E c \in used' : \E i \in Entries' : CameFrom(c, i, k, rows[k][m])'
    BY DEF RowsHaveOwners
  <1>1. PICK c \in used, i \in Entries : CameFrom(c, i, k, rows[k][m])
    BY DEF RowsHaveOwners
  <1>2. c \in used' /\ i \in Entries' /\ c \in Names
    BY DEF TypeOK
  <1>3. CameFrom(c, i, k, rows[k][m])'
    BY <1>1, <1>2 DEF CameFrom
  <1> QED
    BY <1>2, <1>3


(* Nothing else than a projection loop's receipt touches the rows. *)
LEMMA RowsUntouched ==
    ASSUME AppliedOnce, rows' = rows, used' = used
    PROVE  AppliedOnce'
  BY DEF AppliedOnce

-----------------------------------------------------------------------------
(* The steps. *)

(* publish, XADD done: the entry is new and its number the next one. *)
LEMMA PublishInv ==
    ASSUME RedisInv, NEW k \in Keys, Publish(k)
    PROVE  RedisInv'
  <1> USE DEF RedisInv
  <1> DEFINE e == [key |-> k, seq |-> numbered[k] + 1]
  <1>1. /\ Len(stream) \in Nat /\ stream \in Seq(Envelope)
        /\ numbered \in [Keys -> 0 .. MaxEvents] /\ MaxEvents \in Nat
        /\ numbered[k] \in Nat
    BY RedisAssumption DEF TypeOK
  <1>2. e \in Envelope /\ e.key = k /\ e.seq = numbered[k] + 1
    BY <1>1 DEF Envelope
  <1>3. stream' = Append(stream, e)
    BY DEF Publish
  <1> HIDE DEF e
  <1>4. /\ stream' \in Seq(Envelope) /\ Len(stream') = Len(stream) + 1
        /\ \A i \in 1 .. Len(stream) : stream'[i] = stream[i]
        /\ stream'[Len(stream) + 1] = e
    BY <1>1, <1>2, <1>3
  <1>5. Entries \subseteq Entries' /\ \A i \in Entries' : i \in Entries \/ i = Len(stream) + 1
    BY <1>1, <1>4 DEF Entries
  <1>6. /\ numbered' \in [Keys -> 0 .. MaxEvents] /\ numbered'[k] = numbered[k] + 1
        /\ \A j \in Keys \ {k} : numbered'[j] = numbered[j]
    BY <1>1 DEF Publish
  <1>7. TypeOK'
    <2>1. \A s \in Seq(Entries) : s \in Seq(Entries')
      BY <1>5, SeqWidens
    <2>2. dlq' \in Seq(Entries') /\ pending' \in [Names -> Seq(Entries')]
          /\ channel' \in [Names -> Seq(Entries')]
      <3>1. dlq \in Seq(Entries) /\ pending \in [Names -> Seq(Entries)]
            /\ channel \in [Names -> Seq(Entries)]
        BY DEF TypeOK
      <3>2. dlq' = dlq /\ pending' = pending /\ channel' = channel
        BY DEF Publish, instanceVars
      <3> HIDE DEF RedisInv
      <3> QED
        BY <2>1, <3>1, <3>2
    <2>3. lastRead' \in 0 .. Len(stream')
      BY <1>1, <1>4 DEF TypeOK, Publish
    <2> QED
      BY <1>4, <1>6, <2>2, <2>3 DEF TypeOK, Publish, instanceVars, boundVars
  <1>8. StreamNumbered'
    <2>0. \A i \in Entries : stream[i].key \in Keys /\ stream[i].seq \in Nat
      <3>1. \A i \in Entries : stream[i] \in Envelope
        BY <1>1 DEF Entries
      <3> QED
        BY <3>1 DEF Envelope
    <2>1. ASSUME NEW i \in Entries' PROVE stream'[i].seq <= numbered'[stream'[i].key]
      <3>1. CASE i \in Entries
        <4>1. stream'[i] = stream[i]
          BY <1>4, <3>1 DEF Entries
        <4>2. stream[i].seq <= numbered[stream[i].key]
          BY <3>1 DEF StreamNumbered
        <4>3. numbered[stream[i].key] \in Nat /\ numbered[stream[i].key] <= numbered'[stream[i].key]
              /\ numbered'[stream[i].key] \in Nat
          <5>1. \A j \in Keys : numbered[j] \in Nat
                /\ (numbered'[j] = numbered[j] \/ numbered'[j] = numbered[j] + 1)
            BY <1>1, <1>6
          <5>2. PICK j \in Keys : j = stream[i].key
            BY <2>0, <3>1
          <5> QED
            BY <5>1, <5>2
        <4> HIDE DEF RedisInv
        <4> QED
          BY <2>0, <3>1, <4>1, <4>2, <4>3
      <3>2. CASE i = Len(stream) + 1
        BY <1>1, <1>2, <1>4, <1>6, <3>2
      <3> QED
        BY <1>5, <3>1, <3>2
    <2>2. ASSUME NEW i \in Entries', NEW j \in Entries', i < j,
                 stream'[i].key = stream'[j].key
          PROVE  stream'[i].seq < stream'[j].seq
      <3>1. i \in Entries
        BY <1>1, <1>4, <1>5, <2>2 DEF Entries
      <3>2. stream'[i] = stream[i] /\ stream[i].seq <= numbered[stream[i].key]
        BY <1>4, <3>1 DEF Entries, StreamNumbered
      <3>3. CASE j \in Entries
        BY <1>4, <2>2, <3>1, <3>2, <3>3 DEF Entries, StreamNumbered
      <3>4. CASE j = Len(stream) + 1
        BY <1>1, <1>2, <1>4, <2>0, <2>2, <3>1, <3>2, <3>4
      <3> QED
        BY <1>5, <3>3, <3>4
    <2> QED
      BY <2>1, <2>2 DEF StreamNumbered
  <1>9. Owned'
    BY DEF Owned, Publish, instanceVars
  <1>10. RowsHaveOwners'
    <2>1. rows' = rows /\ used' = used /\ running' = running /\ cursor' = cursor
          /\ pending' = pending
      BY DEF Publish, instanceVars
    <2>2. \A i \in Entries : stream'[i] = stream[i]
      BY <1>4 DEF Entries
    <2> QED
      BY <1>5, <2>1, <2>2, OwnersStay
  <1> QED
    BY <1>7, <1>8, <1>9, <1>10, RowsUntouched DEF Publish, instanceVars

(* publish, XADD failed: a number is skipped. *)
LEMMA PublishFailsInv ==
    ASSUME RedisInv, NEW k \in Keys, PublishFails(k)
    PROVE  RedisInv'
  <1> USE DEF RedisInv
  <1>0. /\ stream' = stream /\ lastRead' = lastRead /\ pending' = pending /\ idle' = idle
        /\ dlq' = dlq /\ running' = running /\ used' = used /\ channel' = channel
        /\ cursor' = cursor /\ rows' = rows /\ received' = received
        /\ lostReplies' = lostReplies /\ stops' = stops
    BY DEF PublishFails, redisVars, instanceVars
  <1>1. /\ numbered \in [Keys -> 0 .. MaxEvents] /\ MaxEvents \in Nat /\ numbered[k] \in Nat
        /\ stream \in Seq(Envelope) /\ MaxUnpublished \in Nat
    BY RedisAssumption DEF TypeOK
  <1>2. /\ numbered' \in [Keys -> 0 .. MaxEvents]
        /\ \A j \in Keys : numbered[j] \in Nat /\ numbered'[j] \in Nat /\ numbered[j] <= numbered'[j]
    BY <1>1 DEF PublishFails
  <1>3. unpublished' \in 0 .. MaxUnpublished
    BY <1>1 DEF TypeOK, PublishFails
  <1>4. TypeOK'
    BY <1>0, <1>2, <1>3 DEF TypeOK, Entries
  <1>5. StreamNumbered'
    <2>1. \A i \in Entries : stream[i].key \in Keys /\ stream[i].seq \in Nat
      <3>1. \A i \in Entries : stream[i] \in Envelope
        BY <1>1 DEF Entries
      <3> QED
        BY <3>1 DEF Envelope
    <2>2. ASSUME NEW i \in Entries PROVE stream[i].seq <= numbered'[stream[i].key]
      BY <1>2, <2>1 DEF StreamNumbered
    <2> QED
      BY <1>0, <2>2 DEF StreamNumbered, Entries
  <1>6. Owned'
    BY <1>0 DEF Owned
  <1>7. RowsHaveOwners'
    BY <1>0, OwnersStay DEF Entries
  <1> QED
    BY <1>0, <1>4, <1>5, <1>6, <1>7, RowsUntouched


(* subscribe_with_group: the new name owns nothing, and when it is the     *)
(* first one there are no rows.                                            *)
LEMMA StartInv ==
    ASSUME RedisInv, NEW c \in Names, Start(c)
    PROVE  RedisInv'
  <1> USE DEF RedisInv
  <1>0. /\ stream' = stream /\ lastRead' = lastRead /\ pending' = pending /\ idle' = idle
        /\ dlq' = dlq /\ channel' = channel /\ cursor' = cursor /\ rows' = rows
        /\ numbered' = numbered /\ received' = received
        /\ unpublished' = unpublished /\ lostReplies' = lostReplies /\ stops' = stops
        /\ c \notin used /\ used' = used \cup {c} /\ running' = running \cup {c}
    BY DEF Start, redisVars, boundVars
  <1>1. TypeOK'
    BY <1>0 DEF TypeOK, Entries
  <1>2. IsFiniteSet(used') /\ Cardinality(used') = Cardinality(used) + 1
        /\ Cardinality(used) \in Nat
    BY <1>0, FS_AddElement, FS_CardinalityType
  <1>3. StreamNumbered' /\ Owned'
    BY <1>0 DEF StreamNumbered, Owned, Entries
  <1>4. RowsHaveOwners'
    BY <1>0, OwnersStay DEF Entries
  <1>5. AppliedOnce'
    <2>1. Cardinality(used') = 1 => used = {}
      BY <1>2, FS_EmptySet
    <2>2. ASSUME Cardinality(used') = 1, NEW k \in Keys, NEW i \in 1 .. Len(rows[k])
          PROVE  FALSE
      BY <2>1, <2>2 DEF RowsHaveOwners
    <2>3. \A k \in Keys : \A i, j \in 1 .. Len(rows[k]) : i < j => rows[k][i] # rows[k][j]
      BY DEF AppliedOnce
    <2> HIDE DEF RedisInv
    <2> QED
      BY <1>0, <2>2, <2>3 DEF AppliedOnce
  <1> QED
    BY <1>1, <1>2, <1>3, <1>4, <1>5

(* The end of the program: its consumer name never runs again. *)
LEMMA StopInv ==
    ASSUME RedisInv, NEW c \in Names, Stop(c)
    PROVE  RedisInv'
  <1> USE DEF RedisInv
  <1>0. /\ stream' = stream /\ lastRead' = lastRead /\ pending' = pending /\ idle' = idle
        /\ dlq' = dlq /\ used' = used /\ rows' = rows
        /\ numbered' = numbered /\ received' = received
        /\ unpublished' = unpublished /\ lostReplies' = lostReplies
        /\ running' = running \ {c} /\ stops' = stops + 1 /\ stops < MaxStops
        /\ channel' = [channel EXCEPT ![c] = <<>>]
        /\ cursor' = [cursor EXCEPT ![c] = [k \in Keys |-> 0]]
    BY DEF Stop, redisVars
  <1>1. channel \in [Names -> Seq(Entries)] /\ cursor \in [Names -> [Keys -> 0 .. MaxEvents]]
        /\ MaxEvents \in Nat /\ MaxStops \in Nat
    BY RedisAssumption DEF TypeOK
  <1>2. channel' \in [Names -> Seq(Entries)] /\ channel'[c] = <<>>
        /\ \A d \in Names \ {c} : channel'[d] = channel[d]
    <2>1. <<>> \in Seq(Entries)
      OBVIOUS
    <2> QED
      BY <1>0, <1>1, <2>1
  <1>3. cursor' \in [Names -> [Keys -> 0 .. MaxEvents]]
        /\ \A d \in Names \ {c} : cursor'[d] = cursor[d]
    <2>1. [k \in Keys |-> 0] \in [Keys -> 0 .. MaxEvents]
      BY <1>1
    <2> QED
      BY <1>0, <1>1, <2>1
  <1>4. TypeOK'
    <2>1. stops' \in 0 .. MaxStops
      BY <1>0, <1>1 DEF TypeOK
    <2> QED
      BY <1>0, <1>2, <1>3, <2>1 DEF TypeOK, Entries
  <1>5. StreamNumbered'
    BY <1>0 DEF StreamNumbered, Entries
  <1>6. Owned'
    <2>1. ToSet(<<>>) = {}
      BY DEF ToSet
    <2>2. \A d \in Names : ToSet(channel'[d]) \subseteq ToSet(pending[d])
      BY <1>2, <2>1 DEF Owned
    <2> QED
      BY <1>0, <2>2 DEF Owned
  <1>7. RowsHaveOwners'
    <2>1. \A d \in used : d \in running' => d \in running /\ cursor'[d] = cursor[d]
      BY <1>0, <1>3 DEF TypeOK
    <2> QED
      BY <1>0, <2>1, OwnersStay DEF Entries
  <1> QED
    BY <1>0, <1>4, <1>5, <1>6, <1>7, RowsUntouched

(* pending_timeout_ms passes. *)
LEMMA ElapseInv ==
    ASSUME RedisInv, NEW c \in Names, NEW i \in Entries, Elapse(c, i)
    PROVE  RedisInv'
  <1> USE DEF RedisInv
  <1>0. /\ stream' = stream /\ lastRead' = lastRead /\ pending' = pending
        /\ dlq' = dlq /\ channel' = channel /\ cursor' = cursor /\ rows' = rows
        /\ used' = used /\ running' = running
        /\ numbered' = numbered /\ received' = received
        /\ unpublished' = unpublished /\ lostReplies' = lostReplies /\ stops' = stops
        /\ idle' = idle \cup {i} /\ i \in Range(pending[c])
    BY DEF Elapse, instanceVars, boundVars
  <1>1. i \in 1 .. lastRead
    BY <1>0 DEF Owned, Range, ToSet
  <1>2. TypeOK'
    BY <1>0, <1>1 DEF TypeOK, Entries
  <1>3. StreamNumbered' /\ Owned'
    BY <1>0 DEF StreamNumbered, Owned, Entries
  <1>4. RowsHaveOwners'
    BY <1>0, OwnersStay DEF Entries
  <1> QED
    BY <1>0, <1>2, <1>3, <1>4, RowsUntouched

(* XREADGROUP gives the reader entries that are pending with nobody. *)
LEMMA ReadIsOwned ==
    ASSUME RedisInv, NEW c \in Names, ReadUnread(c)
    PROVE  /\ pending' \in [Names -> Seq(Entries)]
           /\ lastRead' \in 0 .. Len(stream) /\ 1 .. lastRead \subseteq 1 .. lastRead'
           /\ ToSet(pending'[c]) = ToSet(pending[c]) \cup ToSet(Unread)
           /\ \A d \in Names \ {c} : pending'[d] = pending[d]
           /\ \A d \in Names :
                  /\ ToSet(pending'[d]) \subseteq 1 .. lastRead'
                  /\ ToSet(pending[d]) \subseteq ToSet(pending'[d])
                  /\ \A b \in Names \ {d} : ToSet(pending'[d]) \cap ToSet(pending'[b]) = {}
  <1> USE DEF RedisInv
  <1>1. /\ Unread \in Seq(Entries) /\ Len(Unread) \in Nat
        /\ lastRead + Len(Unread) \in 0 .. Len(stream)
        /\ ToSet(Unread) = lastRead + 1 .. lastRead + Len(Unread)
    BY UnreadIsNew
  <1>2. PICK n \in Nat : n = Len(Unread)
    BY <1>1
  <1>3. lastRead \in Nat /\ pending \in [Names -> Seq(Entries)] /\ pending[c] \in Seq(Entries)
    BY DEF TypeOK
  <1>4. lastRead' = lastRead + n /\ pending' = [pending EXCEPT ![c] = @ \o Unread]
    BY <1>2 DEF ReadUnread
  <1>5. PICK l : l = pending[c] \o Unread
    OBVIOUS
  <1>6. l \in Seq(Entries) /\ ToSet(l) = ToSet(pending[c]) \cup ToSet(Unread)
    BY <1>1, <1>3, <1>5, ConcatLists
  <1>7. pending' \in [Names -> Seq(Entries)] /\ pending'[c] = l
        /\ \A d \in Names \ {c} : pending'[d] = pending[d]
    BY <1>3, <1>4, <1>5, <1>6
  <1>8. lastRead' \in 0 .. Len(stream) /\ 1 .. lastRead \subseteq 1 .. lastRead'
        /\ lastRead + 1 .. lastRead + n \subseteq 1 .. lastRead'
    BY <1>1, <1>2, <1>3, <1>4
  <1>9. (1 .. lastRead) \cap (lastRead + 1 .. lastRead + n) = {}
    BY <1>3
  <1>10. ToSet(Unread) \subseteq 1 .. lastRead' /\ (1 .. lastRead) \cap ToSet(Unread) = {}
    BY <1>1, <1>2, <1>8, <1>9
  <1>11. ASSUME NEW d \in Names
         PROVE  /\ ToSet(pending'[d]) \subseteq 1 .. lastRead'
                /\ ToSet(pending[d]) \subseteq ToSet(pending'[d])
    BY <1>6, <1>7, <1>8, <1>10 DEF Owned
  <1>12. ASSUME NEW d \in Names, NEW b \in Names \ {d}
         PROVE  ToSet(pending'[d]) \cap ToSet(pending'[b]) = {}
    <2>1. ToSet(pending[d]) \cap ToSet(pending[b]) = {}
      BY DEF Owned
    <2>2. ToSet(pending[d]) \cap ToSet(Unread) = {} /\ ToSet(pending[b]) \cap ToSet(Unread) = {}
      BY <1>10 DEF Owned
    <2>3. \A a \in Names : a # c => pending'[a] = pending[a]
      BY <1>7
    <2>4. ToSet(pending'[c]) = ToSet(pending[c]) \cup ToSet(Unread)
      BY <1>6, <1>7
    <2>5. CASE d = c
      BY <2>1, <2>2, <2>3, <2>4, <2>5
    <2>6. CASE b = c
      BY <2>1, <2>2, <2>3, <2>4, <2>6
    <2>7. CASE d # c /\ b # c
      BY <2>1, <2>3, <2>7
    <2> QED
      BY <2>5, <2>6, <2>7
  <1> QED
    BY <1>6, <1>7, <1>8, <1>11, <1>12


(* poll, whatever it reads: entries claimed again are the consumer's own,  *)
(* new ones become its own, and only these reach its channel.              *)
LEMMA PollInv ==
    ASSUME RedisInv, NEW c \in Names, Poll(c)
    PROVE  RedisInv'
  <1> USE DEF RedisInv
  <1>0. /\ stream' = stream /\ numbered' = numbered /\ cursor' = cursor /\ rows' = rows
        /\ used' = used /\ running' = running /\ received' = received
        /\ unpublished' = unpublished /\ lostReplies' = lostReplies /\ stops' = stops
        /\ idle' \subseteq idle
    BY DEF Poll, boundVars
  <1>1. /\ pending \in [Names -> Seq(Entries)] /\ lastRead \in 0 .. Len(stream)
        /\ idle \subseteq 1 .. lastRead /\ received \subseteq 1 .. lastRead
    BY DEF TypeOK
  <1>2. /\ pending' \in [Names -> Seq(Entries)]
        /\ lastRead' \in 0 .. Len(stream) /\ 1 .. lastRead \subseteq 1 .. lastRead'
        /\ dlq' \in Seq(Entries) /\ channel' \in [Names -> Seq(Entries)]
        /\ \A d \in Names :
               /\ ToSet(pending'[d]) \subseteq 1 .. lastRead'
               /\ ToSet(pending[d]) \subseteq ToSet(pending'[d])
               /\ ToSet(channel'[d]) \subseteq ToSet(pending'[d])
               /\ \A b \in Names \ {d} : ToSet(pending'[d]) \cap ToSet(pending'[b]) = {}
    <2>1. CASE Range(Claimed(c)) \cap Parsed(c) # {}
      <3>1. pending' = pending /\ lastRead' = lastRead /\ Deliver(c, Claimed(c))
        BY <2>1 DEF Poll
      <3>2. Claimed(c) \in Seq(Entries) /\ ToSet(Claimed(c)) \subseteq ToSet(pending[c])
        BY ClaimedIsPending
      <3>3. /\ dlq' \in Seq(Entries) /\ channel' \in [Names -> Seq(Entries)]
            /\ \A d \in Names \ {c} : channel'[d] = channel[d]
            /\ ToSet(channel'[c]) \subseteq ToSet(channel[c]) \cup ToSet(Claimed(c))
        BY <3>1, <3>2, DeliveredIsRead
      <3>4. \A d \in Names : ToSet(channel'[d]) \subseteq ToSet(pending[d])
        BY <3>2, <3>3 DEF Owned
      <3> QED
        BY <1>1, <3>1, <3>3, <3>4 DEF Owned
    <2>2. CASE Range(Claimed(c)) \cap Parsed(c) = {}
      <3>1. ReadUnread(c) /\ Deliver(c, Unread)
        BY <2>2 DEF Poll
      <3>2. Unread \in Seq(Entries)
        BY UnreadIsNew
      <3>3. /\ dlq' \in Seq(Entries) /\ channel' \in [Names -> Seq(Entries)]
            /\ \A d \in Names \ {c} : channel'[d] = channel[d]
            /\ ToSet(channel'[c]) \subseteq ToSet(channel[c]) \cup ToSet(Unread)
        BY <3>1, <3>2, DeliveredIsRead
      <3>4. /\ pending' \in [Names -> Seq(Entries)]
            /\ lastRead' \in 0 .. Len(stream) /\ 1 .. lastRead \subseteq 1 .. lastRead'
            /\ ToSet(pending'[c]) = ToSet(pending[c]) \cup ToSet(Unread)
            /\ \A d \in Names :
                  /\ ToSet(pending'[d]) \subseteq 1 .. lastRead'
                  /\ ToSet(pending[d]) \subseteq ToSet(pending'[d])
                  /\ \A b \in Names \ {d} : ToSet(pending'[d]) \cap ToSet(pending'[b]) = {}
        BY <3>1, ReadIsOwned
      <3>5. \A d \in Names : ToSet(channel[d]) \subseteq ToSet(pending'[d])
        BY <3>4 DEF Owned
      <3>6. \A d \in Names : ToSet(channel'[d]) \subseteq ToSet(pending'[d])
        BY <3>3, <3>4, <3>5
      <3> QED
        BY <3>3, <3>4, <3>6
    <2> QED
      BY <2>1, <2>2
  <1>3. TypeOK'
    <2>1. idle' \subseteq 1 .. lastRead' /\ received' \subseteq 1 .. lastRead'
      BY <1>0, <1>1, <1>2
    <2> QED
      BY <1>0, <1>2, <2>1 DEF TypeOK, Entries
  <1>4. StreamNumbered'
    BY <1>0 DEF StreamNumbered, Entries
  <1>5. Owned'
    BY <1>2 DEF Owned
  <1>6. RowsHaveOwners'
    BY <1>0, <1>2, OwnersStay DEF Entries
  <1> QED
    BY <1>0, <1>3, <1>4, <1>5, <1>6, RowsUntouched

(* poll, the reply lost: entries become the consumer's own, nothing reaches *)
(* its channel.                                                            *)
LEMMA PollFailsInv ==
    ASSUME RedisInv, NEW c \in Names, PollFails(c)
    PROVE  RedisInv'
  <1> USE DEF RedisInv
  <1>0. /\ stream' = stream /\ numbered' = numbered /\ cursor' = cursor /\ rows' = rows
        /\ used' = used /\ running' = running /\ received' = received
        /\ unpublished' = unpublished /\ stops' = stops /\ dlq' = dlq /\ channel' = channel
        /\ idle' \subseteq idle /\ lostReplies' = lostReplies + 1 /\ lostReplies < MaxLostReplies
    BY DEF PollFails, instanceVars
  <1>1. /\ pending \in [Names -> Seq(Entries)] /\ lastRead \in 0 .. Len(stream)
        /\ idle \subseteq 1 .. lastRead /\ received \subseteq 1 .. lastRead
        /\ MaxLostReplies \in Nat /\ lostReplies \in 0 .. MaxLostReplies
    BY RedisAssumption DEF TypeOK
  <1>2. /\ pending' \in [Names -> Seq(Entries)]
        /\ lastRead' \in 0 .. Len(stream) /\ 1 .. lastRead \subseteq 1 .. lastRead'
        /\ \A d \in Names :
               /\ ToSet(pending'[d]) \subseteq 1 .. lastRead'
               /\ ToSet(pending[d]) \subseteq ToSet(pending'[d])
               /\ \A b \in Names \ {d} : ToSet(pending'[d]) \cap ToSet(pending'[b]) = {}
    <2>1. CASE pending' = pending /\ lastRead' = lastRead
      BY <1>1, <2>1 DEF Owned
    <2>2. CASE ReadUnread(c)
      BY <2>2, ReadIsOwned
    <2> QED
      BY <2>1, <2>2 DEF PollFails
  <1>3. TypeOK'
    <2>1. lostReplies' \in 0 .. MaxLostReplies
      BY <1>0, <1>1
    <2>2. idle' \subseteq 1 .. lastRead' /\ received' \subseteq 1 .. lastRead'
      BY <1>0, <1>1, <1>2, Zenon
    <2> QED
      BY <1>0, <1>2, <2>1, <2>2 DEF TypeOK, Entries
  <1>4. StreamNumbered'
    BY <1>0 DEF StreamNumbered, Entries
  <1>5. Owned'
    <2>1. \A d \in Names : ToSet(channel'[d]) \subseteq ToSet(pending'[d])
      BY <1>0, <1>2 DEF Owned
    <2> QED
      BY <1>2, <2>1 DEF Owned
  <1>6. RowsHaveOwners'
    BY <1>0, <1>2, OwnersStay DEF Entries
  <1> QED
    BY <1>0, <1>3, <1>4, <1>5, <1>6, RowsUntouched


(* recv and apply_envelope: a number the cursor lets through is past what  *)
(* this consumer applied and belongs to an entry no other one has.         *)
LEMMA ReceiveInv ==
    ASSUME RedisInv, NEW c \in Names, Receive(c)
    PROVE  RedisInv'
  <1> USE DEF RedisInv
  <1>0. /\ stream' = stream /\ numbered' = numbered /\ lastRead' = lastRead
        /\ pending' = pending /\ idle' = idle /\ dlq' = dlq
        /\ used' = used /\ running' = running
        /\ unpublished' = unpublished /\ lostReplies' = lostReplies /\ stops' = stops
        /\ c \in running /\ channel[c] # <<>>
        /\ channel' = [channel EXCEPT ![c] = Tail(@)]
    BY DEF Receive, redisVars, boundVars
  <1>1. PICK i : i = Head(channel[c])
    OBVIOUS
  <1>2. PICK k : k = stream[i].key
    OBVIOUS
  <1>3. PICK n : n = stream[i].seq
    OBVIOUS
  <1>4. received' = received \cup {i}
    BY <1>1 DEF Receive
  <1>5. \/ /\ CursorVerdict(cursor[c][k], n) = "Next"
           /\ rows' = [rows EXCEPT ![k] = Append(@, n)]
           /\ cursor' = [cursor EXCEPT ![c][k] = n]
        \/ rows' = rows /\ cursor' = cursor
    BY <1>1, <1>2, <1>3 DEF Receive
  <1>6. /\ channel \in [Names -> Seq(Entries)] /\ channel[c] \in Seq(Entries)
        /\ cursor \in [Names -> [Keys -> 0 .. MaxEvents]] /\ rows \in [Keys -> Seq(1 .. MaxEvents)]
        /\ stream \in Seq(Envelope) /\ lastRead \in 0 .. Len(stream) /\ MaxEvents \in Nat
        /\ numbered \in [Keys -> 0 .. MaxEvents] /\ received \subseteq 1 .. lastRead
        /\ running \subseteq used /\ used \subseteq Names
    BY RedisAssumption DEF TypeOK
  <1>7. /\ i \in ToSet(channel[c]) /\ Tail(channel[c]) \in Seq(Entries)
        /\ ToSet(Tail(channel[c])) \subseteq ToSet(channel[c])
    BY <1>0, <1>1, <1>6, TailLists
  <1>8. i \in ToSet(pending[c]) /\ i \in 1 .. lastRead /\ i \in Entries
    <2>1. i \in ToSet(pending[c]) /\ i \in 1 .. lastRead
      BY <1>7 DEF Owned
    <2> QED
      BY <1>6, <2>1 DEF Entries
  <1>9. k \in Keys /\ n \in Nat \ {0} /\ n <= numbered[k]
    <2>1. stream[i] \in Envelope
      BY <1>6, <1>8 DEF Entries
    <2>2. k \in Keys /\ n \in Nat \ {0}
      BY <1>2, <1>3, <2>1 DEF Envelope
    <2> QED
      BY <1>2, <1>3, <1>8, <2>2 DEF StreamNumbered
  <1>10. n \in 1 .. MaxEvents
    BY <1>6, <1>9
  <1>11. channel' \in [Names -> Seq(Entries)]
         /\ \A d \in Names : ToSet(channel'[d]) \subseteq ToSet(channel[d])
    BY <1>0, <1>6, <1>7
  <1>12. StreamNumbered' /\ Owned'
    BY <1>0, <1>11 DEF StreamNumbered, Owned, Entries
  <1>13. received' \subseteq 1 .. lastRead
    BY <1>4, <1>6, <1>8
  <1>14. CASE rows' = rows /\ cursor' = cursor
    <2>1. TypeOK'
      BY <1>0, <1>11, <1>13, <1>14 DEF TypeOK, Entries
    <2>2. RowsHaveOwners'
      BY <1>0, <1>14, OwnersStay DEF Entries
    <2> QED
      BY <1>0, <1>12, <1>14, <2>1, <2>2, RowsUntouched
  <1>15. CASE /\ CursorVerdict(cursor[c][k], n) = "Next"
              /\ rows' = [rows EXCEPT ![k] = Append(@, n)]
              /\ cursor' = [cursor EXCEPT ![c][k] = n]
    <2>1. PICK r \in Seq(1 .. MaxEvents) : r = rows[k]
      BY <1>6, <1>9
    <2>2. PICK last \in 0 .. MaxEvents : last = cursor[c][k]
      BY <1>6, <1>9
    <2>3. last < n
      BY <1>9, <1>15, <2>2 DEF CursorVerdict
    <2>4. /\ Append(r, n) \in Seq(1 .. MaxEvents) /\ Len(Append(r, n)) = Len(r) + 1
          /\ \A m \in 1 .. Len(r) : Append(r, n)[m] = r[m]
          /\ Append(r, n)[Len(r) + 1] = n /\ Len(r) \in Nat
      BY <1>10
    <2>5. /\ rows' \in [Keys -> Seq(1 .. MaxEvents)] /\ rows'[k] = Append(r, n)
          /\ \A j \in Keys \ {k} : rows'[j] = rows[j]
      BY <1>6, <1>9, <1>15, <2>1, <2>4
    <2>6. /\ cursor' \in [Names -> [Keys -> 0 .. MaxEvents]] /\ cursor'[c][k] = n
          /\ \A d \in Names, j \in Keys : ~ (d = c /\ j = k) => cursor'[d][j] = cursor[d][j]
      BY <1>6, <1>9, <1>10, <1>15
    <2>7. TypeOK'
      BY <1>0, <1>11, <1>13, <2>5, <2>6 DEF TypeOK, Entries
    <2>8. ASSUME NEW d \in used, NEW e \in Entries, NEW j \in Keys, NEW x \in Nat,
                 CameFrom(d, e, j, x)
          PROVE  CameFrom(d, e, j, x)'
      <3>1. d \in running => x <= cursor[d][j]
        BY <2>8 DEF CameFrom
      <3>2. d \in Names
        BY <1>6
      <3>3. d \in running => x <= cursor'[d][j]
        <4>1. CASE d = c /\ j = k
          BY <2>2, <2>3, <2>6, <3>1, <4>1, <1>9
        <4>2. CASE ~ (d = c /\ j = k)
          BY <2>6, <3>1, <3>2, <4>2
        <4> QED
          BY <4>1, <4>2
      <3> QED
        BY <1>0, <2>8, <3>3 DEF CameFrom
    <2>9. CameFrom(c, i, k, n)'
      BY <1>0, <1>2, <1>3, <1>8, <1>9, <2>6 DEF CameFrom
    <2>10. \A j \in Keys : \A m \in 1 .. Len(rows[j]) : rows[j][m] \in Nat
      <3> SUFFICES ASSUME NEW j \in Keys, NEW m \in 1 .. Len(rows[j]) PROVE rows[j][m] \in Nat
        OBVIOUS
      <3>1. PICK s \in Seq(1 .. MaxEvents) : s = rows[j]
        BY <1>6
      <3>2. m \in 1 .. Len(s)
        BY <3>1
      <3>3. s[m] \in 1 .. MaxEvents
        <4>1. \A S : \A q \in Seq(S) : \A o \in 1 .. Len(q) : q[o] \in S
          OBVIOUS
        <4> QED
          BY <3>2, <4>1, Zenon
      <3>4. s[m] \in Nat
        BY <1>6, <3>3
      <3> QED
        BY <3>1, <3>4
    <2>11. RowsHaveOwners'
      <3> SUFFICES ASSUME NEW j \in Keys, NEW m \in 1 .. Len(rows'[j])
                   PROVE  \E d \in used' : \E e \in Entries' : CameFrom(d, e, j, rows[j][m])'
        BY DEF RowsHaveOwners
      <3>0. used' = used /\ Entries' = Entries
        BY <1>0 DEF Entries
      <3>1. CASE m \in 1 .. Len(rows[j]) /\ rows'[j][m] = rows[j][m]
        <4>1. PICK d \in used, e \in Entries : CameFrom(d, e, j, rows[j][m])
          BY <3>1 DEF RowsHaveOwners
        <4>2. PICK x \in Nat : x = rows[j][m]
          BY <2>10, <3>1
        <4>3. CameFrom(d, e, j, x)'
          BY <2>8, <4>1, <4>2
        <4>4. x = rows'[j][m]
          BY <3>1, <4>2
        <4> QED
          BY <3>0, <4>3, <4>4 DEF CameFrom
      <3>2. CASE j = k /\ rows'[j][m] = n
        <4>1. c \in used
          BY <1>0, <1>6
        <4> QED
          BY <1>8, <2>9, <3>0, <3>2, <4>1 DEF CameFrom
      <3>3. (m \in 1 .. Len(rows[j]) /\ rows'[j][m] = rows[j][m]) \/ (j = k /\ rows'[j][m] = n)
        <4>1. CASE j = k
          <5>1. m \in 1 .. Len(r) \/ m = Len(r) + 1
            BY <2>4, <2>5, <4>1
          <5> QED
            BY <2>1, <2>4, <2>5, <4>1, <5>1
        <4>2. CASE j # k
          BY <2>5, <4>2
        <4> QED
          BY <4>1, <4>2
      <3> QED
        BY <3>1, <3>2, <3>3
    <2>12. ASSUME NEW m \in 1 .. Len(r)
           PROVE  r[m] # n /\ (Cardinality(used) = 1 => r[m] < n)
      <3>1. PICK d \in used, e \in Entries : CameFrom(d, e, k, r[m])
        BY <1>9, <2>1 DEF RowsHaveOwners
      <3>2. d \in Names /\ r[m] \in Nat
        BY <1>6, <1>9, <2>1, <2>10
      <3>3. CASE d = c
        BY <1>0, <1>9, <2>2, <2>3, <3>1, <3>2, <3>3 DEF CameFrom
      <3>4. CASE d # c
        <4>1. e # i
          BY <1>8, <3>1, <3>2, <3>4 DEF CameFrom, Owned
        <4>2. e < i \/ i < e
          BY <1>8, <4>1 DEF Entries
        <4>3. stream[e].key = stream[i].key
          BY <1>2, <3>1 DEF CameFrom
        <4>4. stream[e].seq < stream[i].seq \/ stream[i].seq < stream[e].seq
          BY <1>8, <4>2, <4>3 DEF StreamNumbered
        <4>5. r[m] # n
          BY <1>3, <1>9, <3>1, <3>2, <4>4 DEF CameFrom
        <4>6. Cardinality(used) # 1
          <5>1. SUFFICES ASSUME Cardinality(used) = 1 PROVE FALSE
            OBVIOUS
          <5>2. PICK x : used = {x}
            BY <5>1, FS_Singleton
          <5> QED
            BY <1>0, <1>6, <3>4, <5>2
        <4> QED
          BY <4>5, <4>6
      <3> QED
        BY <3>3, <3>4
    <2>13. AppliedOnce'
      <3> SUFFICES ASSUME NEW j \in Keys, NEW a \in 1 .. Len(rows'[j]), NEW b \in 1 .. Len(rows'[j]),
                          a < b
                   PROVE  /\ rows'[j][a] # rows'[j][b]
                          /\ Cardinality(used) = 1 => rows'[j][a] < rows'[j][b]
        BY <1>0 DEF AppliedOnce
      <3>1. CASE j # k
        BY <2>5, <3>1 DEF AppliedOnce
      <3>2. CASE j = k
        <4>1. a \in 1 .. Len(r) /\ (b \in 1 .. Len(r) \/ b = Len(r) + 1)
          BY <2>4, <2>5, <3>2
        <4>2. CASE b \in 1 .. Len(r)
          <5>1. r[a] # r[b] /\ (Cardinality(used) = 1 => r[a] < r[b])
            BY <1>9, <2>1, <4>1, <4>2 DEF AppliedOnce
          <5> QED
            BY <2>4, <2>5, <3>2, <4>1, <4>2, <5>1
        <4>3. CASE b = Len(r) + 1
          BY <2>4, <2>5, <2>12, <3>2, <4>1, <4>3
        <4> QED
          BY <4>1, <4>2, <4>3
      <3> QED
        BY <3>1, <3>2
    <2> QED
      BY <1>0, <1>12, <2>7, <2>11, <2>13
  <1> QED
    BY <1>5, <1>14, <1>15

-----------------------------------------------------------------------------
(* The invariant, and what follows. *)

(* An empty stream, no consumer, no rows. *)
LEMMA InitRedis == Init => RedisInv
  <1> SUFFICES ASSUME Init PROVE RedisInv
    OBVIOUS
  <1> USE DEF Init
  <1>1. /\ {MaxEvents, MaxUnpublished, MaxLostReplies, MaxStops} \subseteq Nat
        /\ <<>> \in Seq(Envelope) /\ <<>> \in Seq(Entries) /\ <<>> \in Seq(1 .. MaxEvents)
        /\ Len(<<>>) = 0 /\ Entries = {} /\ ToSet(<<>>) = {}
    BY RedisAssumption DEF Entries, ToSet
  <1>2. TypeOK
    BY <1>1 DEF TypeOK
  <1>3. IsFiniteSet(used)
    BY FS_EmptySet
  <1>4. StreamNumbered /\ Owned /\ RowsHaveOwners /\ AppliedOnce
    BY <1>1 DEF StreamNumbered, Owned, RowsHaveOwners, AppliedOnce
  <1> QED
    BY <1>2, <1>3, <1>4 DEF RedisInv

(* Every step of Redis, the publishers and the instances keeps it. *)
LEMMA NextRedis == RedisInv /\ [Next]_vars => RedisInv'
  <1> SUFFICES ASSUME RedisInv, [Next]_vars PROVE RedisInv'
    OBVIOUS
  <1>1. CASE UNCHANGED vars
    <2>1. /\ stream' = stream /\ numbered' = numbered /\ lastRead' = lastRead
          /\ pending' = pending /\ idle' = idle /\ dlq' = dlq
          /\ used' = used /\ running' = running /\ channel' = channel
          /\ cursor' = cursor /\ rows' = rows /\ received' = received
          /\ unpublished' = unpublished /\ lostReplies' = lostReplies /\ stops' = stops
      BY <1>1 DEF vars, redisVars, instanceVars, boundVars
    <2>2. TypeOK' /\ IsFiniteSet(used')
      BY <2>1 DEF RedisInv, TypeOK, Entries
    <2>3. StreamNumbered' /\ Owned'
      BY <2>1 DEF RedisInv, StreamNumbered, Owned, Entries
    <2>4. RowsHaveOwners'
      BY <2>1, OwnersStay DEF RedisInv, Entries
    <2> QED
      BY <2>1, <2>2, <2>3, <2>4, RowsUntouched DEF RedisInv
  <1>2. ASSUME NEW k \in Keys, Publish(k) \/ PublishFails(k) PROVE RedisInv'
    BY <1>2, PublishInv, PublishFailsInv
  <1>3. ASSUME NEW c \in Names,
               Start(c) \/ Stop(c) \/ Poll(c) \/ PollFails(c) \/ Receive(c)
        PROVE  RedisInv'
    BY <1>3, StartInv, StopInv, PollInv, PollFailsInv, ReceiveInv
  <1>4. ASSUME NEW c \in Names, NEW i \in Entries, Elapse(c, i) PROVE RedisInv'
    BY <1>4, ElapseInv
  <1> QED
    BY <1>1, <1>2, <1>3, <1>4 DEF Next

(* The stream, the consumer group and the rows stay in RedisInv. *)
THEOREM RedisInvariance == Spec => []RedisInv
  BY InitRedis, NextRedis, PTL DEF Spec

(* RedisStreamsEventBus with a persistent read model: whatever is          *)
(* redelivered, reversed, lost or restarted, no event is added to a row    *)
(* twice, and while a single instance has run none after a later one.      *)
THEOREM RedeliveryAppliesOnce == Spec => []AppliedOnce
  <1>1. RedisInv => AppliedOnce
    BY DEF RedisInv
  <1> QED
    BY <1>1, RedisInvariance, PTL


=============================================================================
