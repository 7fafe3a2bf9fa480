------------------------------ MODULE EventLog ------------------------------
(***************************************************************************)
(* What an event store promises: one sequence of events per stream, to the *)
(* end of which whole batches are added, each event at most once.  No      *)
(* transactions, rows, indexes or connections.                             *)
(***************************************************************************)
EXTENDS Sequences, Naturals

CONSTANTS
    Streams,  \* the streams
    Batches   \* the batches callers append: sequences of event ids

VARIABLE log  \* the events of each stream

Init == log = [s \in Streams |-> <<>>]

Append1(s, batch) ==
    /\ \A t \in Streams : \A i \in 1 .. Len(log[t]) : \A j \in 1 .. Len(batch) :
           log[t][i] # batch[j]
    /\ log' = [log EXCEPT ![s] = @ \o batch]

Next == \E s \in Streams : \E batch \in Batches : Append1(s, batch)

Spec == Init /\ [][Next]_log

=============================================================================
