---------------------------- MODULE OrderedLists ----------------------------
(***************************************************************************)
(* Lists in the order of their elements or of their places, by rank: the   *)
(* n-th element is the one with n - 1 before it.                           *)
(***************************************************************************)
EXTENDS Naturals, Sequences, FiniteSets

(* The numbers of a set, smallest first (an ORDER BY). *)
Ascending(S) ==
    [n \in 1 .. Cardinality(S) |-> CHOOSE c \in S : Cardinality({d \in S : d < c}) = n - 1]

(* What is left of a list when only members of a set are kept (a filter). *)
Keeping(s, S) ==
    LET places == Ascending({i \in 1 .. Len(s) : s[i] \in S}) IN
    [n \in 1 .. Len(places) |-> s[places[n]]]

=============================================================================
