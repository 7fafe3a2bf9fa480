------------------------ MODULE MCPostgresEventStore ------------------------
(* Small instances of PostgresEventStore for TLC. *)
EXTENDS PostgresEventStore, TLC

CONSTANTS c1, c2, k1, item, order

TwoTwo == (c1 :> 2) @@ (c2 :> 2)

=============================================================================
