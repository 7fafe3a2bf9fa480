--------------------------- MODULE MCRedisStreams ---------------------------
(* Small instances of RedisStreams for TLC. *)
EXTENDS RedisStreams

CONSTANTS k1, k2, c1, c2

AllKeys == [c \in Names |-> Keys]

(* c2 filters by the tenant of k1. *)
OneTenant == [c \in Names |-> IF c = c1 THEN Keys ELSE {k1}]

=============================================================================
