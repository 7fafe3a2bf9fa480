------------------------- MODULE MCProjectionReplay -------------------------
(* Two aggregates of the projection that is replayed. *)
EXTENDS ProjectionReplay

MCTypeOf == [a \in Aggs |-> IF a = 3 THEN "sales" ELSE "inventory"]
=============================================================================
