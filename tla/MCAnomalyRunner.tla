-------------------------- MODULE MCAnomalyRunner --------------------------
(* A small instance of AnomalyRunner for TLC. *)
EXTENDS AnomalyRunner, TLC

CONSTANTS k1, Widget, r1, r2, r3, alice

AllAlice == (r1 :> alice) @@ (r2 :> alice) @@ (r3 :> alice)

SmallDeltas == {-1, 2}
=============================================================================
