------------------------ MODULE MCCommandDispatcher ------------------------
(* Small instances of CommandDispatcher for TLC. *)
EXTENDS CommandDispatcher, TLC

CONSTANTS k1, k2, Widget, r1, r2, r3, alice, bob, carol

OneEach == (r1 :> alice) @@ (r2 :> bob) @@ (r3 :> carol)

SmallDeltas == {-1, 0, 2, 3}

=============================================================================
