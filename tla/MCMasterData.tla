---------------------------- MODULE MCMasterData ----------------------------
(* A small instance of MasterData for TLC. *)
EXTENDS MasterData

CONSTANTS item, firm, ann, title, mail

=============================================================================
