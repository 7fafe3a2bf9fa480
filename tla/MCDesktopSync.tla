--------------------------- MODULE MCDesktopSync ---------------------------
(* The commands are of one tenant and for one item. *)
EXTENDS DesktopSync

MCTenantOf == [c \in Cmds |-> "t1"]
MCItemOf == [c \in Cmds |-> "i1"]
=============================================================================
