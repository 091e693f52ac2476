-------------------------- MODULE MCPermissionBridge --------------------------
(***************************************************************************)
(* PermissionBridge with two calls that read and one that edits, one more  *)
(* than the bridge keeps open.                                             *)
(***************************************************************************)
EXTENDS PermissionBridge

MCRealKind == [c \in Calls |-> IF c = "editor" THEN "edit" ELSE "read"]

MCGrants == {{}, {"read"}, {"read", "write"}}
=============================================================================
