---------------------------- MODULE MCServerStop ----------------------------
(***************************************************************************)
(* ServerStop on small sets, without the record of what was written last:  *)
(* no action and no property of ServerStop reads it, and every fair action *)
(* changes something else, so that liveness is not affected either.        *)
(***************************************************************************)
EXTENDS ServerStop

View == <<phase, connections, name, joined, channels, users, svars>>

=============================================================================
