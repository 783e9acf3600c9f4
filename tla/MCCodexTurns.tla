---------------------------- MODULE MCCodexTurns ----------------------------
(* One agent, its app-server, a few messages; the bounds are in the cfg. *)
EXTENDS CodexTurns
=============================================================================
