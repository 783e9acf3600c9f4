---------------------------- MODULE MCRpcChannel ----------------------------
(* The host and one sandbox script: the script makes two calls, a handler of
   the host one call back. *)
EXTENDS RpcChannel

CONSTANTS host, script

MCPeers == {host, script}
MCSilent == {host}
MCCallers == {script}
MCMaxCalls == [p \in MCPeers |-> IF p = host THEN 1 ELSE 2]
=============================================================================
