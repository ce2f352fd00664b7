----------------------------- MODULE MCRpcChannel ----------------------------
(* RpcChannel on small instances; the constants are in the .cfg files.     *)
EXTENDS RpcChannel
=============================================================================
