----------------------------- MODULE MCRpcPeer -----------------------------
(* Model-checking instance of RpcPeer. *)
EXTENDS RpcPeer
=============================================================================
