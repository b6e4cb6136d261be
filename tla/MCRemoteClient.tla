--------------------------- MODULE MCRemoteClient ---------------------------
(* Model-checking instances of RemoteClient. *)
EXTENDS RemoteClient
=============================================================================
