--------------------------- MODULE MCEndpointMounts ---------------------------
(* The endpoint manager's page left and entered again while a change of its *)
(* first mount is still being written: each mount has a queue of its own.   *)
EXTENDS EndpointConfig
=============================================================================
