-------------------------- MODULE MCReconnectTimer --------------------------
(***************************************************************************)
(* Two connections in a client process.                                    *)
(***************************************************************************)
EXTENDS ReconnectTimer
=============================================================================
