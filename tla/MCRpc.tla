------------------------------- MODULE MCRpc -------------------------------
(***************************************************************************)
(* Instance of Rpc for TLC: the service monitor and another server, and    *)
(* more requests than ob_sessions has elements.                            *)
(***************************************************************************)
EXTENDS Rpc

CONSTANTS monitor, other
=============================================================================
