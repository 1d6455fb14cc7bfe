--------------------------- MODULE MCRemoteExchange ---------------------------
(***************************************************************************)
(* An instance of RemoteExchange: a packet with two attempts and a request *)
(* of another kind.                                                        *)
(***************************************************************************)
EXTENDS RemoteExchange

CONSTANTS r1, r2

MCDispatches == {<<r1, 1>>, <<r1, 2>>}
=============================================================================
