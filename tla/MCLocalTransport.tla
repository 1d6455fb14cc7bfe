--------------------------- MODULE MCLocalTransport ---------------------------
(***************************************************************************)
(* An instance of LocalTransport: an envelope a fault rule may repeat,     *)
(* drop or precede by a cut, an answer, and a disconnect().                *)
(***************************************************************************)
EXTENDS LocalTransport

CONSTANTS s1, s2, a1, d1
=============================================================================
