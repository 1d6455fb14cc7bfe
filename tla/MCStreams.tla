------------------------------ MODULE MCStreams ------------------------------
(***************************************************************************)
(* An instance of Streams: two readers on one stream, one on another.      *)
(***************************************************************************)
EXTENDS Streams, TLC

CONSTANTS s1, s2, r1, r2, r3

TwoAndOne == r1 :> s1 @@ r2 :> s1 @@ r3 :> s2
=============================================================================
