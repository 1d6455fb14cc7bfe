---------------------------- MODULE MCPacketTrace ----------------------------
(***************************************************************************)
(* Small instances of PacketTrace: the tables are those of MCRuntime.      *)
(***************************************************************************)
EXTENDS MCRuntime, PacketTrace
=============================================================================
