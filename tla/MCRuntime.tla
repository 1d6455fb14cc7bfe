------------------------------ MODULE MCRuntime ------------------------------
(***************************************************************************)
(* Small instances of Runtime for TLC.  The calls and packets are model    *)
(* values; the tables below say what each call sends and how.              *)
(***************************************************************************)
EXTENDS Runtime, TLC

CONSTANTS s1, s2, s3, p1, p2, t1, t2, r1

\* Two packets with a task of their own, and two that share a task.
OwnTasks    == p1 :> t1 @@ p2 :> t2
SharedTasks == p1 :> t1 @@ p2 :> t1

OneRole == p1 :> r1 @@ p2 :> r1

\* Each call sends its own packet, or two send the same one and a third, to a
\* capability, the other.
TwoPackets == s1 :> p1 @@ s2 :> p2
SamePacket == s1 :> p1 @@ s2 :> p1 @@ s3 :> p2

BothAck          == s1 :> "ack" @@ s2 :> "ack"
AckAndCapability == s1 :> "ack" @@ s2 :> "capability"
EveryEntryPoint  == s1 :> "ack" @@ s2 :> "dispatch" @@ s3 :> "capability"
=============================================================================
