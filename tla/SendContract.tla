---------------------------- MODULE SendContract ----------------------------
(***************************************************************************)
(* What the runtime promises the callers of send(), whatever happens       *)
(* between: a call is refused at once or admitted; a call that was         *)
(* admitted is answered or fails, once and for good; and the statistics    *)
(* say of every call, at the moment it ends, how it ended.                 *)
(***************************************************************************)
EXTENDS Naturals

CONSTANT Sends  \* the calls

VARIABLES
  stage,        \* how far each call is
  processed,    \* number of calls answered
  failed,       \* number of calls refused or failed
  deadLettered  \* number of calls failed

vars == <<stage, processed, failed, deadLettered>>

Init ==
  /\ stage = [s \in Sends |-> "idle"]
  /\ processed = 0
  /\ failed = 0
  /\ deadLettered = 0

Advance(s, from, to) ==
  /\ stage[s] = from
  /\ stage' = [stage EXCEPT ![s] = to]

Refuse(s) ==
  /\ Advance(s, "idle", "refused")
  /\ failed' = failed + 1
  /\ UNCHANGED <<processed, deadLettered>>

Admit(s) ==
  /\ Advance(s, "idle", "open")
  /\ UNCHANGED <<processed, failed, deadLettered>>

Answer(s) ==
  /\ Advance(s, "open", "answered")
  /\ processed' = processed + 1
  /\ UNCHANGED <<failed, deadLettered>>

Fail(s) ==
  /\ Advance(s, "open", "failed")
  /\ failed' = failed + 1
  /\ deadLettered' = deadLettered + 1
  /\ UNCHANGED processed

End(s) == Answer(s) \/ Fail(s)

Next == \E s \in Sends : Refuse(s) \/ Admit(s) \/ End(s)

Spec == Init /\ [][Next]_vars

FairSpec == Spec /\ \A s \in Sends : WF_vars(End(s))
=============================================================================
